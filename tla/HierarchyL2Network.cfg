\* The write-backs of the L1 cache in l2_decoupled_network
SPECIFICATION Spec
CONSTANTS
 Mshr2 = {m1, m2}
 Mshr3 = {n1, n2, n3}
 Wbs = {w1, w2}
 Parts = {"network"}
SYMMETRY Symmetry
PROPERTIES NoDirtyLost
