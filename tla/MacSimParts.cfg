\* The parts of MacSim
SPECIFICATION Spec
CONSTANTS
 Mshr2 = {m1, m2}
 Mshr3 = {n1, n2, n3}
 Wbs = {w1, w2}
 Parts = {"tile", "banked", "gpu", "stores", "merge", "misses", "external", "frfcfs", "leftover", "fcfs", "ooo", "io", "processes", "crowded", "repeated", "x86", "ptx", "warps", "late", "strides"}
SYMMETRY Symmetry
INVARIANTS HitIsOwnLine OnePlace CountsMatch InProgramOrder
PROPERTIES LeastRecentlyUsed NoDirtyLost SourcesFirst
