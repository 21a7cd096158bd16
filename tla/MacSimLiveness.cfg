\* The parts of MacSim, liveness
SPECIFICATION FairSpec
CONSTANTS
 Mshr2 = {m1, m2}
 Mshr3 = {n1, n2, n3}
 Wbs = {w1}
 Parts = {"misses", "ring", "mesh", "requests", "stall", "ending", "barrier", "strides"}
INVARIANTS PacketsArriveWhole
PROPERTIES EveryMissAnswered
