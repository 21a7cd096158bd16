\* The Round controller with a ninth requestor
SPECIFICATION FairSpec
CONSTANTS
 nBL = 2
 nCCD = 2
 nCL = 3
 nCWL = 2
 nRCD = 2
 nRP = 2
 nRAS = 4
 nRC = 6
 nRTP = 2
 nWTR = 2
 nWR = 2
 nRRD = 2
 nFAW = 6
 Banks = {0, 1, 2, 3, 4, 5, 6, 7, 8}
 NumRequestors = 9
 InOrder = TRUE
 RequestBufferSize = 1
 UIntMax = 65535
 NoRow = NoRow
 PrivateTraffic <- Ninth
 SlotTraffic <- Pair
 SharedTraffic <- Shared
 MEDUSATraffic <- Meeting
 ROCTraffic <- OfTwoRanks
 LowWatermark = 2
 RoundTraffic <- Ninth
 SlowRRD = 3
 ShortSlot = 1
 Garbage = {0}
 Systems = {"Round"}
PROPERTY EveryRequestServed
