\* The predictable controllers, liveness; three in-order requestors
SPECIFICATION SystemsSpec
CONSTANTS
 nBL = 2
 nCCD = 2
 nCL = 3
 nCWL = 2
 nRCD = 2
 nRP = 2
 nRAS = 4
 nRC = 6
 nRTP = 2
 nWTR = 2
 nWR = 2
 nRRD = 2
 nFAW = 6
 Banks = {0, 1, 2}
 NumRequestors = 3
 InOrder = TRUE
 RequestBufferSize = 1
 UIntMax = 65535
 NoRow = NoRow
 PrivateTraffic <- PrivateTwo
 SlotTraffic <- Pair
 SharedTraffic <- Shared
 MEDUSATraffic <- Meeting
 ROCTraffic <- OneOfARank
 LowWatermark = 2
 RoundTraffic <- PrivateTwo
 SlowRRD = 3
 ShortSlot = 1
 Garbage = {0}
 Systems = {"AMC", "PMC", "RTMem", "ORP", "DCmc", "MAG", "MEDUSA", "ROC", "PipeCAS", "Round"}
PROPERTY EveryRequestServed
