\* The high-performance controllers; out-of-order requestors in three of them
SPECIFICATION SystemsSpec
CONSTANTS
 nBL = 2
 nCCD = 2
 nCL = 3
 nCWL = 2
 nRCD = 2
 nRP = 2
 nRAS = 4
 nRC = 6
 nRTP = 2
 nWTR = 2
 nWR = 2
 nRRD = 2
 nFAW = 6
 Banks = {0, 1, 2}
 UIntMax = 65535
 NoRow = NoRow
 NumRequestors = 2
 InOrder = FALSE
 NumInOrder = 3
 SlowRRD = 3
 Fast <- FastDevice
 RequestBufferSize = 1
 LargerBufferSize = 2
 Beats = 1
 lowwatermark = 1
 highwatermark = 1
 MarkingCap = 1
 localBcount = 8
 threshold = 2
 clearInterval = 5
 FRTraffic <- OneAddress
 FCFSTraffic <- Mixed
 BatchTraffic <- Writers
 BLISSTraffic <- OneBank
 PARBSTraffic <- TwoBanks
 Systems = {"FRFCFS", "FCFS", "FRFCFS_Batch", "BLISS", "PAR-BS"}
INVARIANT PassedAtMost
PROPERTIES ImplementsController ReturnsTheRightRequest CommandPriority DrainIsABatch ListingIsEarned
