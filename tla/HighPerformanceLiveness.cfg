\* The high-performance controllers; in-order requestors
SPECIFICATION SystemsSpec
CONSTANTS
 nBL = 2
 nCCD = 2
 nCL = 3
 nCWL = 2
 nRCD = 2
 nRP = 2
 nRAS = 4
 nRC = 6
 nRTP = 2
 nWTR = 2
 nWR = 2
 nRRD = 2
 nFAW = 6
 Banks = {0, 1, 2}
 UIntMax = 65535
 NoRow = NoRow
 NumRequestors = 3
 InOrder = TRUE
 NumInOrder = 3
 SlowRRD = 3
 Fast <- FastDevice
 RequestBufferSize = 1
 LargerBufferSize = 2
 Beats = 1
 lowwatermark = 1
 highwatermark = 1
 MarkingCap = 1
 localBcount = 8
 threshold = 1
 clearInterval = 3
 FRTraffic <- TwoReaders
 FCFSTraffic <- ReadsOnly
 BatchTraffic <- Writers
 BLISSTraffic <- Three
 PARBSTraffic <- Three
 Systems = {"FRFCFS", "FCFS", "FRFCFS_Batch", "BLISS"}
PROPERTIES EveryRequestServed DrainOver
