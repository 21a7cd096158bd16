\* Open page, a shared bank and buffer, two beats, out-of-order requestors
SPECIFICATION Spec
CONSTANTS
 nBL = 2
 nCCD = 2
 nCL = 3
 nCWL = 2
 nRCD = 2
 nRP = 2
 nRAS = 4
 nRC = 6
 nRTP = 2
 nWTR = 2
 nWR = 2
 nRRD = 2
 nFAW = 6
 Banks = {0}
 NumRequestors = 2
 Traffic <- Shared
 InOrder = FALSE
 RequestBufferSize = 1
 ReqPerREQ = FALSE
 WriteQueue = FALSE
 ClosePage = FALSE
 Beats = 2
 UIntMax = 65535
 NoRow = NoRow
INVARIANTS TypeOK BeatsConserved CoreMatches
PROPERTIES RowLegal BankTimingMet ServiceSpec
