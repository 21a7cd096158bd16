\* DDR3_1600K, x8
SPECIFICATION Spec
CONSTANTS
 nBL = 4
 nCCD = 4
 nCL = 11
 nCWL = 8
 nRCD = 11
 nRP = 11
 nRAS = 28
 nRC = 39
 nRTP = 6
 nWTR = 6
 nWR = 12
 nRRD = 5
 nFAW = 24
 Banks = {0, 1, 2, 3, 4}
 Issued = {{"ACT_R", "ACT_W"}}
INVARIANT FourActivateWindow
