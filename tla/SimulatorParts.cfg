\* The refresh machine, the address mapping, the loop of main and a device with
\* the turnarounds of DDR3_1600K cut to about a half and a window that four
\* activations do not fill
SPECIFICATION PartsSpec
CONSTANTS
 Frequencies = {1, 2, 3, 4, 5, 6, 7}
 MaxUpdates = 21
 NumRequestors = 2
 NumChannels = 2
 Traces <- TwoTraces
 RequestBufferSize = 1
 MaxDelay = 1
 MaxHeld = 1
 DeviceBanks = {0, 1}
 Issued = {{"ACT"}, {"RD", "RDA", "WR", "WRA"}}
 nBL = 2
 nCCD = 2
 nCL = 7
 nCWL = 4
 nRCD = 3
 nRP = 3
 nRAS = 6
 nRC = 9
 nRTP = 2
 nWTR = 3
 nWR = 3
 nRRD = 2
 nFAW = 10
 Parts = {"clock", "distributed", "per-bank", "shared", "single", "multi", "in-order", "out-of-order", "device"}
INVARIANTS CallsKeepTheRatio Decoded EndedIsComplete BuffersBounded FourActivateWindow
PROPERTIES RefreshTakesItsTime EveryBankRefreshed SimulationEnds BusConflictFree
