\* The tasks at any pace, for drone 0 of two.
CONSTANTS
  NODE_ID = 0
  NR_OF_NODES = 2
  SCAN_LEN = 2
  QUEUE_SIZE = 2
  SCANS_PER_OPT = 2
  MaxPoses = 4
  TokenBy = 3
  MaxLocked = 5
  ValidateBy = 5
  SpinGap = 0
SPECIFICATION Spec
INVARIANTS Inv ScanIntact TablesAgree PosesInOrder OptEveryFourth
