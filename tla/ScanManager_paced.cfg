\* The pace a mission needs, for drone 1 of three: the token is back before
\* the queue is full and before two poses are held back by a scan, a scan is
\* validated while it is acquired, and the next one starts after it was sent.
CONSTANTS
  NODE_ID = 1
  NR_OF_NODES = 3
  SCAN_LEN = 3
  QUEUE_SIZE = 4
  SCANS_PER_OPT = 4
  MaxPoses = 9
  TokenBy = 4
  MaxLocked = 1
  ValidateBy = 1
  SpinGap = 4
SPECIFICATION FairSpec
INVARIANTS EveryScanShared ScanFromItsStart IndexIsId
PROPERTY ScanUnlocked
