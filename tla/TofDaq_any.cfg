\* The four sensors and the ten retries of the code.
CONSTANTS
  NR_OF_SENSORS = 4
  RETRIES = 10
SPECIFICATION FairSpec
INVARIANT FrameWhole
PROPERTY PosesKeepComing
