\* One optimisation with three scans that were matched with other drones.
CONSTANTS
  MaxPoses = 5
  MaxClosures = 2
  MaxExternal = 3
  MaxOptimizations = 1
SPECIFICATION Spec
INVARIANTS LaterScansSolved
CHECK_DEADLOCK FALSE
