\* A second optimisation after one loop closure.
CONSTANTS
  MaxPoses = 4
  MaxClosures = 1
  MaxExternal = 0
  MaxOptimizations = 2
SPECIFICATION Spec
INVARIANTS SolvesItsGraph
CHECK_DEADLOCK FALSE
