\* Any graph of five poses with up to three scans matched with other drones,
\* optimised up to two times.
CONSTANTS
  MaxPoses = 5
  MaxClosures = 2
  MaxExternal = 3
  MaxOptimizations = 2
SPECIFICATION Spec
INVARIANTS FirstGraphSolved EdgesInGraph EveryPoseMovedOnce
CHECK_DEADLOCK FALSE
