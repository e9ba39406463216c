SPECIFICATION Spec
CONSTANTS
  MAX_SIZE = 9
  MAX_SIZE_SP_MAT = 46
  N = 9
  NUM_CORES = 2
  Iterations = 2
  MaxConstraints = 2
  Differences = {{0}, {0, 1}}
INVARIANTS
  HAssembled
  InCuthillMcKeeOrder
  FactorIsCholesky
  SolutionInPlace
