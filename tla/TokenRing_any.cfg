\* Four drones, two of which may lose power, and the five attempts of the
\* code; one lost exchange in a hop.
SPECIFICATION FairSpec
CONSTANTS
  NR_OF_NODES = 4
  ATTEMPTS = 5
  MaxLoss = 1
  ClaimMin = 2
  ClaimMax = 3
  MaxMsgs = 2
  Powered = {0, 1, 2, 3}
  MayFail = {1, 2}
INVARIANTS OneToken Inv TokenNotLost
PROPERTIES EveryDroneGetsToken AllOptimize ImplementsTokenPassing
