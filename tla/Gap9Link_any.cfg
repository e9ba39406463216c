\* Any calls, up to three packets damaged.
CONSTANTS
  GAP9_TICKS = 0
  MaxDamaged = 3
SPECIFICATION FairSpec
INVARIANT Inv
PROPERTIES ImplementsCalls CallsReturn
