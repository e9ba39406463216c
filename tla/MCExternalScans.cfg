\* Two senders: a packet of a scan is lost or arrives up to three times, a
\* packet of updates is lost, and a turn is skipped.  Three scans and the
\* copies of a packet fill the buffer.
CONSTANTS
  ME = 2
  SCAN_LEN = 2
  MAX_SCANS = 3
  BUF_SIZE = 8
  ATTEMPTS = 3
  MaxScans = 2
  MaxOptimized = 2
  ScansOf <- MCScansOf
  OptimizationsOf <- MCOptimizationsOf
  MaxFaulty = 1
  MaxUpdLost = 1
  MaxSkipped = 1
SPECIFICATION Spec
INVARIANTS Inv IntactBatch MatchedOnce BufferFits
PROPERTY UpdatesApplied
CHECK_DEADLOCK FALSE
