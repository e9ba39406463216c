\* Any calls on a matrix of three rows with room for five elements.
CONSTANTS
  N = 3
  MAX_SIZE = 3
  MAX_SIZE_SP_MAT = 5
  MaxValue = 1
SPECIFICATION MatrixSpec
INVARIANTS RowsInOrder ReadsDense
CHECK_DEADLOCK FALSE
