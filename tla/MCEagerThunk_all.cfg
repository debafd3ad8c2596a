CONSTANTS
  Thunks = {t1, t2, t3}
  Bufs = {1, 2, 3}
  V = 1
  Size = 2
  Keys <- MCSlice
  None = None
SPECIFICATION AllSpec
SYMMETRY Symmetry
VIEW state
CHECK_DEADLOCK FALSE
INVARIANT WholeTree
