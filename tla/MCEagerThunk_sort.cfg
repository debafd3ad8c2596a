CONSTANTS
  Thunks = {t1, t2, t3}
  Bufs = {1, 2, 3}
  V = 2
  Size = 2
  Keys <- MCKeys
  None = None
SPECIFICATION SortSpec
SYMMETRY Symmetry
VIEW state
CHECK_DEADLOCK FALSE
INVARIANTS ViewsShareMemory
