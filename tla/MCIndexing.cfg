CONSTANTS
  None = None
  Old = Old
  Shapes <- MCPickShapes
  Unset = Unset
  Indices <- MCIndices
  Givens <- MCGivens
  Axes <- MCAxes
  KeyItems <- MCKeyItems
  MaxItems = 3
SPECIFICATION PickSpec
INVARIANTS GetItemIsNumpy SetItemIsNumpy PicksAreNumpy
CHECK_DEADLOCK FALSE
