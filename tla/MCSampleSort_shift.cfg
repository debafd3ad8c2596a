CONSTANTS
  Problems <- MCShifted
  Values <- MCValues
SPECIFICATION Spec
INVARIANT ShiftsFit
CHECK_DEADLOCK FALSE
