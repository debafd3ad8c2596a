CONSTANTS
  Problems <- MCProblems
  Values <- MCValues
SPECIFICATION Spec
INVARIANTS SortsTheWhole ExchangesFit
PROPERTY Terminates
CHECK_DEADLOCK FALSE
