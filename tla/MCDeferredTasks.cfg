CONSTANTS
  Procs = 4
  CacheSize = 3
  Width = 2
  TempBase = 66
  TempSize = 18
  Contents <- MCContents
  Matrices <- MCMatrices
  Vectors <- MCVectors
  Cubes <- MCCubes
  Operands <- MCOperands
  Mask <- M
  Result <- MCResult
SPECIFICATION Spec
INVARIANTS TasksAreNumpy KernelsAreNumpy PiecesIndependent
CHECK_DEADLOCK FALSE
