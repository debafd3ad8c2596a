CONSTANTS
  Unset = Unset
  None = None
  NaN = NaN
  NoPlace = NoPlace
  Least = 0
  Greatest = 99
  Shapes <- MCShapes
  NewShapes <- MCNewShapes
  Axes <- MCAxes
  Sequences <- MCSequences
  Blocks <- MCBlocks
  Samples <- MCSamples
  Masks <- MCMasks
  AxisTuples <- MCAxisTuples
  Factors <- MCFactors
  ContractAxes <- MCContractAxes
  Formulas <- MCFormulas
  OutShapes <- MCOutShapes
  Exponents <- MCExponents
  Chains <- MCChains
  Signed <- MCSigned
  NormAxes <- MCNormAxes
  Orders1 <- MCOrders1
  Power = 3
  ExpNorms = {10, 200, 900, 2000, 3000, 6000, 12000, 50000}
  StackShapes <- MCStacks
  num_procs = 4
  Talls <- MCTalls
  Infinite = 100
  Lines <- MCLines
SPECIFICATION CheckedSpec
INVARIANTS StatisticsAreNumpy LinesAreNumpy OrdersAreNumpy ShapesAreNumpy PartsAreNumpy ProductsAreExact MatricesAreServed
CHECK_DEADLOCK FALSE
