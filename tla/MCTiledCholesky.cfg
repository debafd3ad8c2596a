CONSTANTS
  NumProcs = {1, 2, 3}
  Extents <- MCExtents
  MinTile = 2
  MinMatrix = 2
SPECIFICATION Spec
INVARIANTS TypeOK LaunchesIndependent TilesCover
PROPERTIES ImplementsBlock Terminates
