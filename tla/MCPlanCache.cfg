CONSTANTS
  Params = {p1, p2, p3, p4, p5, p6}
  N = 4
  None = None
SPECIFICATION Spec
INVARIANTS TypeOK VictimFound Ranking NoDuplicate
PROPERTY ImplementsList
