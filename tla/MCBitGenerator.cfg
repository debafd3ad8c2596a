CONSTANTS
  Procs = {p1, p2}
  MaxGens = 3
  MaxTasks = 3
  Seeds = {1}
  None = None
  Clock = Clock
SPECIFICATION Spec
CHECK_DEADLOCK FALSE
INVARIANTS TypeOK NoReplay NoLeak NeverInUse SeedHonoured
PROPERTY Reclaimed
