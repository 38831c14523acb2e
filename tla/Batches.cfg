SPECIFICATION Spec
CONSTANTS
  Callers = {c1, c2, c3}
  Instances = {w1}
  SyncInterval = 2
  NoSyncInterval = 1
  MaxWait = 2
  Horizon = 5
  MaxAdds = 3
  NoCall = NoCall
SYMMETRY CallerSymmetry
INVARIANTS TasksAreAccounted MissesAreNotHeld
PROPERTY BatchesAreSpaced
