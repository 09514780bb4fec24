SPECIFICATION Spec
CONSTANTS
  Jobs = {j1, j2, j3}
  Accounts = {a1, a2}
  Times = {1, 2}
  Workers = {w1, w2}
  Slots = {s1, s2}
  NoJob = NoJob
  NoAccount = NoAccount
  NoCall = NoCall
  CanFail = TRUE
  Hanging = {}
SYMMETRY QueueSymmetry
INVARIANTS
  TypeOK
  OneRunner
  RunningHasRunner
  AccountTellsLastEnd
PROPERTIES
  LifecycleSpec
  OldestFirst
