SPECIFICATION FairSpec
CONSTANTS
  Jobs = {j1, j2, j3}
  Accounts = {a1}
  Times = {1, 2}
  Workers = {w1, w2}
  Slots = {s1}
  NoJob = NoJob
  NoAccount = NoAccount
  NoCall = NoCall
  CanFail = TRUE
  Hanging = {w2}
PROPERTIES
  EveryJobEnds
  PollingGoesOn
