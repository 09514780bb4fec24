SPECIFICATION FairSpec
CONSTANTS
  Tokens = {t1, t2}
  Families = {f1, f2}
  Requests = {r1, r2}
  NoToken = NoToken
  NoFamily = NoFamily
  CanFail = FALSE
INVARIANT RevokedHasCause
PROPERTIES
  EveryRequestEnds
  ReuseIsAudited
