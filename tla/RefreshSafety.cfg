SPECIFICATION Spec
CONSTANTS
  Tokens = {t1, t2, t3}
  Families = {f1}
  Requests = {r1, r2}
  NoToken = NoToken
  NoFamily = NoFamily
  CanFail = TRUE
SYMMETRY TokenSymmetry
INVARIANTS
  TypeOK
  OneUsablePerFamily
  LinearChain
  AuditAfterEffect
  OnlyOvertakenSurvive
PROPERTIES
  SessionSpec
