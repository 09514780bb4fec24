SPECIFICATION Spec
CONSTANTS
  Findings = {f1, f2}
  Statuses = {open, resolved}
  Accounts = {a1}
  None = None
  MaxCalls = 3
  Shared = {a1}
  CanFail = TRUE
SYMMETRY DashboardSymmetry
CHECK_DEADLOCK FALSE
INVARIANTS
  TypeOK
  OneUpdateAtATime
  DetailIsOfPage
  PatientSeesTruth
  LoadingHasCall
