SPECIFICATION Spec
CONSTANTS
  Assets = {"bucket", "role"}
  Policies = {"p1"}
  Accounts = {"prod", "test"}
  AccountOf <- OneAccount
  CanFail = TRUE
  Triages = {"OPEN", "RISK_ACCEPTED", "RESOLVED"}
  Askers = {"p"}
  Explained <- OneFinding
INVARIANTS
  TypeOK
  GraphShowsActive
  VerdictStands
  TriageStands
  OldGuidanceIsLate
PROPERTY AtomicSpec
