SPECIFICATION Spec
CONSTANTS
  Findings = {f1, f2}
  Statuses = {open, resolved}
  Accounts = {}
  None = None
  MaxCalls = 2
  Shared = {}
  CanFail = FALSE
CHECK_DEADLOCK FALSE
INVARIANT FilterHolds
