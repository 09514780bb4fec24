SPECIFICATION Spec
CONSTANTS
  Assets = {"one", "two"}
  Accounts = {"prod", "test"}
  AccountOf <- SplitAccounts
  Inventories <- MixedInventories
  Reports <- typeReports
  NoReport = NoReport
  Triages = {"OPEN", "RISK_ACCEPTED", "RESOLVED"}
INVARIANTS
  TypeOK
  GraphWellFormed
  PathsTellReports
  ControlsTellReports
