SPECIFICATION Spec
CONSTANTS
  Emails = {e1, e2}
  Tenants = {t1, t2}
  Names = {"acme", "acme-2", "none"}
  Slugs = {"acme", "acme-2", "acme-3", "acme-4", "acme-2-2", "acme-2-3", "acme-2-4"}
  SlugsOf <- NamedSlugs
  AskedRoles = {"OWNER", "ADMIN"}
  Requests = {r1, r2}
  NoEmail = NoEmail
  NoTenant = NoTenant
  NoSlug = NoSlug
  NoName = NoName
  CanFail = TRUE
SYMMETRY TenancySymmetry
INVARIANTS
  TypeOK
  OwnersFounded
  OnlyFoundersAct
  StrandedHasCause
  LostStayOut
  SuffixesDense
