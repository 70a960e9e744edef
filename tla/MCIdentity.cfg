CONSTANTS
  NULL = NULL
  Admins = {a1}
  Directory = {d1}
  Browsers = {b1}
  People = {x1, x2}
  Names = {"root", "ann"}
  Root = "root"
  Roles = {"admin"}
  Groups = {g1, g2}
  GroupNames = {"leads", "staff"}
  RoleMap <- MCRoleMap
  Sessions = {s1}
  MaxPrincipals = 3
  MaxRequests = 4
SPECIFICATION Spec
SYMMETRY MCSymmetry
INVARIANTS IdentitiesHold BindingsExplained
PROPERTIES ExternalIdIsPermanent LocalGrantsStay
CHECK_DEADLOCK FALSE
