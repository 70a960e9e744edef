CONSTANTS
  NULL = NULL
  Admins = {a1, a2}
  Directory = {}
  Browsers = {}
  People = {x1}
  Names = {"root", "ann"}
  Root = "root"
  Roles = {"admin"}
  Groups = {g1}
  GroupNames = {"leads", "staff"}
  RoleMap <- MCRoleMap
  Sessions = {s1}
  MaxPrincipals = 2
  MaxRequests = 4
SPECIFICATION Spec
INVARIANT AdministratorRemains
CHECK_DEADLOCK FALSE
