SPECIFICATION Spec
CONSTANTS
  u1 = u1
  u2 = u2
  u3 = u3
  r1 = r1
  r2 = r2
  NULL = NULL
  Operator = operator
  Users <- MCUsers2
  Requests <- MCRequests2
  Roles <- MCRoles
  RoleNames <- MCRoleNames
  RoleWriters <- MCRoles
  Admin = "admin"
  Suspensions = FALSE
SYMMETRY MCSymmetry2
INVARIANT HoldersAreMembers
