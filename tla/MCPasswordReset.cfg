SPECIFICATION Spec
CONSTANTS
  u1 = u1
  u2 = u2
  r1 = r1
  r2 = r2
  NULL = NULL
  Users <- MCUsers
  Requests <- MCRequests
  MaxId = 3
  MaxLinks = 3
SYMMETRY MCSymmetry
INVARIANTS Coherent SpentLinksAreDead
