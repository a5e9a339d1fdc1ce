SPECIFICATION Spec
CONSTANTS
  u1 = u1
  u2 = u2
  e1 = e1
  e2 = e2
  r1 = r1
  r2 = r2
  NULL = NULL
  Users <- MCUsers
  Emails <- MCEmails
  Requests <- MCRequests
  MaxAttempts = 2
  MaxId = 2
  MaxCodes = 4
SYMMETRY MCSymmetry
INVARIANTS OnePendingChange FailuresConverge CookiesNameTheirConfirmation AddressesComeFromOwnCodes
CHECK_DEADLOCK FALSE
