SPECIFICATION Spec
CONSTANTS
  r1 = r1
  r2 = r2
  r3 = r3
  NULL = NULL
  Requests <- MCRequests2
  CodesPerBatch = 2
  MaxSecrets = 3
  MaxBatches = 2
  MaxSessions = 2
SYMMETRY MCSymmetry2
PROPERTY EnabledSecretsAreConfirmed
