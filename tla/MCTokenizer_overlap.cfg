SPECIFICATION Spec
CONSTANTS
  Names <- MCNames
  Requests <- MCRequests
  auth_token = "secret"
  MaxLabels = 2
  NULL = NULL
INVARIANT CommandAsSent
