SPECIFICATION Spec
CONSTANTS
  Names <- MCLongName
  Requests = {}
  auth_token = "secret"
  MaxLabels = 2
  NULL = NULL
INVARIANT WildcardsCoverName
