SPECIFICATION Spec
CONSTANTS
  Client = {1, 2}
  Workload <- UpdateOnce
  ForeignKeys = {TRUE}
  AdminToken = AdminToken
  None = None
CHECK_DEADLOCK FALSE
INVARIANT
  ShownTokenAuthenticates
