SPECIFICATION StoreSpec
CONSTANTS
  Client = {1, 2, 3, 4, 5}
  Workload <- TokensAndPermissions
  Drivers = {"postgres", "sqlite"}
  ForeignKeys = {TRUE}
  AdminToken = AdminToken
  None = None
CHECK_DEADLOCK FALSE
INVARIANTS
  TypeOK
  AllowedWasEffective
  PermissionsHaveUsers
  RotatedTokenStaysDead
  DeactivationHolds
PROPERTIES
  ImplementsUsers
