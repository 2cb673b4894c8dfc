SPECIFICATION StoreFairSpec
CONSTANTS
  Client = {1, 2, 3, 4}
  Workload <- EveryWorkload
  Drivers = {"postgres", "sqlite"}
  Unparsable = {"bad"}
  ListLimit = 1
  DraftTTL = 1
  MaxNow = 2
  MaxConns = 2
  None = None
CHECK_DEADLOCK FALSE
INVARIANTS
  FreshDraftKept
PROPERTIES
  DraftsOnlyWithoutStable
  ObsoleteDraftsExpire
  ImplementsRegistry
  VisibleInOrder
  LockFreed
  PoolRecovers
