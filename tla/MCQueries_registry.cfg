SPECIFICATION QuerySpec
CONSTANTS
  Client = {1, 2, 3, 4, 5, 6}
  Run = {}
  Workload <- AllHandlers
  Scenarios <- All
  NameOrder <- Alphabetical
  Unparsable = {"bad"}
  ListLimit = 1
  DraftTTL = 1
  MaxNow = 0
  None = None
CHECK_DEADLOCK FALSE
INVARIANTS
  TypeOK
  PullReturnsOnePush
  AcceptedTwiceOnlyAfterDelete
  OrphansWereRaced
  DependencyRowsDeclared
  AckedPushHasDependencies
  UnresolvedOnlyAfterDelete
  TransitiveExact
  TransitiveDeclared
  RoundsBounded
  WalkListsSteady
