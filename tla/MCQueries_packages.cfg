SPECIFICATION QuerySpec
CONSTANTS
  Client = {1, 2, 3, 4}
  Run = {r1, r2}
  Workload <- PackagesHandlers
  Scenarios <- Packages
  NameOrder <- Alphabetical
  Unparsable = {"bad"}
  ListLimit = 1
  DraftTTL = 1
  MaxNow = 0
  None = None
SYMMETRY RunSymmetry
CHECK_DEADLOCK FALSE
INVARIANTS
  PackagesOfOnePush
  StaleTagOnlyAfterDelete
