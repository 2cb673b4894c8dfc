SPECIFICATION Spec
CONSTANTS
  Client = {1, 2, 3, 4}
  Workload <- Immutable
  Unparsable = {"bad"}
  ListLimit = 1
  DraftTTL = 1
  MaxNow = 0
  None = None

CHECK_DEADLOCK FALSE
INVARIANTS
  PushedContentNeverChanges
