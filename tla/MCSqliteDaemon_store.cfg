SPECIFICATION StoreSpec
CONSTANTS
  Tag = {t1, t2}
  Deletable = {t1, t2}
  Filename = {f}
  Content = {"x", "y"}
  NoFile = NoFile
  Run = {r1}
  ModuleOf <- OneModule
  SeverityOf <- Severities
  Backends = {"sqlite"}
  SerialPush = FALSE
  DayLength = 2
  MaxNow = 1
  MaxFaults = 2
  MaxErrors = 9
SYMMETRY Symmetry
CHECK_DEADLOCK FALSE
INVARIANTS
  ListedEventsTruthful
  LockHeldInTransaction
PROPERTIES
  ImplementsDaemon
