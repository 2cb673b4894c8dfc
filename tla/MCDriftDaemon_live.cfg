SPECIFICATION FairSpec
CONSTANTS
  Tag = {t1, t2}
  Deletable = {t1}
  Filename = {f}
  Content = {"x"}
  NoFile = NoFile
  Run = {r1, r2}
  ModuleOf <- OneModule
  SeverityOf <- Severities
  Backends = {"postgres"}
  SerialPush = TRUE
  DayLength = 2
  MaxNow = 1
  MaxFaults = 1
CHECK_DEADLOCK FALSE
INVARIANTS
  DriftComplete
PROPERTIES
  EveryTagProcessed
