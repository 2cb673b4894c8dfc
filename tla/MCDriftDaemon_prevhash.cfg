SPECIFICATION Spec
CONSTANTS
  Tag = {t1, t2}
  Deletable = {t1, t2}
  Filename = {f}
  Content = {"x", "y"}
  NoFile = NoFile
  Run = {r1}
  ModuleOf <- OneModule
  SeverityOf <- Severities
  Backends = {"postgres"}
  SerialPush = FALSE
  DayLength = 2
  MaxNow = 1
  MaxFaults = 0

CHECK_DEADLOCK FALSE
INVARIANTS
  PreviousHashedBeforeCompare
