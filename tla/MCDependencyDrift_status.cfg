SPECIFICATION StatusSpec
CONSTANTS
  Tag = {t1, t2, t3}
  Deletable = {}
  Filename = {f}
  Content <- Versions
  NoFile = NoFile
  Run = {r1}
  ModuleOf <- OneModule
  SeverityOf <- Severities
  Backends = {"postgres"}
  SerialPush = TRUE
  DayLength = 2
  MaxNow = 2
  MaxFaults = 0
  HalfWord = 8
SYMMETRY Symmetry
CHECK_DEADLOCK FALSE
INVARIANTS
  StatusTypeOK
  StatusesCoverUpdate
  StatusesAreNews
  VanishedNeedsReview
  DroppedReferenceNeedsReview
