SPECIFICATION Spec
CONSTANTS
  Requests = {"u1", "u2"}  Names = {"f", "g", "h", "f.tmp", "tmp", "f_1", "f_2"}  BadNames = {"../h"}
  Tmp <- MCTmp  Alt <- MCAlt  Size <- Sizes  MaxFiles = 2  Quota = 2  MaxCrashes = 2
  Starts <- Skips
PROPERTY RollbackIsOwn
CHECK_DEADLOCK FALSE
