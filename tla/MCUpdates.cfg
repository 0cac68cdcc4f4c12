SPECIFICATION FairSpec
CONSTANTS
  Apps = {a1}
  Histories <- EveryKind
  MaxRelease = 3
  MaxAppRelease = 2
  MaxChanges = 1
  MaxChecks = 2
CHECK_DEADLOCK FALSE
INVARIANTS TypeOK BoxMailedOnce InstallerFindsLock ProgressMatchesLock
PROPERTIES UpdateSettles
