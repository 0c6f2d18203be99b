\* The calls of one model turn at the same time, a path .gitignore names, up to two failures.
CONSTANTS
  tracked = tracked  created = created  ignored = ignored
  small = small  other = other  large = large
  Absent = Absent  None = None
  Paths = {tracked, created, ignored}
  Contents = {small, other, large}
  Ignored = {ignored}
  Base <- BaseDef
  Size <- SizeDef
  MaxFiles = 2
  MaxTotal = 3
  Parallel = 2
  Staging = TRUE
  MaxFaults = 2
SPECIFICATION Spec
INVARIANTS
  BudgetExact
  RollsBackToBase
  RecoveryMeansRestored
  RecoveryHoldsCommitOrWork
  PublishedIsCheckedOut
  LeavesCleanCheckout
CHECK_DEADLOCK FALSE
