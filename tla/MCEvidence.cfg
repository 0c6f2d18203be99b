\* A run of each version, one record too few, two faults.
CONSTANTS
  old = old  m3 = m3  None = None
  Runs = {old, m3}
  Version <- VersionDef
  Files = {"events", "result"}
  MaxRecords = 3
  MaxObserved = 3
  MaxFaults = 2
SPECIFICATION FairSpec
INVARIANTS
  BundleIsComplete
  RecordHasNoGap
  LeavesNothingBehind
PROPERTIES
  KeepsFirstBundle
  Answers
CHECK_DEADLOCK FALSE
