\* Two steps at the same time, two workers, every limit exceeded by attempts;
\* every call ends.
CONSTANTS
  s1 = s1  s2 = s2  g1 = g1  g2 = g2  t1 = t1  t2 = t2  w1 = w1  w2 = w2
  Shared = FALSE
  Steps = {s1, s2}
  Scopes = {g1, g2}
  Tools = {t1, t2}
  Workers = {w1, w2}
  ScopeOf <- ScopeOfDef
  Allowed <- AllowedDef
  RunMax = 3
  ScopeMax <- ScopeMaxDef
  ToolMax <- ToolMaxDef
  RunTimeout = 3
  ScopeTimeout <- ScopeTimeoutDef
  ToolTimeout <- ToolTimeoutDef
  MaxAttempts = 4
  MaxTime = 3
SPECIFICATION FairSpec
INVARIANTS
  TypeOK
  WithinLimits
  
PROPERTY
  CallsEnd
CHECK_DEADLOCK FALSE
