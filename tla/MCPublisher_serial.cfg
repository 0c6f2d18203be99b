\* One activation at a time, repeated: crashes, lost answers, one change by
\* others, every pair and triple of bundles of one correlation key.
CONSTANTS
  b1 = b1  b2 = b2  r1 = r1  r2 = r2  k = k  p1 = p1  p2 = p2
  c0 = c0  c1 = c1  c2 = c2  m1 = m1  a1 = a1  a2 = a2  a3 = a3
  Bundles = {b1, b2, r1, r2}
  Keys = {k}
  Payloads = {p1, p2}
  Commits = {c0, c1, c2, m1}
  Activations = {a1, a2, a3}
  Profile <- ProfileDef
  Key <- KeyDef
  Payload <- PayloadDef
  Source <- SourceDef
  Base <- BaseDef
  InitialBase = c0
  ForeignCommits = {m1}
  MaxActive = 1
  PageSize = 3
  MaxEvents = 1
  MaxFaults = 2
SPECIFICATION Spec
INVARIANTS
  OneReplyPerCorrelation
  QuietRunCompletes
SYMMETRY Symmetry
CHECK_DEADLOCK FALSE
