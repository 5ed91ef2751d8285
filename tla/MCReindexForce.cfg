SPECIFICATION FairSpec
CONSTANTS
  File = {f, g}
  Content = {x, m}
  Minified = {m}
  Absent = Absent
  Run = {r1, r2}
  NoRun = NoRun
  BatchSize = 2
  MaxHashes = 9
  Cap = 2
  MaxEdits = 0
  MaxCalls = 1
  MaxGen = 1
INVARIANT ForcedRunCovers
PROPERTY RunTerminates
CHECK_DEADLOCK FALSE
