SPECIFICATION Spec
CONSTANTS
  File = {f, g}
  Content = {x, y, m}
  Minified = {m}
  Absent = Absent
  Run = {r1, r2}
  NoRun = NoRun
  BatchSize = 1
  MaxHashes = 1
  Cap = 9
  MaxEdits = 1
  MaxCalls = 0
  MaxGen = 2
INVARIANTS HashCacheSound
SYMMETRY Symmetry
CHECK_DEADLOCK FALSE
