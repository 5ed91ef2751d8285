SPECIFICATION Spec
CONSTANTS
  a = a
  b = b
  c = c
  f = f
  g = g
  Id = {a, b, c}
  File = {f, g}
  FileOf <- const_FileOf
  Writer = {w1, w2}
  Searcher = {s}
  Cap = 2
  CacheCap = 1
  SnapshotCap = 2
  MaxVersion = 1
  MaxOps = 3
  MaxSearchOps = 2
  MaxFaults = 1
INVARIANTS StructuresInSync SearchExact
CHECK_DEADLOCK FALSE
SYMMETRY Symmetry
