SPECIFICATION MCSpec
CONSTANTS
  Id = {a, b, c}
  NoId = NoId
  Writer = {w1, w2}
  Searcher = {s1}
  Saver = {v1, v2}
  Caps = {1, 2}
  MaxBatch = 2
  MaxKey = 4
  MaxRestarts = 1
INVARIANTS KeyMapsAgree HitsBelong SizeBounded FreshKeysEmpty
PROPERTY RestoreRoundTrips
SYMMETRY Symmetry
CHECK_DEADLOCK FALSE
