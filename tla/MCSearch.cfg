SPECIFICATION MCSpec
CONSTANTS
  Id = {a, b, c, d}
  Term = {t, u}
  Cap = 3
  Absent = Absent
  Corpora <- const_Corpora
  Caps <- const_Caps
  Queries <- const_Queries
  MaxLane = 2
  Multiplier <- const_Multiplier
  MaxHops = 3
  Index = {1, 2, 3}
  Contexts <- const_Contexts
  GlobalQueries <- const_GlobalQueries
  RankUnit = 238266
  Room = 10
  RankedHits <- const_RankedHits
  IndexName = {"i", "i?", "i/"}
  Files <- const_Files
  Endings = {{1}, {1, 2}}
  LruCap = 2
  MAX_CHUNKS_LIMIT = 2
  MaxLimit = 3
  MaxTopK = 2
  MaxHandles = 2
  MaxUpdates = 3
  Segment <- const_Segment
  MaxCalls = 2
INVARIANTS IndexSound GraphSound ResultsSound GlobalSound ApiSound ToolsSound
PROPERTY ImplementsCorpus
CHECK_DEADLOCK FALSE
