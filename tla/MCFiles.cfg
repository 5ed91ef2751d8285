SPECIFICATION MCSpec
CONSTANTS
  Name = {a}
  MaxLines = 5
  JSON_MAX_LINES = 4
  PLAINTEXT_MAX_LINES = 2
  Window = 3
  Stride = 1
  Extension <- const_Extension
  Kinds <- const_Kinds
  Symbol = {s}
  Source <- const_Source
  MaxNodes = 3
  MAX_CHUNK_LINES = 2
  SUB_CHUNK_WINDOW = 2
  SUB_CHUNK_STRIDE = 1
  File <- const_File
  Content = {"x", "y", "big", "raw"}
  Absent = "absent"
  NoFile = NoFile
  ChunksOf <- const_ChunksOf
  Big = {"big"}
  Unreadable = {"raw"}
  Minified = {}
  Handles <- const_Handles
  MaxEdits = 3
  MaxRuns = 1
  MaxRestarts = 1
  MaxFaults = 1
INVARIANTS DocChunksExact AstChunksExact WatchSound
PROPERTY Drains
CHECK_DEADLOCK FALSE
