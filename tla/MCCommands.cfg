SPECIFICATION MCSpec
CONSTANTS
  Persister = {p}
  Flusher = {f}
  Inode = {1, 2, 3, 4}
  NoInode = 0
  MaxVersion = 2
  MaxBoots = 2
  MaxFaults = 1
  Rest = {1}
  Before <- const_Before
  MaxClock = 1
  MaxCommands = 2
  MaxUserEdits = 1
  MaxWriteFaults = 1
  Project = {"web-app", "Web App", "lib", "old"}
  Unreadable = {"old"}
  Elsewhere = "elsewhere"
  NameOf <- const_NameOf
  Concurrency = {0, 2}
  MaxOthers = 2
  MaxLosses = 1
INVARIANTS FilesSound ConfigsSound ConversionSound
PROPERTIES SavesAtomically ExitLeavesContent
CHECK_DEADLOCK FALSE
