SPECIFICATION Spec
CONSTANTS
  Persister = {p}
  Flusher = {f}
  Inode = {i1, i2, i3, i4}
  NoInode = NoInode
  MaxVersion = 3
  MaxBoots = 0
  MaxFaults = 0
INVARIANT AlwaysReadable
SYMMETRY Symmetry
CHECK_DEADLOCK FALSE
