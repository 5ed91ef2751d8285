SPECIFICATION Spec
CONSTANTS
  x = x
  y = y
  dx = dx
  dy = dy
  Id = {x, y}
  Root = {r, q}
  NoRoot = none
  NoId = noid
  Directory = {dx, dy}
  DirOf <- const_DirOf
  Handler = {h1, h2}
  MaxIndexers = 4
  MaxOps = 3
  MaxBoots = 2
  MaxFaults = 1
INVARIANTS TomlIsRegistry FilesOwned
PROPERTIES HealthIsFinal
CHECK_DEADLOCK FALSE
SYMMETRY Symmetry
