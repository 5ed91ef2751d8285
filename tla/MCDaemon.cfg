SPECIFICATION MCSpec
CONSTANTS
  Proc = {p1, p2}
  Stopper = {s}
  Client = {c}
  MaxPort = 2
  MaxForeign = 2
  MaxKills = 1
  Shell <- const_Shell
  Ram <- const_Ram
  MaxBoots = 3
INVARIANTS DaemonSound CapsSound
PROPERTY StopStops
CHECK_DEADLOCK FALSE
