SPECIFICATION ClientSpec
CONSTANTS
  Subscriber = {s1}
  Client = s1
  Last = 6
  MaxReplay = 2
  Capacity = 2
  Batches <- const_Batches
INVARIANTS StreamsInOrder ClientTold
PROPERTIES CompleteReachesLive ClientEnds
CHECK_DEADLOCK FALSE
