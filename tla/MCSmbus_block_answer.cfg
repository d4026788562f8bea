SPECIFICATION Spec
CONSTANTS
  r = r
  a = a
  b = b
  p = p
  Adapter = {r, a, b, p}
  NoAdapter = NoAdapter
  Nr <- TheNr
  Parent <- TheParent
  MuxId <- TheMuxId
  Channel <- TheChannel
  Paths <- ThePaths
  MaxBusDepth = 5
  IntHalf = 1000
  Requests <- TheRequests
  BlockMax = 32
  Replies = {0, 32}
  NoDevice = NoDevice
INVARIANT AnswerFitsLength
CHECK_DEADLOCK FALSE
