SPECIFICATION InSpec
CONSTANTS
  m1 = m1
  m2 = m2
  Msgs = {m1, m2}
  Slots = {1, 2, 3}
  QueueCap = 2
  Budget = 2
  ReceivedMax = 1
  None = None
  OutCap = 3
  Pieces <- MCPieces
  WireCap = 2
  MaxPartial = 1
  PartBytes = 2
  PingEvery = 2
  PongTimeout = 1
  Scenes <- MCScenes
CHECK_DEADLOCK FALSE
INVARIANTS AckedIsKept CopiesAgree AcksMatch FragmentsAccounted
PROPERTIES NeverDeaf
