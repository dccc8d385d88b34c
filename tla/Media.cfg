SPECIFICATION MediaSpec
CONSTANTS
  t1 = t1
  t2 = t2
  a = a
  b = b
  d = d
  f1 = f1
  f2 = f2
  w1 = w1
  Turns = {t1, t2}
  Contents = {a, b, d}
  NoContent = NoContent
  Fetches = {f1, f2}
  TurnOf <- TwoTurns
  Cancellable = {t1}
  Doubtful = {t1}
  Fragile = {a}
  MaxFiles = 0
  RowCap = 1
  LeaseCap = 2
  MaxFaults = 1
  Workspaces = {w1}
  SourceOf <- Voice1
  MediaScenes <- Scenes
  CleanupAttempts = 2
  MaxAsrFaults = 1
INVARIANTS FilesStay SpeechIsErasable ChildrenOwned
PROPERTIES MediaSettles
CHECK_DEADLOCK FALSE
