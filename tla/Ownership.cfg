SPECIFICATION OwnSpec
CONSTANTS
  a = a
  b = b
  t1 = t1
  t2 = t2
  Scopes = {a, b}
  Threads = {t1, t2}
  None = None
  MaxDomains = 2
  Scenes <- MCScenes
CHECK_DEADLOCK FALSE
INVARIANTS ReleasedIsGone TableSound
PROPERTIES TurnIsOwned KeepsPromise StopsAndSettles
