SPECIFICATION Spec
CONSTANTS
  c1 = c1
  c2 = c2
  t1 = t1
  Callers = {c1, c2}
  t2 = t2
  q1 = q1
  q2 = q2
  q3 = q3
  Threads = {t1, t2}
  Scenarios <- PairScenes
  Asks = {q1, q2, q3}
  Subs = {s1}
  Inflight = 1
  EventCap = 1
  ReliableCap = 1
  AskCap = 2
  PipeCap = 2
  FailClosed = FALSE
  RouteCap = 1
  SubCap = 1
  DeferCap = 2
  TurnCap = 2
  OutcomeCap = 2
  TerminalCap = 1
  LossyCap = 1
  CommandCap = 2
  ControlCap = 1
INVARIANTS OutcomeIsTrue DeferralIsOwned HeardInOrder AskedOnce
CHECK_DEADLOCK FALSE
