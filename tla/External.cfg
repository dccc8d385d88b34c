CONSTANTS
  t1 = t1 t2 = t2 t3 = t3 stop = stop go = go again = again steer = steer halt = halt add = add pop = pop f1 = f1 f2 = f2
  a1 = a1 a2 = a2 r1 = r1 w1 = w1 w2 = w2 ann = ann bob = bob
  Threads = {t1, t2, t3}
  Intents = {go, again, steer, halt, stop, add, pop}
  Asks = {a1, a2}
  Turns = {go, again, steer, halt, stop, add, pop, f1}
  ThreadOf <- MCThreadOf
  KindOf <- MCKindOf
  SourceOf <- MCSourceOf
  AskTurn <- MCAskTurn
  Target <- MCTarget
  NoIntent = NoIntent
  NoThread = NoThread
  ThreadCap = 2
  Sessions = {r1, w1, w2}
  Writers = {w1, w2}
  MailCap = 1
  ApprovalCap = 1
  Scenes <- MCScenes
SPECIFICATION Spec
INVARIANTS VerdictTrue MaybeIsFenced OwnTarget ReadyIsComplete AnsweredOnce
PROPERTIES KnowledgeStays ThreadsSettle
CHECK_DEADLOCK FALSE
