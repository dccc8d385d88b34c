----------------------------- MODULE MCExternal -----------------------------
EXTENDS External, TLC
CONSTANTS t1, t2, t3, go, again, steer, halt, stop, add, pop, f1, f2, a1, a2, r1, w1, w2, ann, bob

MCThreadOf ==
  [x \in {go, again, steer, halt, stop, add, pop, f1, a1, a2} |-> t1] @@ [x \in {f2} |-> t2]
MCKindOf == [i \in {go, again, steer, halt, stop, add, pop} |->
  CASE i \in {go, again} -> "start" [] i = steer -> "steer" [] i \in {halt, stop} -> "interrupt"
    [] i = add -> "add" [] i = pop -> "pop"]
MCSourceOf == [i \in {go, again, steer, halt, stop, add, pop} |-> IF i = halt THEN bob ELSE ann]
MCTarget == [i \in {go, again, steer, halt, stop, add, pop} |-> IF i = pop THEN add ELSE go]
MCAskTurn == [a \in {a1, a2} |-> go]

Scene == [sessions |-> {w1}, intents |-> {}, asks |-> {}, others |-> {}, adds |-> {}, stops |-> FALSE,
          overflow |-> FALSE, brief |-> FALSE, misreports |-> FALSE, managed |-> {t1},
          epochs |-> 2, faults |-> 1]
MCScenes ==
  {[Scene EXCEPT !.sessions = {r1}, !.epochs = 6, !.faults = 2, !.adds = {t2, t3}, !.others = {f1}],
   [Scene EXCEPT !.sessions = {r1}, !.epochs = 6, !.faults = 2, !.others = {f1}, !.misreports = TRUE],
   [Scene EXCEPT !.sessions = {r1, w1}, !.epochs = 3, !.intents = {go}, !.stops = TRUE],
   [Scene EXCEPT !.sessions = {w1, w2}, !.epochs = 3, !.intents = {go}, !.others = {f1}],
   [Scene EXCEPT !.intents = {go, steer, halt}, !.faults = 2],
   [Scene EXCEPT !.intents = {go, stop}],
   [Scene EXCEPT !.intents = {go, again}, !.others = {f1}],
   [Scene EXCEPT !.intents = {go, add, pop}, !.faults = 2],
   [Scene EXCEPT !.sessions = {w1, w2}, !.intents = {go}, !.asks = {a1}, !.brief = TRUE,
                 !.overflow = TRUE],
   [Scene EXCEPT !.intents = {go}, !.asks = {a1, a2}]}
=============================================================================
