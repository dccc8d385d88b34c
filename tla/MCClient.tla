------------------------------ MODULE MCClient ------------------------------
(* Instances of Client for TLC. *)
EXTENDS Client, TLC

CONSTANTS c1, c2, t1, t2, q1, q2, q3

Scene(m1, m2, u, a, r, f) ==
  [calls |-> (c1 :> [method |-> m1, thread |-> t1] @@
              c2 :> [method |-> m2, thread |-> u]),
   asks |-> a, reports |-> r, faults |-> f]

\* Two turns of one thread; a turn with all its reports; requests of the server,
\* up to one too many; and a turn beside a resume, a release, an interrupt, and a
\* resume of the other thread, for which RouteCap leaves no room.
PairScenes ==
  { Scene("turn/start", "turn/start", t1, {}, 2, 0),
    Scene("turn/start", "none", t1, {}, 4, 1),
    Scene("turn/start", "none", t1, {q1, q2, q3}, 1, 0),
    Scene("turn/start", "none", t1, {q1}, 1, 1),
    Scene("turn/start", "thread/resume", t1, {}, 0, 1),
    Scene("turn/start", "release", t1, {}, 1, 1),
    Scene("turn/start", "turn/interrupt", t2, {}, 1, 1),
    Scene("turn/start", "thread/resume", t2, {}, 0, 1) }
=============================================================================
