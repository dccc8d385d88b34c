---------------------------- MODULE ExternalProofs ----------------------------
(***************************************************************************)
(* The coordinators of a shared endpoint, for every number of sessions,    *)
(* threads, mutations, approval requests, epochs and faults.               *)
(*                                                                         *)
(* The first part is about the tables: what each transaction does to them  *)
(* (... Is) and that CoreInv and FenceInv survive it.  An epoch ends in    *)
(* several ways, by sets of rows that are named differently; they all      *)
(* close just what is under way (CloseAll), because nothing under way is   *)
(* of an earlier epoch.                                                    *)
(*                                                                         *)
(* The second part is the inductive invariant.  VerdictInv follows a       *)
(* mutation from its command over the wire to its answer; OwnInv says who  *)
(* made its target; AnswerInv does the same for approvals, and has to say  *)
(* which events are still in the queues of sessions of an older epoch;     *)
(* ReadyInv says where the end of a turn is while a thread is reconciled:  *)
(* in the pages, in the mailbox, or yet to be taken.                       *)
(*                                                                         *)
(* The third part has one lemma per action: Kept, which is the invariant   *)
(* in the next state and that nothing known is taken back.                 *)
(***************************************************************************)
EXTENDS External, TLAPS

\* Intents are turns and have a thread; approval requests are neither turns nor NoIntent.
LEMMA ThreadsOf ==
  /\ \A i \in Intents : i \in Turns /\ ThreadOf[i] \in Threads /\ i # NoIntent /\ i \notin Asks
  /\ \A a \in Asks : ThreadOf[a] \in Threads /\ a # NoIntent /\ a \notin Turns
  /\ \A u \in Turns : ThreadOf[u] \in Threads /\ u # NoIntent
  BY ExternalStoreAssumption

\* The states of the rows, and the tables.
IntentStates == {"none", "prepared", "sent", "uncertain", "rejected", "applied"}
FenceStates == {"absent", "open", "active", "uncertain"}
ClaimStates == {"none", "received", "claimed", "responding", "denied", "resolved", "uncertain"}

EndpointSet ==
  [epoch : Nat, state : {"none", "connecting", "reconciling", "ready", "unavailable", "stopped"}]
ThreadSet == [epoch : Nat, state : {"none", "unavailable", "reconciling", "ready", "uncertain"}]
Outcomes == {"none", "completed", "failed"}
IntentSet == [state : IntentStates, epoch : Nat, result : Turns \cup {NoIntent}]
FenceSet == [state : FenceStates, epoch : Nat, active : Turns \cup {NoIntent}]
ClaimSet == [state : ClaimStates, epoch : Nat]

Tabled ==
  [endpoint : EndpointSet,
   thread : [Threads -> ThreadSet],
   fence : [Threads -> FenceSet],
   intent : [Intents -> IntentSet],
   claim : [Asks -> ClaimSet],
   term : [Turns -> Outcomes]]

\* Nothing that is under way is of an earlier epoch.
Underway == {"prepared", "sent"}
Undecided == {"received", "claimed", "responding"}
CoreInv(d) ==
  /\ \A t \in Threads : d.fence[t].state # "absent" => d.fence[t].epoch = d.endpoint.epoch
  /\ \A i \in Intents : d.intent[i].state \in Underway =>
       /\ d.intent[i].epoch = d.endpoint.epoch
       /\ d.fence[ThreadOf[i]].state # "absent"
  /\ \A a \in Asks : d.claim[a].state \in Undecided =>
       /\ d.claim[a].epoch = d.endpoint.epoch
       /\ d.fence[ThreadOf[a]].state # "absent"
  /\ \A t \in Threads : Unsettled(d, t) => d.fence[t].state # "absent"

\* The fence says which.
FenceInv(d) ==
  /\ \A t \in Threads : Unsettled(d, t) <=> d.fence[t].state = "uncertain"
  /\ \A i \in Intents : d.intent[i].state \in Underway =>
       d.fence[ThreadOf[i]].state = "active" /\ d.fence[ThreadOf[i]].active = i

DbInv(d) == d \in Tabled /\ CoreInv(d) /\ FenceInv(d)

\* What an intent or a claim becomes when its epoch ends.
ClosedIntent(x) ==
  CASE x.state = "prepared" -> [x EXCEPT !.state = "rejected"]
    [] x.state = "sent" -> [x EXCEPT !.state = "uncertain"]
    [] OTHER -> x
ClosedClaim(x) == IF x.state \in Undecided THEN [x EXCEPT !.state = "uncertain"] ELSE x

CloseAll(d, n) ==
  /\ n \in Tabled
  /\ n.term = d.term
  /\ \A i \in Intents : n.intent[i] = ClosedIntent(d.intent[i])
  /\ \A a \in Asks : n.claim[a] = ClosedClaim(d.claim[a])
  /\ \A t \in Threads :
       IF d.fence[t].state = "absent" THEN n.fence[t] = d.fence[t]
       ELSE /\ n.fence[t].state = IF Unsettled(n, t) THEN "uncertain" ELSE "open"
            /\ n.fence[t].epoch = n.endpoint.epoch
            /\ n.fence[t].active = NoIntent

\* The sets name everything of the current epoch.
Covers(d, I, A, T) ==
  /\ I \subseteq Intents /\ A \subseteq Asks /\ T \subseteq Threads
  /\ \A i \in Intents : d.intent[i].epoch = d.endpoint.epoch => i \in I
  /\ \A a \in Asks : d.claim[a].epoch = d.endpoint.epoch => a \in A
  /\ \A t \in Threads : d.fence[t].epoch = d.endpoint.epoch => t \in T

\* A thread that is ready in the current epoch.
IsReady(d, t) == d.thread[t].epoch = d.endpoint.epoch /\ d.thread[t].state = "ready"

\* A transaction that at most ends what is under way.
Quiet(d, n) ==
  /\ \A i \in Intents : n.intent[i] \in {d.intent[i], ClosedIntent(d.intent[i])}
  /\ \A a \in Asks : n.claim[a] \in {d.claim[a], ClosedClaim(d.claim[a])}
  /\ \A u \in Turns : d.term[u] # "none" => n.term[u] = d.term[u]
  /\ \A t \in Threads : d.fence[t].state = "uncertain" => n.fence[t].state = "uncertain"
  /\ n.endpoint.epoch >= d.endpoint.epoch
\* No thread becomes ready, and a ready one stays of its epoch.
ReadyKept(d, n) ==
  \A t \in Threads : IsReady(n, t) => IsReady(d, t) /\ n.endpoint.epoch = d.endpoint.epoch

\* CloseIntents, row by row.
LEMMA CloseIntentsIs ==
  ASSUME NEW d \in Tabled, NEW S \in SUBSET Intents, NEW n, n = CloseIntents(d, S)
  PROVE  /\ n \in Tabled
         /\ n.endpoint = d.endpoint /\ n.thread = d.thread /\ n.fence = d.fence
         /\ n.claim = d.claim /\ n.term = d.term
         /\ \A i \in Intents : n.intent[i] = IF i \in S THEN ClosedIntent(d.intent[i]) ELSE d.intent[i]
<1>1. \A i \in Intents : d.intent[i] \in IntentSet
  BY DEF Tabled
<1>2. \A i \in Intents : ClosedIntent(d.intent[i]) \in
        IntentSet
  BY <1>1 DEF ClosedIntent, IntentStates, IntentSet
<1>3. CloseIntents(d, S) = [d EXCEPT !.intent = [i \in Intents |-> IF i \in S THEN ClosedIntent(d.intent[i]) ELSE d.intent[i]]]
  <2>1. ASSUME NEW i \in Intents
        PROVE  (CASE i \in S /\ d.intent[i].state = "prepared" -> [d.intent[i] EXCEPT !.state = "rejected"]
                  [] i \in S /\ d.intent[i].state = "sent" -> [d.intent[i] EXCEPT !.state = "uncertain"]
                  [] OTHER -> d.intent[i])
               = IF i \in S THEN ClosedIntent(d.intent[i]) ELSE d.intent[i]
    BY DEF ClosedIntent
  <2> QED
    BY <2>1 DEF CloseIntents
<1> DEFINE f == [i \in Intents |-> IF i \in S THEN ClosedIntent(d.intent[i]) ELSE d.intent[i]]
<1>4. f \in [Intents -> IntentSet]
  BY <1>1, <1>2
<1>5. n = [d EXCEPT !.intent = f]
  BY <1>3
<1>6. \A i \in Intents : f[i] = IF i \in S THEN ClosedIntent(d.intent[i]) ELSE d.intent[i]
  OBVIOUS
<1> HIDE DEF f
<1> QED
  BY <1>4, <1>5, <1>6 DEF Tabled

\* CloseClaims, row by row.
LEMMA CloseClaimsIs ==
  ASSUME NEW d \in Tabled, NEW S \in SUBSET Asks, NEW n, n = CloseClaims(d, S)
  PROVE  /\ n \in Tabled
         /\ n.endpoint = d.endpoint /\ n.thread = d.thread /\ n.fence = d.fence
         /\ n.intent = d.intent /\ n.term = d.term
         /\ \A a \in Asks : n.claim[a] = IF a \in S THEN ClosedClaim(d.claim[a]) ELSE d.claim[a]
<1>1. \A a \in Asks : d.claim[a] \in ClaimSet
  BY DEF Tabled
<1>2. \A a \in Asks : ClosedClaim(d.claim[a]) \in ClaimSet
  BY <1>1 DEF ClosedClaim, ClaimStates, ClaimSet, Undecided
<1> DEFINE f == [a \in Asks |-> IF a \in S THEN ClosedClaim(d.claim[a]) ELSE d.claim[a]]
<1>4. f \in [Asks -> ClaimSet]
  BY <1>1, <1>2
<1>5. n = [d EXCEPT !.claim = f]
  BY DEF CloseClaims, ClosedClaim, Undecided
<1>6. \A a \in Asks : f[a] = IF a \in S THEN ClosedClaim(d.claim[a]) ELSE d.claim[a]
  OBVIOUS
<1> HIDE DEF f
<1> QED
  BY <1>4, <1>5, <1>6 DEF Tabled

\* ResetFences, row by row.
LEMMA ResetFencesIs ==
  ASSUME NEW d \in Tabled, NEW e \in Nat, NEW S \in SUBSET Threads, NEW n, n = ResetFences(d, e, S)
  PROVE  /\ n \in Tabled
         /\ n.endpoint = d.endpoint /\ n.thread = d.thread /\ n.claim = d.claim
         /\ n.intent = d.intent /\ n.term = d.term
         /\ \A t \in Threads :
              n.fence[t] = IF t \in S /\ d.fence[t].state # "absent"
                           THEN [state |-> IF Unsettled(d, t) THEN "uncertain" ELSE "open",
                                 epoch |-> e, active |-> NoIntent]
                           ELSE d.fence[t]
<1>1. \A t \in Threads : d.fence[t] \in FenceSet
  BY DEF Tabled
<1> DEFINE g(t) == [state |-> IF Unsettled(d, t) THEN "uncertain" ELSE "open",
                    epoch |-> e, active |-> NoIntent]
           f == [t \in Threads |-> IF t \in S /\ d.fence[t].state # "absent" THEN g(t) ELSE d.fence[t]]
<1>2. \A t \in Threads : g(t) \in FenceSet
  BY DEF FenceStates, FenceSet
<1>3. \A t \in Threads : f[t] = IF t \in S /\ d.fence[t].state # "absent" THEN g(t) ELSE d.fence[t]
  OBVIOUS
<1>5. n = [d EXCEPT !.fence = f]
  BY DEF ResetFences
<1>4. f \in [Threads -> FenceSet]
  <2> HIDE DEF g
  <2> QED BY <1>1, <1>2
<1> HIDE DEF f
<1> QED
  BY <1>3, <1>4, <1>5 DEF Tabled

\* What is unsettled is a matter of intents and claims.
LEMMA UnsettledIs ==
  ASSUME NEW d, NEW n, NEW t, d.intent = n.intent, d.claim = n.claim
  PROVE  Unsettled(d, t) <=> Unsettled(n, t)
  BY DEF Unsettled

\* The end of an epoch closes everything that is under way, by whichever set it is named.
LEMMA ClosingIs ==
  ASSUME NEW d \in Tabled, CoreInv(d), NEW o \in Tabled, NEW n, NEW e \in Nat,
         NEW I, NEW A, NEW T, Covers(d, I, A, T),
         o.fence = d.fence, o.intent = d.intent, o.claim = d.claim, o.term = d.term,
         o.endpoint.epoch = e,
         n = ResetFences(CloseClaims(CloseIntents(o, I), A), e, T)
  PROVE  CloseAll(d, n) /\ n.endpoint = o.endpoint /\ n.thread = o.thread
<1> DEFINE x == CloseIntents(o, I)
           y == CloseClaims(x, A)
<1>1. /\ x \in Tabled
      /\ x.endpoint = o.endpoint /\ x.thread = o.thread /\ x.fence = o.fence
      /\ x.claim = o.claim /\ x.term = o.term
      /\ \A i \in Intents : x.intent[i] = IF i \in I THEN ClosedIntent(o.intent[i]) ELSE o.intent[i]
  BY CloseIntentsIs DEF Covers
<1> HIDE DEF x
<1>2. /\ y \in Tabled
      /\ y.endpoint = x.endpoint /\ y.thread = x.thread /\ y.fence = x.fence
      /\ y.intent = x.intent /\ y.term = x.term
      /\ \A a \in Asks : y.claim[a] = IF a \in A THEN ClosedClaim(x.claim[a]) ELSE x.claim[a]
  BY <1>1, CloseClaimsIs DEF Covers
<1> HIDE DEF y
<1>3. n = ResetFences(y, e, T)
  BY DEF x, y
<1>4. /\ n \in Tabled
      /\ n.endpoint = y.endpoint /\ n.thread = y.thread /\ n.claim = y.claim
      /\ n.intent = y.intent /\ n.term = y.term
      /\ \A t \in Threads :
           n.fence[t] = IF t \in T /\ y.fence[t].state # "absent"
                        THEN [state |-> IF Unsettled(y, t) THEN "uncertain" ELSE "open",
                              epoch |-> e, active |-> NoIntent]
                        ELSE y.fence[t]
  BY <1>2, <1>3, ResetFencesIs DEF Covers
<1>5. \A i \in Intents : n.intent[i] = ClosedIntent(d.intent[i])
  <2> SUFFICES ASSUME NEW i \in Intents PROVE n.intent[i] = ClosedIntent(d.intent[i])
    OBVIOUS
  <2>1. i \notin I => d.intent[i].state \notin Underway
    BY DEF CoreInv, Covers
  <2>2. d.intent[i].state \notin Underway => ClosedIntent(d.intent[i]) = d.intent[i]
    BY DEF Underway, ClosedIntent
  <2> QED
    BY <1>1, <1>2, <1>4, <2>1, <2>2
<1>6. \A a \in Asks : n.claim[a] = ClosedClaim(d.claim[a])
  <2> SUFFICES ASSUME NEW a \in Asks PROVE n.claim[a] = ClosedClaim(d.claim[a])
    OBVIOUS
  <2>1. a \notin A => d.claim[a].state \notin Undecided
    BY DEF CoreInv, Covers
  <2>2. d.claim[a].state \notin Undecided => ClosedClaim(d.claim[a]) = d.claim[a]
    BY DEF ClosedClaim
  <2> QED
    BY <1>1, <1>2, <1>4, <2>1, <2>2
<1>7. \A t \in Threads : Unsettled(n, t) <=> Unsettled(y, t)
  BY <1>4, UnsettledIs
<1>8. \A t \in Threads : d.fence[t].state # "absent" => t \in T
  BY DEF CoreInv, Covers
<1>9. ASSUME NEW t \in Threads, d.fence[t].state # "absent"
      PROVE  /\ n.fence[t].state = IF Unsettled(n, t) THEN "uncertain" ELSE "open"
             /\ n.fence[t].epoch = n.endpoint.epoch
             /\ n.fence[t].active = NoIntent
  <2>1. n.fence[t] = [state |-> IF Unsettled(y, t) THEN "uncertain" ELSE "open",
                      epoch |-> e, active |-> NoIntent]
    BY <1>1, <1>2, <1>4, <1>8, <1>9
  <2> QED
    BY <1>1, <1>2, <1>4, <1>7, <2>1
<1>10. ASSUME NEW t \in Threads, d.fence[t].state = "absent" PROVE n.fence[t] = d.fence[t]
  <2>1. y.fence = d.fence
    BY <1>1, <1>2
  <2>2. n.fence[t] = y.fence[t]
    BY <1>4, <1>10, <2>1
  <2> QED
    BY <2>1, <2>2
<1> QED
  BY <1>1, <1>2, <1>4, <1>5, <1>6, <1>9, <1>10 DEF CloseAll

\* Closing settles nothing.
LEMMA StaysUnsettled ==
  ASSUME NEW d \in Tabled, NEW n \in Tabled, NEW t \in Threads,
         \A i \in Intents : n.intent[i] = ClosedIntent(d.intent[i]),
         \A a \in Asks : n.claim[a] = ClosedClaim(d.claim[a]),
         Unsettled(d, t)
  PROVE  Unsettled(n, t)
  BY DEF Unsettled, ClosedIntent, ClosedClaim, Undecided

\* After an epoch has ended nothing is under way and the fences say what is uncertain.
LEMMA ClosingKeeps ==
  ASSUME NEW d \in Tabled, CoreInv(d), NEW n, CloseAll(d, n)
  PROVE  DbInv(n)
<1>1. n \in Tabled
  BY DEF CloseAll
<1>2. \A i \in Intents : n.intent[i].state \notin Underway
  <2>1. ASSUME NEW i \in Intents PROVE n.intent[i].state \notin Underway
    <3>1. d.intent[i] \in IntentSet
      BY DEF Tabled
    <3> QED
      BY <3>1 DEF CloseAll, ClosedIntent, Underway, IntentSet, IntentStates
  <2> QED BY <2>1
<1>3. \A a \in Asks : n.claim[a].state \notin Undecided
  <2>1. ASSUME NEW a \in Asks PROVE n.claim[a].state \notin Undecided
    <3>1. d.claim[a] \in ClaimSet
      BY DEF Tabled
    <3> QED
      BY <3>1 DEF CloseAll, ClosedClaim, Undecided, ClaimSet, ClaimStates
  <2> QED BY <2>1
<1>4. ASSUME NEW t \in Threads, d.fence[t].state = "absent"
      PROVE  ~ Unsettled(n, t) /\ n.fence[t].state = "absent"
  <2>1. ~ Unsettled(d, t)
    BY <1>4 DEF CoreInv
  <2>2. ASSUME NEW i \in Intents, ThreadOf[i] = t PROVE n.intent[i].state # "uncertain"
    <3>1. d.intent[i].state # "uncertain" /\ d.intent[i].state \notin Underway
      BY <1>4, <2>1, <2>2 DEF CoreInv, Unsettled
    <3> QED
      BY <3>1 DEF CloseAll, ClosedIntent, Underway, IntentSet, IntentStates
  <2>3. ASSUME NEW a \in Asks, ThreadOf[a] = t PROVE n.claim[a].state # "uncertain"
    <3>1. d.claim[a].state # "uncertain" /\ d.claim[a].state \notin Undecided
      BY <1>4, <2>1, <2>3 DEF CoreInv, Unsettled
    <3> QED
      BY <3>1 DEF CloseAll, ClosedClaim, Undecided, ClaimSet, ClaimStates
  <2> QED
    BY <1>4, <2>2, <2>3 DEF CloseAll, Unsettled
<1>5. ASSUME NEW t \in Threads, d.fence[t].state # "absent"
      PROVE  /\ n.fence[t].epoch = n.endpoint.epoch
             /\ Unsettled(n, t) <=> n.fence[t].state = "uncertain"
             /\ n.fence[t].state # "absent"
  BY <1>5 DEF CloseAll
<1>6. CoreInv(n)
  BY <1>2, <1>3, <1>4, <1>5 DEF CoreInv
<1>7. FenceInv(n)
  <2>1. \A t \in Threads : Unsettled(n, t) <=> n.fence[t].state = "uncertain"
    BY <1>4, <1>5
  <2> QED
    BY <1>2, <2>1 DEF FenceInv
<1> QED
  BY <1>1, <1>6, <1>7 DEF DbInv

\* The end of an epoch only rejects what was prepared and leaves the rest uncertain.
LEMMA ClosingIsQuiet ==
  ASSUME NEW d, DbInv(d), NEW n, CloseAll(d, n), n.endpoint.epoch >= d.endpoint.epoch
  PROVE  Quiet(d, n)
<1>1. ASSUME NEW t \in Threads, d.fence[t].state = "uncertain" PROVE n.fence[t].state = "uncertain"
  <2>1. Unsettled(d, t)
    BY <1>1 DEF DbInv, FenceInv
  <2>2. Unsettled(n, t)
    BY <2>1, StaysUnsettled DEF CloseAll, DbInv
  <2> QED
    BY <1>1, <2>2 DEF CloseAll
<1> QED
  BY <1>1 DEF CloseAll, Quiet

\* reserve_external_epoch.
LEMMA ReserveEpochIs ==
  ASSUME NEW d, DbInv(d), NEW n, n = ReserveEpoch(d)
  PROVE  /\ DbInv(n) /\ Quiet(d, n)
         /\ n.endpoint.epoch = d.endpoint.epoch + 1
         /\ \A t \in Threads : ~ IsReady(n, t)
<1> DEFINE e == d.endpoint.epoch + 1
           f == [t \in Threads |-> IF d.thread[t].state \in {"none", "uncertain"} THEN d.thread[t]
                                   ELSE [epoch |-> e, state |-> "unavailable"]]
           o == [d EXCEPT !.endpoint = [epoch |-> e, state |-> "connecting"], !.thread = f]
<1>1. d \in Tabled /\ CoreInv(d)
  BY DEF DbInv
<1>2. e \in Nat
  BY <1>1 DEF Tabled, EndpointSet
<1>3. f \in [Threads -> ThreadSet]
  <2>1. \A t \in Threads : d.thread[t] \in ThreadSet
    BY <1>1 DEF Tabled
  <2>2. [epoch |-> e, state |-> "unavailable"] \in ThreadSet
    BY <1>2 DEF ThreadSet
  <2> HIDE DEF e
  <2> QED BY <2>1, <2>2
<1>4. \A t \in Threads : f[t].state # "ready"
  <2> HIDE DEF e
  <2> QED OBVIOUS
<1> HIDE DEF f
<1>5. /\ o \in Tabled /\ o.fence = d.fence /\ o.intent = d.intent /\ o.claim = d.claim
      /\ o.term = d.term /\ o.endpoint.epoch = e /\ o.thread = f
  <2> DEFINE p == [epoch |-> e, state |-> "connecting"]
  <2>1. p \in EndpointSet /\ p.epoch = e
    BY <1>2 DEF EndpointSet
  <2>2. o = [d EXCEPT !.endpoint = p, !.thread = f]
    OBVIOUS
  <2> HIDE DEF e, p, o
  <2> QED BY <1>1, <1>3, <2>1, <2>2 DEF Tabled
<1>6. n = ResetFences(CloseClaims(CloseIntents(o, Intents), Asks), e, Threads)
  BY DEF ReserveEpoch, f
<1> HIDE DEF o
<1>7. CloseAll(d, n) /\ n.endpoint = o.endpoint /\ n.thread = o.thread
  <2>1. Covers(d, Intents, Asks, Threads)
    BY DEF Covers
  <2> HIDE DEF e
  <2> QED BY <1>1, <1>2, <1>5, <1>6, <2>1, ClosingIs
<1>8. n.endpoint.epoch = d.endpoint.epoch + 1
  BY <1>5, <1>7
<1>9. DbInv(n)
  BY <1>1, <1>7, ClosingKeeps
<1>10. n.endpoint.epoch >= d.endpoint.epoch
  BY <1>1, <1>8 DEF Tabled, EndpointSet
<1> QED
  BY <1>4, <1>5, <1>7, <1>8, <1>9, <1>10, ClosingIsQuiet DEF IsReady

\* mark_external_unavailable in the current epoch: its rows are all that can be under way.
LEMMA MarkUnavailableCloses ==
  ASSUME NEW d \in Tabled, CoreInv(d), NEW n, n = MarkUnavailable(d, d.endpoint.epoch)
  PROVE  /\ CloseAll(d, n) /\ n.endpoint.epoch = d.endpoint.epoch
         /\ ReadyKept(d, n)
<1> DEFINE e == d.endpoint.epoch
           f == [t \in Threads |-> IF d.thread[t].epoch = e /\ d.thread[t].state \notin {"none", "uncertain"}
                                   THEN [d.thread[t] EXCEPT !.state = "unavailable"] ELSE d.thread[t]]
           o == [d EXCEPT !.endpoint.state = "unavailable", !.thread = f]
           I == {i \in Intents : d.intent[i].epoch = e}
           A == {a \in Asks : d.claim[a].epoch = e}
           T == {t \in Threads : d.fence[t].epoch = e}
<1>1. e \in Nat /\ d.endpoint \in EndpointSet
  BY DEF Tabled, EndpointSet
<1>2. \A t \in Threads : d.thread[t] \in ThreadSet
  BY DEF Tabled
<1>3. ASSUME NEW t \in Threads
      PROVE  /\ f[t] \in ThreadSet
             /\ f[t].epoch = e => f[t].state # "ready"
  <2> DEFINE q == [d.thread[t] EXCEPT !.state = "unavailable"]
  <2>1. q \in ThreadSet /\ q.state = "unavailable"
    BY <1>2 DEF ThreadSet
  <2>2. f[t] = IF d.thread[t].epoch = e /\ d.thread[t].state \notin {"none", "uncertain"}
               THEN q ELSE d.thread[t]
    OBVIOUS
  <2> HIDE DEF e, f, q
  <2> QED BY <1>2, <2>1, <2>2
<1>4. f \in [Threads -> ThreadSet]
  <2> DEFINE g(t) == IF d.thread[t].epoch = e /\ d.thread[t].state \notin {"none", "uncertain"}
                     THEN [d.thread[t] EXCEPT !.state = "unavailable"] ELSE d.thread[t]
  <2>1. f = [t \in Threads |-> g(t)]
    OBVIOUS
  <2> HIDE DEF g
  <2>2. \A t \in Threads : f[t] = g(t)
    BY <2>1
  <2> HIDE DEF f
  <2>3. \A t \in Threads : g(t) \in ThreadSet
    BY <1>3, <2>2
  <2> QED BY <2>1, <2>3
<1>5. n = ResetFences(CloseClaims(CloseIntents(o, I), A), e, T)
  BY DEF MarkUnavailable
<1> HIDE DEF f
<1>6. /\ o \in Tabled /\ o.fence = d.fence /\ o.intent = d.intent /\ o.claim = d.claim
      /\ o.term = d.term /\ o.endpoint.epoch = e /\ o.thread = f
  <2> DEFINE p == [d.endpoint EXCEPT !.state = "unavailable"]
  <2>1. p \in EndpointSet /\ p.epoch = e
    BY <1>1 DEF EndpointSet
  <2>2. o = [d EXCEPT !.endpoint = p, !.thread = f]
    BY DEF Tabled
  <2> HIDE DEF e, p, o
  <2> QED BY <1>4, <2>1, <2>2 DEF Tabled
<1> HIDE DEF o
<1>7. CloseAll(d, n) /\ n.endpoint = o.endpoint /\ n.thread = o.thread
  <2>1. Covers(d, I, A, T)
    BY DEF Covers
  <2> HIDE DEF e, I, A, T
  <2> QED
    BY <1>1, <1>5, <1>6, <2>1, ClosingIs
<1> QED
  BY <1>3, <1>6, <1>7 DEF ReadyKept, IsReady

\* Nothing happens to the tables.
LEMMA QuietSame ==
  ASSUME NEW d, DbInv(d)
  PROVE  Quiet(d, d) /\ ReadyKept(d, d)
  BY DEF DbInv, Quiet, ReadyKept, Tabled, EndpointSet

\* mark_external_unavailable, in any epoch.
LEMMA MarkUnavailableIs ==
  ASSUME NEW d, DbInv(d), NEW e, NEW n, n = MarkUnavailable(d, e)
  PROVE  DbInv(n) /\ Quiet(d, n) /\ ReadyKept(d, n) /\ n.endpoint.epoch = d.endpoint.epoch
<1>1. d \in Tabled /\ CoreInv(d)
  BY DEF DbInv
<1>2. CASE d.endpoint.epoch = e
  <2>1. CloseAll(d, n) /\ n.endpoint.epoch = d.endpoint.epoch /\ ReadyKept(d, n)
    BY <1>1, <1>2, MarkUnavailableCloses
  <2>2. n.endpoint.epoch >= d.endpoint.epoch
    BY <1>1, <2>1 DEF Tabled, EndpointSet
  <2> QED
    BY <1>1, <2>1, <2>2, ClosingKeeps, ClosingIsQuiet
<1>3. CASE d.endpoint.epoch # e
  <2>1. n = d
    BY <1>3 DEF MarkUnavailable
  <2> QED
    BY <2>1, QuietSame
<1> QED
  BY <1>2, <1>3

\* Tables that differ in their endpoint's state and their threads only.
LEMMA SameWriting ==
  ASSUME NEW d, DbInv(d), NEW n \in Tabled,
         n.fence = d.fence, n.intent = d.intent, n.claim = d.claim,
         n.endpoint.epoch = d.endpoint.epoch,
         \A u \in Turns : d.term[u] # "none" => n.term[u] = d.term[u]
  PROVE  DbInv(n) /\ Quiet(d, n)
<1>1. \A t \in Threads : Unsettled(n, t) <=> Unsettled(d, t)
  BY UnsettledIs
<1>2. CoreInv(n)
  BY <1>1 DEF DbInv, CoreInv
<1>3. FenceInv(n)
  BY <1>1 DEF DbInv, FenceInv
<1>4. n.endpoint.epoch >= d.endpoint.epoch
  BY DEF Tabled, EndpointSet
<1> QED
  BY <1>2, <1>3, <1>4 DEF DbInv, Quiet

\* set_external_endpoint_state.
LEMMA SetEndpointIs ==
  ASSUME NEW d, DbInv(d), NEW e, NEW n,
         NEW state \in {"reconciling", "ready", "stopped"}, n = SetEndpoint(d, e, state)
  PROVE  DbInv(n) /\ Quiet(d, n) /\ ReadyKept(d, n) /\ n.endpoint.epoch = d.endpoint.epoch
<1>1. CASE d.endpoint.epoch = e
  <2>1. n = [d EXCEPT !.endpoint.state = state]
    BY <1>1 DEF SetEndpoint
  <2>2. d \in Tabled
    BY DEF DbInv
  <2> DEFINE p == [d.endpoint EXCEPT !.state = state]
  <2>3. p \in EndpointSet /\ p.epoch = d.endpoint.epoch
    BY <2>2 DEF Tabled, EndpointSet
  <2>4. n = [d EXCEPT !.endpoint = p]
    BY <2>1, <2>2 DEF Tabled
  <2> HIDE DEF p
  <2>5. /\ n \in Tabled /\ n.fence = d.fence /\ n.intent = d.intent /\ n.claim = d.claim
        /\ n.term = d.term /\ n.thread = d.thread /\ n.endpoint.epoch = d.endpoint.epoch
    BY <2>2, <2>3, <2>4 DEF Tabled
  <2> QED
    BY <2>5, SameWriting DEF ReadyKept, IsReady
<1>2. CASE d.endpoint.epoch # e
  BY <1>2, QuietSame DEF SetEndpoint
<1> QED
  BY <1>1, <1>2

Threaded(d, n, t, r) == n = [d EXCEPT !.thread[t] = r]

\* A transaction that writes one thread row.
LEMMA ThreadSetIs ==
  ASSUME NEW d, DbInv(d), NEW n, NEW t \in Threads, NEW r \in ThreadSet,
         Threaded(d, n, t, r)
  PROVE  /\ DbInv(n) /\ Quiet(d, n) /\ n.endpoint.epoch = d.endpoint.epoch
         /\ n.thread[t] = r /\ \A x \in Threads \ {t} : n.thread[x] = d.thread[x]
         /\ r.state # "ready" => ReadyKept(d, n)
<1> DEFINE f == [d.thread EXCEPT ![t] = r]
<1>1. d \in Tabled /\ d.thread \in [Threads -> ThreadSet]
  BY DEF DbInv, Tabled
<1>2. f \in [Threads -> ThreadSet] /\ f[t] = r /\ \A x \in Threads \ {t} : f[x] = d.thread[x]
  BY <1>1
<1>3. n = [d EXCEPT !.thread = f]
  BY <1>1 DEF Tabled, Threaded
<1> HIDE DEF f
<1>4. /\ n \in Tabled /\ n.fence = d.fence /\ n.intent = d.intent /\ n.claim = d.claim
      /\ n.term = d.term /\ n.thread = f /\ n.endpoint = d.endpoint
  BY <1>1, <1>2, <1>3 DEF Tabled
<1>5. DbInv(n) /\ Quiet(d, n)
  BY <1>4, SameWriting
<1>6. ASSUME NEW x \in Threads, r.state # "ready", IsReady(n, x) PROVE IsReady(d, x)
  <2>1. x # t
    BY <1>2, <1>4, <1>6 DEF IsReady
  <2> QED
    BY <1>2, <1>4, <1>6, <2>1 DEF IsReady
<1> QED
  BY <1>2, <1>4, <1>5, <1>6 DEF ReadyKept

\* register_external_thread.
LEMMA RegisterThreadIs ==
  ASSUME NEW d, DbInv(d), NEW t \in Threads, NEW n, n = RegisterThread(d, t)
  PROVE  DbInv(n) /\ Quiet(d, n) /\ ReadyKept(d, n) /\ n.endpoint.epoch = d.endpoint.epoch
<1>1. CASE t \in Managed(d)
  BY <1>1, QuietSame DEF RegisterThread
<1>2. CASE t \notin Managed(d)
  <2> DEFINE r == [epoch |-> d.endpoint.epoch, state |-> "unavailable"]
  <2>1. r \in ThreadSet /\ r.state # "ready"
    BY DEF DbInv, Tabled, EndpointSet, ThreadSet
  <2>2. Threaded(d, n, t, r)
    BY <1>2 DEF RegisterThread, Threaded
  <2> HIDE DEF r
  <2> QED
    BY <2>1, <2>2, ThreadSetIs
<1> QED
  BY <1>1, <1>2

\* begin_external_reconciliation.
LEMMA BeginReconciliationIs ==
  ASSUME NEW d, DbInv(d), NEW t \in Threads, NEW e \in Nat, NEW n, n = BeginReconciliation(d, t, e)
  PROVE  /\ DbInv(n) /\ Quiet(d, n) /\ ReadyKept(d, n) /\ n.endpoint.epoch = d.endpoint.epoch
         /\ ~ IsReady(n, t)
<1> DEFINE r == [epoch |-> e, state |-> "reconciling"]
<1>1. r \in ThreadSet /\ r.state = "reconciling" /\ r.state # "ready"
  BY DEF ThreadSet
<1>2. Threaded(d, n, t, r)
  BY DEF BeginReconciliation, Threaded
<1> HIDE DEF r
<1> QED
  <2>1. DbInv(n) /\ Quiet(d, n) /\ n.endpoint.epoch = d.endpoint.epoch /\ n.thread[t] = r
          /\ ReadyKept(d, n)
    BY <1>1, <1>2, ThreadSetIs
  <2> QED
    BY <1>1, <2>1 DEF IsReady

\* mark_external_thread_uncertain.
LEMMA MarkThreadUncertainIs ==
  ASSUME NEW d, DbInv(d), NEW t \in Threads, NEW e \in Nat, NEW n, n = MarkThreadUncertain(d, t, e)
  PROVE  /\ DbInv(n) /\ Quiet(d, n) /\ ReadyKept(d, n) /\ n.endpoint.epoch = d.endpoint.epoch
<1>1. CASE d.thread[t].epoch = e /\ d.endpoint.epoch = e
  <2> DEFINE r == [d.thread[t] EXCEPT !.state = "uncertain"]
  <2>0. d.thread[t] \in ThreadSet /\ d \in Tabled /\ d.thread \in [Threads -> ThreadSet]
    BY DEF DbInv, Tabled
  <2>1. r \in ThreadSet /\ r.state = "uncertain"
    BY <2>0 DEF ThreadSet
  <2>2. Threaded(d, n, t, r)
    BY <1>1, <2>0 DEF MarkThreadUncertain, Threaded
  <2> HIDE DEF r
  <2> QED
    BY <2>1, <2>2, ThreadSetIs
<1>2. CASE ~ (d.thread[t].epoch = e /\ d.endpoint.epoch = e)
  BY <1>2, QuietSame DEF MarkThreadUncertain
<1> QED
  BY <1>1, <1>2

\* What apply_terminals records.
Recorded(d, n, t, ended) ==
  \A u \in Turns : /\ ThreadOf[u] # t => n.term[u] = d.term[u]
                   /\ ThreadOf[u] = t /\ ended[u] # "none" => n.term[u] = ended[u]

Records(d, n, t, ended, to) ==
  n = [d EXCEPT !.term = [u \in Turns |->
                   IF ThreadOf[u] = t /\ d.term[u] = "none" THEN ended[u] ELSE d.term[u]],
                !.thread[t].state = to]

\* apply_terminals when nothing contradicts what is recorded.
LEMMA RecordsIs ==
  ASSUME NEW d, DbInv(d), NEW t \in Threads, NEW ended \in [Turns -> Outcomes],
         NEW to, to = "ready" \/ to = d.thread[t].state, NEW n, Records(d, n, t, ended, to),
         ~ Contradicts(d, t, ended)
  PROVE  /\ DbInv(n) /\ Quiet(d, n) /\ n.endpoint.epoch = d.endpoint.epoch
         /\ \A x \in Threads : x # t /\ IsReady(n, x) => IsReady(d, x)
         /\ to = d.thread[t].state => ReadyKept(d, n)
         /\ IsReady(n, t) => Recorded(d, n, t, ended)
<1>0. d.thread[t] \in ThreadSet /\ d \in Tabled /\ d.thread \in [Threads -> ThreadSet]
  BY DEF DbInv, Tabled
<1> DEFINE r == [d.thread[t] EXCEPT !.state = to]
           f == [d.thread EXCEPT ![t] = r]
           g == [u \in Turns |-> IF ThreadOf[u] = t /\ d.term[u] = "none" THEN ended[u] ELSE d.term[u]]
<1>1. r \in ThreadSet /\ r.epoch = d.thread[t].epoch /\ r.state = to
  BY <1>0 DEF ThreadSet
<1>2. n = [d EXCEPT !.term = g, !.thread[t].state = to]
  BY DEF Records
<1>3. n = [d EXCEPT !.term = g, !.thread = f]
  BY <1>0, <1>2 DEF Tabled
<1> HIDE DEF r
<1>4. f \in [Threads -> ThreadSet] /\ f[t] = r /\ \A x \in Threads \ {t} : f[x] = d.thread[x]
  BY <1>0, <1>1
<1>5. d.term \in [Turns -> Outcomes]
  BY <1>0 DEF Tabled
<1>6. g \in [Turns -> Outcomes] /\ \A u \in Turns : d.term[u] # "none" => g[u] = d.term[u]
  BY <1>5
<1>7. \A u \in Turns : /\ ThreadOf[u] # t => g[u] = d.term[u]
                       /\ ThreadOf[u] = t /\ ended[u] # "none" => g[u] = ended[u]
  BY <1>5 DEF Contradicts
<1> HIDE DEF f, g
<1>8. /\ n \in Tabled /\ n.fence = d.fence /\ n.intent = d.intent /\ n.claim = d.claim
      /\ n.term = g /\ n.thread = f /\ n.endpoint = d.endpoint
  BY <1>0, <1>3, <1>4, <1>6 DEF Tabled
<1>9. DbInv(n) /\ Quiet(d, n)
  BY <1>6, <1>8, SameWriting
<1>10. \A x \in Threads : x # t /\ IsReady(n, x) => IsReady(d, x)
  BY <1>4, <1>8 DEF IsReady
<1>11. to = d.thread[t].state => (IsReady(n, t) => IsReady(d, t))
  BY <1>1, <1>4, <1>8 DEF IsReady
<1> QED
  BY <1>7, <1>8, <1>9, <1>10, <1>11 DEF Recorded, ReadyKept

\* apply_terminals when something does.
LEMMA ContradictedIs ==
  ASSUME NEW d, DbInv(d), NEW t \in Threads, NEW n, n = [d EXCEPT !.thread[t].state = "uncertain"]
  PROVE  /\ DbInv(n) /\ Quiet(d, n) /\ n.endpoint.epoch = d.endpoint.epoch
         /\ ~ IsReady(n, t) /\ ReadyKept(d, n)
         /\ \A x \in Threads : x # t /\ IsReady(n, x) => IsReady(d, x)
<1>0. d.thread[t] \in ThreadSet /\ d \in Tabled /\ d.thread \in [Threads -> ThreadSet]
  BY DEF DbInv, Tabled
<1> DEFINE r == [d.thread[t] EXCEPT !.state = "uncertain"]
<1>1. r \in ThreadSet /\ r.state = "uncertain" /\ r.state # "ready"
  BY <1>0 DEF ThreadSet
<1>2. Threaded(d, n, t, r)
  BY <1>0 DEF Threaded
<1> HIDE DEF r
<1>3. /\ DbInv(n) /\ Quiet(d, n) /\ n.endpoint.epoch = d.endpoint.epoch /\ n.thread[t] = r
      /\ ReadyKept(d, n)
  BY ZenonT(30), <1>1, <1>2, ThreadSetIs
<1> QED
  BY <1>1, <1>3 DEF IsReady, ReadyKept

Finishes(d, n, t, e, ended) == n = ApplyTerminals(d, t, e, ended, TRUE)
Learns(d, n, t, e, ended) == n = ApplyTerminals(d, t, e, ended, FALSE)

\* apply_terminals at the end of a reconciliation.
LEMMA FinishingIs ==
  ASSUME NEW d, DbInv(d), NEW t \in Threads, NEW e \in Nat, NEW ended \in [Turns -> Outcomes],
         NEW n, Finishes(d, n, t, e, ended)
  PROVE  /\ DbInv(n) /\ Quiet(d, n) /\ n.endpoint.epoch = d.endpoint.epoch
         /\ \A x \in Threads : x # t /\ IsReady(n, x) => IsReady(d, x)
         /\ IsReady(n, t) => Recorded(d, n, t, ended)
<1>1. CASE Contradicts(d, t, ended)
  <2>1. n = [d EXCEPT !.thread[t].state = "uncertain"]
    BY <1>1 DEF Finishes, ApplyTerminals
  <2> QED
    BY <2>1, ContradictedIs
<1>2. CASE ~ Contradicts(d, t, ended)
  <2>1. Records(d, n, t, ended, "ready")
    BY <1>2 DEF Finishes, ApplyTerminals, Records
  <2> QED
    BY <1>2, <2>1, RecordsIs
<1> QED
  BY <1>1, <1>2

\* apply_terminals for one event.
LEMMA RecordingIs ==
  ASSUME NEW d, DbInv(d), NEW t \in Threads, NEW e \in Nat, NEW ended \in [Turns -> Outcomes],
         NEW n, Learns(d, n, t, e, ended)
  PROVE  /\ DbInv(n) /\ Quiet(d, n) /\ n.endpoint.epoch = d.endpoint.epoch
         /\ ReadyKept(d, n)
         /\ IsReady(n, t) => Recorded(d, n, t, ended)
<1>1. CASE Contradicts(d, t, ended)
  <2>1. n = [d EXCEPT !.thread[t].state = "uncertain"]
    BY <1>1 DEF Learns, ApplyTerminals
  <2> QED
    BY <2>1, ContradictedIs
<1>2. CASE ~ Contradicts(d, t, ended)
  <2>1. Records(d, n, t, ended, d.thread[t].state)
    BY <1>2 DEF Learns, ApplyTerminals, Records, DbInv, Tabled
  <2> QED
    BY <1>2, <2>1, RecordsIs
<1> QED
  BY <1>1, <1>2

\* A transaction that moves one intent, and its fence.
Writes(d, n, i, x) ==
  /\ n.intent[i] = x /\ \A j \in Intents \ {i} : n.intent[j] = d.intent[j]
  /\ n.claim = d.claim /\ n.term = d.term /\ n.thread = d.thread /\ n.endpoint = d.endpoint
  /\ \A t \in Threads : d.fence[t].state = "uncertain" => n.fence[t].state = "uncertain"

Written(d, n, i, x, y) == n = [d EXCEPT !.intent[i] = x, !.fence[ThreadOf[i]] = y]

\* A transaction that writes one intent and the fence of its thread.
LEMMA WritesIs ==
  ASSUME NEW d, DbInv(d), NEW i \in Intents, NEW x \in IntentSet, NEW y \in FenceSet, NEW n,
         Written(d, n, i, x, y),
         y.state # "absent", y.epoch = d.endpoint.epoch,
         x.state \in Underway => x.epoch = d.endpoint.epoch /\ y.state = "active" /\ y.active = i,
         y.state = "uncertain" <=> x.state = "uncertain",
         d.intent[i].state # "uncertain", d.fence[ThreadOf[i]].state # "uncertain",
         \A j \in Intents : j # i /\ ThreadOf[j] = ThreadOf[i] => d.intent[j].state \notin Underway
  PROVE  DbInv(n) /\ Writes(d, n, i, x)
<1> DEFINE t == ThreadOf[i]
           f == [d.intent EXCEPT ![i] = x]
           g == [d.fence EXCEPT ![t] = y]
<1>0. t \in Threads
  BY ThreadsOf
<1>1. d \in Tabled /\ d.intent \in [Intents -> IntentSet] /\ d.fence \in [Threads -> FenceSet]
  BY DEF DbInv, Tabled
<1>2. n = [d EXCEPT !.intent = f, !.fence = g]
  BY <1>1 DEF Tabled, Written
<1>3. f \in [Intents -> IntentSet] /\ f[i] = x /\ \A j \in Intents \ {i} : f[j] = d.intent[j]
  BY <1>1
<1>4. g \in [Threads -> FenceSet] /\ g[t] = y /\ \A u \in Threads \ {t} : g[u] = d.fence[u]
  BY <1>0, <1>1
<1> HIDE DEF f, g
<1>5. /\ n \in Tabled /\ n.fence = g /\ n.intent = f /\ n.claim = d.claim
      /\ n.term = d.term /\ n.thread = d.thread /\ n.endpoint = d.endpoint
  BY <1>1, <1>2, <1>3, <1>4 DEF Tabled
<1>6. \A u \in Threads \ {t} : Unsettled(n, u) <=> Unsettled(d, u)
  BY <1>3, <1>5 DEF Unsettled
<1>7. Unsettled(n, t) <=> x.state = "uncertain"
  <2>1. ~ Unsettled(d, t)
    BY <1>0 DEF DbInv, FenceInv
  <2> QED
    BY <1>3, <1>5, <2>1 DEF Unsettled
<1>8. CoreInv(n)
  <2>1. \A u \in Threads : n.fence[u].state # "absent" => n.fence[u].epoch = n.endpoint.epoch
    BY <1>4, <1>5 DEF DbInv, CoreInv
  <2>2. ASSUME NEW j \in Intents, n.intent[j].state \in Underway
        PROVE  n.intent[j].epoch = n.endpoint.epoch /\ n.fence[ThreadOf[j]].state # "absent"
    BY <1>3, <1>4, <1>5, <2>2, ThreadsOf DEF DbInv, CoreInv
  <2>3. ASSUME NEW a \in Asks, n.claim[a].state \in Undecided
        PROVE  n.claim[a].epoch = n.endpoint.epoch /\ n.fence[ThreadOf[a]].state # "absent"
    BY <1>4, <1>5, <2>3, ThreadsOf DEF DbInv, CoreInv
  <2>4. ASSUME NEW u \in Threads, Unsettled(n, u) PROVE n.fence[u].state # "absent"
    BY <1>4, <1>5, <1>6, <2>4 DEF DbInv, CoreInv
  <2> QED
    BY <2>1, <2>2, <2>3, <2>4 DEF CoreInv
<1>9. FenceInv(n)
  <2>1. ASSUME NEW u \in Threads PROVE Unsettled(n, u) <=> n.fence[u].state = "uncertain"
    BY <1>4, <1>5, <1>6, <1>7 DEF DbInv, FenceInv
  <2>2. ASSUME NEW j \in Intents, n.intent[j].state \in Underway
        PROVE  n.fence[ThreadOf[j]].state = "active" /\ n.fence[ThreadOf[j]].active = j
    <3>1. CASE j = i
      BY <1>3, <1>4, <1>5, <2>2, <3>1
    <3>2. CASE j # i
      <4>1. d.intent[j].state \in Underway
        BY <1>3, <1>5, <2>2, <3>2
      <4>2. ThreadOf[j] # t /\ ThreadOf[j] \in Threads
        BY <3>2, <4>1, ThreadsOf
      <4> QED
        BY <1>4, <1>5, <4>1, <4>2 DEF DbInv, FenceInv
    <3> QED
      BY <3>1, <3>2
  <2> QED
    BY <2>1, <2>2 DEF FenceInv
<1>10. \A u \in Threads : d.fence[u].state = "uncertain" => n.fence[u].state = "uncertain"
  BY <1>4, <1>5
<1> QED
  BY <1>3, <1>5, <1>8, <1>9, <1>10 DEF DbInv, Writes

\* prepare_external_mutation takes a fence that is open.
LEMMA PrepareIs ==
  ASSUME NEW d, DbInv(d), NEW i \in Intents, NEW e, PrepareOutcome(d, i, e) = "Prepared",
         NEW n, n = Prepare(d, i, e)
  PROVE  /\ DbInv(n) /\ d.intent[i].state = "none" /\ d.endpoint.epoch = e
         /\ \E x \in IntentSet : x.state = "prepared" /\ x.epoch = e /\ Writes(d, n, i, x)
<1>1. /\ d.intent[i].state = "none" /\ Ready(d, ThreadOf[i], e)
      /\ d.fence[ThreadOf[i]].state \notin {"active", "uncertain"}
  BY DEF PrepareOutcome
<1>2. d.endpoint.epoch = e /\ e \in Nat
  BY <1>1 DEF Ready, DbInv, Tabled, EndpointSet
<1> DEFINE x == [state |-> "prepared", epoch |-> e, result |-> NoIntent]
           y == [state |-> "active", epoch |-> e, active |-> i]
<1>3. x \in IntentSet /\ x.state = "prepared" /\ x.epoch = e /\ x.state # "uncertain"
  BY <1>2 DEF IntentSet, IntentStates
<1>4. y \in FenceSet /\ y.state = "active" /\ y.epoch = e /\ y.active = i
  BY <1>2, ThreadsOf DEF FenceSet, FenceStates
<1>5. Written(d, n, i, x, y)
  BY DEF Prepare, Written
<1>6. \A j \in Intents : j # i /\ ThreadOf[j] = ThreadOf[i] => d.intent[j].state \notin Underway
  BY <1>1 DEF DbInv, FenceInv
<1> HIDE DEF x, y
<1>7. DbInv(n) /\ Writes(d, n, i, x)
  BY <1>1, <1>2, <1>3, <1>4, <1>5, <1>6, WritesIs
<1> QED
  BY <1>1, <1>2, <1>3, <1>7

\* transition_sent.
LEMMA MarkSentIs ==
  ASSUME NEW d, DbInv(d), NEW i \in Intents, NEW e, MaySend(d, i, e), NEW n, n = MarkSent(d, i)
  PROVE  /\ DbInv(n) /\ d.intent[i].state \in Underway /\ d.intent[i].epoch = e
         /\ \E x \in IntentSet : x.state = "sent" /\ x.epoch = e /\ Writes(d, n, i, x)
<1>1. d.intent[i].state \in Underway /\ d.intent[i].epoch = e
  BY DEF MaySend, Underway
<1>2. /\ d.intent[i].epoch = d.endpoint.epoch /\ d.fence[ThreadOf[i]].state = "active"
      /\ d.fence[ThreadOf[i]].active = i /\ d.fence[ThreadOf[i]].epoch = d.endpoint.epoch
  BY <1>1, ThreadsOf DEF DbInv, CoreInv, FenceInv
<1>3. d \in Tabled /\ d.intent[i] \in IntentSet /\ d.fence[ThreadOf[i]] \in FenceSet
        /\ ThreadOf[i] \in Threads
  BY ThreadsOf DEF DbInv, Tabled
<1> DEFINE x == [d.intent[i] EXCEPT !.state = "sent"]
           y == d.fence[ThreadOf[i]]
<1>4. x \in IntentSet /\ x.state = "sent" /\ x.epoch = e /\ x.state # "uncertain"
        /\ x.epoch = d.endpoint.epoch
  BY <1>1, <1>2, <1>3 DEF IntentSet, IntentStates
<1>5. Written(d, n, i, x, y)
  <2>1. n = [d EXCEPT !.intent[i].state = "sent"]
    BY DEF MarkSent
  <2>2. d.fence = [d.fence EXCEPT ![ThreadOf[i]] = y]
    BY <1>3 DEF Tabled
  <2>3. n = [d EXCEPT !.intent = [d.intent EXCEPT ![i] = x]]
    BY <1>3, <2>1 DEF Tabled
  <2> HIDE DEF x
  <2> QED
    BY <1>3, <2>2, <2>3 DEF Tabled, Written
<1>6. \A j \in Intents : j # i /\ ThreadOf[j] = ThreadOf[i] => d.intent[j].state \notin Underway
  BY <1>2 DEF DbInv, FenceInv
<1>7. d.intent[i].state # "uncertain" /\ y.state # "absent" /\ y.state # "uncertain"
  BY <1>1, <1>2 DEF Underway
<1> HIDE DEF x
<1>8. DbInv(n) /\ Writes(d, n, i, x)
  BY <1>2, <1>3, <1>4, <1>5, <1>6, <1>7, WritesIs
<1> QED
  BY <1>1, <1>4, <1>8

\* resolve_external_mutation opens the fence, or leaves it uncertain.
LEMMA ResolveIs ==
  ASSUME NEW d, DbInv(d), NEW i \in Intents, NEW e, NEW to \in {"rejected", "applied", "uncertain"},
         NEW result \in Turns \cup {NoIntent}, MayResolve(d, i, e, to), NEW n, n = Resolve(d, i, to, result)
  PROVE  /\ DbInv(n) /\ d.intent[i].state \in Underway /\ d.intent[i].epoch = e
         /\ d.endpoint.epoch = e /\ (to # "rejected" => d.intent[i].state = "sent")
         /\ \E x \in IntentSet : /\ x.state = to /\ x.epoch = e /\ x.result = result
                                 /\ Writes(d, n, i, x)
<1>1. /\ d.intent[i].state \in Underway /\ d.intent[i].epoch = e
      /\ to # "rejected" => d.intent[i].state = "sent"
  BY DEF MayResolve, Underway
<1>2. /\ d.intent[i].epoch = d.endpoint.epoch /\ d.fence[ThreadOf[i]].state = "active"
      /\ d.fence[ThreadOf[i]].active = i /\ d.fence[ThreadOf[i]].epoch = d.endpoint.epoch
  BY <1>1, ThreadsOf DEF DbInv, CoreInv, FenceInv
<1>3. d \in Tabled /\ d.intent[i] \in IntentSet /\ d.fence[ThreadOf[i]] \in FenceSet
        /\ ThreadOf[i] \in Threads
  BY ThreadsOf DEF DbInv, Tabled
<1> DEFINE st == IF to = "uncertain" THEN "uncertain" ELSE "open"
           x == [d.intent[i] EXCEPT !.state = to, !.result = result]
           y == [d.fence[ThreadOf[i]] EXCEPT !.state = st, !.active = NoIntent]
<1>4. x \in IntentSet /\ x.state = to /\ x.epoch = e /\ x.result = result
  BY <1>1, <1>3 DEF IntentSet, IntentStates
<1>5. st \in {"uncertain", "open"} /\ (st = "uncertain" <=> to = "uncertain")
  OBVIOUS
<1>6. Written(d, n, i, x, y)
  <2>1. n = [d EXCEPT !.intent[i].state = to, !.intent[i].result = result,
                      !.fence[ThreadOf[i]].state = st, !.fence[ThreadOf[i]].active = NoIntent]
    BY DEF Resolve
  <2> HIDE DEF st
  <2> DEFINE t == ThreadOf[i]
             f1 == [d.intent EXCEPT ![i].state = to]
             f == [f1 EXCEPT ![i].result = result]
             g1 == [d.fence EXCEPT ![t].state = st]
             g == [g1 EXCEPT ![t].active = NoIntent]
  <2>3. d.intent \in [Intents -> IntentSet] /\ d.fence \in [Threads -> FenceSet]
    BY <1>3 DEF Tabled
  <2>4. f = [d.intent EXCEPT ![i] = x]
    BY <2>3 DEF IntentSet
  <2>5. g = [d.fence EXCEPT ![t] = y]
    BY <1>3, <2>3 DEF FenceSet
  <2>6. n = [d EXCEPT !.intent = f, !.fence = g]
    BY <1>3, <2>1, <2>3 DEF Tabled
  <2>2. n = [d EXCEPT !.intent = [d.intent EXCEPT ![i] = x],
                      !.fence = [d.fence EXCEPT ![ThreadOf[i]] = y]]
    BY <2>4, <2>5, <2>6
  <2> HIDE DEF x, y, t, f, f1, g, g1
  <2> QED
    BY <1>3, <2>2 DEF Tabled, Written
<1> HIDE DEF st
<1>7. y \in FenceSet /\ y.state = st /\ y.epoch = d.endpoint.epoch
  BY <1>2, <1>3, <1>5 DEF FenceSet, FenceStates
<1>8. \A j \in Intents : j # i /\ ThreadOf[j] = ThreadOf[i] => d.intent[j].state \notin Underway
  BY <1>2 DEF DbInv, FenceInv
<1>9. /\ d.intent[i].state # "uncertain" /\ y.state # "absent" /\ to \notin Underway
      /\ d.fence[ThreadOf[i]].state # "uncertain"
  BY <1>1, <1>2, <1>5, <1>7 DEF Underway
<1> HIDE DEF x, y
<1>10. DbInv(n) /\ Writes(d, n, i, x)
  BY <1>2, <1>4, <1>5, <1>6, <1>7, <1>8, <1>9, WritesIs
<1> QED
  BY <1>1, <1>2, <1>4, <1>10

\* A transaction that moves one claim.
Claiming(d, n, a, x) ==
  /\ n.claim[a] = x /\ \A b \in Asks \ {a} : n.claim[b] = d.claim[b]
  /\ n.intent = d.intent /\ n.term = d.term /\ n.thread = d.thread /\ n.endpoint = d.endpoint
  /\ n.fence = d.fence
Claimed(d, n, a, x) == n = [d EXCEPT !.claim[a] = x]

\* A claim is written that neither becomes nor was uncertain.
LEMMA ClaimingIs ==
  ASSUME NEW d, DbInv(d), NEW a \in Asks, NEW x \in ClaimSet, NEW n, Claimed(d, n, a, x),
         x.state = "uncertain" <=> d.claim[a].state = "uncertain",
         x.state \in Undecided => /\ x.epoch = d.endpoint.epoch
                                  /\ d.fence[ThreadOf[a]].state # "absent"
  PROVE  DbInv(n) /\ Claiming(d, n, a, x)
<1> DEFINE f == [d.claim EXCEPT ![a] = x]
<1>1. d \in Tabled /\ d.claim \in [Asks -> ClaimSet]
  BY DEF DbInv, Tabled
<1>2. n = [d EXCEPT !.claim = f]
  BY <1>1 DEF Tabled, Claimed
<1>3. f \in [Asks -> ClaimSet] /\ f[a] = x /\ \A b \in Asks \ {a} : f[b] = d.claim[b]
  BY <1>1
<1> HIDE DEF f
<1>4. /\ n \in Tabled /\ n.fence = d.fence /\ n.intent = d.intent /\ n.claim = f
      /\ n.term = d.term /\ n.thread = d.thread /\ n.endpoint = d.endpoint
  BY <1>1, <1>2, <1>3 DEF Tabled
<1>5. \A u \in Threads : Unsettled(n, u) <=> Unsettled(d, u)
  BY <1>3, <1>4 DEF Unsettled
<1>6. CoreInv(n)
  BY <1>3, <1>4, <1>5 DEF DbInv, CoreInv
<1>7. FenceInv(n)
  BY <1>4, <1>5 DEF DbInv, FenceInv
<1> QED
  BY <1>3, <1>4, <1>6, <1>7 DEF DbInv, Claiming

\* receive_external_approval: of this epoch, and new in it.
LEMMA ReceiveIs ==
  ASSUME NEW d, DbInv(d), NEW a \in Asks, NEW e, Receives(d, a, e), NEW n, n = Receive(d, a, e)
  PROVE  /\ DbInv(n) /\ d.endpoint.epoch = e /\ d.claim[a].state # "uncertain"
         /\ d.claim[a].state # "none" => d.claim[a].epoch # e
         /\ \E x \in ClaimSet : x.state = "received" /\ x.epoch = e /\ Claiming(d, n, a, x)
<1>1. /\ ~(d.claim[a].state # "none" /\ d.claim[a].epoch = e) /\ Ready(d, ThreadOf[a], e)
      /\ d.fence[ThreadOf[a]].state = "open"
  BY DEF Receives
<1>2. d.endpoint.epoch = e /\ e \in Nat
  BY <1>1 DEF Ready, DbInv, Tabled, EndpointSet
<1> DEFINE x == [state |-> "received", epoch |-> e]
<1>3. x \in ClaimSet /\ x.state = "received" /\ x.epoch = e /\ x.state # "uncertain"
  BY <1>2 DEF ClaimSet, ClaimStates
<1>4. Claimed(d, n, a, x)
  BY DEF Receive, Claimed
<1>5. ~ Unsettled(d, ThreadOf[a])
  BY <1>1, ThreadsOf DEF DbInv, FenceInv
<1>6. d.claim[a].state # "uncertain" /\ d.fence[ThreadOf[a]].state # "absent"
  BY <1>1, <1>5 DEF Unsettled
<1> HIDE DEF x
<1>7. DbInv(n) /\ Claiming(d, n, a, x)
  BY <1>2, <1>3, <1>4, <1>6, ClaimingIs
<1> QED
  BY <1>1, <1>2, <1>3, <1>6, <1>7

\* A claim that moves on within its epoch.
LEMMA ClaimMoves ==
  ASSUME NEW d, DbInv(d), NEW a \in Asks, NEW n, NEW to \in ClaimStates \ {"uncertain"},
         d.claim[a].state # "uncertain", to \in Undecided => d.claim[a].state \in Undecided,
         n = [d EXCEPT !.claim[a].state = to]
  PROVE  /\ DbInv(n)
         /\ \E x \in ClaimSet : x.state = to /\ x.epoch = d.claim[a].epoch /\ Claiming(d, n, a, x)
<1> DEFINE x == [d.claim[a] EXCEPT !.state = to]
<1>1. d \in Tabled /\ d.claim \in [Asks -> ClaimSet] /\ d.claim[a] \in ClaimSet
  BY DEF DbInv, Tabled
<1>2. x \in ClaimSet /\ x.state = to /\ x.epoch = d.claim[a].epoch
  BY <1>1 DEF ClaimSet
<1>3. Claimed(d, n, a, x)
  BY <1>1 DEF Claimed, Tabled
<1>4. x.state \in Undecided => x.epoch = d.endpoint.epoch /\ d.fence[ThreadOf[a]].state # "absent"
  BY <1>2 DEF DbInv, CoreInv
<1> HIDE DEF x
<1>5. DbInv(n) /\ Claiming(d, n, a, x)
  BY <1>2, <1>3, <1>4, ClaimingIs
<1> QED
  BY <1>2, <1>5

\* resolve_external_approval with "uncertain", and the end of the epoch.
LEMMA GivingUpIs ==
  ASSUME NEW d, DbInv(d), NEW a \in Asks, NEW e, NEW m, NEW n,
         m = IF Moves(d, a, e, "uncertain") THEN Move(d, a, e, "uncertain") ELSE d,
         n = MarkUnavailable(m, e)
  PROVE  DbInv(n) /\ Quiet(d, n) /\ ReadyKept(d, n) /\ n.endpoint.epoch = d.endpoint.epoch
<1> DEFINE t == ThreadOf[a]
<1>0. /\ d \in Tabled /\ d.claim[a] \in ClaimSet /\ t \in Threads /\ d.fence[t] \in FenceSet
      /\ d.claim \in [Asks -> ClaimSet] /\ d.fence \in [Threads -> FenceSet]
  BY ThreadsOf DEF DbInv, Tabled
<1>1. CASE ~ Moves(d, a, e, "uncertain")
  BY <1>1, MarkUnavailableIs
<1>2. CASE Moves(d, a, e, "uncertain")
  <2>1. d.claim[a].epoch = e /\ d.claim[a].state \in Undecided \cup {"uncertain"}
    BY <1>2 DEF Moves, From, Undecided
  <2>2. d.fence[t].state # "absent"
    BY <1>0, <2>1 DEF DbInv, CoreInv, Unsettled
  <2>3. d.fence[t].epoch = d.endpoint.epoch
    BY <1>0, <2>2 DEF DbInv, CoreInv
  <2> DEFINE x == [d.claim[a] EXCEPT !.state = "uncertain"]
             o == [d EXCEPT !.claim[a].state = "uncertain"]
  <2>4. x \in ClaimSet /\ x.state = "uncertain" /\ x.epoch = e
    BY <1>0, <2>1 DEF ClaimSet, ClaimStates
  <2>5. CASE e # d.endpoint.epoch
    <3>1. d.claim[a].state = "uncertain"
      BY <2>1, <2>5 DEF DbInv, CoreInv
    <3>2. o = d
      BY <1>0, <3>1 DEF Tabled, ClaimSet
    <3>3. m = d
      BY <1>2, <2>3, <2>5, <3>2 DEF Move
    <3> QED
      BY <3>3, MarkUnavailableIs
  <2>6. CASE e = d.endpoint.epoch
    <3>1. m = [o EXCEPT !.fence[t].state = "uncertain", !.fence[t].active = NoIntent]
      BY <1>2, <2>2, <2>3, <2>6 DEF Move
    <3> DEFINE f == [d.claim EXCEPT ![a] = x]
               y == [d.fence[t] EXCEPT !.state = "uncertain", !.active = NoIntent]
               g == [d.fence EXCEPT ![t] = y]
    <3>2. o = [d EXCEPT !.claim = f]
      BY <1>0 DEF Tabled
    <3>3. f \in [Asks -> ClaimSet] /\ f[a] = x /\ \A b \in Asks \ {a} : f[b] = d.claim[b]
      BY <1>0, <2>4
    <3>4. y \in FenceSet /\ y.state = "uncertain" /\ y.epoch = e
      BY <1>0, <2>3, <2>6 DEF FenceSet, FenceStates
    <3> HIDE DEF f, x
    <3>5. o \in Tabled /\ o.fence = d.fence /\ o.claim = f /\ o.intent = d.intent /\ o.term = d.term
          /\ o.thread = d.thread /\ o.endpoint = d.endpoint
      BY <1>0, <3>2, <3>3 DEF Tabled
    <3> HIDE DEF o
    <3>6. m = [o EXCEPT !.fence = g]
      <4>1. [[d.fence EXCEPT ![t].state = "uncertain"] EXCEPT ![t].active = NoIntent] = g
        BY <1>0 DEF FenceSet
      <4>2. m = [o EXCEPT !.fence = [[d.fence EXCEPT ![t].state = "uncertain"] EXCEPT ![t].active = NoIntent]]
        BY <1>0, <3>1, <3>5 DEF Tabled
      <4> QED BY <4>1, <4>2
    <3> HIDE DEF y
    <3>7. g \in [Threads -> FenceSet] /\ g[t] = y /\ \A u \in Threads \ {t} : g[u] = d.fence[u]
      BY <1>0, <3>4
    <3> HIDE DEF g
    <3>8. m \in Tabled /\ m.fence = g /\ m.claim = f /\ m.intent = d.intent /\ m.term = d.term
          /\ m.thread = d.thread /\ m.endpoint = d.endpoint
      BY <3>5, <3>6, <3>7 DEF Tabled
    <3>9. \A u \in Threads \ {t} : Unsettled(m, u) <=> Unsettled(d, u)
      BY <3>3, <3>8 DEF Unsettled
    <3>10. CoreInv(m)
      <4>1. \A u \in Threads : m.fence[u].state # "absent" => m.fence[u].epoch = m.endpoint.epoch
        BY <2>6, <3>4, <3>7, <3>8 DEF DbInv, CoreInv
      <4>2. \A u \in Threads : d.fence[u].state # "absent" => m.fence[u].state # "absent"
        BY <3>4, <3>7, <3>8
      <4>3. \A i \in Intents : m.intent[i].state \in Underway =>
              m.intent[i].epoch = m.endpoint.epoch /\ m.fence[ThreadOf[i]].state # "absent"
        BY <3>8, <4>2, ThreadsOf DEF DbInv, CoreInv
      <4>4. ASSUME NEW b \in Asks, m.claim[b].state \in Undecided
            PROVE  m.claim[b].epoch = m.endpoint.epoch /\ m.fence[ThreadOf[b]].state # "absent"
        <5>1. b # a
          BY <2>4, <3>3, <3>8, <4>4 DEF Undecided
        <5> QED
          BY <3>3, <3>8, <4>2, <4>4, <5>1, ThreadsOf DEF DbInv, CoreInv
      <4>5. \A u \in Threads : Unsettled(m, u) => m.fence[u].state # "absent"
        BY <3>4, <3>7, <3>8, <3>9, <4>2 DEF DbInv, CoreInv
      <4> QED
        BY <4>1, <4>3, <4>4, <4>5 DEF CoreInv
    <3>11. n = MarkUnavailable(m, m.endpoint.epoch)
      BY <2>6, <3>8
    <3>12. CloseAll(m, n) /\ n.endpoint.epoch = d.endpoint.epoch /\ ReadyKept(m, n)
      BY <3>8, <3>10, <3>11, MarkUnavailableCloses
    <3>13. DbInv(n)
      BY <3>8, <3>10, <3>12, ClosingKeeps
    <3>14. \A i \in Intents : n.intent[i] = ClosedIntent(d.intent[i])
      BY <3>8, <3>12 DEF CloseAll
    <3>15. ASSUME NEW b \in Asks PROVE n.claim[b] = ClosedClaim(d.claim[b])
      <4>1. CASE b = a
        <5>1. n.claim[b] = ClosedClaim(x)
          BY <3>3, <3>8, <3>12, <4>1 DEF CloseAll
        <5>2. ClosedClaim(x) = x
          BY <2>4 DEF ClosedClaim, Undecided
        <5>3. ClosedClaim(d.claim[a]) = x
          BY <1>0, <2>1 DEF x, ClosedClaim, ClaimSet
        <5> QED
          BY <4>1, <5>1, <5>2, <5>3
      <4>2. CASE b # a
        BY <3>3, <3>8, <3>12, <4>2 DEF CloseAll
      <4> QED
        BY <4>1, <4>2
    <3>16. ASSUME NEW u \in Threads, d.fence[u].state = "uncertain"
           PROVE n.fence[u].state = "uncertain"
      <4>1. Unsettled(d, u)
        BY <3>16 DEF DbInv, FenceInv
      <4>2. Unsettled(n, u)
        BY <1>0, <3>13, <3>14, <3>15, <4>1, StaysUnsettled DEF DbInv
      <4> QED
        BY <3>13, <4>2 DEF DbInv, FenceInv
    <3>17. n.term = d.term
      BY <3>8, <3>12 DEF CloseAll
    <3>18. n.endpoint.epoch >= d.endpoint.epoch
      BY <1>0, <3>12 DEF Tabled, EndpointSet
    <3>19. Quiet(d, n)
      BY <3>14, <3>15, <3>16, <3>17, <3>18 DEF Quiet
    <3>20. ReadyKept(d, n)
      BY <3>8, <3>12 DEF ReadyKept, IsReady
    <3> QED
      BY <3>12, <3>13, <3>19, <3>20
  <2> QED
    BY <2>5, <2>6
<1> QED
  BY <1>1, <1>2

\* Two quiet transactions are one.
LEMMA QuietTrans ==
  ASSUME NEW d, NEW m, NEW n, DbInv(d), DbInv(m), DbInv(n), Quiet(d, m), Quiet(m, n)
  PROVE  Quiet(d, n)
<1>1. ASSUME NEW i \in Intents PROVE n.intent[i] \in {d.intent[i], ClosedIntent(d.intent[i])}
  <2>1. d.intent[i] \in IntentSet
    BY DEF DbInv, Tabled
  <2>2. ClosedIntent(ClosedIntent(d.intent[i])) = ClosedIntent(d.intent[i])
    BY <2>1 DEF ClosedIntent, IntentSet
  <2> QED
    BY <2>2 DEF Quiet
<1>2. ASSUME NEW a \in Asks PROVE n.claim[a] \in {d.claim[a], ClosedClaim(d.claim[a])}
  <2>1. d.claim[a] \in ClaimSet
    BY DEF DbInv, Tabled
  <2>2. ClosedClaim(ClosedClaim(d.claim[a])) = ClosedClaim(d.claim[a])
    BY <2>1 DEF ClosedClaim, ClaimSet, Undecided
  <2> QED
    BY <2>2 DEF Quiet
<1>3. n.endpoint.epoch >= d.endpoint.epoch
  BY DEF Quiet, DbInv, Tabled, EndpointSet
<1>4. \A u \in Turns : d.term[u] # "none" => n.term[u] = d.term[u]
  BY DEF Quiet
<1> QED
  BY <1>1, <1>2, <1>3, <1>4 DEF Quiet

-----------------------------------------------------------------------------

\* Events, and the type of a session.
TurnEvents == [kind : {"turn"}, about : Turns, status : Ends]
AskEvents == [kind : {"ask", "resolved"}, about : Asks, status : {"none"}]
EventSet == TurnEvents \cup AskEvents

SessionSet ==
  [pc : {"off", "reserve", "connecting", "reconciling", "live", "backoff", "stopped"},
   epoch : Nat, wake : BOOLEAN, subs : SUBSET Threads, todo : SUBSET Threads,
   cur : Threads \cup {NoThread}, step : {"none", "resume", "read", "turns", "items"},
   snap : [Turns -> Outcomes], box : Seq(EventSet), over : BOOLEAN, done : SUBSET Threads,
   evq : Seq(EventSet), cmd : Intents \cup Asks \cup {NoIntent},
   phase : {"none", "owner", "acquire", "idle", "send", "sent", "wait", "confirm",
            "deny", "late", "decide", "denying", "answer", "denial"},
   reply : {"none", "done", "refused"}, pend : [Asks -> {"none", "waiting", "responded"}]]

Active == {"connecting", "reconciling", "live"}

\* A session by itself: it has an epoch when it is active, and a command only when it is live.
Fine(x) ==
  /\ x \in SessionSet
  /\ x.pc \in Active => x.epoch # 0
  /\ x.cmd # NoIntent => x.pc = "live"
  /\ x.reply # "none" => x.cmd \in Intents
  /\ x.pc = "reconciling" /\ x.step # "none" => x.cur \in Threads
  /\ x.pc = "connecting" => x.step = "none"

\* Every epoch is of one session.
SesInv ==
  /\ ses \in [Sessions -> SessionSet]
  /\ \A s \in Sessions : Fine(ses[s]) /\ ses[s].epoch <= db.endpoint.epoch
  /\ \A s, r \in Sessions : ses[s].epoch = ses[r].epoch /\ ses[s].epoch # 0 => s = r

ServerType ==
  /\ turn \in [Turns -> {"none", "active", "completed", "failed"}]
  /\ wire \subseteq Sessions \X Nat \X Intents
  /\ effects \in [Intents -> Nat]
  /\ ask \in [Asks -> {"none", "open", "closed"}]
  /\ answers \in [Asks -> Nat]

BaseInv == DbInv(db) /\ SesInv /\ ServerType

\* Mutations.
OnWire(i) == \E m \in wire : m[3] = i

\* What the table says of a mutation, against the wire and its effects.
EffectInv ==
  /\ \A i \in Intents :
       /\ effects[i] \in {0, 1}
       /\ db.intent[i].state \in {"none", "prepared", "rejected"} => effects[i] = 0 /\ ~ OnWire(i)
       /\ db.intent[i].state = "applied" => effects[i] = 1
       /\ OnWire(i) => effects[i] = 0
  /\ \A m, n \in wire : m[3] = n[3] => m = n

\* Where the command of a session is, against the table, the wire and the effects.
CommandInv(x, i) ==
  /\ x.phase \in {"owner", "acquire"} => (db.intent[i].state = "none" => x.reply = "none")
  /\ x.phase \in {"idle", "send", "sent", "wait", "confirm"} => db.intent[i].epoch = x.epoch
  /\ x.phase \in {"idle", "send"} => x.reply = "none"
     /\ db.intent[i].state \in {"prepared", "rejected"}
  /\ x.phase \in {"sent", "wait", "confirm"} => db.intent[i].state \in {"sent", "uncertain"}
  /\ x.phase = "sent" => x.reply = "none" /\ effects[i] = 0 /\ ~ OnWire(i)
  /\ x.phase = "wait" /\ x.reply = "refused" => effects[i] = 0 /\ ~ OnWire(i)
  /\ x.phase = "wait" /\ x.reply = "done" => effects[i] = 1
  /\ x.phase = "confirm" => effects[i] = 1

VerdictInv ==
  /\ EffectInv
  /\ \A s \in Sessions : ses[s].cmd \in Intents => CommandInv(ses[s], ses[s].cmd)

\* The command of a session stays.
VSame(x, y) == y.epoch = x.epoch /\ y.cmd = x.cmd /\ y.phase = x.phase /\ y.reply = x.reply

\* Intents at most end with their epoch.
IntentsQuiet(d, n) ==
  \A i \in Intents :
    /\ n.intent[i].epoch = d.intent[i].epoch
    /\ \/ n.intent[i].state = d.intent[i].state /\ n.intent[i].result = d.intent[i].result
       \/ d.intent[i].state = "prepared" /\ n.intent[i].state = "rejected"
       \/ d.intent[i].state = "sent" /\ n.intent[i].state = "uncertain"

\* So do claims.
ClaimsQuiet(d, n) ==
  /\ \A a \in Asks : n.claim[a] \in {d.claim[a], ClosedClaim(d.claim[a])}
  /\ n.endpoint.epoch >= d.endpoint.epoch

TermStays(d, n) == \A u \in Turns : d.term[u] # "none" => n.term[u] = d.term[u]

\* What is known stays known.
Knows(d, n) ==
  /\ TermStays(d, n)
  /\ \A t \in Threads : d.fence[t].state = "uncertain" => n.fence[t].state = "uncertain"

\* The end of an epoch changes the state of an intent and nothing else of it.
LEMMA ClosedFields ==
  ASSUME NEW x \in IntentSet, NEW y \in {x, ClosedIntent(x)}
  PROVE  /\ y.epoch = x.epoch /\ y.result = x.result
         /\ y.state = x.state \/ (x.state = "prepared" /\ y.state = "rejected")
                              \/ (x.state = "sent" /\ y.state = "uncertain")
  BY DEF ClosedIntent, IntentSet

\* The same for a claim.
LEMMA ClosedClaimFields ==
  ASSUME NEW x \in ClaimSet, NEW y \in {x, ClosedClaim(x)}
  PROVE  /\ y.epoch = x.epoch
         /\ y.state = x.state \/ (x.state \in Undecided /\ y.state = "uncertain")
  BY DEF ClosedClaim, ClaimSet, Undecided

\* The verdict survives whatever only ends epochs and commands.
LEMMA VerdictKept ==
  ASSUME BaseInv, VerdictInv, IntentsQuiet(db, db'), UNCHANGED <<wire, effects>>,
         \A r \in Sessions : VSame(ses[r], ses'[r]) \/ ses'[r].cmd \notin Intents
  PROVE  VerdictInv'
<1>1. \A i \in Intents :
        /\ db'.intent[i].epoch = db.intent[i].epoch
        /\ \/ db'.intent[i].state = db.intent[i].state
           \/ db.intent[i].state = "prepared" /\ db'.intent[i].state = "rejected"
           \/ db.intent[i].state = "sent" /\ db'.intent[i].state = "uncertain"
  BY DEF IntentsQuiet
<1>2. \A i \in Intents : OnWire(i)' <=> OnWire(i)
  BY DEF OnWire
<1>3. EffectInv'
  BY <1>1, <1>2 DEF VerdictInv, EffectInv
<1>4. ASSUME NEW s \in Sessions, ses'[s].cmd \in Intents PROVE CommandInv(ses[s], ses[s].cmd)'
  <2>1. VSame(ses[s], ses'[s])
    BY <1>4
  <2>2. CommandInv(ses[s], ses[s].cmd) /\ ses[s].cmd \in Intents
    BY <1>4, <2>1 DEF VSame, VerdictInv
  <2> QED
    BY <1>1, <1>2, <2>1, <2>2 DEF VSame, CommandInv
<1> QED
  BY <1>3, <1>4 DEF VerdictInv

\* Who made what is steered, interrupted, extended or started from the queue.
MadeBy(d, i) ==
  \/ KindOf[i] = "start"
  \/ \E j \in Intents : /\ d.intent[j].state = "applied" /\ d.intent[j].result = Target[i]
                        /\ SourceOf[j] = SourceOf[i]

OwnInv ==
  /\ \A i \in Intents : effects[i] > 0 \/ OnWire(i) => MadeBy(db, i)
  /\ \A s \in Sessions : ses[s].cmd \in Intents /\ ses[s].phase \notin {"none", "owner"}
                           => MadeBy(db, ses[s].cmd)

AppliedStays(d, n) ==
  \A i \in Intents : d.intent[i].state = "applied" =>
    n.intent[i].state = "applied" /\ n.intent[i].result = d.intent[i].result

\* So does the owner.
LEMMA OwnKept ==
  ASSUME OwnInv, AppliedStays(db, db'),
         \A i \in Intents : (effects[i] > 0 \/ OnWire(i))' => effects[i] > 0 \/ OnWire(i),
         \A r \in Sessions : \/ ses'[r].cmd = ses[r].cmd /\ ses'[r].phase = ses[r].phase
                             \/ ses'[r].cmd \notin Intents \/ ses'[r].phase \in {"none", "owner"}
                             \/ MadeBy(db, ses'[r].cmd)
  PROVE  OwnInv'
<1>1. \A i \in Intents : MadeBy(db, i) => MadeBy(db', i)
  BY DEF MadeBy, AppliedStays
<1> QED
  BY <1>1 DEF OwnInv

\* What is applied stays applied, with its result.
LEMMA QuietApplied ==
  ASSUME IntentsQuiet(db, db')
  PROVE  AppliedStays(db, db')
  BY DEF AppliedStays, IntentsQuiet

\* What a quiet transaction means to each part of the invariant.
LEMMA QuietIs ==
  ASSUME NEW d, DbInv(d), NEW n, Quiet(d, n)
  PROVE  IntentsQuiet(d, n) /\ ClaimsQuiet(d, n) /\ TermStays(d, n) /\ Knows(d, n)
<1>1. \A i \in Intents : d.intent[i] \in IntentSet
  BY DEF DbInv, Tabled
<1>2. IntentsQuiet(d, n)
  <2> SUFFICES ASSUME NEW i \in Intents
               PROVE  /\ n.intent[i].epoch = d.intent[i].epoch
                      /\ \/ n.intent[i].state = d.intent[i].state
                            /\ n.intent[i].result = d.intent[i].result
                         \/ d.intent[i].state = "prepared" /\ n.intent[i].state = "rejected"
                         \/ d.intent[i].state = "sent" /\ n.intent[i].state = "uncertain"
    BY DEF IntentsQuiet
  <2>1. n.intent[i] \in {d.intent[i], ClosedIntent(d.intent[i])} /\ d.intent[i] \in IntentSet
    BY <1>1 DEF Quiet
  <2> QED
    BY <2>1, ClosedFields
<1> QED
  BY <1>2 DEF Quiet, ClaimsQuiet, TermStays, Knows

\* Approvals.
In(q, ev) == \E k \in 1 .. Len(q) : q[k] = ev
Heard(s, ev) == In(ses[s].evq, ev)
AnswerPhases == {"decide", "denying", "answer", "denial"}

\* Requests, their answers, their claims, and the events about them.
AnswerInv ==
  /\ \A a \in Asks :
       /\ answers[a] \in {0, 1}
       /\ answers[a] = 1 => /\ ask[a] = "closed"
                            /\ db.claim[a].state \in {"responding", "denied", "resolved", "uncertain"}
  /\ \A s \in Sessions, ev \in AskEvents : Heard(s, ev) =>
       /\ ev.kind = "resolved" => answers[ev.about] = 1
       /\ ev.kind = "ask" /\ answers[ev.about] = 1 /\ ses[s].epoch = db.endpoint.epoch =>
            db.claim[ev.about].epoch = db.endpoint.epoch \/ db.claim[ev.about].state = "uncertain"
  /\ \A s \in Sessions : ses[s].cmd \in Asks /\ ses[s].phase \in AnswerPhases =>
       LET a == ses[s].cmd IN
       /\ db.claim[a].epoch = ses[s].epoch /\ answers[a] = 0
       /\ db.claim[a].state \in
            (IF ses[s].phase \in {"decide", "denying"} THEN {"claimed", "uncertain"}
             ELSE {"responding", "uncertain"})

\* No event about an approval is added.
ASame(x, y) ==
  /\ \/ y.epoch = x.epoch /\ y.cmd = x.cmd /\ y.phase = x.phase
     \/ y.cmd \notin Asks \/ y.phase \notin AnswerPhases
  /\ \A ev \in AskEvents : In(y.evq, ev) => In(x.evq, ev) /\ y.epoch = x.epoch

\* The answers survive whatever only ends epochs and takes events.
LEMMA AnswerKept ==
  ASSUME BaseInv, AnswerInv, ClaimsQuiet(db, db'), UNCHANGED <<ask, answers>>,
         \A r \in Sessions : ASame(ses[r], ses'[r])
  PROVE  AnswerInv'
<1>1. \A a \in Asks :
        /\ db'.claim[a].epoch = db.claim[a].epoch
        /\ \/ db'.claim[a].state = db.claim[a].state
           \/ db.claim[a].state \in Undecided /\ db'.claim[a].state = "uncertain"
  <2>1. \A a \in Asks : db.claim[a] \in ClaimSet
    BY DEF BaseInv, DbInv, Tabled
  <2> QED
    BY <2>1, ClosedClaimFields DEF ClaimsQuiet
<1>2. ASSUME NEW a \in Asks
      PROVE /\ answers'[a] \in {0, 1}
            /\ answers'[a] = 1 => /\ ask'[a] = "closed"
                                  /\ db'.claim[a].state \in {"responding", "denied", "resolved", "uncertain"}
  BY <1>1 DEF AnswerInv
<1>3. ASSUME NEW s \in Sessions, NEW ev \in AskEvents, Heard(s, ev)'
      PROVE /\ ev.kind = "resolved" => answers'[ev.about] = 1
            /\ ev.kind = "ask" /\ answers'[ev.about] = 1 /\ ses'[s].epoch = db'.endpoint.epoch =>
                 db'.claim[ev.about].epoch = db'.endpoint.epoch
                   \/ db'.claim[ev.about].state = "uncertain"
  <2>1. Heard(s, ev) /\ ses'[s].epoch = ses[s].epoch
    BY <1>3 DEF Heard, ASame
  <2>2. ev.about \in Asks
    BY DEF AskEvents
  <2>3. db.endpoint.epoch \in Nat /\ db'.endpoint.epoch >= db.endpoint.epoch
          /\ ses[s].epoch <= db.endpoint.epoch
        /\ ses[s].epoch \in Nat
    BY DEF ClaimsQuiet, BaseInv, SesInv, DbInv, Tabled, EndpointSet, SessionSet
  <2>4. ASSUME ses'[s].epoch = db'.endpoint.epoch PROVE db'.endpoint.epoch = db.endpoint.epoch
          /\ ses[s].epoch = db.endpoint.epoch
    <3> HIDE DEF Heard
    <3> DEFINE x == db.endpoint.epoch
               y == db'.endpoint.epoch
               z == ses[s].epoch
    <3>1. x \in Nat /\ z \in Nat /\ y >= x /\ z <= x /\ z = y
      BY <2>1, <2>3, <2>4
    <3> HIDE DEF x, y, z
    <3>2. y = x /\ z = x
      BY <3>1
    <3> QED
      BY <3>2 DEF x, y, z
  <2> QED
    BY <1>1, <2>1, <2>2, <2>4 DEF AnswerInv, Undecided
<1>4. ASSUME NEW s \in Sessions, ses'[s].cmd \in Asks, ses'[s].phase \in AnswerPhases
      PROVE  /\ db'.claim[ses'[s].cmd].epoch = ses'[s].epoch /\ answers'[ses'[s].cmd] = 0
             /\ db'.claim[ses'[s].cmd].state \in
                  (IF ses'[s].phase \in {"decide", "denying"} THEN {"claimed", "uncertain"}
                   ELSE {"responding", "uncertain"})
  <2>1. ses'[s].epoch = ses[s].epoch /\ ses'[s].cmd = ses[s].cmd /\ ses'[s].phase = ses[s].phase
    BY <1>4 DEF ASame
  <2> QED
    BY <1>1, <1>4, <2>1 DEF AnswerInv
<1> QED
  BY <1>2, <1>3, <1>4 DEF AnswerInv

\* Turns that have ended.
Ending(u) == [kind |-> "turn", about |-> u, status |-> turn[u]]

\* Where the end of a turn is: recorded, in the pages, in the mailbox, or yet to be taken.
Complete(s) ==
  LET x == ses[s] IN
  /\ \A t \in Threads : IsReady(db, t) =>
       x.pc # "connecting" /\ t \in x.done /\ t \in x.subs /\ t # x.cur
  /\ \A u \in Turns : IsReady(db, ThreadOf[u]) /\ turn[u] \in Ends =>
       db.term[u] = turn[u] \/ In(x.evq, Ending(u))
  /\ x.pc = "reconciling" /\ x.step \in {"read", "turns", "items"} => x.cur \in x.subs
  /\ \A u \in Turns :
       x.pc = "reconciling" /\ x.step = "items" /\ ThreadOf[u] = x.cur /\ turn[u] \in Ends =>
         x.over \/ x.snap[u] = turn[u] \/ In(x.evq, Ending(u)) \/ In(x.box, Ending(u))

Latest(s) == ses[s].pc \in Active /\ ses[s].epoch = db.endpoint.epoch
ReadyInv == \A s \in Sessions : Latest(s) => Complete(s)

\* What Complete looks at stays.
RSame(x, y) ==
  /\ y.pc = x.pc /\ y.epoch = x.epoch /\ y.subs = x.subs /\ y.cur = x.cur /\ y.step = x.step
  /\ y.snap = x.snap /\ y.box = x.box /\ y.over = x.over /\ y.done = x.done
  /\ \A ev \in TurnEvents : In(x.evq, ev) => In(y.evq, ev)

\* A turn that ends is reported to whoever is subscribed.
Reported(u) ==
  \/ turn'[u] = turn[u] \/ turn'[u] \notin Ends
  \/ \A r \in Sessions : ses[r].pc \in {"reconciling", "live"} /\ ThreadOf[u] \in ses[r].subs =>
       In(ses'[r].evq, Ending(u)')

\* A session that is over in n, or was there in d.
LEMMA LatestBefore ==
  ASSUME BaseInv, db'.endpoint.epoch >= db.endpoint.epoch, NEW s \in Sessions,
         ses'[s].epoch = ses[s].epoch, ses'[s].pc = ses[s].pc, Latest(s)'
  PROVE  Latest(s) /\ db'.endpoint.epoch = db.endpoint.epoch
<1> DEFINE x == db.endpoint.epoch
           y == db'.endpoint.epoch
           z == ses[s].epoch
<1>1. x \in Nat /\ z \in Nat /\ y >= x /\ z <= x /\ z = y
  BY DEF BaseInv, SesInv, DbInv, Tabled, EndpointSet, SessionSet, Latest
<1> HIDE DEF x, y, z
<1>2. y = x /\ z = x
  BY <1>1
<1> QED
  BY <1>2 DEF x, y, z, Latest

\* What a session knows stays complete when every end of a turn is reported to it.
LEMMA CompleteKept ==
  ASSUME BaseInv, NEW s \in Sessions, Complete(s), ReadyKept(db, db'), TermStays(db, db'),
         RSame(ses[s], ses'[s]), ses[s].pc \in Active, \A u \in Turns : Reported(u)
  PROVE  Complete(s)'
<1> DEFINE x == ses[s]
           y == ses'[s]
<1>0. /\ y.pc = x.pc /\ y.epoch = x.epoch /\ y.subs = x.subs /\ y.cur = x.cur /\ y.step = x.step
      /\ y.snap = x.snap /\ y.box = x.box /\ y.over = x.over /\ y.done = x.done
      /\ \A ev \in TurnEvents : In(x.evq, ev) => In(y.evq, ev)
  BY DEF RSame
<1>1. \A t \in Threads : IsReady(db', t) => IsReady(db, t)
  BY DEF ReadyKept
<1>2. \A t \in Threads : IsReady(db', t) => y.pc # "connecting" /\ t \in y.done /\ t \in y.subs
        /\ t # y.cur
  BY <1>0, <1>1 DEF Complete
<1>3. \A u \in Turns : turn[u] \in Ends => Ending(u) \in TurnEvents
  BY DEF Ending, TurnEvents
<1>4. ASSUME NEW u \in Turns, turn'[u] = turn[u] PROVE Ending(u)' = Ending(u)
  BY <1>4 DEF Ending
<1>5. ASSUME NEW u \in Turns, IsReady(db', ThreadOf[u]), turn'[u] \in Ends
      PROVE  db'.term[u] = turn'[u] \/ In(y.evq, Ending(u)')
  <2>0. ThreadOf[u] \in Threads
    BY ThreadsOf
  <2>1. IsReady(db, ThreadOf[u]) /\ x.pc \in {"reconciling", "live"} /\ ThreadOf[u] \in x.subs
    BY <1>1, <1>5, <2>0 DEF Complete, Active
  <2>2. CASE turn'[u] = turn[u]
    <3>1. db.term[u] = turn[u] \/ In(x.evq, Ending(u))
      BY <1>5, <2>1, <2>2 DEF Complete
    <3>2. db.term[u] = turn[u] => db'.term[u] = turn[u]
      BY <1>5, <2>2 DEF TermStays, Ends
    <3>3. In(x.evq, Ending(u)) => In(y.evq, Ending(u))
      BY <1>0, <1>3, <1>5, <2>2
    <3> QED
      BY <1>4, <2>2, <3>1, <3>2, <3>3
  <2>3. CASE turn'[u] # turn[u]
    <3> HIDE DEF x, y
    <3> QED
      BY <1>5, <2>1, <2>3 DEF Reported, x, y
  <2> QED
    BY <2>2, <2>3
<1>6. y.pc = "reconciling" /\ y.step \in {"read", "turns", "items"} => y.cur \in y.subs
  BY <1>0 DEF Complete
<1>7. ASSUME NEW u \in Turns, y.pc = "reconciling", y.step = "items", ThreadOf[u] = y.cur, turn'[u] \in Ends
      PROVE  y.over \/ y.snap[u] = turn'[u] \/ In(y.evq, Ending(u)') \/ In(y.box, Ending(u)')
  <2>1. CASE turn'[u] = turn[u]
    <3>1. x.over \/ x.snap[u] = turn[u] \/ In(x.evq, Ending(u)) \/ In(x.box, Ending(u))
      BY <1>0, <1>7, <2>1 DEF Complete
    <3>2. In(x.evq, Ending(u)) => In(y.evq, Ending(u))
      BY <1>0, <1>3, <1>7, <2>1
    <3> QED
      BY <1>0, <1>4, <2>1, <3>1, <3>2
  <2>2. CASE turn'[u] # turn[u]
    <3>1. x.cur \in x.subs /\ x.pc = "reconciling"
      BY <1>0, <1>7 DEF Complete
    <3> QED
      BY <1>0, <1>7, <2>2, <3>1 DEF Reported
  <2> QED
    BY <2>1, <2>2
<1> QED
  BY <1>2, <1>5, <1>6, <1>7 DEF Complete

\* The same for all sessions.
LEMMA ReadyInvKept ==
  ASSUME BaseInv, ReadyInv, ReadyKept(db, db'), TermStays(db, db'),
         db'.endpoint.epoch >= db.endpoint.epoch, \A u \in Turns : Reported(u),
         \A r \in Sessions : ses'[r].pc \notin Active \/ RSame(ses[r], ses'[r])
  PROVE  ReadyInv'
<1> SUFFICES ASSUME NEW s \in Sessions, Latest(s)' PROVE Complete(s)'
  BY DEF ReadyInv
<1>1. RSame(ses[s], ses'[s])
  BY DEF Latest
<1>2. Latest(s)
  BY <1>1, LatestBefore DEF RSame
<1>3. Complete(s)
  BY <1>2 DEF ReadyInv
<1>4. ses[s].pc \in Active
  BY <1>2 DEF Latest
<1> QED
  BY <1>1, <1>3, <1>4, CompleteKept

-----------------------------------------------------------------------------

Inv == BaseInv /\ VerdictInv /\ OwnInv /\ AnswerInv /\ ReadyInv
Kept == Inv' /\ Knows(db, db')

\* Nothing is in the empty queue.
LEMMA InEmpty ==
  ASSUME NEW ev PROVE ~ In(<<>>, ev)
  BY DEF In

\* A step of one session leaves the others alone.
LEMMA UpdateIs ==
  ASSUME SesInv, NEW s \in Sessions, NEW y, Update(s, y)
  PROVE  ses'[s] = y /\ (\A r \in Sessions \ {s} : ses'[r] = ses[r])
         /\ (y \in SessionSet => ses' \in [Sessions -> SessionSet])
  BY DEF Update, SesInv

\* Epochs stay apart when nobody takes a new one.
LEMMA SesKept ==
  ASSUME SesInv, DbInv(db), DbInv(db'), db'.endpoint.epoch >= db.endpoint.epoch,
         ses' \in [Sessions -> SessionSet],
         \A r \in Sessions : Fine(ses'[r]) /\ ses'[r].epoch = ses[r].epoch
  PROVE  SesInv'
<1>1. ASSUME NEW r \in Sessions PROVE ses'[r].epoch <= db'.endpoint.epoch
  <2>1. ses[r].epoch \in Nat /\ db.endpoint.epoch \in Nat /\ db'.endpoint.epoch \in Nat
        /\ ses[r].epoch <= db.endpoint.epoch
    BY DEF SesInv, SessionSet, DbInv, Tabled, EndpointSet
  <2> QED
    BY <2>1
<1> QED
  BY <1>1 DEF SesInv

\* The session is over.
Over(x, y) == /\ y \in SessionSet /\ y.pc \notin Active /\ y.cmd = NoIntent /\ y.reply = "none"
              /\ y.evq = <<>> /\ y.epoch = x.epoch

\* A session that is over has nothing under way.
LEMMA GoneQuietly ==
  ASSUME Inv, DbInv(db'), IntentsQuiet(db, db'), ClaimsQuiet(db, db'), Knows(db, db'),
         ReadyKept(db, db'), UNCHANGED server,
         NEW s \in Sessions, NEW y, Update(s, y), Over(ses[s], y)
  PROVE  Kept
<1>1. ses'[s] = y /\ (\A r \in Sessions \ {s} : ses'[r] = ses[r])
        /\ ses' \in [Sessions -> SessionSet]
  BY UpdateIs DEF Inv, BaseInv, Over
<1>2. Fine(y)
  BY DEF Over, Fine, Active
<1>3. BaseInv
  BY DEF Inv
<1>4. db'.endpoint.epoch >= db.endpoint.epoch
  BY DEF ClaimsQuiet
<1>5. UNCHANGED <<turn, queue, wire, effects, ask, answers>>
  BY DEF server
<1>6. SesInv'
  <2>1. \A r \in Sessions : Fine(ses'[r]) /\ ses'[r].epoch = ses[r].epoch
    BY <1>1, <1>2, <1>3 DEF BaseInv, SesInv, Over
  <2> QED
    BY <1>1, <1>3, <1>4, <2>1, SesKept DEF BaseInv
<1>7. BaseInv'
  BY <1>3, <1>5, <1>6 DEF BaseInv, ServerType
<1>8. TermStays(db, db')
  BY DEF Knows
<1>9. y.cmd \notin Intents /\ y.cmd \notin Asks
  BY ThreadsOf DEF Over
<1>10. VerdictInv'
  BY <1>1, <1>3, <1>5, <1>8, <1>9, VerdictKept DEF Inv, VSame
<1>11. OwnInv'
  <2>1. AppliedStays(db, db')
    BY <1>8, QuietApplied
  <2>2. \A i \in Intents : (effects[i] > 0 \/ OnWire(i))' => effects[i] > 0 \/ OnWire(i)
    BY <1>5 DEF OnWire
  <2> QED
    BY <1>1, <1>9, <2>1, <2>2, OwnKept DEF Inv
<1>12. AnswerInv'
  <2>1. \A r \in Sessions : ASame(ses[r], ses'[r])
    BY <1>1, <1>9, InEmpty DEF ASame, Over
  <2> QED
    BY <1>3, <1>5, <1>8, <2>1, AnswerKept DEF Inv
<1>13. ReadyInv'
  <2>1. \A u \in Turns : Reported(u)
    BY <1>5 DEF Reported
  <2>2. \A r \in Sessions : ses'[r].pc \notin Active \/ RSame(ses[r], ses'[r])
    BY <1>1 DEF RSame, Over
  <2> QED
    BY <1>3, <1>4, <1>8, <2>1, <2>2, ReadyInvKept DEF Inv
<1> QED
  BY <1>7, <1>10, <1>11, <1>12, <1>13 DEF Inv, Kept

\* A session ends with a quiet transaction.
LEMMA GoneKept ==
  ASSUME Inv, DbInv(db'), Quiet(db, db'), ReadyKept(db, db'), UNCHANGED server,
         NEW s \in Sessions, NEW y, Update(s, y), Over(ses[s], y)
  PROVE  Kept
<1>1. IntentsQuiet(db, db') /\ ClaimsQuiet(db, db') /\ Knows(db, db')
  BY QuietIs DEF Inv, BaseInv
<1> QED
  BY <1>1, GoneQuietly

\* A session as it is made.
LEMMA SessionIs ==
  ASSUME NEW pc \in {"off", "reserve", "connecting", "backoff", "stopped"}, NEW e \in Nat,
         NEW w \in BOOLEAN
  PROVE  /\ Session(pc, e) \in SessionSet
         /\ Session(pc, e).pc = pc /\ Session(pc, e).epoch = e /\ Session(pc, e).cmd = NoIntent
         /\ Session(pc, e).reply = "none" /\ Session(pc, e).evq = <<>>
         /\ Session(pc, e).step = "none"
         /\ LET y == [Session(pc, e) EXCEPT !.wake = w] IN
            /\ y \in SessionSet /\ y.pc = pc /\ y.epoch = e /\ y.cmd = NoIntent
            /\ y.reply = "none" /\ y.evq = <<>> /\ y.step = "none"
<1>1. NoTurns \in [Turns -> Outcomes]
  BY DEF NoTurns, Outcomes
<1>2. [a \in Asks |-> "none"] \in [Asks -> {"none", "waiting", "responded"}]
  OBVIOUS
<1>3. <<>> \in Seq(EventSet)
  OBVIOUS
<1> QED
  BY <1>1, <1>2, <1>3 DEF Session, SessionSet

\* A session that is made anew, in its old epoch, is over.
LEMMA RetireIs ==
  ASSUME SesInv, NEW s \in Sessions, NEW pc \in {"off", "reserve", "backoff", "stopped"},
         NEW w \in BOOLEAN
  PROVE  /\ Over(ses[s], Session(pc, ses[s].epoch))
         /\ Over(ses[s], [Session(pc, ses[s].epoch) EXCEPT !.wake = w])
<1>1. ses[s].epoch \in Nat
  BY DEF SesInv, SessionSet
<1>2. pc \notin Active /\ pc \in {"off", "reserve", "connecting", "backoff", "stopped"}
  BY DEF Active
<1> QED
  BY <1>1, <1>2, SessionIs DEF Over

\* The epoch failed.
LEMMA FailKeeps ==
  ASSUME Inv, NEW s \in Sessions, Fail(s), UNCHANGED server
  PROVE  Kept
<1>1. DbInv(db) /\ SesInv /\ ses[s].wake \in BOOLEAN
  BY DEF Inv, BaseInv, SesInv, SessionSet
<1>2. db' = MarkUnavailable(db, ses[s].epoch)
  BY DEF Fail
<1>3. DbInv(db') /\ Quiet(db, db') /\ ReadyKept(db, db')
  BY <1>1, <1>2, MarkUnavailableIs
<1>4. \E pc \in {"off", "backoff"} : Update(s, [Session(pc, ses[s].epoch) EXCEPT !.wake = ses[s].wake])
  BY DEF Fail, Retire
<1>5. PICK pc \in {"off", "backoff"} : Update(s, [Session(pc, ses[s].epoch) EXCEPT !.wake = ses[s].wake])
  BY <1>4
<1>6. Over(ses[s], [Session(pc, ses[s].epoch) EXCEPT !.wake = ses[s].wake])
  BY <1>1, RetireIs
<1> QED
  BY <1>3, <1>5, <1>6, GoneKept

\* A session ends in one of the ways there are.
LEMMA GivesUpKeeps ==
  ASSUME Inv, NEW s \in Sessions, UNCHANGED server, DbInv(db'), Quiet(db, db'), ReadyKept(db, db'),
         NEW pc \in {"off", "reserve", "backoff", "stopped"}, NEW w \in BOOLEAN,
         \/ Update(s, Session(pc, ses[s].epoch))
         \/ Update(s, [Session(pc, ses[s].epoch) EXCEPT !.wake = w])
  PROVE  Kept
<1>1. SesInv
  BY DEF Inv, BaseInv
<1>2. /\ Over(ses[s], Session(pc, ses[s].epoch))
      /\ Over(ses[s], [Session(pc, ses[s].epoch) EXCEPT !.wake = w])
  BY <1>1, RetireIs
<1> QED
  BY <1>2, GoneKept

\* It ends with its wake forgotten.
LEMMA RetireKeeps ==
  ASSUME Inv, NEW s \in Sessions, UNCHANGED server, DbInv(db'), Quiet(db, db'), ReadyKept(db, db'),
         Update(s, Retire(s))
  PROVE  Kept
<1>1. \E pc \in {"off", "backoff"} : Update(s, Session(pc, ses[s].epoch))
  BY DEF Retire
<1>2. PICK pc \in {"off", "backoff"} : Update(s, Session(pc, ses[s].epoch))
  BY <1>1
<1> QED
  BY <1>2, GivesUpKeeps

\* The invariant, of the tables.
LEMMA DbFacts ==
  ASSUME Inv PROVE DbInv(db) /\ SesInv /\ Quiet(db, db) /\ ReadyKept(db, db)
  BY QuietSame DEF Inv, BaseInv

\* What the actor of a reader does after its loop.
LEMMA StopReaderIs ==
  ASSUME NEW d, DbInv(d), NEW b \in BOOLEAN, NEW e0, NEW f, NEW g, NEW n,
         f = IF b THEN MarkUnavailable(d, e0) ELSE d,
         g = IF f.endpoint.state = "unavailable" THEN f ELSE MarkUnavailable(f, f.endpoint.epoch),
         n = SetEndpoint(g, f.endpoint.epoch, "stopped")
  PROVE  DbInv(n) /\ Quiet(d, n) /\ ReadyKept(d, n)
<1>1. DbInv(f) /\ Quiet(d, f) /\ ReadyKept(d, f)
  BY MarkUnavailableIs, QuietSame
<1>2. DbInv(g) /\ Quiet(f, g) /\ ReadyKept(f, g)
  BY <1>1, MarkUnavailableIs, QuietSame
<1>3. DbInv(n) /\ Quiet(g, n) /\ ReadyKept(g, n)
  BY <1>2, SetEndpointIs
<1>4. Quiet(d, n)
  BY <1>1, <1>2, <1>3, QuietTrans
<1> QED
  BY <1>1, <1>2, <1>3, <1>4 DEF ReadyKept

\* What a writer does when it is stopped.
LEMMA StopIs ==
  ASSUME NEW d, DbInv(d), NEW e, NEW n, n = SetEndpoint(MarkUnavailable(d, e), e, "stopped")
  PROVE  DbInv(n) /\ Quiet(d, n) /\ ReadyKept(d, n)
<1> DEFINE g == MarkUnavailable(d, e)
<1>1. DbInv(g) /\ Quiet(d, g) /\ ReadyKept(d, g)
  BY MarkUnavailableIs
<1>2. n = SetEndpoint(g, e, "stopped")
  OBVIOUS
<1> HIDE DEF g
<1>3. DbInv(n) /\ Quiet(g, n) /\ ReadyKept(g, n)
  BY <1>1, <1>2, SetEndpointIs
<1>4. Quiet(d, n)
  BY <1>1, <1>3, QuietTrans
<1> QED
  BY <1>1, <1>3, <1>4 DEF ReadyKept

\* Shutdown, reassignment, a dropped handle, and a reconnection.
LEMMA StopsKeep ==
  ASSUME Inv, NEW s \in Sessions,
         \/ StopReader(s) \/ StopWriter(s) \/ Reassign(s) \/ Drop(s) \/ Reconnect(s) \/ Wake(s)
  PROVE  Kept
<1>1. ses[s].wake \in BOOLEAN /\ ses[s].epoch \in Nat
  BY DEF Inv, BaseInv, SesInv, SessionSet
<1>2. CASE StopReader(s)
  <2> DEFINE b == ses[s].pc = "reconciling"
             f == IF b THEN MarkUnavailable(db, ses[s].epoch) ELSE db
             g == IF f.endpoint.state = "unavailable" THEN f ELSE MarkUnavailable(f, f.endpoint.epoch)
  <2>1. db' = SetEndpoint(g, f.endpoint.epoch, "stopped")
          /\ Update(s, Session("stopped", ses[s].epoch))
        /\ UNCHANGED server
    BY <1>2 DEF StopReader
  <2>2. b \in BOOLEAN
    OBVIOUS
  <2>3. DbInv(db') /\ Quiet(db, db') /\ ReadyKept(db, db')
    <3> HIDE DEF b
    <3> QED
      BY <2>1, <2>2, DbFacts, StopReaderIs
  <2> QED
    BY <2>1, <2>3, GivesUpKeeps
<1>3. CASE StopWriter(s) \/ Reassign(s)
  <2>1. /\ db' = SetEndpoint(MarkUnavailable(db, ses[s].epoch), ses[s].epoch, "stopped")
        /\ Update(s, Session("off", ses[s].epoch)) /\ UNCHANGED server
    BY <1>3 DEF StopWriter, Reassign
  <2> QED
    BY <2>1, DbFacts, StopIs, GivesUpKeeps
<1>4. CASE Drop(s)
  <2>1. UNCHANGED <<db, server>> /\ Update(s, Session("off", ses[s].epoch))
    BY <1>4 DEF Drop
  <2> QED
    BY <2>1, DbFacts, GivesUpKeeps
<1>5. CASE Reconnect(s)
  <2>1. /\ db' = IF ses[s].pc = "live" THEN MarkUnavailable(db, ses[s].epoch) ELSE db
        /\ Update(s, [Session("reserve", ses[s].epoch) EXCEPT !.wake = ses[s].wake])
        /\ UNCHANGED server
    BY <1>5 DEF Reconnect
  <2>2. DbInv(db') /\ Quiet(db, db') /\ ReadyKept(db, db')
    BY <2>1, DbFacts, MarkUnavailableIs
  <2> QED
    BY <1>1, <2>1, <2>2, GivesUpKeeps
<1>6. CASE Wake(s)
  <2>1. UNCHANGED <<db, server>> /\ Update(s, Session("reserve", ses[s].epoch))
    BY <1>6 DEF Wake
  <2> QED
    BY <2>1, DbFacts, GivesUpKeeps
<1> QED
  BY <1>2, <1>3, <1>4, <1>5, <1>6

\* What ends an epoch by failing.
LEMMA FailuresKeep ==
  ASSUME Inv, NEW s \in Sessions,
         ConnectFails(s) \/ RequestFails(s) \/ Closed(s) \/ ReadFails(s) \/ AnswerFails(s)
  PROVE  Kept
<1>1. CASE ConnectFails(s) \/ RequestFails(s) \/ Closed(s) \/ ReadFails(s)
  <2>1. Fail(s) /\ UNCHANGED server
    BY <1>1 DEF ConnectFails, RequestFails, Closed, ReadFails
  <2> QED
    BY <2>1, FailKeeps
<1>2. CASE AnswerFails(s)
  <2> DEFINE a == ses[s].cmd
             e == ses[s].epoch
             m == IF Moves(db, a, e, "uncertain") THEN Move(db, a, e, "uncertain") ELSE db
  <2>1. /\ a \in Asks /\ db' = MarkUnavailable(m, e) /\ Update(s, Retire(s)) /\ UNCHANGED server
    BY <1>2 DEF AnswerFails, Answering
  <2>2. DbInv(db') /\ Quiet(db, db') /\ ReadyKept(db, db')
    <3> HIDE DEF a, e
    <3> QED
      BY <2>1, DbFacts, GivingUpIs
  <2> QED
    BY <2>1, <2>2, RetireKeeps
<1> QED
  BY <1>1, <1>2

\* A step of one session that leaves its command alone.
LEMMA StepKept ==
  ASSUME Inv, DbInv(db'), Quiet(db, db'), UNCHANGED server, NEW s \in Sessions, NEW y, Update(s, y),
         Fine(y), VSame(ses[s], y), \A ev \in AskEvents : In(y.evq, ev) => In(ses[s].evq, ev),
         ReadyKept(db, db') \/ ses[s].epoch = db.endpoint.epoch,
         Latest(s)' => Complete(s)'
  PROVE  Kept
<1>1. ses'[s] = y /\ (\A r \in Sessions \ {s} : ses'[r] = ses[r])
        /\ ses' \in [Sessions -> SessionSet]
  BY UpdateIs DEF Inv, BaseInv, Fine
<1>3. BaseInv
  BY DEF Inv
<1>4. db'.endpoint.epoch >= db.endpoint.epoch
  BY DEF Quiet
<1>5. UNCHANGED <<turn, queue, wire, effects, ask, answers>>
  BY DEF server
<1>6. SesInv'
  <2>1. \A r \in Sessions : Fine(ses'[r]) /\ ses'[r].epoch = ses[r].epoch
    BY <1>1, <1>3 DEF BaseInv, SesInv, VSame
  <2> QED
    BY <1>1, <1>3, <1>4, <2>1, SesKept DEF BaseInv
<1>7. BaseInv'
  BY <1>3, <1>5, <1>6 DEF BaseInv, ServerType
<1>8. IntentsQuiet(db, db') /\ ClaimsQuiet(db, db') /\ TermStays(db, db')
  BY <1>3, QuietIs DEF BaseInv
<1>9. \A r \in Sessions : VSame(ses[r], ses'[r])
  BY <1>1 DEF VSame
<1>10. VerdictInv'
  BY <1>3, <1>5, <1>8, <1>9, VerdictKept DEF Inv
<1>11. OwnInv'
  <2>1. AppliedStays(db, db')
    BY <1>8, QuietApplied
  <2>2. \A i \in Intents : (effects[i] > 0 \/ OnWire(i))' => effects[i] > 0 \/ OnWire(i)
    BY <1>5 DEF OnWire
  <2> QED
    BY <1>9, <2>1, <2>2, OwnKept DEF Inv, VSame
<1>12. AnswerInv'
  <2>1. \A r \in Sessions : ASame(ses[r], ses'[r])
    BY <1>1, <1>9 DEF ASame, VSame
  <2> QED
    BY <1>3, <1>5, <1>8, <2>1, AnswerKept DEF Inv
<1>13. ReadyInv'
  <2> SUFFICES ASSUME NEW r \in Sessions, Latest(r)' PROVE Complete(r)'
    BY DEF ReadyInv
  <2>1. CASE r = s
    BY <2>1
  <2>2. CASE r # s
    <3>1. ses'[r] = ses[r]
      BY <1>1, <2>2
    <3>2. Latest(r) /\ db'.endpoint.epoch = db.endpoint.epoch
      BY <1>3, <1>4, <3>1, LatestBefore
    <3>3. Complete(r) /\ ses[r].pc \in Active
      BY <3>2 DEF Inv, ReadyInv, Latest
    <3>4. ReadyKept(db, db')
      <4>1. ses[r].epoch # 0 /\ ses[r].epoch = db.endpoint.epoch
        BY <1>3, <3>2 DEF BaseInv, SesInv, Fine, Latest
      <4> QED
        BY <1>3, <2>2, <4>1 DEF BaseInv, SesInv
    <3>5. RSame(ses[r], ses'[r]) /\ \A u \in Turns : Reported(u)
      BY <1>5, <3>1 DEF RSame, Reported
    <3> QED
      BY <1>3, <1>8, <3>3, <3>4, <3>5, CompleteKept
  <2> QED
    BY <2>1, <2>2
<1> QED
  BY <1>3, <1>7, <1>10, <1>11, <1>12, <1>13, QuietIs DEF Inv, BaseInv, Kept

\* The same when what Complete looks at stays.
LEMMA CalmKept ==
  ASSUME Inv, DbInv(db'), Quiet(db, db'), ReadyKept(db, db'), UNCHANGED server, NEW s \in Sessions,
         NEW y, Update(s, y), Fine(y), VSame(ses[s], y), y.evq = ses[s].evq,
         y.pc \in Active => RSame(ses[s], y)
  PROVE  Kept
<1>1. ses'[s] = y
  BY UpdateIs DEF Inv, BaseInv
<1>2. ASSUME Latest(s)' PROVE Complete(s)'
  <2>1. RSame(ses[s], ses'[s])
    BY <1>1, <1>2 DEF Latest
  <2>2. BaseInv /\ db'.endpoint.epoch >= db.endpoint.epoch
    BY DEF Inv, Quiet
  <2>3. Latest(s)
    BY <1>2, <2>1, <2>2, LatestBefore DEF RSame
  <2>4. Complete(s) /\ ses[s].pc \in Active
    BY <2>3 DEF Inv, ReadyInv, Latest
  <2>5. \A u \in Turns : Reported(u)
    BY DEF Reported, server
  <2>6. TermStays(db, db')
    BY DEF Quiet, TermStays
  <2> QED
    BY <2>1, <2>2, <2>4, <2>5, <2>6, CompleteKept
<1> QED
  BY <1>2, StepKept

\* The reader has waited.
LEMMA BackoffKeeps ==
  ASSUME Inv, NEW s \in Sessions, BackoffEnds(s)
  PROVE  Kept
<1> DEFINE y == [ses[s] EXCEPT !.pc = "reserve"]
<1>1. UNCHANGED <<db, server>> /\ Update(s, y) /\ ses[s].pc = "backoff"
  BY DEF BackoffEnds
<1>2. Fine(ses[s])
  BY DEF Inv, BaseInv, SesInv
<1>3. Fine(y) /\ VSame(ses[s], y) /\ y.evq = ses[s].evq /\ y.pc \notin Active
  BY <1>1, <1>2 DEF Fine, SessionSet, VSame, Active
<1> HIDE DEF y
<1> QED
  BY <1>1, <1>3, DbFacts, CalmKept

\* manage_thread.
LEMMA ManageKeeps ==
  ASSUME Inv, NEW s \in Sessions, NEW t \in Threads, ManageThread(s, t)
  PROVE  Kept
<1> DEFINE y == [ses[s] EXCEPT !.wake = TRUE]
<1>1. UNCHANGED server
  BY DEF ManageThread
<1>2. Fine(ses[s])
  BY DEF Inv, BaseInv, SesInv
<1>3. Fine(y) /\ VSame(ses[s], y) /\ y.evq = ses[s].evq /\ RSame(ses[s], y)
  BY ZenonT(30), <1>2 DEF Fine, SessionSet, VSame, RSame
<1>4. CASE FitsThread(db, t)
  <2>1. db' = RegisterThread(db, t) /\ Update(s, y)
    BY <1>4 DEF ManageThread
  <2>2. DbInv(db') /\ Quiet(db, db') /\ ReadyKept(db, db')
    BY <2>1, DbFacts, RegisterThreadIs
  <2> HIDE DEF y
  <2> QED
    BY <1>1, <1>3, <2>1, <2>2, CalmKept
<1>5. CASE ~ FitsThread(db, t)
  <2>1. UNCHANGED <<db, ses>>
    BY <1>5 DEF ManageThread
  <2>2. Update(s, ses[s])
    BY <2>1 DEF Update, Inv, BaseInv, SesInv
  <2>3. VSame(ses[s], ses[s]) /\ RSame(ses[s], ses[s])
    BY DEF VSame, RSame
  <2> QED
    BY <1>1, <1>2, <2>1, <2>2, <2>3, DbFacts, CalmKept
<1> QED
  BY <1>4, <1>5

\* A new epoch: nobody is of it yet, and what was under way in an old one is closed.
LEMMA ReserveKeeps ==
  ASSUME Inv, NEW s \in Sessions, Reserve(s)
  PROVE  Kept
<1> DEFINE e == db.endpoint.epoch + 1
           y == [Session("connecting", e) EXCEPT !.wake = ses[s].wake]
<1>1. db' = ReserveEpoch(db) /\ Update(s, y) /\ UNCHANGED server
  BY DEF Reserve
<1>2. DbInv(db) /\ SesInv /\ BaseInv
  BY DEF Inv, BaseInv
<1>3. DbInv(db') /\ Quiet(db, db') /\ db'.endpoint.epoch = e /\ \A t \in Threads : ~ IsReady(db', t)
  BY <1>1, <1>2, ReserveEpochIs
<1>4. db.endpoint.epoch \in Nat /\ e \in Nat /\ e > db.endpoint.epoch
  BY <1>2 DEF DbInv, Tabled, EndpointSet
<1>5. ses[s].wake \in BOOLEAN
  BY <1>2 DEF SesInv, SessionSet
<1>6. /\ y \in SessionSet /\ y.pc = "connecting" /\ y.epoch = e /\ y.cmd = NoIntent
      /\ y.reply = "none" /\ y.evq = <<>> /\ y.step = "none"
  <2> HIDE DEF e
  <2> QED
    BY <1>4, <1>5, SessionIs
<1> HIDE DEF y, e
<1>7. Fine(y)
  BY <1>4, <1>6 DEF Fine
<1>8. ses'[s] = y /\ (\A r \in Sessions \ {s} : ses'[r] = ses[r])
        /\ ses' \in [Sessions -> SessionSet]
  BY <1>1, <1>2, <1>6, UpdateIs
<1>9. SesInv'
  <2>1. ASSUME NEW r \in Sessions, r # s PROVE ses'[r].epoch < e /\ Fine(ses'[r])
    <3>1. ses[r].epoch \in Nat /\ ses[r].epoch <= db.endpoint.epoch /\ Fine(ses[r])
            /\ ses'[r] = ses[r]
      BY <1>2, <1>8, <2>1 DEF SesInv, SessionSet
    <3> QED
      BY <1>4, <3>1
  <2>2. ASSUME NEW r \in Sessions PROVE Fine(ses'[r]) /\ ses'[r].epoch <= db'.endpoint.epoch
    <3>1. r # s => ses'[r].epoch \in Nat
      BY <1>2, <1>8 DEF SesInv, SessionSet
    <3> QED
      BY <1>3, <1>4, <1>6, <1>7, <1>8, <2>1, <3>1
  <2>3. ASSUME NEW r \in Sessions, NEW q \in Sessions, ses'[r].epoch = ses'[q].epoch, ses'[r].epoch # 0
        PROVE  r = q
    <3>1. CASE r # s /\ q # s
      BY <1>2, <1>8, <2>3, <3>1 DEF SesInv
    <3>2. CASE r = s \/ q = s
      <4>1. ses'[s].epoch = e
        BY <1>6, <1>8
      <4> QED
        BY <1>4, <2>1, <2>3, <3>2, <4>1
    <3> QED
      BY <3>1, <3>2
  <2> QED
    BY <1>8, <2>2, <2>3 DEF SesInv
<1>10. UNCHANGED <<turn, queue, wire, effects, ask, answers>>
  BY <1>1 DEF server
<1>11. BaseInv'
  BY <1>2, <1>3, <1>9, <1>10 DEF BaseInv, ServerType
<1>12. IntentsQuiet(db, db') /\ ClaimsQuiet(db, db')
  BY <1>2, <1>3, QuietIs
<1>13. y.cmd \notin Intents /\ y.cmd \notin Asks
  BY <1>6, ThreadsOf
<1>14. VerdictInv'
  BY <1>2, <1>8, <1>10, <1>12, <1>13, VerdictKept DEF Inv, VSame
<1>15. OwnInv'
  <2>1. AppliedStays(db, db')
    BY <1>12, QuietApplied
  <2>2. \A i \in Intents : (effects[i] > 0 \/ OnWire(i))' => effects[i] > 0 \/ OnWire(i)
    BY <1>10 DEF OnWire
  <2> QED
    BY <1>8, <1>13, <2>1, <2>2, OwnKept DEF Inv
<1>16. AnswerInv'
  <2>1. \A r \in Sessions : ASame(ses[r], ses'[r])
    BY <1>6, <1>8, <1>13, InEmpty DEF ASame
  <2> QED
    BY <1>2, <1>10, <1>12, <2>1, AnswerKept DEF Inv
<1>17. ReadyInv'
  <2> SUFFICES ASSUME NEW r \in Sessions, Latest(r)' PROVE Complete(r)'
    BY DEF ReadyInv
  <2>1. r = s
    <3>1. ASSUME r # s PROVE FALSE
      <4>1. ses'[r].epoch = e /\ ses'[r] = ses[r] /\ ses[r].epoch \in Nat
              /\ ses[r].epoch <= db.endpoint.epoch
        BY <1>2, <1>3, <1>8, <3>1 DEF Latest, SesInv, SessionSet
      <4> QED
        BY <1>4, <4>1
    <3> QED
      BY <3>1
  <2>2. ses'[r].pc = "connecting"
    BY <1>6, <1>8, <2>1
  <2> QED
    BY <1>3, <2>2, ThreadsOf DEF Complete
<1> QED
  BY <1>2, <1>3, <1>11, <1>14, <1>15, <1>16, <1>17, QuietIs DEF Inv, Kept

\* What is in a queue with one more event.
LEMMA InAppend ==
  ASSUME NEW S, NEW q \in Seq(S), NEW e \in S, NEW ev
  PROVE  /\ In(Append(q, e), ev) <=> In(q, ev) \/ ev = e
         /\ Append(q, e) \in Seq(S)
<1>1. /\ Append(q, e) \in Seq(S) /\ Len(q) \in Nat /\ Len(Append(q, e)) = Len(q) + 1
      /\ Append(q, e)[Len(q) + 1] = e /\ \A k \in 1 .. Len(q) : Append(q, e)[k] = q[k]
  OBVIOUS
<1>2. ASSUME In(Append(q, e), ev) PROVE In(q, ev) \/ ev = e
  <2>1. PICK k \in 1 .. Len(q) + 1 : Append(q, e)[k] = ev
    BY <1>1, <1>2 DEF In
  <2>2. CASE k = Len(q) + 1
    BY <1>1, <2>1, <2>2
  <2>3. CASE k # Len(q) + 1
    <3>1. k \in 1 .. Len(q) /\ q[k] = ev
      BY <1>1, <2>1, <2>3
    <3> QED
      BY <3>1 DEF In
  <2> QED
    BY <2>2, <2>3
<1>3. ASSUME In(q, ev) PROVE In(Append(q, e), ev)
  <2>1. PICK k \in 1 .. Len(q) : q[k] = ev
    BY <1>3 DEF In
  <2>2. k \in 1 .. Len(Append(q, e)) /\ Append(q, e)[k] = ev
    BY <1>1, <2>1
  <2> QED
    BY <2>2 DEF In
<1>4. In(Append(q, e), e)
  <2>1. Len(q) + 1 \in 1 .. Len(Append(q, e))
    BY <1>1
  <2> QED
    BY <1>1, <2>1 DEF In
<1> QED
  BY <1>1, <1>2, <1>3, <1>4

\* What is in a queue that is not empty.
LEMMA InTail ==
  ASSUME NEW S, NEW q \in Seq(S), q # <<>>, NEW ev
  PROVE  /\ In(q, ev) <=> ev = Head(q) \/ In(Tail(q), ev)
         /\ Head(q) \in S /\ Tail(q) \in Seq(S)
<1>1. Head(q) \in S /\ Tail(q) \in Seq(S) /\ Len(q) \in Nat /\ Len(q) > 0 /\ Head(q) = q[1]
      /\ Len(Tail(q)) = Len(q) - 1 /\ \A k \in 1 .. Len(Tail(q)) : Tail(q)[k] = q[k + 1]
  OBVIOUS
<1>2. ASSUME In(q, ev) PROVE ev = Head(q) \/ In(Tail(q), ev)
  <2>1. PICK k \in 1 .. Len(q) : q[k] = ev
    BY <1>2 DEF In
  <2>2. CASE k = 1
    BY <1>1, <2>1, <2>2
  <2>3. CASE k # 1
    <3>1. k - 1 \in 1 .. Len(Tail(q)) /\ Tail(q)[k - 1] = q[k]
      BY <1>1, <2>1, <2>3
    <3> QED
      BY <2>1, <3>1 DEF In
  <2> QED
    BY <2>2, <2>3
<1>3. ASSUME In(Tail(q), ev) PROVE In(q, ev)
  <2>1. PICK k \in 1 .. Len(Tail(q)) : Tail(q)[k] = ev
    BY <1>3 DEF In
  <2>2. k + 1 \in 1 .. Len(q) /\ q[k + 1] = ev
    BY <1>1, <2>1
  <2> QED
    BY <2>2 DEF In
<1>4. In(q, Head(q))
  <2>1. 1 \in 1 .. Len(q) /\ q[1] = Head(q)
    BY <1>1
  <2> QED
    BY <2>1 DEF In
<1> QED
  BY <1>1, <1>2, <1>3, <1>4

\* A step of a reconciliation: only the thread it is about and its pages change.
LEMMA CompleteMoves ==
  ASSUME BaseInv, NEW s \in Sessions, Complete(s), ReadyKept(db, db'), TermStays(db, db'),
         ses[s].pc \in Active, UNCHANGED turn,
         ses[s].subs \subseteq ses'[s].subs, ses[s].done \subseteq ses'[s].done,
         ses'[s].evq = ses[s].evq, ses[s].pc # "connecting" => ses'[s].pc # "connecting",
         \A t \in Threads : IsReady(db', t) => t # ses'[s].cur,
         ses'[s].pc = "reconciling" /\ ses'[s].step \in {"read", "turns", "items"}
           => ses'[s].cur \in ses'[s].subs,
         \A u \in Turns : ses'[s].pc = "reconciling" /\ ses'[s].step = "items"
           /\ ThreadOf[u] = ses'[s].cur
                          /\ turn[u] \in Ends =>
           ses'[s].over \/ ses'[s].snap[u] = turn[u] \/ In(ses'[s].evq, Ending(u))
             \/ In(ses'[s].box, Ending(u))
  PROVE  Complete(s)'
<1>1. \A t \in Threads : IsReady(db', t) => IsReady(db, t)
  BY DEF ReadyKept
<1>2. \A t \in Threads : IsReady(db', t) =>
        ses'[s].pc # "connecting" /\ t \in ses'[s].done /\ t \in ses'[s].subs /\ t # ses'[s].cur
  BY <1>1 DEF Complete
<1>3. \A u \in Turns : Ending(u)' = Ending(u)
  BY DEF Ending
<1>4. ASSUME NEW u \in Turns, IsReady(db', ThreadOf[u]), turn'[u] \in Ends
      PROVE  db'.term[u] = turn'[u] \/ In(ses'[s].evq, Ending(u)')
  <2>1. db.term[u] = turn[u] \/ In(ses[s].evq, Ending(u))
    BY <1>1, <1>4, ThreadsOf DEF Complete
  <2>2. db.term[u] = turn[u] => db'.term[u] = turn[u]
    BY <1>4 DEF TermStays, Ends
  <2> QED
    BY <1>3, <2>1, <2>2
<1> QED
  BY <1>2, <1>3, <1>4 DEF Complete

\* The invariant, of one session.
LEMMA SesFacts ==
  ASSUME Inv, NEW s \in Sessions
  PROVE  /\ Fine(ses[s]) /\ ses[s] \in SessionSet /\ BaseInv /\ SesInv /\ DbInv(db)
         /\ ses[s].epoch \in Nat /\ ses[s].evq \in Seq(EventSet) /\ ses[s].box \in Seq(EventSet)
         /\ Latest(s) => Complete(s)
  BY DEF Inv, BaseInv, SesInv, Fine, SessionSet, ReadyInv

\* The updates of a session, one operator each.
ConnectTo(x, y, T) == y = [x EXCEPT !.pc = "reconciling", !.todo = T]
BeginTo(x, y, t) == y = [x EXCEPT !.cur = t, !.step = "resume", !.todo = @ \ {t}, !.snap = NoTurns]
ResumeTo(x, y) == y = [x EXCEPT !.subs = @ \union {x.cur}, !.step = "read"]
ListTo(x, y, g) == y = [x EXCEPT !.step = "items", !.snap = g]

\* The session after Connect.
LEMMA ConnectSes ==
  ASSUME NEW x, Fine(x), x.pc = "connecting", NEW T \in SUBSET Threads, NEW y, ConnectTo(x, y, T)
  PROVE  /\ Fine(y) /\ VSame(x, y) /\ y.evq = x.evq /\ y.pc = "reconciling" /\ y.step = "none"
         /\ y.subs = x.subs /\ y.done = x.done /\ y.cur = x.cur
<1>1. y \in SessionSet
  BY DEF Fine, SessionSet, ConnectTo
<1>2. /\ VSame(x, y) /\ y.evq = x.evq /\ y.pc = "reconciling" /\ y.step = x.step
      /\ y.subs = x.subs /\ y.done = x.done /\ y.cur = x.cur
  BY DEF Fine, SessionSet, VSame, ConnectTo
<1> QED
  BY <1>1, <1>2 DEF Fine, VSame, Active

\* The session after BeginThread.
LEMMA BeginSes ==
  ASSUME NEW x, Fine(x), x.pc = "reconciling", NEW t \in Threads, NEW y,
         BeginTo(x, y, t)
  PROVE  /\ Fine(y) /\ VSame(x, y) /\ y.evq = x.evq /\ y.pc = "reconciling" /\ y.step = "resume"
         /\ y.subs = x.subs /\ y.done = x.done /\ y.cur = t
<1>0. NoTurns \in [Turns -> Outcomes] /\ x.todo \ {t} \in SUBSET Threads
  BY DEF NoTurns, Outcomes, Fine, SessionSet
<1>1. y \in SessionSet
  BY <1>0 DEF Fine, SessionSet, BeginTo
<1>2. /\ VSame(x, y) /\ y.evq = x.evq /\ y.pc = x.pc /\ y.step = "resume"
      /\ y.subs = x.subs /\ y.done = x.done /\ y.cur = t
  BY DEF Fine, SessionSet, VSame, BeginTo
<1> QED
  BY <1>1, <1>2 DEF Fine, VSame, Active

\* The session after Resume.
LEMMA ResumeSes ==
  ASSUME NEW x, Fine(x), x.pc = "reconciling", x.cur \in Threads, NEW y,
         ResumeTo(x, y)
  PROVE  /\ Fine(y) /\ VSame(x, y) /\ y.evq = x.evq /\ y.pc = "reconciling" /\ y.step = "read"
         /\ x.subs \subseteq y.subs /\ y.done = x.done /\ y.cur = x.cur /\ y.cur \in y.subs
<1>0. x.subs \union {x.cur} \in SUBSET Threads
  BY DEF Fine, SessionSet, ResumeTo
<1>1. y \in SessionSet
  BY <1>0 DEF Fine, SessionSet, ResumeTo
<1>2. /\ VSame(x, y) /\ y.evq = x.evq /\ y.pc = x.pc /\ y.step = "read"
      /\ y.subs = x.subs \union {x.cur} /\ y.done = x.done /\ y.cur = x.cur
  BY DEF Fine, SessionSet, VSame, ResumeTo
<1> QED
  BY <1>1, <1>2 DEF Fine, VSame, Active

\* The session after ListTurns.
LEMMA ListSes ==
  ASSUME NEW x, Fine(x), x.pc = "reconciling", x.cur \in Threads, NEW g \in [Turns -> Outcomes], NEW y,
         ListTo(x, y, g)
  PROVE  /\ Fine(y) /\ VSame(x, y) /\ y.evq = x.evq /\ y.pc = "reconciling" /\ y.step = "items"
         /\ y.subs = x.subs /\ y.done = x.done /\ y.cur = x.cur /\ y.snap = g
<1>1. y \in SessionSet
  BY DEF Fine, SessionSet, ListTo
<1>2. /\ VSame(x, y) /\ y.evq = x.evq /\ y.pc = x.pc /\ y.step = "items"
      /\ y.subs = x.subs /\ y.done = x.done /\ y.cur = x.cur /\ y.snap = g
  BY DEF Fine, SessionSet, VSame, ListTo
<1> QED
  BY <1>1, <1>2 DEF Fine, VSame, Active

\* Connect.
LEMMA ConnectKeeps ==
  ASSUME Inv, NEW s \in Sessions, Connect(s)
  PROVE  Kept
<1> DEFINE T == {t \in Managed(db) : db.thread[t].state # "uncertain"}
           y == [ses[s] EXCEPT !.pc = "reconciling", !.todo = T]
<1>1. /\ ses[s].pc = "connecting" /\ db' = SetEndpoint(db, ses[s].epoch, "reconciling")
      /\ Update(s, y) /\ UNCHANGED server
  BY DEF Connect
<1>2. T \in SUBSET Threads
  BY DEF Managed
<1>0. Fine(ses[s]) /\ ConnectTo(ses[s], y, T)
  BY SesFacts DEF ConnectTo
<1> HIDE DEF T, y
<1>3. /\ Fine(y) /\ VSame(ses[s], y) /\ y.evq = ses[s].evq /\ y.pc = "reconciling"
         /\ y.step = "none"
      /\ y.subs = ses[s].subs /\ y.done = ses[s].done /\ y.cur = ses[s].cur
  BY <1>0, <1>1, <1>2, ConnectSes
<1>4. DbInv(db') /\ Quiet(db, db') /\ ReadyKept(db, db') /\ db'.endpoint.epoch = db.endpoint.epoch
  BY <1>1, SesFacts, SetEndpointIs
<1>5. ASSUME Latest(s)' PROVE Complete(s)'
  <2>1. ses'[s] = y /\ UNCHANGED turn /\ TermStays(db, db')
    BY <1>1, <1>4, SesFacts, UpdateIs DEF server, TermStays, Quiet
  <2>2. Latest(s) /\ Complete(s)
    BY <1>1, <1>3, <1>4, <1>5, <2>1, SesFacts DEF Latest, VSame, Active
  <2>3. \A t \in Threads : IsReady(db', t) => t # ses'[s].cur
    BY <1>3, <1>4, <2>1, <2>2 DEF ReadyKept, Complete
  <2> QED
    BY <1>1, <1>3, <1>4, <2>1, <2>2, <2>3, SesFacts, CompleteMoves DEF Latest
<1> QED
  BY <1>1, <1>3, <1>4, <1>5, StepKept

\* BeginThread: a thread that is reconciled is not ready meanwhile.
LEMMA BeginThreadKeeps ==
  ASSUME Inv, NEW s \in Sessions, BeginThread(s)
  PROVE  Kept
<1>1. PICK t \in ses[s].todo :
        IF Begins(db, t, ses[s].epoch)
        THEN /\ db' = BeginReconciliation(db, t, ses[s].epoch)
             /\ Update(s, [ses[s] EXCEPT !.cur = t, !.step = "resume", !.todo = @ \ {t}, !.snap = NoTurns])
        ELSE Fail(s)
  BY DEF BeginThread
<1>2. UNCHANGED server /\ ses[s].pc = "reconciling" /\ t \in Threads
  BY SesFacts DEF BeginThread, SessionSet
<1>3. CASE ~ Begins(db, t, ses[s].epoch)
  BY <1>1, <1>2, <1>3, FailKeeps
<1>4. CASE Begins(db, t, ses[s].epoch)
  <2> DEFINE y == [ses[s] EXCEPT !.cur = t, !.step = "resume", !.todo = @ \ {t}, !.snap = NoTurns]
  <2>1. Update(s, y)
    BY <1>1, <1>4
  <2>2. Fine(ses[s]) /\ BeginTo(ses[s], y, t)
    BY SesFacts DEF BeginTo
  <2> HIDE DEF y
  <2>3. /\ Fine(y) /\ VSame(ses[s], y) /\ y.evq = ses[s].evq /\ y.pc = "reconciling"
           /\ y.step = "resume"
        /\ y.subs = ses[s].subs /\ y.done = ses[s].done /\ y.cur = t
    BY <1>2, <2>2, BeginSes
  <2>4. DbInv(db') /\ Quiet(db, db') /\ ReadyKept(db, db') /\ db'.endpoint.epoch = db.endpoint.epoch
        /\ ~ IsReady(db', t)
    BY <1>1, <1>2, <1>4, SesFacts, BeginReconciliationIs
  <2>5. ASSUME Latest(s)' PROVE Complete(s)'
    <3>1. ses'[s] = y /\ UNCHANGED turn /\ TermStays(db, db')
      BY <1>2, <2>1, <2>4, SesFacts, UpdateIs DEF server, TermStays, Quiet
    <3>2. Latest(s) /\ Complete(s)
      BY <1>2, <2>3, <2>4, <2>5, <3>1, SesFacts DEF Latest, VSame, Active
    <3>3. \A x \in Threads : IsReady(db', x) => x # ses'[s].cur
      BY <2>3, <2>4, <3>1
    <3> QED
      BY <1>2, <2>3, <2>4, <3>1, <3>2, <3>3, SesFacts, CompleteMoves DEF Latest
  <2> QED
    BY <1>2, <2>1, <2>3, <2>4, <2>5, StepKept
<1> QED
  BY <1>3, <1>4

\* The answers to resume, read and list: a turn that ends after the subscription is
\* in the queue, one that ended before the pages is in them.
LEMMA ResumeKeeps ==
  ASSUME Inv, NEW s \in Sessions, Resume(s) \/ ReadThread(s) \/ ListTurns(s)
  PROVE  Kept
<1>0. UNCHANGED <<db, server>> /\ ses[s].pc = "reconciling" /\ ses[s].step # "none"
  BY DEF Resume, ReadThread, ListTurns, Answered
<1>1. ses[s].cur \in Threads
  BY <1>0, SesFacts DEF Fine
<1>2. \E y : /\ Update(s, y) /\ Fine(y) /\ VSame(ses[s], y) /\ y.evq = ses[s].evq
                /\ y.pc = "reconciling"
             /\ ses[s].subs \subseteq y.subs /\ y.done = ses[s].done /\ y.cur = ses[s].cur
             /\ y.step \in {"read", "turns", "items"}
             /\ y.step = "read" \/ (ses[s].step \in {"read", "turns"} /\ y.subs = ses[s].subs)
             /\ y.step = "read" => y.cur \in y.subs
             /\ y.step = "items" => \A u \in Turns : ThreadOf[u] = y.cur /\ turn[u] \in Ends
                => y.snap[u] = turn[u]
  <2>1. CASE Resume(s)
    <3> DEFINE y == [ses[s] EXCEPT !.subs = @ \union {ses[s].cur}, !.step = "read"]
    <3>1. Update(s, y)
      BY <2>1 DEF Resume
    <3>2. /\ Fine(y) /\ VSame(ses[s], y) /\ y.evq = ses[s].evq /\ y.pc = "reconciling"
             /\ y.step = "read"
          /\ ses[s].subs \subseteq y.subs /\ y.done = ses[s].done /\ y.cur = ses[s].cur
             /\ y.cur \in y.subs
      <4>1. Fine(ses[s]) /\ ResumeTo(ses[s], y)
        BY SesFacts DEF ResumeTo
      <4> HIDE DEF y
      <4> QED
        BY <1>0, <1>1, <4>1, ResumeSes
    <3> HIDE DEF y
    <3> QED
      BY <3>1, <3>2
  <2>2. CASE ReadThread(s)
    <3> DEFINE y == [ses[s] EXCEPT !.step = "turns"]
    <3>1. Update(s, y) /\ ses[s].step = "read"
      BY <2>2 DEF ReadThread, Answered
    <3>2. /\ Fine(y) /\ VSame(ses[s], y) /\ y.evq = ses[s].evq /\ y.pc = "reconciling"
             /\ y.step = "turns"
          /\ ses[s].subs = y.subs /\ y.done = ses[s].done /\ y.cur = ses[s].cur
      BY SMTT(30), <1>0, <1>1, SesFacts DEF Fine, SessionSet, VSame, Active
    <3> HIDE DEF y
    <3> QED
      BY <3>1, <3>2
  <2>3. CASE ListTurns(s)
    <3> DEFINE g == [u \in Turns |-> IF ThreadOf[u] = ses[s].cur /\ turn[u] \in Ends THEN turn[u] ELSE "none"]
               y == [ses[s] EXCEPT !.step = "items", !.snap = g]
    <3>1. Update(s, y) /\ ses[s].step = "turns"
      BY <2>3 DEF ListTurns, Answered
    <3>2. g \in [Turns -> Outcomes] /\ \A u \in Turns : ThreadOf[u] = ses[s].cur
            /\ turn[u] \in Ends => g[u] = turn[u]
      BY DEF Outcomes, Ends
    <3>4. Fine(ses[s]) /\ ListTo(ses[s], y, g)
      BY SesFacts DEF ListTo
    <3> HIDE DEF g, y
    <3>3. /\ Fine(y) /\ VSame(ses[s], y) /\ y.evq = ses[s].evq /\ y.pc = "reconciling"
             /\ y.step = "items"
          /\ ses[s].subs = y.subs /\ y.done = ses[s].done /\ y.cur = ses[s].cur /\ y.snap = g
      BY <1>0, <1>1, <3>2, <3>4, ListSes
    <3> QED
      BY <3>1, <3>2, <3>3
  <2> QED
    BY <2>1, <2>2, <2>3
<1>3. PICK y : /\ Update(s, y) /\ Fine(y) /\ VSame(ses[s], y) /\ y.evq = ses[s].evq
                  /\ y.pc = "reconciling"
               /\ ses[s].subs \subseteq y.subs /\ y.done = ses[s].done /\ y.cur = ses[s].cur
               /\ y.step \in {"read", "turns", "items"}
               /\ y.step = "read" \/ (ses[s].step \in {"read", "turns"} /\ y.subs = ses[s].subs)
               /\ y.step = "read" => y.cur \in y.subs
               /\ y.step = "items" => \A u \in Turns : ThreadOf[u] = y.cur /\ turn[u] \in Ends
                  => y.snap[u] = turn[u]
  BY <1>2
<1>4. DbInv(db') /\ Quiet(db, db') /\ ReadyKept(db, db')
  BY <1>0, DbFacts
<1>5. ASSUME Latest(s)' PROVE Complete(s)'
  <2>1. ses'[s] = y /\ UNCHANGED turn /\ TermStays(db, db')
    BY <1>0, <1>3, SesFacts, UpdateIs DEF server, TermStays
  <2>2. Latest(s) /\ Complete(s)
    BY <1>0, <1>3, <1>5, <2>1, SesFacts DEF Latest, VSame, Active
  <2>3. \A x \in Threads : IsReady(db', x) => x # ses'[s].cur
    BY <1>0, <1>3, <2>1, <2>2 DEF Complete
  <2>4. ses'[s].cur \in ses'[s].subs
    BY <1>0, <1>3, <2>1, <2>2 DEF Complete
  <2>5. ses[s].subs \subseteq ses'[s].subs /\ ses[s].done \subseteq ses'[s].done
        /\ ses'[s].evq = ses[s].evq /\ ses'[s].pc # "connecting"
    BY <1>3, <2>1
  <2>6. \A u \in Turns : ses'[s].step = "items" /\ ThreadOf[u] = ses'[s].cur /\ turn[u] \in Ends
          => ses'[s].snap[u] = turn[u]
    BY <1>3, <2>1
  <2> QED
    BY <1>4, <2>1, <2>2, <2>3, <2>4, <2>5, <2>6, SesFacts, CompleteMoves DEF Latest
<1> QED
  BY <1>0, <1>3, <1>4, <1>5, StepKept

FinishTo(x, y) ==
  y = [x EXCEPT !.done = @ \union {x.cur}, !.cur = NoThread, !.step = "none",
                !.box = <<>>, !.over = FALSE]
LiveTo(x, y) == y = [x EXCEPT !.pc = "live"]
TakeTo(x, y) == y = [x EXCEPT !.evq = Tail(@)]
BoxTo(x, y, b, q) == y = [x EXCEPT !.evq = Tail(@), !.over = b, !.box = q]

\* The session after a thread is finished.
LEMMA FinishSes ==
  ASSUME NEW x, Fine(x), x.pc = "reconciling", x.cur \in Threads, NEW y, FinishTo(x, y)
  PROVE  /\ Fine(y) /\ VSame(x, y) /\ y.evq = x.evq /\ y.pc = "reconciling" /\ y.step = "none"
         /\ y.subs = x.subs /\ y.done = x.done \union {x.cur} /\ y.cur = NoThread
<1>0. x.done \union {x.cur} \in SUBSET Threads /\ <<>> \in Seq(EventSet)
  BY DEF Fine, SessionSet
<1>1. y \in SessionSet
  BY <1>0 DEF Fine, SessionSet, FinishTo
<1>2. /\ VSame(x, y) /\ y.evq = x.evq /\ y.pc = x.pc /\ y.step = "none"
      /\ y.subs = x.subs /\ y.done = x.done \union {x.cur} /\ y.cur = NoThread
  BY DEF Fine, SessionSet, VSame, FinishTo
<1> QED
  BY <1>1, <1>2 DEF Fine, VSame, Active

\* The session that has reconciled everything.
LEMMA LiveSes ==
  ASSUME NEW x, Fine(x), x.pc = "reconciling", NEW y, LiveTo(x, y)
  PROVE  /\ Fine(y) /\ VSame(x, y) /\ y.evq = x.evq /\ y.pc = "live"
         /\ y.subs = x.subs /\ y.done = x.done /\ y.cur = x.cur
<1>1. y \in SessionSet
  BY DEF Fine, SessionSet, LiveTo
<1>2. /\ VSame(x, y) /\ y.evq = x.evq /\ y.pc = "live"
      /\ y.subs = x.subs /\ y.done = x.done /\ y.cur = x.cur
  BY DEF Fine, SessionSet, VSame, LiveTo
<1> QED
  BY <1>1, <1>2 DEF Fine, VSame, Active

\* The session that has taken an event.
LEMMA TakeSes ==
  ASSUME NEW x, Fine(x), x.evq # <<>>, NEW y, TakeTo(x, y)
  PROVE  /\ Fine(y) /\ VSame(x, y) /\ y.evq = Tail(x.evq) /\ y.pc = x.pc /\ y.step = x.step
         /\ y.subs = x.subs /\ y.done = x.done /\ y.cur = x.cur /\ y.snap = x.snap
         /\ y.box = x.box /\ y.over = x.over
<1>0. Tail(x.evq) \in Seq(EventSet)
  BY InTail DEF Fine, SessionSet
<1>1. y \in SessionSet
  BY <1>0 DEF Fine, SessionSet, TakeTo
<1>2. /\ VSame(x, y) /\ y.evq = Tail(x.evq) /\ y.pc = x.pc /\ y.step = x.step
      /\ y.subs = x.subs /\ y.done = x.done /\ y.cur = x.cur /\ y.snap = x.snap
      /\ y.box = x.box /\ y.over = x.over
  BY DEF Fine, SessionSet, VSame, TakeTo
<1> QED
  BY <1>1, <1>2 DEF Fine, VSame, Active

\* The session that has put an event into the mailbox.
LEMMA BoxSes ==
  ASSUME NEW x, Fine(x), x.evq # <<>>, NEW b \in BOOLEAN, NEW q \in Seq(EventSet), NEW y, BoxTo(x, y, b, q)
  PROVE  /\ Fine(y) /\ VSame(x, y) /\ y.evq = Tail(x.evq) /\ y.pc = x.pc /\ y.step = x.step
         /\ y.subs = x.subs /\ y.done = x.done /\ y.cur = x.cur /\ y.snap = x.snap
         /\ y.box = q /\ y.over = b
<1>0. Tail(x.evq) \in Seq(EventSet)
  BY InTail DEF Fine, SessionSet
<1>1. y \in SessionSet
  BY <1>0 DEF Fine, SessionSet, BoxTo
<1>2. /\ VSame(x, y) /\ y.evq = Tail(x.evq) /\ y.pc = x.pc /\ y.step = x.step
      /\ y.subs = x.subs /\ y.done = x.done /\ y.cur = x.cur /\ y.snap = x.snap
      /\ y.box = q /\ y.over = b
  BY DEF Fine, SessionSet, VSame, BoxTo
<1> QED
  BY <1>1, <1>2 DEF Fine, VSame, Active

\* Reconciled.
LEMMA ReconciledKeeps ==
  ASSUME Inv, NEW s \in Sessions, Reconciled(s)
  PROVE  Kept
<1> DEFINE y == [ses[s] EXCEPT !.pc = "live"]
<1>1. /\ ses[s].pc = "reconciling" /\ db' = SetEndpoint(db, ses[s].epoch, "ready")
      /\ Update(s, y) /\ UNCHANGED server
  BY DEF Reconciled
<1>2. Fine(ses[s]) /\ LiveTo(ses[s], y)
  BY SesFacts DEF LiveTo
<1> HIDE DEF y
<1>3. /\ Fine(y) /\ VSame(ses[s], y) /\ y.evq = ses[s].evq /\ y.pc = "live"
      /\ y.subs = ses[s].subs /\ y.done = ses[s].done /\ y.cur = ses[s].cur
  BY <1>1, <1>2, LiveSes
<1>4. DbInv(db') /\ Quiet(db, db') /\ ReadyKept(db, db') /\ db'.endpoint.epoch = db.endpoint.epoch
  BY <1>1, SesFacts, SetEndpointIs
<1>5. ASSUME Latest(s)' PROVE Complete(s)'
  <2>1. ses'[s] = y /\ UNCHANGED turn /\ TermStays(db, db')
    BY <1>1, <1>4, SesFacts, UpdateIs DEF server, TermStays, Quiet
  <2>2. Latest(s) /\ Complete(s)
    BY <1>1, <1>3, <1>4, <1>5, <2>1, SesFacts DEF Latest, VSame, Active
  <2>3. \A t \in Threads : IsReady(db', t) => t # ses'[s].cur
    BY <1>3, <1>4, <2>1, <2>2 DEF ReadyKept, Complete
  <2> QED
    BY <1>1, <1>3, <1>4, <2>1, <2>2, <2>3, SesFacts, CompleteMoves DEF Latest
<1> QED
  BY <1>1, <1>3, <1>4, <1>5, StepKept

\* The thread is given up.
LEMMA UncertainKeeps ==
  ASSUME Inv, NEW s \in Sessions, ses[s].pc = "reconciling", ses[s].step # "none",
         db' = MarkThreadUncertain(db, ses[s].cur, ses[s].epoch), Update(s, Finished(s)), UNCHANGED server
  PROVE  Kept
<1> DEFINE y == Finished(s)
<1>1. ses[s].cur \in Threads
  BY SesFacts DEF Fine
<1>2. Fine(ses[s]) /\ FinishTo(ses[s], y) /\ Update(s, y)
  BY SesFacts DEF FinishTo, Finished
<1> HIDE DEF y
<1>3. /\ Fine(y) /\ VSame(ses[s], y) /\ y.evq = ses[s].evq /\ y.pc = "reconciling"
         /\ y.step = "none"
      /\ y.subs = ses[s].subs /\ y.done = ses[s].done \union {ses[s].cur} /\ y.cur = NoThread
  BY <1>1, <1>2, FinishSes
<1>4. DbInv(db') /\ Quiet(db, db') /\ ReadyKept(db, db') /\ db'.endpoint.epoch = db.endpoint.epoch
  BY <1>1, SesFacts, MarkThreadUncertainIs
<1>5. ASSUME Latest(s)' PROVE Complete(s)'
  <2>1. ses'[s] = y /\ UNCHANGED turn /\ TermStays(db, db')
    BY <1>2, <1>4, SesFacts, UpdateIs DEF server, TermStays, Quiet
  <2>2. Latest(s) /\ Complete(s)
    BY <1>3, <1>4, <1>5, <2>1, SesFacts DEF Latest, VSame, Active
  <2>3. \A t \in Threads : IsReady(db', t) => t # ses'[s].cur
    BY <1>3, <2>1, ExternalAssumption
  <2> QED
    BY <1>3, <1>4, <2>1, <2>2, <2>3, SesFacts, CompleteMoves DEF Latest
<1> QED
  BY <1>2, <1>3, <1>4, <1>5, StepKept

\* AnswerUnusable.
LEMMA UnusableKeeps ==
  ASSUME Inv, NEW s \in Sessions, AnswerUnusable(s)
  PROVE  Kept
  BY UncertainKeeps DEF AnswerUnusable

\* What is written down of a thread is what its turns came to.
LEMMA ProjectionIs ==
  ASSUME Inv, NEW s \in Sessions
  PROVE  /\ Projection(s) \in [Turns -> Outcomes]
         /\ ~ Disagrees(s) => \A u \in Turns : turn[u] \in Ends =>
              (ses[s].snap[u] = turn[u] \/ In(ses[s].box, Ending(u)) => Projection(s)[u] = turn[u])
<1> DEFINE box == ses[s].box
           snap == ses[s].snap
           Has(u) == \E k \in 1 .. Len(box) : box[k].about = u
           Pick(u) == CHOOSE e \in {box[k] : k \in 1 .. Len(box)} : e.about = u
<1>1. box \in Seq(EventSet) /\ snap \in [Turns -> Outcomes] /\ Len(box) \in Nat
      /\ \A k \in 1 .. Len(box) : box[k] \in EventSet
  BY SesFacts DEF SessionSet
<1>2. \A e \in EventSet : e.status \in Outcomes
  BY DEF EventSet, TurnEvents, AskEvents, Outcomes, Ends
<1>3. ASSUME NEW u, Has(u) PROVE \E k \in 1 .. Len(box) : Pick(u) = box[k] /\ box[k].about = u
  <2>1. \E e \in {box[k] : k \in 1 .. Len(box)} : e.about = u
    BY <1>3
  <2>2. Pick(u) \in {box[k] : k \in 1 .. Len(box)} /\ Pick(u).about = u
    BY <2>1
  <2> HIDE DEF Pick
  <2> QED
    BY <2>2
<1>4. Projection(s) = [u \in Turns |-> IF Has(u) THEN Pick(u).status ELSE snap[u]]
  BY DEF Projection
<1>5. \A u : Has(u) => Pick(u).status \in Outcomes
  <2> HIDE DEF Pick
  <2> QED
    BY <1>1, <1>2, <1>3
<1>6. Projection(s) \in [Turns -> Outcomes]
  <2> HIDE DEF Pick, Has, snap
  <2> QED
    BY <1>1, <1>4, <1>5
<1>7. ASSUME ~ Disagrees(s), NEW u \in Turns, turn[u] \in Ends, snap[u] = turn[u]
        \/ In(box, Ending(u))
      PROVE  Projection(s)[u] = turn[u]
  <2>1. CASE ~ Has(u)
    <3>1. ~ In(box, Ending(u))
      BY <2>1 DEF In, Ending
    <3> QED
      BY <1>4, <1>7, <2>1, <3>1
  <2>2. CASE Has(u)
    <3>1. PICK k \in 1 .. Len(box) : Pick(u) = box[k] /\ box[k].about = u
      BY <1>3, <2>2
    <3>2. \A j \in 1 .. Len(box) :
            /\ snap[box[j].about] \in {"none", box[j].status}
            /\ \A h \in 1 .. (j - 1) : box[h].about = box[j].about => box[h].status = box[j].status
      BY <1>7 DEF Disagrees, DisagreesAt
    <3>3. box[k].status = turn[u]
      <4>1. CASE snap[u] = turn[u]
        BY <1>7, <3>1, <3>2, <4>1 DEF Ends
      <4>2. CASE In(box, Ending(u))
        <5>1. PICK j \in 1 .. Len(box) : box[j] = Ending(u)
          BY <4>2 DEF In
        <5>2. box[j].about = u /\ box[j].status = turn[u]
          BY <5>1 DEF Ending
        <5>3. j \in Nat /\ k \in Nat /\ (j = k \/ j \in 1 .. (k - 1) \/ k \in 1 .. (j - 1))
          BY <1>1
        <5> HIDE DEF box, snap
        <5> QED
          BY <3>1, <3>2, <5>2, <5>3
      <4> QED
        BY <1>7, <4>1, <4>2
    <3>4. Projection(s)[u] = Pick(u).status
      <4> HIDE DEF Pick, Has
      <4> QED
        BY <1>4, <2>2
    <3> QED
      BY <3>1, <3>3, <3>4
  <2> QED
    BY <2>1, <2>2
<1> QED
  BY <1>6, <1>7

\* The pages with the mailbox are recorded and the thread is ready.
LEMMA RecordedKeeps ==
  ASSUME Inv, NEW s \in Sessions, ses[s].pc = "reconciling", ses[s].step = "items", ses[s].evq = <<>>,
         ~ ses[s].over, ~ Disagrees(s), Current(db, ses[s].cur, ses[s].epoch, "reconciling"),
         Finishes(db, db', ses[s].cur, ses[s].epoch, Projection(s)),
         Update(s, Finished(s)), UNCHANGED server
  PROVE  Kept
<1> DEFINE y == Finished(s)
           t == ses[s].cur
           e == ses[s].epoch
           p == Projection(s)
<1>1. t \in Threads
  BY SesFacts DEF Fine
<1>2. Fine(ses[s]) /\ FinishTo(ses[s], y) /\ Update(s, y)
  BY SesFacts DEF FinishTo, Finished
<1> HIDE DEF y
<1>3. /\ Fine(y) /\ VSame(ses[s], y) /\ y.evq = ses[s].evq /\ y.pc = "reconciling"
         /\ y.step = "none"
      /\ y.subs = ses[s].subs /\ y.done = ses[s].done \union {ses[s].cur} /\ y.cur = NoThread
  BY <1>1, <1>2, FinishSes
<1>4. p \in [Turns -> Outcomes] /\ DbInv(db) /\ e \in Nat
  BY ProjectionIs, SesFacts
<1>5. /\ DbInv(db') /\ Quiet(db, db') /\ db'.endpoint.epoch = db.endpoint.epoch
      /\ \A x \in Threads : x # t /\ IsReady(db', x) => IsReady(db, x)
      /\ IsReady(db', t) => Recorded(db, db', t, p)
  <2>1. Finishes(db, db', t, e, p)
    OBVIOUS
  <2> HIDE DEF t, e, p
  <2> QED
    BY <1>1, <1>4, <2>1, FinishingIs
<1>6. e = db.endpoint.epoch
  BY DEF Current
<1>7. ses'[s] = y /\ UNCHANGED turn /\ TermStays(db, db')
  BY <1>2, <1>5, SesFacts, UpdateIs DEF server, TermStays, Quiet
<1>8. Complete(s) /\ t \in ses[s].subs
  <2>1. Complete(s)
    BY <1>6, SesFacts DEF Latest, Active
  <2> QED
    BY <2>1 DEF Complete
<1>9. Complete(s)'
  <2>1. ASSUME NEW x \in Threads, IsReady(db', x) PROVE y.pc # "connecting" /\ x \in y.done
          /\ x \in y.subs /\ x # y.cur
    <3>1. x # NoThread
      BY ExternalAssumption
    <3>2. CASE x = t
      BY <1>3, <1>8, <3>1, <3>2
    <3>3. CASE x # t
      <4>1. x \in ses[s].done /\ x \in ses[s].subs
        BY <1>5, <1>8, <2>1, <3>3 DEF Complete
      <4> QED
        BY <1>3, <3>1, <4>1
    <3> QED
      BY <3>2, <3>3
  <2>2. \A u \in Turns : ~ In(ses[s].evq, Ending(u)) /\ Ending(u)' = Ending(u)
    BY <1>7, InEmpty DEF Ending
  <2>3. ASSUME NEW u \in Turns, IsReady(db', ThreadOf[u]), turn[u] \in Ends
        PROVE db'.term[u] = turn[u]
    <3>0. ThreadOf[u] \in Threads
      BY ThreadsOf
    <3>1. CASE ThreadOf[u] = t
      <4>1. ses[s].snap[u] = turn[u] \/ In(ses[s].box, Ending(u))
        BY <1>8, <2>2, <2>3, <3>1 DEF Complete
      <4>2. p[u] = turn[u] /\ p[u] # "none"
        BY <2>3, <4>1, ProjectionIs DEF Ends
      <4> QED
        BY <1>5, <2>3, <3>1, <4>2 DEF Recorded
    <3>2. CASE ThreadOf[u] # t
      <4>1. db.term[u] = turn[u]
        BY <1>5, <1>8, <2>2, <2>3, <3>0, <3>2 DEF Complete
      <4> QED
        BY <1>7, <2>3, <4>1 DEF TermStays, Ends
    <3> QED
      BY <3>1, <3>2
  <2> QED
    BY <1>3, <1>7, <2>1, <2>2, <2>3 DEF Complete
<1> QED
  BY <1>2, <1>3, <1>5, <1>6, <1>9, StepKept

\* FinishThread, in all its cases.
LEMMA FinishThreadKeeps ==
  ASSUME Inv, NEW s \in Sessions, FinishThread(s)
  PROVE  Kept
<1>1. UNCHANGED server /\ ses[s].pc = "reconciling" /\ ses[s].step = "items" /\ ses[s].evq = <<>>
  BY DEF FinishThread, Answered
<1>2. \/ Fail(s)
      \/ db' = MarkThreadUncertain(db, ses[s].cur, ses[s].epoch) /\ Update(s, Finished(s))
      \/ /\ ~ ses[s].over /\ ~ Disagrees(s) /\ Current(db, ses[s].cur, ses[s].epoch, "reconciling")
         /\ Finishes(db, db', ses[s].cur, ses[s].epoch, Projection(s))
         /\ Update(s, Finished(s))
  BY DEF FinishThread, Finishes
<1> QED
  BY <1>1, <1>2, FailKeeps, UncertainKeeps, RecordedKeeps

\* An event is taken and recorded, or is of a thread that is not ready.
LEMMA TakenKeeps ==
  ASSUME Inv, NEW s \in Sessions, NEW y, Update(s, y), TakeTo(ses[s], y), ses[s].evq # <<>>,
         UNCHANGED server, DbInv(db'), Quiet(db, db'), ReadyKept(db, db'),
         db'.endpoint.epoch = db.endpoint.epoch,
         \A u \in Turns : Ending(u) = Head(ses[s].evq) /\ turn[u] \in Ends /\ Latest(s) =>
           /\ IsReady(db', ThreadOf[u]) => db'.term[u] = turn[u]
           /\ ses[s].pc = "reconciling" => ThreadOf[u] # ses[s].cur
  PROVE  Kept
<1>1. Fine(ses[s]) /\ ses[s].evq \in Seq(EventSet)
  BY SesFacts
<1>2. /\ Fine(y) /\ VSame(ses[s], y) /\ y.evq = Tail(ses[s].evq) /\ y.pc = ses[s].pc
         /\ y.step = ses[s].step
      /\ y.subs = ses[s].subs /\ y.done = ses[s].done /\ y.cur = ses[s].cur /\ y.snap = ses[s].snap
      /\ y.box = ses[s].box /\ y.over = ses[s].over
  BY <1>1, TakeSes
<1>3. \A ev : In(ses[s].evq, ev) <=> ev = Head(ses[s].evq) \/ In(y.evq, ev)
  BY <1>1, <1>2, InTail
<1>4. ASSUME Latest(s)' PROVE Complete(s)'
  <2>1. ses'[s] = y /\ UNCHANGED turn /\ TermStays(db, db')
    BY SesFacts, UpdateIs DEF server, TermStays, Quiet
  <2>2. Latest(s) /\ Complete(s)
    BY <1>2, <1>4, <2>1, SesFacts DEF Latest, VSame
  <2>3. \A t \in Threads : IsReady(db', t) => IsReady(db, t)
    BY DEF ReadyKept
  <2>4. \A u \in Turns : Ending(u)' = Ending(u) /\ ThreadOf[u] \in Threads
    BY <2>1, ThreadsOf DEF Ending
  <2>5. \A t \in Threads : IsReady(db', t) => y.pc # "connecting" /\ t \in y.done /\ t \in y.subs
          /\ t # y.cur
    BY <1>2, <2>2, <2>3 DEF Complete
  <2>6. ASSUME NEW u \in Turns, IsReady(db', ThreadOf[u]), turn[u] \in Ends
        PROVE  db'.term[u] = turn[u] \/ In(y.evq, Ending(u))
    <3>1. db.term[u] = turn[u] \/ In(ses[s].evq, Ending(u))
      BY <2>2, <2>3, <2>4, <2>6 DEF Complete
    <3>2. db.term[u] = turn[u] => db'.term[u] = turn[u]
      BY <2>1, <2>6 DEF TermStays, Ends
    <3> QED
      BY <1>3, <2>2, <2>6, <3>1, <3>2
  <2>7. y.pc = "reconciling" /\ y.step \in {"read", "turns", "items"} => y.cur \in y.subs
    BY <1>2, <2>2 DEF Complete
  <2>8. ASSUME NEW u \in Turns, y.pc = "reconciling", y.step = "items", ThreadOf[u] = y.cur, turn[u] \in Ends
        PROVE  y.over \/ y.snap[u] = turn[u] \/ In(y.evq, Ending(u)) \/ In(y.box, Ending(u))
    <3>1. y.over \/ y.snap[u] = turn[u] \/ In(ses[s].evq, Ending(u)) \/ In(y.box, Ending(u))
      BY <1>2, <2>2, <2>8 DEF Complete
    <3>2. Ending(u) # Head(ses[s].evq)
      BY <1>2, <2>2, <2>8
    <3> QED
      BY <1>3, <3>1, <3>2
  <2> QED
    BY <2>1, <2>4, <2>5, <2>6, <2>7, <2>8 DEF Complete
<1>5. \A ev \in AskEvents : In(y.evq, ev) => In(ses[s].evq, ev)
  BY <1>3
<1> QED
  BY <1>2, <1>4, <1>5, StepKept

\* The event that is taken next.
LEMMA HeadIs ==
  ASSUME Inv, NEW s \in Sessions, ses[s].evq # <<>>
  PROVE  /\ Head(ses[s].evq) \in EventSet /\ ThreadOf[Head(ses[s].evq).about] \in Threads
         /\ Head(ses[s].evq).kind = "turn" => Head(ses[s].evq) \in TurnEvents
         /\ Ended(Head(ses[s].evq)) \in [Turns -> Outcomes]
         /\ In(ses[s].evq, Head(ses[s].evq))
<1> DEFINE x == Head(ses[s].evq)
<1>1. ses[s].evq \in Seq(EventSet)
  BY SesFacts
<1>2. x \in EventSet /\ In(ses[s].evq, x)
  BY <1>1, InTail
<1> HIDE DEF x
<1>3. ThreadOf[x.about] \in Threads
  BY <1>2, ThreadsOf DEF EventSet, TurnEvents, AskEvents
<1>4. x.kind = "turn" => x \in TurnEvents
  BY <1>2 DEF EventSet, AskEvents
<1>5. x.status \in Outcomes
  BY <1>2 DEF EventSet, TurnEvents, AskEvents, Outcomes, Ends
<1>6. Ended(x) \in [Turns -> Outcomes]
  BY <1>5 DEF Ended, Outcomes
<1> QED
  BY <1>2, <1>3, <1>4, <1>6 DEF x

\* The event that was taken is recorded.
LEMMA RecordKeeps ==
  ASSUME Inv, NEW s \in Sessions, ses[s].evq # <<>>, UNCHANGED server, NEW y, Update(s, y), TakeTo(ses[s], y),
         NEW x, x = Head(ses[s].evq), Current(db, ThreadOf[x.about], ses[s].epoch, "ready"), x.kind = "turn",
         db' = ApplyTerminals(db, ThreadOf[x.about], ses[s].epoch, Ended(x), FALSE)
  PROVE  Kept
<1> DEFINE t == ThreadOf[x.about]
           e == ses[s].epoch
           p == Ended(x)
<1>1. x \in TurnEvents /\ t \in Threads /\ p \in [Turns -> Outcomes] /\ DbInv(db) /\ e \in Nat
  BY HeadIs, SesFacts
<1>2. \A u \in Turns : Ending(u) = x /\ turn[u] \in Ends => ThreadOf[u] = t /\ p[u] = turn[u]
        /\ p[u] # "none"
  BY DEF Ending, Ended, Ends
<1>3. Learns(db, db', t, e, p)
  BY DEF Learns
<1>4. IsReady(db, t)
  BY DEF Current, IsReady
<1> HIDE DEF p, t, e
<1>5. /\ DbInv(db') /\ Quiet(db, db') /\ db'.endpoint.epoch = db.endpoint.epoch
      /\ ReadyKept(db, db') /\ (IsReady(db', t) => Recorded(db, db', t, p))
  BY ONLY <1>1, <1>3, RecordingIs
<1>6. ASSUME NEW u \in Turns, Ending(u) = x, turn[u] \in Ends, Latest(s)
      PROVE  /\ IsReady(db', ThreadOf[u]) => db'.term[u] = turn[u]
             /\ ThreadOf[u] # ses[s].cur
  <2>1. ThreadOf[u] = t /\ p[u] = turn[u] /\ p[u] # "none"
    BY <1>2, <1>6
  <2>2. Complete(s)
    BY <1>6, SesFacts
  <2>3. t # ses[s].cur
    BY <1>1, <1>4, <2>2 DEF Complete
  <2> QED
    BY <1>5, <2>1, <2>3 DEF Recorded
<1> QED
  BY <1>5, <1>6, TakenKeeps

\* apply_live_event.
LEMMA ApplyLiveKeeps ==
  ASSUME Inv, NEW s \in Sessions, ses[s].evq # <<>>, UNCHANGED server, ApplyLive(s, Head(ses[s].evq))
  PROVE  Kept
<1> DEFINE x == Head(ses[s].evq)
           y == [ses[s] EXCEPT !.evq = Tail(@)]
<1>1. \/ Fail(s)
      \/ /\ Current(db, ThreadOf[x.about], ses[s].epoch, "ready") /\ x.kind = "turn"
         /\ db' = ApplyTerminals(db, ThreadOf[x.about], ses[s].epoch, Ended(x), FALSE)
         /\ Update(s, y)
  BY DEF ApplyLive
<1>2. TakeTo(ses[s], y)
  BY DEF TakeTo
<1> HIDE DEF y
<1> QED
  BY <1>1, <1>2, FailKeeps, RecordKeeps

\* LiveEvent.
LEMMA LiveEventKeeps ==
  ASSUME Inv, NEW s \in Sessions, LiveEvent(s)
  PROVE  Kept
  BY ApplyLiveKeeps DEF LiveEvent

\* An event goes into the mailbox.
LEMMA BoxedKeeps ==
  ASSUME Inv, NEW s \in Sessions, ses[s].evq # <<>>, UNCHANGED <<db, server>>, NEW y, Update(s, y),
         ThreadOf[Head(ses[s].evq).about] \notin ses[s].done,
         NEW b \in BOOLEAN, NEW q \in Seq(EventSet), BoxTo(ses[s], y, b, q),
         b \/ q = Append(ses[s].box, Head(ses[s].evq)), ses[s].over => b
  PROVE  Kept
<1>1. Fine(ses[s]) /\ ses[s].evq \in Seq(EventSet) /\ ses[s].box \in Seq(EventSet)
      /\ Head(ses[s].evq) \in EventSet
  BY SesFacts, HeadIs
<1>2. /\ Fine(y) /\ VSame(ses[s], y) /\ y.evq = Tail(ses[s].evq) /\ y.pc = ses[s].pc
         /\ y.step = ses[s].step
      /\ y.subs = ses[s].subs /\ y.done = ses[s].done /\ y.cur = ses[s].cur /\ y.snap = ses[s].snap
      /\ y.box = q /\ y.over = b
  BY <1>1, BoxSes
<1>3. \A ev : In(ses[s].evq, ev) <=> ev = Head(ses[s].evq) \/ In(y.evq, ev)
  BY <1>1, <1>2, InTail
<1>4. ASSUME ~ b PROVE \A ev : In(q, ev) <=> In(ses[s].box, ev) \/ ev = Head(ses[s].evq)
  <2>1. q = Append(ses[s].box, Head(ses[s].evq))
    BY <1>4
  <2> QED
    BY <1>1, <2>1, InAppend
<1>5. DbInv(db') /\ Quiet(db, db') /\ ReadyKept(db, db')
  BY DbFacts
<1>6. ASSUME Latest(s)' PROVE Complete(s)'
  <2>1. ses'[s] = y /\ UNCHANGED turn
    BY SesFacts, UpdateIs DEF server
  <2>2. Latest(s) /\ Complete(s)
    BY <1>2, <1>6, <2>1, SesFacts DEF Latest, VSame
  <2>4. \A u \in Turns : Ending(u)' = Ending(u) /\ ThreadOf[u] \in Threads
    BY <2>1, ThreadsOf DEF Ending
  <2>5. \A t \in Threads : IsReady(db, t) => y.pc # "connecting" /\ t \in y.done /\ t \in y.subs
          /\ t # y.cur
    BY <1>2, <2>2 DEF Complete
  <2>6. ASSUME NEW u \in Turns, IsReady(db, ThreadOf[u]), turn[u] \in Ends
        PROVE  db.term[u] = turn[u] \/ In(y.evq, Ending(u))
    <3>1. db.term[u] = turn[u] \/ In(ses[s].evq, Ending(u))
      BY <2>2, <2>6 DEF Complete
    <3>2. Ending(u) # Head(ses[s].evq)
      <4>1. ThreadOf[u] \in ses[s].done
        BY <1>2, <2>4, <2>5, <2>6
      <4>2. Ending(u).about = u
        BY DEF Ending
      <4> QED
        BY <4>1, <4>2
    <3> QED
      BY <1>3, <3>1, <3>2
  <2>7. y.pc = "reconciling" /\ y.step \in {"read", "turns", "items"} => y.cur \in y.subs
    BY <1>2, <2>2 DEF Complete
  <2>8. ASSUME NEW u \in Turns, y.pc = "reconciling", y.step = "items", ThreadOf[u] = y.cur, turn[u] \in Ends
        PROVE  y.over \/ y.snap[u] = turn[u] \/ In(y.evq, Ending(u)) \/ In(y.box, Ending(u))
    <3>1. ses[s].over \/ y.snap[u] = turn[u] \/ In(ses[s].evq, Ending(u))
            \/ In(ses[s].box, Ending(u))
      BY <1>2, <2>2, <2>8 DEF Complete
    <3> QED
      BY <1>2, <1>3, <1>4, <3>1
  <2> QED
    BY <2>1, <2>4, <2>5, <2>6, <2>7, <2>8 DEF Complete
<1>7. \A ev \in AskEvents : In(y.evq, ev) => In(ses[s].evq, ev)
  BY <1>3
<1> QED
  BY <1>2, <1>5, <1>6, <1>7, StepKept

\* route_reconcile_event.
LEMMA RouteEventKeeps ==
  ASSUME Inv, NEW s \in Sessions, RouteEvent(s)
  PROVE  Kept
<1> DEFINE x == Head(ses[s].evq)
<1>1. ses[s].evq # <<>> /\ UNCHANGED server
  BY DEF RouteEvent
<1>2. CASE ThreadOf[x.about] \in ses[s].done
  BY <1>1, <1>2, ApplyLiveKeeps DEF RouteEvent
<1>3. CASE ThreadOf[x.about] \notin ses[s].done
  <2> DEFINE b == ses[s].over \/ Len(ses[s].box) >= MailCap
             q == IF ses[s].over
               \/ Len(ses[s].box) >= MailCap THEN ses[s].box ELSE Append(ses[s].box, x)
             y == [ses[s] EXCEPT !.evq = Tail(@), !.over = b, !.box = q]
  <2>1. Update(s, y) /\ UNCHANGED db
    BY <1>3 DEF RouteEvent
  <2>2. BoxTo(ses[s], y, b, q)
    BY DEF BoxTo
  <2>3. ses[s].box \in Seq(EventSet) /\ x \in EventSet /\ ses[s].over \in BOOLEAN
    BY <1>1, HeadIs, SesFacts DEF SessionSet
  <2>4. b \in BOOLEAN /\ (ses[s].over => b) /\ (b \/ q = Append(ses[s].box, x))
    BY <2>3
  <2>5. q \in Seq(EventSet)
    BY <2>3, InAppend
  <2> HIDE DEF y, b, q
  <2> QED
    BY <1>1, <1>3, <2>1, <2>2, <2>4, <2>5, BoxedKeeps
<1> QED
  BY <1>2, <1>3

\* What a command changes of its session.
Still(x, y) == RSame(x, y) /\ y.evq = x.evq /\ y.epoch = x.epoch
GotoTo(x, y, p) == y = [x EXCEPT !.phase = p]
ReturnTo(x, y) == y = [x EXCEPT !.cmd = NoIntent, !.phase = "none", !.reply = "none"]
SubmitTo(x, y, c, p) == y = [x EXCEPT !.cmd = c, !.phase = p]
Phases == {"owner", "acquire", "idle", "send", "sent", "wait", "confirm",
           "deny", "late", "decide", "denying", "answer", "denial"}

\* The session in its next phase.
LEMMA GotoSes ==
  ASSUME NEW x, Fine(x), NEW p \in Phases, NEW y, GotoTo(x, y, p)
  PROVE  Fine(y) /\ Still(x, y) /\ y.cmd = x.cmd /\ y.phase = p /\ y.reply = x.reply
<1>1. y \in SessionSet
  BY DEF Fine, SessionSet, GotoTo, Phases
<1>2. Still(x, y) /\ y.cmd = x.cmd /\ y.phase = p /\ y.reply = x.reply
  BY DEF Fine, SessionSet, Still, RSame, GotoTo
<1> QED
  BY <1>1, <1>2 DEF Fine, Still, RSame

\* The session whose command has ended.
LEMMA ReturnSes ==
  ASSUME NEW x, Fine(x), NEW y, ReturnTo(x, y)
  PROVE  Fine(y) /\ Still(x, y) /\ y.cmd = NoIntent /\ y.phase = "none" /\ y.reply = "none"
<1>1. y \in SessionSet
  BY DEF Fine, SessionSet, ReturnTo
<1>2. Still(x, y) /\ y.cmd = NoIntent /\ y.phase = "none" /\ y.reply = "none"
  BY DEF Fine, SessionSet, Still, RSame, ReturnTo
<1> QED
  BY <1>1, <1>2 DEF Fine, Still, RSame

\* The session with a command.
LEMMA SubmitSes ==
  ASSUME NEW x, Fine(x), x.pc = "live", x.cmd = NoIntent, NEW c \in Intents \cup Asks,
         NEW p \in Phases, NEW y, SubmitTo(x, y, c, p)
  PROVE  Fine(y) /\ Still(x, y) /\ y.cmd = c /\ y.phase = p /\ y.reply = "none"
<1>0. x.reply = "none"
  BY ThreadsOf DEF Fine
<1>1. y \in SessionSet
  BY ZenonT(30) DEF Fine, SessionSet, SubmitTo, Phases
<1>2. Still(x, y) /\ y.cmd = c /\ y.phase = p /\ y.reply = x.reply
  BY DEF Fine, SessionSet, Still, RSame, SubmitTo
<1> QED
  BY <1>0, <1>1, <1>2 DEF Fine, Still, RSame

\* A step of a command: the verdict and the owner remain to be shown.
LEMMA CommandKept ==
  ASSUME Inv, DbInv(db'), Knows(db, db'), db'.endpoint = db.endpoint, db'.thread = db.thread,
         db'.claim = db.claim, UNCHANGED <<turn, effects, ask, answers>>,
         wire' \subseteq Sessions \X Nat \X Intents,
         NEW s \in Sessions, NEW y, Update(s, y), Fine(y), Still(ses[s], y),
         y.cmd \notin Asks \/ y.phase \notin AnswerPhases,
         VerdictInv', OwnInv'
  PROVE  Kept
<1>1. ses'[s] = y /\ (\A r \in Sessions \ {s} : ses'[r] = ses[r])
        /\ ses' \in [Sessions -> SessionSet]
  BY UpdateIs DEF Inv, BaseInv, Fine
<1>2. BaseInv
  BY DEF Inv
<1>3. db.endpoint.epoch \in Nat /\ db'.endpoint.epoch >= db.endpoint.epoch
  BY <1>2 DEF BaseInv, DbInv, Tabled, EndpointSet
<1>4. SesInv'
  <2>1. \A r \in Sessions : Fine(ses'[r]) /\ ses'[r].epoch = ses[r].epoch
    BY <1>1, <1>2 DEF BaseInv, SesInv, Still
  <2> QED
    BY <1>1, <1>2, <1>3, <2>1, SesKept DEF BaseInv
<1>5. BaseInv'
  BY <1>2, <1>4 DEF BaseInv, ServerType
<1>6. ClaimsQuiet(db, db') /\ TermStays(db, db') /\ ReadyKept(db, db')
  BY <1>3 DEF ClaimsQuiet, Knows, ReadyKept, IsReady
<1>7. AnswerInv'
  <2>1. \A r \in Sessions : ASame(ses[r], ses'[r])
    BY <1>1 DEF ASame, Still
  <2> QED
    BY <1>2, <1>6, <2>1, AnswerKept DEF Inv
<1>8. ReadyInv'
  <2>1. \A u \in Turns : Reported(u)
    BY DEF Reported
  <2>2. \A r \in Sessions : RSame(ses[r], ses'[r])
    BY <1>1 DEF RSame, Still
  <2> QED
    BY <1>2, <1>3, <1>6, <2>1, <2>2, ReadyInvKept DEF Inv
<1> QED
  BY <1>5, <1>7, <1>8 DEF Inv, Kept

\* An intent is written: nobody else has it under way.
LEMMA VerdictWritten ==
  ASSUME BaseInv, VerdictInv, NEW s \in Sessions, NEW i \in Intents, NEW x \in IntentSet,
         Writes(db, db', i, x), UNCHANGED <<wire, effects>>,
         \A r \in Sessions \ {s} : ses'[r] = ses[r],
         db.intent[i].state = "none" \/ db.intent[i].epoch = ses[s].epoch, ses[s].epoch # 0,
         x.state # "none", x.state \in {"prepared", "rejected"} => effects[i] = 0 /\ ~ OnWire(i),
         x.state = "applied" => effects[i] = 1,
         ses'[s].cmd \in Intents => CommandInv(ses[s], ses[s].cmd)'
  PROVE  VerdictInv'
<1>1. db'.intent[i] = x /\ \A j \in Intents \ {i} : db'.intent[j] = db.intent[j]
  BY DEF Writes
<1>2. \A j \in Intents : OnWire(j)' <=> OnWire(j)
  BY DEF OnWire
<1>3. EffectInv'
  BY <1>1, <1>2 DEF VerdictInv, EffectInv
<1>4. ASSUME NEW r \in Sessions, r # s, ses'[r].cmd \in Intents
      PROVE CommandInv(ses[r], ses[r].cmd)'
  <2>1. ses'[r] = ses[r] /\ CommandInv(ses[r], ses[r].cmd)
    BY <1>4 DEF VerdictInv
  <2>2. CASE ses[r].cmd # i
    <3>1. db'.intent[ses[r].cmd] = db.intent[ses[r].cmd]
      BY <1>1, <1>4, <2>1, <2>2
    <3> QED
      BY <1>2, <1>4, <2>1, <3>1 DEF CommandInv
  <2>3. CASE ses[r].cmd = i
    <3>1. ses[r].phase \notin {"idle", "send", "sent", "wait", "confirm"}
      <4>1. ASSUME ses[r].phase \in {"idle", "send", "sent", "wait", "confirm"} PROVE FALSE
        <5>1. db.intent[i].epoch = ses[r].epoch /\ db.intent[i].state # "none"
          BY <2>1, <2>3, <4>1 DEF CommandInv
        <5>2. ses[r].epoch = ses[s].epoch
          BY <5>1
        <5> QED
          BY <1>4, <5>2 DEF BaseInv, SesInv
      <4> QED
        BY <4>1
    <3> QED
      BY <1>1, <2>1, <2>3, <3>1 DEF CommandInv
  <2> QED
    BY <2>2, <2>3
<1> QED
  BY <1>3, <1>4 DEF VerdictInv

\* A mutation takes back nothing that is known.
LEMMA WritesKnows ==
  ASSUME DbInv(db), NEW i \in Intents, NEW x, Writes(db, db', i, x), db.intent[i].state # "applied"
  PROVE  /\ Knows(db, db') /\ AppliedStays(db, db') /\ db'.endpoint = db.endpoint
         /\ db'.thread = db.thread /\ db'.claim = db.claim
  BY DEF Writes, Knows, TermStays, AppliedStays

\* The session of a command that is under way.
LEMMA PhaseIs ==
  ASSUME Inv, NEW s \in Sessions, NEW p, Phase(s, p)
  PROVE  /\ ses[s].cmd \in Intents /\ ses[s].phase = p /\ ses[s].pc = "live" /\ ses[s].epoch # 0
         /\ CommandInv(ses[s], ses[s].cmd) /\ Fine(ses[s]) /\ BaseInv /\ DbInv(db)
            /\ ses[s].epoch \in Nat
         /\ VerdictInv /\ EffectInv /\ wire \subseteq Sessions \X Nat \X Intents
  BY DEF Inv, BaseInv, SesInv, SessionSet, Fine, Active, VerdictInv, Phase, ServerType

\* UpdateIs, from the whole invariant.
LEMMA UpdateOne ==
  ASSUME Inv, NEW s \in Sessions, NEW y, Update(s, y)
  PROVE  ses'[s] = y /\ \A r \in Sessions \ {s} : ses'[r] = ses[r]
  BY UpdateIs DEF Inv, BaseInv

\* The tables stay and the command goes on.
LEMMA GoesOn ==
  ASSUME Inv, NEW s \in Sessions, NEW y, Update(s, y), UNCHANGED <<db, server>>,
         Fine(y), Still(ses[s], y), y.cmd \notin Asks \/ y.phase \notin AnswerPhases,
         y.cmd \in Intents => CommandInv(y, y.cmd),
         y.cmd \in Intents /\ y.phase \notin {"none", "owner"} => MadeBy(db, y.cmd)
  PROVE  Kept
<1>1. ses'[s] = y /\ \A r \in Sessions \ {s} : ses'[r] = ses[r]
  BY UpdateOne
<1>2. UNCHANGED <<turn, queue, wire, effects, ask, answers>>
  BY DEF server
<1>3. BaseInv /\ VerdictInv /\ OwnInv /\ EffectInv
  BY DEF Inv, VerdictInv
<1>4. \A j \in Intents : OnWire(j)' <=> OnWire(j)
  BY <1>2 DEF OnWire
<1>5. EffectInv'
  BY <1>2, <1>3, <1>4 DEF EffectInv
<1>6. ASSUME NEW r \in Sessions, ses'[r].cmd \in Intents PROVE CommandInv(ses[r], ses[r].cmd)'
  <2>1. CommandInv(ses'[r], ses'[r].cmd)
    BY <1>1, <1>3, <1>6 DEF VerdictInv
  <2> QED
    BY <1>2, <1>4, <1>6, <2>1 DEF CommandInv
<1>7. VerdictInv'
  BY <1>5, <1>6 DEF VerdictInv
<1>8. OwnInv'
  <2>1. AppliedStays(db, db')
    BY DEF AppliedStays
  <2>2. \A i \in Intents : (effects[i] > 0 \/ OnWire(i))' => effects[i] > 0 \/ OnWire(i)
    BY <1>2, <1>4
  <2> QED
    BY <1>1, <1>3, <2>1, <2>2, OwnKept
<1>9. Knows(db, db') /\ DbInv(db') /\ wire' \subseteq Sessions \X Nat \X Intents
  BY <1>2, <1>3 DEF Knows, TermStays, BaseInv, ServerType
<1> QED
  BY <1>2, <1>7, <1>8, <1>9, CommandKept

\* A command ends and the tables stay.
LEMMA ReturnKeeps ==
  ASSUME Inv, NEW s \in Sessions, Returns(s), UNCHANGED <<db, server>>
  PROVE  Kept
<1> DEFINE y == [ses[s] EXCEPT !.cmd = NoIntent, !.phase = "none", !.reply = "none"]
<1>1. Update(s, y) /\ ReturnTo(ses[s], y) /\ Fine(ses[s])
  BY SesFacts DEF Returns, ReturnTo
<1> HIDE DEF y
<1>2. Fine(y) /\ Still(ses[s], y) /\ y.cmd = NoIntent /\ y.phase = "none" /\ y.reply = "none"
  BY <1>1, ReturnSes
<1>3. y.cmd \notin Intents /\ y.cmd \notin Asks
  BY <1>2, ThreadsOf
<1> QED
  BY <1>1, <1>2, <1>3, GoesOn

\* ReadRefused.
LEMMA ReadRefusedKeeps ==
  ASSUME Inv, NEW s \in Sessions, ReadRefused(s)
  PROVE  Kept
  BY ReturnKeeps DEF ReadRefused

\* Submit.
LEMMA SubmitKeeps ==
  ASSUME Inv, NEW s \in Sessions, NEW i \in Intents, Submit(s, i)
  PROVE  Kept
<1> DEFINE p == IF KindOf[i] = "start" THEN "acquire" ELSE "owner"
           y == [ses[s] EXCEPT !.cmd = i, !.phase = p]
<1>1. /\ Update(s, y) /\ SubmitTo(ses[s], y, i, p) /\ Fine(ses[s]) /\ UNCHANGED <<db, server>>
      /\ ses[s].pc = "live" /\ ses[s].cmd = NoIntent
  BY SesFacts DEF Submit, SubmitTo, Idle
<1>2. p \in {"acquire", "owner"} /\ p \in Phases /\ (p = "acquire" => KindOf[i] = "start")
  BY DEF Phases
<1> HIDE DEF y, p
<1>3. Fine(y) /\ Still(ses[s], y) /\ y.cmd = i /\ y.phase = p /\ y.reply = "none"
  BY <1>1, <1>2, SubmitSes
<1>4. CommandInv(y, i) /\ (y.phase \notin {"none", "owner"} => MadeBy(db, i)) /\ i \notin Asks
  BY <1>2, <1>3, ThreadsOf DEF CommandInv, MadeBy
<1> QED
  BY <1>1, <1>3, <1>4, GoesOn

\* CheckOwner: whoever owned the target is recorded as applied, and stays so.
LEMMA CheckOwnerKeeps ==
  ASSUME Inv, NEW s \in Sessions, CheckOwner(s)
  PROVE  Kept
<1> DEFINE i == ses[s].cmd
           y == [ses[s] EXCEPT !.phase = "acquire"]
<1>0. Phase(s, "owner") /\ UNCHANGED <<db, server>>
  BY DEF CheckOwner
<1>1. CASE ~ Owned(i)
  BY <1>0, <1>1, ReturnKeeps DEF CheckOwner
<1>2. CASE Owned(i)
  <2>1. /\ Update(s, y) /\ GotoTo(ses[s], y, "acquire") /\ Fine(ses[s])
    BY <1>2, SesFacts DEF CheckOwner, Goto, GotoTo
  <2>2. i \in Intents /\ CommandInv(ses[s], i) /\ ses[s].phase = "owner"
    BY <1>0, PhaseIs
  <2> HIDE DEF y
  <2>3. Fine(y) /\ Still(ses[s], y) /\ y.cmd = i /\ y.phase = "acquire" /\ y.reply = ses[s].reply
    BY <2>1, GotoSes DEF Phases
  <2>4. MadeBy(db, i)
    BY <1>2 DEF Owned, Owners, MadeBy
  <2>5. CommandInv(y, i)
    BY <2>2, <2>3 DEF CommandInv
  <2>6. i \notin Asks
    BY <2>2, ThreadsOf
  <2> QED
    BY <1>0, <2>1, <2>3, <2>4, <2>5, <2>6, GoesOn
<1> QED
  BY <1>1, <1>2

\* An intent is written and its command goes on or returns.
LEMMA WrittenKeeps ==
  ASSUME Inv, NEW s \in Sessions, NEW y, Update(s, y), UNCHANGED server, DbInv(db'), Fine(y),
         Still(ses[s], y), NEW i \in Intents, ses[s].cmd = i, ses[s].phase \notin {"none", "owner"},
         ses[s].epoch # 0, NEW x \in IntentSet, Writes(db, db', i, x), db.intent[i].state # "applied",
         db.intent[i].state = "none" \/ db.intent[i].epoch = ses[s].epoch,
         x.state # "none", x.state \in {"prepared", "rejected"} => effects[i] = 0 /\ ~ OnWire(i),
         x.state = "applied" => effects[i] = 1,
         \/ y.cmd = NoIntent
         \/ /\ y.cmd = i /\ y.reply = "none" /\ x.epoch = ses[s].epoch /\ effects[i] = 0
               /\ ~ OnWire(i)
            /\ \/ y.phase \in {"idle", "send"} /\ x.state = "prepared"
               \/ y.phase = "sent" /\ x.state = "sent"
  PROVE  Kept
<1>1. ses'[s] = y /\ \A r \in Sessions \ {s} : ses'[r] = ses[r]
  BY UpdateOne
<1>2. UNCHANGED <<turn, queue, wire, effects, ask, answers>>
  BY DEF server
<1>3. BaseInv /\ VerdictInv /\ OwnInv /\ DbInv(db)
  BY DEF Inv, BaseInv
<1>4. /\ Knows(db, db') /\ AppliedStays(db, db') /\ db'.endpoint = db.endpoint
      /\ db'.thread = db.thread /\ db'.claim = db.claim
  BY <1>3, WritesKnows
<1>5. y.cmd \in Intents => y.cmd = i
  BY ThreadsOf
<1>6. \A j \in Intents : OnWire(j)' <=> OnWire(j)
  BY <1>2 DEF OnWire
<1>7. ASSUME ses'[s].cmd \in Intents PROVE CommandInv(ses[s], ses[s].cmd)'
  <2>1. y.cmd = i /\ y.cmd # NoIntent
    BY <1>1, <1>5, <1>7, ThreadsOf
  <2>2. /\ y.reply = "none" /\ x.epoch = y.epoch /\ effects[i] = 0 /\ ~ OnWire(i)
        /\ \/ y.phase \in {"idle", "send"} /\ x.state = "prepared"
           \/ y.phase = "sent" /\ x.state = "sent"
    BY <2>1 DEF Still
  <2>3. db'.intent[i] = x /\ effects'[i] = 0 /\ ~ OnWire(i)'
    BY <1>2, <1>6, <2>2 DEF Writes
  <2>4. ses'[s].cmd = i /\ ses'[s] = y
    BY <1>1, <2>1
  <2> QED
    BY <2>2, <2>3, <2>4 DEF CommandInv
<1>8. VerdictInv'
  BY <1>1, <1>2, <1>3, <1>7, VerdictWritten
<1>9. OwnInv'
  <2>1. MadeBy(db, i)
    BY <1>3 DEF OwnInv
  <2>2. \A j \in Intents : (effects[j] > 0 \/ OnWire(j))' => effects[j] > 0 \/ OnWire(j)
    BY <1>2, <1>6
  <2> QED
    BY <1>1, <1>3, <1>4, <1>5, <2>1, <2>2, OwnKept
<1>10. wire' \subseteq Sessions \X Nat \X Intents
  BY <1>2, <1>3 DEF BaseInv, ServerType
<1>11. y.cmd \notin Asks
  BY ThreadsOf
<1> QED
  BY <1>2, <1>4, <1>8, <1>9, <1>10, <1>11, CommandKept

\* Acquire: the intent has never been prepared, so nothing of it is on the wire.
LEMMA AcquireKeeps ==
  ASSUME Inv, NEW s \in Sessions, Acquire(s)
  PROVE  Kept
<1> DEFINE i == ses[s].cmd
           outcome == PrepareOutcome(db, i, ses[s].epoch)
           p == IF KindOf[i] \in {"start", "pop"} THEN "idle" ELSE "send"
           y == [ses[s] EXCEPT !.phase = p]
<1>0. Phase(s, "acquire") /\ UNCHANGED server
  BY DEF Acquire
<1>1. CASE outcome = "Prepared"
  <2>1. /\ Update(s, y) /\ GotoTo(ses[s], y, p) /\ db' = Prepare(db, i, ses[s].epoch)
    BY <1>1 DEF Acquire, Goto, GotoTo
  <2>2. p \in {"idle", "send"} /\ p \in Phases
    BY DEF Phases
  <2>3. /\ i \in Intents /\ CommandInv(ses[s], i) /\ ses[s].phase = "acquire" /\ ses[s].epoch # 0
        /\ Fine(ses[s]) /\ DbInv(db) /\ EffectInv
    BY <1>0, PhaseIs
  <2> HIDE DEF y, p
  <2>4. Fine(y) /\ Still(ses[s], y) /\ y.cmd = i /\ y.phase = p /\ y.reply = ses[s].reply
    BY <2>1, <2>2, <2>3, GotoSes
  <2>5. /\ DbInv(db') /\ db.intent[i].state = "none"
        /\ \E x \in IntentSet : x.state = "prepared" /\ x.epoch = ses[s].epoch
           /\ Writes(db, db', i, x)
    <3> DEFINE e == ses[s].epoch
    <3>1. PrepareOutcome(db, i, e) = "Prepared" /\ db' = Prepare(db, i, e)
      BY <1>1, <2>1
    <3> HIDE DEF e, i
    <3>2. /\ DbInv(db') /\ db.intent[i].state = "none"
          /\ \E x \in IntentSet : x.state = "prepared" /\ x.epoch = e /\ Writes(db, db', i, x)
      BY <2>3, <3>1, PrepareIs
    <3> QED
      BY <3>2 DEF e
  <2>6. PICK x \in IntentSet : x.state = "prepared" /\ x.epoch = ses[s].epoch
          /\ Writes(db, db', i, x)
    BY <2>5
  <2>7. y.reply = "none" /\ effects[i] = 0 /\ ~ OnWire(i)
    BY <2>3, <2>4, <2>5 DEF CommandInv, EffectInv
  <2> QED
    BY <1>0, <2>1, <2>2, <2>3, <2>4, <2>5, <2>6, <2>7, WrittenKeeps
<1>2. CASE outcome = "Uncertain"
  BY <1>0, <1>2, FailKeeps DEF Acquire
<1>3. CASE outcome \notin {"Prepared", "Uncertain"}
  <2>1. UNCHANGED db /\ Returns(s)
    BY <1>3 DEF Acquire
  <2> QED
    BY <1>0, <2>1, ReturnKeeps
<1> QED
  BY <1>1, <1>2, <1>3

\* The verdict on a command.
LEMMA SettleKeeps ==
  ASSUME Inv, NEW s \in Sessions, UNCHANGED server, NEW p \in {"idle", "wait", "confirm"}, Phase(s, p),
         NEW to \in {"rejected", "applied"}, NEW result \in Turns \cup {NoIntent}, Settle(s, to, result),
         to = "rejected" => effects[ses[s].cmd] = 0 /\ ~ OnWire(ses[s].cmd),
         to = "applied" => effects[ses[s].cmd] = 1
  PROVE  Kept
<1> DEFINE i == ses[s].cmd
           e == ses[s].epoch
           y == [ses[s] EXCEPT !.cmd = NoIntent, !.phase = "none", !.reply = "none"]
<1>1. CASE ~ MayResolve(db, i, e, to)
  <2>1. UNCHANGED db /\ Returns(s)
    BY <1>1 DEF Settle
  <2> QED
    BY <2>1, ReturnKeeps
<1>2. CASE MayResolve(db, i, e, to)
  <2>1. db' = Resolve(db, i, to, result) /\ Update(s, y) /\ ReturnTo(ses[s], y)
    BY <1>2 DEF Settle, Returns, ReturnTo
  <2>2. i \in Intents /\ ses[s].phase = p /\ Fine(ses[s]) /\ DbInv(db) /\ ses[s].epoch # 0
    BY PhaseIs
  <2> HIDE DEF y
  <2>3. Fine(y) /\ Still(ses[s], y) /\ y.cmd = NoIntent
    BY <2>1, <2>2, ReturnSes
  <2>4. /\ DbInv(db') /\ db.intent[i].state \in Underway /\ db.intent[i].epoch = e
        /\ \E x \in IntentSet : x.state = to /\ x.epoch = e /\ x.result = result
           /\ Writes(db, db', i, x)
    <3> HIDE DEF i, e
    <3> QED
      BY <1>2, <2>1, <2>2, ResolveIs
  <2>5. PICK x \in IntentSet : x.state = to /\ x.epoch = e /\ x.result = result
          /\ Writes(db, db', i, x)
    BY <2>4
  <2>6. db.intent[i].state # "applied" /\ x.state # "none" /\ ses[s].phase \notin {"none", "owner"}
    BY <2>2, <2>4, <2>5 DEF Underway
  <2> QED
    BY <2>1, <2>2, <2>3, <2>4, <2>5, <2>6, WrittenKeeps
<1> QED
  BY <1>1, <1>2

\* The target of an intent is a turn of its thread.
LEMMA TargetIs ==
  ASSUME NEW i \in Intents
  PROVE  Target[i] \in Turns /\ i \in Turns
  BY ExternalAssumption, ThreadsOf

\* Preflight.
LEMMA PreflightKeeps ==
  ASSUME Inv, NEW s \in Sessions, Preflight(s)
  PROVE  Kept
<1> DEFINE i == ses[s].cmd
           y == [ses[s] EXCEPT !.phase = "send"]
<1>0. Phase(s, "idle") /\ UNCHANGED server
  BY DEF Preflight
<1>1. /\ i \in Intents /\ CommandInv(ses[s], i) /\ ses[s].phase = "idle" /\ Fine(ses[s])
         /\ EffectInv
  BY <1>0, PhaseIs
<1>2. (Goto(s, "send") /\ UNCHANGED db) \/ Settle(s, "rejected", NoIntent)
  BY DEF Preflight
<1>3. CASE Goto(s, "send") /\ UNCHANGED db
  <2>1. Update(s, y) /\ GotoTo(ses[s], y, "send")
    BY <1>3 DEF Goto, GotoTo
  <2> HIDE DEF y
  <2>2. Fine(y) /\ Still(ses[s], y) /\ y.cmd = i /\ y.phase = "send" /\ y.reply = ses[s].reply
    BY <1>1, <2>1, GotoSes DEF Phases
  <2>3. CommandInv(y, i)
    BY <1>1, <2>2 DEF CommandInv, Still
  <2>4. MadeBy(db, i) /\ i \notin Asks
    BY <1>1, ThreadsOf DEF Inv, OwnInv
  <2> QED
    BY <1>0, <1>1, <1>3, <2>1, <2>2, <2>3, <2>4, GoesOn
<1>4. CASE Settle(s, "rejected", NoIntent)
  <2>1. effects[i] = 0 /\ ~ OnWire(i)
    BY <1>1 DEF CommandInv, EffectInv
  <2> QED
    BY <1>0, <1>4, <2>1, SettleKeeps
<1> QED
  BY <1>2, <1>3, <1>4

\* mark_sent.
LEMMA SendKeeps ==
  ASSUME Inv, NEW s \in Sessions, Send(s)
  PROVE  Kept
<1> DEFINE i == ses[s].cmd
           e == ses[s].epoch
           y == [ses[s] EXCEPT !.phase = "sent"]
<1>0. Phase(s, "send") /\ UNCHANGED server
  BY DEF Send
<1>1. /\ i \in Intents /\ CommandInv(ses[s], i) /\ ses[s].phase = "send" /\ Fine(ses[s])
         /\ EffectInv
      /\ DbInv(db) /\ ses[s].epoch # 0
  BY <1>0, PhaseIs
<1>2. CASE ~ MaySend(db, i, e)
  <2>1. UNCHANGED db /\ Returns(s)
    BY <1>2 DEF Send
  <2> QED
    BY <1>0, <2>1, ReturnKeeps
<1>3. CASE MaySend(db, i, e)
  <2>1. Update(s, y) /\ GotoTo(ses[s], y, "sent") /\ db' = MarkSent(db, i)
    BY <1>3 DEF Send, Goto, GotoTo
  <2> HIDE DEF y
  <2>2. Fine(y) /\ Still(ses[s], y) /\ y.cmd = i /\ y.phase = "sent" /\ y.reply = ses[s].reply
    BY <1>1, <2>1, GotoSes DEF Phases
  <2>3. /\ DbInv(db') /\ db.intent[i].state \in Underway /\ db.intent[i].epoch = e
        /\ \E x \in IntentSet : x.state = "sent" /\ x.epoch = e /\ Writes(db, db', i, x)
    <3> HIDE DEF i, e
    <3> QED
      BY <1>1, <1>3, <2>1, MarkSentIs
  <2>4. PICK x \in IntentSet : x.state = "sent" /\ x.epoch = e /\ Writes(db, db', i, x)
    BY <2>3
  <2>5. y.reply = "none" /\ effects[i] = 0 /\ ~ OnWire(i) /\ db.intent[i].state # "applied"
    BY <1>1, <2>2 DEF CommandInv, EffectInv
  <2> QED
    BY <1>0, <1>1, <2>1, <2>2, <2>3, <2>4, <2>5, WrittenKeeps
<1> QED
  BY <1>2, <1>3

\* Answer: what the endpoint said of this request decides.
LEMMA AnswerKeeps ==
  ASSUME Inv, NEW s \in Sessions, Answer(s)
  PROVE  Kept
<1> DEFINE i == ses[s].cmd
           y == [ses[s] EXCEPT !.phase = "confirm"]
           result == IF KindOf[i] = "interrupt" THEN Target[i] ELSE i
<1>0. Phase(s, "wait") /\ UNCHANGED server
  BY DEF Answer
<1>1. /\ i \in Intents /\ CommandInv(ses[s], i) /\ ses[s].phase = "wait" /\ Fine(ses[s])
  BY <1>0, PhaseIs
<1>2. \/ ses[s].reply = "refused" /\ Settle(s, "rejected", NoIntent)
      \/ ses[s].reply = "done" /\ Goto(s, "confirm") /\ UNCHANGED db
      \/ ses[s].reply = "done" /\ Settle(s, "applied", result)
  BY DEF Answer
<1>3. CASE ses[s].reply = "refused" /\ Settle(s, "rejected", NoIntent)
  <2>1. effects[i] = 0 /\ ~ OnWire(i)
    BY <1>1, <1>3 DEF CommandInv
  <2> QED
    BY <1>0, <1>3, <2>1, SettleKeeps
<1>4. CASE ses[s].reply = "done" /\ Goto(s, "confirm") /\ UNCHANGED db
  <2>1. Update(s, y) /\ GotoTo(ses[s], y, "confirm")
    BY <1>4 DEF Goto, GotoTo
  <2> HIDE DEF y
  <2>2. Fine(y) /\ Still(ses[s], y) /\ y.cmd = i /\ y.phase = "confirm" /\ y.reply = ses[s].reply
    BY <1>1, <2>1, GotoSes DEF Phases
  <2>3. CommandInv(y, i)
    BY <1>1, <1>4, <2>2 DEF CommandInv, Still
  <2>4. MadeBy(db, i) /\ i \notin Asks
    BY <1>1, ThreadsOf DEF Inv, OwnInv
  <2> QED
    BY <1>0, <1>1, <1>4, <2>1, <2>2, <2>3, <2>4, GoesOn
<1>5. CASE ses[s].reply = "done" /\ Settle(s, "applied", result)
  <2>1. effects[i] = 1
    BY <1>1, <1>5 DEF CommandInv
  <2>2. result \in Turns \cup {NoIntent}
    BY <1>1, TargetIs
  <2> HIDE DEF result
  <2> QED
    BY <1>0, <1>5, <2>1, <2>2, SettleKeeps
<1> QED
  BY <1>2, <1>3, <1>4, <1>5

\* Confirm.
LEMMA ConfirmKeeps ==
  ASSUME Inv, NEW s \in Sessions, Confirm(s)
  PROVE  Kept
<1> DEFINE i == ses[s].cmd
           result == IF KindOf[i] = "steer" THEN Target[i] ELSE i
<1>0. Phase(s, "confirm") /\ UNCHANGED server /\ Settle(s, "applied", result)
  BY DEF Confirm
<1>1. /\ i \in Intents /\ CommandInv(ses[s], i) /\ ses[s].phase = "confirm"
  BY <1>0, PhaseIs
<1>2. effects[i] = 1
  BY <1>1 DEF CommandInv
<1>3. result \in Turns \cup {NoIntent}
  BY <1>1, TargetIs
<1> HIDE DEF result
<1> QED
  BY <1>0, <1>2, <1>3, SettleKeeps

\* No answer, or none that can be confirmed.
LEMMA UncertainEnds ==
  ASSUME Inv, NEW s \in Sessions, NEW p \in {"wait", "confirm"}, Phase(s, p), SettleUncertain(s), UNCHANGED server
  PROVE  Kept
<1> DEFINE i == ses[s].cmd
           e == ses[s].epoch
           m == Resolve(db, i, "uncertain", NoIntent)
<1>1. CASE ~ MayResolve(db, i, e, "uncertain")
  <2>1. UNCHANGED db /\ Returns(s)
    BY <1>1 DEF SettleUncertain
  <2> QED
    BY <2>1, ReturnKeeps
<1>2. CASE MayResolve(db, i, e, "uncertain")
  <2>1. db' = MarkUnavailable(m, e) /\ Update(s, Retire(s))
    BY <1>2 DEF SettleUncertain
  <2>2. i \in Intents /\ DbInv(db) /\ SesInv
    BY PhaseIs, DbFacts
  <2>3. /\ DbInv(m) /\ db.intent[i].state = "sent" /\ db.intent[i].epoch = e
        /\ \E x \in IntentSet : x.state = "uncertain" /\ x.epoch = e /\ Writes(db, m, i, x)
    <3>1. m = Resolve(db, i, "uncertain", NoIntent)
      OBVIOUS
    <3> HIDE DEF i, e, m
    <3> QED
      BY <1>2, <2>2, <3>1, ResolveIs
  <2>4. PICK x \in IntentSet : x.state = "uncertain" /\ x.epoch = e /\ Writes(db, m, i, x)
    BY <2>3
  <2> HIDE DEF m
  <2>5. DbInv(db') /\ Quiet(m, db') /\ ReadyKept(m, db') /\ db'.endpoint.epoch = m.endpoint.epoch
    BY <2>1, <2>3, MarkUnavailableIs
  <2>6. IntentsQuiet(m, db') /\ ClaimsQuiet(m, db') /\ TermStays(m, db') /\ Knows(m, db')
    BY <2>3, <2>5, QuietIs
  <2>7. IntentsQuiet(db, db')
    <3>1. ASSUME NEW j \in Intents \ {i} PROVE m.intent[j] = db.intent[j]
      BY <2>4 DEF Writes
    <3>2. m.intent[i].state = "uncertain" /\ m.intent[i].epoch = e
      BY <2>4 DEF Writes
    <3> HIDE DEF i, e
    <3> QED
      BY <2>3, <2>6, <3>1, <3>2 DEF IntentsQuiet
  <2>8. ClaimsQuiet(db, db') /\ Knows(db, db') /\ ReadyKept(db, db')
    BY <2>4, <2>5, <2>6 DEF Writes, ClaimsQuiet, Knows, TermStays, ReadyKept, IsReady
  <2>9. \E pc \in {"off", "backoff"} : Update(s, Session(pc, ses[s].epoch))
    BY <2>1 DEF Retire
  <2>10. PICK pc \in {"off", "backoff"} : Update(s, Session(pc, ses[s].epoch))
    BY <2>9
  <2>11. Over(ses[s], Session(pc, ses[s].epoch))
    BY <2>2, RetireIs
  <2> QED
    BY <2>5, <2>7, <2>8, <2>10, <2>11, GoneQuietly
<1> QED
  BY <1>1, <1>2

\* NoAnswer and Unconfirmed: the intent becomes uncertain and the session ends.
LEMMA LostAnswersKeep ==
  ASSUME Inv, NEW s \in Sessions, NoAnswer(s) \/ Unconfirmed(s)
  PROVE  Kept
<1>1. CASE NoAnswer(s)
  BY <1>1, UncertainEnds DEF NoAnswer
<1>2. CASE Unconfirmed(s)
  BY <1>2, UncertainEnds DEF Unconfirmed
<1> QED
  BY <1>1, <1>2

\* Request: the one time that the intent is put on the wire.
LEMMA RequestKeeps ==
  ASSUME Inv, NEW s \in Sessions, Request(s)
  PROVE  Kept
<1> DEFINE i == ses[s].cmd
           e == ses[s].epoch
           m == <<s, e, i>>
           y == [ses[s] EXCEPT !.phase = "wait"]
<1>0. Phase(s, "sent") /\ UNCHANGED <<db, turn, effects, ask, answers>> /\ wire' = wire \union {m}
      /\ Update(s, y) /\ GotoTo(ses[s], y, "wait")
  BY DEF Request, Goto, GotoTo
<1>1. /\ i \in Intents /\ CommandInv(ses[s], i) /\ ses[s].phase = "sent" /\ Fine(ses[s])
         /\ EffectInv
      /\ e \in Nat /\ e # 0 /\ BaseInv /\ VerdictInv /\ DbInv(db)
         /\ wire \subseteq Sessions \X Nat \X Intents
  BY <1>0, PhaseIs
<1> HIDE DEF y
<1>2. Fine(y) /\ Still(ses[s], y) /\ y.cmd = i /\ y.phase = "wait" /\ y.reply = ses[s].reply
  BY <1>0, <1>1, GotoSes DEF Phases
<1>3. m \in Sessions \X Nat \X Intents /\ m[3] = i
  BY <1>1
<1>4. ses'[s] = y /\ \A r \in Sessions \ {s} : ses'[r] = ses[r]
  BY <1>0, UpdateOne
<1> HIDE DEF m
<1>5. \A j \in Intents : OnWire(j)' <=> OnWire(j) \/ j = i
  BY <1>0, <1>3 DEF OnWire
<1>6. db.intent[i].epoch = e /\ db.intent[i].state \in {"sent", "uncertain"}
        /\ ses[s].reply = "none"
      /\ effects[i] = 0 /\ ~ OnWire(i)
  BY <1>1 DEF CommandInv
<1>7. EffectInv'
  <2>1. ASSUME NEW j \in Intents
        PROVE  /\ effects'[j] \in {0, 1}
               /\ db'.intent[j].state \in {"none", "prepared", "rejected"} => effects'[j] = 0
                  /\ ~ OnWire(j)'
               /\ db'.intent[j].state = "applied" => effects'[j] = 1
               /\ OnWire(j)' => effects'[j] = 0
    BY <1>0, <1>1, <1>5, <1>6 DEF EffectInv
  <2>2. ASSUME NEW k \in wire', NEW n \in wire', k[3] = n[3] PROVE k = n
    <3>1. \A x \in wire : x[3] # i
      BY <1>6 DEF OnWire
    <3> QED
      BY <1>0, <1>1, <1>3, <2>2, <3>1 DEF EffectInv
  <2> QED
    BY <2>1, <2>2 DEF EffectInv
<1>8. ASSUME NEW r \in Sessions, ses'[r].cmd \in Intents PROVE CommandInv(ses[r], ses[r].cmd)'
  <2>1. CASE r = s
    <3>1. ses'[r] = y
      BY <1>4, <2>1
    <3> QED
      BY <1>0, <1>2, <1>6, <3>1 DEF CommandInv, Still
  <2>2. CASE r # s
    <3>1. ses'[r] = ses[r] /\ CommandInv(ses[r], ses[r].cmd)
      BY <1>1, <1>4, <1>8, <2>2 DEF VerdictInv
    <3>2. CASE ses[r].cmd # i
      <4>1. OnWire(ses[r].cmd)' <=> OnWire(ses[r].cmd)
        BY <1>5, <1>8, <3>1, <3>2
      <4> QED
        BY <1>0, <3>1, <4>1 DEF CommandInv
    <3>3. CASE ses[r].cmd = i
      <4>1. ses[r].phase \notin {"idle", "send", "sent", "wait", "confirm"}
        <5>1. ASSUME ses[r].phase \in {"idle", "send", "sent", "wait", "confirm"} PROVE FALSE
          <6>1. ses[r].epoch = e
            BY <1>6, <3>1, <3>3, <5>1 DEF CommandInv
          <6> QED
            BY <1>1, <2>2, <6>1 DEF BaseInv, SesInv
        <5> QED
          BY <5>1
      <4> QED
        BY <1>0, <3>1, <3>3, <4>1 DEF CommandInv
    <3> QED
      BY <3>2, <3>3
  <2> QED
    BY <2>1, <2>2
<1>9. VerdictInv'
  BY <1>7, <1>8 DEF VerdictInv
<1>10. OwnInv'
  <2>1. OwnInv /\ MadeBy(db, i)
    BY <1>1 DEF Inv, OwnInv
  <2>2. \A j \in Intents : MadeBy(db, j)' <=> MadeBy(db, j)
    BY <1>0 DEF MadeBy
  <2>3. ASSUME NEW j \in Intents, (effects[j] > 0 \/ OnWire(j))' PROVE MadeBy(db, j)
    BY <1>0, <1>5, <2>1, <2>3 DEF OwnInv
  <2>4. ASSUME NEW r \in Sessions, ses'[r].cmd \in Intents, ses'[r].phase \notin {"none", "owner"}
        PROVE  MadeBy(db, ses'[r].cmd)
    BY <1>2, <1>4, <2>1, <2>4 DEF OwnInv
  <2> HIDE DEF i
  <2> QED
    BY <2>2, <2>3, <2>4 DEF OwnInv
<1>11. Knows(db, db') /\ DbInv(db') /\ db'.endpoint = db.endpoint /\ db'.thread = db.thread
       /\ db'.claim = db.claim
  BY <1>0, <1>1 DEF Knows, TermStays
<1>12. wire' \subseteq Sessions \X Nat \X Intents /\ y.cmd \notin Asks
  BY <1>0, <1>1, <1>2, <1>3, ThreadsOf
<1> QED
  BY <1>0, <1>2, <1>9, <1>10, <1>11, <1>12, CommandKept

-----------------------------------------------------------------------------

\* A step of the endpoint.
LEMMA EndpointKept ==
  ASSUME Inv, UNCHANGED db, ServerType', ses' \in [Sessions -> SessionSet],
         \A r \in Sessions : Fine(ses'[r]) /\ RSame(ses[r], ses'[r]), \A u \in Turns : Reported(u),
         VerdictInv', OwnInv', AnswerInv'
  PROVE  Kept
<1>1. BaseInv /\ DbInv(db) /\ ReadyKept(db, db') /\ TermStays(db, db') /\ Knows(db, db')
  BY DbFacts DEF Inv, TermStays, Knows
<1>2. db.endpoint.epoch \in Nat /\ db'.endpoint.epoch >= db.endpoint.epoch
  BY <1>1 DEF DbInv, Tabled, EndpointSet
<1>3. SesInv'
  <2>1. \A r \in Sessions : Fine(ses'[r]) /\ ses'[r].epoch = ses[r].epoch
    BY DEF RSame
  <2> QED
    BY <1>1, <1>2, <2>1, SesKept DEF BaseInv
<1>4. BaseInv'
  BY <1>1, <1>3 DEF BaseInv
<1>5. ReadyInv'
  BY <1>1, <1>2, ReadyInvKept DEF Inv
<1> QED
  BY <1>1, <1>4, <1>5 DEF Inv, Kept

\* Nobody's command changes.
LEMMA CommandsSame ==
  ASSUME Inv, UNCHANGED <<db, wire, effects>>, \A r \in Sessions : VSame(ses[r], ses'[r])
  PROVE  VerdictInv' /\ OwnInv'
<1>1. BaseInv /\ VerdictInv /\ OwnInv /\ DbInv(db)
  BY DEF Inv, BaseInv
<1>2. IntentsQuiet(db, db')
  BY DEF IntentsQuiet
<1>3. VerdictInv'
  BY <1>1, <1>2, VerdictKept
<1>4. AppliedStays(db, db')
  BY <1>2, QuietApplied
<1>5. \A i \in Intents : (effects[i] > 0 \/ OnWire(i))' => effects[i] > 0 \/ OnWire(i)
  BY DEF OnWire
<1>6. OwnInv'
  BY <1>1, <1>4, <1>5, OwnKept DEF VSame
<1> QED
  BY <1>3, <1>6

\* An event is added, or nothing happens to the session.
Hears(x, y, ev) == y = x \/ y = [x EXCEPT !.evq = Append(@, ev)]

\* A session that hears an event.
LEMMA HearsIs ==
  ASSUME NEW x, Fine(x), NEW y, NEW ev \in EventSet, Hears(x, y, ev)
  PROVE  /\ Fine(y) /\ RSame(x, y) /\ VSame(x, y)
         /\ \A d : In(y.evq, d) => In(x.evq, d) \/ d = ev
<1>1. CASE y = x
  BY <1>1 DEF RSame, VSame
<1>2. CASE y = [x EXCEPT !.evq = Append(@, ev)]
  <2>0. x \in SessionSet /\ x.evq \in Seq(EventSet)
    BY DEF Fine, SessionSet
  <2> DEFINE q == Append(x.evq, ev)
  <2>1. q \in Seq(EventSet) /\ \A d : In(q, d) <=> In(x.evq, d) \/ d = ev
    BY <2>0, InAppend
  <2>2. y = [x EXCEPT !.evq = q]
    BY <1>2
  <2> HIDE DEF q
  <2>3. y \in SessionSet
    BY <2>0, <2>1, <2>2 DEF SessionSet
  <2>4. /\ VSame(x, y) /\ y.evq = q /\ y.pc = x.pc /\ y.step = x.step
        /\ y.subs = x.subs /\ y.done = x.done /\ y.cur = x.cur /\ y.snap = x.snap
        /\ y.box = x.box /\ y.over = x.over
    BY <2>0, <2>2 DEF SessionSet, VSame
  <2>5. Fine(y)
    BY <2>3, <2>4 DEF Fine, VSame
  <2> QED
    BY <2>1, <2>4, <2>5 DEF RSame, VSame
<1> QED
  BY <1>1, <1>2 DEF Hears

\* Everybody who is subscribed hears it.
LEMMA HeardBy ==
  ASSUME NEW x, Fine(x), NEW y, NEW ev \in EventSet, y = [x EXCEPT !.evq = Append(@, ev)]
  PROVE  In(y.evq, ev)
<1>1. x \in SessionSet /\ x.evq \in Seq(EventSet)
  BY DEF Fine, SessionSet
<1>2. y.evq = Append(x.evq, ev)
  BY <1>1 DEF SessionSet
<1> QED
  BY <1>1, <1>2, InAppend

\* Emit, for every session.
LEMMA EmitIs ==
  ASSUME Inv, NEW kind, NEW x, Emit(kind, x), NEW ev \in EventSet, ev = Event(kind, x)
  PROVE  /\ ses' \in [Sessions -> SessionSet]
         /\ \A r \in Sessions :
              /\ Fine(ses'[r]) /\ RSame(ses[r], ses'[r]) /\ VSame(ses[r], ses'[r])
              /\ \A d : In(ses'[r].evq, d) => In(ses[r].evq, d) \/ d = ev
              /\ Connected(r) /\ ThreadOf[x] \in ses[r].subs => In(ses'[r].evq, ev)
<1>1. ASSUME NEW r \in Sessions
      PROVE  /\ Hears(ses[r], ses'[r], ev)
             /\ Connected(r) /\ ThreadOf[x] \in ses[r].subs
                => ses'[r] = [ses[r] EXCEPT !.evq = Append(@, ev)]
  BY DEF Emit, Hears
<1>2. ASSUME NEW r \in Sessions
      PROVE  /\ Fine(ses'[r]) /\ RSame(ses[r], ses'[r]) /\ VSame(ses[r], ses'[r])
             /\ \A d : In(ses'[r].evq, d) => In(ses[r].evq, d) \/ d = ev
             /\ Connected(r) /\ ThreadOf[x] \in ses[r].subs => In(ses'[r].evq, ev)
  <2>1. Fine(ses[r])
    BY SesFacts
  <2>2. Hears(ses[r], ses'[r], ev)
    BY <1>1
  <2>3. /\ Fine(ses'[r]) /\ RSame(ses[r], ses'[r]) /\ VSame(ses[r], ses'[r])
        /\ \A d : In(ses'[r].evq, d) => In(ses[r].evq, d) \/ d = ev
    BY <2>1, <2>2, HearsIs
  <2>4. ASSUME Connected(r), ThreadOf[x] \in ses[r].subs PROVE In(ses'[r].evq, ev)
    BY <1>1, <2>1, <2>4, HeardBy
  <2> QED
    BY <2>3, <2>4
<1>3. ses' = [r \in Sessions |-> ses'[r]] /\ \A r \in Sessions : ses'[r] \in SessionSet
  <2>1. ses' = [r \in Sessions |-> ses'[r]]
    BY DEF Emit
  <2>2. \A r \in Sessions : ses'[r] \in SessionSet
    BY <1>2 DEF Fine
  <2> QED
    BY <2>1, <2>2
<1>4. ses' \in [Sessions -> SessionSet]
  BY <1>3
<1> QED
  BY <1>2, <1>4

\* A turn ends, or is reported another way.
LEMMA EndedKeeps ==
  ASSUME Inv, NEW u \in Turns, NEW end \in Ends, turn' = [turn EXCEPT ![u] = end], Emit("turn", u),
         UNCHANGED <<db, queue, wire, effects, ask, answers>>
  PROVE  Kept
<1> DEFINE ev == [kind |-> "turn", about |-> u, status |-> end]
<1>0. ServerType /\ BaseInv
  BY DEF Inv, BaseInv
<1>1. turn'[u] = end /\ (\A v \in Turns : v # u => turn'[v] = turn[v]) /\ ServerType'
  BY <1>0 DEF ServerType, Ends
<1>2. ev \in TurnEvents /\ ev \in EventSet /\ ev = Event("turn", u) /\ ev = Ending(u)'
  BY <1>1 DEF TurnEvents, EventSet, Event, Ending
<1>3. ev \notin AskEvents
  BY DEF AskEvents
<1> HIDE DEF ev
<1>4. /\ ses' \in [Sessions -> SessionSet]
      /\ \A r \in Sessions :
           /\ Fine(ses'[r]) /\ RSame(ses[r], ses'[r]) /\ VSame(ses[r], ses'[r])
           /\ \A d : In(ses'[r].evq, d) => In(ses[r].evq, d) \/ d = ev
           /\ Connected(r) /\ ThreadOf[u] \in ses[r].subs => In(ses'[r].evq, ev)
  BY <1>2, EmitIs
<1>5. VerdictInv' /\ OwnInv'
  BY <1>4, CommandsSame
<1>6. \A v \in Turns : Reported(v)
  <2>1. Reported(u)
    BY <1>2, <1>4 DEF Reported, Connected
  <2> QED
    BY <1>1, <2>1 DEF Reported
<1>7. AnswerInv'
  <2>1. \A r \in Sessions : ASame(ses[r], ses'[r])
    BY <1>3, <1>4 DEF ASame, VSame
  <2>2. ClaimsQuiet(db, db')
    BY <1>0, DbFacts, QuietIs
  <2> QED
    BY <1>0, <2>1, <2>2, AnswerKept DEF Inv
<1> QED
  BY <1>1, <1>4, <1>5, <1>6, <1>7, EndpointKept

\* Turns of the endpoint.
LEMMA TurnsKeep ==
  ASSUME Inv, NEW u \in Turns, TurnBegins(u) \/ TurnEnds(u) \/ Misreport(u)
  PROVE  Kept
<1>1. CASE TurnEnds(u) \/ Misreport(u)
  <2>1. /\ \E end \in Ends : turn' = [turn EXCEPT ![u] = end]
        /\ Emit("turn", u) /\ UNCHANGED <<db, queue, wire, effects, ask, answers>>
    BY <1>1 DEF TurnEnds, Misreport, Ends
  <2> QED
    BY <2>1, EndedKeeps
<1>2. CASE TurnBegins(u)
  <2>1. turn' = [turn EXCEPT ![u] = "active"]
          /\ UNCHANGED <<db, ses, queue, wire, effects, ask, answers>>
    BY <1>2 DEF TurnBegins
  <2>2. ServerType /\ BaseInv /\ SesInv
    BY DEF Inv, BaseInv
  <2>3. turn'[u] = "active" /\ (\A v \in Turns : v # u => turn'[v] = turn[v]) /\ ServerType'
    BY <2>1, <2>2 DEF ServerType
  <2>4. \A v \in Turns : Reported(v)
    BY <2>3 DEF Reported, Ends
  <2>5. \A r \in Sessions : Fine(ses'[r]) /\ RSame(ses[r], ses'[r]) /\ VSame(ses[r], ses'[r])
    BY <2>1, <2>2 DEF SesInv, RSame, VSame
  <2>6. VerdictInv' /\ OwnInv'
    BY <2>1, <2>5, CommandsSame
  <2>7. AnswerInv'
    BY <2>1 DEF Inv, AnswerInv, Heard
  <2> QED
    BY <2>1, <2>2, <2>3, <2>4, <2>5, <2>6, <2>7, EndpointKept DEF SesInv
<1> QED
  BY <1>1, <1>2

\* A request is put to a session.
LEMMA AskedKept ==
  ASSUME Inv, NEW a \in Asks, answers[a] = 0, UNCHANGED <<db, answers>>,
         \A b \in Asks : answers[b] = 1 => ask'[b] = "closed",
         NEW ev, ev = [kind |-> "ask", about |-> a, status |-> "none"],
         \A r \in Sessions : /\ VSame(ses[r], ses'[r])
                             /\ \A d : In(ses'[r].evq, d) => In(ses[r].evq, d) \/ d = ev
  PROVE  AnswerInv'
<1>0. AnswerInv
  BY DEF Inv
<1>1. ASSUME NEW b \in Asks
      PROVE /\ answers'[b] \in {0, 1}
            /\ answers'[b] = 1 => /\ ask'[b] = "closed"
                                  /\ db'.claim[b].state \in {"responding", "denied", "resolved", "uncertain"}
  BY <1>0 DEF AnswerInv
<1>2. ASSUME NEW s \in Sessions, NEW d \in AskEvents, Heard(s, d)'
      PROVE /\ d.kind = "resolved" => answers'[d.about] = 1
            /\ d.kind = "ask" /\ answers'[d.about] = 1 /\ ses'[s].epoch = db'.endpoint.epoch =>
                 db'.claim[d.about].epoch = db'.endpoint.epoch
                   \/ db'.claim[d.about].state = "uncertain"
  <2>1. In(ses[s].evq, d) \/ d = ev
    BY <1>2 DEF Heard
  <2>2. CASE d = ev
    BY <2>2
  <2>3. CASE In(ses[s].evq, d)
    <3>1. Heard(s, d) /\ ses'[s].epoch = ses[s].epoch
      BY <2>3 DEF Heard, VSame
    <3> QED
      BY <1>0, <3>1 DEF AnswerInv
  <2> QED
    BY <2>1, <2>2, <2>3
<1>3. ASSUME NEW s \in Sessions, ses'[s].cmd \in Asks, ses'[s].phase \in AnswerPhases
      PROVE  /\ db'.claim[ses'[s].cmd].epoch = ses'[s].epoch /\ answers'[ses'[s].cmd] = 0
             /\ db'.claim[ses'[s].cmd].state \in
                  (IF ses'[s].phase \in {"decide", "denying"} THEN {"claimed", "uncertain"}
                   ELSE {"responding", "uncertain"})
  <2>1. ses'[s].epoch = ses[s].epoch /\ ses'[s].cmd = ses[s].cmd /\ ses'[s].phase = ses[s].phase
    BY DEF VSame
  <2> QED
    BY <1>0, <1>3, <2>1 DEF AnswerInv
<1> QED
  BY <1>1, <1>2, <1>3 DEF AnswerInv

\* AskOpens: nobody has answered it.
LEMMA AskOpensKeeps ==
  ASSUME Inv, NEW a \in Asks, AskOpens(a)
  PROVE  Kept
<1> DEFINE ev == [kind |-> "ask", about |-> a, status |-> "none"]
<1>0. ServerType /\ AnswerInv
  BY DEF Inv, BaseInv
<1>1. /\ ask[a] = "none" /\ ask' = [ask EXCEPT ![a] = "open"] /\ Emit("ask", a)
      /\ UNCHANGED <<db, turn, queue, wire, effects, answers>>
  BY DEF AskOpens
<1>2. ask'[a] = "open" /\ (\A b \in Asks : b # a => ask'[b] = ask[b]) /\ ServerType'
  BY <1>0, <1>1 DEF ServerType
<1>3. answers[a] = 0 /\ \A b \in Asks : answers[b] = 1 => ask'[b] = "closed"
  BY <1>0, <1>1, <1>2 DEF AnswerInv
<1>4. ev \in EventSet /\ ev = Event("ask", a)
  BY DEF AskEvents, EventSet, Event
<1>5. ev = [kind |-> "ask", about |-> a, status |-> "none"]
  OBVIOUS
<1> HIDE DEF ev
<1>6. /\ ses' \in [Sessions -> SessionSet]
      /\ \A r \in Sessions :
           /\ Fine(ses'[r]) /\ RSame(ses[r], ses'[r]) /\ VSame(ses[r], ses'[r])
           /\ \A d : In(ses'[r].evq, d) => In(ses[r].evq, d) \/ d = ev
  BY <1>1, <1>4, EmitIs
<1>7. VerdictInv' /\ OwnInv'
  BY <1>1, <1>6, CommandsSame
<1>8. AnswerInv'
  BY <1>1, <1>3, <1>5, <1>6, AskedKept
<1>9. \A v \in Turns : Reported(v)
  BY <1>1 DEF Reported
<1> QED
  BY <1>1, <1>2, <1>6, <1>7, <1>8, <1>9, EndpointKept

AgainTo(x, y, ev) == y = [x EXCEPT !.evq = <<ev>>]

\* The session that is asked again.
LEMMA AgainSes ==
  ASSUME NEW x, Fine(x), x.evq = <<>>, NEW ev \in EventSet, NEW y, AgainTo(x, y, ev)
  PROVE  /\ Fine(y) /\ RSame(x, y) /\ VSame(x, y)
         /\ \A d : In(y.evq, d) => In(x.evq, d) \/ d = ev
<1>0. <<ev>> \in Seq(EventSet) /\ \A d : In(<<ev>>, d) => d = ev
  BY DEF In
<1>1. y \in SessionSet
  BY <1>0 DEF Fine, SessionSet, AgainTo
<1>2. /\ VSame(x, y) /\ y.evq = <<ev>> /\ y.pc = x.pc /\ y.step = x.step
      /\ y.subs = x.subs /\ y.done = x.done /\ y.cur = x.cur /\ y.snap = x.snap
      /\ y.box = x.box /\ y.over = x.over
  BY DEF Fine, SessionSet, VSame, AgainTo
<1>3. \A d : ~ In(x.evq, d)
  BY InEmpty
<1>4. Fine(y)
  BY <1>1, <1>2 DEF Fine, VSame
<1> QED
  BY <1>0, <1>2, <1>3, <1>4 DEF VSame, RSame

\* AskAgain: of a request that is open, so not answered.
LEMMA AskAgainKeeps ==
  ASSUME Inv, NEW a \in Asks, NEW s \in Sessions, AskAgain(s, a)
  PROVE  Kept
<1> DEFINE ev == [kind |-> "ask", about |-> a, status |-> "none"]
           y == [ses[s] EXCEPT !.evq = <<ev>>]
<1>0. ServerType /\ AnswerInv /\ SesInv /\ Fine(ses[s])
  BY DEF Inv, BaseInv, SesInv
<1>1. /\ ask[a] = "open" /\ Update(s, y) /\ AgainTo(ses[s], y, ev) /\ ses[s].evq = <<>>
      /\ UNCHANGED <<db, turn, queue, wire, effects, ask, answers>>
  BY DEF AskAgain, AgainTo, server
<1>2. answers[a] = 0 /\ \A b \in Asks : answers[b] = 1 => ask'[b] = "closed"
  BY <1>0, <1>1 DEF AnswerInv
<1>3. ev \in EventSet /\ ev = [kind |-> "ask", about |-> a, status |-> "none"]
  BY DEF AskEvents, EventSet
<1> HIDE DEF ev, y
<1>4. /\ Fine(y) /\ RSame(ses[s], y) /\ VSame(ses[s], y)
      /\ \A d : In(y.evq, d) => In(ses[s].evq, d) \/ d = ev
  BY <1>0, <1>1, <1>3, AgainSes
<1>5. ses'[s] = y /\ (\A r \in Sessions \ {s} : ses'[r] = ses[r])
        /\ ses' \in [Sessions -> SessionSet]
  BY <1>0, <1>1, <1>4, UpdateIs DEF Fine
<1>6. \A r \in Sessions :
           /\ Fine(ses'[r]) /\ RSame(ses[r], ses'[r]) /\ VSame(ses[r], ses'[r])
           /\ \A d : In(ses'[r].evq, d) => In(ses[r].evq, d) \/ d = ev
  BY <1>0, <1>4, <1>5 DEF SesInv, RSame, VSame
<1>7. VerdictInv' /\ OwnInv'
  BY <1>1, <1>6, CommandsSame
<1>8. AnswerInv'
  BY <1>1, <1>2, <1>3, <1>6, AskedKept
<1>9. \A v \in Turns : Reported(v)
  BY <1>1 DEF Reported
<1>10. ServerType'
  BY <1>0, <1>1 DEF ServerType
<1> QED
  BY <1>1, <1>5, <1>6, <1>7, <1>8, <1>9, <1>10, EndpointKept

-----------------------------------------------------------------------------

\* A mutation that was on its way is handled, refused or lost.
Replied(x, y, i, done) ==
  /\ y.epoch = x.epoch /\ y.cmd = x.cmd /\ y.phase = x.phase
  /\ \/ y.reply = x.reply
     \/ x.cmd = i /\ y.reply = "done" /\ done = 1
     \/ x.cmd = i /\ y.reply = "refused" /\ done = 0

\* A request leaves the wire, with or without its effect.
LEMMA HandledKept ==
  ASSUME Inv, UNCHANGED db, NEW m \in wire, wire' = wire \ {m}, NEW i \in Intents, m[3] = i,
         effects' \in [Intents -> Nat], effects'[i] \in {0, 1},
         \A j \in Intents \ {i} : effects'[j] = effects[j],
         \A r \in Sessions : Replied(ses[r], ses'[r], i, effects'[i])
  PROVE  VerdictInv' /\ OwnInv'
<1>0. VerdictInv /\ EffectInv /\ OwnInv /\ BaseInv
  BY DEF Inv, VerdictInv
<1>1. OnWire(i) /\ effects[i] = 0
  BY <1>0 DEF OnWire, EffectInv
<1>2. ~ OnWire(i)' /\ \A j \in Intents \ {i} : OnWire(j)' <=> OnWire(j)
  <2>1. ~ OnWire(i)'
    BY <1>0 DEF OnWire, EffectInv
  <2> QED
    BY <2>1 DEF OnWire
<1>3. db.intent[i].state \notin {"none", "prepared", "rejected", "applied"}
  BY <1>0, <1>1 DEF EffectInv
<1>4. EffectInv'
  <2>1. ASSUME NEW j \in Intents
        PROVE  /\ effects'[j] \in {0, 1}
               /\ db'.intent[j].state \in {"none", "prepared", "rejected"} => effects'[j] = 0
                  /\ ~ OnWire(j)'
               /\ db'.intent[j].state = "applied" => effects'[j] = 1
               /\ OnWire(j)' => effects'[j] = 0
    BY <1>0, <1>2, <1>3 DEF EffectInv
  <2>2. ASSUME NEW k \in wire', NEW n \in wire', k[3] = n[3] PROVE k = n
    BY <1>0, <2>2 DEF EffectInv
  <2> QED
    BY <2>1, <2>2 DEF EffectInv
<1>5. ASSUME NEW r \in Sessions, ses'[r].cmd \in Intents PROVE CommandInv(ses[r], ses[r].cmd)'
  <2>0. Replied(ses[r], ses'[r], i, effects'[i])
    OBVIOUS
  <2>1. ses'[r].cmd = ses[r].cmd /\ ses'[r].epoch = ses[r].epoch /\ ses'[r].phase = ses[r].phase
    BY <2>0 DEF Replied
  <2>2. CommandInv(ses[r], ses[r].cmd)
    BY <1>0, <1>5, <2>1 DEF VerdictInv
  <2>3. CASE ses[r].cmd # i
    <3>1. /\ (OnWire(ses[r].cmd)' <=> OnWire(ses[r].cmd))
             /\ effects'[ses[r].cmd] = effects[ses[r].cmd]
      BY <1>2, <1>5, <2>1, <2>3
    <3>2. ses'[r].reply = ses[r].reply
      BY <2>0, <2>3 DEF Replied
    <3> QED
      BY <2>1, <2>2, <3>1, <3>2 DEF CommandInv
  <2>4. CASE ses[r].cmd = i
    <3>1. ses[r].phase \notin {"idle", "send", "sent", "confirm"}
      BY <1>1, <1>3, <2>2, <2>4 DEF CommandInv
    <3>2. ses[r].phase = "wait" => ses[r].reply \notin {"done", "refused"}
      BY <1>1, <2>2, <2>4 DEF CommandInv
    <3>3. ses[r].phase = "wait" => /\ db.intent[i].epoch = ses[r].epoch
                                   /\ db.intent[i].state \in {"sent", "uncertain"}
      BY <2>2, <2>4 DEF CommandInv
    <3>4. ses[r].phase = "wait" => /\ ses'[r].reply = "done" => effects'[i] = 1
                                   /\ ses'[r].reply = "refused" => effects'[i] = 0
      BY <2>0, <3>2 DEF Replied
    <3> QED
      BY <1>2, <1>3, <2>1, <2>4, <3>1, <3>3, <3>4 DEF CommandInv
  <2> QED
    BY <2>3, <2>4
<1>6. VerdictInv'
  BY <1>4, <1>5 DEF VerdictInv
<1>7. OwnInv'
  <2>1. \A j \in Intents : (effects[j] > 0 \/ OnWire(j))' => effects[j] > 0 \/ OnWire(j)
    BY <1>1, <1>2
  <2>2. AppliedStays(db, db')
    BY DEF AppliedStays
  <2> QED
    BY <1>0, <2>1, <2>2, OwnKept DEF Replied
<1> QED
  BY <1>6, <1>7

\* What an answer does to a session.
ReplyTo(x, y, to) == y = x \/ y = [x EXCEPT !.reply = to]

\* The session that is answered.
LEMMA ReplySes ==
  ASSUME NEW x, Fine(x), NEW to \in {"done", "refused"}, NEW y,
         y = x \/ (x.cmd \in Intents /\ y = [x EXCEPT !.reply = to])
  PROVE  /\ Fine(y) /\ RSame(x, y) /\ y.evq = x.evq /\ y.epoch = x.epoch /\ y.cmd = x.cmd
            /\ y.phase = x.phase
         /\ (y = x \/ y.reply = to)
<1>1. CASE y = x
  BY <1>1 DEF RSame
<1>2. CASE x.cmd \in Intents /\ y = [x EXCEPT !.reply = to]
  <2>1. y \in SessionSet
    BY <1>2 DEF Fine, SessionSet
  <2>2. /\ y.evq = x.evq /\ y.epoch = x.epoch /\ y.cmd = x.cmd /\ y.phase = x.phase /\ y.reply = to
        /\ y.pc = x.pc /\ y.step = x.step /\ y.subs = x.subs /\ y.done = x.done /\ y.cur = x.cur
        /\ y.snap = x.snap /\ y.box = x.box /\ y.over = x.over
    BY <1>2 DEF Fine, SessionSet
  <2>3. Fine(y)
    BY <1>2, <2>1, <2>2 DEF Fine
  <2> QED
    BY <2>2, <2>3 DEF RSame
<1> QED
  BY <1>1, <1>2

\* Reply, for every session.
LEMMA ReplyIs ==
  ASSUME Inv, NEW m \in wire, NEW to \in {"done", "refused"}, NEW f, f = Reply(m, to)
  PROVE  /\ f \in [Sessions -> SessionSet]
         /\ \A r \in Sessions :
              /\ Fine(f[r]) /\ RSame(ses[r], f[r]) /\ f[r].evq = ses[r].evq
                 /\ f[r].epoch = ses[r].epoch
              /\ f[r].cmd = ses[r].cmd /\ f[r].phase = ses[r].phase
              /\ f[r] = ses[r] \/ (ses[r].cmd = m[3] /\ f[r].reply = to)
<1>1. SesInv /\ m \in Sessions \X Nat \X Intents /\ m[3] \in Intents
  BY DEF Inv, BaseInv, ServerType
<1>2. ASSUME NEW r \in Sessions
      PROVE  f[r] = ses[r] \/ (ses[r].cmd = m[3] /\ f[r] = [ses[r] EXCEPT !.reply = to])
  BY <1>1 DEF Reply, SesInv
<1>3. ASSUME NEW r \in Sessions
      PROVE  /\ Fine(f[r]) /\ RSame(ses[r], f[r]) /\ f[r].evq = ses[r].evq
                /\ f[r].epoch = ses[r].epoch
             /\ f[r].cmd = ses[r].cmd /\ f[r].phase = ses[r].phase
             /\ f[r] = ses[r] \/ (ses[r].cmd = m[3] /\ f[r].reply = to)
  <2>1. Fine(ses[r])
    BY <1>1 DEF SesInv
  <2> DEFINE y == f[r]
  <2>2. y = ses[r] \/ (ses[r].cmd \in Intents /\ ses[r].cmd = m[3] /\ y = [ses[r] EXCEPT !.reply = to])
    BY <1>1, <1>2
  <2> HIDE DEF y
  <2>3. /\ Fine(y) /\ RSame(ses[r], y) /\ y.evq = ses[r].evq /\ y.epoch = ses[r].epoch
        /\ y.cmd = ses[r].cmd /\ y.phase = ses[r].phase /\ (y = ses[r] \/ y.reply = to)
    BY <2>1, <2>2, ReplySes
  <2>4. y = ses[r] \/ (ses[r].cmd = m[3] /\ y.reply = to)
    BY <2>2, <2>3
  <2> QED
    BY <2>3, <2>4 DEF y
<1>4. f = [r \in Sessions |-> f[r]] /\ \A r \in Sessions : f[r] \in SessionSet
  <2>1. f = [r \in Sessions |-> f[r]]
    BY <1>1 DEF Reply, SesInv
  <2>2. \A r \in Sessions : f[r] \in SessionSet
    BY <1>3 DEF Fine
  <2> QED
    BY <2>1, <2>2
<1>5. f \in [Sessions -> SessionSet]
  BY <1>4
<1> QED
  BY <1>3, <1>5

\* No session hears of anything, or only of a turn.
LEMMA AnswersSame ==
  ASSUME Inv, UNCHANGED <<db, ask, answers>>,
         \A r \in Sessions :
           /\ ses'[r].epoch = ses[r].epoch /\ ses'[r].cmd = ses[r].cmd
              /\ ses'[r].phase = ses[r].phase
           /\ \A d \in AskEvents : In(ses'[r].evq, d) => In(ses[r].evq, d)
  PROVE  AnswerInv'
<1>1. \A r \in Sessions : ASame(ses[r], ses'[r])
  BY DEF ASame
<1>2. ClaimsQuiet(db, db')
  BY DbFacts, QuietIs
<1> QED
  BY <1>1, <1>2, AnswerKept DEF Inv

\* Handle and Refuse.
LEMMA HandleKeeps ==
  ASSUME Inv, NEW m \in wire, Handle(m) \/ Refuse(m)
  PROVE  Kept
<1> DEFINE i == m[3]
<1>0. ServerType /\ i \in Intents /\ EffectInv
  BY DEF Inv, BaseInv, ServerType, VerdictInv
<1>1. wire' = wire \ {m} /\ UNCHANGED <<db, ask, answers>> /\ \A u \in Turns : Reported(u)
  <2>1. CASE Handle(m)
    <3>1. \A u \in Turns : turn'[u] = turn[u] \/ turn'[u] = "active"
      BY <1>0, <2>1 DEF Handle, ServerType
    <3> QED
      BY <2>1, <3>1 DEF Handle, Reported, Ends
  <2>2. CASE Refuse(m)
    BY <2>2 DEF Refuse, Reported
  <2> QED
    BY <2>1, <2>2
<1>2. OnWire(i) /\ effects[i] = 0
  BY <1>0 DEF EffectInv, OnWire
<1>3. ServerType' /\ effects' \in [Intents -> Nat]
        /\ \A j \in Intents \ {i} : effects'[j] = effects[j]
  <2>1. CASE Handle(m)
    <3>1. turn' \in [Turns -> {"none", "active", "completed", "failed"}]
      BY <1>0, <2>1, ThreadsOf DEF Handle, ServerType
    <3>2. effects' \in [Intents -> Nat] /\ \A j \in Intents \ {i} : effects'[j] = effects[j]
      BY <1>0, <2>1 DEF Handle, ServerType
    <3> QED
      BY <1>0, <1>1, <3>1, <3>2 DEF ServerType
  <2>2. CASE Refuse(m)
    BY <1>0, <1>1, <2>2 DEF Refuse, ServerType
  <2> QED
    BY <2>1, <2>2
<1>4. \E to \in {"done", "refused"} : /\ ses' = Reply(m, to)
                                      /\ to = "done" => effects'[i] = 1
                                      /\ to = "refused" => effects'[i] = 0
  <2>1. CASE Handle(m)
    <3>1. ses' = Reply(m, "done") /\ effects'[i] = 1
      BY <1>0, <1>2, <2>1 DEF Handle, ServerType
    <3> QED
      BY <3>1
  <2>2. CASE Refuse(m)
    <3>1. ses' = Reply(m, "refused") /\ effects'[i] = 0
      BY <1>0, <1>2, <2>2 DEF Refuse, ServerType
    <3> QED
      BY <3>1
  <2> QED
    BY <2>1, <2>2
<1>5. PICK to \in {"done", "refused"} : /\ ses' = Reply(m, to)
                                        /\ to = "done" => effects'[i] = 1
                                        /\ to = "refused" => effects'[i] = 0
  BY <1>4
<1>6. /\ ses' \in [Sessions -> SessionSet]
      /\ \A r \in Sessions :
           /\ Fine(ses'[r]) /\ RSame(ses[r], ses'[r]) /\ ses'[r].evq = ses[r].evq
              /\ ses'[r].epoch = ses[r].epoch
           /\ ses'[r].cmd = ses[r].cmd /\ ses'[r].phase = ses[r].phase
           /\ ses'[r] = ses[r] \/ (ses[r].cmd = m[3] /\ ses'[r].reply = to)
  BY <1>5, ReplyIs
<1>7. effects'[i] \in {0, 1} /\ \A r \in Sessions : Replied(ses[r], ses'[r], i, effects'[i])
  BY <1>5, <1>6 DEF Replied
<1>8. VerdictInv' /\ OwnInv'
  <2> HIDE DEF i
  <2>1. m[3] = i
    BY DEF i
  <2> QED
    BY <1>0, <1>1, <1>3, <1>7, <2>1, HandledKept
<1>9. AnswerInv'
  BY <1>1, <1>6, AnswersSame
<1> QED
  BY <1>1, <1>3, <1>6, <1>8, <1>9, EndpointKept

\* Lose.
LEMMA LoseKeeps ==
  ASSUME Inv, NEW m \in wire, Lose(m)
  PROVE  Kept
<1> DEFINE i == m[3]
<1>0. ServerType /\ i \in Intents /\ EffectInv /\ SesInv
  BY DEF Inv, BaseInv, ServerType, VerdictInv
<1>1. wire' = wire \ {m} /\ UNCHANGED <<db, ses, turn, effects, ask, answers>>
  BY DEF Lose
<1>2. ServerType' /\ effects' \in [Intents -> Nat] /\ effects'[i] \in {0, 1}
  BY <1>0, <1>1 DEF ServerType, EffectInv
<1>3. \A r \in Sessions : /\ Replied(ses[r], ses'[r], i, effects'[i]) /\ Fine(ses'[r])
                             /\ RSame(ses[r], ses'[r])
  BY <1>0, <1>1 DEF Replied, RSame, SesInv
<1>4. VerdictInv' /\ OwnInv'
  <2> HIDE DEF i
  <2>1. m[3] = i
    BY DEF i
  <2> QED
    BY <1>0, <1>1, <1>2, <1>3, <2>1, HandledKept
<1>5. AnswerInv' /\ \A u \in Turns : Reported(u)
  BY <1>1 DEF Inv, AnswerInv, Heard, Reported
<1> QED
  BY <1>0, <1>1, <1>2, <1>3, <1>4, <1>5, EndpointKept DEF SesInv

\* HandleInterrupt: the turn ends, and its end is reported, with the answer.
LEMMA HandleInterruptKeeps ==
  ASSUME Inv, NEW m \in wire, HandleInterrupt(m)
  PROVE  Kept
<1> DEFINE i == m[3]
           u == Target[i]
           f == Reply(m, "done")
           ev == [kind |-> "turn", about |-> u, status |-> "failed"]
<1>0. ServerType /\ i \in Intents /\ EffectInv
  BY DEF Inv, BaseInv, ServerType, VerdictInv
<1>1. u \in Turns /\ ThreadOf[u] = ThreadOf[i]
  BY <1>0, ExternalAssumption
<1>2. /\ wire' = wire \ {m} /\ UNCHANGED <<db, ask, answers>>
      /\ effects' = [effects EXCEPT ![i] = @ + 1] /\ turn' = [turn EXCEPT ![u] = "failed"]
  BY DEF HandleInterrupt
<1>3. ASSUME NEW r \in Sessions
      PROVE  /\ Hears(f[r], ses'[r], ev)
             /\ Connected(r) /\ ThreadOf[i] \in f[r].subs
                => ses'[r] = [f[r] EXCEPT !.evq = Append(@, ev)]
  <2> DEFINE g == [s \in Sessions |-> IF Connected(s) /\ ThreadOf[i] \in f[s].subs
                                      THEN [f[s] EXCEPT !.evq = Append(@, ev)] ELSE f[s]]
  <2>1. ses' = g
    BY DEF HandleInterrupt
  <2>2. ses'[r] = IF Connected(r) /\ ThreadOf[i] \in f[r].subs
                  THEN [f[r] EXCEPT !.evq = Append(@, ev)] ELSE f[r]
    BY <2>1
  <2> HIDE DEF f, ev
  <2> QED
    BY <2>2 DEF Hears
<1>4. ses' = [r \in Sessions |-> ses'[r]]
  BY DEF HandleInterrupt
<1>5. OnWire(i) /\ effects[i] = 0
  BY <1>0 DEF EffectInv, OnWire
<1>6. /\ turn'[u] = "failed" /\ (\A v \in Turns : v # u => turn'[v] = turn[v])
      /\ effects' \in [Intents -> Nat] /\ effects'[i] = 1
         /\ (\A j \in Intents \ {i} : effects'[j] = effects[j])
      /\ ServerType'
  BY <1>0, <1>1, <1>2, <1>5 DEF ServerType
<1>7. ev \in TurnEvents /\ ev \in EventSet /\ ev \notin AskEvents /\ ev = Ending(u)'
  BY <1>1, <1>6 DEF TurnEvents, EventSet, AskEvents, Ends, Ending
<1>8. /\ f \in [Sessions -> SessionSet]
      /\ \A r \in Sessions :
           /\ Fine(f[r]) /\ RSame(ses[r], f[r]) /\ f[r].evq = ses[r].evq
              /\ f[r].epoch = ses[r].epoch
           /\ f[r].cmd = ses[r].cmd /\ f[r].phase = ses[r].phase
           /\ f[r] = ses[r] \/ (ses[r].cmd = m[3] /\ f[r].reply = "done")
  BY ReplyIs
<1> HIDE DEF f, ev
<1>9. ASSUME NEW r \in Sessions
      PROVE  /\ Fine(ses'[r]) /\ RSame(ses[r], ses'[r])
             /\ Replied(ses[r], ses'[r], i, effects'[i])
             /\ \A d \in AskEvents : In(ses'[r].evq, d) => In(ses[r].evq, d)
             /\ Connected(r) /\ ThreadOf[i] \in ses[r].subs => In(ses'[r].evq, ev)
  <2>0. Fine(f[r]) /\ RSame(ses[r], f[r]) /\ f[r].evq = ses[r].evq
    BY <1>8
  <2>1. /\ Fine(ses'[r]) /\ RSame(f[r], ses'[r]) /\ VSame(f[r], ses'[r])
        /\ \A d : In(ses'[r].evq, d) => In(f[r].evq, d) \/ d = ev
    BY <1>3, <1>7, <2>0, HearsIs
  <2>2. Replied(ses[r], ses'[r], i, effects'[i])
    BY <1>6, <1>8, <2>1 DEF Replied, VSame
  <2>3. RSame(ses[r], ses'[r])
    BY <2>0, <2>1 DEF RSame
  <2>4. ASSUME Connected(r), ThreadOf[i] \in ses[r].subs PROVE In(ses'[r].evq, ev)
    <3>1. f[r].subs = ses[r].subs
      BY <2>0 DEF RSame
    <3>2. ses'[r] = [f[r] EXCEPT !.evq = Append(@, ev)]
      BY <1>3, <2>4, <3>1
    <3> QED
      BY <1>7, <2>0, <3>2, HeardBy
  <2> QED
    BY <1>7, <2>0, <2>1, <2>2, <2>3, <2>4
<1>10. ses' \in [Sessions -> SessionSet]
  <2>1. \A r \in Sessions : ses'[r] \in SessionSet
    BY <1>9 DEF Fine
  <2> QED
    BY <1>4, <2>1
<1>11. VerdictInv' /\ OwnInv'
  <2> HIDE DEF i
  <2>1. m[3] = i
    BY DEF i
  <2> QED
    BY <1>0, <1>2, <1>6, <1>9, <2>1, HandledKept
<1>12. AnswerInv'
  BY <1>2, <1>9, AnswersSame DEF Replied
<1>13. \A v \in Turns : Reported(v)
  <2>1. Reported(u)
    BY <1>1, <1>7, <1>9 DEF Reported, Connected
  <2> QED
    BY <1>6, <2>1 DEF Reported
<1> QED
  BY <1>2, <1>6, <1>9, <1>10, <1>11, <1>12, <1>13, EndpointKept

-----------------------------------------------------------------------------
\* Approvals.

\* A claim is moved by one session.
LEMMA ClaimAnswered ==
  ASSUME Inv, NEW s \in Sessions, NEW y, Update(s, y), y.epoch = ses[s].epoch,
         NEW a \in Asks, NEW x, Claiming(db, db', a, x), UNCHANGED <<ask, answers>>,
         \A d \in AskEvents : In(y.evq, d) => In(ses[s].evq, d),
         answers[a] = 1 => /\ x.state \in {"responding", "denied", "resolved", "uncertain"}
                           /\ x.epoch = db.claim[a].epoch /\ db.claim[a].state # "uncertain",
         \A r \in Sessions \ {s} : ses[r].cmd = a => ses[r].phase \notin AnswerPhases,
         y.cmd \in Asks /\ y.phase \in AnswerPhases =>
           /\ y.cmd = a /\ x.epoch = y.epoch /\ answers[a] = 0
           /\ x.state \in (IF y.phase \in {"decide", "denying"} THEN {"claimed", "uncertain"}
                           ELSE {"responding", "uncertain"})
  PROVE  AnswerInv'
<1>0. AnswerInv /\ ses'[s] = y /\ (\A r \in Sessions \ {s} : ses'[r] = ses[r])
  BY UpdateOne DEF Inv
<1>1. db'.claim[a] = x /\ (\A b \in Asks \ {a} : db'.claim[b] = db.claim[b])
        /\ db'.endpoint = db.endpoint
  BY DEF Claiming
<1>2. ASSUME NEW b \in Asks
      PROVE /\ answers'[b] \in {0, 1}
            /\ answers'[b] = 1 => /\ ask'[b] = "closed"
                                  /\ db'.claim[b].state \in {"responding", "denied", "resolved", "uncertain"}
  BY <1>0, <1>1 DEF AnswerInv
<1>3. ASSUME NEW r \in Sessions, NEW d \in AskEvents, Heard(r, d)'
      PROVE /\ d.kind = "resolved" => answers'[d.about] = 1
            /\ d.kind = "ask" /\ answers'[d.about] = 1 /\ ses'[r].epoch = db'.endpoint.epoch =>
                 db'.claim[d.about].epoch = db'.endpoint.epoch
                   \/ db'.claim[d.about].state = "uncertain"
  <2>1. Heard(r, d) /\ ses'[r].epoch = ses[r].epoch
    BY <1>0, <1>3 DEF Heard
  <2>2. d.about \in Asks
    BY DEF AskEvents
  <2>3. /\ d.kind = "resolved" => answers[d.about] = 1
        /\ d.kind = "ask" /\ answers[d.about] = 1 /\ ses[r].epoch = db.endpoint.epoch =>
             db.claim[d.about].epoch = db.endpoint.epoch \/ db.claim[d.about].state = "uncertain"
    BY <1>0, <2>1 DEF AnswerInv
  <2> QED
    BY <1>1, <2>1, <2>2, <2>3
<1>4. ASSUME NEW r \in Sessions, ses'[r].cmd \in Asks, ses'[r].phase \in AnswerPhases
      PROVE  /\ db'.claim[ses'[r].cmd].epoch = ses'[r].epoch /\ answers'[ses'[r].cmd] = 0
             /\ db'.claim[ses'[r].cmd].state \in
                  (IF ses'[r].phase \in {"decide", "denying"} THEN {"claimed", "uncertain"}
                   ELSE {"responding", "uncertain"})
  <2>1. CASE r = s
    BY <1>0, <1>1, <1>4, <2>1
  <2>2. CASE r # s
    <3>1. ses'[r] = ses[r] /\ ses[r].cmd # a
      BY <1>0, <1>4, <2>2
    <3>2. db'.claim[ses[r].cmd] = db.claim[ses[r].cmd]
      BY <1>1, <1>4, <3>1
    <3> QED
      BY <1>0, <1>4, <3>1, <3>2 DEF AnswerInv
  <2> QED
    BY <2>1, <2>2
<1> QED
  BY <1>2, <1>3, <1>4 DEF AnswerInv

\* The rest of the invariant does not look at claims.
LEMMA ClaimsKept ==
  ASSUME Inv, ses' \in [Sessions -> SessionSet], NEW a \in Asks, NEW x, Claiming(db, db', a, x), DbInv(db'),
         \A r \in Sessions : /\ Fine(ses'[r]) /\ RSame(ses[r], ses'[r])
                             /\ VSame(ses[r], ses'[r]) \/ ses'[r].cmd \notin Intents,
         UNCHANGED <<turn, wire, effects>>, ServerType', AnswerInv'
  PROVE  Kept
<1>0. BaseInv /\ VerdictInv /\ OwnInv /\ DbInv(db) /\ SesInv
  BY DEF Inv, BaseInv
<1>3. /\ db'.intent = db.intent /\ db'.term = db.term /\ db'.thread = db.thread
      /\ db'.endpoint = db.endpoint /\ db'.fence = db.fence
  BY DEF Claiming
<1>4. IntentsQuiet(db, db') /\ TermStays(db, db') /\ ReadyKept(db, db') /\ Knows(db, db')
  BY <1>3 DEF IntentsQuiet, TermStays, ReadyKept, IsReady, Knows
<1>5. db.endpoint.epoch \in Nat /\ db'.endpoint.epoch >= db.endpoint.epoch
  BY <1>0, <1>3 DEF DbInv, Tabled, EndpointSet
<1>6. SesInv'
  <2>1. \A r \in Sessions : Fine(ses'[r]) /\ ses'[r].epoch = ses[r].epoch
    BY <1>0 DEF RSame
  <2> QED
    BY <1>0, <1>5, <2>1, SesKept
<1>7. BaseInv'
  BY <1>6 DEF BaseInv
<1>9. VerdictInv'
  BY <1>0, <1>4, VerdictKept
<1>10. OwnInv'
  <2>1. AppliedStays(db, db')
    BY <1>4, QuietApplied
  <2>2. \A i \in Intents : (effects[i] > 0 \/ OnWire(i))' => effects[i] > 0 \/ OnWire(i)
    BY DEF OnWire
  <2> QED
    BY <1>0, <2>1, <2>2, OwnKept DEF VSame
<1>11. ReadyInv'
  <2>1. \A u \in Turns : Reported(u)
    BY DEF Reported
  <2> QED
    BY <1>0, <1>4, <1>5, <2>1, ReadyInvKept DEF Inv
<1> QED
  BY <1>4, <1>7, <1>9, <1>10, <1>11 DEF Inv, Kept

\* The same for a step of one session.
LEMMA ClaimKept ==
  ASSUME Inv, NEW s \in Sessions, NEW y, Update(s, y), Fine(y), RSame(ses[s], y),
         VSame(ses[s], y) \/ y.cmd \notin Intents,
         NEW a \in Asks, NEW x, Claiming(db, db', a, x), DbInv(db'), UNCHANGED server, AnswerInv'
  PROVE  Kept
<1>0. SesInv /\ ServerType
  BY DEF Inv, BaseInv
<1>1. ses'[s] = y /\ (\A r \in Sessions \ {s} : ses'[r] = ses[r])
        /\ ses' \in [Sessions -> SessionSet]
  BY <1>0, UpdateIs DEF Fine
<1>2. UNCHANGED <<turn, queue, wire, effects, ask, answers>>
  BY DEF server
<1>3. ServerType'
  BY <1>0, <1>2 DEF ServerType
<1>4. \A r \in Sessions : /\ Fine(ses'[r]) /\ RSame(ses[r], ses'[r])
                          /\ VSame(ses[r], ses'[r]) \/ ses'[r].cmd \notin Intents
  BY <1>0, <1>1 DEF SesInv, RSame, VSame
<1> QED
  BY <1>1, <1>2, <1>3, <1>4, ClaimsKept

\* Only the session whose epoch a claim has is answering it.
LEMMA OnlyClaimer ==
  ASSUME Inv, NEW s \in Sessions, NEW a \in Asks, db.claim[a].epoch = ses[s].epoch, ses[s].epoch # 0
  PROVE  \A r \in Sessions \ {s} : ses[r].cmd = a => ses[r].phase \notin AnswerPhases
<1> SUFFICES ASSUME NEW r \in Sessions \ {s}, ses[r].cmd = a, ses[r].phase \in AnswerPhases
    PROVE FALSE
  OBVIOUS
<1>1. ses[r].epoch = ses[s].epoch
  BY DEF Inv, AnswerInv
<1> QED
  BY <1>1 DEF Inv, BaseInv, SesInv

\* The session of an approval that is under way.
LEMMA AnsweringIs ==
  ASSUME Inv, NEW s \in Sessions, NEW p, Answering(s, p)
  PROVE  /\ ses[s].cmd \in Asks /\ ses[s].phase = p /\ ses[s].epoch # 0 /\ Fine(ses[s]) /\ DbInv(db)
         /\ ses[s].reply = "none"
         /\ p \in AnswerPhases =>
              /\ db.claim[ses[s].cmd].epoch = ses[s].epoch /\ answers[ses[s].cmd] = 0
              /\ db.claim[ses[s].cmd].state \in
                   (IF p \in {"decide", "denying"} THEN {"claimed", "uncertain"}
                    ELSE {"responding", "uncertain"})
<1>1. Fine(ses[s]) /\ DbInv(db) /\ AnswerInv
  BY SesFacts DEF Inv
<1>2. ses[s].cmd \in Asks /\ ses[s].phase = p /\ ses[s].pc = "live"
  BY DEF Answering
<1>3. ses[s].epoch # 0 /\ ses[s].reply = "none"
  BY <1>1, <1>2, ThreadsOf DEF Fine, Active
<1> QED
  BY <1>1, <1>2, <1>3 DEF AnswerInv

\* A request is claimed, for a decision or a denial.
LEMMA ClaimedKeeps ==
  ASSUME Inv, NEW s \in Sessions, NEW a \in Asks, NEW y, Update(s, y), Fine(y), Still(ses[s], y),
         y.cmd = a, y.phase \in {"decide", "denying"}, ses[s].epoch # 0,
         db.claim[a] = [state |-> "received", epoch |-> ses[s].epoch], db' = Claim(db, a), UNCHANGED server
  PROVE  Kept
<1>0. DbInv(db) /\ AnswerInv
  BY DEF Inv, BaseInv
<1>1. db.claim[a].state = "received" /\ db.claim[a].epoch = ses[s].epoch
  OBVIOUS
<1>2. /\ DbInv(db')
      /\ \E x \in ClaimSet : x.state = "claimed" /\ x.epoch = db.claim[a].epoch
         /\ Claiming(db, db', a, x)
  <2>1. db' = [db EXCEPT !.claim[a].state = "claimed"]
    BY DEF Claim
  <2> QED
    BY <1>0, <1>1, <2>1, ClaimMoves DEF ClaimStates, Undecided
<1>3. PICK x \in ClaimSet : x.state = "claimed" /\ x.epoch = db.claim[a].epoch
        /\ Claiming(db, db', a, x)
  BY <1>2
<1>4. answers[a] = 0
  BY <1>0, <1>1 DEF AnswerInv
<1>5. \A r \in Sessions \ {s} : ses[r].cmd = a => ses[r].phase \notin AnswerPhases
  BY <1>1, OnlyClaimer
<1>6. AnswerInv'
  <2>1. UNCHANGED <<ask, answers>>
    BY DEF server
  <2>2. y.epoch = ses[s].epoch /\ y.evq = ses[s].evq
    BY DEF Still
  <2> QED
    BY <1>1, <1>3, <1>4, <1>5, <2>1, <2>2, ClaimAnswered
<1>7. y.cmd \notin Intents /\ RSame(ses[s], y)
  BY ThreadsOf DEF Still
<1> QED
  BY <1>2, <1>3, <1>6, <1>7, ClaimKept

\* resolve_pending_approval.
LEMMA DecideKeeps ==
  ASSUME Inv, NEW s \in Sessions, NEW a \in Asks, Decide(s, a)
  PROVE  Kept
<1> DEFINE y == [ses[s] EXCEPT !.cmd = a, !.phase = "decide"]
<1>0. UNCHANGED server /\ ses[s].pc = "live" /\ ses[s].cmd = NoIntent
  BY DEF Decide, Idle
<1>1. Fine(ses[s]) /\ ses[s].epoch # 0
  BY <1>0, SesFacts DEF Fine, Active
<1>2. CASE Claims(db, a, ses[s].epoch, FALSE)
  <2>1. /\ Update(s, y) /\ SubmitTo(ses[s], y, a, "decide") /\ db' = Claim(db, a)
        /\ db.claim[a] = [state |-> "received", epoch |-> ses[s].epoch]
    BY <1>2 DEF Decide, SubmitTo, Claims
  <2> HIDE DEF y
  <2>2. Fine(y) /\ Still(ses[s], y) /\ y.cmd = a /\ y.phase = "decide"
    BY <1>0, <1>1, <2>1, SubmitSes DEF Phases
  <2> QED
    BY <1>0, <1>1, <2>1, <2>2, ClaimedKeeps
<1>3. CASE ~ Claims(db, a, ses[s].epoch, FALSE)
  <2>1. UNCHANGED <<db, ses>>
    BY <1>3 DEF Decide
  <2>2. Update(s, ses[s])
    BY <2>1 DEF Update, Inv, BaseInv, SesInv
  <2>3. VSame(ses[s], ses[s]) /\ RSame(ses[s], ses[s])
    BY DEF VSame, RSame
  <2> QED
    BY <1>0, <1>1, <2>1, <2>2, <2>3, DbFacts, CalmKept
<1> QED
  BY <1>2, <1>3

\* deny_one_approval takes the claim.
LEMMA DenyClaimKeeps ==
  ASSUME Inv, NEW s \in Sessions, DenyClaim(s)
  PROVE  Kept
<1> DEFINE y == [ses[s] EXCEPT !.phase = "denying"]
           a == ses[s].cmd
<1>0. UNCHANGED server /\ a \in Asks /\ Fine(ses[s]) /\ ses[s].epoch # 0
  BY AnsweringIs DEF DenyClaim
<1>1. \/ Fail(s)
      \/ /\ Goto(s, "denying") /\ db' = Claim(db, a)
         /\ db.claim[a] = [state |-> "received", epoch |-> ses[s].epoch]
  BY DEF DenyClaim, Claims
<1>2. CASE Fail(s)
  BY <1>0, <1>2, FailKeeps
<1>3. CASE /\ Goto(s, "denying") /\ db' = Claim(db, a)
           /\ db.claim[a] = [state |-> "received", epoch |-> ses[s].epoch]
  <2>1. Update(s, y) /\ GotoTo(ses[s], y, "denying")
    BY <1>3 DEF Goto, GotoTo
  <2> HIDE DEF y
  <2>2. Fine(y) /\ Still(ses[s], y) /\ y.cmd = a /\ y.phase = "denying"
    BY <1>0, <2>1, GotoSes DEF Phases
  <2> QED
    BY <1>0, <1>3, <2>1, <2>2, ClaimedKeeps
<1> QED
  BY <1>1, <1>2, <1>3

\* The claim says "responding", or is uncertain already.
LEMMA RespondKeeps ==
  ASSUME Inv, NEW s \in Sessions, Respond(s)
  PROVE  Kept
<1> DEFINE a == ses[s].cmd
           e == ses[s].epoch
           p == IF ses[s].phase = "decide" THEN "answer" ELSE "denial"
           y == [ses[s] EXCEPT !.phase = p]
<1>0. /\ UNCHANGED server /\ a \in Asks /\ Fine(ses[s]) /\ e # 0 /\ DbInv(db)
      /\ db.claim[a].epoch = e /\ answers[a] = 0 /\ db.claim[a].state \in {"claimed", "uncertain"}
  <2>1. PICK q \in {"decide", "denying"} : Answering(s, q)
    BY DEF Respond
  <2> QED
    BY <2>1, AnsweringIs DEF Respond, AnswerPhases
<1>1. /\ db' = MarkResponding(s, a) /\ Update(s, y) /\ GotoTo(ses[s], y, p)
  BY DEF Respond, Goto, GotoTo
<1>2. p \in {"answer", "denial"} /\ p \in Phases
  BY DEF Phases
<1> HIDE DEF y, p
<1>3. Fine(y) /\ Still(ses[s], y) /\ y.cmd = a /\ y.phase = p
  BY <1>0, <1>1, <1>2, GotoSes
<1>4. /\ DbInv(db')
      /\ \E x : x.epoch = e /\ x.state \in {"responding", "uncertain"} /\ Claiming(db, db', a, x)
  <2>1. CASE db.claim[a].state = "claimed"
    <3>1. Moves(db, a, e, "responding")
      BY <1>0, <2>1 DEF Moves, From
    <3>2. db' = [db EXCEPT !.claim[a].state = "responding"]
      BY <1>1, <3>1 DEF MarkResponding, Move
    <3>3. /\ DbInv(db')
          /\ \E x \in ClaimSet : x.state = "responding" /\ x.epoch = db.claim[a].epoch
             /\ Claiming(db, db', a, x)
      <4> HIDE DEF a
      <4> QED
        BY <1>0, <2>1, <3>2, ClaimMoves DEF ClaimStates, Undecided
    <3> QED
      BY <1>0, <3>3
  <2>2. CASE db.claim[a].state = "uncertain"
    <3>1. ~ Moves(db, a, e, "responding")
      BY <2>2 DEF Moves, From
    <3>2. db' = db
      BY <1>1, <3>1 DEF MarkResponding
    <3>3. Claiming(db, db', a, db.claim[a])
      BY <3>2 DEF Claiming
    <3> QED
      BY <1>0, <2>2, <3>2, <3>3
  <2> QED
    BY <1>0, <2>1, <2>2
<1>5. PICK x : x.epoch = e /\ x.state \in {"responding", "uncertain"} /\ Claiming(db, db', a, x)
  BY <1>4
<1>6. \A r \in Sessions \ {s} : ses[r].cmd = a => ses[r].phase \notin AnswerPhases
  BY <1>0, OnlyClaimer
<1>7. AnswerInv'
  <2>1. UNCHANGED <<ask, answers>>
    BY <1>0 DEF server
  <2>2. y.epoch = ses[s].epoch /\ y.evq = ses[s].evq
    BY <1>3 DEF Still
  <2>3. x.state \in (IF y.phase \in {"decide", "denying"} THEN {"claimed", "uncertain"}
                     ELSE {"responding", "uncertain"})
    BY <1>2, <1>3, <1>5
  <2> QED
    BY <1>0, <1>1, <1>3, <1>5, <1>6, <2>1, <2>2, <2>3, ClaimAnswered
<1>8. y.cmd \notin Intents /\ RSame(ses[s], y)
  BY <1>0, <1>3, ThreadsOf DEF Still
<1> QED
  BY <1>0, <1>1, <1>3, <1>4, <1>5, <1>7, <1>8, ClaimKept

LateTo(x, y, a) == y = [x EXCEPT !.pend[a] = "none", !.cmd = a, !.phase = "late"]

\* The pending approvals with one changed.
LEMMA PendIs ==
  ASSUME NEW x \in SessionSet, NEW a \in Asks, NEW v \in {"none", "waiting", "responded"}
  PROVE  [x.pend EXCEPT ![a] = v] \in [Asks -> {"none", "waiting", "responded"}]
  BY DEF SessionSet

\* The session that denies what has expired.
LEMMA LateSes ==
  ASSUME NEW x, Fine(x), x.pc = "live", x.cmd = NoIntent, NEW a \in Asks, NEW y, LateTo(x, y, a)
  PROVE  Fine(y) /\ Still(x, y) /\ y.cmd = a /\ y.phase = "late" /\ y.reply = "none"
<1> DEFINE f == [x.pend EXCEPT ![a] = "none"]
<1>0. x.reply = "none" /\ x \in SessionSet /\ f \in [Asks -> {"none", "waiting", "responded"}]
  BY ThreadsOf, PendIs DEF Fine
<1>1. y = [x EXCEPT !.pend = f, !.cmd = a, !.phase = "late"]
  BY <1>0 DEF LateTo, SessionSet
<1> HIDE DEF f
<1>2. y \in SessionSet
  BY <1>0, <1>1 DEF SessionSet
<1>3. Still(x, y) /\ y.cmd = a /\ y.phase = "late" /\ y.reply = x.reply
  BY <1>0, <1>1 DEF SessionSet, Still, RSame
<1> QED
  BY <1>0, <1>2, <1>3 DEF Fine, Still, RSame

\* settle_expired_approvals.
LEMMA ExpireKeeps ==
  ASSUME Inv, NEW s \in Sessions, NEW a \in Asks, Expire(s, a)
  PROVE  Kept
<1> DEFINE e == ses[s].epoch
           m == IF Moves(db, a, e, "uncertain") THEN Move(db, a, e, "uncertain") ELSE db
           y == [ses[s] EXCEPT !.pend[a] = "none", !.cmd = a, !.phase = "late"]
<1>0. UNCHANGED server /\ ses[s].pc = "live" /\ ses[s].cmd = NoIntent /\ Fine(ses[s])
  BY SesFacts DEF Expire, Idle
<1>1. \/ db' = MarkUnavailable(m, e) /\ Update(s, Retire(s))
      \/ Update(s, y) /\ UNCHANGED db
  BY DEF Expire
<1>2. CASE db' = MarkUnavailable(m, e) /\ Update(s, Retire(s))
  <2>1. DbInv(db') /\ Quiet(db, db') /\ ReadyKept(db, db')
    <3> HIDE DEF e
    <3> QED
      BY <1>2, DbFacts, GivingUpIs
  <2> QED
    BY <1>0, <1>2, <2>1, RetireKeeps
<1>3. CASE Update(s, y) /\ UNCHANGED db
  <2>1. LateTo(ses[s], y, a)
    BY DEF LateTo
  <2> HIDE DEF y
  <2>2. Fine(y) /\ Still(ses[s], y) /\ y.cmd = a /\ y.phase = "late"
    BY <1>0, <2>1, LateSes
  <2>3. y.cmd \notin Intents /\ y.phase \notin AnswerPhases
    BY <2>2, ThreadsOf DEF AnswerPhases
  <2> QED
    BY <1>0, <1>3, <2>2, <2>3, GoesOn
<1> QED
  BY <1>1, <1>2, <1>3

AfterTo(x, y, a, v) == y = [x EXCEPT !.cmd = NoIntent, !.phase = "none", !.pend[a] = v]

\* The session whose answer has left.
LEMMA AfterSes ==
  ASSUME NEW x, Fine(x), x.reply = "none", NEW a \in Asks, NEW v \in {"none", "waiting", "responded"},
         NEW y, AfterTo(x, y, a, v)
  PROVE  Fine(y) /\ Still(x, y) /\ y.cmd = NoIntent /\ y.phase = "none"
<1> DEFINE f == [x.pend EXCEPT ![a] = v]
<1>0. x \in SessionSet /\ f \in [Asks -> {"none", "waiting", "responded"}]
  BY PendIs DEF Fine
<1>1. y = [x EXCEPT !.cmd = NoIntent, !.phase = "none", !.pend = f]
  BY <1>0 DEF AfterTo, SessionSet
<1> HIDE DEF f
<1>2. y \in SessionSet
  BY <1>0, <1>1 DEF SessionSet
<1>3. Still(x, y) /\ y.cmd = NoIntent /\ y.phase = "none" /\ y.reply = x.reply
  BY <1>0, <1>1 DEF SessionSet, Still, RSame
<1> QED
  BY <1>2, <1>3 DEF Fine, Still, RSame

\* What the claim is once the answer has left.
LEMMA SentClaim ==
  ASSUME Inv, NEW a \in Asks, NEW e, db.claim[a].epoch = e, db.claim[a].state \in {"responding", "uncertain"},
         NEW b \in BOOLEAN, NEW n, n = IF b
           /\ Moves(db, a, e, "denied") THEN Move(db, a, e, "denied") ELSE db
  PROVE  /\ DbInv(n)
         /\ \E x : /\ x.epoch = e /\ Claiming(db, n, a, x)
                   /\ \/ x.state \in {"responding", "denied"} /\ e = db.endpoint.epoch
                      \/ x.state = "uncertain"
<1>0. DbInv(db)
  BY DEF Inv, BaseInv
<1>1. CASE n = db
  <2>1. Claiming(db, n, a, db.claim[a])
    BY <1>1 DEF Claiming
  <2>2. db.claim[a].state = "responding" => e = db.endpoint.epoch
    BY <1>0 DEF DbInv, CoreInv, Undecided
  <2> QED
    BY <1>0, <1>1, <2>1, <2>2
<1>2. CASE n # db
  <2>1. b /\ Moves(db, a, e, "denied") /\ n = Move(db, a, e, "denied")
    BY <1>2
  <2>2. db.claim[a].state = "responding"
    BY <2>1 DEF Moves, From
  <2>3. n = [db EXCEPT !.claim[a].state = "denied"]
    BY <2>1 DEF Move
  <2>4. e = db.endpoint.epoch
    BY <1>0, <2>2 DEF DbInv, CoreInv, Undecided
  <2>5. /\ DbInv(n)
        /\ \E x \in ClaimSet : x.state = "denied" /\ x.epoch = db.claim[a].epoch
           /\ Claiming(db, n, a, x)
    BY <1>0, <2>2, <2>3, ClaimMoves DEF ClaimStates, Undecided
  <2> QED
    BY <2>4, <2>5
<1> QED
  BY <1>1, <1>2

TellsAll(ev) ==
  \A r \in Sessions : /\ ses'[r].epoch = ses[r].epoch
                      /\ \A d : In(ses'[r].evq, d) => In(ses[r].evq, d) \/ d = ev
OthersGoOn(s, a) ==
  \A r \in Sessions \ {s} : /\ ses'[r].cmd = ses[r].cmd /\ ses'[r].phase = ses[r].phase
                            /\ ses[r].cmd = a => ses[r].phase \notin AnswerPhases

\* An answer leaves: the request is over, and whoever listens is told.
LEMMA AnsweredKept ==
  ASSUME Inv, NEW s \in Sessions, NEW a \in Asks, NEW x, Claiming(db, db', a, x), answers[a] = 0,
         x.state \in {"responding", "denied", "uncertain"},
         x.state # "uncertain" => x.epoch = db.endpoint.epoch,
         answers' = [answers EXCEPT ![a] = @ + 1], ask' = [ask EXCEPT ![a] = "closed"],
         NEW ev, ev = [kind |-> "resolved", about |-> a, status |-> "none"],
         ses'[s].cmd = NoIntent, TellsAll(ev), OthersGoOn(s, a)
  PROVE  AnswerInv' /\ ask' \in [Asks -> {"none", "open", "closed"}] /\ answers' \in [Asks -> Nat]
<1>0. AnswerInv /\ ask \in [Asks -> {"none", "open", "closed"}] /\ answers \in [Asks -> Nat]
  BY DEF Inv, BaseInv, ServerType
<1>1. /\ answers'[a] = 1 /\ ask'[a] = "closed"
      /\ \A b \in Asks \ {a} : answers'[b] = answers[b] /\ ask'[b] = ask[b]
      /\ ask' \in [Asks -> {"none", "open", "closed"}] /\ answers' \in [Asks -> Nat]
  BY <1>0
<1>2. /\ db'.claim[a] = x /\ db'.endpoint = db.endpoint
      /\ \A b \in Asks \ {a} : db'.claim[b] = db.claim[b]
  BY DEF Claiming
<1>3. ASSUME NEW b \in Asks
      PROVE /\ answers'[b] \in {0, 1}
            /\ answers'[b] = 1 => /\ ask'[b] = "closed"
                                  /\ db'.claim[b].state \in {"responding", "denied", "resolved", "uncertain"}
  BY <1>0, <1>1, <1>2 DEF AnswerInv
<1>4. ASSUME NEW r \in Sessions, NEW d \in AskEvents, Heard(r, d)'
      PROVE /\ d.kind = "resolved" => answers'[d.about] = 1
            /\ d.kind = "ask" /\ answers'[d.about] = 1 /\ ses'[r].epoch = db'.endpoint.epoch =>
                 db'.claim[d.about].epoch = db'.endpoint.epoch
                   \/ db'.claim[d.about].state = "uncertain"
  <2>0. d.about \in Asks
    BY DEF AskEvents
  <2>1. In(ses[r].evq, d) \/ d = ev
    BY <1>4 DEF Heard, TellsAll
  <2>2. CASE d = ev
    BY <1>1, <2>2
  <2>3. CASE In(ses[r].evq, d)
    <3>1. /\ d.kind = "resolved" => answers[d.about] = 1
          /\ d.kind = "ask" /\ answers[d.about] = 1 /\ ses[r].epoch = db.endpoint.epoch =>
               db.claim[d.about].epoch = db.endpoint.epoch \/ db.claim[d.about].state = "uncertain"
      BY <1>0, <2>3 DEF AnswerInv, Heard
    <3>2. CASE d.about = a
      BY <1>1, <1>2, <3>1, <3>2 DEF TellsAll
    <3>3. CASE d.about # a
      <4>1. answers'[d.about] = answers[d.about] /\ db'.claim[d.about] = db.claim[d.about]
        BY <1>1, <1>2, <2>0, <3>3
      <4> QED
        BY <1>2, <3>1, <4>1 DEF TellsAll
    <3> QED
      BY <3>2, <3>3
  <2> QED
    BY <2>1, <2>2, <2>3
<1>5. ASSUME NEW r \in Sessions, ses'[r].cmd \in Asks, ses'[r].phase \in AnswerPhases
      PROVE  /\ db'.claim[ses'[r].cmd].epoch = ses'[r].epoch /\ answers'[ses'[r].cmd] = 0
             /\ db'.claim[ses'[r].cmd].state \in
                  (IF ses'[r].phase \in {"decide", "denying"} THEN {"claimed", "uncertain"}
                   ELSE {"responding", "uncertain"})
  <2>1. r # s
    BY <1>5, ThreadsOf
  <2>2. ses'[r].cmd = ses[r].cmd /\ ses'[r].phase = ses[r].phase /\ ses[r].cmd # a
          /\ ses'[r].epoch = ses[r].epoch
    BY <1>5, <2>1 DEF TellsAll, OthersGoOn
  <2>3. db'.claim[ses[r].cmd] = db.claim[ses[r].cmd] /\ answers'[ses[r].cmd] = answers[ses[r].cmd]
    BY <1>1, <1>2, <1>5, <2>2
  <2> QED
    BY <1>0, <1>5, <2>2, <2>3 DEF AnswerInv
<1> QED
  BY <1>1, <1>3, <1>4, <1>5 DEF AnswerInv

\* SendAnswer: its claim is this session's, so nobody else is answering.
LEMMA SendAnswerKeeps ==
  ASSUME Inv, NEW s \in Sessions, SendAnswer(s)
  PROVE  Kept
<1> DEFINE a == ses[s].cmd
           e == ses[s].epoch
           denied == ses[s].phase = "denial"
           v == IF denied THEN "none" ELSE "responded"
           y == [ses[s] EXCEPT !.cmd = NoIntent, !.phase = "none", !.pend[a] = v]
           f == [ses EXCEPT ![s] = y]
           ev == [kind |-> "resolved", about |-> a, status |-> "none"]
<1>0. /\ a \in Asks /\ Fine(ses[s]) /\ e # 0 /\ DbInv(db) /\ ses[s].reply = "none"
      /\ db.claim[a].epoch = e /\ answers[a] = 0
         /\ db.claim[a].state \in {"responding", "uncertain"}
  <2>1. PICK q \in {"answer", "denial"} : Answering(s, q)
    BY DEF SendAnswer
  <2> QED
    BY <2>1, AnsweringIs DEF AnswerPhases
<1>1. /\ answers' = [answers EXCEPT ![a] = @ + 1] /\ ask' = [ask EXCEPT ![a] = "closed"]
      /\ db' = IF denied /\ Moves(db, a, e, "denied") THEN Move(db, a, e, "denied") ELSE db
      /\ UNCHANGED <<turn, queue, wire, effects, faults, scene>>
  BY DEF SendAnswer
<1>2. AfterTo(ses[s], y, a, v) /\ v \in {"none", "waiting", "responded"} /\ denied \in BOOLEAN
  BY DEF AfterTo
<1>3. ses' = [r \in Sessions |->
        LET q == IF r = s THEN y ELSE ses[r] IN
        IF Connected(r) /\ ThreadOf[a] \in q.subs /\ ask[a] = "open"
        THEN [q EXCEPT !.evq = Append(@, ev)] ELSE q]
  BY DEF SendAnswer
<1> HIDE DEF y, v, ev, denied
<1>4. Fine(y) /\ Still(ses[s], y) /\ y.cmd = NoIntent /\ y.phase = "none"
  <2> HIDE DEF a
  <2> QED
    BY <1>0, <1>2, AfterSes
<1>5. ASSUME NEW r \in Sessions
      PROVE Hears(IF r = s THEN y ELSE ses[r], ses'[r], ev)
  <2> DEFINE q == IF r = s THEN y ELSE ses[r]
  <2>1. ses'[r] = IF Connected(r) /\ ThreadOf[a] \in q.subs /\ ask[a] = "open"
                  THEN [q EXCEPT !.evq = Append(@, ev)] ELSE q
    BY <1>3
  <2> HIDE DEF q
  <2>2. Hears(q, ses'[r], ev)
    BY <2>1 DEF Hears
  <2> QED
    BY <2>2 DEF q
<1>6. ev \in EventSet
  BY <1>0 DEF ev, EventSet, AskEvents
<1>7. ASSUME NEW r \in Sessions
      PROVE  /\ Fine(ses'[r]) /\ RSame(ses[r], ses'[r]) /\ ses'[r].epoch = ses[r].epoch
             /\ \A d : In(ses'[r].evq, d) => In(ses[r].evq, d) \/ d = ev
             /\ r # s => VSame(ses[r], ses'[r])
             /\ r = s => ses'[r].cmd = NoIntent
  <2> DEFINE q == IF r = s THEN y ELSE ses[r]
  <2>1. /\ Fine(q) /\ RSame(ses[r], q) /\ q.evq = ses[r].evq /\ (r # s => q = ses[r])
        /\ (r = s => q.cmd = NoIntent)
    <3>1. CASE r = s
      BY <1>4, <3>1 DEF Still
    <3>2. CASE r # s
      BY <3>2, SesFacts DEF RSame
    <3> QED
      BY <3>1, <3>2
  <2>2. Hears(q, ses'[r], ev)
    BY <1>5
  <2> HIDE DEF q
  <2>3. /\ Fine(ses'[r]) /\ RSame(q, ses'[r]) /\ VSame(q, ses'[r])
        /\ \A d : In(ses'[r].evq, d) => In(q.evq, d) \/ d = ev
    BY <1>6, <2>1, <2>2, HearsIs
  <2>4. RSame(ses[r], ses'[r])
    BY <2>1, <2>3 DEF RSame
  <2> QED
    BY <2>1, <2>3, <2>4 DEF VSame, RSame
<1>8. /\ DbInv(db')
      /\ \E x : /\ x.epoch = e /\ Claiming(db, db', a, x)
                /\ \/ x.state \in {"responding", "denied"} /\ e = db.endpoint.epoch
                   \/ x.state = "uncertain"
  <2> HIDE DEF a, e
  <2> QED
    BY <1>0, <1>1, <1>2, SentClaim
<1>9. PICK x : /\ x.epoch = e /\ Claiming(db, db', a, x)
               /\ \/ x.state \in {"responding", "denied"} /\ e = db.endpoint.epoch
                  \/ x.state = "uncertain"
  BY <1>8
<1>10. \A r \in Sessions \ {s} : ses[r].cmd = a => ses[r].phase \notin AnswerPhases
  BY <1>0, OnlyClaimer
<1>11. ses' \in [Sessions -> SessionSet]
  <2>1. ses' = [r \in Sessions |-> ses'[r]]
    BY <1>3
  <2>2. \A r \in Sessions : ses'[r] \in SessionSet
    BY <1>7 DEF Fine
  <2> QED
    BY <2>1, <2>2
<1>12. AnswerInv' /\ ask' \in [Asks -> {"none", "open", "closed"}] /\ answers' \in [Asks -> Nat]
  <2>1. ev = [kind |-> "resolved", about |-> a, status |-> "none"]
    BY DEF ev
  <2>2. OthersGoOn(s, a)
    BY <1>7, <1>10 DEF VSame, OthersGoOn
  <2>3. ses'[s].cmd = NoIntent
    BY <1>7
  <2>4. x.state \in {"responding", "denied", "uncertain"}
          /\ (x.state # "uncertain" => x.epoch = db.endpoint.epoch)
    BY <1>9
  <2>5. TellsAll(ev)
    BY <1>7 DEF TellsAll
  <2>6. /\ answers' = [answers EXCEPT ![a] = @ + 1] /\ ask' = [ask EXCEPT ![a] = "closed"]
        /\ a \in Asks /\ answers[a] = 0 /\ Claiming(db, db', a, x)
    BY <1>0, <1>1, <1>9
  <2> HIDE DEF a, e
  <2> QED
    BY <2>1, <2>2, <2>3, <2>4, <2>5, <2>6, AnsweredKept
<1>13. ServerType'
  BY <1>1, <1>12 DEF ServerType, Inv, BaseInv
<1>14. \A r \in Sessions : /\ Fine(ses'[r]) /\ RSame(ses[r], ses'[r])
                           /\ VSame(ses[r], ses'[r]) \/ ses'[r].cmd \notin Intents
  BY <1>7, ThreadsOf
<1> HIDE DEF a
<1> QED
  BY <1>0, <1>1, <1>8, <1>9, <1>11, <1>12, <1>13, <1>14, ClaimsKept

PendTo(x, y, a, v) == y = [x EXCEPT !.pend[a] = v]

\* The session with one pending approval changed.
LEMMA PendSes ==
  ASSUME NEW x, Fine(x), NEW a \in Asks, NEW v \in {"none", "waiting", "responded"}, NEW y, PendTo(x, y, a, v)
  PROVE  Fine(y) /\ Still(x, y) /\ VSame(x, y)
<1> DEFINE f == [x.pend EXCEPT ![a] = v]
<1>0. x \in SessionSet /\ f \in [Asks -> {"none", "waiting", "responded"}]
  BY PendIs DEF Fine
<1>1. y = [x EXCEPT !.pend = f]
  BY <1>0 DEF PendTo, SessionSet
<1> HIDE DEF f
<1>2. y \in SessionSet
  BY <1>0, <1>1 DEF SessionSet
<1>3. Still(x, y) /\ VSame(x, y)
  BY <1>0, <1>1 DEF SessionSet, Still, RSame, VSame
<1> QED
  BY <1>2, <1>3 DEF Fine, Still, RSame, VSame

\* The event that is taken is about an approval.
LEMMA AskTaken ==
  ASSUME Inv, NEW s \in Sessions, ses[s].evq # <<>>, Head(ses[s].evq) \notin TurnEvents,
         NEW z, TakeTo(ses[s], z)
  PROVE  /\ Fine(z) /\ RSame(ses[s], z) /\ VSame(ses[s], z) /\ z.pc = ses[s].pc
            /\ z.cmd = ses[s].cmd
         /\ \A d : In(z.evq, d) => In(ses[s].evq, d)
<1>1. Fine(ses[s]) /\ ses[s].evq \in Seq(EventSet)
  BY SesFacts
<1>2. /\ Fine(z) /\ VSame(ses[s], z) /\ z.evq = Tail(ses[s].evq) /\ z.pc = ses[s].pc
         /\ z.step = ses[s].step
      /\ z.subs = ses[s].subs /\ z.done = ses[s].done /\ z.cur = ses[s].cur /\ z.snap = ses[s].snap
      /\ z.box = ses[s].box /\ z.over = ses[s].over
  BY <1>1, TakeSes
<1>3. \A d : In(ses[s].evq, d) <=> d = Head(ses[s].evq) \/ In(z.evq, d)
  BY <1>1, <1>2, InTail
<1>4. RSame(ses[s], z)
  BY <1>2, <1>3 DEF RSame, VSame
<1> QED
  BY <1>2, <1>3, <1>4 DEF VSame

\* TurnEvent: what is not recorded is of a thread that is not ready.
LEMMA TurnEventKeeps ==
  ASSUME Inv, NEW s \in Sessions, Idle(s), ses[s].evq # <<>>, UNCHANGED server,
         Head(ses[s].evq).kind = "turn", TurnEvent(s, Head(ses[s].evq))
  PROVE  Kept
<1> DEFINE x == Head(ses[s].evq)
           t == ThreadOf[x.about]
           e == ses[s].epoch
           y == [ses[s] EXCEPT !.evq = Tail(@)]
<1>1. Update(s, y) /\ TakeTo(ses[s], y) /\ ses[s].pc = "live"
  BY DEF TurnEvent, Taken, TakeTo, Idle
<1> HIDE DEF y
<1>2. CASE Current(db, t, e, "ready")
  <2>1. db' = ApplyTerminals(db, t, e, Ended(x), FALSE)
    BY <1>2 DEF TurnEvent
  <2> QED
    BY <1>1, <1>2, <2>1, RecordKeeps
<1>3. CASE ~ Current(db, t, e, "ready")
  <2>1. db' = db
    BY <1>3 DEF TurnEvent
  <2>2. DbInv(db') /\ Quiet(db, db') /\ ReadyKept(db, db') /\ db'.endpoint.epoch = db.endpoint.epoch
    BY <2>1, DbFacts
  <2>3. ASSUME NEW u \in Turns, Ending(u) = x, Latest(s) PROVE ~ IsReady(db', ThreadOf[u])
    <3>1. ThreadOf[u] = t
      BY <2>3 DEF Ending
    <3> QED
      BY <1>3, <2>1, <2>3, <3>1 DEF Latest, IsReady, Current
  <2> QED
    BY <1>1, <2>2, <2>3, TakenKeeps
<1> QED
  BY <1>2, <1>3

\* Nobody is answering a request that is received.
LEMMA ReceivedIsFree ==
  ASSUME Inv, NEW s \in Sessions, NEW a \in Asks, NEW ev \in AskEvents, Heard(s, ev), ev.kind = "ask",
         ev.about = a, Receives(db, a, ses[s].epoch)
  PROVE  /\ answers[a] = 0
         /\ \A r \in Sessions : ses[r].cmd = a => ses[r].phase \notin AnswerPhases
<1> DEFINE e == ses[s].epoch
           n == Receive(db, a, e)
<1>0. DbInv(db) /\ AnswerInv
  BY DEF Inv, BaseInv
<1>1. /\ db.endpoint.epoch = e /\ db.claim[a].state # "uncertain"
      /\ db.claim[a].state # "none" => db.claim[a].epoch # e
  <2> HIDE DEF e
  <2>1. Receives(db, a, e)
    BY DEF e
  <2> QED
    BY <1>0, <2>1, ReceiveIs
<1>2. answers[a] = 0
  BY <1>0, <1>1 DEF AnswerInv
<1>3. ASSUME NEW r \in Sessions, ses[r].cmd = a, ses[r].phase \in AnswerPhases PROVE FALSE
  <2>1. db.claim[a].state \in {"claimed", "responding"}
    BY <1>0, <1>1, <1>3 DEF AnswerInv
  <2>2. db.claim[a].epoch = e
    BY <1>0, <1>1, <2>1 DEF DbInv, CoreInv, Undecided
  <2> QED
    BY <1>1, <2>1, <2>2
<1> QED
  BY <1>2, <1>3

\* receive_approval.
LEMMA ApprovalEventKeeps ==
  ASSUME Inv, NEW s \in Sessions, Idle(s), ses[s].evq # <<>>, UNCHANGED server, NEW a \in Asks,
         NEW ev \in AskEvents, ev = Head(ses[s].evq), ev.kind = "ask", ev.about = a, ApprovalEvent(s, a)
  PROVE  Kept
<1> DEFINE e == ses[s].epoch
           z == [ses[s] EXCEPT !.evq = Tail(@)]
           y1 == [z EXCEPT !.pend[a] = "waiting"]
           y2 == [z EXCEPT !.cmd = a, !.phase = "deny"]
<1>1. TakeTo(ses[s], z) /\ PendTo(z, y1, a, "waiting") /\ SubmitTo(z, y2, a, "deny")
  BY DEF TakeTo, PendTo, SubmitTo
<1>2. \/ Fail(s)
      \/ /\ Receives(db, a, e) /\ db' = Receive(db, a, e)
         /\ Update(s, y1) \/ Update(s, y2)
  BY DEF ApprovalEvent, Taken
<1> HIDE DEF z, y1, y2
<1>3. CASE Fail(s)
  BY <1>3, FailKeeps
<1>4. CASE Receives(db, a, e) /\ db' = Receive(db, a, e) /\ (Update(s, y1) \/ Update(s, y2))
  <2>0. ev \notin TurnEvents /\ Heard(s, ev) /\ ses[s].pc = "live" /\ ses[s].cmd = NoIntent
          /\ DbInv(db)
    BY HeadIs, DbFacts DEF TurnEvents, Heard, Idle
  <2>1. /\ Fine(z) /\ RSame(ses[s], z) /\ VSame(ses[s], z) /\ z.pc = "live" /\ z.cmd = NoIntent
        /\ \A d : In(z.evq, d) => In(ses[s].evq, d)
    BY <1>1, <2>0, AskTaken
  <2>2. Fine(y1) /\ Still(z, y1) /\ VSame(z, y1)
    BY <1>1, <2>1, PendSes
  <2>3. Fine(y2) /\ Still(z, y2) /\ y2.cmd = a /\ y2.phase = "deny"
    BY <1>1, <2>1, SubmitSes DEF Phases
  <2>4. PICK y \in {y1, y2} : Update(s, y)
    BY <1>4
  <2>5. /\ Fine(y) /\ RSame(ses[s], y) /\ y.epoch = ses[s].epoch
        /\ \A d \in AskEvents : In(y.evq, d) => In(ses[s].evq, d)
        /\ VSame(ses[s], y) \/ y.cmd = a
        /\ y.cmd \notin Asks \/ y.phase \notin AnswerPhases
    <3>1. CASE y = y1
      BY <2>0, <2>1, <2>2, <3>1, ThreadsOf DEF Still, RSame, VSame
    <3>2. CASE y = y2
      BY <2>1, <2>3, <3>2 DEF Still, RSame, AnswerPhases
    <3> QED
      BY <3>1, <3>2
  <2>6. /\ answers[a] = 0 /\ \A r \in Sessions : ses[r].cmd = a => ses[r].phase \notin AnswerPhases
    BY <1>4, <2>0, ReceivedIsFree
  <2>7. DbInv(db') /\ \E x \in ClaimSet : x.state = "received" /\ x.epoch = e
          /\ Claiming(db, db', a, x)
    <3> HIDE DEF e
    <3> QED
      BY <1>4, <2>0, ReceiveIs
  <2>8. PICK x \in ClaimSet : x.state = "received" /\ x.epoch = e /\ Claiming(db, db', a, x)
    BY <2>7
  <2>9. AnswerInv'
    <3>1. UNCHANGED <<ask, answers>>
      BY DEF server
    <3> QED
      BY <2>4, <2>5, <2>6, <2>8, <3>1, ClaimAnswered
  <2>10. VSame(ses[s], y) \/ y.cmd \notin Intents
    BY <2>5, ThreadsOf
  <2> QED
    BY <2>4, <2>5, <2>7, <2>8, <2>9, <2>10, ClaimKept
<1> QED
  BY <1>2, <1>3, <1>4

\* The endpoint says that a request is over.
LEMMA ResolvedEventKeeps ==
  ASSUME Inv, NEW s \in Sessions, Idle(s), ses[s].evq # <<>>, UNCHANGED server, NEW a \in Asks,
         NEW ev \in AskEvents, ev = Head(ses[s].evq), ev.kind = "resolved", ev.about = a, ResolvedEvent(s, a)
  PROVE  Kept
<1> DEFINE e == ses[s].epoch
           z == [ses[s] EXCEPT !.evq = Tail(@)]
           y == [z EXCEPT !.pend[a] = "none"]
<1>1. TakeTo(ses[s], z) /\ PendTo(z, y, a, "none")
  BY DEF TakeTo, PendTo
<1>2. \/ Fail(s)
      \/ Closes(db, a, e) /\ db' = Close(db, a) /\ Update(s, y)
  BY DEF ResolvedEvent, Taken
<1> HIDE DEF z, y
<1>3. CASE Fail(s)
  BY <1>3, FailKeeps
<1>4. CASE Closes(db, a, e) /\ db' = Close(db, a) /\ Update(s, y)
  <2>0. ev \notin TurnEvents /\ Heard(s, ev) /\ ses[s].pc = "live" /\ ses[s].cmd = NoIntent
    BY HeadIs DEF TurnEvents, Heard, Idle
  <2>1. /\ Fine(z) /\ RSame(ses[s], z) /\ VSame(ses[s], z) /\ z.pc = "live" /\ z.cmd = NoIntent
        /\ \A d : In(z.evq, d) => In(ses[s].evq, d)
    BY <1>1, <2>0, AskTaken
  <2>2. Fine(y) /\ Still(z, y) /\ VSame(z, y)
    BY <1>1, <2>1, PendSes
  <2>3. /\ RSame(ses[s], y) /\ y.epoch = ses[s].epoch /\ VSame(ses[s], y) /\ y.cmd = NoIntent
        /\ \A d \in AskEvents : In(y.evq, d) => In(ses[s].evq, d)
    BY <2>0, <2>1, <2>2 DEF Still, RSame, VSame
  <2>4. AnswerInv /\ DbInv(db)
    BY DEF Inv, BaseInv
  <2>5. answers[a] = 1
    BY <2>0, <2>4 DEF AnswerInv
  <2>6. \A r \in Sessions : ses[r].cmd = a => ses[r].phase \notin AnswerPhases
    BY <2>4, <2>5 DEF AnswerInv
  <2>7. db.claim[a].state # "uncertain" /\ db' = [db EXCEPT !.claim[a].state = "resolved"]
    BY <1>4 DEF Closes, Close
  <2>8. DbInv(db') /\ \E x \in ClaimSet : x.state = "resolved" /\ x.epoch = db.claim[a].epoch
          /\ Claiming(db, db', a, x)
    <3>1. "resolved" \in ClaimStates \ {"uncertain"} /\ "resolved" \notin Undecided
      BY DEF ClaimStates, Undecided
    <3> QED
      BY <2>4, <2>7, <3>1, ClaimMoves
  <2>9. PICK x \in ClaimSet : x.state = "resolved" /\ x.epoch = db.claim[a].epoch
          /\ Claiming(db, db', a, x)
    BY <2>8
  <2>10. AnswerInv'
    <3>1. UNCHANGED <<ask, answers>>
      BY DEF server
    <3>2. y.cmd \notin Asks
      BY <2>3, ThreadsOf
    <3> QED
      BY <1>4, <2>3, <2>6, <2>7, <2>9, <3>1, <3>2, ClaimAnswered
  <2> QED
    BY <1>4, <2>2, <2>3, <2>8, <2>9, <2>10, ClaimKept
<1> QED
  BY <1>2, <1>3, <1>4

\* WriterEvent.
LEMMA WriterEventKeeps ==
  ASSUME Inv, NEW s \in Sessions, WriterEvent(s)
  PROVE  Kept
<1> DEFINE x == Head(ses[s].evq)
<1>0. Idle(s) /\ ses[s].evq # <<>> /\ UNCHANGED server
  BY DEF WriterEvent
<1>1. x \in EventSet
  BY <1>0, HeadIs
<1>2. CASE x \in TurnEvents
  <2>1. x.kind = "turn"
    BY <1>2 DEF TurnEvents
  <2>2. TurnEvent(s, x)
    BY <2>1 DEF WriterEvent
  <2> QED
    BY <1>0, <2>1, <2>2, TurnEventKeeps
<1>3. CASE x \in AskEvents
  <2>1. x.kind \in {"ask", "resolved"} /\ x.about \in Asks
    BY <1>3 DEF AskEvents
  <2>2. CASE x.kind = "ask"
    <3>1. ApprovalEvent(s, x.about)
      BY <2>2 DEF WriterEvent
    <3> QED
      BY <1>0, <1>3, <2>1, <2>2, <3>1, ApprovalEventKeeps
  <2>3. CASE x.kind = "resolved"
    <3>1. ResolvedEvent(s, x.about)
      BY <2>3 DEF WriterEvent
    <3> QED
      BY <1>0, <1>3, <2>1, <2>3, <3>1, ResolvedEventKeeps
  <2> QED
    BY <2>1, <2>2, <2>3
<1> QED
  BY <1>1, <1>2, <1>3 DEF EventSet

-----------------------------------------------------------------------------
\* The specification.

\* The tables of a new database.
LEMMA TablesIs ==
  ASSUME NEW S, NEW d, d = Tables(S)
  PROVE  /\ d \in Tabled /\ (\A t \in Threads : d.fence[t].state = "absent")
         /\ \A t \in Threads : ~ IsReady(d, t)
         /\ \A i \in Intents : d.intent[i].state = "none"
         /\ \A a \in Asks : d.claim[a].state = "none"
         /\ \A u \in Turns : d.term[u] = "none"
         /\ d.endpoint.epoch = 0
<1> DEFINE row(t) == [epoch |-> 0, state |-> IF t \in S THEN "unavailable" ELSE "none"]
           th == [t \in Threads |-> row(t)]
           fe == [t \in Threads |-> NewFence]
           it == [i \in Intents |-> NewIntent]
           cl == [a \in Asks |-> [state |-> "none", epoch |-> 0]]
           te == [u \in Turns |-> "none"]
           ep == [epoch |-> 0, state |-> "none"]
<1>1. d = [endpoint |-> ep, thread |-> th, fence |-> fe, intent |-> it, claim |-> cl, term |-> te]
  BY DEF Tables
<1>2. th \in [Threads -> ThreadSet] /\ \A t \in Threads : th[t].state # "ready"
  <2>1. \A t \in Threads : row(t) \in ThreadSet /\ row(t).state # "ready"
    BY DEF ThreadSet
  <2> HIDE DEF row
  <2> QED
    BY <2>1
<1>3. fe \in [Threads -> FenceSet] /\ \A t \in Threads : fe[t].state = "absent"
  <2>1. NewFence \in FenceSet /\ NewFence.state = "absent"
    BY DEF NewFence, FenceSet, FenceStates
  <2> QED
    BY <2>1
<1>4. it \in [Intents -> IntentSet] /\ \A i \in Intents : it[i].state = "none"
  <2>1. NewIntent \in IntentSet /\ NewIntent.state = "none"
    BY DEF NewIntent, IntentSet, IntentStates
  <2> QED
    BY <2>1
<1>5. cl \in [Asks -> ClaimSet] /\ \A a \in Asks : cl[a].state = "none"
  <2> DEFINE c == [state |-> "none", epoch |-> 0]
  <2>1. c \in ClaimSet /\ c.state = "none"
    BY DEF ClaimSet, ClaimStates
  <2> HIDE DEF c
  <2>2. [a \in Asks |-> c] \in [Asks -> ClaimSet]
          /\ \A a \in Asks : [b \in Asks |-> c][a].state = "none"
    BY <2>1
  <2> QED
    BY <2>2 DEF c
<1>6. te \in [Turns -> Outcomes] /\ \A u \in Turns : te[u] = "none"
  BY DEF Outcomes
<1>7. ep \in EndpointSet /\ ep.epoch = 0
  BY DEF EndpointSet
<1> HIDE DEF th, fe, it, cl, te, ep
<1>8. /\ d \in Tabled /\ d.thread = th /\ d.fence = fe /\ d.intent = it /\ d.claim = cl
         /\ d.term = te
      /\ d.endpoint = ep
  BY <1>1, <1>2, <1>3, <1>4, <1>5, <1>6, <1>7 DEF Tabled
<1> QED
  BY <1>2, <1>3, <1>4, <1>5, <1>6, <1>7, <1>8 DEF IsReady

\* The initial states.
LEMMA InitHolds ==
  ASSUME Init
  PROVE  Inv
<1>1. PICK c \in Scenes : db = Tables(c.managed)
  BY DEF Init
<1> DEFINE S == c.managed
<1>2. /\ db \in Tabled /\ (\A t \in Threads : db.fence[t].state = "absent")
      /\ \A t \in Threads : ~ IsReady(db, t)
      /\ \A i \in Intents : db.intent[i].state = "none"
      /\ \A a \in Asks : db.claim[a].state = "none"
      /\ \A u \in Turns : db.term[u] = "none"
      /\ db.endpoint.epoch = 0
  <2>1. db = Tables(S)
    BY <1>1
  <2> HIDE DEF S
  <2> QED
    BY <2>1, TablesIs
<1>3. DbInv(db)
  BY <1>2 DEF DbInv, CoreInv, FenceInv, Unsettled, Underway, Undecided
<1>4. \A s \in Sessions : /\ Fine(ses[s]) /\ ses[s].epoch = 0 /\ ses[s].cmd = NoIntent
                             /\ ses[s].evq = <<>>
                          /\ ses[s].pc = "off" /\ ses[s] \in SessionSet
  <2> DEFINE o == Session("off", 0)
  <2>1. o \in SessionSet /\ o.pc = "off" /\ o.epoch = 0 /\ o.cmd = NoIntent /\ o.reply = "none"
          /\ o.evq = <<>>
        /\ o.step = "none"
    <3>1. NoTurns \in [Turns -> Outcomes]
            /\ [a \in Asks |-> "none"] \in [Asks -> {"none", "waiting", "responded"}]
      BY DEF NoTurns, Outcomes
    <3>2. <<>> \in Seq(EventSet)
      OBVIOUS
    <3> QED
      BY <3>1, <3>2 DEF Session, SessionSet
  <2>2. \A s \in Sessions : ses[s] = o
    BY DEF Init
  <2> HIDE DEF o
  <2>3. Fine(o)
    BY <2>1 DEF Fine, Active
  <2> QED
    BY <2>1, <2>2, <2>3
<1>5. SesInv
  <2>1. ses = [s \in Sessions |-> ses[s]]
    BY DEF Init
  <2>2. ses \in [Sessions -> SessionSet]
    BY <1>4, <2>1
  <2> QED
    BY <1>2, <1>4, <2>2 DEF SesInv
<1>6. ServerType
  BY DEF Init, ServerType, NoTurns
<1>7. wire = {} /\ (\A i \in Intents : effects[i] = 0) /\ (\A a \in Asks : answers[a] = 0)
  BY DEF Init
<1>8. VerdictInv
  BY <1>2, <1>4, <1>7, ThreadsOf DEF VerdictInv, EffectInv, OnWire
<1>9. OwnInv
  BY <1>4, <1>7, ThreadsOf DEF OwnInv, OnWire
<1>10. AnswerInv
  <2>1. \A s \in Sessions, ev \in AskEvents : ~ Heard(s, ev)
    BY <1>4, InEmpty DEF Heard
  <2> QED
    BY <1>4, <1>7, <2>1, ThreadsOf DEF AnswerInv
<1>11. ReadyInv
  BY <1>4 DEF ReadyInv, Latest, Active
<1> QED
  BY <1>3, <1>5, <1>6, <1>8, <1>9, <1>10, <1>11 DEF Inv, BaseInv

\* Nothing happens.
LEMMA StutterKeeps ==
  ASSUME Inv, UNCHANGED vars
  PROVE  Kept
<1>1. UNCHANGED <<db, ses, turn, queue, wire, effects, ask, answers>>
  BY DEF vars
<1>2. BaseInv'
  BY <1>1 DEF Inv, BaseInv, DbInv, SesInv, ServerType
<1>3. VerdictInv' /\ OwnInv'
  BY <1>1, CommandsSame DEF VSame
<1>4. AnswerInv'
  BY <1>1 DEF Inv, AnswerInv, Heard
<1>5. ReadyInv'
  BY <1>1 DEF Inv, ReadyInv, Latest, Complete, Ending
<1>6. Knows(db, db')
  BY <1>1 DEF Knows, TermStays
<1> QED
  BY <1>2, <1>3, <1>4, <1>5, <1>6 DEF Inv, Kept

\* Every step of a session.
LEMMA SessionKeeps ==
  ASSUME Inv, NEW s \in Sessions,
         Reconciles(s) \/ Reads(s) \/ Mutates(s) \/ Approves(s) \/ Commands(s) \/ Fails(s)
  PROVE  Kept
<1>1. CASE Reconciles(s)
  BY <1>1, ReserveKeeps, ConnectKeeps, BeginThreadKeeps, ResumeKeeps, FinishThreadKeeps,
     RouteEventKeeps, ReconciledKeeps
     DEF Reconciles
<1>2. CASE Reads(s)
  BY <1>2, LiveEventKeeps, BackoffKeeps, StopsKeep DEF Reads
<1>3. CASE Mutates(s)
  BY <1>3, CheckOwnerKeeps, AcquireKeeps, PreflightKeeps, SendKeeps, RequestKeeps,
     AnswerKeeps, ConfirmKeeps
     DEF Mutates
<1>4. CASE Approves(s)
  BY <1>4, WriterEventKeeps, DenyClaimKeeps, RespondKeeps, SendAnswerKeeps DEF Approves
<1>5. CASE Commands(s)
  BY <1>5, ManageKeeps, SubmitKeeps, DecideKeeps, ExpireKeeps, StopsKeep DEF Commands
<1>6. CASE Fails(s)
  BY <1>6, FailuresKeep, UnusableKeeps, StopsKeep, ReadRefusedKeeps, LostAnswersKeep
     DEF Fails
<1> QED
  BY <1>1, <1>2, <1>3, <1>4, <1>5, <1>6

\* Every step.
LEMMA NextKeeps ==
  ASSUME Inv, [Next]_vars
  PROVE  Kept
<1>1. CASE UNCHANGED vars
  BY <1>1, StutterKeeps
<1>2. CASE Endpoint
  BY <1>2, TurnsKeep, AskOpensKeeps, AskAgainKeeps, HandleKeeps, HandleInterruptKeeps,
     LoseKeeps
     DEF Endpoint
<1>3. CASE Next /\ ~ Endpoint
  BY <1>3, SessionKeeps DEF Next
<1> QED
  BY <1>1, <1>2, <1>3

\* The inductive invariant of the shared endpoint: holds in every reachable state.
THEOREM ExternalInvariant == Spec => []Inv
<1>1. Init => Inv
  BY InitHolds
<1>2. Inv /\ [Next]_vars => Inv'
  BY NextKeeps DEF Kept
<1> QED
  BY <1>1, <1>2, PTL DEF Spec

\* A mutation takes effect at most once and the table tells the truth about it: what is
\* "rejected" has not happened and is not on its way, what is "applied" has happened
\* (resolve_external_mutation, whichever session, epoch, crash or lost answer).
THEOREM VerdictIsTrue == Spec => []VerdictTrue
<1>1. Inv => VerdictTrue
  BY DEF Inv, VerdictInv, EffectInv, OnWire, VerdictTrue
<1> QED
  BY <1>1, ExternalInvariant, PTL

\* While a mutation may still take effect its thread is fenced: active for it or uncertain
\* (prepare_external_mutation, reserve_external_epoch and mark_external_unavailable).
THEOREM MaybeStaysFenced == Spec => []MaybeIsFenced
<1>1. ASSUME Inv, NEW m \in wire
      PROVE  LET f == db.fence[ThreadOf[m[3]]] IN
             f.state = "uncertain" \/ (f.state = "active" /\ f.active = m[3])
  <2> DEFINE i == m[3]
  <2>1. DbInv(db) /\ EffectInv /\ i \in Intents /\ OnWire(i)
    BY <1>1 DEF Inv, BaseInv, VerdictInv, ServerType, OnWire
  <2>2. db.intent[i].state \in {"sent", "uncertain"}
    BY <2>1 DEF EffectInv, DbInv, Tabled, IntentSet, IntentStates
  <2>3. CASE db.intent[i].state = "sent"
    BY <2>1, <2>3 DEF DbInv, FenceInv, Underway
  <2>4. CASE db.intent[i].state = "uncertain"
    BY <2>1, <2>4, ThreadsOf DEF DbInv, FenceInv, Unsettled
  <2> QED
    BY <2>2, <2>3, <2>4
<1>2. Inv => MaybeIsFenced
  BY <1>1 DEF MaybeIsFenced
<1> QED
  BY <1>2, ExternalInvariant, PTL

\* What the bridge steers, interrupts, extends or starts from the queue was made by the same
\* actor (require_owned_active, though it is asked before the fence is taken).
THEOREM TargetStaysOwn == Spec => []OwnTarget
<1>1. Inv => OwnTarget
  BY DEF Inv, OwnInv, MadeBy, OwnTarget
<1> QED
  BY <1>1, ExternalInvariant, PTL

\* A thread that is ready in the live session of the current epoch misses no turn that has
\* ended: it is recorded or its event has yet to be taken (reconcile_thread, apply_terminals).
THEOREM ReadyStaysComplete == Spec => []ReadyIsComplete
<1>1. ASSUME Inv, NEW s \in Sessions, NEW u \in Turns, ses[s].pc = "live", ses[s].epoch = db.endpoint.epoch,
             db.thread[ThreadOf[u]] = [epoch |-> ses[s].epoch, state |-> "ready"], turn[u] \in Ends
      PROVE  \/ db.term[u] = turn[u]
             \/ \E k \in 1..Len(ses[s].evq) : ses[s].evq[k].about = u
  <2>1. Complete(s)
    BY <1>1 DEF Inv, ReadyInv, Latest, Active
  <2>2. IsReady(db, ThreadOf[u])
    BY <1>1 DEF IsReady
  <2>3. db.term[u] = turn[u] \/ In(ses[s].evq, Ending(u))
    BY <1>1, <2>1, <2>2 DEF Complete
  <2>4. Ending(u).about = u
    BY DEF Ending
  <2> QED
    BY <2>3, <2>4 DEF In
<1>2. Inv => ReadyIsComplete
  BY <1>1 DEF ReadyIsComplete
<1> QED
  BY <1>2, ExternalInvariant, PTL

\* An approval request is answered at most once, and never before its claim shows it
\* (claim_external_approval, resolve_external_approval).
THEOREM AnsweredAtMostOnce == Spec => []AnsweredOnce
<1>1. Inv => AnsweredOnce
  BY DEF Inv, AnswerInv, AnsweredOnce
<1> QED
  BY <1>1, ExternalInvariant, PTL

\* What is recorded of a turn is never recorded otherwise, and a fence that is uncertain
\* is never opened again by reconnecting (apply_terminals, reserve_external_epoch).
THEOREM KnowledgeIsKept == Spec => KnowledgeStays
<1>1. Inv /\ [Next]_vars =>
        [/\ \A u \in Turns : db.term[u] # "none" => db'.term[u] = db.term[u]
         /\ \A t \in Threads : db.fence[t].state = "uncertain"
            => db'.fence[t].state = "uncertain"]_vars
  BY NextKeeps DEF Kept, Knows, TermStays
<1> QED
  BY <1>1, ExternalInvariant, PTL DEF Spec, KnowledgeStays
=============================================================================
