---------------------------- MODULE TurnsProofs ----------------------------
(***************************************************************************)
(* What holds of the inbound ledger, the actors and Codex for any number   *)
(* of scopes, events, deliveries, threads, turns and faults:               *)
(*   - every turn runs on a thread of its own scope (HInv);                *)
(*   - no message is handed to Codex twice, every restart's scan passes,   *)
(*     and what is settled was answered (SInv);                            *)
(*   - Codex executes one turn of a scope at a time (OInv).                *)
(* Of an action the arguments need only what it does to the threads, and   *)
(* to the rows: HomeStep, and Anyone and OfScope, list the possibilities.  *)
(***************************************************************************)
EXTENDS Turns, WellFoundedInduction, FiniteSetTheorems, TLAPS

-----------------------------------------------------------------------------
(* Part 1. Threads stay home.                                              *)

\* The active thread of a scope was made for it.
ActiveHome == \A s \in Scope : thread[s] # 0 => thread[s] \in DOMAIN made /\ made[thread[s]] = s

\* The thread of a turn exists and was made for the scope of the turn.
TurnHome ==
    \A t \in TurnId : turns[t].thread # 0 =>
        turns[t].thread \in DOMAIN made /\ made[turns[t].thread] = turns[t].scope

\* As much of the types as the argument needs.
Shapes ==
    /\ made \in Seq(Scope)
    /\ DOMAIN thread = Scope
    /\ DOMAIN turns = TurnId
    /\ \A t \in TurnId : DOMAIN turns[t] = {"state", "scope", "thread", "count"}

HInv == Shapes /\ ActiveHome /\ TurnHome

\* What a transaction may do to turns and threads; s is the scope it is about.
SameHomes == UNCHANGED <<turns, thread, made>>
SetsState == /\ \E t, x : turns' = [turns EXCEPT ![t].state = x]
             /\ UNCHANGED <<thread, made>>
BeginsTurn(s) == /\ \E t, n : turns' = [turns EXCEPT ![t] = [state |-> "starting", scope |-> s,
                                                            thread |-> thread[s], count |-> n]]
                 /\ UNCHANGED <<thread, made>>
MakesThread(s) == /\ made' = Append(made, s)
                  /\ thread' = [thread EXCEPT ![s] = Len(made) + 1]
                  /\ UNCHANGED turns
PicksThread(s) == /\ \E i : /\ thread' = [thread EXCEPT ![s] = i]
                            /\ i = 0 \/ i = thread[s] \/ (i \in DOMAIN made /\ made[i] = s)
                  /\ UNCHANGED <<turns, made>>
HomeStep == \/ SameHomes \/ SetsState
            \/ \E s \in Scope : BeginsTurn(s) \/ MakesThread(s) \/ PicksThread(s)

-----------------------------------------------------------------------------
\* No turn and no thread yet.
LEMMA HomeInit == Init => HInv
  BY DEF Init, LedgerInit, HInv, Shapes, ActiveHome, TurnHome, NoTurnRow

\* Each of the five keeps the invariant.
LEMMA SetsStateKeeps == HInv /\ SetsState => HInv'
  BY DEF HInv, Shapes, ActiveHome, TurnHome, SetsState

\* A turn begins on the active thread of its scope.
LEMMA BeginsTurnKeeps == ASSUME NEW s \in Scope, HInv, BeginsTurn(s) PROVE HInv'
  BY DEF HInv, Shapes, ActiveHome, TurnHome, BeginsTurn

\* A new thread is made for the scope that makes it.
LEMMA MakesThreadKeeps == ASSUME NEW s \in Scope, HInv, MakesThread(s) PROVE HInv'
  BY DEF HInv, Shapes, ActiveHome, TurnHome, MakesThread

\* A scope picks none, its own or another thread made for it.
LEMMA PicksThreadKeeps == ASSUME NEW s \in Scope, HInv, PicksThread(s) PROVE HInv'
  BY DEF HInv, Shapes, ActiveHome, TurnHome, PicksThread

\* So does every step that does one of the five, or nothing.
LEMMA HomeKept == HInv /\ HomeStep => HInv'
  <1>1. HInv /\ SameHomes => HInv'
    BY DEF HInv, Shapes, ActiveHome, TurnHome, SameHomes
  <1> QED
    BY <1>1, SetsStateKeeps, BeginsTurnKeeps, MakesThreadKeeps, PicksThreadKeeps DEF HomeStep

-----------------------------------------------------------------------------
(* Every action does one of these things.                                  *)

\* The receipt boundary and the sweep do not look at turns.
LEMMA IntakeHomes ==
    ASSUME NEW e \in Event, NEW ok \in BOOLEAN, Deliver(e, ok) \/ DeliverCut(e) \/ Sweep(e)
    PROVE  HomeStep
  BY DEF Deliver, DeliverCut, Sweep, StoreJob, RegisterInbound, SweepInbound, HomeStep,
         SameHomes, ledger

\* Neither does a refusal (reject_received), done or failed.
LEMMA RejectHomes ==
    ASSUME NEW e, NEW why, NEW ok, StoreJob(RejectAllowed(e, why), RejectReceived(e, why), ok)
    PROVE  HomeStep
  BY DEF StoreJob, RejectReceived, HomeStep, SameHomes, ledger

\* Nor the completion of an event without a turn.
LEMMA CompleteHomes ==
    ASSUME NEW e, NEW r, NEW ok, StoreJob(CompleteAllowed(e), CompleteReceived(e, r), ok)
    PROVE  HomeStep
  BY DEF StoreJob, CompleteReceived, HomeStep, SameHomes, ledger

\* route_one refuses, completes or hands over.
LEMMA RouterHomes == Router => HomeStep
  <1>1. ASSUME NEW src, NEW e, NEW ok, RouteIgnored(src, e, ok)
        PROVE  HomeStep
    BY <1>1, CompleteHomes DEF RouteIgnored
  <1>2. ASSUME NEW src, NEW e, NEW ok,
               RouteRefused(src, e, ok) \/ RouteNoCodex(src, e, ok)
                 \/ RouteOverloaded(src, e, ok)
        PROVE  HomeStep
    BY <1>2, RejectHomes DEF RouteRefused, RouteNoCodex, RouteOverloaded, RouterRejects
  <1>3. ASSUME NEW src, NEW e, NEW s, RouteToActor(src, e) \/ RouteEvicts(src, e, s)
        PROVE  HomeStep
    BY <1>3 DEF RouteToActor, RouteEvicts, HomeStep, SameHomes, ledger
  <1>4. EvictionDone => HomeStep
    BY DEF EvictionDone, HomeStep, SameHomes, ledger
  <1> QED
    BY <1>1, <1>2, <1>3, <1>4 DEF Router

\* Steps of an actor that only change the actor.
LEMMA QuietHomes ==
    ASSUME NEW s \in Scope,
           \/ Receive(s) \/ BeginBatch(s) \/ Debounce(s) \/ AcquirePermit(s) \/ TakeClient(s)
           \/ ResumeThread(s) \/ PrepareFails(s) \/ Subscribe(s) \/ SettleLoss(s)
           \/ AssembleFails(s) \/ SendStart(s) \/ StartAnswered(s) \/ StartUnknown(s)
           \/ RunEnds(s) \/ PersistFinal(s) \/ EpochEnds(s) \/ Leave(s)
    PROVE  HomeStep
  <1>1. SUFFICES UNCHANGED ledger
    BY <1>1 DEF ledger, HomeStep, SameHomes
  <1> QED
    BY DEF Receive, BeginBatch, Debounce, AcquirePermit, TakeClient, ResumeThread,
           PrepareFails, Subscribe, SettleLoss, AssembleFails, SendStart, StartAnswered,
           StartUnknown, RunEnds, PersistFinal, EpochEnds, Leave

\* An actor that settles an event without a turn.
LEMMA MediaHomes ==
    ASSUME NEW s \in Scope, NEW ok \in BOOLEAN,
           \/ PrepareMedia(s, ok) \/ RefuseControl(s, ok) \/ AnswerControl(s, ok)
           \/ Refuse(s, ok)
    PROVE  HomeStep
  BY RejectHomes, CompleteHomes DEF PrepareMedia, RefuseControl, AnswerControl, Refuse

\* resolve_turn writes the state, archive_active_thread forgets the thread.
LEMMA ResolveHomes == ASSUME NEW t, NEW res, ResolveTurn(t, res) PROVE HomeStep
  BY DEF ResolveTurn, HomeStep, SetsState

\* Archiving only forgets the active thread.
LEMMA ArchiveHomes == ASSUME NEW s \in Scope, ArchiveActiveThread(s) PROVE HomeStep
  BY DEF ArchiveActiveThread, HomeStep, PicksThread

\* /new archives; /resume takes a thread only if it was made for the scope.
LEMMA ControlHomes ==
    ASSUME NEW s \in Scope, NEW ok \in BOOLEAN, ExecuteControl(s, ok)
    PROVE  HomeStep
  <1>1. UNCHANGED ledger => HomeStep
    BY DEF ledger, HomeStep, SameHomes
  <1>2. ASSUME NEW i, ReactivateArchivedThread(s, i) PROVE HomeStep
    BY <1>2 DEF ReactivateArchivedThread, HomeStep, PicksThread
  <1>3. ASSUME NEW e, ControlEffect(s, e) PROVE HomeStep
    BY <1>1, <1>2, <1>3, ArchiveHomes DEF ControlEffect, NewControl, ResumeControl
  <1> QED
    BY <1>1, <1>3 DEF ExecuteControl, StoreJob

\* From the thread of a batch to its resolved turn.
LEMMA TurnHomes ==
    ASSUME NEW s \in Scope, NEW ok \in BOOLEAN,
           \/ AbandonThread(s, ok) \/ StartThread(s, ok) \/ Claim(s, ok)
           \/ MarkRunning(s, ok) \/ Conclude(s, ok)
    PROVE  HomeStep
  <1>1. UNCHANGED ledger => HomeStep
    BY DEF ledger, HomeStep, SameHomes
  <1>2. CASE AbandonThread(s, ok)
    BY <1>1, <1>2, ResolveHomes, ArchiveHomes DEF AbandonThread, StoreJob
  <1>3. CASE StartThread(s, ok)
    BY <1>1, <1>3 DEF StartThread, StoreJob, RecordActiveThread, HomeStep, MakesThread
  <1>4. CASE Claim(s, ok)
    <2>1. ASSUME NEW E, NEW t, BeginTurnAndClaim(s, E, t) PROVE HomeStep
      BY <2>1 DEF BeginTurnAndClaim, HomeStep, BeginsTurn
    <2> QED
      BY <1>1, <1>4, <2>1 DEF Claim, StoreJob
  <1>5. CASE MarkRunning(s, ok)
    BY <1>1, <1>5 DEF MarkRunning, StoreJob, SetTurnRunning, HomeStep, SetsState
  <1>6. CASE Conclude(s, ok)
    BY <1>1, <1>6, ResolveHomes DEF Conclude, StoreJob
  <1> QED
    BY <1>2, <1>3, <1>4, <1>5, <1>6

\* Codex and the life of the bridge process: the tables stay.
LEMMA ProcessHomes ==
    ASSUME \/ CodexReady \/ CodexDies \/ CodexGivesUp \/ Crash \/ RequestStop
           \/ Stopped \/ Start
           \/ \E t \in TurnId, res \in Outcomes : CodexFinishes(t, res)
    PROVE  HomeStep
  BY DEF CodexReady, CodexDies, CodexGivesUp, Crash, RequestStop, Stopped, Start, Gone,
         CodexFinishes, HomeStep, SameHomes, ledger

\* Hence every step.
LEMMA NextHomes == [Next]_vars => HomeStep
  <1>1. UNCHANGED vars => HomeStep
    BY DEF vars, HomeStep, SameHomes
  <1>2. ASSUME NEW s \in Scope, ActorStep(s) PROVE HomeStep
    BY <1>2, QuietHomes, MediaHomes, ControlHomes, TurnHomes DEF ActorStep
  <1> QED
    BY <1>1, <1>2, IntakeHomes, RouterHomes, ProcessHomes DEF Next

-----------------------------------------------------------------------------

\* Every turn runs on a thread that was made for its own scope, whatever /new, /resume,
\* abandoned threads, replays and restarts do to the active thread of a scope
\* (archive_active_thread, reactivate_archived_thread, begin_turn_and_claim_inbound).
THEOREM TurnsStayHome == Spec => []ThreadsStayHome
  <1>1. Init => HInv
    BY HomeInit
  <1>2. HInv /\ [Next]_vars => HInv'
    BY HomeKept, NextHomes
  <1>3. HInv => ThreadsStayHome
    BY DEF HInv, TurnHome, ThreadsStayHome
  <1> QED
    BY <1>1, <1>2, <1>3, PTL DEF Spec

-----------------------------------------------------------------------------
(* Part 2. What the recursive functions of the model compute.              *)

\* A set of numbers that is not empty has a least one.
LEMMA LeastNat ==
    ASSUME NEW T \in SUBSET Nat, T # {} PROVE \E n \in T : \A m \in T : n <= m
  <1>1. PICK n \in T : \A m \in T : ~ (<<m, n>> \in OpToRel(<, Nat))
    BY NatLessThanWellFounded, WFMin, Zenon
  <1>2. \A m \in T : ~ (m < n)
    BY <1>1 DEF OpToRel
  <1> QED
    BY <1>2

\* Induction up to n: what holds of 0, and of i when it holds of i - 1, holds of n.
\* The set T stands for the property, since a fact with an operator parameter cannot be used.
LEMMA UpTo ==
    ASSUME NEW n \in Nat, NEW T, 0 \in T, \A i \in 1..n : i - 1 \in T => i \in T
    PROVE  n \in T
  <1>1. SUFFICES ASSUME (0..n) \ T # {} PROVE FALSE
    OBVIOUS
  <1>2. PICK i \in (0..n) \ T : \A j \in (0..n) \ T : i <= j
    <2>1. (0..n) \ T \in SUBSET Nat
      OBVIOUS
    <2> QED BY <1>1, <2>1, LeastNat, Zenon
  <1>3. i \in 1..n /\ i - 1 \in 0..n /\ ~ (i <= i - 1)
    BY <1>2
  <1>4. i - 1 \in T
    BY <1>2, <1>3
  <1> QED
    BY <1>2, <1>3, <1>4

\* f starts with v and goes on with step.
Iterates(f, n, v, step) == \A i \in 0..n : f[i] = IF i = 0 THEN v ELSE step[i][f[i - 1]]

\* A recursive function on 0..n exists: the least m up to which no such function
\* is found would have one, made from that for m - 1.
LEMMA RecExists ==
    ASSUME NEW n \in Nat, NEW V, NEW v \in V, NEW step \in [1..n -> [V -> V]]
    PROVE  \E f \in [0..n -> V] : Iterates(f, n, v, step)
  <1> DEFINE Is(m, f) == \A i \in 0..m : f[i] = IF i = 0 THEN v ELSE step[i][f[i - 1]]
             T == {m \in 0..n : \E f \in [0..n -> V] : Is(m, f)}
  <1>1. 0 \in T
    <2> DEFINE f == [i \in 0..n |-> v]
    <2>1. f \in [0..n -> V] /\ Is(0, f)
      OBVIOUS
    <2> HIDE DEF f
    <2>2. 0 \in 0..n
      OBVIOUS
    <2> QED
      BY <2>1, <2>2
  <1>2. ASSUME NEW m \in 1..n, m - 1 \in T PROVE m \in T
    <2>1. PICK f \in [0..n -> V] : Is(m - 1, f)
      BY <1>2
    <2> DEFINE w == step[m][f[m - 1]]
               g == [f EXCEPT ![m] = w]
    <2>2. m - 1 \in 0..n /\ m \in 0..n /\ m # 0 /\ m - 1 # m
      OBVIOUS
    <2>3. f[m - 1] \in V
      BY <2>2
    <2>4. w \in V
      BY <2>3
    <2>5. g \in [0..n -> V]
      BY <2>4
    <2>6. ASSUME NEW i \in 0..m PROVE g[i] = IF i = 0 THEN v ELSE step[i][g[i - 1]]
      <3>1. CASE i = m
        <4>1. g[i] = w /\ g[i - 1] = f[i - 1]
          BY <3>1, <2>2
        <4> QED BY <4>1, <3>1, <2>2
      <3>2. CASE i # m
        <4>1. i \in 0..(m - 1) /\ i \in 0..n
          BY <3>2
        <4>2. g[i] = f[i]
          BY <3>2, <4>1
        <4>3. i # 0 => g[i - 1] = f[i - 1]
          BY <4>1
        <4> QED
          BY <4>1, <4>2, <4>3, <2>1
      <3> QED BY <3>1, <3>2
    <2> QED
      BY <2>2, <2>5, <2>6
  <1> HIDE DEF T
  <1>3. n \in T
    BY <1>1, <1>2, UpTo, Zenon
  <1>4. PICK f \in [0..n -> V] : Is(n, f)
    BY <1>3 DEF T
  <1> QED
    BY <1>4 DEF Iterates

\* f[i] is what the first i elements of q leave.
Filters(f, n, q, S) ==
    f = [i \in 0..n |-> IF i = 0 THEN <<>>
                        ELSE IF q[i] \in S THEN Append(f[i - 1], q[i]) ELSE f[i - 1]]

\* In particular the function by which Filtered is defined exists.
LEMMA FilterExists ==
    ASSUME NEW n \in Nat, NEW V, NEW q, NEW S, <<>> \in V,
           \A r \in V : \A i \in 1..n : q[i] \in S => Append(r, q[i]) \in V
    PROVE  \E f : Filters(f, n, q, S)
  <1> DEFINE step == [i \in 1..n |-> [r \in V |-> IF q[i] \in S THEN Append(r, q[i]) ELSE r]]
  <1>1. step \in [1..n -> [V -> V]]
    OBVIOUS
  <1>2. \A i \in 1..n : \A r \in V : step[i][r] = IF q[i] \in S THEN Append(r, q[i]) ELSE r
    OBVIOUS
  <1> HIDE DEF step
  <1>3. PICK g \in [0..n -> V] : \A i \in 0..n : g[i] = IF i = 0 THEN <<>> ELSE step[i][g[i - 1]]
    <2>1. PICK v \in V : v = <<>>
      OBVIOUS
    <2>2. \E g \in [0..n -> V] : Iterates(g, n, v, step)
      BY <1>1, RecExists, Zenon
    <2> QED
      BY <2>1, <2>2 DEF Iterates
  <1> DEFINE h == [i \in 0..n |-> IF i = 0 THEN <<>>
                                      ELSE IF q[i] \in S THEN Append(g[i - 1], q[i])
                                      ELSE g[i - 1]]
  <1>4. ASSUME NEW i \in 0..n PROVE g[i] = h[i]
    <2>1. CASE i = 0
      BY <2>1, <1>3
    <2>2. CASE i # 0
      <3>1. i \in 1..n /\ i - 1 \in 0..n
        BY <2>2
      <3>2. g[i - 1] \in V
        BY <3>1
      <3>3. g[i] = step[i][g[i - 1]]
        BY <1>3, <2>2
      <3> QED
        BY <3>1, <3>2, <3>3, <1>2, <2>2
    <2> QED
      BY <2>1, <2>2
  <1>5. g = h
    BY <1>4
  <1> QED
    BY <1>5 DEF Filters

\* What Filtered keeps comes from its queue and its set; it keeps the head of the
\* queue when the set has it.
LEMMA FilteredIn ==
    ASSUME NEW X, NEW q \in Seq(X), NEW S
    PROVE  /\ Filtered(q, S) \in Seq(X \cap S)
           /\ q # <<>> /\ q[1] \in S => Filtered(q, S) # <<>>
  <1> DEFINE f == CHOOSE f : Filters(f, Len(q), q, S)
  <1>1. Len(q) \in Nat /\ <<>> \in Seq(X \cap S) /\ \A i \in 1..Len(q) : q[i] \in X
    OBVIOUS
  <1>2. \A r \in Seq(X \cap S) : \A i \in 1..Len(q) :
            q[i] \in S => Append(r, q[i]) \in Seq(X \cap S)
    BY <1>1
  <1>3. \E g : Filters(g, Len(q), q, S)
    <2>1. PICK V : V = Seq(X \cap S)
      OBVIOUS
    <2>2. <<>> \in V /\ \A r \in V : \A i \in 1..Len(q) : q[i] \in S => Append(r, q[i]) \in V
      BY <2>1, <1>1, <1>2
    <2> QED
      BY <1>1, <2>2, FilterExists, Zenon
  <1>4. Filters(f, Len(q), q, S)
    BY <1>3
  <1>5. Filtered(q, S) = f[Len(q)]
    BY DEF Filtered, Filters
  <1> HIDE DEF f
  <1>6. \A i \in 0..Len(q) :
            f[i] = IF i = 0 THEN <<>>
                   ELSE IF q[i] \in S THEN Append(f[i - 1], q[i]) ELSE f[i - 1]
    BY <1>4 DEF Filters
  <1> DEFINE P(i) == f[i] \in Seq(X \cap S) /\ (i # 0 /\ q[1] \in S => f[i] # <<>>)
             T == {i \in 0..Len(q) : P(i)}
  <1>7. 0 \in T
    <2>1. 0 \in 0..Len(q)
      BY <1>1
    <2>2. f[0] = <<>>
      BY <1>6, <2>1
    <2>3. <<>> \in Seq(X \cap S)
      OBVIOUS
    <2>4. f[0] \in Seq(X \cap S)
      BY <2>2, <2>3, Zenon
    <2> QED
      BY <2>1, <2>4
  <1>8. ASSUME NEW i \in 1..Len(q), i - 1 \in T PROVE i \in T
    <2>1. i \in 0..Len(q) /\ i - 1 \in 0..Len(q) /\ i # 0 /\ q[i] \in X
      BY <1>1
    <2>2. f[i - 1] \in Seq(X \cap S) /\ (i - 1 # 0 /\ q[1] \in S => f[i - 1] # <<>>)
      BY <1>8
    <2>3. f[i] = IF q[i] \in S THEN Append(f[i - 1], q[i]) ELSE f[i - 1]
      BY <1>6, <2>1
    <2>4. f[i] \in Seq(X \cap S)
      BY <2>1, <2>2, <2>3
    <2>5. q[1] \in S => f[i] # <<>>
      BY <2>1, <2>2, <2>3
    <2> QED
      BY <2>1, <2>4, <2>5
  <1> HIDE DEF T
  <1>9. Len(q) \in T
    BY <1>7, <1>8, <1>1, UpTo, Zenon
  <1>10. P(Len(q))
    BY <1>9 DEF T
  <1>11. q # <<>> => Len(q) # 0
    OBVIOUS
  <1> QED
    BY <1>5, <1>10, <1>11

\* Unique drops messages but never all of them: AcquirePermit goes on with a batch.
LEMMA UniqueIn ==
    ASSUME NEW X, NEW q \in Seq(X), q # <<>> PROVE Unique(q) \in Seq(X) /\ Unique(q) # <<>>
  <1> DEFINE I == [i \in 1..Len(q) |-> i]
             S == {i \in 1..Len(q) : \A j \in 1..(i - 1) : q[j] # q[i]}
             firsts == Filtered(I, S)
  <1>1. Len(q) \in Nat \ {0}
    OBVIOUS
  <1>2. I \in Seq(1..Len(q)) /\ I # <<>> /\ I[1] = 1
    BY <1>1
  <1>3. 1 \in S
    BY <1>1
  <1>4. firsts \in Seq((1..Len(q)) \cap S) /\ firsts # <<>>
    <2> HIDE DEF I, S
    <2> QED BY <1>2, <1>3, FilteredIn
  <1>5. Unique(q) = [k \in 1..Len(firsts) |-> q[firsts[k]]]
    BY DEF Unique
  <1> HIDE DEF firsts
  <1>6. Len(firsts) \in Nat \ {0} /\ \A k \in 1..Len(firsts) : firsts[k] \in 1..Len(q)
    BY <1>4
  <1>7. \A k \in 1..Len(firsts) : q[firsts[k]] \in X
    BY <1>6
  <1> QED
    BY <1>5, <1>6, <1>7

-----------------------------------------------------------------------------
(* Part 3. The rows and the actors: an inductive invariant.                *)

\* The events of a scope.
Of(s) == {e \in Event : ScopeOf[e] = s}

\* The steps at which an actor has a turn of its own, and those at which it has a batch.
TurnSteps == {"assemble", "sent", "mark", "run", "final", "resolve"}
Batched == {"debounce", "permit", "client", "resume", "abandon", "fresh", "subscribe", "claim",
            "lost"}

\* An actor holds only events of its own scope.
ActorOf(s) == [live: BOOLEAN, cancel: BOOLEAN, box: Seq(Of(s)), pc: ActorSteps,
               shown: {"idle", "failed", "busy"}, item: Of(s) \cup {None}, batch: Seq(Of(s)),
               later: Of(s) \cup {None}, refuse: Seq(Of(s)), why: Refusals \cup {None},
               turn: TurnId \cup {NoTurn}, epoch: Nat, event: Resolutions \cup {None},
               res: Resolutions \cup {None}, wait: BOOLEAN]

\* What an actor has in hand at each step.
StepData(a) ==
    /\ a.pc \in {"got", "control", "answer", "media"} => a.item # None
    /\ a.pc = "media" => KindOf[a.item] = "media"
    /\ a.pc \in Batched => a.batch # <<>>
    /\ a.pc = "refuse" => a.refuse # <<>> /\ a.why # None
    /\ a.pc \in {"final", "resolve"} => a.res # None

\* The turn of an actor is an open one of its scope; the rows it is about to send
\* were never sent, and those it has sent were sent once.
OwnTurn(s, a) ==
    /\ a.pc \in TurnSteps =>
          /\ a.turn \in TurnId
          /\ turns[a.turn].scope = s /\ turns[a.turn].state \in Unresolved
    /\ a.pc = "resolve" => a.turn \in final \/ Empty(a)
    /\ a.pc = "assemble" =>
          \A e \in Elems(a.batch) : inbound[e].turn = a.turn /\ submitted[e] = 0
    /\ a.pc = "sent" =>
          \A e \in Elems(a.batch) : inbound[e].turn = a.turn /\ submitted[e] = 1

ActorOK(s) == actor[s] \in ActorOf(s) /\ StepData(actor[s]) /\ OwnTurn(s, actor[s])
ActorsOK == actor = [s \in Scope |-> actor[s]] /\ \A s \in Scope : ActorOK(s)

\* What has not been claimed was not submitted, and what was submitted does not come
\* back once its row is swept: this is what makes SubmittedOnce inductive.
Fresh ==
    \A e \in Event :
        /\ inbound[e].state = "received" => submitted[e] = 0
        /\ inbound[e].state = "absent" => submitted[e] = 0 \/ delivered[e] = MaxDeliveries

\* The rows, and everything outside the process.
RowTypes ==
    /\ inbound \in [Event -> InboundRow]
    /\ turns \in [TurnId -> TurnRow]
    /\ submitted \in [Event -> {0, 1}]
    /\ delivered \in [Event -> 0..MaxDeliveries]
    /\ final \subseteq TurnId

RowsOK == RowTypes /\ ScanPasses /\ Fresh /\ SettledIsAnswered

\* The threads and the memory of the process.
MemoryOK ==
    /\ thread \in [Scope -> 0..MaxThreads]
    /\ made \in Seq(Scope) /\ Len(made) <= MaxThreads
    /\ seen \in Seq(Event)
    /\ proc \in {"up", "stopping", "down"}
    /\ queue \in Seq(Event) /\ retries \in Seq(Event)
    /\ eviction \in [victim: Scope, event: Event] \cup {NoEviction}
    /\ codex \in [epoch: Nat, client: BOOLEAN, terminal: BOOLEAN]
    /\ exec \subseteq TurnId
    /\ faults \in 0..MaxFaults

SInv == RowsOK /\ MemoryOK /\ ActorsOK

-----------------------------------------------------------------------------
\* The invariant is worth having: it holds what the runs check.
LEMMA SInvMeans ==
    SInv => TypeOK /\ SubmittedOnce /\ ScanPasses /\ SettledIsAnswered
  <1> SUFFICES ASSUME SInv PROVE TypeOK /\ SubmittedOnce /\ ScanPasses /\ SettledIsAnswered
    OBVIOUS
  <1> USE DEF SInv
  <1>1. LedgerTypeOK
    BY DEF RowsOK, RowTypes, MemoryOK, LedgerTypeOK
  <1>2. submitted \in [Event -> Nat] /\ SubmittedOnce
    <2>1. submitted \in [Event -> {0, 1}] /\ inbound \in [Event -> InboundRow]
          /\ MessagesCanonical
      BY DEF RowsOK, RowTypes, ScanPasses
    <2>2. ASSUME NEW e \in Event, NEW d \in Event, MsgOf[e] = MsgOf[d], e # d
          PROVE  \E c \in {e, d} : inbound[c].state \in {"rejected", "absent"}
      BY <2>1, <2>2 DEF MessagesCanonical, Rows, InboundRow, InboundStates
    <2> QED
      BY <2>1, <2>2 DEF SubmittedOnce
  <1>3. eviction \in [victim: Scope \cup {None}, event: Event \cup {None}]
    BY DEF MemoryOK, NoEviction
  <1>4. ASSUME NEW s \in Scope PROVE actor[s] \in Actor
    <2>1. Seq(Of(s)) \subseteq Seq(Event)
      BY DEF Of
    <2>2. actor[s] \in ActorOf(s)
      BY DEF ActorsOK, ActorOK
    <2> QED
      BY <2>1, <2>2 DEF ActorOf, Actor, Of
  <1>5. actor \in [Scope -> Actor]
    BY <1>4 DEF ActorsOK
  <1>6. MemoryOK /\ RowTypes /\ ScanPasses /\ SettledIsAnswered
    BY DEF RowsOK
  <1> QED
    BY <1>1, <1>2, <1>3, <1>5, <1>6 DEF TypeOK, MemoryOK, RowTypes

\* A store without rows and a process without actors.
LEMMA SInit == Init => SInv
  <1> SUFFICES ASSUME Init PROVE SInv
    OBVIOUS
  <1> USE LedgerAssumption, TurnsAssumption
  <1> USE DEF None, NoTurn
  <1>1. RowTypes
    <2>1. Cardinality(Event) \in Nat
      BY FS_CardinalityType
    <2>2. NoTurnRow \in TurnRow
      BY <2>1 DEF NoTurnRow, TurnRow
    <2>3. NoInbound \in InboundRow
      BY DEF NoInbound, InboundRow, InboundStates, Reasons, Refusals
    <2> QED
      BY <2>2, <2>3 DEF Init, LedgerInit, RowTypes
  <1>2. \A e \in Event : inbound[e] = NoInbound
    BY DEF Init, LedgerInit
  <1>3. ScanPasses
    <2>1. \A X : "absent" \notin X => Rows(X) = {}
      BY <1>2 DEF Rows, NoInbound
    <2>2. Rows(InboundStates \ {"absent"}) = {} /\ Rows({"received"}) = {}
          /\ Rows({"received", "accepted", "completed"}) = {}
      BY <2>1
    <2>3. Cardinality({}) = 0
      BY FS_EmptySet
    <2>4. \A e \in Event : RowValid(e) /\ ReplyValid(e)
      BY <1>2 DEF RowValid, ReplyValid, NoInbound
    <2>5. \A t \in TurnId : GroupValid(t)
      BY DEF GroupValid, Init, LedgerInit, NoTurnRow, Unresolved, Resolutions
    <2>6. Cardinality(Rows(InboundStates \ {"absent"})) <= MaxRows
      <3>1. Cardinality(Rows(InboundStates \ {"absent"})) = 0
        BY <2>2, <2>3, Zenon
      <3> QED
        BY <3>1
    <2>7. Cardinality(Rows({"received"})) <= MaxReceived
      <3>1. Cardinality(Rows({"received"})) = 0
        BY <2>2, <2>3, Zenon
      <3> QED
        BY <3>1
    <2>8. MessagesCanonical
      BY <2>2 DEF MessagesCanonical
    <2> QED
      BY <2>4, <2>5, <2>6, <2>7, <2>8 DEF ScanPasses
  <1>4. Fresh
    BY DEF Fresh, Init
  <1>5. SettledIsAnswered
    BY <1>2 DEF SettledIsAnswered, Rows, NoInbound
  <1>6. MemoryOK
    BY DEF MemoryOK, Init, LedgerInit
  <1>7. ActorsOK
    <2>1. ASSUME NEW s \in Scope PROVE ActorOK(s)
      <3>1. actor[s] = NoActor
        BY DEF Init
      <3>2. NoActor \in ActorOf(s)
        BY DEF NoActor, ActorOf, ActorSteps
      <3> QED
        BY <3>1, <3>2 DEF ActorOK, StepData, OwnTurn, NoActor, TurnSteps, Batched
    <2> QED
      BY <2>1 DEF ActorsOK, Init
  <1> QED
    BY <1>1, <1>3, <1>4, <1>5, <1>6, <1>7 DEF SInv, RowsOK

-----------------------------------------------------------------------------
(* What a step may do to the rows.                                         *)

NothingHappens == UNCHANGED <<inbound, turns, submitted, final, delivered>>
Redelivers(e) ==
    /\ delivered[e] < MaxDeliveries /\ delivered' = [delivered EXCEPT ![e] = @ + 1]
    /\ UNCHANGED <<inbound, turns, submitted, final>>
Registers(e) ==
    /\ delivered[e] < MaxDeliveries /\ delivered' = [delivered EXCEPT ![e] = @ + 1]
    /\ Canonical(e) = {} /\ HasRoom
    /\ inbound' = [inbound EXCEPT ![e].state = "received"]
    /\ UNCHANGED <<turns, submitted, final>>
Rejects(e, why) ==
    /\ why \in Refusals /\ inbound[e].state = "received"
    /\ inbound' = [inbound EXCEPT ![e] = Replied(Refused(@, why), why)]
    /\ UNCHANGED <<turns, submitted, final, delivered>>
Completes(e, reply) ==
    /\ CompleteAllowed(e)
    /\ reply = "control" \/ (reply = None /\ KindOf[e] \in {"media", "ignored"})
    /\ inbound' = [inbound EXCEPT ![e] = Replied([@ EXCEPT !.state = "completed"], reply)]
    /\ UNCHANGED <<turns, submitted, final, delivered>>
Sweeps(e) ==
    /\ inbound[e].state \in {"completed", "rejected"}
    /\ inbound' = [inbound EXCEPT ![e] = NoInbound]
    /\ delivered' = [d \in Event |-> IF MsgOf[d] = MsgOf[e] THEN MaxDeliveries ELSE delivered[d]]
    /\ UNCHANGED <<turns, submitted, final>>
Begins(s, C, t) ==
    /\ C # {} /\ C \subseteq Of(s) /\ C \subseteq Rows({"received"})
    /\ turns[t].state = "absent"
    /\ \E i \in 0..MaxThreads :
          turns' = [turns EXCEPT ![t] = [state |-> "starting", scope |-> s,
                                         thread |-> i, count |-> Cardinality(C)]]
    /\ inbound' = [e \in Event |-> IF e \in C
                                   THEN [inbound[e] EXCEPT !.state = "accepted", !.turn = t]
                                   ELSE inbound[e]]
    /\ UNCHANGED <<submitted, final, delivered>>
Open(s, t) == t \in TurnId /\ turns[t].scope = s /\ turns[t].state \in Unresolved
Runs(s, t) ==
    /\ Open(s, t)
    /\ turns' = [turns EXCEPT ![t].state = "running"]
    /\ UNCHANGED <<inbound, submitted, final, delivered>>
Resolves(s, t, res) ==
    /\ Open(s, t) /\ res \in Resolutions
    /\ t \in final \/ res = "interrupted" \/ (t \in Quiet /\ res = "completed")
    /\ turns' = [turns EXCEPT ![t].state = res]
    /\ inbound' = [e \in Event |->
                      IF e \in Linked(t)
                      THEN [inbound[e] EXCEPT
                              !.state = IF res = "completed" THEN "completed" ELSE "rejected",
                              !.reason = TurnReason[res]]
                      ELSE inbound[e]]
    /\ UNCHANGED <<submitted, final, delivered>>
Counts(s, t, E, n) ==
    /\ Open(s, t) /\ n \in {0, 1} /\ E \subseteq Linked(t)
    /\ submitted' = [e \in Event |-> IF e \in E THEN n ELSE submitted[e]]
    /\ UNCHANGED <<inbound, turns, final, delivered>>
Finals(t) ==
    /\ t \in TurnId /\ final' = final \cup {t}
    /\ UNCHANGED <<inbound, turns, submitted, delivered>>

Anyone ==
    \/ NothingHappens
    \/ \E e \in Event : \/ Redelivers(e) \/ Registers(e) \/ Sweeps(e)
                        \/ \E why : Rejects(e, why)
                        \/ \E reply : Completes(e, reply)
OfScope(s) ==
    \/ Anyone
    \/ \E t \in TurnId : \/ Runs(s, t) \/ Finals(t)
                         \/ \E C : Begins(s, C, t)
                         \/ \E res : Resolves(s, t, res)
                         \/ \E E, n : Counts(s, t, E, n)

-----------------------------------------------------------------------------
\* Fewer rows of every kind fill the tables less.
LEMMA FewerRows ==
    ASSUME NEW X, NEW n \in Nat, Rows(X)' \subseteq Rows(X), Cardinality(Rows(X)) <= n
    PROVE  Cardinality(Rows(X)') <= n
  <1>1. IsFiniteSet(Rows(X))
    BY LedgerAssumption, FS_Subset DEF Rows
  <1>2. IsFiniteSet(Rows(X)') /\ Cardinality(Rows(X)') <= Cardinality(Rows(X))
    BY <1>1, FS_Subset
  <1> QED
    BY <1>1, <1>2, FS_CardinalityType

\* When no row enters a state of the three kinds the scan counts, the two limits and
\* the one row per message of inbound_scan hold on.
LEMMA TablesShrink ==
    ASSUME ScanPasses,
           \A e \in Event :
              /\ inbound'[e].state \in InboundStates \ {"absent"} =>
                     inbound[e].state \in InboundStates \ {"absent"}
              /\ inbound'[e].state = "received" => inbound[e].state = "received"
              /\ inbound'[e].state \in {"received", "accepted", "completed"} =>
                    inbound[e].state \in {"received", "accepted", "completed"}
    PROVE  /\ Cardinality(Rows(InboundStates \ {"absent"})') <= MaxRows
           /\ Cardinality(Rows({"received"})') <= MaxReceived
           /\ MessagesCanonical'
  <1> USE LedgerAssumption
  <1>1. Rows(InboundStates \ {"absent"})' \subseteq Rows(InboundStates \ {"absent"})
    BY DEF Rows
  <1>2. Rows({"received"})' \subseteq Rows({"received"})
    BY DEF Rows
  <1>3. Rows({"received", "accepted", "completed"})' \subseteq
        Rows({"received", "accepted", "completed"})
    BY DEF Rows
  <1>4. MessagesCanonical'
    BY <1>3 DEF ScanPasses, MessagesCanonical
  <1>5. /\ MaxRows \in Nat /\ MaxReceived \in Nat
        /\ Cardinality(Rows(InboundStates \ {"absent"})) <= MaxRows
        /\ Cardinality(Rows({"received"})) <= MaxReceived
    BY DEF ScanPasses
  <1> QED
    BY <1>1, <1>2, <1>4, <1>5, FewerRows

-----------------------------------------------------------------------------
(* Part 4. Each of these keeps the rows in order.                          *)

\* A step that rewrites one row, and leaves it without a turn.
LEMMA OneRow ==
    ASSUME RowsOK, RowTypes', NEW e \in Event,
           \A d \in Event \ {e} : inbound'[d] = inbound[d],
           UNCHANGED <<turns, submitted, final>>,
           \A d \in Event \ {e} : delivered'[d] = delivered[d] \/ delivered'[d] = MaxDeliveries,
           Cardinality(Rows(InboundStates \ {"absent"})') <= MaxRows,
           Cardinality(Rows({"received"})') <= MaxReceived,
           MessagesCanonical',
           RowValid(e)', ReplyValid(e)',
           inbound'[e].turn = NoTurn,
           \A t \in TurnId : inbound[e].turn = t => turns[t].state \notin Unresolved,
           inbound'[e].state = "received" => submitted[e] = 0,
           inbound'[e].state = "absent" => delivered'[e] = MaxDeliveries,
           inbound'[e].state \in {"completed", "rejected"} =>
               inbound'[e].reply # None \/ KindOf[e] \in {"media", "ignored"}
    PROVE  RowsOK'
  <1>1. RowTypes /\ ScanPasses /\ Fresh /\ SettledIsAnswered
    BY DEF RowsOK
  <1>2. ASSUME NEW d \in Event PROVE (RowValid(d) /\ ReplyValid(d))'
    <2>1. CASE d = e
      BY <2>1
    <2>2. CASE d # e
      <3>1. RowValid(d) /\ ReplyValid(d) /\ inbound'[d] = inbound[d]
        BY <2>2, <1>1 DEF ScanPasses
      <3> QED
        BY <3>1 DEF RowValid, ReplyValid, Associated
    <2> QED
      BY <2>1, <2>2
  <1>3. ASSUME NEW t \in TurnId PROVE GroupValid(t)'
    <2>1. GroupValid(t) /\ t # NoTurn
      BY <1>1 DEF ScanPasses, TurnId, NoTurn
    <2>2. Linked(t)' = Linked(t) \ {e}
      BY <2>1 DEF Linked
    <2>3. turns[t].state \in Unresolved => e \notin Linked(t)
      BY DEF Linked
    <2>4. \A X : Linked(t) \subseteq Rows(X) => Linked(t)' \subseteq Rows(X)'
      BY <2>2 DEF Rows, Linked
    <2>5. IsFiniteSet(Linked(t))
      BY LedgerAssumption, FS_Subset DEF Linked
    <2>6. /\ Cardinality(Linked(t)') <= Cardinality(Linked(t))
          /\ Cardinality(Linked(t)') \in Nat /\ Cardinality(Linked(t)) \in Nat
      BY <2>2, <2>5, FS_Subset, FS_CardinalityType
    <2>7. turns[t] \in TurnRow /\ turns'[t] = turns[t]
      BY <1>1 DEF RowTypes
    <2>8. turns'[t].state \in Unresolved => UnresolvedMarkers(t)'
      <3>1. turns'[t].state \in Unresolved => Linked(t)' = Linked(t) /\ UnresolvedMarkers(t)
        BY <2>1, <2>2, <2>3, <2>7 DEF GroupValid
      <3> QED
        BY <3>1, <2>4, <2>7 DEF UnresolvedMarkers
    <2>9. turns'[t].state \in Resolutions => ResolvedMarkers(t)'
      <3>1. turns'[t].state \in Resolutions => ResolvedMarkers(t)
        BY <2>1, <2>7 DEF GroupValid
      <3>2. turns[t].count \in Int
        BY <2>7 DEF TurnRow
      <3> QED
        BY <3>1, <3>2, <2>4, <2>6, <2>7 DEF ResolvedMarkers
    <2> QED
      BY <2>8, <2>9 DEF GroupValid
  <1>4. ScanPasses'
    BY <1>2, <1>3 DEF ScanPasses
  <1>5. Fresh'
    BY <1>1 DEF Fresh
  <1>6. SettledIsAnswered'
    BY <1>1 DEF SettledIsAnswered, Rows
  <1> QED
    BY <1>4, <1>5, <1>6 DEF RowsOK

\* reject_received.
LEMMA RejectsKeeps ==
    ASSUME RowsOK, NEW e \in Event, NEW why, Rejects(e, why)
    PROVE  RowsOK'
  <1> USE DEF None, NoTurn
  <1> DEFINE r == inbound[e]
             r2 == [r EXCEPT !.state = "rejected", !.reason = why, !.reply = why]
  <1>1. RowTypes /\ ScanPasses
    BY DEF RowsOK
  <1>2. r \in InboundRow /\ r.state = "received" /\ r.turn = NoTurn /\ why \in Refusals
    BY <1>1 DEF RowTypes, ScanPasses, RowValid, Rejects
  <1>3. inbound' = [inbound EXCEPT ![e] = r2]
    BY DEF Rejects, Replied, Refused
  <1>4. r2 \in InboundRow
    BY <1>2 DEF InboundRow, InboundStates, Reasons
  <1>5. RowTypes'
    BY <1>1, <1>3, <1>4 DEF RowTypes, Rejects
  <1>6. /\ r2.state = "rejected" /\ r2.turn = NoTurn /\ r2.reason = why /\ r2.reply = why
        /\ why # None
    BY <1>2 DEF InboundRow, Refusals
  <1> HIDE DEF r, r2
  <1>7. inbound'[e] = r2 /\ \A d \in Event \ {e} : inbound'[d] = inbound[d]
    BY <1>1, <1>3 DEF RowTypes
  <1>8. UNCHANGED <<turns, submitted, final, delivered>>
    BY DEF Rejects
  <1>9. RowValid(e)' /\ ReplyValid(e)'
    BY <1>6, <1>7 DEF RowValid, ReplyValid
  <1>10. /\ Cardinality(Rows(InboundStates \ {"absent"})') <= MaxRows
         /\ Cardinality(Rows({"received"})') <= MaxReceived
         /\ MessagesCanonical'
    BY <1>1, <1>2, <1>6, <1>7, TablesShrink DEF r, InboundStates
  <1>11. \A t \in TurnId : inbound[e].turn # t
    BY <1>2 DEF TurnId, r
  <1> QED
    BY <1>5, <1>6, <1>7, <1>8, <1>9, <1>10, <1>11, OneRow

\* complete_received_without_turn and complete_received_and_enqueue_control_reply.
LEMMA CompletesKeeps ==
    ASSUME RowsOK, NEW e \in Event, NEW reply, Completes(e, reply)
    PROVE  RowsOK'
  <1> USE DEF None, NoTurn
  <1> DEFINE r == inbound[e]
             r2 == [r EXCEPT !.state = "completed", !.reply = reply]
  <1>1. RowTypes /\ ScanPasses
    BY DEF RowsOK
  <1>2. /\ r \in InboundRow /\ r.state \in {"received", "completed"}
        /\ r.turn = NoTurn /\ r.reason = "none" /\ reply \in {"control", "none"}
    BY <1>1 DEF RowTypes, ScanPasses, RowValid, Completes, CompleteAllowed
  <1>3. inbound' = [inbound EXCEPT ![e] = r2]
    BY DEF Completes, Replied
  <1>4. r2 \in InboundRow
    BY <1>2 DEF InboundRow, InboundStates, Reasons
  <1>5. RowTypes'
    BY <1>1, <1>3, <1>4 DEF RowTypes, Completes
  <1>6. /\ r2.state = "completed" /\ r2.turn = NoTurn /\ r2.reason = "none" /\ r2.reply = reply
        /\ reply # "none" \/ KindOf[e] \in {"media", "ignored"}
    BY <1>2 DEF InboundRow, Completes
  <1> HIDE DEF r, r2
  <1>7. inbound'[e] = r2 /\ \A d \in Event \ {e} : inbound'[d] = inbound[d]
    BY <1>1, <1>3 DEF RowTypes
  <1>8. UNCHANGED <<turns, submitted, final, delivered>>
    BY DEF Completes
  <1>9. RowValid(e)' /\ ReplyValid(e)'
    BY <1>2, <1>6, <1>7 DEF RowValid, ReplyValid
  <1>10. /\ Cardinality(Rows(InboundStates \ {"absent"})') <= MaxRows
         /\ Cardinality(Rows({"received"})') <= MaxReceived
         /\ MessagesCanonical'
    BY <1>1, <1>2, <1>6, <1>7, TablesShrink DEF r, InboundStates
  <1>11. \A t \in TurnId : inbound[e].turn # t
    BY <1>2 DEF TurnId, r
  <1> QED
    BY <1>5, <1>6, <1>7, <1>8, <1>9, <1>10, <1>11, OneRow

\* sweep_inbound: a settled row goes, and its message is not delivered any more.
LEMMA SweepsKeeps ==
    ASSUME RowsOK, NEW e \in Event, Sweeps(e)
    PROVE  RowsOK'
  <1> USE DEF None, NoTurn
  <1>1. RowTypes /\ ScanPasses
    BY DEF RowsOK
  <1>2. inbound[e] \in InboundRow /\ inbound[e].state \in {"completed", "rejected"}
    BY <1>1 DEF RowTypes, Sweeps
  <1>3. NoInbound \in InboundRow
    BY DEF NoInbound, InboundRow, InboundStates, Reasons
  <1>4. inbound' = [inbound EXCEPT ![e] = NoInbound] /\ UNCHANGED <<turns, submitted, final>>
    BY DEF Sweeps
  <1>5. /\ delivered' \in [Event -> 0..MaxDeliveries] /\ delivered'[e] = MaxDeliveries
        /\ \A d \in Event : delivered'[d] = delivered[d] \/ delivered'[d] = MaxDeliveries
    BY <1>1, TurnsAssumption DEF RowTypes, Sweeps
  <1>6. RowTypes'
    BY <1>1, <1>3, <1>4, <1>5 DEF RowTypes
  <1>7. inbound'[e] = NoInbound /\ \A d \in Event \ {e} : inbound'[d] = inbound[d]
    BY <1>1, <1>4 DEF RowTypes
  <1>8. inbound'[e].state = "absent" /\ inbound'[e].turn = NoTurn
    BY <1>7 DEF NoInbound
  <1>9. RowValid(e)' /\ ReplyValid(e)'
    BY <1>7 DEF RowValid, ReplyValid, NoInbound
  <1>10. /\ Cardinality(Rows(InboundStates \ {"absent"})') <= MaxRows
         /\ Cardinality(Rows({"received"})') <= MaxReceived
         /\ MessagesCanonical'
    BY <1>1, <1>2, <1>7, <1>8, TablesShrink DEF InboundStates
  <1>11. \A t \in TurnId : inbound[e].turn = t => turns[t].state \notin Unresolved
    BY <1>1, <1>2 DEF ScanPasses, RowValid, Associated, TurnId, Unresolved, Resolutions
  <1> QED
    BY <1>4, <1>5, <1>6, <1>7, <1>8, <1>9, <1>10, <1>11, OneRow

\* register_inbound of a delivery nothing is known of, while there is room.
LEMMA RegistersKeeps ==
    ASSUME RowsOK, NEW e \in Event, Registers(e)
    PROVE  RowsOK'
  <1> USE DEF None, NoTurn
  <1> DEFINE r == inbound[e]
             r2 == [r EXCEPT !.state = "received"]
             live == {"received", "accepted", "completed"}
  <1>1. RowTypes /\ ScanPasses /\ Fresh
    BY DEF RowsOK
  <1>2. /\ r \in InboundRow /\ r.state = "absent" /\ submitted[e] = 0
        /\ \A c \in Rows(live) : MsgOf[c] # MsgOf[e]
    <2>1. r \in InboundRow
      BY <1>1 DEF RowTypes
    <2>2. r.state = "absent" /\ \A c \in Rows(live) : MsgOf[c] # MsgOf[e]
      BY DEF Registers, Canonical
    <2>3. submitted[e] = 0 \/ delivered[e] = MaxDeliveries
      BY <1>1, <2>2 DEF Fresh
    <2>4. MaxDeliveries \in Nat /\ delivered[e] \in Nat /\ delivered[e] < MaxDeliveries
      BY <1>1, TurnsAssumption DEF RowTypes, Registers
    <2> QED
      BY <2>1, <2>2, <2>3, <2>4
  <1>3. r.turn = NoTurn /\ r.reason = "none" /\ r.reply = "none"
    BY <1>1, <1>2 DEF ScanPasses, RowValid, ReplyValid, Associated
  <1>4. inbound' = [inbound EXCEPT ![e] = r2]
    BY DEF Registers
  <1>5. r2 \in InboundRow
    BY <1>2 DEF InboundRow, InboundStates
  <1>6. /\ delivered' \in [Event -> 0..MaxDeliveries]
        /\ \A d \in Event \ {e} : delivered'[d] = delivered[d]
    BY <1>1, TurnsAssumption DEF RowTypes, Registers
  <1>7. RowTypes'
    BY <1>1, <1>4, <1>5, <1>6 DEF RowTypes, Registers
  <1>8. /\ r2.state = "received" /\ r2.turn = NoTurn /\ r2.reason = "none" /\ r2.reply = "none"
    BY <1>2, <1>3 DEF InboundRow
  <1> HIDE DEF r, r2
  <1>9. inbound'[e] = r2 /\ \A d \in Event \ {e} : inbound'[d] = inbound[d]
    BY <1>1, <1>4 DEF RowTypes
  <1>10. UNCHANGED <<turns, submitted, final>>
    BY DEF Registers
  <1>11. RowValid(e)' /\ ReplyValid(e)'
    BY <1>8, <1>9 DEF RowValid, ReplyValid
  <1>12. ASSUME NEW X, "received" \in X, "absent" \notin X, NEW n \in Nat,
                Cardinality(Rows(X)) < n
         PROVE  Cardinality(Rows(X)') <= n
    <2>1. Rows(X)' = Rows(X) \cup {e} /\ e \notin Rows(X)
      BY <1>2, <1>8, <1>9, <1>12 DEF Rows, r
    <2>2. IsFiniteSet(Rows(X))
      BY LedgerAssumption, FS_Subset DEF Rows
    <2>3. Cardinality(Rows(X)') = Cardinality(Rows(X)) + 1 /\ Cardinality(Rows(X)) \in Nat
      BY <2>1, <2>2, FS_AddElement, FS_CardinalityType
    <2> QED
      BY <2>3, <1>12
  <1>13. Cardinality(Rows(InboundStates \ {"absent"})') <= MaxRows
    BY <1>12, LedgerAssumption DEF Registers, HasRoom, InboundStates
  <1>14. Cardinality(Rows({"received"})') <= MaxReceived
    BY <1>12, LedgerAssumption DEF Registers, HasRoom
  <1>15. MessagesCanonical'
    <2>1. Rows(live)' = Rows(live) \cup {e}
      BY <1>2, <1>8, <1>9 DEF Rows, r
    <2> QED
      BY <2>1, <1>1, <1>2 DEF ScanPasses, MessagesCanonical
  <1>16. \A t \in TurnId : inbound[e].turn # t
    BY <1>3 DEF TurnId, r
  <1> QED
    BY <1>2, <1>6, <1>7, <1>8, <1>9, <1>10, <1>11, <1>13, <1>14, <1>15, <1>16, OneRow

\* The bits of a scan that do not depend on what a step changed.
LEMMA TurnlessKeeps ==
    ASSUME RowsOK, RowTypes', UNCHANGED <<inbound, turns>>, Fresh', final \subseteq final'
    PROVE  RowsOK'
  <1>1. ScanPasses /\ SettledIsAnswered
    BY DEF RowsOK
  <1>2. ScanPasses'
    BY <1>1 DEF ScanPasses, MessagesCanonical, Rows, RowValid, ReplyValid, GroupValid, Associated,
                UnresolvedMarkers, ResolvedMarkers, Linked
  <1>3. SettledIsAnswered'
    BY <1>1 DEF SettledIsAnswered, Rows
  <1> QED
    BY <1>2, <1>3 DEF RowsOK

\* Another delivery of a message that changes no row.
LEMMA RedeliversKeeps == ASSUME RowsOK, NEW e \in Event, Redelivers(e) PROVE RowsOK'
  <1>1. RowTypes /\ Fresh
    BY DEF RowsOK
  <1>2. /\ delivered' \in [Event -> 0..MaxDeliveries]
        /\ \A d \in Event : delivered[d] = MaxDeliveries => delivered'[d] = MaxDeliveries
    BY <1>1, TurnsAssumption DEF RowTypes, Redelivers
  <1>3. RowTypes'
    BY <1>1, <1>2 DEF RowTypes, Redelivers
  <1>4. Fresh'
    BY <1>1, <1>2 DEF Fresh, Redelivers
  <1> QED
    BY <1>3, <1>4, TurnlessKeeps DEF Redelivers

\* The final reply of a turn becomes durable.
LEMMA FinalsKeeps == ASSUME RowsOK, NEW t, Finals(t) PROVE RowsOK'
  <1>1. RowTypes' /\ Fresh'
    BY DEF RowsOK, RowTypes, Fresh, Finals
  <1> QED
    BY <1>1, TurnlessKeeps DEF Finals

\* A linked row is a claimed one: turn/start counts it once.
LEMMA CountsKeeps ==
    ASSUME RowsOK, NEW s, NEW t \in TurnId, NEW E, NEW n, Counts(s, t, E, n) PROVE RowsOK'
  <1>1. RowTypes /\ Fresh /\ ScanPasses
    BY DEF RowsOK
  <1>2. \A e \in E : inbound[e].state = "accepted"
    BY <1>1 DEF Counts, Open, ScanPasses, GroupValid, UnresolvedMarkers, Rows
  <1>3. RowTypes'
    BY <1>1 DEF RowTypes, Counts
  <1>4. Fresh'
    BY <1>1, <1>2 DEF Fresh, Counts, RowTypes
  <1> QED
    BY <1>3, <1>4, TurnlessKeeps DEF Counts

\* What a step that moves one turn has to keep.
LEMMA OneTurn ==
    ASSUME RowsOK, RowTypes', NEW t \in TurnId,
           \A u \in TurnId \ {t} : turns'[u] = turns[u],
           UNCHANGED <<submitted, final, delivered>>,
           \A e \in Event : inbound'[e] = inbound[e] \/ inbound'[e].turn = t,
           \A e \in Event : inbound[e].turn = t => inbound'[e].turn = t,
           \A e \in Event : inbound'[e].turn = t =>
               /\ inbound[e].turn \in {t, NoTurn}
               /\ inbound'[e].reply = None
               /\ inbound'[e].reason # None => inbound'[e].state = "rejected"
               /\ inbound'[e].state \in {"accepted", "completed", "rejected"}
               /\ inbound[e].state \in {"received", "accepted"}
               /\ Associated(e)'
               /\ inbound'[e].state \in {"completed", "rejected"} =>
                      \/ t \in final \/ turns'[t].state = "interrupted"
                      \/ t \in Quiet /\ turns'[t].state = "completed",
           GroupValid(t)'
    PROVE  RowsOK'
  <1> USE DEF NoTurn, None
  <1>1. RowTypes /\ ScanPasses /\ Fresh /\ SettledIsAnswered
    BY DEF RowsOK
  <1>2. ASSUME NEW e \in Event PROVE (RowValid(e) /\ ReplyValid(e))'
    <2>1. CASE inbound'[e].turn = t
      BY <2>1 DEF RowValid, ReplyValid
    <2>2. CASE inbound'[e].turn # t
      <3>1. RowValid(e) /\ ReplyValid(e) /\ inbound'[e] = inbound[e]
        BY <2>2, <1>1 DEF ScanPasses
      <3>2. inbound[e].turn \in TurnId => turns'[inbound[e].turn] = turns[inbound[e].turn]
        BY <3>1, <2>2
      <3>3. Associated(e) => Associated(e)'
        BY <3>1, <3>2 DEF Associated
      <3> QED
        BY <3>1, <3>3 DEF RowValid, ReplyValid
    <2> QED
      BY <2>1, <2>2
  <1>3. ASSUME NEW u \in TurnId, u # t PROVE GroupValid(u)'
    <2>1. GroupValid(u) /\ turns'[u] = turns[u] /\ u # NoTurn
      BY <1>1, <1>3 DEF ScanPasses, TurnId
    <2>2. \A e \in Event : inbound'[e].turn = u => inbound[e] = inbound'[e]
      BY <1>3
    <2>3. \A e \in Event : inbound[e].turn = u => inbound[e] = inbound'[e]
      BY <1>3, <2>1
    <2>4. Linked(u)' = Linked(u)
      BY <2>2, <2>3 DEF Linked
    <2>5. \A X : Linked(u) \subseteq Rows(X) => Linked(u)' \subseteq Rows(X)'
      BY <2>3, <2>4 DEF Rows, Linked
    <2> QED
      BY <2>1, <2>4, <2>5 DEF GroupValid, UnresolvedMarkers, ResolvedMarkers
  <1>4. \A e \in Event : \/ inbound'[e] = inbound[e]
                         \/ /\ inbound'[e].state \in {"accepted", "completed", "rejected"}
                            /\ inbound[e].state \in {"received", "accepted"}
    OBVIOUS
  <1>5. /\ Cardinality(Rows(InboundStates \ {"absent"})') <= MaxRows
        /\ Cardinality(Rows({"received"})') <= MaxReceived
        /\ MessagesCanonical'
    BY <1>1, <1>4, TablesShrink DEF InboundStates
  <1>6. ScanPasses'
    BY <1>2, <1>3, <1>5 DEF ScanPasses
  <1>7. Fresh'
    BY <1>1, <1>4 DEF Fresh
  <1>8. SettledIsAnswered'
    <2> SUFFICES ASSUME NEW e \in Event, inbound'[e].state \in {"completed", "rejected"}
                 PROVE  \/ inbound'[e].reply # None
                        \/ inbound'[e].turn = NoTurn /\ KindOf[e] \in {"media", "ignored"}
                        \/ inbound'[e].turn \in final'
                        \/ /\ inbound'[e].turn # NoTurn
                           /\ turns'[inbound'[e].turn].state = "interrupted"
                        \/ /\ inbound'[e].turn \in Quiet
                           /\ turns'[inbound'[e].turn].state = "completed"
      BY DEF SettledIsAnswered, Rows
    <2>1. CASE inbound'[e].turn = t
      BY <2>1 DEF TurnId
    <2>2. CASE inbound'[e].turn # t
      <3>1. inbound'[e] = inbound[e]
        BY <2>2
      <3>2. inbound[e].turn # NoTurn => inbound[e].turn \in TurnId
        BY <1>1 DEF RowTypes, InboundRow
      <3>3. Quiet \subseteq TurnId
        BY TurnsAssumption
      <3> QED
        BY <3>1, <3>2, <3>3, <2>2, <1>1 DEF SettledIsAnswered, Rows
    <2> QED
      BY <2>1, <2>2
  <1> QED
    BY <1>6, <1>7, <1>8 DEF RowsOK

\* set_turn_state(Running).
LEMMA RunsKeeps == ASSUME RowsOK, NEW s, NEW t \in TurnId, Runs(s, t) PROVE RowsOK'
  <1> USE DEF NoTurn, None
  <1>1. RowTypes /\ ScanPasses
    BY DEF RowsOK
  <1>2. /\ turns' = [turns EXCEPT ![t].state = "running"] /\ turns[t].state \in Unresolved
        /\ UNCHANGED <<inbound, submitted, final, delivered>>
    BY DEF Runs, Open
  <1>3. RowTypes'
    BY <1>1, <1>2 DEF RowTypes, TurnRow, Unresolved
  <1>4. /\ turns'[t].state = "running" /\ turns'[t].count = turns[t].count
        /\ turns'[t].scope = turns[t].scope /\ \A u \in TurnId \ {t} : turns'[u] = turns[u]
    BY <1>1, <1>2 DEF RowTypes, TurnRow
  <1>5. UnresolvedMarkers(t)
    BY <1>1, <1>2 DEF ScanPasses, GroupValid
  <1>6. UnresolvedMarkers(t)' /\ GroupValid(t)'
    BY <1>2, <1>4, <1>5 DEF UnresolvedMarkers, GroupValid, Linked, Rows, Resolutions
  <1>7. ASSUME NEW e \in Event, inbound[e].turn = t
        PROVE  /\ inbound[e].reply = None /\ inbound[e].reason = None
               /\ inbound[e].state = "accepted" /\ Associated(e)'
    <2>1. inbound[e].state = "accepted" /\ RowValid(e) /\ ReplyValid(e) /\ t # NoTurn
      BY <1>1, <1>5, <1>7 DEF UnresolvedMarkers, Linked, Rows, ScanPasses, TurnId
    <2>2. Associated(e)
      BY <2>1 DEF RowValid
    <2> QED
      BY <2>1, <2>2, <1>2, <1>4, <1>7 DEF RowValid, ReplyValid, Associated, Unresolved
  <1> QED
    BY <1>2, <1>3, <1>4, <1>6, <1>7, OneTurn

\* begin_turn_and_claim_inbound_live: the rows were free, the turn has no others.
LEMMA BeginsKeeps ==
    ASSUME RowsOK, NEW s \in Scope, NEW C, NEW t \in TurnId, Begins(s, C, t) PROVE RowsOK'
  <1> USE DEF NoTurn, None
  <1>1. RowTypes /\ ScanPasses
    BY DEF RowsOK
  <1>2. PICK i \in 0..MaxThreads :
          turns' = [turns EXCEPT ![t] = [state |-> "starting", scope |-> s,
                                         thread |-> i, count |-> Cardinality(C)]]
    BY DEF Begins
  <1>3. /\ C # {} /\ C \subseteq Event
        /\ \A e \in C : ScopeOf[e] = s /\ inbound[e].state = "received"
        /\ turns[t].state = "absent" /\ UNCHANGED <<submitted, final, delivered>>
    BY DEF Begins, Of, Rows
  <1>4. /\ \A e \in C : inbound'[e] = [inbound[e] EXCEPT !.state = "accepted", !.turn = t]
        /\ \A e \in Event \ C : inbound'[e] = inbound[e]
        /\ inbound' = [e \in Event |-> inbound'[e]]
    BY <1>3 DEF Begins
  <1>5. IsFiniteSet(C) /\ Cardinality(C) \in 0..Cardinality(Event) /\ Cardinality(C) > 0
    <2>1. IsFiniteSet(C) /\ Cardinality(C) <= Cardinality(Event)
      BY <1>3, LedgerAssumption, FS_Subset
    <2>2. Cardinality(C) \in Nat /\ Cardinality(Event) \in Nat /\ Cardinality(C) # 0
      BY <1>3, <2>1, LedgerAssumption, FS_CardinalityType, FS_EmptySet
    <2> QED
      BY <2>1, <2>2
  <1>6. /\ turns'[t].state = "starting" /\ turns'[t].scope = s
        /\ turns'[t].count = Cardinality(C) /\ turns' \in [TurnId -> TurnRow]
        /\ \A u \in TurnId \ {t} : turns'[u] = turns[u]
    <2>1. [state |-> "starting", scope |-> s, thread |-> i, count |-> Cardinality(C)] \in TurnRow
      BY <1>5 DEF TurnRow, Unresolved
    <2> QED
      BY <1>1, <1>2, <2>1 DEF RowTypes
  <1>7. ASSUME NEW e \in Event PROVE inbound[e].turn # t /\ inbound[e] \in InboundRow
    <2>1. RowValid(e) /\ inbound[e] \in InboundRow
      BY <1>1 DEF RowTypes, ScanPasses
    <2>2. inbound[e].turn = t => turns[t].state # "absent"
      BY <2>1 DEF RowValid, Associated, TurnId, Unresolved, Resolutions
    <2> QED
      BY <2>1, <2>2, <1>3
  <1>8. ASSUME NEW e \in C
        PROVE  /\ inbound[e].turn = NoTurn /\ inbound[e].state = "received"
               /\ inbound'[e] \in InboundRow
               /\ inbound'[e].state = "accepted" /\ inbound'[e].turn = t
               /\ inbound'[e].reason = None /\ inbound'[e].reply = None
    <2>1. /\ e \in Event /\ RowValid(e) /\ ReplyValid(e) /\ inbound[e].state = "received"
          /\ inbound[e] \in InboundRow
      BY <1>1, <1>3 DEF RowTypes, ScanPasses
    <2>2. inbound[e].reason = None /\ inbound[e].reply = None /\ inbound[e].turn = NoTurn
      BY <2>1 DEF RowValid, ReplyValid
    <2>3. inbound'[e] = [inbound[e] EXCEPT !.state = "accepted", !.turn = t]
      BY <1>4
    <2> QED
      BY <2>1, <2>2, <2>3 DEF InboundRow, InboundStates
  <1>9. RowTypes'
    <2>1. \A e \in Event : inbound'[e] \in InboundRow
      BY <1>4, <1>7, <1>8
    <2> QED
      BY <1>1, <1>3, <1>4, <1>6, <2>1 DEF RowTypes
  <1>10. \A e \in Event : inbound'[e].turn = t => e \in C
    BY <1>4, <1>7
  <1>11. Linked(t)' = C
    BY <1>8, <1>10, <1>3 DEF Linked
  <1>12. GroupValid(t)'
    <2>1. C \subseteq Rows({"accepted"})'
      BY <1>3, <1>8 DEF Rows
    <2> QED
      BY <1>6, <1>11, <2>1 DEF GroupValid, UnresolvedMarkers, Resolutions
  <1>13. ASSUME NEW e \in C PROVE Associated(e)'
    BY <1>3, <1>5, <1>6, <1>8 DEF Associated, Unresolved
  <1>14. \A e \in Event : inbound'[e] = inbound[e] \/ inbound'[e].turn = t
    BY <1>4, <1>8
  <1>15. \A e \in Event : inbound'[e].turn = t =>
               /\ inbound[e].turn \in {t, NoTurn}
               /\ inbound'[e].reply = None
               /\ inbound'[e].reason # None => inbound'[e].state = "rejected"
               /\ inbound'[e].state \in {"accepted", "completed", "rejected"}
               /\ inbound[e].state \in {"received", "accepted"}
               /\ Associated(e)'
               /\ inbound'[e].state \in {"completed", "rejected"} =>
                      \/ t \in final \/ turns'[t].state = "interrupted"
                      \/ t \in Quiet /\ turns'[t].state = "completed"
    BY <1>8, <1>10, <1>13
  <1> QED
    BY <1>3, <1>6, <1>7, <1>9, <1>12, <1>14, <1>15, OneTurn

\* resolve_turn_and_finish_inbound_batch: all rows of the turn, and only those.
LEMMA ResolvesKeeps ==
    ASSUME RowsOK, NEW s, NEW t \in TurnId, NEW res, Resolves(s, t, res) PROVE RowsOK'
  <1> USE DEF NoTurn, None
  <1> DEFINE to == IF res = "completed" THEN "completed" ELSE "rejected"
  <1>1. RowTypes /\ ScanPasses
    BY DEF RowsOK
  <1>2. /\ turns' = [turns EXCEPT ![t].state = res] /\ res \in Resolutions
        /\ turns[t].state \in Unresolved /\ t # NoTurn
        /\ UNCHANGED <<submitted, final, delivered>>
        /\ t \in final \/ res = "interrupted" \/ (t \in Quiet /\ res = "completed")
    <2>1. t # NoTurn
      BY DEF TurnId
    <2> QED
      BY <2>1 DEF Resolves, Open
  <1>3. TurnReason[res] \in Reasons /\ (res = "completed" => TurnReason[res] = None)
    BY <1>2 DEF TurnReason, Reasons, Resolutions
  <1>4. /\ turns'[t].state = res /\ turns'[t].count = turns[t].count
        /\ turns'[t].scope = turns[t].scope /\ turns' \in [TurnId -> TurnRow]
        /\ \A u \in TurnId \ {t} : turns'[u] = turns[u]
    BY <1>1, <1>2 DEF RowTypes, TurnRow
  <1>5. Cardinality(Linked(t)) = turns[t].count /\ Linked(t) \subseteq Rows({"accepted"})
    BY <1>1, <1>2 DEF ScanPasses, GroupValid, UnresolvedMarkers
  <1>6. /\ \A e \in Linked(t) : inbound'[e] = [inbound[e] EXCEPT !.state = to,
                                                               !.reason = TurnReason[res]]
        /\ \A e \in Event : e \notin Linked(t) => inbound'[e] = inbound[e]
        /\ inbound' = [e \in Event |-> inbound'[e]]
    BY DEF Resolves, Linked
  <1>7. ASSUME NEW e \in Linked(t)
        PROVE  /\ inbound[e].turn = t /\ inbound[e].state = "accepted"
               /\ inbound'[e] \in InboundRow
               /\ inbound'[e].state = to /\ inbound'[e].turn = t
               /\ inbound'[e].reason = TurnReason[res] /\ inbound'[e].reply = None
               /\ e \in Event /\ Associated(e)
    <2>1. /\ e \in Event /\ RowValid(e) /\ ReplyValid(e) /\ inbound[e].turn = t
          /\ inbound[e].state = "accepted" /\ inbound[e] \in InboundRow
      BY <1>1, <1>5 DEF RowTypes, ScanPasses, Linked, Rows
    <2>2. inbound[e].reply = None /\ Associated(e)
      BY <2>1, <1>2 DEF RowValid, ReplyValid
    <2>3. inbound'[e] = [inbound[e] EXCEPT !.state = to, !.reason = TurnReason[res]]
      BY <1>6
    <2>4. to \in InboundStates
      BY DEF InboundStates
    <2> HIDE DEF to
    <2> QED
      BY <2>1, <2>2, <2>3, <2>4, <1>3 DEF InboundRow
  <1>8. RowTypes'
    <2>1. \A e \in Event : inbound'[e] \in InboundRow
      BY <1>1, <1>6, <1>7 DEF RowTypes
    <2> QED
      BY <1>1, <1>2, <1>4, <1>6, <2>1 DEF RowTypes
  <1>9. \A e \in Event : inbound'[e].turn = t => e \in Linked(t)
    BY <1>6 DEF Linked
  <1>10. Linked(t)' = Linked(t)
    BY <1>7, <1>9 DEF Linked
  <1>11. GroupValid(t)'
    <2>1. Linked(t) \subseteq Rows({to})'
      BY <1>7 DEF Rows
    <2>2. res \notin Unresolved
      BY <1>2 DEF Resolutions, Unresolved
    <2>3. turns[t].count \in Int
      BY <1>1 DEF RowTypes, TurnRow
    <2>4. Cardinality(Linked(t)') <= turns'[t].count
      BY <1>4, <1>5, <1>10, <2>3
    <2>5. ResolvedMarkers(t)'
      BY <1>4, <1>10, <2>1, <2>4 DEF ResolvedMarkers
    <2> QED
      BY <1>4, <2>2, <2>5 DEF GroupValid
  <1>12. ASSUME NEW e \in Linked(t) PROVE Associated(e)'
    <2>1. turns[t].scope = ScopeOf[e] /\ turns[t].count > 0
      BY <1>7 DEF Associated
    <2> QED
      BY <1>2, <1>3, <1>4, <1>7, <2>1 DEF Associated, Resolutions
  <1>13. to \in {"completed", "rejected"} /\ (TurnReason[res] # None => to = "rejected")
    BY <1>3
  <1> HIDE DEF to
  <1>14. /\ \A e \in Event : inbound'[e] = inbound[e] \/ inbound'[e].turn = t
         /\ \A e \in Event : inbound[e].turn = t => inbound'[e].turn = t
    BY <1>6, <1>7 DEF Linked
  <1>15. ASSUME NEW e \in Event, inbound'[e].turn = t
         PROVE  /\ inbound[e].turn \in {t, NoTurn}
                /\ inbound'[e].reply = None
                /\ inbound'[e].reason # None => inbound'[e].state = "rejected"
                /\ inbound'[e].state \in {"accepted", "completed", "rejected"}
                /\ inbound[e].state \in {"received", "accepted"}
                /\ Associated(e)'
                /\ inbound'[e].state \in {"completed", "rejected"} =>
                       \/ t \in final \/ turns'[t].state = "interrupted"
                       \/ t \in Quiet /\ turns'[t].state = "completed"
    <2>1. e \in Linked(t)
      BY <1>9, <1>15
    <2> QED
      BY <1>2, <1>4, <1>7, <1>12, <1>13, <2>1
  <1>16. UNCHANGED <<submitted, final, delivered>>
    BY DEF Resolves
  <1> QED
    BY <1>4, <1>8, <1>11, <1>14, <1>15, <1>16, OneTurn

\* Whatever a step does to the rows, it leaves them in order.
LEMMA RowsKept == ASSUME RowsOK, NEW s \in Scope, OfScope(s) PROVE RowsOK'
  <1>1. CASE NothingHappens
    <2>1. RowTypes' /\ Fresh'
      BY <1>1 DEF RowsOK, RowTypes, Fresh, NothingHappens
    <2> QED
      BY <1>1, <2>1, TurnlessKeeps DEF NothingHappens
  <1>2. CASE Anyone
    BY <1>1, <1>2, RedeliversKeeps, RegistersKeeps, SweepsKeeps, RejectsKeeps, CompletesKeeps
       DEF Anyone
  <1> QED
    BY <1>2, RunsKeeps, FinalsKeeps, BeginsKeeps, ResolvesKeeps, CountsKeeps DEF OfScope

\* What the actor of scope s relies on.
Keeps(s) ==
    /\ \A t \in TurnId : Open(s, t) =>
          /\ turns'[t].scope = s /\ turns'[t].state \in Unresolved
          /\ \A e \in Linked(t) : inbound'[e].turn = t /\ submitted'[e] = submitted[e]
    /\ final \subseteq final'

\* What happens to rows without a turn is none of an actor's business ...
LEMMA AnyoneKeeps == ASSUME RowsOK, Anyone, NEW s \in Scope PROVE Keeps(s)
  <1>1. ASSUME NEW t \in TurnId, Open(s, t)
        PROVE  \A e \in Linked(t) : inbound[e].state = "accepted" /\ inbound[e].turn # NoTurn
    <2>1. t # NoTurn
      BY DEF TurnId, NoTurn
    <2>2. Linked(t) \subseteq Rows({"accepted"})
      BY <1>1 DEF RowsOK, ScanPasses, GroupValid, UnresolvedMarkers, Open
    <2> QED
      BY <2>1, <2>2 DEF Rows, Linked
  <1>2. ASSUME NEW t \in TurnId, Open(s, t), NEW e \in Linked(t)
        PROVE  inbound'[e].turn = t
    <2>1. inbound[e].state = "accepted" /\ inbound[e].turn = t /\ t # NoTurn /\ e \in Event
      BY <1>1, <1>2 DEF Linked
    <2>2. inbound \in [Event -> InboundRow]
      BY DEF RowsOK, RowTypes
    <2>3. NothingHappens \/ Redelivers(e) => inbound'[e].turn = t
      BY <2>1 DEF NothingHappens, Redelivers
    <2>4. ASSUME NEW d \in Event, Redelivers(d) PROVE inbound'[e].turn = t
      BY <2>1, <2>4 DEF Redelivers
    <2>5. ASSUME NEW d \in Event, Registers(d) PROVE inbound'[e].turn = t
      BY <2>1, <2>2, <2>5 DEF Registers, InboundRow
    <2>6. ASSUME NEW d \in Event, Sweeps(d) PROVE inbound'[e].turn = t
      BY <2>1, <2>2, <2>6 DEF Sweeps
    <2>7. ASSUME NEW d \in Event, NEW why, Rejects(d, why) PROVE inbound'[e].turn = t
      BY <2>1, <2>2, <2>7 DEF Rejects
    <2>8. ASSUME NEW d \in Event, NEW reply, Completes(d, reply) PROVE inbound'[e].turn = t
      BY <2>1, <2>2, <2>8 DEF Completes, CompleteAllowed
    <2> QED
      BY <2>3, <2>4, <2>5, <2>6, <2>7, <2>8 DEF Anyone
  <1>3. UNCHANGED <<turns, submitted, final>>
    BY DEF Anyone, NothingHappens, Redelivers, Registers, Sweeps, Rejects, Completes
  <1> QED
    BY <1>2, <1>3 DEF Keeps, Open

\* ... and neither is the turn of another scope: a claimed row is of the scope of its
\* turn (claim_inbound), and only its actor moves it.
LEMMA OthersKeep ==
    ASSUME RowsOK, NEW s \in Scope, OfScope(s), NEW o \in Scope, o # s PROVE Keeps(o)
  <1>1. /\ inbound \in [Event -> InboundRow] /\ turns \in [TurnId -> TurnRow]
        /\ submitted \in [Event -> {0, 1}]
    BY DEF RowsOK, RowTypes
  <1>2. \A t \in TurnId : Open(o, t) => \A e \in Linked(t) : inbound[e].state = "accepted"
    BY DEF RowsOK, ScanPasses, GroupValid, UnresolvedMarkers, Open, Rows, Linked
  <1>3. ASSUME NEW t \in TurnId, Runs(s, t) PROVE Keeps(o)
    BY <1>1, <1>3 DEF Runs, Keeps, Open, Linked, TurnRow
  <1>4. ASSUME NEW t \in TurnId, Finals(t) PROVE Keeps(o)
    BY <1>4 DEF Finals, Keeps, Open, Linked
  <1>5. ASSUME NEW t \in TurnId, NEW C, Begins(s, C, t) PROVE Keeps(o)
    <2>1. \A u \in TurnId : Open(o, u) => u # t /\ turns'[u] = turns[u]
      BY <1>1, <1>5 DEF Begins, Open, Unresolved
    <2>2. \A u \in TurnId : Open(o, u) => \A e \in Linked(u) : e \notin C
      BY <1>2, <1>5 DEF Begins, Rows
    <2> QED
      BY <2>1, <2>2, <1>5 DEF Begins, Keeps, Open, Linked
  <1>6. ASSUME NEW t \in TurnId, NEW res, Resolves(s, t, res) PROVE Keeps(o)
    <2>1. \A u \in TurnId : Open(o, u) => u # t /\ turns'[u] = turns[u]
      BY <1>1, <1>6 DEF Resolves, Open
    <2>2. \A u \in TurnId : Open(o, u) => \A e \in Linked(u) : inbound'[e] = inbound[e]
      BY <2>1, <1>6 DEF Resolves, Linked
    <2> QED
      BY <2>1, <2>2, <1>6 DEF Resolves, Keeps, Open, Linked
  <1>7. ASSUME NEW t \in TurnId, NEW E, NEW n, Counts(s, t, E, n) PROVE Keeps(o)
    <2>1. \A u \in TurnId : Open(o, u) => u # t
      BY <1>7 DEF Counts, Open
    <2>2. \A u \in TurnId : Open(o, u) => \A e \in Linked(u) : submitted'[e] = submitted[e]
      BY <2>1, <1>7 DEF Counts, Linked
    <2> QED
      BY <2>2, <1>7 DEF Counts, Keeps, Open, Linked
  <1> QED
    BY <1>3, <1>4, <1>5, <1>6, <1>7, AnyoneKeeps DEF OfScope

\* An actor that did not move is still right.
LEMMA ActorStays ==
    ASSUME NEW s \in Scope, ActorOK(s), Keeps(s), actor'[s] = actor[s] PROVE ActorOK(s)'
  <1> DEFINE a == actor[s]
  <1>1. a \in ActorOf(s) /\ StepData(a) /\ OwnTurn(s, a)
    BY DEF ActorOK
  <1>2. a.batch \in Seq(Event)
    BY <1>1 DEF ActorOf, Of
  <1>3. \A e \in Elems(a.batch) : e \in Event
    BY <1>2 DEF Elems
  <1>4. a.pc \in TurnSteps => Open(s, a.turn)
    BY <1>1 DEF OwnTurn, Open
  <1> HIDE DEF a
  <1>5. OwnTurn(s, a)'
    <2>1. a' = a
      BY DEF a
    <2>2. a.pc \in TurnSteps =>
             /\ a.turn \in TurnId
             /\ turns'[a.turn].scope = s /\ turns'[a.turn].state \in Unresolved
      BY <1>4 DEF Keeps, Open
    <2>3. a.pc = "resolve" => a.turn \in final' \/ Empty(a)
      BY <1>1 DEF OwnTurn, Keeps
    <2>4. a.pc \in {"assemble", "sent"} =>
             \A e \in Elems(a.batch) : inbound[e].turn = a.turn =>
                  inbound'[e].turn = a.turn /\ submitted'[e] = submitted[e]
      BY <1>3, <1>4 DEF Keeps, Open, Linked, TurnSteps
    <2> QED
      BY <1>1, <2>1, <2>2, <2>3, <2>4 DEF OwnTurn, Elems, Empty
  <1> QED
    BY <1>1, <1>5 DEF ActorOK, StepData, a

-----------------------------------------------------------------------------
(* Part 5. The steps of an actor.                                          *)

\* A step at which something may fail, and at most one thing does.
Spends == UNCHANGED faults \/ \E kind : Fault(kind)

\* Becomes gives the actor its new state.
LEMMA Lands ==
    ASSUME SInv, NEW s \in Scope, NEW a, Becomes(s, a)
    PROVE  actor'[s] = a
  BY DEF SInv, ActorsOK, Becomes

\* A failure spends one of the faults that are left.
LEMMA SpendsTyped == ASSUME MemoryOK, Spends PROVE faults' \in 0..MaxFaults
  BY TurnsAssumption DEF MemoryOK, Spends, Fault

\* A step of the actor of scope s is right when its own actor is.
LEMMA ActorSteps1 ==
    ASSUME SInv, NEW s \in Scope, OfScope(s), MemoryOK', \E a : Becomes(s, a), ActorOK(s)'
    PROVE  SInv'
  <1>1. RowsOK /\ MemoryOK /\ ActorsOK
    BY DEF SInv
  <1>2. RowsOK'
    BY <1>1, RowsKept
  <1>3. /\ actor' = [o \in Scope |-> actor'[o]]
        /\ \A o \in Scope \ {s} : actor'[o] = actor[o]
    BY <1>1 DEF ActorsOK, Becomes
  <1>4. ASSUME NEW o \in Scope PROVE ActorOK(o)'
    <2>1. CASE o = s
      BY <2>1
    <2>2. CASE o # s
      BY <2>2, <1>1, <1>3, OthersKeep, ActorStays DEF ActorsOK
    <2> QED
      BY <2>1, <2>2
  <1> QED
    BY <1>2, <1>3, <1>4 DEF SInv, ActorsOK

\* Outside a turn an actor owes nothing to the rows.
LEMMA NoTurnHeld ==
    ASSUME SInv, NEW s \in Scope, NEW a \in ActorOf(s), StepData(a), a.pc \notin TurnSteps,
           Becomes(s, a)
    PROVE  ActorOK(s)'
  <1>1. actor'[s] = a
    BY Lands
  <1>2. StepData(actor[s])'
    BY <1>1 DEF StepData
  <1>3. OwnTurn(s, actor[s])'
    BY <1>1 DEF OwnTurn, TurnSteps
  <1> QED
    BY <1>1, <1>2, <1>3 DEF ActorOK

\* A step of the actor of s that ends outside a turn and touches nothing else.
LEMMA QuietStep ==
    ASSUME SInv, NEW s \in Scope, NEW a \in ActorOf(s), StepData(a), a.pc \notin TurnSteps,
           Becomes(s, a), UNCHANGED <<ledger, Rest>>, Spends
    PROVE  SInv'
  <1>1. ActorOK(s)'
    BY NoTurnHeld
  <1>2. OfScope(s)
    BY DEF OfScope, Anyone, NothingHappens, ledger, Rest, outside
  <1>3. MemoryOK'
    <2>1. MemoryOK /\ faults' \in 0..MaxFaults
      BY SpendsTyped DEF SInv
    <2> QED
      BY <2>1 DEF MemoryOK, ledger, Rest, outside
  <1> QED
    BY <1>1, <1>2, <1>3, ActorSteps1

-----------------------------------------------------------------------------
\* One field of an actor at a time.
LEMMA BoxTyped ==
    ASSUME NEW s \in Scope, NEW a \in ActorOf(s), NEW q \in Seq(Of(s))
    PROVE  [a EXCEPT !.box = q] \in ActorOf(s) /\ [a EXCEPT !.box = q].pc = a.pc
  BY DEF ActorOf

\* What the router is shown of an actor.
LEMMA ShownTyped ==
    ASSUME NEW s \in Scope, NEW a \in ActorOf(s), NEW x \in {"idle", "failed", "busy"}
    PROVE  [a EXCEPT !.shown = x] \in ActorOf(s) /\ [a EXCEPT !.shown = x].pc = a.pc
  BY DEF ActorOf

\* Its cancellation.
LEMMA CancelTyped ==
    ASSUME NEW s \in Scope, NEW a \in ActorOf(s), NEW c \in BOOLEAN
    PROVE  [a EXCEPT !.cancel = c] \in ActorOf(s) /\ [a EXCEPT !.cancel = c].pc = a.pc
  BY DEF ActorOf

\* Its batch, and what it refuses of it.
LEMMA BatchTyped ==
    ASSUME NEW s \in Scope, NEW a \in ActorOf(s), NEW q \in Seq(Of(s))
    PROVE  [a EXCEPT !.batch = q] \in ActorOf(s) /\ [a EXCEPT !.refuse = q] \in ActorOf(s)
  BY DEF ActorOf

\* The actor at the end of a batch is idle.
LEMMA FinishedTyped ==
    ASSUME NEW s \in Scope, NEW a \in ActorOf(s), NEW ok \in BOOLEAN
    PROVE  /\ Finished(a, ok) \in ActorOf(s) /\ StepData(Finished(a, ok))
           /\ Finished(a, ok).pc = "idle"
  <1> USE DEF None, NoTurn
  <1>1. NoActor \in ActorOf(s) /\ NoActor.pc = "idle"
    BY DEF NoActor, ActorOf, ActorSteps
  <1>2. NewActor \in ActorOf(s) /\ NewActor.pc = "idle"
    <2>1. PICK n \in ActorOf(s) : n = NoActor
      BY <1>1, Zenon
    <2>2. NewActor = [n EXCEPT !.live = TRUE] /\ n.pc = "idle"
      BY <1>1, <2>1 DEF NewActor
    <2> QED
      BY <2>2 DEF ActorOf
  <1>3. ASSUME ~a.cancel PROVE Finished(a, ok) \in ActorOf(s) /\ Finished(a, ok).pc = "idle"
    <2>1. PICK x \in {"idle", "failed", "busy"} : x = IF ok THEN "idle" ELSE "failed"
      OBVIOUS
    <2>0. PICK n \in ActorOf(s) : n = NewActor
      BY <1>2, Zenon
    <2>2. Finished(a, ok) = [n EXCEPT !.box = a.box, !.later = a.later, !.shown = x]
      BY <1>3, <2>0, <2>1 DEF Finished
    <2>3. a.box \in Seq(Of(s)) /\ a.later \in Of(s) \cup {"none"}
      BY DEF ActorOf
    <2>4. n.pc = "idle" /\ a.box \in Seq(Of(s)) /\ a.later \in Of(s) \cup {"none"}
      BY <1>2, <2>0, <2>3
    <2> HIDE DEF None
    <2>5. PICK b \in Seq(Of(s)), l \in Of(s) \cup {None} : b = a.box /\ l = a.later
      BY <2>4 DEF None
    <2>6. [n EXCEPT !.box = b, !.later = l, !.shown = x] \in ActorOf(s)
      <3>1. PICK n1 \in ActorOf(s) : n1 = [n EXCEPT !.box = b]
        BY BoxTyped, Zenon
      <3>2. PICK n2 \in ActorOf(s) : n2 = [n1 EXCEPT !.later = l]
        <4>1. [n1 EXCEPT !.later = l] \in ActorOf(s)
          BY DEF ActorOf
        <4> QED
          BY <4>1, Zenon
      <3>3. [n2 EXCEPT !.shown = x] \in ActorOf(s)
        BY ShownTyped, Zenon
      <3>4. [n EXCEPT !.box = b, !.later = l, !.shown = x] = [n2 EXCEPT !.shown = x]
        BY <3>1, <3>2, Zenon
      <3> QED
        BY <3>3, <3>4, Zenon
    <2>7. [n EXCEPT !.box = b, !.later = l, !.shown = x].pc = "idle"
      BY <2>4 DEF ActorOf
    <2> QED
      BY <2>2, <2>5, <2>6, <2>7
  <1>4. Finished(a, ok) \in ActorOf(s) /\ Finished(a, ok).pc = "idle"
    BY <1>1, <1>3 DEF Finished
  <1> QED
    BY <1>4 DEF StepData, Batched

\* An actor that refuses its whole batch has something to refuse.
LEMMA RefuseAllTyped ==
    ASSUME NEW s \in Scope, NEW a \in ActorOf(s), a.batch # <<>>
    PROVE  /\ RefuseAll(a) \in ActorOf(s) /\ StepData(RefuseAll(a))
           /\ RefuseAll(a).pc = "refuse"
  <1>1. RefuseAll(a) \in ActorOf(s) /\ RefuseAll(a).pc = "refuse"
    <2>1. PICK x \in Seq(Of(s)) : x = <<>>
      <3>1. <<>> \in Seq(Of(s))
        OBVIOUS
      <3> QED
        BY <3>1, Zenon
    <2>2. RefuseAll(a) = [a EXCEPT !.refuse = a.batch, !.batch = x, !.why = "internal",
                                   !.pc = "refuse"]
      BY <2>1 DEF RefuseAll
    <2>3. "refuse" \in ActorSteps /\ "internal" \in Refusals
      BY DEF ActorSteps, Refusals
    <2>4. PICK y \in Seq(Of(s)) : y = a.batch
      BY DEF ActorOf
    <2>5. [a EXCEPT !.refuse = y, !.batch = x, !.why = "internal", !.pc = "refuse"] \in ActorOf(s)
      BY <2>3 DEF ActorOf
    <2>6. [a EXCEPT !.refuse = y, !.batch = x, !.why = "internal", !.pc = "refuse"].pc = "refuse"
      BY DEF ActorOf
    <2> QED
      BY <2>2, <2>4, <2>5, <2>6
  <1>2. RefuseAll(a).refuse = a.batch /\ RefuseAll(a).why = "internal"
    BY DEF RefuseAll, ActorOf
  <1> QED
    BY <1>1, <1>2 DEF StepData, Batched, None

\* After a refusal: the next one, the batch that is left, or idle.
LEMMA AfterRefusingTyped ==
    ASSUME NEW s \in Scope, NEW a \in ActorOf(s), a.why # None
    PROVE  /\ AfterRefusing(a) \in ActorOf(s) /\ StepData(AfterRefusing(a))
           /\ AfterRefusing(a).pc \in {"refuse", "client", "idle"}
  <1>1. CASE a.refuse # <<>>
    <2>1. AfterRefusing(a) = [a EXCEPT !.pc = "refuse"]
      BY <1>1 DEF AfterRefusing
    <2>2. [a EXCEPT !.pc = "refuse"] \in ActorOf(s)
      BY DEF ActorOf, ActorSteps
    <2> QED
      BY <2>1, <2>2, <1>1 DEF StepData, Batched, ActorOf
  <1>2. CASE a.refuse = <<>> /\ a.batch # <<>>
    <2>1. AfterRefusing(a) = [a EXCEPT !.pc = "client"]
      BY <1>2 DEF AfterRefusing
    <2>2. [a EXCEPT !.pc = "client"] \in ActorOf(s)
      BY DEF ActorOf, ActorSteps
    <2> QED
      BY <2>1, <2>2, <1>2 DEF StepData, Batched, ActorOf
  <1>3. CASE a.refuse = <<>> /\ a.batch = <<>>
    <2>1. AfterRefusing(a) = Finished(a, TRUE)
      BY <1>3 DEF AfterRefusing
    <2> QED
      BY <2>1, FinishedTyped
  <1> QED
    BY <1>1, <1>2, <1>3

-----------------------------------------------------------------------------
\* The invariant, for one actor.
LEMMA ActorTyped ==
    ASSUME SInv, NEW s \in Scope
    PROVE  actor[s] \in ActorOf(s) /\ StepData(actor[s]) /\ OwnTurn(s, actor[s])
  BY DEF SInv, ActorsOK, ActorOK

\* Where a message goes by its kind.
LEMMA NextStepTyped ==
    ASSUME NEW e \in Event
    PROVE  /\ NextStep(e) \in {"media", "control", "got"}
           /\ NextStep(e) = "media" => KindOf[e] = "media"
  BY DEF NextStep, Commands

\* An actor takes a message of its own scope in hand.
LEMMA TakesItem ==
    ASSUME SInv, NEW s \in Scope, NEW a \in ActorOf(s), a.item \in Of(s),
           a.pc = NextStep(a.item), Becomes(s, a), UNCHANGED <<ledger, Rest, faults>>
    PROVE  SInv'
  <1>1. a.item \in Event /\ a.item # None
    BY TurnsAssumption DEF Of
  <1>2. a.pc \in {"media", "control", "got"} /\ (a.pc = "media" => KindOf[a.item] = "media")
    BY <1>1, NextStepTyped
  <1>3. StepData(a) /\ a.pc \notin TurnSteps
    BY <1>1, <1>2 DEF StepData, Batched, TurnSteps
  <1> QED
    BY <1>3, QuietStep DEF Spends

\* The actor takes the next message from its mailbox.
LEMMA ReceiveOK == ASSUME SInv, NEW s \in Scope, Receive(s) PROVE SInv'
  <1> DEFINE a == actor[s]
             b1 == [a EXCEPT !.later = None, !.item = a.later, !.pc = NextStep(a.later)]
             b2 == [a EXCEPT !.box = Tail(@), !.item = Head(a.box), !.pc = NextStep(Head(a.box))]
  <1>1. a \in ActorOf(s) /\ UNCHANGED <<ledger, Rest, faults>>
    BY ActorTyped DEF Receive
  <1>2. CASE a.later # None /\ Becomes(s, b1)
    <2>1. a.later \in Of(s) /\ a.later \in Event
      BY <1>1, <1>2 DEF ActorOf, Of
    <2>2. NextStep(a.later) \in ActorSteps
      BY <2>1, NextStepTyped DEF ActorSteps
    <2>3. b1 \in ActorOf(s) /\ b1.item = a.later /\ b1.pc = NextStep(b1.item)
      BY <1>1, <2>1, <2>2 DEF ActorOf
    <2> HIDE DEF b1
    <2> QED
      BY <1>1, <1>2, <2>1, <2>3, TakesItem
  <1>3. CASE a.box # <<>> /\ Becomes(s, b2)
    <2>1. a.box \in Seq(Of(s))
      BY <1>1 DEF ActorOf
    <2>2. Head(a.box) \in Of(s) /\ Tail(a.box) \in Seq(Of(s))
      BY <1>3, <2>1
    <2>3. NextStep(Head(a.box)) \in ActorSteps
      BY <2>2, NextStepTyped DEF ActorSteps, Of
    <2>4. b2 \in ActorOf(s) /\ b2.item = Head(a.box) /\ b2.pc = NextStep(b2.item)
      BY <1>1, <2>2, <2>3 DEF ActorOf
    <2> HIDE DEF b2
    <2> QED
      BY <1>1, <1>3, <2>2, <2>4, TakesItem
  <1> QED
    BY <1>2, <1>3 DEF Receive

\* begin_batch: the first message of a batch.
LEMMA BeginBatchOK == ASSUME SInv, NEW s \in Scope, BeginBatch(s) PROVE SInv'
  <1> DEFINE a == actor[s]
             b == [a EXCEPT !.item = None, !.batch = <<a.item>>, !.shown = "busy",
                            !.pc = "debounce"]
  <1>1. a \in ActorOf(s) /\ StepData(a) /\ a.pc = "got"
    BY ActorTyped DEF BeginBatch, At
  <1>2. a.item \in Of(s)
    BY <1>1 DEF StepData, ActorOf
  <1>3. b \in ActorOf(s) /\ b.pc = "debounce" /\ b.batch = <<a.item>>
    <2>1. PICK x \in Seq(Of(s)) : x = <<a.item>>
      <3>1. <<a.item>> \in Seq(Of(s))
        BY <1>2
      <3> QED
        BY <3>1, Zenon
    <2>2. b = [a EXCEPT !.item = None, !.batch = x, !.shown = "busy", !.pc = "debounce"]
      BY <2>1
    <2>3. "debounce" \in ActorSteps
      BY DEF ActorSteps
    <2> HIDE DEF a, b
    <2> QED
      BY <1>1, <2>1, <2>2, <2>3 DEF ActorOf
  <1>4. Becomes(s, b) /\ UNCHANGED <<ledger, Rest, faults>>
    BY DEF BeginBatch
  <1> HIDE DEF b
  <1>5. StepData(b) /\ b.pc \notin TurnSteps
    BY <1>3 DEF StepData, TurnSteps
  <1> QED
    BY <1>3, <1>4, <1>5, QuietStep DEF Spends

\* The debounce collects messages until the batch is full or the window closes.
LEMMA DebounceOK == ASSUME SInv, NEW s \in Scope, Debounce(s) PROVE SInv'
  <1> DEFINE a == actor[s]
             e == Head(a.box)
             next == [a EXCEPT !.box = Tail(@)]
             b1 == [a EXCEPT !.pc = "permit"]
             b2 == [next EXCEPT !.batch = Append(@, e)]
             b3 == [next EXCEPT !.item = e, !.pc = "media"]
             b4 == [next EXCEPT !.later = e, !.pc = "permit"]
  <1>1. a \in ActorOf(s) /\ a.pc = "debounce" /\ a.batch # <<>>
    BY ActorTyped DEF Debounce, At, StepData, Batched
  <1>2. UNCHANGED <<ledger, Rest, faults>>
    BY DEF Debounce
  <1>3. CASE Becomes(s, b1)
    <2>1. b1 \in ActorOf(s) /\ b1.pc = "permit" /\ b1.batch = a.batch
      BY <1>1 DEF ActorOf, ActorSteps
    <2> HIDE DEF b1
    <2>2. StepData(b1) /\ b1.pc \notin TurnSteps
      BY <2>1, <1>1 DEF StepData, TurnSteps
    <2> QED
      BY <1>2, <1>3, <2>1, <2>2, QuietStep DEF Spends
  <1>4. CASE a.box # <<>> /\ Becomes(s, CASE KindOf[e] = "text" -> b2
                                          [] KindOf[e] = "media" -> b3
                                          [] OTHER -> b4)
    <2>1. a.box \in Seq(Of(s)) /\ a.batch \in Seq(Of(s))
      BY <1>1 DEF ActorOf
    <2>2. e \in Of(s) /\ Tail(a.box) \in Seq(Of(s)) /\ e # None
      BY <1>4, <2>1, TurnsAssumption DEF Of
    <2>3. Append(a.batch, e) \in Seq(Of(s)) /\ Append(a.batch, e) # <<>>
      BY <2>1, <2>2
    <2>4. CASE KindOf[e] = "text"
      <3>1. b2 \in ActorOf(s) /\ b2.pc = "debounce" /\ b2.batch = Append(a.batch, e)
        BY <1>1, <2>2, <2>3 DEF ActorOf
      <3>2. Becomes(s, b2)
        BY <1>4, <2>4
      <3> HIDE DEF b2
      <3>3. StepData(b2) /\ b2.pc \notin TurnSteps
        BY <2>3, <3>1 DEF StepData, TurnSteps
      <3> QED
        BY <1>2, <3>1, <3>2, <3>3, QuietStep DEF Spends
    <2>5. CASE KindOf[e] = "media"
      <3>1. b3 \in ActorOf(s) /\ b3.pc = "media" /\ b3.item = e
        BY <1>1, <2>2 DEF ActorOf, ActorSteps
      <3>2. Becomes(s, b3)
        BY <1>4, <2>5
      <3> HIDE DEF b3
      <3>3. StepData(b3) /\ b3.pc \notin TurnSteps
        BY <2>2, <2>5, <3>1 DEF StepData, TurnSteps, Batched
      <3> QED
        BY <1>2, <3>1, <3>2, <3>3, QuietStep DEF Spends
    <2>6. CASE KindOf[e] # "text" /\ KindOf[e] # "media"
      <3>1. b4 \in ActorOf(s) /\ b4.pc = "permit" /\ b4.batch = a.batch
        BY <1>1, <2>2 DEF ActorOf, ActorSteps
      <3>2. Becomes(s, b4)
        BY <1>4, <2>6
      <3> HIDE DEF b4
      <3>3. StepData(b4) /\ b4.pc \notin TurnSteps
        BY <1>1, <3>1 DEF StepData, TurnSteps
      <3> QED
        BY <1>2, <3>1, <3>2, <3>3, QuietStep DEF Spends
    <2> QED
      BY <2>4, <2>5, <2>6
  <1> QED
    BY <1>3, <1>4 DEF Debounce

\* acquire_permit: duplicates leave the batch, refusals are split off from the rest.
LEMMA AcquirePermitOK == ASSUME SInv, NEW s \in Scope, AcquirePermit(s) PROVE SInv'
  <1> DEFINE a == actor[s]
             u == [a EXCEPT !.batch = Unique(a.batch)]
             sp(R) == [u EXCEPT !.refuse = Filtered(u.batch, R),
                                !.batch = Filtered(u.batch, Event \ R),
                                !.why = "policy"]
  <1>1. a \in ActorOf(s) /\ a.pc = "permit" /\ a.batch # <<>> /\ a.batch \in Seq(Of(s))
    BY ActorTyped DEF AcquirePermit, At, StepData, Batched, ActorOf
  <1>2. UNCHANGED <<ledger, Rest>>
    BY DEF AcquirePermit
  <1>3. u \in ActorOf(s) /\ u.batch # <<>> /\ u.batch \in Seq(Of(s))
    <2>1. PICK q \in Seq(Of(s)) : q = Unique(a.batch) /\ q # <<>>
      BY <1>1, UniqueIn, Zenon
    <2>2. u = [a EXCEPT !.batch = q]
      BY <2>1
    <2> HIDE DEF u, a
    <2> QED
      BY <1>1, <2>1, <2>2 DEF ActorOf
  <1>4. CASE Becomes(s, RefuseAll(u)) /\ UNCHANGED faults
    <2> HIDE DEF u
    <2> QED
      BY <1>2, <1>3, <1>4, RefuseAllTyped, QuietStep DEF Spends, TurnSteps
  <1>5. ASSUME NEW R, Becomes(s, AfterRefusing(sp(R))), Spends PROVE SInv'
    <2>1. PICK x \in Seq(Of(s)) : x = Filtered(u.batch, R)
      <3>1. Filtered(u.batch, R) \in Seq(Of(s) \cap R)
        BY <1>3, FilteredIn, Zenon
      <3>2. Filtered(u.batch, R) \in Seq(Of(s))
        BY <3>1
      <3> QED
        BY <3>2, Zenon
    <2>2. PICK y \in Seq(Of(s)) : y = Filtered(u.batch, Event \ R)
      <3>1. Filtered(u.batch, Event \ R) \in Seq(Of(s) \cap (Event \ R))
        BY <1>3, FilteredIn, Zenon
      <3>2. Filtered(u.batch, Event \ R) \in Seq(Of(s))
        BY <3>1
      <3> QED
        BY <3>2, Zenon
    <2>3. sp(R) = [u EXCEPT !.refuse = x, !.batch = y, !.why = "policy"]
      BY <2>1, <2>2
    <2> HIDE DEF u, a
    <2>4. "policy" \in Refusals /\ "policy" # None
      BY DEF Refusals, None
    <2>5. PICK b : b = sp(R)
      OBVIOUS
    <2>6. b \in ActorOf(s) /\ b.why = "policy"
      <3>1. PICK u1 \in ActorOf(s) : u1 = [u EXCEPT !.refuse = x]
        BY <1>3, BatchTyped, Zenon
      <3>2. PICK u2 \in ActorOf(s) : u2 = [u1 EXCEPT !.batch = y]
        BY BatchTyped, Zenon
      <3>3. b = [u2 EXCEPT !.why = "policy"]
        BY <2>3, <2>5, <3>1, <3>2, Zenon
      <3> QED
        BY <2>4, <3>3 DEF ActorOf
    <2>7. /\ AfterRefusing(b) \in ActorOf(s) /\ StepData(AfterRefusing(b))
          /\ AfterRefusing(b).pc \in {"refuse", "client", "idle"}
      BY <2>4, <2>6, AfterRefusingTyped
    <2>8. AfterRefusing(b).pc \notin TurnSteps
      BY <2>7 DEF TurnSteps
    <2>9. Becomes(s, AfterRefusing(b))
      BY <1>5, <2>5
    <2> QED
      BY <1>2, <1>5, <2>7, <2>8, <2>9, QuietStep
  <1>6. CASE Fault("store") /\ Becomes(s, Finished(a, FALSE))
    BY <1>1, <1>2, <1>6, FinishedTyped, QuietStep DEF Spends, TurnSteps
  <1>7. \A R \in SUBSET (Elems(a.batch) \cap MayRefuse) :
            Becomes(s, AfterRefusing(sp(R))) /\ UNCHANGED faults => SInv'
    BY <1>5 DEF Spends
  <1>8. WorkspaceRefused /\ Becomes(s, AfterRefusing(sp(Elems(a.batch)))) => SInv'
    BY <1>5 DEF Spends, WorkspaceRefused
  <1> QED
    BY <1>4, <1>6, <1>7, <1>8 DEF AcquirePermit

\* The steps that only move the program counter, among those that hold a batch.
LEMMA StepsOn ==
    ASSUME SInv, NEW s \in Scope, actor[s].batch # <<>>,
           NEW pc \in Batched, Becomes(s, [actor[s] EXCEPT !.pc = pc]),
           UNCHANGED <<ledger, Rest>>, Spends
    PROVE  SInv'
  <1> DEFINE b == [actor[s] EXCEPT !.pc = pc]
  <1>1. pc \in ActorSteps /\ pc \notin TurnSteps
    BY DEF Batched, ActorSteps, TurnSteps
  <1>2. b \in ActorOf(s) /\ b.pc = pc /\ b.batch = actor[s].batch
    BY <1>1, ActorTyped DEF ActorOf
  <1>3. Becomes(s, b)
    OBVIOUS
  <1> HIDE DEF b
  <1>4. StepData(b)
    BY <1>2 DEF StepData, Batched
  <1> QED
    BY <1>1, <1>2, <1>3, <1>4, QuietStep

\* The actor drops its batch: the rows stay received.
LEMMA GivesUp ==
    ASSUME SInv, NEW s \in Scope, NEW ok \in BOOLEAN, Becomes(s, Finished(actor[s], ok)),
           UNCHANGED <<ledger, Rest>>, Spends
    PROVE  SInv'
  BY ActorTyped, FinishedTyped, QuietStep DEF TurnSteps

\* The actor is about to reject every row of its batch.
LEMMA RefusesAll ==
    ASSUME SInv, NEW s \in Scope, actor[s].batch # <<>>, Becomes(s, RefuseAll(actor[s])),
           UNCHANGED <<ledger, Rest>>, Spends
    PROVE  SInv'
  BY ActorTyped, RefuseAllTyped, QuietStep DEF TurnSteps

\* The client of the current epoch.
LEMMA TakeClientOK == ASSUME SInv, NEW s \in Scope, TakeClient(s) PROVE SInv'
  <1> DEFINE a == actor[s]
             x == IF thread[s] # 0 THEN "resume" ELSE "fresh"
             b == [a EXCEPT !.epoch = codex.epoch, !.pc = x]
  <1>1. a \in ActorOf(s) /\ a.pc = "client" /\ a.batch # <<>>
    BY ActorTyped DEF TakeClient, At, StepData, Batched
  <1>2. UNCHANGED <<ledger, Rest, faults>> /\ Spends
    BY DEF TakeClient, Spends
  <1>3. CASE Becomes(s, b)
    <2>1. codex.epoch \in Nat /\ x \in Batched /\ x \in ActorSteps /\ x \notin TurnSteps
      BY DEF SInv, MemoryOK, Batched, ActorSteps, TurnSteps
    <2> HIDE DEF x
    <2>2. b \in ActorOf(s) /\ b.pc = x /\ b.batch = a.batch
      BY <1>1, <2>1 DEF ActorOf
    <2> HIDE DEF b
    <2>3. StepData(b)
      BY <1>1, <2>1, <2>2 DEF StepData, Batched
    <2> QED
      BY <1>2, <1>3, <2>1, <2>2, <2>3, QuietStep
  <1>4. CASE Becomes(s, RefuseAll(a))
    BY <1>1, <1>2, <1>4, RefusesAll
  <1> QED
    BY <1>3, <1>4 DEF TakeClient

\* thread/resume.
LEMMA ResumeThreadOK == ASSUME SInv, NEW s \in Scope, ResumeThread(s) PROVE SInv'
  <1>1. actor[s].batch # <<>>
    BY ActorTyped DEF ResumeThread, At, StepData, Batched
  <1>2. "subscribe" \in Batched /\ "abandon" \in Batched
    BY DEF Batched
  <1>3. UNCHANGED <<ledger, Rest>> /\ Spends
    BY DEF ResumeThread, Spends
  <1> QED
    BY <1>1, <1>2, <1>3, StepsOn DEF ResumeThread

\* A failure before the turn is claimed.
LEMMA PrepareFailsOK == ASSUME SInv, NEW s \in Scope, PrepareFails(s) PROVE SInv'
  <1>1. actor[s].batch # <<>> /\ "lost" \in Batched
    BY ActorTyped DEF PrepareFails, At, StepData, Batched
  <1>2. UNCHANGED <<ledger, Rest>> /\ Spends
    BY DEF PrepareFails, Spends
  <1> QED
    BY <1>1, <1>2, StepsOn, RefusesAll, GivesUp DEF PrepareFails

\* The subscription to the events of the thread.
LEMMA SubscribeOK == ASSUME SInv, NEW s \in Scope, Subscribe(s) PROVE SInv'
  <1> DEFINE x == IF Connected(actor[s]) THEN "claim" ELSE "lost"
  <1>1. actor[s].batch # <<>> /\ x \in Batched
    BY ActorTyped DEF Subscribe, At, StepData, Batched
  <1>2. UNCHANGED <<ledger, Rest>> /\ Spends
    BY DEF Subscribe, Spends
  <1>3. Becomes(s, [actor[s] EXCEPT !.pc = x]) \/ Becomes(s, Finished(actor[s], FALSE))
    BY DEF Subscribe
  <1> HIDE DEF x
  <1> QED
    BY <1>1, <1>2, <1>3, StepsOn, GivesUp

\* The actor of a lost batch comes to rest.
LEMMA SettleLossOK == ASSUME SInv, NEW s \in Scope, SettleLoss(s) PROVE SInv'
  <1>1. actor[s].batch # <<>>
    BY ActorTyped DEF SettleLoss, At, StepData, Batched
  <1>2. UNCHANGED <<ledger, Rest>> /\ Spends
    BY DEF SettleLoss, Spends
  <1> QED
    BY <1>1, <1>2, RefusesAll, GivesUp DEF SettleLoss

\* wait_for_epoch_end.
LEMMA EpochEndsOK == ASSUME SInv, NEW s \in Scope, EpochEnds(s) PROVE SInv'
  BY GivesUp DEF EpochEnds, Spends

\* The actor of a scope nobody has written to yet.
LEMMA NoActorTyped ==
    ASSUME NEW s \in Scope
    PROVE  NoActor \in ActorOf(s) /\ StepData(NoActor) /\ NoActor.pc = "idle"
  BY DEF NoActor, ActorOf, ActorSteps, StepData, Batched, None, NoTurn

\* The actor task ends.
LEMMA LeaveOK == ASSUME SInv, NEW s \in Scope, Leave(s) PROVE SInv'
  BY NoActorTyped, QuietStep DEF Leave, Spends, TurnSteps

\* A step that leaves everything in memory alone but the faults.
LEMMA MemoryKept ==
    ASSUME MemoryOK, Spends,
           UNCHANGED <<thread, made, seen, proc, queue, retries, eviction, codex, exec>>
    PROVE  MemoryOK'
  <1>1. faults' \in 0..MaxFaults
    BY SpendsTyped
  <1> QED
    BY <1>1 DEF MemoryOK

\* A step of the actor of s that ends outside a turn.
LEMMA PlainStep ==
    ASSUME SInv, NEW s \in Scope, NEW a \in ActorOf(s), StepData(a), a.pc \notin TurnSteps,
           Becomes(s, a), OfScope(s), MemoryOK'
    PROVE  SInv'
  BY NoTurnHeld, ActorSteps1

\* reject_received, done, without effect or failed.
LEMMA RejectJob ==
    ASSUME NEW e \in Event, NEW why \in Refusals, NEW ok,
           StoreJob(RejectAllowed(e, why), RejectReceived(e, why), ok),
           UNCHANGED <<submitted, final, delivered>>
    PROVE  Anyone /\ Spends /\ UNCHANGED <<thread, made, seen>>
  <1>1. UNCHANGED ledger => Anyone /\ UNCHANGED <<thread, made, seen>>
    BY DEF ledger, Anyone, NothingHappens
  <1>2. RejectReceived(e, why) => Anyone /\ UNCHANGED <<thread, made, seen>>
    BY DEF RejectReceived, Anyone, NothingHappens, Rejects
  <1> QED
    BY <1>1, <1>2 DEF StoreJob, Spends

\* complete_received_without_turn and its control reply, done, without effect or failed.
LEMMA CompleteJob ==
    ASSUME NEW e \in Event, NEW reply, NEW ok,
           reply = "control" \/ (reply = None /\ KindOf[e] \in {"media", "ignored"}),
           StoreJob(CompleteAllowed(e), CompleteReceived(e, reply), ok),
           UNCHANGED <<submitted, final, delivered>>
    PROVE  Anyone /\ Spends /\ UNCHANGED <<thread, made, seen>>
  <1>1. UNCHANGED ledger => Anyone /\ UNCHANGED <<thread, made, seen>>
    BY DEF ledger, Anyone, NothingHappens
  <1>2. CompleteAllowed(e) /\ CompleteReceived(e, reply) =>
            Anyone /\ UNCHANGED <<thread, made, seen>>
    <2>1. CompleteAllowed(e) /\ CompleteReceived(e, reply) => Completes(e, reply)
      BY DEF CompleteReceived, Completes
    <2>2. Completes(e, reply) => Anyone
      BY DEF Anyone
    <2> QED
      BY <2>1, <2>2 DEF CompleteReceived
  <1> QED
    BY <1>1, <1>2 DEF StoreJob, Spends

\* The actor of s settles a row outside a turn.
LEMMA ActorSettles ==
    ASSUME SInv, NEW s \in Scope, NEW a \in ActorOf(s), StepData(a), a.pc \notin TurnSteps,
           Becomes(s, a), Anyone, Spends, UNCHANGED <<thread, made, seen>>, UNCHANGED Rest
    PROVE  SInv'
  <1>1. OfScope(s)
    BY DEF OfScope
  <1>2. MemoryOK'
    BY MemoryKept DEF SInv, Rest, outside
  <1> QED
    BY <1>1, <1>2, PlainStep

\* One refusal of the batch.
LEMMA RefuseOK == ASSUME SInv, NEW s \in Scope, NEW ok \in BOOLEAN, Refuse(s, ok) PROVE SInv'
  <1> DEFINE a == actor[s]
             e == Head(a.refuse)
             b == [a EXCEPT !.refuse = Tail(@)]
  <1>1. /\ a \in ActorOf(s) /\ a.pc = "refuse" /\ a.refuse # <<>> /\ a.refuse \in Seq(Of(s))
        /\ a.why # None /\ a.why \in Refusals
    BY ActorTyped DEF Refuse, At, StepData, ActorOf
  <1>2. e \in Event /\ Tail(a.refuse) \in Seq(Of(s))
    BY <1>1 DEF Of
  <1>3. b \in ActorOf(s) /\ b.why = a.why
    BY <1>1, <1>2 DEF ActorOf
  <1>4. UNCHANGED Rest /\ UNCHANGED <<submitted, final, delivered>>
    BY DEF Refuse, Rest, outside
  <1>5. Anyone /\ Spends /\ UNCHANGED <<thread, made, seen>>
    <2>1. StoreJob(RejectAllowed(e, a.why), RejectReceived(e, a.why), ok)
      BY DEF Refuse
    <2> HIDE DEF e, a
    <2> QED
      BY <1>1, <1>2, <1>4, <2>1, RejectJob
  <1>6. CASE ok
    <2>1. Becomes(s, AfterRefusing(b))
      BY <1>6 DEF Refuse
    <2> HIDE DEF b
    <2>2. /\ AfterRefusing(b) \in ActorOf(s) /\ StepData(AfterRefusing(b))
          /\ AfterRefusing(b).pc \in {"refuse", "client", "idle"}
      BY <1>1, <1>3, AfterRefusingTyped
    <2>3. AfterRefusing(b).pc \notin TurnSteps
      BY <2>2 DEF TurnSteps
    <2> QED
      BY <1>4, <1>5, <2>1, <2>2, <2>3, ActorSettles
  <1>7. CASE ~ok
    <2>1. Becomes(s, Finished(a, FALSE))
      BY <1>7 DEF Refuse
    <2>2. /\ Finished(a, FALSE) \in ActorOf(s) /\ StepData(Finished(a, FALSE))
          /\ Finished(a, FALSE).pc \notin TurnSteps
      BY <1>1, FinishedTyped DEF TurnSteps
    <2> QED
      BY <1>4, <1>5, <2>1, <2>2, ActorSettles
  <1> QED
    BY <1>6, <1>7

\* A media message is stored and settled without a turn.
LEMMA PrepareMediaOK ==
    ASSUME SInv, NEW s \in Scope, NEW ok \in BOOLEAN, PrepareMedia(s, ok) PROVE SInv'
  <1> DEFINE a == actor[s]
             x == IF a.batch = <<>> THEN "idle" ELSE IF ok THEN "debounce" ELSE "permit"
             y == IF a.batch = <<>> /\ ~ok THEN "failed" ELSE a.shown
             b == [a EXCEPT !.item = None, !.pc = x, !.shown = y]
  <1>1. /\ a \in ActorOf(s) /\ a.pc = "media" /\ a.item # None /\ KindOf[a.item] = "media"
        /\ a.item \in Event
    BY ActorTyped DEF PrepareMedia, At, StepData, ActorOf, Of
  <1>2. UNCHANGED Rest /\ UNCHANGED <<submitted, final, delivered>>
    BY DEF PrepareMedia, Rest, outside
  <1>3. \/ StoreJob(RejectAllowed(a.item, "policy"), RejectReceived(a.item, "policy"), ok)
        \/ StoreJob(CompleteAllowed(a.item), CompleteReceived(a.item, None), ok)
    BY DEF PrepareMedia
  <1>4. "policy" \in Refusals
    BY DEF Refusals
  <1>5. Anyone /\ Spends /\ UNCHANGED <<thread, made, seen>>
    <2> HIDE DEF a
    <2> QED
      BY <1>1, <1>2, <1>3, <1>4, RejectJob, CompleteJob
  <1>6. Becomes(s, b)
    BY DEF PrepareMedia
  <1>7. x \in ActorSteps /\ x \notin TurnSteps /\ y \in {"idle", "failed", "busy"}
    BY <1>1 DEF ActorSteps, TurnSteps, ActorOf
  <1>8. x \in {"idle", "debounce", "permit"} /\ (x # "idle" => a.batch # <<>>)
    OBVIOUS
  <1> HIDE DEF x, y
  <1>9. b \in ActorOf(s) /\ b.pc = x /\ b.batch = a.batch
    BY <1>1, <1>7 DEF ActorOf
  <1> HIDE DEF b, a
  <1>10. StepData(b)
    BY <1>8, <1>9 DEF StepData, Batched
  <1> QED
    BY <1>2, <1>5, <1>6, <1>7, <1>9, <1>10, ActorSettles

\* After a control message: idle or the message it had interrupted.
LEMMA AfterControlTyped ==
    ASSUME NEW s \in Scope, NEW a \in ActorOf(s), NEW ok \in BOOLEAN
    PROVE  /\ AfterControl(a, ok) \in ActorOf(s) /\ StepData(AfterControl(a, ok))
           /\ AfterControl(a, ok).pc \notin TurnSteps
  <1>1. PICK n \in ActorOf(s) : n = NoActor /\ n.pc = "idle"
    BY NoActorTyped, Zenon
  <1>2. PICK x \in {"idle", "failed", "busy"} : x = IF ok THEN "idle" ELSE "failed"
    OBVIOUS
  <1>3. PICK m \in ActorOf(s) : m = NewActor /\ m.pc = "idle"
    <2>1. NewActor = [n EXCEPT !.live = TRUE]
      BY <1>1 DEF NewActor
    <2>2. [n EXCEPT !.live = TRUE] \in ActorOf(s) /\ [n EXCEPT !.live = TRUE].pc = "idle"
      BY <1>1 DEF ActorOf
    <2> QED
      BY <2>1, <2>2
  <1>4. PICK q \in Seq(Of(s)), c \in BOOLEAN : q = a.box /\ c = a.cancel
    BY DEF ActorOf
  <1>5. AfterControl(a, ok) = [m EXCEPT !.cancel = c, !.box = q, !.shown = x]
    BY <1>2, <1>3, <1>4 DEF AfterControl
  <1>6. /\ [m EXCEPT !.cancel = c, !.box = q, !.shown = x] \in ActorOf(s)
        /\ [m EXCEPT !.cancel = c, !.box = q, !.shown = x].pc = "idle"
    <2>1. PICK m1 \in ActorOf(s) : m1 = [m EXCEPT !.cancel = c] /\ m1.pc = "idle"
      BY <1>3, CancelTyped, Zenon
    <2>2. PICK m2 \in ActorOf(s) : m2 = [m1 EXCEPT !.box = q] /\ m2.pc = "idle"
      <3>1. [m1 EXCEPT !.box = q] \in ActorOf(s) /\ [m1 EXCEPT !.box = q].pc = m1.pc
        BY ONLY s \in Scope, q \in Seq(Of(s)), m1 \in ActorOf(s), BoxTyped, Zenon
      <3> QED
        BY ONLY <2>1, <3>1, Zenon
    <2>3. [m2 EXCEPT !.shown = x] \in ActorOf(s) /\ [m2 EXCEPT !.shown = x].pc = "idle"
      BY <2>2, ShownTyped, Zenon
    <2>4. [m EXCEPT !.cancel = c, !.box = q, !.shown = x] = [m2 EXCEPT !.shown = x]
      BY <2>1, <2>2, Zenon
    <2> QED
      BY <2>3, <2>4, Zenon
  <1> QED
    BY <1>5, <1>6 DEF StepData, TurnSteps, Batched

\* A control message is refused.
LEMMA RefuseControlOK ==
    ASSUME SInv, NEW s \in Scope, NEW ok \in BOOLEAN, RefuseControl(s, ok) PROVE SInv'
  <1> DEFINE a == actor[s]
  <1>1. a \in ActorOf(s) /\ a.item # None /\ a.item \in Event
    BY ActorTyped DEF RefuseControl, At, StepData, ActorOf, Of
  <1>2. UNCHANGED Rest /\ UNCHANGED <<submitted, final, delivered>>
    BY DEF RefuseControl, Rest, outside
  <1>3. StoreJob(RejectAllowed(a.item, "policy"), RejectReceived(a.item, "policy"), ok)
        /\ Becomes(s, AfterControl(a, ok)) /\ "policy" \in Refusals
    BY DEF RefuseControl, Refusals
  <1> HIDE DEF a
  <1>4. Anyone /\ Spends /\ UNCHANGED <<thread, made, seen>>
    BY <1>1, <1>2, <1>3, RejectJob
  <1> QED
    BY <1>1, <1>2, <1>3, <1>4, AfterControlTyped, ActorSettles

\* A control message is answered and settled at once.
LEMMA AnswerControlOK ==
    ASSUME SInv, NEW s \in Scope, NEW ok \in BOOLEAN, AnswerControl(s, ok) PROVE SInv'
  <1> DEFINE a == actor[s]
  <1>1. a \in ActorOf(s) /\ a.item # None /\ a.item \in Event
    BY ActorTyped DEF AnswerControl, At, StepData, ActorOf, Of
  <1>2. UNCHANGED Rest /\ UNCHANGED <<submitted, final, delivered>>
    BY DEF AnswerControl, Rest, outside
  <1>3. StoreJob(CompleteAllowed(a.item), CompleteReceived(a.item, "control"), ok)
        /\ Becomes(s, AfterControl(a, ok))
    BY DEF AnswerControl
  <1> HIDE DEF a
  <1>4. Anyone /\ Spends /\ UNCHANGED <<thread, made, seen>>
    BY <1>1, <1>2, <1>3, CompleteJob
  <1> QED
    BY <1>1, <1>2, <1>3, <1>4, AfterControlTyped, ActorSettles

\* Transactions on threads.
ThreadJob == /\ thread' \in [Scope -> 0..MaxThreads]
             /\ made' \in Seq(Scope) /\ Len(made') <= MaxThreads
             /\ UNCHANGED <<inbound, turns, seen>>

\* A step of the actor of s that changes the threads.
LEMMA ThreadStep ==
    ASSUME SInv, NEW s \in Scope, NEW a \in ActorOf(s), StepData(a), a.pc \notin TurnSteps,
           Becomes(s, a), ThreadJob, Spends, UNCHANGED Rest
    PROVE  SInv'
  <1>1. OfScope(s)
    BY DEF OfScope, Anyone, NothingHappens, ThreadJob, Rest, outside
  <1>2. faults' \in 0..MaxFaults
    BY SpendsTyped DEF SInv
  <1>3. MemoryOK'
    BY <1>2 DEF SInv, MemoryOK, ThreadJob, Rest, outside
  <1> QED
    BY <1>1, <1>3, PlainStep

\* The transactions on threads keep their types.
LEMMA ThreadJobs ==
    ASSUME MemoryOK, NEW s \in Scope
    PROVE  /\ UNCHANGED ledger => ThreadJob
           /\ ArchiveActiveThread(s) => ThreadJob
           /\ RecordActiveThread(s) => ThreadJob
           /\ \A i \in 0..Len(made) : ReactivateArchivedThread(s, i) => ThreadJob
  <1> USE LedgerAssumption
  <1>1. UNCHANGED ledger => ThreadJob
    BY DEF ledger, ThreadJob, MemoryOK
  <1>2. ArchiveActiveThread(s) => ThreadJob
    BY DEF ArchiveActiveThread, ThreadJob, MemoryOK
  <1>3. RecordActiveThread(s) => ThreadJob
    BY DEF RecordActiveThread, ThreadJob, MemoryOK
  <1>4. ASSUME NEW i \in 0..Len(made), ReactivateArchivedThread(s, i) PROVE ThreadJob
    BY <1>4 DEF ReactivateArchivedThread, ThreadJob, MemoryOK
  <1> QED
    BY <1>1, <1>2, <1>3, <1>4

\* /new, /resume and the other commands.
LEMMA ExecuteControlOK ==
    ASSUME SInv, NEW s \in Scope, NEW ok \in BOOLEAN, ExecuteControl(s, ok) PROVE SInv'
  <1> DEFINE a == actor[s]
             b == [a EXCEPT !.pc = "answer"]
  <1>1. a \in ActorOf(s) /\ a.item # None
    BY ActorTyped DEF ExecuteControl, At, StepData
  <1>2. UNCHANGED Rest /\ StoreJob(TRUE, ControlEffect(s, a.item), ok) /\ Becomes(s, b)
    BY DEF ExecuteControl
  <1>3. "answer" \in ActorSteps
    BY DEF ActorSteps
  <1>4. b \in ActorOf(s) /\ b.pc = "answer" /\ b.item = a.item
    BY <1>1, <1>3 DEF ActorOf
  <1> HIDE DEF b
  <1>5. StepData(b) /\ b.pc \notin TurnSteps
    BY <1>1, <1>4 DEF StepData, TurnSteps, Batched
  <1> HIDE DEF a
  <1>6. MemoryOK
    BY DEF SInv
  <1>7. ControlEffect(s, a.item) => ThreadJob
    BY <1>6, ThreadJobs DEF ControlEffect, NewControl, ResumeControl
  <1>8. ThreadJob /\ Spends
    BY <1>2, <1>6, <1>7, ThreadJobs DEF StoreJob, Spends
  <1> QED
    BY <1>2, <1>4, <1>5, <1>8, ThreadStep

\* thread/start and record_active_thread.
LEMMA StartThreadOK ==
    ASSUME SInv, NEW s \in Scope, NEW ok \in BOOLEAN, StartThread(s, ok) PROVE SInv'
  <1> DEFINE a == actor[s]
             b == [a EXCEPT !.pc = "subscribe"]
  <1>1. a \in ActorOf(s) /\ a.batch # <<>>
    BY ActorTyped DEF StartThread, At, StepData, Batched
  <1>2. UNCHANGED Rest /\ StoreJob(TRUE, RecordActiveThread(s), ok)
    BY DEF StartThread
  <1>3. Becomes(s, b) \/ Becomes(s, Finished(a, FALSE))
    BY DEF StartThread
  <1>4. "subscribe" \in ActorSteps
    BY DEF ActorSteps
  <1>5. b \in ActorOf(s) /\ b.pc = "subscribe" /\ b.batch = a.batch
    BY <1>1, <1>4 DEF ActorOf
  <1> HIDE DEF b
  <1>6. StepData(b) /\ b.pc \notin TurnSteps
    BY <1>1, <1>5 DEF StepData, TurnSteps
  <1>7. ThreadJob /\ Spends
    BY <1>2, ThreadJobs DEF StoreJob, Spends, SInv
  <1>8. /\ Finished(a, FALSE) \in ActorOf(s) /\ StepData(Finished(a, FALSE))
        /\ Finished(a, FALSE).pc \notin TurnSteps
    BY <1>1, FinishedTyped DEF TurnSteps
  <1> QED
    BY <1>2, <1>3, <1>5, <1>6, <1>7, <1>8, ThreadStep

\* A thread Codex does not know any more is archived.
LEMMA AbandonThreadOK ==
    ASSUME SInv, NEW s \in Scope, NEW ok \in BOOLEAN, AbandonThread(s, ok) PROVE SInv'
  <1> DEFINE a == actor[s]
             open == {t \in LiveTurns : turns[t].scope = s /\ turns[t].thread = thread[s]}
             b == [a EXCEPT !.pc = "fresh"]
             c == IF ~ok THEN Finished(a, FALSE) ELSE IF open = {} THEN b ELSE a
  <1>1. a \in ActorOf(s) /\ a.batch # <<>> /\ a.pc = "abandon" /\ StepData(a)
    BY ActorTyped DEF AbandonThread, At, StepData, Batched
  <1>2. /\ UNCHANGED Rest /\ Becomes(s, c)
        /\ StoreJob(TRUE, IF open = {} THEN ArchiveActiveThread(s)
                          ELSE ResolveTurn(Min(open), "interrupted"), ok)
    BY DEF AbandonThread
  <1>3. b \in ActorOf(s) /\ StepData(b) /\ b.pc = "fresh"
    <2>1. b \in ActorOf(s) /\ b.pc = "fresh" /\ b.batch = a.batch
      BY <1>1 DEF ActorOf, ActorSteps
    <2> HIDE DEF b
    <2> QED
      BY <1>1, <2>1 DEF StepData
  <1>4. c \in ActorOf(s) /\ StepData(c) /\ c.pc \notin TurnSteps
    <2>1. c = b \/ c = a \/ c = Finished(a, FALSE)
      OBVIOUS
    <2> HIDE DEF c, b
    <2> QED
      BY <1>1, <1>3, <2>1, FinishedTyped DEF TurnSteps
  <1>5. CASE UNCHANGED ledger \/ ArchiveActiveThread(s)
    <2>1. ThreadJob
      BY <1>5, ThreadJobs DEF SInv
    <2>2. Spends
      BY <1>2 DEF StoreJob, Spends
    <2> HIDE DEF c
    <2> QED
      BY <1>2, <1>4, <2>1, <2>2, ThreadStep
  <1>6. CASE open # {} /\ ResolveTurn(Min(open), "interrupted") /\ Spends
    <2>1. Min(open) \in open
      <3>1. open \in SUBSET Nat
        BY DEF LiveTurns, TurnId
      <3> HIDE DEF open
      <3>2. \E n \in open : \A m \in open : n <= m
        BY <1>6, <3>1, LeastNat
      <3> QED
        BY <3>2 DEF Min
    <2>2. PICK t : t = Min(open) /\ t \in TurnId /\ Open(s, t)
      BY <2>1 DEF LiveTurns, Open
    <2>3. Resolves(s, t, "interrupted")
      BY <1>2, <1>6, <2>2 DEF Resolves, ResolveTurn, Rest, outside, Resolutions
    <2>4. OfScope(s)
      BY <2>2, <2>3 DEF OfScope
    <2>5. MemoryOK'
      BY <1>2, <1>6, MemoryKept DEF SInv, ResolveTurn, Rest, outside
    <2> HIDE DEF c
    <2> QED
      BY <1>2, <1>4, <2>4, <2>5, PlainStep
  <1> QED
    BY <1>2, <1>5, <1>6 DEF StoreJob, Spends

\* A step that ends in a turn.
LEMMA TurnStep ==
    ASSUME SInv, NEW s \in Scope, NEW a \in ActorOf(s), StepData(a), Becomes(s, a),
           OfScope(s), MemoryOK',
           a.turn \in TurnId, turns'[a.turn].scope = s, turns'[a.turn].state \in Unresolved,
           a.pc = "resolve" => a.turn \in final' \/ Empty(a),
           a.pc = "assemble" =>
               \A e \in Elems(a.batch) : inbound'[e].turn = a.turn /\ submitted'[e] = 0,
           a.pc = "sent" =>
               \A e \in Elems(a.batch) : inbound'[e].turn = a.turn /\ submitted'[e] = 1
    PROVE  SInv'
  <1>1. actor'[s] = a
    BY Lands
  <1>2. StepData(actor[s])'
    BY <1>1 DEF StepData
  <1>3. OwnTurn(s, actor[s])'
    BY <1>1 DEF OwnTurn, Elems, Empty
  <1>4. ActorOK(s)'
    BY <1>1, <1>2, <1>3 DEF ActorOK
  <1> QED
    BY <1>4, ActorSteps1

\* A step between two points of a turn that leaves the rows alone.
LEMMA TurnGoesOn ==
    ASSUME SInv, NEW s \in Scope, NEW a \in ActorOf(s), StepData(a), Becomes(s, a),
           a.pc \notin {"resolve", "assemble", "sent"}, a.turn = actor[s].turn,
           actor[s].pc \in TurnSteps, NothingHappens, MemoryOK'
    PROVE  SInv'
  <1>1. OfScope(s)
    BY DEF OfScope, Anyone
  <1>2. /\ a.turn \in TurnId /\ turns'[a.turn].scope = s /\ turns'[a.turn].state \in Unresolved
    BY ActorTyped DEF OwnTurn, NothingHappens
  <1> QED
    BY <1>1, <1>2, TurnStep

\* A turn that is to be finalised has a result.
LEMMA EndsTyped ==
    ASSUME NEW s \in Scope, NEW a \in ActorOf(s), NEW res \in Resolutions, NEW wait \in BOOLEAN
    PROVE  /\ Ends(a, res, wait) \in ActorOf(s) /\ StepData(Ends(a, res, wait))
           /\ Ends(a, res, wait).pc = "final" /\ Ends(a, res, wait).turn = a.turn
  <1>1. "final" \in ActorSteps /\ res # None
    BY DEF ActorSteps, Resolutions, None
  <1>2. /\ Ends(a, res, wait) \in ActorOf(s)
        /\ Ends(a, res, wait).pc = "final" /\ Ends(a, res, wait).turn = a.turn
        /\ Ends(a, res, wait).res = res
    BY <1>1 DEF Ends, ActorOf
  <1> QED
    BY <1>1, <1>2 DEF StepData, Batched

\* A turn is to be finalised.
LEMMA EndsOK ==
    ASSUME SInv, NEW s \in Scope, NEW res \in Resolutions, NEW wait \in BOOLEAN,
           actor[s].pc \in TurnSteps, Becomes(s, Ends(actor[s], res, wait)),
           NothingHappens, MemoryOK'
    PROVE  SInv'
  <1>1. /\ Ends(actor[s], res, wait) \in ActorOf(s) /\ StepData(Ends(actor[s], res, wait))
        /\ Ends(actor[s], res, wait).pc = "final"
        /\ Ends(actor[s], res, wait).turn = actor[s].turn
    BY ActorTyped, EndsTyped
  <1> QED
    BY <1>1, TurnGoesOn

\* begin_turn_and_claim_inbound_live: what is claimed was never submitted.
LEMMA ClaimOK == ASSUME SInv, NEW s \in Scope, NEW ok \in BOOLEAN, Claim(s, ok) PROVE SInv'
  <1> DEFINE a == actor[s]
             C == Claimable(Elems(a.batch))
             b(t) == [a EXCEPT !.turn = t, !.pc = "assemble", !.batch = Filtered(@, C)]
  <1>1. a \in ActorOf(s) /\ a.batch # <<>> /\ a.batch \in Seq(Of(s))
    BY ActorTyped DEF Claim, At, StepData, Batched, ActorOf
  <1>2. UNCHANGED Rest
    BY DEF Claim
  <1>3. CASE UNCHANGED ledger /\ Spends /\ (\E g \in BOOLEAN : Becomes(s, Finished(a, g)))
    BY <1>2, <1>3, GivesUp
  <1>4. ASSUME NEW t \in TurnId, IsNewTurn(t), C # {},
               BeginTurnAndClaim(s, Elems(a.batch), t), Becomes(s, b(t)), UNCHANGED faults
        PROVE  SInv'
    <2>1. C \subseteq Of(s) /\ C \subseteq Rows({"received"}) /\ C \subseteq Event
      BY <1>1 DEF Claimable, Elems, Of, Rows
    <2>2. thread[s] \in 0..MaxThreads /\ RowsOK /\ MemoryOK /\ turns \in [TurnId -> TurnRow]
      BY DEF SInv, MemoryOK, RowsOK, RowTypes
    <2>3. /\ turns' = [turns EXCEPT ![t] = [state |-> "starting", scope |-> s,
                                          thread |-> thread[s], count |-> Cardinality(C)]]
          /\ inbound' = [e \in Event |-> IF e \in C
                                       THEN [inbound[e] EXCEPT !.state = "accepted", !.turn = t]
                                       ELSE inbound[e]]
          /\ UNCHANGED <<thread, made, seen>>
      BY <1>4 DEF BeginTurnAndClaim
    <2>4. PICK q \in Seq(Of(s)) : q = Filtered(a.batch, C) /\ q \in Seq(C)
      <3>1. Filtered(a.batch, C) \in Seq(Of(s) \cap C)
        BY <1>1, FilteredIn, Zenon
      <3>2. Filtered(a.batch, C) \in Seq(Of(s)) /\ Filtered(a.batch, C) \in Seq(C)
        BY <3>1
      <3> QED
        BY <3>2, Zenon
    <2>5. PICK d : d = [a EXCEPT !.turn = t, !.pc = "assemble", !.batch = q]
      OBVIOUS
    <2>6. Becomes(s, d)
      BY <1>4, <2>4, <2>5
    <2> HIDE DEF C
    <2>7. Begins(s, C, t)
      BY <1>2, <1>4, <2>1, <2>2, <2>3 DEF Begins, IsNewTurn, Rest, outside
    <2>8. OfScope(s)
      BY <2>7 DEF OfScope
    <2>9. MemoryOK'
      BY <1>2, <1>4, <2>2, <2>3, MemoryKept DEF Rest, outside, Spends
    <2> HIDE DEF a
    <2>10. d \in ActorOf(s) /\ d.turn = t /\ d.pc = "assemble" /\ d.batch = q
      <3>1. "assemble" \in ActorSteps
        BY DEF ActorSteps
      <3> QED
        BY <1>1, <2>5, <3>1 DEF ActorOf
    <2>11. StepData(d)
      BY <2>10 DEF StepData, Batched
    <2>12. turns'[t].scope = s /\ turns'[t].state \in Unresolved
      BY <2>2, <2>3 DEF Unresolved
    <2>13. ASSUME NEW e \in Elems(q) PROVE inbound'[e].turn = t /\ submitted'[e] = 0
      <3>1. e \in C /\ e \in Event /\ inbound[e].state = "received"
        BY <2>1, <2>4 DEF Elems, Rows
      <3>2. inbound[e] \in InboundRow /\ submitted[e] = 0
        BY <3>1, <2>2 DEF RowsOK, RowTypes, Fresh
      <3>3. inbound'[e] = [inbound[e] EXCEPT !.state = "accepted", !.turn = t]
        BY <2>3, <3>1
      <3> QED
        BY <1>2, <3>2, <3>3 DEF InboundRow, Rest, outside
    <2> QED
      BY <2>6, <2>8, <2>9, <2>10, <2>11, <2>12, <2>13, TurnStep
  <1>5. CASE C = {} /\ ok /\ Becomes(s, Finished(a, TRUE)) /\ UNCHANGED <<ledger, faults>>
    BY <1>3, <1>5 DEF Spends
  <1>6. ASSUME NEW t \in TurnId, IsNewTurn(t), C # {},
               StoreJob(TurnRoom, BeginTurnAndClaim(s, Elems(a.batch), t), ok),
               Becomes(s, IF ~ok THEN Finished(a, FALSE) ELSE b(t))
        PROVE  SInv'
    <2>1. CASE ok
      <3>1. Becomes(s, b(t)) /\ BeginTurnAndClaim(s, Elems(a.batch), t) /\ UNCHANGED faults
        BY <1>6, <2>1 DEF StoreJob
      <3> QED
        BY <1>4, <1>6, <3>1
    <2>2. CASE ~ok
      <3>1. Becomes(s, Finished(a, FALSE)) /\ UNCHANGED ledger /\ Spends
        BY <1>6, <2>2 DEF StoreJob, Spends
      <3> QED
        BY <1>3, <3>1
    <2> QED
      BY <2>1, <2>2
  <1> QED
    BY <1>5, <1>6 DEF Claim

\* The input of a claimed turn cannot be built.
LEMMA AssembleFailsOK == ASSUME SInv, NEW s \in Scope, AssembleFails(s) PROVE SInv'
  <1>1. /\ actor[s].pc \in TurnSteps /\ "failed" \in Resolutions
        /\ Becomes(s, Ends(actor[s], "failed", FALSE))
    BY DEF AssembleFails, At, TurnSteps, Resolutions
  <1>2. NothingHappens /\ Spends /\ UNCHANGED <<thread, made, seen, Rest>>
    BY DEF AssembleFails, NothingHappens, Spends, ledger, Rest, outside
  <1>3. MemoryOK'
    BY <1>2, MemoryKept DEF SInv, Rest, outside
  <1> QED
    BY <1>1, <1>2, <1>3, EndsOK

\* The turn is over, or its connection is.
LEMMA RunEndsOK == ASSUME SInv, NEW s \in Scope, RunEnds(s) PROVE SInv'
  <1>1. /\ actor[s].pc \in TurnSteps /\ "uncertain" \in Resolutions
        /\ \/ actor[s].event # None /\ Becomes(s, Ends(actor[s], actor[s].event, FALSE))
           \/ Becomes(s, Ends(actor[s], "uncertain", TRUE))
    BY DEF RunEnds, At, TurnSteps, Resolutions
  <1>2. NothingHappens /\ Spends /\ UNCHANGED <<thread, made, seen, Rest>>
    BY DEF RunEnds, NothingHappens, Spends, ledger, Rest, outside
  <1>3. MemoryOK'
    BY <1>2, MemoryKept DEF SInv, Rest, outside
  <1>4. actor[s].event # None => actor[s].event \in Resolutions
    BY ActorTyped DEF ActorOf
  <1> QED
    BY <1>1, <1>2, <1>3, <1>4, EndsOK

\* turn/start went out and no answer came back.
LEMMA StartUnknownOK == ASSUME SInv, NEW s \in Scope, StartUnknown(s) PROVE SInv'
  <1>1. /\ actor[s].pc \in TurnSteps /\ "uncertain" \in Resolutions
        /\ Becomes(s, Ends(actor[s], "uncertain", TRUE))
    BY DEF StartUnknown, At, TurnSteps, Resolutions
  <1>2. /\ NothingHappens /\ Spends
        /\ UNCHANGED <<thread, made, seen, proc, queue, retries, eviction>>
    BY DEF StartUnknown, NothingHappens, Spends, ledger
  <1>3. MemoryOK'
    <2>1. MemoryOK /\ faults' \in 0..MaxFaults
      BY <1>2, SpendsTyped DEF SInv
    <2>2. UNCHANGED <<codex, exec>> \/ ConnectionEnds
      BY DEF StartUnknown
    <2>3. codex' \in [epoch: Nat, client: BOOLEAN, terminal: BOOLEAN] /\ exec' \subseteq TurnId
      <3>1. codex \in [epoch: Nat, client: BOOLEAN, terminal: BOOLEAN] /\ exec \subseteq TurnId
        BY <2>1 DEF MemoryOK
      <3>2. [codex EXCEPT !.client = FALSE, !.epoch = @ + 1] \in
                [epoch: Nat, client: BOOLEAN, terminal: BOOLEAN]
        <4>1. PICK c \in [epoch: Nat, client: BOOLEAN, terminal: BOOLEAN], n \in Nat :
                  c = codex /\ n = codex.epoch + 1
          BY <3>1
        <4>2. [c EXCEPT !.client = FALSE, !.epoch = n] \in
                  [epoch: Nat, client: BOOLEAN, terminal: BOOLEAN]
          OBVIOUS
        <4> QED
          BY <4>1, <4>2
      <3> QED
        BY <2>2, <3>1, <3>2 DEF ConnectionEnds
    <2> QED
      BY <1>2, <2>1, <2>3 DEF MemoryOK
  <1> QED
    BY <1>1, <1>2, <1>3, EndsOK

\* turn/start: the one place where a batch is submitted, from rows never submitted.
LEMMA SendStartOK == ASSUME SInv, NEW s \in Scope, SendStart(s) PROVE SInv'
  <1> DEFINE a == actor[s]
             E == Elems(a.batch)
             b == [a EXCEPT !.pc = "sent"]
  <1>1. a \in ActorOf(s) /\ a.pc = "assemble" /\ OwnTurn(s, a)
    BY ActorTyped DEF SendStart, At
  <1>2. /\ a.turn \in TurnId /\ turns[a.turn].scope = s /\ turns[a.turn].state \in Unresolved
        /\ \A e \in E : inbound[e].turn = a.turn /\ submitted[e] = 0
    BY <1>1 DEF OwnTurn, TurnSteps
  <1>3. E \subseteq Event
    BY <1>1 DEF Elems, ActorOf, Of
  <1>4. UNCHANGED <<ledger, proc, queue, retries, eviction, codex, delivered, final>>
    BY DEF SendStart
  <1>5. exec' \subseteq TurnId /\ Spends
    BY <1>2 DEF SendStart, SInv, MemoryOK, Spends
  <1>6. MemoryOK'
    <2>1. MemoryOK /\ faults' \in 0..MaxFaults
      BY <1>5, SpendsTyped DEF SInv
    <2> QED
      BY <1>4, <1>5, <2>1 DEF MemoryOK, ledger
  <1>7. CASE Becomes(s, Ends(a, "uncertain", TRUE)) /\ UNCHANGED submitted
    <2>1. a.pc \in TurnSteps /\ "uncertain" \in Resolutions
      BY <1>1 DEF TurnSteps, Resolutions
    <2>2. NothingHappens
      BY <1>4, <1>7 DEF NothingHappens, ledger
    <2> QED
      BY <1>6, <1>7, <2>1, <2>2, EndsOK
  <1>8. CASE /\ Becomes(s, b)
             /\ submitted' = [e \in Event |-> submitted[e] + IF e \in E THEN 1 ELSE 0]
    <2>1. submitted \in [Event -> {0, 1}]
      BY DEF SInv, RowsOK, RowTypes
    <2> HIDE DEF E
    <2>2. submitted' = [e \in Event |-> IF e \in E THEN 1 ELSE submitted[e]]
      BY <1>2, <1>3, <1>8, <2>1
    <2>3. Counts(s, a.turn, E, 1)
      BY <1>2, <1>3, <1>4, <2>2 DEF Counts, Open, Linked, ledger
    <2>4. OfScope(s)
      BY <1>2, <2>3 DEF OfScope
    <2>5. b \in ActorOf(s) /\ b.turn = a.turn /\ b.pc = "sent" /\ b.batch = a.batch
      BY <1>1 DEF ActorOf, ActorSteps
    <2> HIDE DEF b
    <2>6. StepData(b)
      BY <2>5 DEF StepData, Batched
    <2>7. \A e \in Elems(b.batch) : inbound'[e].turn = b.turn /\ submitted'[e] = 1
      BY <1>2, <1>3, <1>4, <2>2, <2>5 DEF ledger, E
    <2>8. turns' = turns
      BY <1>4 DEF ledger
    <2> QED
      BY <1>2, <1>6, <1>8, <2>4, <2>5, <2>6, <2>7, <2>8, TurnStep
  <1> QED
    BY <1>7, <1>8 DEF SendStart

\* Codex accepts or refuses turn/start; a refusal takes the submission back.
LEMMA StartAnsweredOK == ASSUME SInv, NEW s \in Scope, StartAnswered(s) PROVE SInv'
  <1> DEFINE a == actor[s]
             E == Elems(a.batch)
             b == [a EXCEPT !.pc = "mark"]
  <1>1. a \in ActorOf(s) /\ a.pc = "sent" /\ OwnTurn(s, a)
    BY ActorTyped DEF StartAnswered, At
  <1>2. /\ a.turn \in TurnId /\ turns[a.turn].scope = s /\ turns[a.turn].state \in Unresolved
        /\ \A e \in E : inbound[e].turn = a.turn /\ submitted[e] = 1
    BY <1>1 DEF OwnTurn, TurnSteps
  <1>3. E \subseteq Event /\ a.pc \in TurnSteps
    BY <1>1 DEF Elems, ActorOf, Of, TurnSteps
  <1>4. UNCHANGED <<ledger, proc, queue, retries, eviction, codex, exec, delivered, final, faults>>
    BY DEF StartAnswered
  <1>5. MemoryOK'
    BY <1>4, MemoryKept DEF SInv, ledger, Spends
  <1>6. CASE Becomes(s, b) /\ UNCHANGED submitted
    <2>1. b \in ActorOf(s) /\ b.turn = a.turn /\ b.pc = "mark"
      BY <1>1 DEF ActorOf, ActorSteps
    <2> HIDE DEF b
    <2>2. StepData(b)
      BY <2>1 DEF StepData, Batched
    <2>3. NothingHappens
      BY <1>4, <1>6 DEF NothingHappens, ledger
    <2> QED
      BY <1>3, <1>5, <1>6, <2>1, <2>2, <2>3, TurnGoesOn
  <1>7. CASE /\ Becomes(s, Ends(a, "failed", FALSE))
             /\ submitted' = [e \in Event |-> submitted[e] - IF e \in E THEN 1 ELSE 0]
    <2>1. submitted \in [Event -> {0, 1}] /\ "failed" \in Resolutions
      BY DEF SInv, RowsOK, RowTypes, Resolutions
    <2> HIDE DEF E
    <2>2. submitted' = [e \in Event |-> IF e \in E THEN 0 ELSE submitted[e]]
      BY <1>2, <1>3, <1>7, <2>1
    <2>3. Counts(s, a.turn, E, 0)
      BY <1>2, <1>3, <1>4, <2>2 DEF Counts, Open, Linked, ledger
    <2>4. OfScope(s)
      BY <1>2, <2>3 DEF OfScope
    <2>5. /\ Ends(a, "failed", FALSE) \in ActorOf(s) /\ StepData(Ends(a, "failed", FALSE))
          /\ Ends(a, "failed", FALSE).pc = "final" /\ Ends(a, "failed", FALSE).turn = a.turn
      BY <1>1, <2>1, EndsTyped
    <2>6. turns' = turns
      BY <1>4 DEF ledger
    <2> QED
      BY <1>2, <1>5, <1>7, <2>4, <2>5, <2>6, TurnStep
  <1> QED
    BY <1>6, <1>7 DEF StartAnswered

\* set_turn_state(Running), done or failed.
LEMMA MarkRunningOK ==
    ASSUME SInv, NEW s \in Scope, NEW ok \in BOOLEAN, MarkRunning(s, ok) PROVE SInv'
  <1> DEFINE a == actor[s]
             b == [a EXCEPT !.pc = "run"]
  <1>1. a \in ActorOf(s) /\ a.pc = "mark" /\ OwnTurn(s, a)
    BY ActorTyped DEF MarkRunning, At
  <1>2. /\ a.turn \in TurnId /\ turns[a.turn].scope = s /\ turns[a.turn].state \in Unresolved
        /\ a.pc \in TurnSteps
    BY <1>1 DEF OwnTurn, TurnSteps
  <1>3. UNCHANGED Rest
    BY DEF MarkRunning
  <1>4. CASE Becomes(s, b) /\ SetTurnRunning(a.turn) /\ UNCHANGED faults
    <2>1. b \in ActorOf(s) /\ b.turn = a.turn /\ b.pc = "run"
      BY <1>1 DEF ActorOf, ActorSteps
    <2> HIDE DEF b
    <2>2. StepData(b)
      BY <2>1 DEF StepData, Batched
    <2>3. Runs(s, a.turn)
      BY <1>2, <1>3, <1>4 DEF Runs, Open, SetTurnRunning, Rest, outside
    <2>4. OfScope(s)
      BY <1>2, <2>3 DEF OfScope
    <2>5. MemoryOK'
      BY <1>3, <1>4, MemoryKept DEF SInv, SetTurnRunning, Rest, outside, Spends
    <2>6. turns'[a.turn].scope = s /\ turns'[a.turn].state \in Unresolved
      BY <1>2, <2>3 DEF Runs, SInv, RowsOK, RowTypes, TurnRow, Unresolved
    <2> QED
      BY <1>2, <1>4, <2>1, <2>2, <2>4, <2>5, <2>6, TurnStep
  <1>5. CASE Becomes(s, Ends(a, "uncertain", TRUE)) /\ UNCHANGED ledger /\ Spends
    <2>1. NothingHappens /\ "uncertain" \in Resolutions
      BY <1>3, <1>5 DEF NothingHappens, ledger, Rest, outside, Resolutions
    <2>2. MemoryOK'
      BY <1>3, <1>5, MemoryKept DEF SInv, ledger, Rest, outside
    <2> QED
      BY <1>2, <1>5, <2>1, <2>2, EndsOK
  <1> QED
    BY <1>4, <1>5 DEF MarkRunning, StoreJob, Spends

\* The final reply is durable before the turn is resolved.
LEMMA PersistFinalOK == ASSUME SInv, NEW s \in Scope, PersistFinal(s) PROVE SInv'
  <1> DEFINE a == actor[s]
             b == [a EXCEPT !.pc = "resolve"]
  <1>1. a \in ActorOf(s) /\ a.pc = "final" /\ OwnTurn(s, a) /\ a.res # None
    BY ActorTyped DEF PersistFinal, At, StepData
  <1>2. /\ a.turn \in TurnId /\ turns[a.turn].scope = s /\ turns[a.turn].state \in Unresolved
    BY <1>1 DEF OwnTurn, TurnSteps
  <1>3. UNCHANGED <<ledger, proc, queue, retries, eviction, outside>>
    BY DEF PersistFinal
  <1>4. CASE /\ Becomes(s, b) /\ UNCHANGED faults
             /\ final' = (IF Empty(a) THEN final ELSE final \cup {a.turn})
    <2>1. b \in ActorOf(s) /\ b.turn = a.turn /\ b.pc = "resolve" /\ b.res = a.res
      BY <1>1 DEF ActorOf, ActorSteps
    <2> HIDE DEF b
    <2>2. StepData(b)
      BY <1>1, <2>1 DEF StepData, Batched
    <2>3. Finals(a.turn) \/ NothingHappens
      BY <1>2, <1>3, <1>4 DEF Finals, NothingHappens, ledger, outside
    <2>4. OfScope(s)
      BY <1>2, <2>3 DEF OfScope, Anyone
    <2>5. MemoryOK'
      BY <1>3, <1>4, MemoryKept DEF SInv, ledger, outside, Spends
    <2>6. turns' = turns /\ (a.turn \in final' \/ Empty(b))
      BY <1>3, <1>4, <2>1 DEF ledger, Empty
    <2> QED
      BY <1>2, <1>4, <2>1, <2>2, <2>4, <2>5, <2>6, TurnStep
  <1>5. CASE Fault("sink") /\ Becomes(s, Finished(a, FALSE)) /\ UNCHANGED final
    BY <1>3, <1>5, GivesUp DEF Spends, Rest
  <1> QED
    BY <1>4, <1>5 DEF PersistFinal

\* resolve_turn_and_finish_inbound_batch, done or failed.
LEMMA ConcludeOK ==
    ASSUME SInv, NEW s \in Scope, NEW ok \in BOOLEAN, Conclude(s, ok) PROVE SInv'
  <1> DEFINE a == actor[s]
             b == [a EXCEPT !.pc = "settle"]
             c == IF ok /\ a.wait THEN b ELSE Finished(a, ok)
  <1>1. a \in ActorOf(s) /\ a.pc = "resolve" /\ OwnTurn(s, a) /\ a.res # None
    BY ActorTyped DEF Conclude, At, StepData
  <1>2. /\ a.turn \in TurnId /\ turns[a.turn].scope = s /\ turns[a.turn].state \in Unresolved
        /\ a.turn \in final \/ Empty(a)
        /\ a.res \in Resolutions
    BY <1>1 DEF OwnTurn, TurnSteps, ActorOf
  <1>3. UNCHANGED Rest /\ Becomes(s, c)
    BY DEF Conclude
  <1>4. c \in ActorOf(s) /\ StepData(c) /\ c.pc \notin TurnSteps
    <2>1. b \in ActorOf(s) /\ b.pc = "settle"
      BY <1>1 DEF ActorOf, ActorSteps
    <2>2. StepData(b) /\ b.pc \notin TurnSteps
      BY <2>1 DEF StepData, Batched, TurnSteps
    <2>3. c = b \/ c = Finished(a, ok)
      OBVIOUS
    <2> HIDE DEF b, c
    <2> QED
      BY <1>1, <2>1, <2>2, <2>3, FinishedTyped DEF TurnSteps
  <1> HIDE DEF c
  <1>5. CASE UNCHANGED ledger /\ Spends
    BY <1>3, <1>4, <1>5, QuietStep
  <1>6. CASE ResolveTurn(a.turn, a.res) /\ UNCHANGED faults
    <2>1. Resolves(s, a.turn, a.res)
      BY <1>2, <1>3, <1>6 DEF Resolves, Open, ResolveTurn, Rest, outside, Empty
    <2>2. OfScope(s)
      BY <1>2, <2>1 DEF OfScope
    <2>3. MemoryOK'
      BY <1>3, <1>6, MemoryKept DEF SInv, ResolveTurn, Rest, outside, Spends
    <2> QED
      BY <1>3, <1>4, <2>2, <2>3, PlainStep
  <1> QED
    BY <1>5, <1>6 DEF Conclude, StoreJob, Spends

-----------------------------------------------------------------------------
(* Part 6. The receipt boundary, the router, Codex and the process.        *)

\* An actor whose mailbox, cancellation or event changed goes on as before.
LEMMA ActorTouched ==
    ASSUME NEW s \in Scope, ActorOK(s), Keeps(s), actor'[s] \in ActorOf(s),
           actor'[s].pc = actor[s].pc, actor'[s].item = actor[s].item,
           actor'[s].batch = actor[s].batch, actor'[s].refuse = actor[s].refuse,
           actor'[s].why = actor[s].why, actor'[s].turn = actor[s].turn,
           actor'[s].res = actor[s].res
    PROVE  ActorOK(s)'
  <1> DEFINE a == actor[s]
  <1>1. a \in ActorOf(s) /\ StepData(a) /\ OwnTurn(s, a)
    BY DEF ActorOK
  <1>2. StepData(actor[s])'
    BY <1>1 DEF StepData
  <1>3. a.batch \in Seq(Event)
    BY <1>1 DEF ActorOf, Of
  <1>4. \A e \in Elems(a.batch) : e \in Event
    BY <1>3 DEF Elems
  <1>5. a.pc \in TurnSteps => Open(s, a.turn)
    BY <1>1 DEF OwnTurn, Open
  <1>6. OwnTurn(s, actor[s])'
    <2>1. a.pc \in TurnSteps =>
             /\ a.turn \in TurnId
             /\ turns'[a.turn].scope = s /\ turns'[a.turn].state \in Unresolved
      BY <1>5 DEF Keeps, Open
    <2>2. a.pc = "resolve" => a.turn \in final' \/ Empty(a)
      BY <1>1 DEF OwnTurn, Keeps
    <2>3. a.pc \in {"assemble", "sent"} =>
             \A e \in Elems(a.batch) : inbound[e].turn = a.turn =>
                  inbound'[e].turn = a.turn /\ submitted'[e] = submitted[e]
      BY <1>4, <1>5 DEF Keeps, Open, Linked, TurnSteps
    <2> QED
      BY <1>1, <2>1, <2>2, <2>3 DEF OwnTurn, Elems, Empty
  <1> QED
    BY <1>2, <1>6 DEF ActorOK

\* A step of the receipt boundary, the router, Codex or the process.
LEMMA OtherStep ==
    ASSUME SInv, Anyone, MemoryOK', actor' = [s \in Scope |-> actor'[s]],
           \A s \in Scope : Keeps(s) => ActorOK(s)'
    PROVE  SInv'
  <1>1. PICK s \in Scope : TRUE
    BY LedgerAssumption
  <1>2. OfScope(s) /\ RowsOK
    BY DEF OfScope, SInv
  <1>3. RowsOK'
    BY <1>2, RowsKept
  <1>4. \A o \in Scope : ActorOK(o)'
    BY <1>2, AnyoneKeeps
  <1> QED
    BY <1>3, <1>4 DEF SInv, ActorsOK

\* A step that moves no actor.
LEMMA ActorsAlone ==
    ASSUME SInv, Anyone, MemoryOK', UNCHANGED actor PROVE SInv'
  <1>1. ASSUME NEW s \in Scope, Keeps(s) PROVE ActorOK(s)'
    BY <1>1, ActorStays DEF SInv, ActorsOK
  <1> QED
    BY <1>1, OtherStep DEF SInv, ActorsOK

\* Cancelling every actor.
LEMMA CancelsAll ==
    ASSUME SInv, Anyone, MemoryOK', actor' = AllCancelled PROVE SInv'
  <1>1. ASSUME NEW s \in Scope, Keeps(s) PROVE ActorOK(s)'
    <2>1. actor[s] \in ActorOf(s) /\ ActorOK(s)
      BY DEF SInv, ActorsOK, ActorOK
    <2>2. PICK a \in ActorOf(s), c \in BOOLEAN : a = actor[s] /\ c = actor[s].live
      BY <2>1 DEF ActorOf
    <2>3. actor'[s] = [a EXCEPT !.cancel = c]
      BY <2>2 DEF AllCancelled
    <2>4. /\ [a EXCEPT !.cancel = c] \in ActorOf(s)
          /\ [a EXCEPT !.cancel = c].pc = a.pc /\ [a EXCEPT !.cancel = c].item = a.item
          /\ [a EXCEPT !.cancel = c].batch = a.batch /\ [a EXCEPT !.cancel = c].refuse = a.refuse
          /\ [a EXCEPT !.cancel = c].why = a.why /\ [a EXCEPT !.cancel = c].turn = a.turn
          /\ [a EXCEPT !.cancel = c].res = a.res
      BY DEF ActorOf
    <2> QED
      BY <1>1, <2>1, <2>2, <2>3, <2>4, ActorTouched
  <1>2. actor' = [s \in Scope |-> actor'[s]]
    BY DEF AllCancelled
  <1> QED
    BY <1>1, <1>2, OtherStep

\* An event in the mailbox of its own scope.
LEMMA MailedOK ==
    ASSUME SInv, NEW e \in Event, Mailed(ScopeOf[e], e), Anyone, MemoryOK' PROVE SInv'
  <1> DEFINE s == ScopeOf[e]
  <1>1. s \in Scope /\ e \in Of(s)
    BY LedgerAssumption DEF Of
  <1>2. actor = [o \in Scope |-> actor[o]] /\ \A o \in Scope : ActorOK(o)
    BY DEF SInv, ActorsOK
  <1>3. PICK a \in ActorOf(s) : a = actor[s]
    BY <1>1, <1>2 DEF ActorOK
  <1>4. /\ actor'[s] = IF a.live THEN [a EXCEPT !.box = Append(@, e)]
                       ELSE [NewActor EXCEPT !.box = <<e>>]
        /\ \A o \in Scope \ {s} : actor'[o] = actor[o]
        /\ actor' = [o \in Scope |-> actor'[o]]
    <2>1. actor' = [actor EXCEPT ![ScopeOf[e]] =
                       IF actor[ScopeOf[e]].live
                       THEN [actor[ScopeOf[e]] EXCEPT !.box = Append(@, e)]
                       ELSE [NewActor EXCEPT !.box = <<e>>]]
      BY Zenon DEF Mailed
    <2> HIDE DEF s
    <2>2. PICK x : /\ x = IF actor[s].live THEN [actor[s] EXCEPT !.box = Append(@, e)]
                         ELSE [NewActor EXCEPT !.box = <<e>>]
                   /\ actor' = [actor EXCEPT ![s] = x]
      BY <2>1, Zenon DEF s
    <2>3. actor'[s] = x /\ (\A o \in Scope \ {s} : actor'[o] = actor[o])
          /\ actor' = [o \in Scope |-> actor'[o]]
      BY <1>1, <1>2, <2>2
    <2> QED
      BY <1>3, <2>2, <2>3
  <1>5. ASSUME NEW o \in Scope, Keeps(o), o # s PROVE ActorOK(o)'
    BY <1>2, <1>4, <1>5, ActorStays
  <1>6. ASSUME Keeps(s) PROVE ActorOK(s)'
    <2>1. CASE a.live
      <3>1. PICK q \in Seq(Of(s)) : q = Append(a.box, e)
        <4>1. a.box \in Seq(Of(s))
          BY DEF ActorOf
        <4>2. Append(a.box, e) \in Seq(Of(s))
          BY <1>1, <4>1
        <4> QED
          BY <4>2, Zenon
      <3> HIDE DEF s
      <3>2. actor'[s] = [a EXCEPT !.box = q]
        BY <1>4, <2>1, <3>1
      <3>3. /\ [a EXCEPT !.box = q] \in ActorOf(s)
            /\ [a EXCEPT !.box = q].pc = a.pc /\ [a EXCEPT !.box = q].item = a.item
            /\ [a EXCEPT !.box = q].batch = a.batch /\ [a EXCEPT !.box = q].refuse = a.refuse
            /\ [a EXCEPT !.box = q].why = a.why /\ [a EXCEPT !.box = q].turn = a.turn
            /\ [a EXCEPT !.box = q].res = a.res
        BY DEF ActorOf
      <3> QED
        BY <1>1, <1>2, <1>3, <1>6, <3>2, <3>3, ActorTouched
    <2>2. CASE ~a.live
      <3>1. PICK q \in Seq(Of(s)) : q = <<e>>
        <4>1. <<e>> \in Seq(Of(s))
          BY <1>1
        <4> QED
          BY <4>1, Zenon
      <3> HIDE DEF s
      <3>2. PICK n \in ActorOf(s) : n = NoActor /\ n.pc = "idle"
        BY <1>1, NoActorTyped, Zenon
      <3>3. PICK m \in ActorOf(s) : m = NewActor /\ m.pc = "idle"
        <4>1. NewActor = [n EXCEPT !.live = TRUE]
          BY <3>2 DEF NewActor
        <4>2. [n EXCEPT !.live = TRUE] \in ActorOf(s) /\ [n EXCEPT !.live = TRUE].pc = "idle"
          BY <3>2 DEF ActorOf
        <4> QED
          BY <4>1, <4>2
      <3>4. actor'[s] = [m EXCEPT !.box = q]
        BY <1>4, <2>2, <3>1, <3>3
      <3>5. [m EXCEPT !.box = q] \in ActorOf(s) /\ [m EXCEPT !.box = q].pc = "idle"
        BY <3>3 DEF ActorOf
      <3>6. (StepData(actor[s]) /\ OwnTurn(s, actor[s]))'
        BY <3>4, <3>5 DEF StepData, OwnTurn, TurnSteps, Batched
      <3> QED
        BY <3>4, <3>5, <3>6 DEF ActorOK
    <2> QED
      BY <2>1, <2>2
  <1> HIDE DEF s
  <1>7. \A o \in Scope : Keeps(o) => ActorOK(o)'
    BY <1>5, <1>6
  <1> QED
    BY <1>4, <1>7, OtherStep

-----------------------------------------------------------------------------
(* Intake.                                                                 *)

\* register_inbound, with and without a row of its own.
LEMMA RegisterEffect ==
    ASSUME SInv, NEW e \in Event, delivered[e] < MaxDeliveries,
           delivered' = [delivered EXCEPT ![e] = @ + 1], UNCHANGED <<submitted, final>>
    PROVE  /\ Canonical(e) = {} /\ HasRoom /\ RegisterInbound(e) => Anyone
           /\ UNCHANGED ledger => Anyone
  <1>1. Canonical(e) = {} /\ HasRoom /\ RegisterInbound(e) => Registers(e)
    BY DEF RegisterInbound, Registers
  <1>2. UNCHANGED ledger => Redelivers(e)
    BY DEF ledger, Redelivers
  <1> QED
    BY <1>1, <1>2 DEF Anyone

\* A delivery that is registered, known, refused for lack of room or failed.
LEMMA DeliverOK ==
    ASSUME SInv, NEW e \in Event, NEW ok \in BOOLEAN, Deliver(e, ok) PROVE SInv'
  <1>1. /\ UNCHANGED <<proc, retries, eviction, actor, codex, exec, submitted, final>>
        /\ delivered[e] < MaxDeliveries /\ delivered' = [delivered EXCEPT ![e] = @ + 1]
    BY DEF Deliver
  <1>2. /\ thread \in [Scope -> 0..MaxThreads]
        /\ made \in Seq(Scope) /\ Len(made) <= MaxThreads /\ seen \in Seq(Event)
        /\ queue \in Seq(Event) /\ MemoryOK
    BY DEF SInv, MemoryOK
  <1>3. \A c \in Event : Enqueued(c) \in Seq(Event)
    BY <1>2 DEF Enqueued
  <1>4. Spends
    BY DEF Deliver, StoreJob, Spends
  <1>5. CASE /\ Canonical(e) = {} /\ StoreJob(HasRoom, RegisterInbound(e), ok)
             /\ queue' = IF ok THEN Enqueued(e) ELSE queue
    <2>1. Anyone
      BY <1>1, <1>5, RegisterEffect DEF StoreJob
    <2>2. UNCHANGED <<thread, made>> /\ seen' \in Seq(Event)
      <3>1. Append(seen, e) \in Seq(Event)
        BY <1>2
      <3>2. RegisterInbound(e) \/ UNCHANGED ledger
        BY <1>5 DEF StoreJob
      <3> QED
        BY <1>2, <3>1, <3>2 DEF RegisterInbound, ledger
    <2>3. queue' \in Seq(Event)
      BY <1>2, <1>3, <1>5
    <2>4. MemoryOK'
      BY <1>1, <1>2, <1>4, <2>2, <2>3, SpendsTyped DEF MemoryOK
    <2> QED
      BY <1>1, <2>1, <2>4, ActorsAlone
  <1>6. CASE /\ \E c \in Canonical(e) :
                   queue' = IF inbound[c].state = "received" THEN Enqueued(c) ELSE queue
             /\ UNCHANGED <<ledger, faults>>
    <2>1. Anyone
      BY <1>1, <1>6, RegisterEffect
    <2>2. Canonical(e) \subseteq Event
      BY DEF Canonical, Rows
    <2>3. queue' \in Seq(Event)
      BY <1>2, <1>3, <1>6, <2>2
    <2>4. MemoryOK'
      BY <1>1, <1>2, <1>6, <2>3 DEF MemoryOK, ledger
    <2> QED
      BY <1>1, <2>1, <2>4, ActorsAlone
  <1> QED
    BY <1>5, <1>6 DEF Deliver

\* A delivery whose row is durable and whose process dies before it is queued.
LEMMA DeliverCutOK == ASSUME SInv, NEW e \in Event, DeliverCut(e) PROVE SInv'
  <1>1. /\ UNCHANGED <<proc, memory, codex, exec, submitted, final>>
        /\ delivered[e] < MaxDeliveries /\ delivered' = [delivered EXCEPT ![e] = @ + 1]
        /\ Canonical(e) = {} /\ HasRoom /\ RegisterInbound(e) /\ Spends
    BY DEF DeliverCut, Spends
  <1>2. Anyone
    BY <1>1, RegisterEffect
  <1>3. MemoryOK /\ faults' \in 0..MaxFaults
    BY <1>1, SpendsTyped DEF SInv
  <1>4. seen' \in Seq(Event)
    BY <1>1, <1>3 DEF MemoryOK, RegisterInbound
  <1>5. MemoryOK'
    BY <1>1, <1>3, <1>4 DEF MemoryOK, memory, RegisterInbound
  <1> QED
    BY <1>1, <1>2, <1>5, ActorsAlone DEF memory

\* sweep_inbound.
LEMMA SweepOK == ASSUME SInv, NEW e \in Event, Sweep(e) PROVE SInv'
  <1>1. Sweeps(e)
    BY DEF Sweep, SweepInbound, Sweeps
  <1>2. Anyone
    BY <1>1 DEF Anyone
  <1>3. MemoryOK /\ seen \in Seq(Event)
    BY DEF SInv, MemoryOK
  <1>4. seen' \in Seq(Event)
    <2>1. Filtered(seen, Event \ {e}) \in Seq(Event \cap (Event \ {e}))
      BY <1>3, FilteredIn
    <2>2. Filtered(seen, Event \ {e}) \in Seq(Event)
      BY <2>1
    <2> QED
      BY <2>2 DEF Sweep, SweepInbound
  <1>5. MemoryOK'
    BY <1>3, <1>4 DEF MemoryOK, Sweep, SweepInbound, memory
  <1> QED
    BY <1>2, <1>5, ActorsAlone DEF Sweep, memory

-----------------------------------------------------------------------------
(* The router.                                                             *)

\* The item leaves its queue, whatever became of it.
LEMMA PoppedOK ==
    ASSUME SInv, NEW src \in {"queue", "retry"}, NEW e \in Event, NEW ok \in BOOLEAN,
           Source(src) # <<>>, Popped(src, e, ok), Anyone, Spends,
           UNCHANGED <<thread, made, seen, eviction, outside, final>>
    PROVE  SInv'
  <1> DEFINE left == IF src = "retry" THEN Tail(retries) ELSE retries
  <1>1. queue \in Seq(Event) /\ retries \in Seq(Event) /\ MemoryOK
    BY DEF SInv, MemoryOK
  <1>2. left \in Seq(Event)
    BY <1>1 DEF Source
  <1>3. src = "queue" => Tail(queue) \in Seq(Event)
    BY <1>1 DEF Source
  <1>4. Append(left, e) \in Seq(Event) /\ <<>> \in Seq(Event)
    BY <1>2
  <1>5. /\ retries' = <<>> \/ retries' = left \/ retries' = Append(left, e)
        /\ queue' = <<>> \/ queue' = queue \/ (src = "queue" /\ queue' = Tail(queue))
        /\ proc' \in {"up", "stopping"}
        /\ actor' = AllCancelled \/ actor' = actor
    BY DEF Popped
  <1> HIDE DEF left
  <1>6. retries' \in Seq(Event) /\ queue' \in Seq(Event)
    BY <1>1, <1>2, <1>3, <1>4, <1>5
  <1>7. faults' \in 0..MaxFaults
    BY <1>1, SpendsTyped
  <1>8. MemoryOK'
    BY <1>1, <1>5, <1>6, <1>7 DEF MemoryOK, outside
  <1> QED
    BY <1>5, <1>8, CancelsAll, ActorsAlone

\* The router rejects an event it cannot route.
LEMMA RouterRejectsOK ==
    ASSUME SInv, NEW src \in {"queue", "retry"}, NEW e \in Event, NEW ok \in BOOLEAN,
           Routable(src, e), NEW why \in Refusals, RouterRejects(src, e, why, ok)
    PROVE  SInv'
  <1>1. /\ StoreJob(RejectAllowed(e, why), RejectReceived(e, why), ok) /\ Popped(src, e, ok)
        /\ UNCHANGED <<eviction, outside, final>> /\ Source(src) # <<>>
    BY DEF RouterRejects, Routable
  <1>2. Anyone /\ Spends /\ UNCHANGED <<thread, made, seen>>
    BY <1>1, RejectJob DEF outside
  <1> QED
    BY <1>1, <1>2, PoppedOK

\* An item on its way to an actor has left its queue.
LEMMA TakenTyped ==
    ASSUME SInv, NEW src \in {"queue", "retry"}, NEW e, Routable(src, e),
           queue' = IF src = "queue" THEN Tail(queue) ELSE queue,
           retries' = IF src = "retry" THEN Tail(retries) ELSE retries
    PROVE  queue' \in Seq(Event) /\ retries' \in Seq(Event)
  <1>1. queue \in Seq(Event) /\ retries \in Seq(Event)
    BY DEF SInv, MemoryOK
  <1> QED
    BY <1>1 DEF Routable, Source

\* The router hands an event to the actor of its scope.
LEMMA RouteToActorOK ==
    ASSUME SInv, NEW src \in {"queue", "retry"}, NEW e \in Event, RouteToActor(src, e)
    PROVE  SInv'
  <1>1. /\ Routable(src, e) /\ Mailed(ScopeOf[e], e)
        /\ queue' = IF src = "queue" THEN Tail(queue) ELSE queue
        /\ retries' = IF src = "retry" THEN Tail(retries) ELSE retries
        /\ UNCHANGED <<ledger, proc, eviction, outside, final, faults>>
    BY DEF RouteToActor
  <1>2. queue' \in Seq(Event) /\ retries' \in Seq(Event)
    BY <1>1, TakenTyped
  <1>3. MemoryOK'
    BY <1>1, <1>2 DEF SInv, MemoryOK, ledger, outside
  <1>4. Anyone
    BY <1>1 DEF Anyone, NothingHappens, ledger, outside
  <1> QED
    BY <1>1, <1>3, <1>4, MailedOK

\* The actor that had to go is gone: its slot is taken.
LEMMA EvictionDoneOK == ASSUME SInv, EvictionDone PROVE SInv'
  <1>1. eviction.event \in Event
    BY DEF SInv, MemoryOK, EvictionDone
  <1>2. PICK e \in Event : e = eviction.event
    BY <1>1
  <1>3. /\ Mailed(ScopeOf[e], e) /\ eviction' = NoEviction
        /\ UNCHANGED <<ledger, proc, queue, retries, outside, final, faults>>
    BY <1>2 DEF EvictionDone
  <1>4. MemoryOK'
    BY <1>3 DEF SInv, MemoryOK, ledger, outside
  <1>5. Anyone
    BY <1>3 DEF Anyone, NothingHappens, ledger, outside
  <1> QED
    BY <1>3, <1>4, <1>5, MailedOK

\* The router cancels an idle actor to make room.
LEMMA RouteEvictsOK ==
    ASSUME SInv, NEW src \in {"queue", "retry"}, NEW e \in Event, NEW s \in Scope,
           RouteEvicts(src, e, s)
    PROVE  SInv'
  <1>1. /\ Routable(src, e) /\ actor' = [actor EXCEPT ![s].cancel = TRUE]
        /\ eviction' = [victim |-> s, event |-> e]
        /\ queue' = IF src = "queue" THEN Tail(queue) ELSE queue
        /\ retries' = IF src = "retry" THEN Tail(retries) ELSE retries
        /\ UNCHANGED <<ledger, proc, outside, final, faults>>
    BY DEF RouteEvicts
  <1>2. queue' \in Seq(Event) /\ retries' \in Seq(Event)
    BY <1>1, TakenTyped
  <1>3. eviction' \in [victim: Scope, event: Event]
    BY <1>1
  <1>4. MemoryOK'
    BY <1>1, <1>2, <1>3 DEF SInv, MemoryOK, ledger, outside
  <1>5. Anyone
    BY <1>1 DEF Anyone, NothingHappens, ledger, outside
  <1>6. actor = [o \in Scope |-> actor[o]] /\ \A o \in Scope : ActorOK(o)
    BY DEF SInv, ActorsOK
  <1>7. PICK a \in ActorOf(s) : a = actor[s]
    BY <1>6 DEF ActorOK
  <1>8. /\ actor'[s] = [a EXCEPT !.cancel = TRUE]
        /\ \A o \in Scope \ {s} : actor'[o] = actor[o]
        /\ actor' = [o \in Scope |-> actor'[o]]
    BY <1>1, <1>6, <1>7
  <1>9. ASSUME Keeps(s) PROVE ActorOK(s)'
    <2>1. /\ [a EXCEPT !.cancel = TRUE] \in ActorOf(s)
          /\ [a EXCEPT !.cancel = TRUE].pc = a.pc /\ [a EXCEPT !.cancel = TRUE].item = a.item
          /\ [a EXCEPT !.cancel = TRUE].batch = a.batch
          /\ [a EXCEPT !.cancel = TRUE].refuse = a.refuse
          /\ [a EXCEPT !.cancel = TRUE].why = a.why /\ [a EXCEPT !.cancel = TRUE].turn = a.turn
          /\ [a EXCEPT !.cancel = TRUE].res = a.res
      BY DEF ActorOf
    <2> QED
      BY <1>6, <1>7, <1>8, <1>9, <2>1, ActorTouched
  <1>10. ASSUME NEW o \in Scope, o # s, Keeps(o) PROVE ActorOK(o)'
    BY <1>6, <1>8, <1>10, ActorStays
  <1>11. \A o \in Scope : Keeps(o) => ActorOK(o)'
    BY <1>9, <1>10
  <1> QED
    BY <1>4, <1>5, <1>8, <1>11, OtherStep

\* Every step of the router.
LEMMA RouterOK == ASSUME SInv, Router PROVE SInv'
  <1>1. "policy" \in Refusals /\ "internal" \in Refusals /\ "overloaded" \in Refusals
    BY DEF Refusals
  <1>2. ASSUME NEW src \in {"queue", "retry"}, NEW e \in Event, NEW ok \in BOOLEAN,
               RouteIgnored(src, e, ok)
        PROVE  SInv'
    <2>1. /\ StoreJob(CompleteAllowed(e), CompleteReceived(e, None), ok) /\ Popped(src, e, ok)
          /\ UNCHANGED <<eviction, outside, final>> /\ Source(src) # <<>>
          /\ KindOf[e] = "ignored"
      BY <1>2 DEF RouteIgnored, Routable
    <2>2. Anyone /\ Spends /\ UNCHANGED <<thread, made, seen>>
      BY <2>1, CompleteJob DEF outside
    <2> QED
      BY <2>1, <2>2, PoppedOK
  <1>3. ASSUME NEW src \in {"queue", "retry"}, NEW e \in Event, NEW ok \in BOOLEAN,
               RouteRefused(src, e, ok)
        PROVE  SInv'
    BY <1>1, <1>3, RouterRejectsOK DEF RouteRefused
  <1>4. ASSUME NEW src \in {"queue", "retry"}, NEW e \in Event, NEW ok \in BOOLEAN,
               RouteNoCodex(src, e, ok)
        PROVE  SInv'
    BY <1>1, <1>4, RouterRejectsOK DEF RouteNoCodex
  <1>5. ASSUME NEW src \in {"queue", "retry"}, NEW e \in Event, NEW ok \in BOOLEAN,
               RouteOverloaded(src, e, ok)
        PROVE  SInv'
    BY <1>1, <1>5, RouterRejectsOK DEF RouteOverloaded
  <1> QED
    BY <1>2, <1>3, <1>4, <1>5, RouteToActorOK, RouteEvictsOK, EvictionDoneOK DEF Router

-----------------------------------------------------------------------------
(* Codex and the process.                                                  *)

\* The three ways a connection changes keep its type.
LEMMA CodexTyped ==
    ASSUME NEW c \in [epoch: Nat, client: BOOLEAN, terminal: BOOLEAN]
    PROVE  /\ [c EXCEPT !.client = TRUE] \in [epoch: Nat, client: BOOLEAN, terminal: BOOLEAN]
           /\ [c EXCEPT !.terminal = TRUE] \in [epoch: Nat, client: BOOLEAN, terminal: BOOLEAN]
           /\ [c EXCEPT !.client = FALSE, !.epoch = @ + 1] \in
                  [epoch: Nat, client: BOOLEAN, terminal: BOOLEAN]
  <1>1. PICK n \in Nat : n = c.epoch + 1
    OBVIOUS
  <1>2. [c EXCEPT !.client = FALSE, !.epoch = n] \in
            [epoch: Nat, client: BOOLEAN, terminal: BOOLEAN]
    OBVIOUS
  <1>3. /\ [c EXCEPT !.client = TRUE] \in [epoch: Nat, client: BOOLEAN, terminal: BOOLEAN]
        /\ [c EXCEPT !.terminal = TRUE] \in [epoch: Nat, client: BOOLEAN, terminal: BOOLEAN]
    OBVIOUS
  <1> QED
    BY <1>1, <1>2, <1>3

\* The connection becomes ready, dies, or is given up.
LEMMA CodexOK == ASSUME SInv, CodexReady \/ CodexDies \/ CodexGivesUp PROVE SInv'
  <1>1. codex \in [epoch: Nat, client: BOOLEAN, terminal: BOOLEAN] /\ MemoryOK
    BY DEF SInv, MemoryOK
  <1>2. /\ UNCHANGED <<ledger, proc, memory, submitted, final, delivered>> /\ Spends
        /\ exec' = exec \/ exec' = {}
    BY DEF CodexReady, CodexDies, CodexGivesUp, Spends, ConnectionEnds
  <1>3. \/ codex' = [codex EXCEPT !.client = TRUE]
        \/ codex' = [codex EXCEPT !.terminal = TRUE]
        \/ codex' = [codex EXCEPT !.client = FALSE, !.epoch = @ + 1]
    BY DEF CodexReady, CodexDies, CodexGivesUp, ConnectionEnds
  <1>4. codex' \in [epoch: Nat, client: BOOLEAN, terminal: BOOLEAN]
    <2>1. PICK c \in [epoch: Nat, client: BOOLEAN, terminal: BOOLEAN] : c = codex
      BY <1>1
    <2>2. /\ [c EXCEPT !.client = TRUE] \in [epoch: Nat, client: BOOLEAN, terminal: BOOLEAN]
          /\ [c EXCEPT !.terminal = TRUE] \in [epoch: Nat, client: BOOLEAN, terminal: BOOLEAN]
          /\ [c EXCEPT !.client = FALSE, !.epoch = @ + 1] \in
                 [epoch: Nat, client: BOOLEAN, terminal: BOOLEAN]
      BY CodexTyped
    <2>3. CASE codex' = [codex EXCEPT !.client = TRUE]
      BY ONLY <2>1, <2>2, <2>3, Zenon
    <2>4. CASE codex' = [codex EXCEPT !.terminal = TRUE]
      BY ONLY <2>1, <2>2, <2>4, Zenon
    <2>5. CASE codex' = [codex EXCEPT !.client = FALSE, !.epoch = @ + 1]
      BY ONLY <2>1, <2>2, <2>5, Zenon
    <2> QED
      BY <1>3, <2>3, <2>4, <2>5
  <1>5. faults' \in 0..MaxFaults /\ exec' \subseteq TurnId
    BY <1>1, <1>2, SpendsTyped DEF MemoryOK
  <1>6. MemoryOK'
    BY <1>1, <1>2, <1>4, <1>5 DEF MemoryOK, ledger, memory
  <1>7. Anyone /\ UNCHANGED actor
    BY <1>2 DEF Anyone, NothingHappens, ledger, memory
  <1> QED
    BY <1>6, <1>7, ActorsAlone

\* Codex ends a turn, and tells the actor that waits for it.
LEMMA CodexFinishesOK ==
    ASSUME SInv, NEW t \in TurnId, NEW res \in Outcomes, CodexFinishes(t, res) PROVE SInv'
  <1>0. PICK s \in Scope : s = turns[t].scope
    BY DEF SInv, RowsOK, RowTypes, TurnRow
  <1>1. /\ UNCHANGED <<ledger, proc, queue, retries, eviction, codex, submitted, final,
                       delivered, faults>>
        /\ exec' = exec \ {t}
        /\ actor' = actor \/ actor' = [actor EXCEPT ![s].event = res]
    BY <1>0 DEF CodexFinishes
  <1>2. MemoryOK'
    BY <1>1 DEF SInv, MemoryOK, ledger
  <1>3. Anyone
    BY <1>1 DEF Anyone, NothingHappens, ledger
  <1>4. CASE actor' = actor
    BY <1>2, <1>3, <1>4, ActorsAlone
  <1>5. CASE actor' = [actor EXCEPT ![s].event = res]
    <2>1. s \in Scope /\ res \in Resolutions
      BY TurnsAssumption
    <2>2. actor = [o \in Scope |-> actor[o]] /\ \A o \in Scope : ActorOK(o)
      BY DEF SInv, ActorsOK
    <2>3. PICK a \in ActorOf(s) : a = actor[s]
      BY <2>1, <2>2 DEF ActorOK
    <2>4. /\ actor'[s] = [a EXCEPT !.event = res]
          /\ \A o \in Scope \ {s} : actor'[o] = actor[o]
          /\ actor' = [o \in Scope |-> actor'[o]]
      BY <1>5, <2>1, <2>2, <2>3
    <2>5. ASSUME Keeps(s) PROVE ActorOK(s)'
      <3>1. /\ [a EXCEPT !.event = res] \in ActorOf(s)
            /\ [a EXCEPT !.event = res].pc = a.pc /\ [a EXCEPT !.event = res].item = a.item
            /\ [a EXCEPT !.event = res].batch = a.batch
            /\ [a EXCEPT !.event = res].refuse = a.refuse
            /\ [a EXCEPT !.event = res].why = a.why /\ [a EXCEPT !.event = res].turn = a.turn
            /\ [a EXCEPT !.event = res].res = a.res
        BY <2>1 DEF ActorOf
      <3> QED
        BY <2>1, <2>2, <2>3, <2>4, <2>5, <3>1, ActorTouched
    <2>6. ASSUME NEW o \in Scope, o # s, Keeps(o) PROVE ActorOK(o)'
      BY <2>2, <2>4, <2>6, ActorStays
    <2>7. \A o \in Scope : Keeps(o) => ActorOK(o)'
      BY <2>5, <2>6
    <2> QED
      BY <1>2, <1>3, <2>4, <2>7, OtherStep
  <1> QED
    BY <1>1, <1>4, <1>5

\* A crash or the end of a shutdown: memory is lost, the rows are not.
LEMMA GoneOK == ASSUME SInv, Gone, Spends PROVE SInv'
  <1>1. MemoryOK'
    <2>1. MemoryOK /\ faults' \in 0..MaxFaults
      BY SpendsTyped DEF SInv
    <2>2. [epoch |-> 1, client |-> FALSE, terminal |-> FALSE] \in
              [epoch: Nat, client: BOOLEAN, terminal: BOOLEAN]
      OBVIOUS
    <2> QED
      BY <2>1, <2>2 DEF MemoryOK, Gone, ledger
  <1>2. Anyone
    BY DEF Gone, Anyone, NothingHappens, ledger
  <1>3. ASSUME NEW s \in Scope PROVE ActorOK(s)'
    <2>1. actor'[s] = NoActor
      BY DEF Gone
    <2>2. StepData(actor[s])' /\ OwnTurn(s, actor[s])'
      BY <2>1, NoActorTyped DEF StepData, OwnTurn, TurnSteps
    <2> QED
      BY <2>1, <2>2, NoActorTyped DEF ActorOK
  <1> QED
    BY <1>1, <1>2, <1>3, OtherStep DEF Gone

\* A start recovers the received rows in the order they came in.
LEMMA StartOK == ASSUME SInv, Start PROVE SInv'
  <1>1. Recovered \in Seq(Event)
    <2>1. Filtered(seen, Rows({"received"})) \in Seq(Event \cap Rows({"received"}))
      BY FilteredIn DEF SInv, MemoryOK
    <2>2. Filtered(seen, Rows({"received"})) \in Seq(Event)
      BY <2>1
    <2> QED
      BY <2>2 DEF Recovered
  <1>2. /\ UNCHANGED <<ledger, retries, eviction, actor, outside, final, faults>>
        /\ queue' = Recovered /\ proc' = "up"
    BY DEF Start
  <1>3. MemoryOK'
    BY <1>1, <1>2 DEF SInv, MemoryOK, ledger, outside
  <1>4. Anyone
    BY <1>2 DEF Anyone, NothingHappens, ledger, outside
  <1> QED
    BY <1>2, <1>3, <1>4, ActorsAlone

\* A shutdown cancels every actor.
LEMMA RequestStopOK == ASSUME SInv, RequestStop PROVE SInv'
  <1>1. MemoryOK'
    <2>1. MemoryOK /\ faults' \in 0..MaxFaults
      BY SpendsTyped DEF SInv, RequestStop, Spends
    <2> QED
      BY <2>1 DEF MemoryOK, RequestStop, ledger, outside
  <1>2. Anyone
    BY DEF RequestStop, Anyone, NothingHappens, ledger, outside
  <1> QED
    BY <1>1, <1>2, CancelsAll DEF RequestStop

-----------------------------------------------------------------------------

\* Every step of an actor.
LEMMA ActorStepOK == ASSUME SInv, NEW s \in Scope, ActorStep(s) PROVE SInv'
  BY ReceiveOK, BeginBatchOK, DebounceOK, AcquirePermitOK, TakeClientOK, ResumeThreadOK,
     PrepareFailsOK, SubscribeOK, SettleLossOK, AssembleFailsOK, SendStartOK, StartAnsweredOK,
     StartUnknownOK, RunEndsOK, PersistFinalOK, EpochEndsOK, LeaveOK, PrepareMediaOK,
     RefuseControlOK, ExecuteControlOK, AnswerControlOK, RefuseOK, AbandonThreadOK,
     StartThreadOK, ClaimOK, MarkRunningOK, ConcludeOK
     DEF ActorStep

\* The invariant is inductive.
LEMMA SInvKept == SInv /\ [Next]_vars => SInv'
  <1> SUFFICES ASSUME SInv, [Next]_vars PROVE SInv'
    OBVIOUS
  <1>1. CASE UNCHANGED vars
    <2>1. Anyone /\ UNCHANGED actor
      BY <1>1 DEF vars, Anyone, NothingHappens
    <2>2. MemoryOK'
      BY <1>1 DEF SInv, MemoryOK, vars
    <2> QED
      BY <2>1, <2>2, ActorsAlone
  <1>2. CASE Crash \/ Stopped
    <2>1. Gone /\ Spends
      BY <1>2 DEF Crash, Stopped, Spends
    <2> QED
      BY <2>1, GoneOK
  <1> QED
    BY <1>1, <1>2, DeliverOK, DeliverCutOK, RouterOK, ActorStepOK, CodexOK, CodexFinishesOK,
       RequestStopOK, StartOK, SweepOK
       DEF Next

\* The types of the ledger, the queues, the actors and the connection (TypeOK).
THEOREM TurnsTyped == Spec => []TypeOK
  BY SInvMeans, SInit, SInvKept, PTL DEF Spec

\* No event is given to Codex twice, whatever redeliveries, crashes between the claim
\* and turn/start, lost answers and failed transactions come between; and of the event
\* ids of one message a second one is given only when the other was rejected
\* (begin_turn_and_claim_inbound_live, start_turn, read_message_candidates).
THEOREM NothingRunsTwice == Spec => []SubmittedOnce
  BY SInvMeans, SInit, SInvKept, PTL DEF Spec

\* Every state the process can leave behind passes inbound_scan at the next start:
\* no sequence of transactions, failures and crashes locks the bridge out of its store.
THEOREM EveryRestartScans == Spec => []ScanPasses
  BY SInvMeans, SInit, SInvKept, PTL DEF Spec

\* A message is settled only with its reply committed, or after the final reply of
\* its turn was durable; without one only as media, with an abandoned thread, or when
\* its turn completed without visible output
\* (complete_received_and_enqueue_control_reply, build_projected_finalization_rows,
\* resolve_turn_and_finish_inbound_batch).
THEOREM NothingSettledInSilence == Spec => []SettledIsAnswered
  BY SInvMeans, SInit, SInvKept, PTL DEF Spec

-----------------------------------------------------------------------------
(* Part 7. One turn at a time.                                             *)

\* The steps at which a turn may be executing, and those before any batch is taken.
Executing == {"sent", "mark", "run", "final", "resolve", "settle"}
Early == {"idle", "got", "control", "answer", "media"}

\* Where a cancelled actor may be while the process goes on: it was evicted when it
\* showed Idle, and it never gets as far as a client.
MayStop(a) == \/ a.pc \in Early \cup {"debounce", "permit"}
              \/ a.pc = "refuse" /\ a.batch = <<>>

\* What an actor shows and keeps at each step; p is the state of the process.
Manner(a, p) ==
    /\ a.pc \notin Early => a.shown = "busy"
    /\ a.pc = "media" /\ a.batch # <<>> => a.shown = "busy"
    /\ a.pc \in Early \ {"media"} => a.batch = <<>>
    /\ a.cancel /\ p = "up" => MayStop(a)
    /\ a.event # None => a.pc \in Executing

\* A turn whose end the actor has heard of is over, and is completed only when it ran.
Ended(a) ==
    /\ a.event # None /\ a.pc \in {"sent", "mark", "run"} => a.turn \notin exec
    /\ a.pc = "run" => turns[a.turn].state = "running"
    /\ a.pc \in {"final", "resolve"} /\ a.res = "completed" => turns[a.turn].state = "running"

\* Turn t is the one its actor waits for, on connection n, unless the actor left in a
\* shutdown.
Attended(t, a, p, n) ==
    \/ p = "stopping" /\ ~a.live
    \/ /\ a.live /\ a.turn = t /\ a.pc \in Executing /\ a.epoch = n
       /\ a.pc \in {"final", "resolve", "settle"} => a.wait

\* The parts of the invariant.
ActorsCalm == \A s \in Scope : Manner(actor[s], proc) /\ Ended(actor[s])
ExecAttended ==
    \A t \in exec : /\ turns[t].state # "absent"
                    /\ Attended(t, actor[turns[t].scope], proc, codex.epoch)
ProcessCalm ==
    /\ exec # {} => codex.client
    /\ proc # "up" => eviction = NoEviction
    /\ proc = "down" => exec = {} /\ \A s \in Scope : actor[s] = NoActor

OInv == ActorsCalm /\ ExecAttended /\ ProcessCalm /\ OneTurnPerScope

\* What a step of the actor of s may do to turns.
TurnsHold(s) ==
    \A t \in TurnId : turns[t].state # "absent" =>
        /\ turns'[t].state # "absent" /\ turns'[t].scope = turns[t].scope
        /\ turns[t].scope # s => turns'[t].state = turns[t].state

\* What the end of a step owes to Ended.
EndedNow(b) ==
    /\ b.event # None /\ b.pc \in {"sent", "mark", "run"} => b.turn \notin exec'
    /\ b.pc = "run" => turns'[b.turn].state = "running"
    /\ b.pc \in {"final", "resolve"} /\ b.res = "completed" => turns'[b.turn].state = "running"

\* A step of the actor of s: what its new state b owes to the others, and what of the
\* turns it may touch.
LEMMA OneStep ==
    ASSUME SInv, OInv, NEW s \in Scope, actor[s].live, NEW b, Becomes(s, b), TurnsHold(s),
           UNCHANGED <<proc, eviction>>, exec' \subseteq TurnId,
           codex'.epoch = codex.epoch \/ exec' = {}, exec' # {} => codex'.client,
           \A t \in exec' : t \in exec \/ turns[t].scope = s,
           OneTurnPerScope', Manner(b, proc), EndedNow(b),
           \A t \in exec' : turns[t].scope = s =>
               turns[t].state # "absent" /\ Attended(t, b, proc, codex.epoch)
    PROVE  OInv'
  <1>1. /\ actor'[s] = b /\ \A o \in Scope \ {s} : actor'[o] = actor[o]
    BY DEF SInv, ActorsOK, Becomes
  <1>2. /\ \A o \in Scope : actor[o].pc \in TurnSteps =>
              /\ actor[o].turn \in TurnId
              /\ turns[actor[o].turn].scope = o /\ turns[actor[o].turn].state \in Unresolved
        /\ \A t \in TurnId : turns[t].scope \in Scope
    BY DEF SInv, ActorsOK, ActorOK, OwnTurn, RowsOK, RowTypes, TurnRow
  <1>3. proc # "down" /\ (proc # "up" => eviction = NoEviction)
    BY DEF OInv, ProcessCalm, NoActor
  <1>4. ProcessCalm'
    BY <1>3 DEF ProcessCalm
  <1>5. ActorsCalm'
    <2> SUFFICES ASSUME NEW o \in Scope PROVE (Manner(actor[o], proc) /\ Ended(actor[o]))'
      BY DEF ActorsCalm
    <2>1. CASE o = s
      BY <1>1, <2>1 DEF Manner, MayStop, Ended, EndedNow
    <2>2. CASE o # s
      <3>1. Manner(actor[o], proc) /\ Ended(actor[o]) /\ actor'[o] = actor[o]
        BY <1>1, <2>2 DEF OInv, ActorsCalm
      <3>2. Manner(actor[o], proc)'
        BY <3>1 DEF Manner, MayStop
      <3>3. actor[o].pc \in TurnSteps =>
              /\ turns'[actor[o].turn].state = turns[actor[o].turn].state
              /\ actor[o].turn \in exec' => actor[o].turn \in exec
        BY <1>2, <2>2 DEF TurnsHold, Unresolved
      <3>4. Ended(actor[o])'
        BY <3>1, <3>3 DEF Ended, TurnSteps
      <3> QED
        BY <3>2, <3>4
    <2> QED
      BY <2>1, <2>2
  <1>6. ExecAttended'
    <2> SUFFICES ASSUME NEW t \in exec'
                 PROVE  /\ turns'[t].state # "absent"
                        /\ Attended(t, actor'[turns'[t].scope], proc', codex'.epoch)
      BY DEF ExecAttended
    <2>1. turns[t].state # "absent" /\ t \in TurnId
      BY DEF OInv, ExecAttended
    <2>2. turns'[t].scope = turns[t].scope /\ turns'[t].state # "absent"
      BY <2>1 DEF TurnsHold
    <2>3. CASE turns[t].scope = s
      BY <1>1, <2>2, <2>3
    <2>4. CASE turns[t].scope # s
      BY <1>1, <1>2, <2>1, <2>2, <2>4 DEF OInv, ExecAttended
    <2> QED
      BY <2>2, <2>3, <2>4
  <1> QED
    BY <1>4, <1>5, <1>6 DEF OInv

\* No turn of an actor that is not waiting for one is executing.
LEMMA NobodyExecutes ==
    ASSUME OInv, NEW s \in Scope, actor[s].live, actor[s].pc \notin Executing, NEW t \in exec
    PROVE  turns[t].scope # s
  BY DEF OInv, ExecAttended, Attended

\* What is executing only shrinks: still one turn per scope.
LEMMA FewerTurns ==
    ASSUME SInv, OInv, NEW s, TurnsHold(s), exec' \subseteq exec PROVE OneTurnPerScope'
  <1>1. \A t \in exec : t \in TurnId /\ turns[t].state # "absent"
    BY DEF SInv, MemoryOK, OInv, ExecAttended
  <1> QED
    BY <1>1 DEF OInv, OneTurnPerScope, TurnsHold

\* A step of an actor outside any turn that is executing.
LEMMA CalmStep ==
    ASSUME SInv, OInv, NEW s \in Scope, actor[s].live, NEW b, Becomes(s, b), TurnsHold(s),
           UNCHANGED <<proc, eviction, codex, exec>>, \A t \in exec : turns[t].scope # s,
           Manner(b, proc), b.pc \notin Executing
    PROVE  OInv'
  <1>1. b.event = None /\ EndedNow(b)
    BY DEF Manner, EndedNow, Executing
  <1>2. OneTurnPerScope'
    BY FewerTurns
  <1>3. exec' \subseteq TurnId /\ (exec' # {} => codex'.client)
    BY DEF SInv, MemoryOK, OInv, ProcessCalm
  <1> QED
    BY <1>1, <1>2, <1>3, OneStep

\* The actor goes on with its turn, on the same connection.
LEMMA TurnMoves ==
    ASSUME SInv, OInv, NEW s \in Scope, actor[s].live, actor[s].pc \in Executing, NEW b,
           Becomes(s, b), TurnsHold(s), UNCHANGED <<proc, eviction>>, exec' \subseteq exec,
           codex' = codex \/ exec' = {},
           b.pc \in Executing, b.live, b.cancel = actor[s].cancel, b.shown = actor[s].shown,
           b.turn = actor[s].turn, b.epoch = actor[s].epoch, EndedNow(b),
           b.pc \in {"final", "resolve", "settle"} => b.wait \/ b.turn \notin exec'
    PROVE  OInv'
  <1>1. Manner(actor[s], proc) /\ actor[s].pc \notin Early /\ ~MayStop(actor[s])
    BY DEF OInv, ActorsCalm, Executing, Early, MayStop
  <1>2. Manner(b, proc)
    BY <1>1 DEF Manner, Executing, Early
  <1>3. OneTurnPerScope'
    BY FewerTurns
  <1>4. exec' \subseteq TurnId /\ (exec' # {} => codex'.client)
    BY DEF SInv, MemoryOK, OInv, ProcessCalm
  <1>5. ASSUME NEW t \in exec', turns[t].scope = s
        PROVE  turns[t].state # "absent" /\ Attended(t, b, proc, codex.epoch)
    BY <1>5 DEF OInv, ExecAttended, Attended
  <1> QED
    BY <1>2, <1>3, <1>4, <1>5, OneStep

\* A step that leaves the turns alone.
LEMMA TurnsSame == ASSUME UNCHANGED turns, NEW s PROVE TurnsHold(s)
  BY DEF TurnsHold

\* The manner of an actor at the end of its batch.
LEMMA FinishedManner ==
    ASSUME NEW a, NEW ok, NEW p
    PROVE  /\ Manner(Finished(a, ok), p) /\ Finished(a, ok).pc = "idle"
           /\ Manner(NoActor, p) /\ NoActor.pc = "idle"
  <1>1. /\ NoActor.pc = "idle" /\ NoActor.batch = <<>> /\ NoActor.event = None
        /\ NoActor.cancel = FALSE
    BY DEF NoActor
  <1>2. /\ NewActor.pc = "idle" /\ NewActor.batch = <<>> /\ NewActor.event = None
        /\ NewActor.cancel = FALSE
    BY DEF NoActor, NewActor
  <1>3. Finished(a, ok) = NoActor \/ (/\ Finished(a, ok).pc = "idle"
                                      /\ Finished(a, ok).batch = <<>>
                                      /\ Finished(a, ok).event = None)
    BY DEF Finished, NewActor, NoActor
  <1>4. ASSUME NEW x, x.pc = "idle", x.batch = <<>>, x.event = None PROVE Manner(x, p)
    BY <1>4 DEF Manner, MayStop, Early
  <1> QED
    BY <1>1, <1>3, <1>4

\* The manner of an actor that is about to refuse its batch.
LEMMA RefuseAllManner ==
    ASSUME NEW s, NEW a \in ActorOf(s), a.shown = "busy", a.event = None, NEW p
    PROVE  Manner(RefuseAll(a), p) /\ RefuseAll(a).pc = "refuse"
  <1>1. /\ RefuseAll(a).pc = "refuse" /\ RefuseAll(a).batch = <<>>
        /\ RefuseAll(a).shown = "busy" /\ RefuseAll(a).event = None
    BY DEF RefuseAll, ActorOf
  <1> QED
    BY <1>1 DEF Manner, MayStop, Early

\* The same after one of the refusals.
LEMMA AfterRefusingManner ==
    ASSUME NEW s, NEW a \in ActorOf(s), a.shown = "busy", a.event = None, NEW p,
           a.cancel /\ p = "up" => a.batch = <<>>
    PROVE  Manner(AfterRefusing(a), p) /\ AfterRefusing(a).pc \notin Executing
  <1>1. CASE a.refuse # <<>>
    <2>1. AfterRefusing(a) = [a EXCEPT !.pc = "refuse"]
      BY <1>1 DEF AfterRefusing
    <2>2. PICK b : b = [a EXCEPT !.pc = "refuse"]
      OBVIOUS
    <2>3. /\ b.pc = "refuse" /\ b.batch = a.batch /\ b.shown = "busy" /\ b.event = None
          /\ b.cancel = a.cancel
      BY <2>2 DEF ActorOf
    <2>4. Manner(b, p) /\ b.pc \notin Executing
      BY <2>3 DEF Manner, MayStop, Early, Executing
    <2> QED
      BY <2>1, <2>2, <2>4
  <1>2. CASE a.refuse = <<>> /\ a.batch # <<>>
    <2>1. AfterRefusing(a) = [a EXCEPT !.pc = "client"]
      BY <1>2 DEF AfterRefusing
    <2>2. PICK b : b = [a EXCEPT !.pc = "client"]
      OBVIOUS
    <2>3. /\ b.pc = "client" /\ b.batch = a.batch /\ b.shown = "busy" /\ b.event = None
          /\ b.cancel = a.cancel
      BY <2>2 DEF ActorOf
    <2>4. Manner(b, p) /\ b.pc \notin Executing
      BY <1>2, <2>3 DEF Manner, MayStop, Early, Executing
    <2> QED
      BY <2>1, <2>2, <2>4
  <1>3. CASE a.refuse = <<>> /\ a.batch = <<>>
    <2>1. AfterRefusing(a) = Finished(a, TRUE)
      BY <1>3 DEF AfterRefusing
    <2> QED
      BY <2>1, FinishedManner DEF Executing
  <1> QED
    BY <1>1, <1>2, <1>3

\* The invariant, for an actor that waits for no turn.
LEMMA CalmActor ==
    ASSUME SInv, OInv, NEW s \in Scope, NEW steps, s \in At(steps), steps \cap Executing = {}
    PROVE  /\ actor[s] \in ActorOf(s) /\ actor[s].live /\ actor[s].pc \in steps
           /\ actor[s].event = None /\ Manner(actor[s], proc)
           /\ \A t \in exec : turns[t].scope # s
  <1>1. actor[s].live /\ actor[s].pc \in steps /\ actor[s].pc \notin Executing
    BY DEF At, Residents
  <1>2. Manner(actor[s], proc)
    BY DEF OInv, ActorsCalm
  <1> QED
    BY <1>1, <1>2, ActorTyped, NobodyExecutes DEF Manner

\* A step that leaves the turns, the connection and the process alone.
Aside == UNCHANGED <<turns, proc, eviction, codex, exec>>

\* The same, as a step of an actor outside any turn that is executing.
LEMMA AsideStep ==
    ASSUME SInv, OInv, NEW s \in Scope, actor[s].live, NEW b, Becomes(s, b), Aside,
           \A t \in exec : turns[t].scope # s, Manner(b, proc), b.pc \notin Executing
    PROVE  OInv'
  BY TurnsSame, CalmStep DEF Aside

\* The batch is dropped, or refused as a whole.
LEMMA CalmEnd ==
    ASSUME SInv, OInv, NEW s \in Scope, actor[s].live, Aside,
           \A t \in exec : turns[t].scope # s,
           \/ \E ok : Becomes(s, Finished(actor[s], ok))
           \/ Becomes(s, NoActor)
           \/ actor[s].pc \notin Early \cup Executing /\ Becomes(s, RefuseAll(actor[s]))
    PROVE  OInv'
  <1>1. CASE \E ok : Becomes(s, Finished(actor[s], ok))
    BY <1>1, FinishedManner, AsideStep DEF Executing
  <1>2. CASE Becomes(s, NoActor)
    BY <1>2, FinishedManner, AsideStep DEF Executing
  <1>3. CASE actor[s].pc \notin Early \cup Executing /\ Becomes(s, RefuseAll(actor[s]))
    <2>1. actor[s] \in ActorOf(s) /\ actor[s].shown = "busy" /\ actor[s].event = None
      BY <1>3, ActorTyped DEF OInv, ActorsCalm, Manner
    <2> QED
      BY <1>3, <2>1, RefuseAllManner, AsideStep DEF Executing
  <1> QED
    BY <1>1, <1>2, <1>3

\* Beyond the permit, a step that only moves on (and may take the connection's epoch).
LEMMA CalmOn ==
    ASSUME SInv, OInv, NEW s \in Scope, actor[s].live, Aside,
           actor[s].pc \notin Early \cup Executing \cup {"debounce", "permit", "refuse"},
           NEW b, Becomes(s, b), b.pc \notin Early \cup Executing, b.shown = actor[s].shown,
           b.cancel = actor[s].cancel, b.event = actor[s].event
    PROVE  OInv'
  <1>1. Manner(actor[s], proc)
    BY DEF OInv, ActorsCalm
  <1>2. Manner(b, proc)
    BY <1>1 DEF Manner, MayStop
  <1>3. \A t \in exec : turns[t].scope # s
    BY NobodyExecutes
  <1> QED
    BY <1>2, <1>3, AsideStep

\* The actions that say so in the terms of the model.
LEMMA AsideFrom ==
    ASSUME UNCHANGED turns, UNCHANGED Rest PROVE Aside
  BY DEF Aside, Rest, outside

\* Transactions that settle one row do not look at turns.
LEMMA RowJobs ==
    ASSUME NEW e, NEW why, NEW reply, NEW ok,
           \/ StoreJob(RejectAllowed(e, why), RejectReceived(e, why), ok)
           \/ StoreJob(CompleteAllowed(e), CompleteReceived(e, reply), ok)
    PROVE  UNCHANGED turns
  BY DEF StoreJob, RejectReceived, CompleteReceived, ledger

\* The next message of the mailbox, or the one deferred before.
LEMMA ReceiveCalm == ASSUME SInv, OInv, NEW s \in Scope, Receive(s) PROVE OInv'
  <1> DEFINE a == actor[s]
             b1 == [a EXCEPT !.later = None, !.item = a.later, !.pc = NextStep(a.later)]
             b2 == [a EXCEPT !.box = Tail(@), !.item = Head(a.box), !.pc = NextStep(Head(a.box))]
  <1>1. /\ a \in ActorOf(s) /\ a.live /\ a.pc = "idle" /\ a.event = None /\ Manner(a, proc)
        /\ \A t \in exec : turns[t].scope # s
    <2>1. s \in At({"idle"}) /\ {"idle"} \cap Executing = {}
      BY DEF Receive, Executing
    <2> QED
      BY <2>1, CalmActor
  <1>2. Aside
    BY AsideFrom DEF Receive, ledger
  <1>3. \A e : NextStep(e) \in {"media", "control", "got"}
    BY DEF NextStep
  <1>4. ASSUME NEW b, b.pc \in {"media", "control", "got"}, b.batch = a.batch,
               b.event = a.event, Becomes(s, b)
        PROVE  OInv'
    <2>1. Manner(b, proc) /\ b.pc \notin Executing
      BY <1>1, <1>4 DEF Manner, MayStop, Early, Executing
    <2> QED
      BY <1>1, <1>2, <1>4, <2>1, AsideStep
  <1>5. CASE Becomes(s, b1)
    <2>1. PICK x \in {"media", "control", "got"} : x = NextStep(a.later)
      BY <1>3
    <2>2. b1.pc = x /\ b1.batch = a.batch /\ b1.event = a.event
      BY <1>1, <2>1 DEF ActorOf
    <2> HIDE DEF b1
    <2> QED
      BY <1>4, <1>5, <2>1, <2>2
  <1>6. CASE Becomes(s, b2)
    <2>1. PICK x \in {"media", "control", "got"} : x = NextStep(Head(a.box))
      BY <1>3
    <2>2. b2.pc = x /\ b2.batch = a.batch /\ b2.event = a.event
      BY <1>1, <2>1 DEF ActorOf
    <2> HIDE DEF b2
    <2> QED
      BY <1>4, <1>6, <2>1, <2>2
  <1> QED
    BY <1>5, <1>6 DEF Receive

\* From here on the actor shows that it is busy, before it asks for anything.
LEMMA BeginBatchCalm == ASSUME SInv, OInv, NEW s \in Scope, BeginBatch(s) PROVE OInv'
  <1> DEFINE a == actor[s]
             b == [a EXCEPT !.item = None, !.batch = <<a.item>>, !.shown = "busy",
                            !.pc = "debounce"]
  <1>1. /\ a \in ActorOf(s) /\ a.live /\ a.event = None
        /\ \A t \in exec : turns[t].scope # s
    <2>1. s \in At({"got"}) /\ {"got"} \cap Executing = {}
      BY DEF BeginBatch, Executing
    <2> QED
      BY <2>1, CalmActor
  <1>2. Aside /\ Becomes(s, b)
    BY AsideFrom DEF BeginBatch, ledger
  <1>3. b.pc = "debounce" /\ b.shown = "busy" /\ b.event = None
    BY <1>1 DEF ActorOf
  <1> HIDE DEF b
  <1>4. Manner(b, proc) /\ b.pc \notin Executing
    BY <1>3 DEF Manner, MayStop, Early, Executing
  <1> QED
    BY <1>1, <1>2, <1>4, AsideStep

\* The debounce window; a cancelled actor does not stay in it.
LEMMA DebounceCalm == ASSUME SInv, OInv, NEW s \in Scope, Debounce(s) PROVE OInv'
  <1> DEFINE a == actor[s]
             e == Head(a.box)
             n == [a EXCEPT !.box = Tail(@)]
  <1>1. /\ a \in ActorOf(s) /\ a.live /\ a.event = None /\ a.pc = "debounce" /\ ~a.cancel
        /\ Manner(a, proc) /\ \A t \in exec : turns[t].scope # s
    <2>1. s \in At({"debounce"}) /\ {"debounce"} \cap Executing = {} /\ ~a.cancel
      BY DEF Debounce, Executing
    <2> QED
      BY <2>1, CalmActor
  <1>2. Aside
    BY AsideFrom DEF Debounce, ledger
  <1>3. ASSUME NEW b, Becomes(s, b),
               \/ b = [a EXCEPT !.pc = "permit"]
               \/ b = [n EXCEPT !.batch = Append(@, e)]
               \/ b = [n EXCEPT !.item = e, !.pc = "media"]
               \/ b = [n EXCEPT !.later = e, !.pc = "permit"]
        PROVE  OInv'
    <2>1. /\ b.pc \in {"permit", "debounce", "media"} /\ b.shown = a.shown /\ b.event = a.event
          /\ b.cancel = a.cancel
      BY <1>1, <1>3 DEF ActorOf
    <2>2. a.shown = "busy"
      BY <1>1 DEF Manner, Early
    <2>3. Manner(b, proc) /\ b.pc \notin Executing
      BY <1>1, <2>1, <2>2 DEF Manner, MayStop, Early, Executing
    <2> QED
      BY <1>1, <1>2, <1>3, <2>3, AsideStep
  <1>4. \/ Becomes(s, [a EXCEPT !.pc = "permit"])
        \/ Becomes(s, [n EXCEPT !.batch = Append(@, e)])
        \/ Becomes(s, [n EXCEPT !.item = e, !.pc = "media"])
        \/ Becomes(s, [n EXCEPT !.later = e, !.pc = "permit"])
    BY DEF Debounce
  <1> HIDE DEF a, n, e
  <1> QED
    BY <1>3, <1>4

\* Media goes back to the window or to the loop.
LEMMA PrepareMediaCalm ==
    ASSUME SInv, OInv, NEW s \in Scope, NEW ok \in BOOLEAN, PrepareMedia(s, ok) PROVE OInv'
  <1> DEFINE a == actor[s]
             x == IF a.batch = <<>> THEN "idle" ELSE IF ok THEN "debounce" ELSE "permit"
             y == IF a.batch = <<>> /\ ~ok THEN "failed" ELSE a.shown
             b == [a EXCEPT !.item = None, !.pc = x, !.shown = y]
  <1>1. /\ a \in ActorOf(s) /\ a.live /\ a.event = None /\ a.pc = "media"
        /\ Manner(a, proc) /\ \A t \in exec : turns[t].scope # s
    <2>1. s \in At({"media"}) /\ {"media"} \cap Executing = {}
      BY DEF PrepareMedia, Executing
    <2> QED
      BY <2>1, CalmActor
  <1>2. Aside
    BY AsideFrom, RowJobs DEF PrepareMedia
  <1>3. Becomes(s, b)
    BY DEF PrepareMedia
  <1>4. b.pc = x /\ b.shown = y /\ b.batch = a.batch /\ b.event = None
    BY <1>1 DEF ActorOf
  <1> HIDE DEF b
  <1>5. Manner(b, proc) /\ b.pc \notin Executing
    BY <1>1, <1>4 DEF Manner, MayStop, Early, Executing
  <1> QED
    BY <1>1, <1>2, <1>3, <1>5, AsideStep

\* The manner of an actor after a command.
LEMMA AfterControlManner ==
    ASSUME NEW a, NEW ok, NEW p
    PROVE  Manner(AfterControl(a, ok), p) /\ AfterControl(a, ok).pc = "idle"
  <1>1. /\ AfterControl(a, ok).pc = "idle" /\ AfterControl(a, ok).batch = <<>>
        /\ AfterControl(a, ok).event = None
    BY DEF AfterControl, NewActor, NoActor
  <1> QED
    BY <1>1 DEF Manner, MayStop, Early

\* A command is refused or answered.
LEMMA ControlCalm ==
    ASSUME SInv, OInv, NEW s \in Scope, NEW ok \in BOOLEAN,
           RefuseControl(s, ok) \/ AnswerControl(s, ok)
    PROVE  OInv'
  <1>1. actor[s].live /\ \A t \in exec : turns[t].scope # s
    <2>1. s \in At({"control", "answer"}) /\ {"control", "answer"} \cap Executing = {}
      BY DEF RefuseControl, AnswerControl, Executing, At
    <2> QED
      BY <2>1, CalmActor
  <1>2. Aside /\ Becomes(s, AfterControl(actor[s], ok))
    BY AsideFrom, RowJobs DEF RefuseControl, AnswerControl
  <1> QED
    BY <1>1, <1>2, AfterControlManner, AsideStep DEF Executing

\* A command takes effect.
LEMMA ExecuteControlCalm ==
    ASSUME SInv, OInv, NEW s \in Scope, NEW ok \in BOOLEAN, ExecuteControl(s, ok) PROVE OInv'
  <1> DEFINE a == actor[s]
             b == [a EXCEPT !.pc = "answer"]
  <1>1. /\ a \in ActorOf(s) /\ a.live /\ a.event = None /\ a.pc = "control"
        /\ Manner(a, proc) /\ \A t \in exec : turns[t].scope # s
    <2>1. s \in At({"control"}) /\ {"control"} \cap Executing = {}
      BY DEF ExecuteControl, Executing
    <2> QED
      BY <2>1, CalmActor
  <1>2. UNCHANGED turns
    BY DEF ExecuteControl, StoreJob, ControlEffect, NewControl, ResumeControl, ledger,
           ArchiveActiveThread, ReactivateArchivedThread
  <1>3. Aside /\ Becomes(s, b)
    BY <1>2, AsideFrom DEF ExecuteControl
  <1>4. b.pc = "answer" /\ b.batch = a.batch /\ b.event = None
    BY <1>1 DEF ActorOf
  <1> HIDE DEF b
  <1>5. Manner(b, proc) /\ b.pc \notin Executing
    BY <1>1, <1>4 DEF Manner, MayStop, Early, Executing
  <1> QED
    BY <1>1, <1>3, <1>5, AsideStep

\* The permit: a cancelled actor gets past it only to refuse its batch.
LEMMA AcquirePermitCalm == ASSUME SInv, OInv, NEW s \in Scope, AcquirePermit(s) PROVE OInv'
  <1> DEFINE a == actor[s]
             q == Unique(a.batch)
             u == [a EXCEPT !.batch = q]
             sp(R) == [u EXCEPT !.refuse = Filtered(u.batch, R),
                                !.batch = Filtered(u.batch, Event \ R), !.why = "policy"]
  <1>1. /\ a \in ActorOf(s) /\ a.live /\ a.event = None /\ a.pc = "permit"
        /\ Manner(a, proc) /\ \A t \in exec : turns[t].scope # s
    <2>1. s \in At({"permit"}) /\ {"permit"} \cap Executing = {}
      BY DEF AcquirePermit, Executing
    <2> QED
      BY <2>1, CalmActor
  <1>2. Aside
    BY AsideFrom DEF AcquirePermit, ledger
  <1>3. a.shown = "busy"
    BY <1>1 DEF Manner, Early
  <1>4. a.batch \in Seq(Of(s)) /\ a.batch # <<>>
    BY <1>1, ActorTyped DEF ActorOf, StepData, Batched
  <1>5. PICK r \in Seq(Of(s)) : r = q
    BY <1>4, UniqueIn, Zenon
  <1>6. PICK v \in ActorOf(s) : /\ v = u /\ v.shown = "busy" /\ v.event = None /\ v.batch = r
                                /\ v.cancel = a.cancel
    <2>1. [a EXCEPT !.batch = r] \in ActorOf(s)
      BY <1>1, BatchTyped
    <2>2. /\ [a EXCEPT !.batch = r].shown = "busy" /\ [a EXCEPT !.batch = r].event = None
          /\ [a EXCEPT !.batch = r].batch = r /\ [a EXCEPT !.batch = r].cancel = a.cancel
      BY <1>1, <1>3 DEF ActorOf
    <2>3. u = [a EXCEPT !.batch = r]
      BY <1>5, Zenon
    <2> QED
      BY <2>1, <2>2, <2>3, Zenon
  <1>7. CASE Becomes(s, RefuseAll(u))
    <2>1. Becomes(s, RefuseAll(v))
      BY <1>6, <1>7
    <2> QED
      BY <1>1, <1>2, <1>6, <2>1, RefuseAllManner, AsideStep DEF Executing
  <1>8. ASSUME NEW R, ~a.cancel, Becomes(s, AfterRefusing(sp(R))) PROVE OInv'
    <2>1. PICK x \in Seq(Of(s)) : x = Filtered(v.batch, R)
      <3>1. Filtered(r, R) \in Seq(Of(s) \cap R)
        BY <1>5, FilteredIn, Zenon
      <3>2. Filtered(r, R) \in Seq(Of(s))
        BY <3>1
      <3> QED
        BY <1>6, <3>2, Zenon
    <2>2. PICK y \in Seq(Of(s)) : y = Filtered(v.batch, Event \ R)
      <3>1. Filtered(r, Event \ R) \in Seq(Of(s) \cap (Event \ R))
        BY <1>5, FilteredIn, Zenon
      <3>2. Filtered(r, Event \ R) \in Seq(Of(s))
        BY <3>1
      <3> QED
        BY <1>6, <3>2, Zenon
    <2>3. sp(R) = [v EXCEPT !.refuse = x, !.batch = y, !.why = "policy"]
      BY <1>6, <2>1, <2>2, Zenon
    <2> HIDE DEF u, a, q
    <2>4. PICK v1 \in ActorOf(s) : /\ v1 = [v EXCEPT !.refuse = x] /\ v1.shown = "busy"
                                   /\ v1.event = None /\ v1.cancel = v.cancel
      <3>1. [v EXCEPT !.refuse = x] \in ActorOf(s)
        BY BatchTyped
      <3>2. /\ [v EXCEPT !.refuse = x].shown = "busy" /\ [v EXCEPT !.refuse = x].event = None
            /\ [v EXCEPT !.refuse = x].cancel = v.cancel
        BY <1>6 DEF ActorOf
      <3> QED
        BY <3>1, <3>2, Zenon
    <2>5. PICK v2 \in ActorOf(s) : /\ v2 = [v1 EXCEPT !.batch = y] /\ v2.shown = "busy"
                                   /\ v2.event = None /\ v2.cancel = v.cancel
      <3>1. [v1 EXCEPT !.batch = y] \in ActorOf(s)
        BY BatchTyped
      <3>2. /\ [v1 EXCEPT !.batch = y].shown = "busy" /\ [v1 EXCEPT !.batch = y].event = None
            /\ [v1 EXCEPT !.batch = y].cancel = v.cancel
        BY <2>4 DEF ActorOf
      <3> QED
        BY <3>1, <3>2, Zenon
    <2>6. PICK b : b = [v2 EXCEPT !.why = "policy"]
      OBVIOUS
    <2>7. b = sp(R)
      BY <2>3, <2>4, <2>5, <2>6, Zenon
    <2>8. b \in ActorOf(s) /\ b.shown = "busy" /\ b.event = None /\ b.cancel = v.cancel
      <3>1. "policy" \in Refusals
        BY DEF Refusals
      <3>2. [v2 EXCEPT !.why = "policy"] \in ActorOf(s)
        BY <3>1 DEF ActorOf
      <3>3. /\ [v2 EXCEPT !.why = "policy"].shown = "busy"
            /\ [v2 EXCEPT !.why = "policy"].event = None
            /\ [v2 EXCEPT !.why = "policy"].cancel = v.cancel
        BY <2>5 DEF ActorOf
      <3> QED
        BY <2>6, <3>2, <3>3, Zenon
    <2>9. Becomes(s, AfterRefusing(b)) /\ ~b.cancel
      BY <1>6, <1>8, <2>7, <2>8
    <2>10. Manner(AfterRefusing(b), proc) /\ AfterRefusing(b).pc \notin Executing
      BY <2>8, <2>9, AfterRefusingManner
    <2>11. actor[s].live
      BY <1>1 DEF a
    <2> QED
      BY <1>1, <1>2, <2>9, <2>10, <2>11, AsideStep
  <1>9. CASE Becomes(s, Finished(a, FALSE))
    BY <1>1, <1>2, <1>9, CalmEnd
  <1> QED
    BY <1>7, <1>8, <1>9 DEF AcquirePermit

\* One refusal.
LEMMA RefuseCalm ==
    ASSUME SInv, OInv, NEW s \in Scope, NEW ok \in BOOLEAN, Refuse(s, ok) PROVE OInv'
  <1> DEFINE a == actor[s]
  <1>1. /\ a \in ActorOf(s) /\ a.live /\ a.event = None /\ a.pc = "refuse"
        /\ Manner(a, proc) /\ \A t \in exec : turns[t].scope # s
    <2>1. s \in At({"refuse"}) /\ {"refuse"} \cap Executing = {}
      BY DEF Refuse, Executing
    <2> QED
      BY <2>1, CalmActor
  <1>2. Aside
    BY AsideFrom, RowJobs DEF Refuse
  <1>3. /\ a.shown = "busy" /\ a.refuse \in Seq(Of(s)) /\ a.refuse # <<>>
        /\ a.cancel /\ proc = "up" => a.batch = <<>>
    BY <1>1, ActorTyped DEF Manner, MayStop, Early, ActorOf, StepData
  <1>4. CASE Becomes(s, AfterRefusing([a EXCEPT !.refuse = Tail(@)]))
    <2>1. PICK q \in Seq(Of(s)) : q = Tail(a.refuse)
      <3>1. Tail(a.refuse) \in Seq(Of(s))
        BY <1>3
      <3> QED
        BY <3>1, Zenon
    <2>2. PICK b : b = [a EXCEPT !.refuse = q]
      OBVIOUS
    <2>3. Becomes(s, AfterRefusing(b))
      BY <1>4, <2>1, <2>2
    <2>4. /\ b \in ActorOf(s) /\ b.shown = "busy" /\ b.event = None /\ b.cancel = a.cancel
          /\ b.batch = a.batch
      BY <1>1, <1>3, <2>2 DEF ActorOf
    <2> QED
      BY <1>1, <1>2, <1>3, <2>3, <2>4, AfterRefusingManner, AsideStep
  <1>5. CASE Becomes(s, Finished(a, FALSE))
    BY <1>1, <1>2, <1>5, CalmEnd
  <1> QED
    BY <1>4, <1>5 DEF Refuse

\* Beyond the permit only the program counter moves.
LEMMA CalmGoesOn ==
    ASSUME SInv, OInv, NEW s \in Scope, actor[s].live, Aside,
           actor[s].pc \notin Early \cup Executing \cup {"debounce", "permit", "refuse"},
           NEW x, x \notin Early \cup Executing, Becomes(s, [actor[s] EXCEPT !.pc = x])
    PROVE  OInv'
  <1> DEFINE b == [actor[s] EXCEPT !.pc = x]
  <1>1. /\ b.pc = x /\ b.shown = actor[s].shown /\ b.cancel = actor[s].cancel
        /\ b.event = actor[s].event
    BY ActorTyped DEF ActorOf
  <1>2. Becomes(s, b)
    OBVIOUS
  <1> HIDE DEF b
  <1> QED
    BY <1>1, <1>2, CalmOn

\* The steps between the permit and the turn.
Preparing == {"client", "resume", "abandon", "fresh", "subscribe", "lost", "claim"}

\* The invariant at those steps.
LEMMA PreparingActor ==
    ASSUME SInv, OInv, NEW s \in Scope, s \in At(Preparing)
    PROVE  /\ actor[s].live
           /\ actor[s].pc \notin Early \cup Executing \cup {"debounce", "permit", "refuse"}
           /\ \A t \in exec : turns[t].scope # s
  <1>1. Preparing \cap Executing = {} /\ s \in At(Preparing)
    BY DEF Preparing, Executing
  <1>2. /\ actor[s].live /\ actor[s].pc \in Preparing /\ \A t \in exec : turns[t].scope # s
    BY <1>1, CalmActor
  <1> QED
    BY <1>2 DEF Preparing, Executing, Early

\* wait_for_client.
LEMMA TakeClientCalm == ASSUME SInv, OInv, NEW s \in Scope, TakeClient(s) PROVE OInv'
  <1> DEFINE x == IF thread[s] # 0 THEN "resume" ELSE "fresh"
             b == [actor[s] EXCEPT !.epoch = codex.epoch, !.pc = x]
  <1>1. s \in At(Preparing)
    BY DEF TakeClient, At, Preparing
  <1>2. Aside
    BY AsideFrom DEF TakeClient, ledger
  <1>3. CASE Becomes(s, b)
    <2>1. x \notin Early \cup Executing
      BY DEF Early, Executing
    <2> HIDE DEF x
    <2>2. /\ b.pc = x /\ b.shown = actor[s].shown /\ b.cancel = actor[s].cancel
          /\ b.event = actor[s].event
      BY ActorTyped DEF ActorOf
    <2> HIDE DEF b
    <2> QED
      BY <1>1, <1>2, <1>3, <2>1, <2>2, PreparingActor, CalmOn
  <1>4. CASE Becomes(s, RefuseAll(actor[s]))
    BY <1>1, <1>2, <1>4, PreparingActor, CalmEnd
  <1> QED
    BY <1>3, <1>4 DEF TakeClient

\* ensure_thread, the subscription, and their failures.
LEMMA PreparingCalm ==
    ASSUME SInv, OInv, NEW s \in Scope,
           ResumeThread(s) \/ PrepareFails(s) \/ Subscribe(s) \/ SettleLoss(s)
    PROVE  OInv'
  <1>1. s \in At(Preparing)
    BY DEF ResumeThread, PrepareFails, Subscribe, SettleLoss, At, Preparing
  <1>2. Aside
    BY AsideFrom DEF ResumeThread, PrepareFails, Subscribe, SettleLoss, ledger
  <1>3. \/ \E x \in Preparing : Becomes(s, [actor[s] EXCEPT !.pc = x])
        \/ \E ok : Becomes(s, Finished(actor[s], ok))
        \/ Becomes(s, RefuseAll(actor[s]))
    BY DEF ResumeThread, PrepareFails, Subscribe, SettleLoss, Preparing
  <1>4. \A x \in Preparing : x \notin Early \cup Executing
    BY DEF Preparing, Early, Executing
  <1> QED
    BY <1>1, <1>2, <1>3, <1>4, PreparingActor, CalmGoesOn, CalmEnd

\* thread/start.
LEMMA StartThreadCalm ==
    ASSUME SInv, OInv, NEW s \in Scope, NEW ok \in BOOLEAN, StartThread(s, ok) PROVE OInv'
  <1>1. s \in At(Preparing)
    BY DEF StartThread, At, Preparing
  <1>2. UNCHANGED turns
    BY DEF StartThread, StoreJob, RecordActiveThread, ledger
  <1>3. Aside
    BY <1>2, AsideFrom DEF StartThread
  <1>4. \/ Becomes(s, [actor[s] EXCEPT !.pc = "subscribe"])
        \/ Becomes(s, Finished(actor[s], FALSE))
    BY DEF StartThread
  <1>5. "subscribe" \notin Early \cup Executing
    BY DEF Early, Executing
  <1> QED
    BY <1>1, <1>3, <1>4, <1>5, PreparingActor, CalmGoesOn, CalmEnd

\* An open turn of s gets another state.
LEMMA SetsStateHolds ==
    ASSUME SInv, NEW s, NEW t \in TurnId, turns[t].scope = s, NEW x, x # "absent",
           turns' = [turns EXCEPT ![t].state = x]
    PROVE  TurnsHold(s) /\ turns'[t].state = x
  BY DEF SInv, RowsOK, RowTypes, TurnRow, TurnsHold

\* The actor of s stops a turn of its own, archives its thread, or fails to.
LEMMA AbandonThreadCalm ==
    ASSUME SInv, OInv, NEW s \in Scope, NEW ok \in BOOLEAN, AbandonThread(s, ok) PROVE OInv'
  <1> DEFINE a == actor[s]
             open == {t \in LiveTurns : turns[t].scope = s /\ turns[t].thread = thread[s]}
  <1>1. s \in At(Preparing) /\ a.pc = "abandon"
    BY DEF AbandonThread, At, Preparing
  <1>2. UNCHANGED <<proc, eviction, codex, exec>>
    BY DEF AbandonThread, Rest, outside
  <1>3. /\ a.live /\ a.pc \notin Early \cup Executing /\ Manner(a, proc) /\ a \in ActorOf(s)
        /\ \A t \in exec : turns[t].scope # s
    BY <1>1, PreparingActor, ActorTyped DEF OInv, ActorsCalm
  <1>4. \/ UNCHANGED turns
        \/ open # {} /\ turns' = [turns EXCEPT ![Min(open)].state = "interrupted"]
    BY DEF AbandonThread, StoreJob, ArchiveActiveThread, ResolveTurn, ledger
  <1>5. TurnsHold(s)
    <2>1. CASE UNCHANGED turns
      BY <2>1, TurnsSame
    <2>2. CASE open # {} /\ turns' = [turns EXCEPT ![Min(open)].state = "interrupted"]
      <3>1. open \subseteq TurnId /\ \A t \in open : turns[t].scope = s
        BY DEF LiveTurns
      <3>2. Min(open) \in open
        <4>1. open \in SUBSET Nat
          BY DEF LiveTurns, TurnId
        <4> HIDE DEF open
        <4>2. \E n \in open : \A m \in open : n <= m
          BY <2>2, <4>1, LeastNat
        <4> QED
          BY <4>2 DEF Min
      <3> HIDE DEF open
      <3> QED
        BY <2>2, <3>1, <3>2, SetsStateHolds
    <2> QED
      BY <1>4, <2>1, <2>2
  <1>6. \/ Becomes(s, Finished(a, FALSE)) \/ Becomes(s, [a EXCEPT !.pc = "fresh"])
        \/ Becomes(s, a)
    BY DEF AbandonThread
  <1>7. CASE Becomes(s, Finished(a, FALSE))
    BY <1>2, <1>3, <1>5, <1>7, FinishedManner, CalmStep DEF Executing
  <1>8. CASE Becomes(s, a)
    BY <1>2, <1>3, <1>5, <1>8, CalmStep
  <1>9. CASE Becomes(s, [a EXCEPT !.pc = "fresh"])
    <2> DEFINE b == [a EXCEPT !.pc = "fresh"]
    <2>1. /\ b.pc = "fresh" /\ b.shown = a.shown /\ b.cancel = a.cancel
          /\ b.event = a.event
      BY <1>3 DEF ActorOf
    <2>2. Becomes(s, b)
      BY <1>9
    <2> HIDE DEF b
    <2>3. Manner(b, proc) /\ b.pc \notin Executing
      BY <1>1, <1>3, <2>1 DEF Manner, MayStop, Early, Executing
    <2> QED
      BY <1>2, <1>3, <1>5, <2>2, <2>3, CalmStep
  <1> QED
    BY <1>6, <1>7, <1>8, <1>9

\* The claim makes a new turn row and disturbs none that is there.
LEMMA ClaimCalm ==
    ASSUME SInv, OInv, NEW s \in Scope, NEW ok \in BOOLEAN, Claim(s, ok) PROVE OInv'
  <1> DEFINE a == actor[s]
             C == Claimable(Elems(a.batch))
             b(t) == [a EXCEPT !.turn = t, !.pc = "assemble", !.batch = Filtered(@, C)]
  <1>1. s \in At(Preparing) /\ a.pc = "claim"
    BY DEF Claim, At, Preparing
  <1>2. /\ a.live /\ a.pc \notin Early \cup Executing /\ Manner(a, proc) /\ a \in ActorOf(s)
        /\ \A t \in exec : turns[t].scope # s
    BY <1>1, PreparingActor, ActorTyped DEF OInv, ActorsCalm
  <1>3. UNCHANGED <<proc, eviction, codex, exec>> /\ UNCHANGED Rest
    BY DEF Claim, Rest, outside
  <1>4. CASE UNCHANGED turns /\ \E g : Becomes(s, Finished(a, g))
    <2>1. Aside
      BY <1>3, <1>4, AsideFrom
    <2> QED
      BY <1>2, <1>4, <2>1, CalmEnd
  <1>5. ASSUME NEW t \in TurnId, turns[t].state = "absent",
               \A u \in TurnId \ {t} : turns'[u] = turns[u], Becomes(s, b(t))
        PROVE  OInv'
    <2>1. TurnsHold(s)
      BY <1>5 DEF TurnsHold
    <2>2. PICK q : q = Filtered(a.batch, C)
      OBVIOUS
    <2>3. PICK d : d = b(t) /\ d = [a EXCEPT !.turn = t, !.pc = "assemble", !.batch = q]
      BY <2>2, Zenon
    <2>4. /\ d.pc = "assemble" /\ d.shown = a.shown /\ d.cancel = a.cancel
          /\ d.event = a.event
      BY <1>2, <2>3 DEF ActorOf
    <2>5. Manner(d, proc) /\ d.pc \notin Executing
      BY <1>1, <1>2, <2>4 DEF Manner, MayStop, Early, Executing
    <2>6. Becomes(s, d)
      BY <1>5, <2>3
    <2> QED
      BY <1>2, <1>3, <2>1, <2>5, <2>6, CalmStep
  <1>6. ASSUME NEW t \in TurnId, IsNewTurn(t),
               StoreJob(TurnRoom, BeginTurnAndClaim(s, Elems(a.batch), t), ok),
               Becomes(s, IF ~ok THEN Finished(a, FALSE) ELSE b(t))
        PROVE  OInv'
    <2>1. CASE ok
      <3>1. /\ turns[t].state = "absent" /\ \A u \in TurnId \ {t} : turns'[u] = turns[u]
        BY <1>6, <2>1 DEF StoreJob, BeginTurnAndClaim, IsNewTurn, SInv, RowsOK, RowTypes
      <3> QED
        BY <1>5, <1>6, <2>1, <3>1
    <2>2. CASE ~ok
      <3>1. UNCHANGED turns
        BY <1>6, <2>2 DEF StoreJob, ledger
      <3> QED
        BY <1>4, <1>6, <2>2, <3>1
    <2> QED
      BY <2>1, <2>2
  <1>7. CASE Becomes(s, Finished(a, TRUE)) /\ UNCHANGED ledger
    BY <1>4, <1>7 DEF ledger
  <1> QED
    BY <1>6, <1>7 DEF Claim

\* What becomes of an actor whose turn is to be finalised.
LEMMA EndsFields ==
    ASSUME NEW s, NEW a \in ActorOf(s), NEW res, NEW wait
    PROVE  /\ Ends(a, res, wait).pc = "final" /\ Ends(a, res, wait).res = res
           /\ Ends(a, res, wait).wait = wait /\ Ends(a, res, wait).live = a.live
           /\ Ends(a, res, wait).cancel = a.cancel /\ Ends(a, res, wait).shown = a.shown
           /\ Ends(a, res, wait).turn = a.turn /\ Ends(a, res, wait).epoch = a.epoch
           /\ Ends(a, res, wait).event = a.event
  BY DEF Ends, ActorOf

\* A turn that was never sent is to be finalised: nothing of it executes.
LEMMA UnsentEnds ==
    ASSUME SInv, OInv, NEW s \in Scope, s \in At({"assemble"}), NEW res, res # "completed",
           NEW wait, Becomes(s, Ends(actor[s], res, wait)), Aside
    PROVE  OInv'
  <1> DEFINE a == actor[s]
  <1>1. /\ a \in ActorOf(s) /\ a.live /\ a.event = None /\ a.pc = "assemble"
        /\ Manner(a, proc) /\ \A t \in exec : turns[t].scope # s
    <2>1. {"assemble"} \cap Executing = {}
      BY DEF Executing
    <2> QED
      BY <2>1, CalmActor
  <1>2. PICK b : b = Ends(a, res, wait)
    OBVIOUS
  <1>3. /\ b.pc = "final" /\ b.res = res /\ b.shown = a.shown /\ b.cancel = a.cancel
        /\ b.event = None
    BY <1>1, <1>2, EndsFields
  <1>4. Manner(b, proc) /\ EndedNow(b)
    BY <1>1, <1>3 DEF Manner, MayStop, Early, Executing, EndedNow
  <1>5. TurnsHold(s) /\ OneTurnPerScope'
    BY TurnsSame, FewerTurns DEF Aside
  <1>6. /\ UNCHANGED <<proc, eviction, codex, exec>> /\ exec' \subseteq TurnId
        /\ (exec' # {} => codex'.client)
    BY DEF SInv, MemoryOK, OInv, ProcessCalm, Aside
  <1> QED
    BY <1>1, <1>2, <1>4, <1>5, <1>6, OneStep

\* A turn that fails before turn/start.
LEMMA AssembleFailsCalm == ASSUME SInv, OInv, NEW s \in Scope, AssembleFails(s) PROVE OInv'
  <1>1. Aside
    BY AsideFrom DEF AssembleFails, ledger
  <1> QED
    BY <1>1, UnsentEnds DEF AssembleFails

\* turn/start: this is where a turn begins to execute, and none of its scope does yet.
LEMMA SendStartCalm == ASSUME SInv, OInv, NEW s \in Scope, SendStart(s) PROVE OInv'
  <1> DEFINE a == actor[s]
             b == [a EXCEPT !.pc = "sent"]
  <1>1. /\ a \in ActorOf(s) /\ a.live /\ a.event = None /\ a.pc = "assemble"
        /\ Manner(a, proc) /\ \A t \in exec : turns[t].scope # s
    <2>1. s \in At({"assemble"}) /\ {"assemble"} \cap Executing = {}
      BY DEF SendStart, Executing
    <2> QED
      BY <2>1, CalmActor
  <1>2. UNCHANGED <<turns, proc, eviction, codex>>
    BY DEF SendStart, ledger
  <1>3. CASE UNCHANGED exec /\ Becomes(s, Ends(a, "uncertain", TRUE))
    BY <1>2, <1>3, UnsentEnds DEF SendStart, Aside
  <1>4. CASE Becomes(s, b) /\ (exec' = exec \/ (Connected(a) /\ exec' = exec \cup {a.turn}))
    <2>1. /\ b.pc = "sent" /\ b.live = a.live /\ b.shown = a.shown /\ b.cancel = a.cancel
          /\ b.event = None /\ b.turn = a.turn /\ b.epoch = a.epoch
      BY <1>1 DEF ActorOf
    <2>2. Becomes(s, b)
      BY <1>4
    <2> HIDE DEF b
    <2>3. Manner(b, proc) /\ EndedNow(b)
      BY <1>1, <2>1 DEF Manner, MayStop, Early, Executing, EndedNow
    <2>4. /\ a.turn \in TurnId /\ turns[a.turn].scope = s /\ turns[a.turn].state # "absent"
      BY <1>1, ActorTyped DEF OwnTurn, TurnSteps, Unresolved
    <2>5. TurnsHold(s)
      BY <1>2, TurnsSame
    <2>6. exec' \subseteq TurnId /\ (exec' # {} => codex'.client)
      BY <1>2, <1>4, <2>4 DEF SInv, MemoryOK, OInv, ProcessCalm, Connected
    <2>7. OneTurnPerScope'
      BY <1>1, <1>2, <1>4, <2>4 DEF OInv, OneTurnPerScope
    <2>8. ASSUME NEW t \in exec', turns[t].scope = s
          PROVE  turns[t].state # "absent" /\ Attended(t, b, proc, codex.epoch)
      <3>1. t = a.turn /\ Connected(a)
        BY <1>1, <1>4, <2>8
      <3> QED
        BY <1>1, <2>1, <2>4, <3>1 DEF Attended, Connected, Executing
    <2>9. \A t \in exec' : t \in exec \/ turns[t].scope = s
      BY <1>4, <2>4
    <2> HIDE DEF a
    <2>10. actor[s].live
      BY <1>1 DEF a
    <2> QED
      BY <1>2, <2>2, <2>3, <2>5, <2>6, <2>7, <2>8, <2>9, <2>10, OneStep
  <1> QED
    BY <1>3, <1>4 DEF SendStart

\* The invariant, for an actor with a turn.
LEMMA TurnActor ==
    ASSUME SInv, OInv, NEW s \in Scope, NEW x \in Executing, s \in At({x})
    PROVE  /\ actor[s] \in ActorOf(s) /\ actor[s].live /\ actor[s].pc = x
           /\ actor[s].pc \in Executing /\ Ended(actor[s]) /\ Manner(actor[s], proc)
           /\ x # "settle" => /\ actor[s].turn \in TurnId /\ turns[actor[s].turn].scope = s
                              /\ turns[actor[s].turn].state \in Unresolved
           /\ proc # "down"
  <1>1. actor[s].live /\ actor[s].pc = x
    BY DEF At, Residents
  <1>2. proc # "down"
    BY <1>1 DEF OInv, ProcessCalm, NoActor
  <1>3. actor[s] \in ActorOf(s) /\ OwnTurn(s, actor[s])
    BY ActorTyped
  <1>4. Ended(actor[s]) /\ Manner(actor[s], proc)
    BY DEF OInv, ActorsCalm
  <1> QED
    BY <1>1, <1>2, <1>3, <1>4 DEF OwnTurn, TurnSteps, Executing

\* The turn is to be finalised, on the same connection or on none.
LEMMA TurnEnds ==
    ASSUME SInv, OInv, NEW s \in Scope, actor[s].live, actor[s].pc \in Executing, NEW res,
           NEW wait \in BOOLEAN, Becomes(s, Ends(actor[s], res, wait)), TurnsHold(s),
           UNCHANGED <<proc, eviction>>, exec' \subseteq exec, codex' = codex \/ exec' = {},
           res = "completed" => turns'[actor[s].turn].state = "running",
           wait \/ actor[s].turn \notin exec'
    PROVE  OInv'
  <1>1. PICK b : b = Ends(actor[s], res, wait)
    OBVIOUS
  <1>2. /\ b.pc = "final" /\ b.res = res /\ b.wait = wait /\ b.live = actor[s].live
        /\ b.cancel = actor[s].cancel /\ b.shown = actor[s].shown
        /\ b.turn = actor[s].turn /\ b.epoch = actor[s].epoch
    <2>1. actor[s] \in ActorOf(s)
      BY ActorTyped
    <2>2. b.pc = "final" /\ b.res = res
      BY <1>1, <2>1, EndsFields
    <2>3. b.wait = wait
      BY <1>1, <2>1, EndsFields
    <2>4. b.live = actor[s].live
      BY <1>1, <2>1, EndsFields
    <2>5. b.cancel = actor[s].cancel /\ b.shown = actor[s].shown
      BY <1>1, <2>1, EndsFields
    <2>6. b.turn = actor[s].turn /\ b.epoch = actor[s].epoch
      BY <1>1, <2>1, EndsFields
    <2> QED
      BY <2>2, <2>3, <2>4, <2>5, <2>6
  <1>3. b.pc \in Executing /\ EndedNow(b)
    BY <1>2 DEF Executing, EndedNow
  <1>4. Becomes(s, b)
    BY <1>1
  <1> QED
    BY <1>2, <1>3, <1>4, TurnMoves

\* An answer to turn/start: the turn is executing or over, or was never begun.
LEMMA StartAnsweredCalm == ASSUME SInv, OInv, NEW s \in Scope, StartAnswered(s) PROVE OInv'
  <1> DEFINE a == actor[s]
  <1>1. s \in At({"sent"}) /\ "sent" \in Executing
    BY DEF StartAnswered, Executing
  <1>2. /\ a \in ActorOf(s) /\ a.live /\ a.pc = "sent" /\ a.pc \in Executing /\ Ended(a)
    BY <1>1, TurnActor
  <1>3. UNCHANGED <<turns, proc, eviction, codex, exec>>
    BY DEF StartAnswered, ledger
  <1>4. TurnsHold(s)
    BY <1>3, TurnsSame
  <1>5. CASE Applied(a)
    <2> DEFINE b == [a EXCEPT !.pc = "mark"]
    <2>1. /\ b.pc = "mark" /\ b.live = a.live /\ b.shown = a.shown /\ b.cancel = a.cancel
          /\ b.event = a.event /\ b.turn = a.turn /\ b.epoch = a.epoch
      BY <1>2 DEF ActorOf
    <2>2. Becomes(s, b)
      BY <1>5 DEF StartAnswered
    <2> HIDE DEF b
    <2>3. b.pc \in Executing /\ EndedNow(b)
      BY <1>2, <1>3, <2>1 DEF Executing, EndedNow, Ended
    <2> QED
      BY <1>2, <1>3, <1>4, <2>1, <2>2, <2>3, TurnMoves
  <1>6. CASE ~Applied(a)
    <2>1. Becomes(s, Ends(a, "failed", FALSE)) /\ a.turn \notin exec
      BY <1>6 DEF StartAnswered, Applied
    <2> QED
      BY <1>2, <1>3, <1>4, <2>1, TurnEnds
  <1> QED
    BY <1>5, <1>6

\* No answer: the connection is gone, or is ended for it.
LEMMA StartUnknownCalm == ASSUME SInv, OInv, NEW s \in Scope, StartUnknown(s) PROVE OInv'
  <1>1. s \in At({"sent"}) /\ "sent" \in Executing
    BY DEF StartUnknown, Executing
  <1>2. actor[s].live /\ actor[s].pc \in Executing
    BY <1>1, TurnActor
  <1>3. /\ UNCHANGED <<turns, proc, eviction>> /\ Becomes(s, Ends(actor[s], "uncertain", TRUE))
    BY DEF StartUnknown, ledger
  <1>4. (UNCHANGED <<codex, exec>>) \/ exec' = {}
    BY DEF StartUnknown, ConnectionEnds
  <1>5. TurnsHold(s)
    BY <1>3, TurnsSame
  <1> QED
    BY <1>2, <1>3, <1>4, <1>5, TurnEnds

\* set_turn_state(Running); when it fails the actor waits for the connection to end.
LEMMA MarkRunningCalm ==
    ASSUME SInv, OInv, NEW s \in Scope, NEW ok \in BOOLEAN, MarkRunning(s, ok) PROVE OInv'
  <1> DEFINE a == actor[s]
  <1>1. s \in At({"mark"}) /\ "mark" \in Executing /\ "mark" # "settle"
    BY DEF MarkRunning, Executing
  <1>2. /\ a \in ActorOf(s) /\ a.live /\ a.pc = "mark" /\ a.pc \in Executing /\ Ended(a)
        /\ a.turn \in TurnId /\ turns[a.turn].scope = s
    BY <1>1, TurnActor
  <1>3. UNCHANGED <<proc, eviction, codex, exec>>
    BY DEF MarkRunning, Rest, outside
  <1>4. CASE ok
    <2> DEFINE b == [a EXCEPT !.pc = "run"]
    <2>1. /\ b.pc = "run" /\ b.live = a.live /\ b.shown = a.shown /\ b.cancel = a.cancel
          /\ b.event = a.event /\ b.turn = a.turn /\ b.epoch = a.epoch
      BY <1>2 DEF ActorOf
    <2>2. Becomes(s, b) /\ turns' = [turns EXCEPT ![a.turn].state = "running"]
      BY <1>4 DEF MarkRunning, StoreJob, SetTurnRunning
    <2>3. TurnsHold(s) /\ turns'[a.turn].state = "running"
      <3>1. PICK t \in TurnId : t = a.turn /\ turns[t].scope = s
        BY <1>2
      <3>2. turns' = [turns EXCEPT ![t].state = "running"]
        BY <2>2, <3>1
      <3>3. TurnsHold(s)
        BY <3>1, <3>2, SetsStateHolds
      <3>4. turns'[t].state = "running"
        BY <3>2 DEF SInv, RowsOK, RowTypes, TurnRow
      <3> QED
        BY <3>1, <3>3, <3>4
    <2> HIDE DEF b
    <2>4. b.pc \in Executing /\ EndedNow(b)
      BY <1>2, <1>3, <2>1, <2>3 DEF Executing, EndedNow, Ended
    <2> QED
      BY <1>2, <1>3, <2>1, <2>2, <2>3, <2>4, TurnMoves
  <1>5. CASE ~ok
    <2>1. UNCHANGED turns /\ Becomes(s, Ends(a, "uncertain", TRUE))
      BY <1>5 DEF MarkRunning, StoreJob, ledger
    <2> QED
      BY <1>2, <1>3, <2>1, TurnsSame, TurnEnds
  <1> QED
    BY <1>4, <1>5

\* The event loop ends: with turn/completed, or without it and then with a wait.
LEMMA RunEndsCalm == ASSUME SInv, OInv, NEW s \in Scope, RunEnds(s) PROVE OInv'
  <1> DEFINE a == actor[s]
  <1>1. s \in At({"run"}) /\ "run" \in Executing
    BY DEF RunEnds, Executing
  <1>2. a.live /\ a.pc = "run" /\ a.pc \in Executing /\ Ended(a)
    BY <1>1, TurnActor
  <1>3. UNCHANGED <<turns, proc, eviction, codex, exec>>
    BY DEF RunEnds, Rest, outside, ledger
  <1>4. TurnsHold(s) /\ turns'[a.turn].state = "running"
    BY <1>2, <1>3, TurnsSame DEF Ended
  <1>5. CASE a.event # None /\ Becomes(s, Ends(a, a.event, FALSE))
    <2>1. a.turn \notin exec
      BY <1>2, <1>5 DEF Ended
    <2> QED
      BY <1>2, <1>3, <1>4, <1>5, <2>1, TurnEnds
  <1>6. CASE Becomes(s, Ends(a, "uncertain", TRUE))
    BY <1>2, <1>3, <1>4, <1>6, TurnEnds
  <1> QED
    BY <1>5, <1>6 DEF RunEnds

\* Neither the store nor the sink loses what was asked of it: with one of those
\* failures an actor may drop a turn that is still executing.
Reliable == {"store", "sink"} \cap MayHappen = {}

\* An actor that finalises a turn that may be executing is to wait for its end.
LEMMA WaitsForIt ==
    ASSUME SInv, OInv, NEW s \in Scope, actor[s].live, NEW t \in exec, turns[t].scope = s
    PROVE  /\ actor[s].turn = t /\ actor[s].epoch = codex.epoch /\ codex.client
           /\ actor[s].pc \in {"final", "resolve", "settle"} => actor[s].wait
  BY DEF OInv, ExecAttended, Attended, ProcessCalm

\* persist_finalization.
LEMMA PersistFinalCalm ==
    ASSUME Reliable, SInv, OInv, NEW s \in Scope, PersistFinal(s) PROVE OInv'
  <1> DEFINE a == actor[s]
             b == [a EXCEPT !.pc = "resolve"]
  <1>1. s \in At({"final"}) /\ "final" \in Executing
    BY DEF PersistFinal, Executing
  <1>2. /\ a \in ActorOf(s) /\ a.live /\ a.pc = "final" /\ a.pc \in Executing /\ Ended(a)
    BY <1>1, TurnActor
  <1>3. UNCHANGED <<turns, proc, eviction, codex, exec>> /\ Becomes(s, b)
    BY DEF PersistFinal, outside, ledger, Fault, Reliable
  <1>4. TurnsHold(s)
    BY <1>3, TurnsSame
  <1>5. /\ b.pc = "resolve" /\ b.live = a.live /\ b.shown = a.shown /\ b.cancel = a.cancel
        /\ b.res = a.res /\ b.turn = a.turn /\ b.epoch = a.epoch /\ b.wait = a.wait
    BY <1>2 DEF ActorOf
  <1> HIDE DEF b
  <1>6. b.pc \in Executing /\ EndedNow(b)
    BY <1>2, <1>3, <1>5 DEF Executing, EndedNow, Ended
  <1>7. a.wait \/ a.turn \notin exec
    <2>1. turns[a.turn].scope = s
      BY <1>1, TurnActor
    <2> QED
      BY <1>2, <2>1, WaitsForIt
  <1> QED
    BY <1>2, <1>3, <1>4, <1>5, <1>6, <1>7, TurnMoves

\* resolve_turn_and_finish_inbound_batch is always allowed here; then the actor waits
\* for the end of the epoch, unless it knows that the turn is over.
LEMMA ConcludeCalm ==
    ASSUME Reliable, SInv, OInv, NEW s \in Scope, NEW ok \in BOOLEAN, Conclude(s, ok)
    PROVE  OInv'
  <1> DEFINE a == actor[s]
  <1>1. s \in At({"resolve"}) /\ "resolve" \in Executing /\ "resolve" # "settle"
    BY DEF Conclude, Executing
  <1>2. /\ a \in ActorOf(s) /\ a.live /\ a.pc = "resolve" /\ a.pc \in Executing /\ Ended(a)
        /\ a.turn \in TurnId /\ turns[a.turn].scope = s /\ turns[a.turn].state \in Unresolved
    BY <1>1, TurnActor
  <1>3. UNCHANGED <<proc, eviction, codex, exec>>
    BY DEF Conclude, Rest, outside
  <1>4. ResolveAllowed(a.turn, a.res)
    BY <1>2 DEF ResolveAllowed, Ended, Unresolved
  <1>5. ok /\ turns' = [turns EXCEPT ![a.turn].state = a.res]
    BY <1>4 DEF Conclude, StoreJob, ResolveTurn, Fault, Reliable
  <1>6. a.res \in Resolutions /\ a.res # "absent"
    <2>1. a.res \in Resolutions \cup {None} /\ a.res # None
      BY <1>2, ActorTyped DEF ActorOf, StepData
    <2> QED
      BY <2>1 DEF Resolutions
  <1>7. TurnsHold(s)
    BY <1>2, <1>5, <1>6, SetsStateHolds
  <1>8. CASE a.wait
    <2> DEFINE b == [a EXCEPT !.pc = "settle"]
    <2>1. /\ b.pc = "settle" /\ b.live = a.live /\ b.shown = a.shown /\ b.cancel = a.cancel
          /\ b.turn = a.turn /\ b.epoch = a.epoch /\ b.wait = a.wait
      BY <1>2 DEF ActorOf
    <2>2. Becomes(s, b)
      BY <1>5, <1>8 DEF Conclude
    <2> HIDE DEF b
    <2>3. b.pc \in Executing /\ EndedNow(b)
      BY <2>1 DEF Executing, EndedNow
    <2> QED
      BY <1>2, <1>3, <1>7, <1>8, <2>1, <2>2, <2>3, TurnMoves
  <1>9. CASE ~a.wait
    <2>1. Becomes(s, Finished(a, ok))
      BY <1>9 DEF Conclude
    <2>2. \A t \in exec : turns[t].scope # s
      BY <1>2, <1>9, WaitsForIt
    <2> QED
      BY <1>2, <1>3, <1>7, <2>1, <2>2, FinishedManner, CalmStep DEF Executing
  <1> QED
    BY <1>8, <1>9

\* wait_for_epoch_end: the connection is gone, and with it every turn.
LEMMA EpochEndsCalm == ASSUME SInv, OInv, NEW s \in Scope, EpochEnds(s) PROVE OInv'
  <1>1. actor[s].live /\ ~Connected(actor[s])
    BY DEF EpochEnds, At, Residents
  <1>2. \A t \in exec : turns[t].scope # s
    BY <1>1, WaitsForIt DEF Connected
  <1>3. Aside
    BY AsideFrom DEF EpochEnds, ledger
  <1> QED
    BY <1>1, <1>2, <1>3, CalmEnd DEF EpochEnds

\* An actor leaves: before its turn, or in a shutdown.
LEMMA LeaveCalm == ASSUME SInv, OInv, NEW s \in Scope, Leave(s) PROVE OInv'
  <1> DEFINE a == actor[s]
  <1>1. a.live /\ a.cancel /\ Becomes(s, NoActor) /\ Manner(a, proc)
    BY DEF Leave, Residents, OInv, ActorsCalm
  <1>2. Aside
    BY AsideFrom DEF Leave, ledger
  <1>3. CASE a.pc \notin Executing
    BY <1>1, <1>2, <1>3, NobodyExecutes, CalmEnd
  <1>4. CASE a.pc \in Executing
    <2>1. proc = "stopping"
      <3>1. ~MayStop(a)
        BY <1>4 DEF MayStop, Executing, Early
      <3>2. proc # "up" /\ proc # "down"
        BY <1>1, <3>1 DEF Manner, OInv, ProcessCalm, NoActor
      <3> QED
        BY <3>2 DEF SInv, MemoryOK
    <2>2. Manner(NoActor, proc) /\ NoActor.pc = "idle" /\ NoActor.live = FALSE
      BY FinishedManner DEF NoActor
    <2>3. EndedNow(NoActor)
      BY <2>2 DEF EndedNow
    <2>4. TurnsHold(s) /\ OneTurnPerScope'
      BY <1>2, TurnsSame, FewerTurns DEF Aside
    <2>5. ASSUME NEW t \in exec', turns[t].scope = s
          PROVE  turns[t].state # "absent" /\ Attended(t, NoActor, proc, codex.epoch)
      BY <1>2, <2>1, <2>2 DEF Aside, OInv, ExecAttended, Attended
    <2>6. exec' \subseteq TurnId /\ (exec' # {} => codex'.client)
      BY <1>2 DEF SInv, MemoryOK, OInv, ProcessCalm, Aside
    <2> QED
      BY <1>1, <1>2, <2>2, <2>3, <2>4, <2>5, <2>6, OneStep DEF Aside
  <1> QED
    BY <1>3, <1>4

\* Every step of an actor.
LEMMA ActorStepCalm ==
    ASSUME Reliable, SInv, OInv, NEW s \in Scope, ActorStep(s) PROVE OInv'
  BY ReceiveCalm, BeginBatchCalm, DebounceCalm, AcquirePermitCalm, TakeClientCalm,
     PreparingCalm, AssembleFailsCalm, SendStartCalm, StartAnsweredCalm, StartUnknownCalm,
     RunEndsCalm, PersistFinalCalm, EpochEndsCalm, LeaveCalm, PrepareMediaCalm, ControlCalm,
     ExecuteControlCalm, RefuseCalm, AbandonThreadCalm, StartThreadCalm, ClaimCalm,
     MarkRunningCalm, ConcludeCalm
     DEF ActorStep

-----------------------------------------------------------------------------
(* Everybody else.                                                         *)

\* A step that moves no turn; each actor may gain an event to hear of, an item in
\* its mailbox, or a cancellation.
LEMMA OthersStep ==
    ASSUME SInv, OInv, UNCHANGED turns, exec' \subseteq exec, ProcessCalm',
           \A s \in Scope : Manner(actor'[s], proc') /\ EndedNow(actor'[s]),
           exec' # {} => codex'.epoch = codex.epoch,
           \A t \in exec' : LET s == turns[t].scope
                            IN  /\ Attended(t, actor[s], proc, codex.epoch) =>
                                   Attended(t, actor'[s], proc', codex.epoch)
    PROVE  OInv'
  <1>1. ActorsCalm'
    BY DEF ActorsCalm, Ended, EndedNow, Manner, MayStop
  <1>2. ExecAttended'
    BY DEF OInv, ExecAttended
  <1>3. OneTurnPerScope'
    BY DEF OInv, OneTurnPerScope
  <1> QED
    BY <1>1, <1>2, <1>3 DEF OInv

\* No actor moves.
LEMMA ActorsStill ==
    ASSUME SInv, OInv, UNCHANGED <<turns, actor, proc, eviction>>,
           exec' = {} \/ (exec' = exec /\ codex'.epoch = codex.epoch /\
                          (codex.client => codex'.client))
    PROVE  OInv'
  <1>1. ProcessCalm'
    BY DEF OInv, ProcessCalm
  <1>2. \A s \in Scope : Manner(actor'[s], proc') /\ EndedNow(actor'[s])
    BY DEF OInv, ActorsCalm, Ended, EndedNow
  <1>3. exec' \subseteq exec /\ (exec' # {} => codex'.epoch = codex.epoch)
    OBVIOUS
  <1> QED
    BY <1>1, <1>2, <1>3, OthersStep

\* The receipt boundary and the sweep.
LEMMA IntakeCalm ==
    ASSUME SInv, OInv, NEW e \in Event, NEW ok \in BOOLEAN,
           Deliver(e, ok) \/ DeliverCut(e) \/ Sweep(e)
    PROVE  OInv'
  <1>1. UNCHANGED <<turns, actor, proc, eviction, codex, exec>>
    BY DEF Deliver, DeliverCut, Sweep, StoreJob, RegisterInbound, SweepInbound, ledger, memory
  <1> QED
    BY <1>1, ActorsStill

\* The connection: a lost one takes its turns with it.
LEMMA CodexCalm == ASSUME SInv, OInv, CodexReady \/ CodexDies \/ CodexGivesUp PROVE OInv'
  <1>1. UNCHANGED <<turns, actor, proc, eviction>>
    BY DEF CodexReady, CodexDies, CodexGivesUp, ledger, memory
  <1>2. codex \in [epoch: Nat, client: BOOLEAN, terminal: BOOLEAN]
    BY DEF SInv, MemoryOK
  <1>3. exec' = {} \/ (exec' = exec /\ ~codex.client)
    BY DEF CodexReady, CodexDies, CodexGivesUp, ConnectionEnds
  <1>4. ~codex.client => exec = {}
    BY DEF OInv, ProcessCalm
  <1> QED
    BY <1>1, <1>3, <1>4, ActorsStill

\* Cancelling every actor, in a shutdown.
LEMMA CancelledCalm ==
    ASSUME SInv, OInv, UNCHANGED <<turns, eviction, codex, exec>>, proc = "up",
           proc' = "stopping", eviction = NoEviction, actor' = AllCancelled
    PROVE  OInv'
  <1>1. ProcessCalm'
    BY DEF OInv, ProcessCalm
  <1>2. ASSUME NEW s \in Scope
        PROVE  /\ Manner(actor'[s], proc') /\ EndedNow(actor'[s])
               /\ \A t : Attended(t, actor[s], proc, codex.epoch) =>
                         Attended(t, actor'[s], proc', codex.epoch)
    <2>1. PICK a \in ActorOf(s), c \in BOOLEAN : a = actor[s] /\ c = actor[s].live
      BY ActorTyped DEF ActorOf
    <2>2. PICK b : b = actor'[s] /\ b = [a EXCEPT !.cancel = c]
      BY <2>1 DEF AllCancelled
    <2>3. /\ b.pc = a.pc /\ b.shown = a.shown /\ b.batch = a.batch /\ b.event = a.event
          /\ b.turn = a.turn /\ b.res = a.res /\ b.live = a.live /\ b.epoch = a.epoch
          /\ b.wait = a.wait
      BY <2>2 DEF ActorOf
    <2>4. Manner(a, proc) /\ Ended(a)
      BY <2>1 DEF OInv, ActorsCalm
    <2>5. Manner(b, proc')
      BY <2>3, <2>4 DEF Manner
    <2>6. EndedNow(b)
      BY <2>3, <2>4 DEF Ended, EndedNow
    <2>7. \A t : Attended(t, a, proc, codex.epoch) => Attended(t, b, proc', codex.epoch)
      BY <2>3 DEF Attended
    <2> QED
      BY <2>1, <2>2, <2>5, <2>6, <2>7
  <1>3. \A t \in exec : turns[t].scope \in Scope
    BY DEF SInv, RowsOK, RowTypes, MemoryOK, TurnRow
  <1> QED
    BY <1>1, <1>2, <1>3, OthersStep

\* An item for the actor of s, which may have to be started for it.
LEMMA MailedCalm ==
    ASSUME SInv, OInv, NEW s \in Scope, NEW e, Mailed(s, e), proc = "up",
           UNCHANGED <<turns, proc, codex, exec>>
    PROVE  OInv'
  <1>1. ProcessCalm'
    BY DEF OInv, ProcessCalm
  <1>2. PICK a \in ActorOf(s) : a = actor[s]
    BY ActorTyped
  <1>3. PICK b : /\ actor' = [actor EXCEPT ![s] = b]
                 /\ b = IF a.live THEN [a EXCEPT !.box = Append(@, e)]
                        ELSE [NewActor EXCEPT !.box = <<e>>]
    BY <1>2, Zenon DEF Mailed
  <1>4. actor'[s] = b /\ \A o \in Scope \ {s} : actor'[o] = actor[o]
    BY <1>3 DEF SInv, ActorsOK
  <1>5. Manner(a, proc) /\ Ended(a)
    BY <1>2 DEF OInv, ActorsCalm
  <1>6. /\ Manner(b, proc) /\ EndedNow(b)
        /\ \A t : Attended(t, a, proc, codex.epoch) => Attended(t, b, proc, codex.epoch)
    <2>1. CASE a.live
      <3>1. /\ b.pc = a.pc /\ b.shown = a.shown /\ b.batch = a.batch /\ b.event = a.event
            /\ b.turn = a.turn /\ b.res = a.res /\ b.live = a.live /\ b.epoch = a.epoch
            /\ b.wait = a.wait /\ b.cancel = a.cancel
        <4>1. PICK q : q = Append(a.box, e)
          OBVIOUS
        <4>2. b = [a EXCEPT !.box = q]
          BY <1>3, <2>1, <4>1
        <4> QED
          BY <4>2 DEF ActorOf
      <3> QED
        BY <1>5, <3>1 DEF Manner, MayStop, Ended, EndedNow, Attended
    <2>2. CASE ~a.live
      <3>1. b.pc = "idle" /\ b.batch = <<>> /\ b.event = None
        BY <1>3, <2>2 DEF NewActor, NoActor
      <3>2. Manner(b, proc) /\ EndedNow(b)
        BY <3>1 DEF Manner, MayStop, Early, EndedNow
      <3>3. \A t : ~Attended(t, a, proc, codex.epoch)
        BY <2>2 DEF Attended
      <3> QED
        BY <3>2, <3>3
    <2> QED
      BY <2>1, <2>2
  <1>7. \A o \in Scope : Manner(actor[o], proc) /\ Ended(actor[o])
    BY DEF OInv, ActorsCalm
  <1>8. \A o \in Scope : Manner(actor'[o], proc') /\ EndedNow(actor'[o])
    <2> SUFFICES ASSUME NEW o \in Scope PROVE Manner(actor'[o], proc') /\ EndedNow(actor'[o])
      OBVIOUS
    <2>1. CASE o = s
      BY <1>4, <1>6, <2>1
    <2>2. CASE o # s
      BY <1>4, <1>7, <2>2 DEF Ended, EndedNow
    <2> QED
      BY <2>1, <2>2
  <1>9. \A t \in exec : turns[t].scope \in Scope
    BY DEF SInv, RowsOK, RowTypes, MemoryOK, TurnRow
  <1> QED
    BY <1>1, <1>2, <1>4, <1>6, <1>8, <1>9, OthersStep

\* The router cancels an actor that shows Idle: it has no turn.
LEMMA EvictsCalm ==
    ASSUME SInv, OInv, NEW s \in Scope, actor' = [actor EXCEPT ![s].cancel = TRUE],
           actor[s].live, actor[s].shown = "idle", proc = "up",
           UNCHANGED <<turns, proc, codex, exec>>
    PROVE  OInv'
  <1>1. ProcessCalm'
    BY DEF OInv, ProcessCalm
  <1>2. PICK a \in ActorOf(s) : a = actor[s] /\ Manner(a, proc) /\ Ended(a)
    BY ActorTyped DEF OInv, ActorsCalm
  <1>3. PICK b : b = [a EXCEPT !.cancel = TRUE] /\ actor' = [actor EXCEPT ![s] = b]
    BY <1>2
  <1>4. actor'[s] = b /\ \A o \in Scope \ {s} : actor'[o] = actor[o]
    BY <1>3 DEF SInv, ActorsOK
  <1>5. /\ b.pc = a.pc /\ b.shown = a.shown /\ b.batch = a.batch /\ b.event = a.event
        /\ b.turn = a.turn /\ b.res = a.res /\ b.live = a.live /\ b.epoch = a.epoch
        /\ b.wait = a.wait
    BY <1>3 DEF ActorOf
  <1>6. a.pc \in Early
    BY <1>2 DEF Manner
  <1>7. Manner(b, proc)
    BY <1>2, <1>5, <1>6 DEF Manner, MayStop
  <1>8. EndedNow(b)
    BY <1>2, <1>5 DEF Ended, EndedNow
  <1>9. \A t : Attended(t, a, proc, codex.epoch) => Attended(t, b, proc, codex.epoch)
    BY <1>5 DEF Attended
  <1>10. ASSUME NEW o \in Scope PROVE Manner(actor'[o], proc') /\ EndedNow(actor'[o])
    <2>1. CASE o = s
      BY <1>4, <1>7, <1>8, <2>1
    <2>2. CASE o # s
      <3>1. Manner(actor[o], proc) /\ Ended(actor[o]) /\ actor'[o] = actor[o]
        BY <1>4, <2>2 DEF OInv, ActorsCalm
      <3> QED
        BY <3>1 DEF Ended, EndedNow
    <2> QED
      BY <2>1, <2>2
  <1>11. \A t \in exec : turns[t].scope \in Scope
    BY DEF SInv, RowsOK, RowTypes, MemoryOK, TurnRow
  <1> QED
    BY <1>1, <1>2, <1>4, <1>9, <1>10, <1>11, OthersStep

\* Codex ends a turn: it stops executing, and the actor that waits for it hears of it.
LEMMA CodexFinishesCalm ==
    ASSUME SInv, OInv, NEW t \in TurnId, NEW res \in Outcomes, CodexFinishes(t, res)
    PROVE  OInv'
  <1>1. PICK s \in Scope : s = turns[t].scope
    BY DEF SInv, RowsOK, RowTypes, TurnRow
  <1>2. /\ UNCHANGED <<turns, proc, eviction, codex>> /\ exec' = exec \ {t}
        /\ actor' = IF Belongs(t, s) THEN [actor EXCEPT ![s].event = res] ELSE actor
    BY <1>1 DEF CodexFinishes, ledger
  <1>3. PICK a \in ActorOf(s) : a = actor[s] /\ Manner(a, proc) /\ Ended(a)
    BY ActorTyped DEF OInv, ActorsCalm
  <1>4. PICK b : /\ b = IF Belongs(t, s) THEN [a EXCEPT !.event = res] ELSE a
                 /\ actor'[s] = b /\ \A o \in Scope \ {s} : actor'[o] = actor[o]
    BY <1>2, <1>3 DEF SInv, ActorsOK
  <1>5. /\ b.pc = a.pc /\ b.shown = a.shown /\ b.batch = a.batch /\ b.cancel = a.cancel
        /\ b.turn = a.turn /\ b.res = a.res /\ b.live = a.live /\ b.epoch = a.epoch
        /\ b.wait = a.wait
    BY <1>4 DEF ActorOf
  <1>6. b.event = a.event \/ (Belongs(t, s) /\ b.event = res)
    BY <1>4 DEF ActorOf
  <1>7. Belongs(t, s) => a.pc \in {"sent", "mark", "run"} /\ a.turn = t
    BY <1>3 DEF Belongs, At
  <1>8. Manner(b, proc)
    BY <1>3, <1>5, <1>6, <1>7 DEF Manner, MayStop, Executing
  <1>9. EndedNow(b)
    BY <1>2, <1>3, <1>5, <1>6, <1>7 DEF Ended, EndedNow
  <1>10. \A u : Attended(u, a, proc, codex.epoch) => Attended(u, b, proc, codex.epoch)
    BY <1>5 DEF Attended
  <1>11. ASSUME NEW o \in Scope PROVE Manner(actor'[o], proc') /\ EndedNow(actor'[o])
    <2>1. CASE o = s
      BY <1>2, <1>4, <1>8, <1>9, <2>1
    <2>2. CASE o # s
      <3>1. Manner(actor[o], proc) /\ Ended(actor[o]) /\ actor'[o] = actor[o]
        BY <1>4, <2>2 DEF OInv, ActorsCalm
      <3>2. Manner(actor'[o], proc')
        BY <1>2, <3>1
      <3>3. EndedNow(actor[o])
        BY <1>2, <3>1 DEF Ended, EndedNow
      <3> QED
        BY <3>1, <3>2, <3>3
    <2> QED
      BY <2>1, <2>2
  <1>12. \A u \in exec : turns[u].scope \in Scope
    BY DEF SInv, RowsOK, RowTypes, MemoryOK, TurnRow
  <1>13. ProcessCalm'
    <2>1. proc # "down"
      BY DEF OInv, ProcessCalm, CodexFinishes
    <2> QED
      BY <1>2, <2>1 DEF OInv, ProcessCalm
  <1> QED
    BY <1>2, <1>3, <1>4, <1>10, <1>11, <1>12, <1>13, OthersStep

\* A crash, or the end of a shutdown.
LEMMA GoneCalm == ASSUME SInv, OInv, Gone PROVE OInv'
  <1>1. \A s \in Scope : actor'[s] = NoActor
    BY DEF Gone
  <1>2. ProcessCalm'
    BY <1>1 DEF ProcessCalm, Gone
  <1>3. Manner(NoActor, proc') /\ NoActor.pc = "idle"
    BY FinishedManner
  <1>4. EndedNow(NoActor)
    BY <1>3 DEF EndedNow
  <1>5. UNCHANGED turns /\ exec' = {}
    BY DEF Gone, ledger
  <1> QED
    BY <1>1, <1>2, <1>3, <1>4, <1>5, OthersStep

\* A start.
LEMMA StartCalm == ASSUME SInv, OInv, Start PROVE OInv'
  <1>1. /\ UNCHANGED <<turns, actor, eviction, codex, exec>> /\ proc = "down" /\ proc' = "up"
    BY DEF Start, ledger, outside
  <1>2. exec = {} /\ \A s \in Scope : actor[s] = NoActor
    BY <1>1 DEF OInv, ProcessCalm
  <1>3. Manner(NoActor, proc') /\ NoActor.pc = "idle"
    BY FinishedManner
  <1>4. EndedNow(NoActor)
    BY <1>3 DEF EndedNow
  <1>5. ProcessCalm'
    BY <1>1, <1>2 DEF ProcessCalm
  <1> QED
    BY <1>1, <1>2, <1>3, <1>4, <1>5, OthersStep

\* The router mails, rejects, and cancels only what shows Idle.
LEMMA RouterCalm == ASSUME SInv, OInv, Router PROVE OInv'
  <1>1. ASSUME NEW src \in {"queue", "retry"}, NEW e \in Event, NEW ok \in BOOLEAN,
               \/ RouteIgnored(src, e, ok) \/ RouteRefused(src, e, ok)
               \/ RouteNoCodex(src, e, ok) \/ RouteOverloaded(src, e, ok)
        PROVE  OInv'
    <2>1. /\ Routable(src, e) /\ Popped(src, e, ok) /\ UNCHANGED <<eviction, outside>>
          /\ UNCHANGED turns
      BY <1>1, RowJobs DEF RouteIgnored, RouteRefused, RouteNoCodex, RouteOverloaded,
         RouterRejects
    <2>2. /\ proc = "up" /\ eviction = NoEviction /\ UNCHANGED <<turns, eviction, codex, exec>>
          /\ \/ proc' = "up" /\ actor' = actor
             \/ proc' = "stopping" /\ actor' = AllCancelled
      BY <2>1 DEF Routable, Popped, outside
    <2> QED
      BY <2>2, CancelledCalm, ActorsStill
  <1>2. ASSUME NEW src \in {"queue", "retry"}, NEW e \in Event, RouteToActor(src, e)
        PROVE  OInv'
    <2>1. /\ proc = "up" /\ UNCHANGED <<turns, proc, eviction, codex, exec>>
          /\ Mailed(ScopeOf[e], e) /\ ScopeOf[e] \in Scope
      BY <1>2, LedgerAssumption DEF RouteToActor, Routable, ledger, outside
    <2> QED
      BY <2>1, MailedCalm
  <1>3. ASSUME NEW src \in {"queue", "retry"}, NEW e \in Event, NEW s \in Scope,
               RouteEvicts(src, e, s)
        PROVE  OInv'
    BY <1>3, EvictsCalm DEF RouteEvicts, Routable, IdleAndEmpty, Residents, ledger, outside
  <1>4. CASE EvictionDone
    <2>1. proc = "up" /\ eviction # NoEviction
      BY <1>4 DEF EvictionDone, OInv, ProcessCalm
    <2>2. PICK e \in Event : e = eviction.event
      BY <2>1 DEF SInv, MemoryOK
    <2>3. /\ UNCHANGED <<turns, proc, codex, exec>> /\ Mailed(ScopeOf[e], e)
          /\ ScopeOf[e] \in Scope
      BY <1>4, <2>2, LedgerAssumption DEF EvictionDone, ledger, outside
    <2> QED
      BY <2>1, <2>3, MailedCalm
  <1> QED
    BY <1>1, <1>2, <1>3, <1>4 DEF Router

\* Nothing executes yet.
LEMMA OInit == Init => OInv
  <1> SUFFICES ASSUME Init PROVE OInv
    OBVIOUS
  <1>1. /\ exec = {} /\ proc = "up" /\ \A s \in Scope : actor[s] = NoActor
    BY DEF Init
  <1>2. Manner(NoActor, proc) /\ NoActor.pc = "idle"
    BY FinishedManner
  <1>3. Ended(NoActor)
    BY <1>2 DEF Ended
  <1> QED
    BY <1>1, <1>2, <1>3 DEF OInv, ActorsCalm, ExecAttended, ProcessCalm, OneTurnPerScope

\* The invariant is inductive, given that of Part 3.
LEMMA OKept == Reliable /\ SInv /\ OInv /\ [Next]_vars => OInv'
  <1> SUFFICES ASSUME Reliable, SInv, OInv, [Next]_vars PROVE OInv'
    OBVIOUS
  <1>1. CASE UNCHANGED vars
    BY <1>1, ActorsStill DEF vars
  <1>2. CASE Crash \/ Stopped
    BY <1>2, GoneCalm DEF Crash, Stopped
  <1>3. CASE RequestStop
    BY <1>3, CancelledCalm DEF RequestStop, ledger, outside
  <1> QED
    BY <1>1, <1>2, <1>3, IntakeCalm, RouterCalm, ActorStepCalm, CodexCalm, CodexFinishesCalm,
       StartCalm
       DEF Next

\* Codex never executes two turns of one conversation at a time, through evictions,
\* lost answers, connections that end and turns that end in between, as long as the
\* store and the sink do not fail (process_batch, wait_for_epoch_end).
THEOREM OneTurnAtATime == Reliable => (Spec => []OneTurnPerScope)
  <1> SUFFICES ASSUME Reliable PROVE Spec => []OneTurnPerScope
    OBVIOUS
  <1>1. SInv /\ OInv /\ [Next]_vars => (SInv /\ OInv)'
    BY SInvKept, OKept
  <1>2. Init => SInv /\ OInv
    BY SInit, OInit
  <1>3. OInv => OneTurnPerScope
    BY DEF OInv
  <1> QED
    BY <1>1, <1>2, <1>3, PTL DEF Spec
=============================================================================
