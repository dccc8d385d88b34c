-------------------------- MODULE OwnershipProofs --------------------------
(***************************************************************************)
(* The supervisor and its processes keep the promise of module Owner: the  *)
(* composition of the supervisor, the adoption coordinator and their       *)
(* crashes refines "at most one tree, and nothing handed out or reported   *)
(* while an older one may be alive".                                       *)
(*                                                                         *)
(* The abstract counter is the number of trees of which something may      *)
(* still run (AliveTrees).  SupInv reduces it to a Boolean: every tree but *)
(* the last is gone (Earlier), so the count is 1 or 0 as the last one      *)
(* stands or not (AliveCount).  Each step of run_supervisor is then one of *)
(* the moves of OwnerMove, and OwnerMove is a step or a stutter of the     *)
(* abstract specification (OwnerMoveMaps).                                 *)
(***************************************************************************)
EXTENDS Ownership, FiniteSetTheorems, TLAPS

\* What a tree's leader is, and what a cleanup is for: where the task goes on afterwards.
Leaders == {"running", "zombie", "foreign", "reaped"}
Causes == {"probed", "retry", "permanent", "retry_start", "permanent_start", "stop", "graceful",
           "exited"}

\* The weak type invariant the induction needs.
SvShape == DOMAIN sv = {"pc", "attempt", "epoch", "next", "out", "policy", "kind"}
TreeSet == [leader : Leaders, rest : BOOLEAN]
TreeShape == tree \in Seq(TreeSet)

\* A new tree is only spawned once the one before is confirmed gone.
Earlier == \A i \in 1 .. Cur - 1 : ~ Stuck(i)
Standing == Cur > 0 /\ Stuck(Cur)
\* Between two epochs nothing runs; from a spawn on there is a tree.
Quiet == sv.pc \in {"loop", "delay", "start", "spawn", "launch"} => ~ Standing
Begun == sv.pc \notin {"loop", "delay", "start", "spawn", "launch", "done", "degraded"} => Cur > 0
\* A cleanup has a cause, and the group is only probed once its leader is reaped.
WhyKill == sv.pc \in {"observe", "kill", "wait", "group"} => sv.next \in Causes
Reaped == sv.pc = "group" => Leader = "reaped"
\* A task that degraded with "ok" left nothing behind, and only one that is done has a verdict.
Told == /\ sv.pc = "degraded" => sv.out \in {"ok", "failed"} /\ (sv.out = "ok" => ~ Standing)
        /\ sv.pc # "done" => verdict = "none"
\* A client is handed out only while its epoch runs.
GivenOut == slot # 0 => sv.pc = "running"

\* The inductive invariant of run_supervisor.
SupInv ==
  SvShape /\ TreeShape /\ Earlier /\ Quiet /\ Begun /\ WhyKill /\ Reaped /\ Told /\ GivenOut

\* At most one tree is alive: the last.
Counted == Cardinality(AliveTrees) = IF Standing THEN 1 ELSE 0

\* The abstract count is decided by the last tree alone.
LEMMA AliveCount == SupInv => Counted
  <1> SUFFICES ASSUME TreeShape, Earlier PROVE Counted
    BY DEF SupInv
  <1>1. Standing => AliveTrees = {Cur}
    BY DEF TreeShape, Earlier, Standing, AliveTrees, Cur
  <1>2. ~ Standing => AliveTrees = {}
    BY DEF TreeShape, Earlier, Standing, AliveTrees, Cur
  <1>3. Cardinality({}) = 0
    BY FS_EmptySet
  <1>4. Cardinality({Cur}) = 1
    BY FS_Singleton
  <1> QED
    BY <1>1, <1>2, <1>3, <1>4 DEF Counted

\* A new process has no trees.
LEMMA NoTrees ==
    ASSUME tree = <<>>
    PROVE  TreeShape /\ Earlier /\ ~ Standing
  <1>1. TreeShape
    BY DEF TreeShape
  <1>2. Cur = 0
    BY DEF Cur
  <1> QED
    BY <1>1, <1>2 DEF Earlier, Standing

\* What a step that leaves the trees alone keeps.
LEMMA TreeStays ==
    ASSUME UNCHANGED tree
    PROVE  /\ TreeShape <=> TreeShape'
           /\ Earlier <=> Earlier'
           /\ Standing' <=> Standing
           /\ Cur' = Cur /\ Leader' = Leader /\ Rest' = Rest
  BY DEF TreeShape, Earlier, Standing, Stuck, Cur, Leader, Rest

\* A spawn, when nothing stands: the new tree is the only one alive.
LEMMA TreeGrows ==
    ASSUME TreeShape, Earlier, ~ Standing, tree' = Append(tree, NewTree)
    PROVE  TreeShape' /\ Earlier' /\ Standing' /\ Cur' > 0
  <1>1. NewTree \in TreeSet
    BY DEF NewTree, Leaders, TreeSet
  <1>2. TreeShape'
    BY <1>1 DEF TreeShape
  <1>3. /\ Len(tree') = Len(tree) + 1 /\ Len(tree) \in Nat /\ tree'[Len(tree) + 1] = NewTree
        /\ \A i \in 1 .. Len(tree) : tree'[i] = tree[i]
    BY <1>1 DEF TreeShape
  <1>4. \A i \in 1 .. Len(tree) : ~ Stuck(i)
    BY <1>3 DEF Earlier, Standing, Cur
  <1>5. Earlier'
    BY <1>3, <1>4 DEF Earlier, Stuck, Cur
  <1>6. Standing' /\ Cur' > 0
    BY <1>3 DEF Standing, Stuck, NewTree, Cur
  <1> QED
    BY <1>2, <1>5, <1>6

\* The last tree, read field by field.
LEMMA TreeFields ==
    ASSUME TreeShape, Cur > 0
    PROVE  /\ Cur \in DOMAIN tree
           /\ tree[Cur] \in TreeSet
           /\ Leader \in Leaders /\ Rest \in BOOLEAN
           /\ Standing <=> (Leader = "running" \/ Rest)
  <1>1. Len(tree) \in Nat /\ DOMAIN tree = 1 .. Len(tree)
    BY DEF TreeShape
  <1>2. Cur \in 1 .. Len(tree)
    BY <1>1 DEF Cur
  <1>3. tree[Cur] \in TreeSet
    BY <1>1, <1>2 DEF TreeShape
  <1>4. tree[Cur].leader \in Leaders /\ tree[Cur].rest \in BOOLEAN
    BY <1>3 DEF TreeSet
  <1>5. Standing <=> (Leader = "running" \/ Rest)
    BY DEF Standing, Stuck, Leader, Rest
  <1> QED
    BY <1>1, <1>2, <1>3, <1>4, <1>5 DEF Leader, Rest

\* The last tree changes to e; the ones before stay gone.
LEMMA TreeTurns ==
    ASSUME TreeShape, Earlier, Cur > 0, NEW e \in TreeSet,
           tree' = [tree EXCEPT ![Cur] = e]
    PROVE  /\ TreeShape' /\ Earlier' /\ Cur' = Cur /\ Leader' = e.leader
           /\ Standing' <=> (e.leader = "running" \/ e.rest)
  <1>1. TreeShape' /\ Cur' = Cur
    BY DEF TreeShape, Cur
  <1>2. tree'[Cur] = e /\ \A i \in 1 .. Cur - 1 : tree'[i] = tree[i]
    BY DEF TreeShape, Cur
  <1>3. Earlier'
    BY <1>1, <1>2 DEF Earlier, Stuck
  <1>4. Leader' = e.leader /\ Rest' = e.rest
    BY <1>1, <1>2 DEF Leader, Rest
  <1>5. Standing' <=> (Leader' = "running" \/ Rest')
    BY <1>1, TreeFields DEF Standing, Stuck, Leader, Rest
  <1> QED
    BY <1>1, <1>3, <1>4, <1>5

\* What one step may do to the three things module Owner sees: spawn, lose a tree, hand out or
\* withdraw a client, return with a verdict, or start a new life.
OwnerMove ==
  \/ /\ ~ Standing /\ Standing'
     /\ slot = 0 /\ slot' = 0 /\ verdict = "none" /\ verdict' = "none"
  \/ (Standing' => Standing) /\ UNCHANGED <<slot, verdict>>
  \/ (Standing' <=> Standing) /\ verdict = "none" /\ verdict' = "none"
  \/ /\ (Standing' <=> Standing) /\ slot = 0 /\ slot' = 0
     /\ verdict = "none" /\ verdict' \in {"ok", "failed"}
     /\ verdict' = "ok" => ~ Standing
  \/ ~ Standing' /\ slot' = 0 /\ verdict' = "none"

\* The first state of the supervisor.
LEMMA SupInitInv == ASSUME OwnInit PROVE SupInv
  <1>1. PICK p, k : SupInit(p, k)
    BY DEF OwnInit
  <1> QED
    BY <1>1, NoTrees
       DEF SupInit, SupFresh, SupInv, SvShape, Quiet, Begun, WhyKill, Reaped, Told, GivenOut

\* run_supervisor's loop head.
LEMMA LoopMoves ==
    ASSUME SupInv, Loop
    PROVE  SupInv' /\ OwnerMove
  <1>1. (TreeShape /\ Earlier)' /\ (Standing' <=> Standing) /\ Cur' = Cur /\ Leader' = Leader
    BY TreeStays DEF SupInv, Loop, SvAt, Step
  <1> QED
    BY <1>1 DEF Loop, SvAt, Step, SupInv, SvShape, OwnerMove, Quiet, Begun, WhyKill, Reaped,
           Causes, Told, GivenOut

\* The back-off.
LEMMA DelayMoves ==
    ASSUME SupInv, Delay
    PROVE  SupInv' /\ OwnerMove
  <1>1. (TreeShape /\ Earlier)' /\ (Standing' <=> Standing) /\ Cur' = Cur /\ Leader' = Leader
    BY TreeStays DEF SupInv, Delay, SvAt, Step
  <1> QED
    BY <1>1 DEF Delay, SvAt, Step, SupInv, SvShape, OwnerMove, Quiet, Begun, WhyKill,
           Reaped, Causes, Told, GivenOut

\* A new epoch, or the end.
LEMMA StartEpochMoves ==
    ASSUME SupInv, StartEpoch
    PROVE  SupInv' /\ OwnerMove
  <1>1. (TreeShape /\ Earlier)' /\ (Standing' <=> Standing) /\ Cur' = Cur /\ Leader' = Leader
    BY TreeStays DEF SupInv, StartEpoch, SvAt, Stop
  <1> QED
    BY <1>1 DEF StartEpoch, SvAt, Stop, SupInv, SvShape, OwnerMove, Quiet, Begun, WhyKill,
           Reaped, Causes, Told, GivenOut

\* The task returns.
LEMMA StopMoves ==
    ASSUME SupInv, NEW out \in {"ok", "failed"}, out = "ok" => ~ Standing,
           sv.pc \notin {"running", "done"}, Stop(out), UNCHANGED tree
    PROVE  SupInv' /\ OwnerMove
  <1>1. (TreeShape /\ Earlier)' /\ (Standing' <=> Standing) /\ Cur' = Cur /\ Leader' = Leader
    BY TreeStays DEF SupInv, Stop
  <1> QED
    BY <1>1 DEF Stop, SupInv, SvShape, OwnerMove, Quiet, Begun, WhyKill, Reaped, Causes,
           Told, GivenOut

\* The task degrades.
LEMMA DegradeMoves ==
    ASSUME SupInv, NEW out \in {"ok", "failed"}, out = "ok" => ~ Standing,
           sv.pc \notin {"running", "done"}, Degrade(out), UNCHANGED tree
    PROVE  SupInv' /\ OwnerMove
  <1>1. (TreeShape /\ Earlier)' /\ (Standing' <=> Standing) /\ Cur' = Cur /\ Leader' = Leader
    BY TreeStays DEF SupInv, Degrade
  <1> QED
    BY <1>1 DEF Degrade, SupInv, SvShape, OwnerMove, Quiet, Begun, WhyKill, Reaped, Causes,
           Told, GivenOut

\* The loop goes round.
LEMMA AgainMoves ==
    ASSUME SupInv, ~ Standing, sv.pc \notin {"running", "done"}, Again, UNCHANGED tree
    PROVE  SupInv' /\ OwnerMove
  <1>1. (TreeShape /\ Earlier)' /\ (Standing' <=> Standing) /\ Cur' = Cur /\ Leader' = Leader
    BY TreeStays DEF SupInv, Again
  <1> QED
    BY <1>1 DEF Again, SupInv, SvShape, OwnerMove, Quiet, Begun, WhyKill, Reaped, Causes,
           Told, GivenOut

\* After the probe.
LEMMA LaunchMoves ==
    ASSUME SupInv, ~ Standing, sv.pc \notin {"running", "done"}, Step("launch"),
           UNCHANGED <<pub, slot, verdict>>, UNCHANGED tree
    PROVE  SupInv' /\ OwnerMove
  <1>1. (TreeShape /\ Earlier)' /\ (Standing' <=> Standing) /\ Cur' = Cur /\ Leader' = Leader
    BY TreeStays DEF SupInv, Step
  <1> QED
    BY <1>1 DEF Step, SupInv, SvShape, OwnerMove, Quiet, Begun, WhyKill, Reaped, Causes,
           Told, GivenOut

\* stop_after_start_failure: what cannot be confirmed gone is never retried.
LEMMA StartFailureMoves ==
    ASSUME SupInv, NEW permanent \in BOOLEAN, NEW out \in {"ok", "failed"},
           out = "ok" => ~ Standing, out = "failed" => permanent,
           sv.pc \notin {"running", "done"}, StartFailure(permanent, out), UNCHANGED tree
    PROVE  SupInv' /\ OwnerMove
  BY DegradeMoves, AgainMoves DEF StartFailure

\* finish_spawn_attempt.
LEMMA SpawnErrorMoves ==
    ASSUME SupInv, NEW permanent \in BOOLEAN, NEW out \in {"ok", "failed"},
           out = "ok" => ~ Standing, sv.pc \notin {"running", "done"},
           SpawnError(permanent, out), UNCHANGED tree
    PROVE  SupInv' /\ OwnerMove
  BY StopMoves, StartFailureMoves DEF SpawnError

\* owned_command(..).spawn().
LEMMA SpawnedMoves ==
    ASSUME SupInv, NEW pc \in {"probe", "handshake", "owned"}, sv.pc \in {"spawn", "launch"},
           Spawned(pc)
    PROVE  SupInv' /\ OwnerMove
  <1>1. ~ Standing
    BY DEF SupInv, Quiet
  <1>2. CASE tree' = tree /\ \E cause \in SpawnCauses : SpawnError(PermanentSpawn(cause), "ok")
    BY <1>1, <1>2, SpawnErrorMoves DEF PermanentSpawn
  <1>3. CASE /\ tree' = Append(tree, NewTree)
             /\ \/ Step(pc)
                \/ sv' = [sv EXCEPT !.pc = "kill", !.next = "permanent"]
             /\ UNCHANGED <<slot, verdict>>
    <2>1. TreeShape' /\ Earlier' /\ Standing' /\ Cur' > 0
      BY <1>1, <1>3, TreeGrows DEF SupInv
    <2>2. SvShape'
      BY <1>3 DEF SupInv, SvShape, Step
    <2>3. /\ sv'.pc \in {"probe", "handshake", "owned", "kill"}
          /\ sv'.pc = "kill" => sv'.next = "permanent"
      BY <1>3 DEF SupInv, SvShape, Step
    <2>4. (Quiet /\ Begun /\ WhyKill /\ Reaped)'
      BY <2>1, <2>3 DEF Quiet, Begun, WhyKill, Causes, Reaped
    <2>5. slot = 0 /\ verdict = "none"
      BY DEF SupInv, GivenOut, Told
    <2>6. (Told /\ GivenOut)' /\ OwnerMove
      BY <1>1, <1>3, <2>1, <2>3, <2>5 DEF Told, GivenOut, OwnerMove
    <2> QED
      BY <2>1, <2>2, <2>4, <2>6 DEF SupInv
  <1> QED
    BY <1>2, <1>3 DEF Spawned

\* The probe.
LEMMA ProbeMoves ==
    ASSUME SupInv, Probe
    PROVE  SupInv' /\ OwnerMove
  <1>1. (TreeShape /\ Earlier)' /\ (Standing' => Standing) /\ Cur' = Cur
    <2>1. CASE UNCHANGED tree
      BY <2>1, TreeStays DEF SupInv
    <2>2. CASE tree' = [tree EXCEPT ![Cur].leader = "zombie"]
      <3>1. Cur > 0 /\ TreeShape /\ Earlier
        BY DEF SupInv, Probe, SvAt, Begun
      <3> DEFINE e == [tree[Cur] EXCEPT !.leader = "zombie"]
      <3>2. e \in TreeSet /\ e.leader = "zombie" /\ e.rest = Rest
        BY <3>1, TreeFields DEF TreeSet, Leaders, Rest
      <3>3. tree' = [tree EXCEPT ![Cur] = e]
        BY <2>2
      <3> HIDE DEF e
      <3> QED
        BY <3>1, <3>2, <3>3, TreeFields, TreeTurns
    <2> QED
      BY <2>1, <2>2 DEF Probe
  <1> QED
    BY <1>1 DEF Probe, SvAt, BootFails, SupInv, SvShape, OwnerMove, Quiet, Begun, WhyKill,
           Reaped, Causes, Told, GivenOut

\* The handshake.
LEMMA HandshakeMoves ==
    ASSUME SupInv, Handshake
    PROVE  SupInv' /\ OwnerMove
  <1>1. (TreeShape /\ Earlier)' /\ (Standing' <=> Standing) /\ Cur' = Cur /\ Leader' = Leader
    BY TreeStays DEF SupInv, Handshake, SvAt, BootFails, Step
  <1> QED
    BY <1>1 DEF Handshake, SvAt, BootFails, Step, SupInv, SvShape, OwnerMove, Quiet, Begun,
           WhyKill, Reaped, Causes, Told, GivenOut

\* A process arrives.
LEMMA OwnProcessMoves ==
    ASSUME SupInv, OwnProcess
    PROVE  SupInv' /\ OwnerMove
  <1>1. (TreeShape /\ Earlier)' /\ (Standing' <=> Standing) /\ Cur' = Cur /\ Leader' = Leader
    BY TreeStays DEF SupInv, OwnProcess, SvAt
  <1> QED
    BY <1>1 DEF OwnProcess, SvAt, SupInv, SvShape, OwnerMove, Quiet, Begun, WhyKill, Reaped,
           Causes, Told, GivenOut

\* connect_epoch.
LEMMA ConnectMoves ==
    ASSUME SupInv, Connect
    PROVE  SupInv' /\ OwnerMove
  <1>1. (TreeShape /\ Earlier)' /\ (Standing' <=> Standing) /\ Cur' = Cur /\ Leader' = Leader
    BY TreeStays DEF SupInv, Connect, SvAt
  <1> QED
    BY <1>1 DEF Connect, SvAt, SupInv, SvShape, OwnerMove, Quiet, Begun, WhyKill, Reaped,
           Causes, Told, GivenOut

\* finish_running_epoch.
LEMMA RunMoves ==
    ASSUME SupInv, Run
    PROVE  SupInv' /\ OwnerMove
  <1>1. (TreeShape /\ Earlier)' /\ (Standing' <=> Standing) /\ Cur' = Cur /\ Leader' = Leader
    BY TreeStays DEF SupInv, Run, SvAt
  <1> QED
    BY <1>1 DEF Run, SvAt, SupInv, SvShape, OwnerMove, Quiet, Begun, WhyKill, Reaped,
           Causes, Told, GivenOut

\* terminate.
LEMMA ObserveMoves ==
    ASSUME SupInv, Observe
    PROVE  SupInv' /\ OwnerMove
  <1>1. (TreeShape /\ Earlier)' /\ (Standing' <=> Standing) /\ Cur' = Cur /\ Leader' = Leader
    BY TreeStays DEF SupInv, Observe, SvAt, Step
  <1> QED
    BY <1>1 DEF Observe, SvAt, Step, SupInv, SvShape, OwnerMove, Quiet, Begun, WhyKill,
           Reaped, Causes, Told, GivenOut

\* What follows a cleanup.
LEMMA CleanedMoves ==
    ASSUME SupInv, NEW ok \in BOOLEAN, sv.pc \in {"kill", "wait", "group"}, ok => ~ Standing,
           Cleaned(ok), UNCHANGED tree
    PROVE  SupInv' /\ OwnerMove
  <1>1. sv.next \in Causes
    BY DEF SupInv, WhyKill
  <1>2. CASE sv.next = "probed"
    <2>1. ProbeCleaned(ok)
      BY <1>2 DEF Cleaned
    <2> QED
      BY <2>1, LaunchMoves, SpawnErrorMoves DEF ProbeCleaned
  <1>3. CASE sv.next \in {"retry", "permanent"}
    <2>1. SpawnCleaned(ok)
      BY <1>3 DEF Cleaned
    <2> QED
      BY <2>1, SpawnErrorMoves DEF SpawnCleaned
  <1>4. CASE sv.next \in {"retry_start", "permanent_start"}
    <2>1. StartCleaned(ok)
      BY <1>4 DEF Cleaned
    <2> QED
      BY <2>1, StartFailureMoves, DegradeMoves DEF StartCleaned
  <1>5. StopCleaned(ok) => SupInv' /\ OwnerMove
    BY StopMoves, DegradeMoves DEF StopCleaned
  <1>6. CASE sv.next \in {"stop", "graceful"}
    BY <1>5, <1>6 DEF Cleaned
  <1>7. CASE sv.next = "exited"
    <2>1. ExitCleaned(ok)
      BY <1>7 DEF Cleaned
    <2> QED
      BY <1>5, <2>1, AgainMoves DEF ExitCleaned
  <1> QED
    BY <1>1, <1>2, <1>3, <1>4, <1>6, <1>7 DEF Causes

\* The signal to the group.
LEMMA SignalMoves ==
    ASSUME SupInv, SvAt("kill"), ~ lost, Signal
    PROVE  SupInv' /\ OwnerMove
  <1>1. (TreeShape /\ Earlier)' /\ (Standing' => Standing) /\ Cur' = Cur
    <2>1. Cur > 0 /\ TreeShape /\ Earlier
      BY DEF SupInv, SvAt, Begun
    <2>2. CASE UNCHANGED tree
      BY <2>1, <2>2, TreeStays
    <2>3. CASE tree' # tree
      <3>1. tree' = [tree EXCEPT ![Cur].rest = FALSE,
                                 ![Cur].leader = IF @ = "running" THEN "zombie" ELSE @]
        BY <2>3 DEF Signal
      <3> DEFINE e == [tree[Cur] EXCEPT !.rest = FALSE,
                                        !.leader = IF @ = "running" THEN "zombie" ELSE @]
      <3>2. e \in TreeSet /\ e.leader # "running" /\ e.rest = FALSE
        BY <2>1, TreeFields DEF TreeSet, Leaders
      <3>3. tree' = [tree EXCEPT ![Cur] = e]
        BY <2>1, <3>1, TreeFields DEF TreeSet
      <3> HIDE DEF e
      <3> QED
        BY <2>1, <3>2, <3>3, TreeTurns
    <2> QED
      BY <2>2, <2>3
  <1> QED
    BY <1>1 DEF Signal, SvAt, Step, SupInv, SvShape, OwnerMove, Quiet, Begun, WhyKill,
           Reaped, Causes, Told, GivenOut

\* The wait for the leader.
LEMMA ReapMoves ==
    ASSUME SupInv, SvAt("wait"), Leader = "zombie", WaitLeader
    PROVE  SupInv' /\ OwnerMove
  <1>1. (TreeShape /\ Earlier)' /\ (Standing' => Standing) /\ Cur' = Cur /\ Leader' = "reaped"
    <2>1. Cur > 0 /\ TreeShape /\ Earlier
      BY DEF SupInv, SvAt, Begun
    <2>2. tree' = [tree EXCEPT ![Cur].leader = "reaped"]
      BY DEF WaitLeader
    <2> DEFINE e == [tree[Cur] EXCEPT !.leader = "reaped"]
    <2>3. e \in TreeSet /\ e.leader = "reaped" /\ e.rest = Rest
      BY <2>1, TreeFields DEF TreeSet, Leaders, Rest
    <2>4. tree' = [tree EXCEPT ![Cur] = e]
      BY <2>2
    <2> HIDE DEF e
    <2>5. /\ TreeShape' /\ Earlier' /\ Cur' = Cur /\ Leader' = e.leader
          /\ Standing' <=> (e.leader = "running" \/ e.rest)
      BY <2>1, <2>3, <2>4, TreeTurns
    <2>6. Standing <=> (Leader = "running" \/ Rest)
      BY <2>1, TreeFields
    <2> QED
      BY <2>3, <2>5, <2>6
  <1> QED
    BY <1>1 DEF WaitLeader, SvAt, Step, SupInv, SvShape, OwnerMove, Quiet, Begun, WhyKill,
           Reaped, Causes, Told, GivenOut

\* Told to stop.
LEMMA DegradedMoves ==
    ASSUME SupInv, Degraded
    PROVE  SupInv' /\ OwnerMove
  <1>1. (TreeShape /\ Earlier)' /\ (Standing' <=> Standing) /\ Cur' = Cur /\ Leader' = Leader
    BY TreeStays DEF SupInv, Degraded, SvAt, Stop
  <1> QED
    BY <1>1 DEF Degraded, SvAt, Stop, SupInv, SvShape, OwnerMove, Quiet, Begun, WhyKill,
           Reaped, Causes, Told, GivenOut

\* Processes end.
LEMMA ExitsMoves ==
    ASSUME SupInv, Exits
    PROVE  SupInv' /\ OwnerMove
  <1>1. /\ (TreeShape /\ Earlier)' /\ (Standing' => Standing) /\ Cur' = Cur
        /\ Leader = "reaped" => Leader' = "reaped"
    <2>1. Cur > 0 /\ TreeShape /\ Earlier
      BY DEF SupInv, Exits
    <2>2. CASE Leader = "running" /\ tree' = [tree EXCEPT ![Cur].leader = "zombie"]
      <3> DEFINE e == [tree[Cur] EXCEPT !.leader = "zombie"]
      <3>1. e \in TreeSet /\ e.leader = "zombie" /\ e.rest = Rest
        BY <2>1, TreeFields DEF TreeSet, Leaders, Rest, Leader
      <3>2. tree' = [tree EXCEPT ![Cur] = e]
        BY <2>2
      <3> HIDE DEF e
      <3> QED
        BY <2>1, <2>2, <3>1, <3>2, TreeFields, TreeTurns
    <2>3. CASE Leader = "zombie" /\ tree' = [tree EXCEPT ![Cur].leader = "foreign"]
      <3> DEFINE e == [tree[Cur] EXCEPT !.leader = "foreign"]
      <3>1. e \in TreeSet /\ e.leader = "foreign" /\ e.rest = Rest
        BY <2>1, TreeFields DEF TreeSet, Leaders, Rest, Leader
      <3>2. tree' = [tree EXCEPT ![Cur] = e]
        BY <2>3
      <3> HIDE DEF e
      <3> QED
        BY <2>1, <2>3, <3>1, <3>2, TreeFields, TreeTurns
    <2>4. CASE Leader # "running" /\ tree' = [tree EXCEPT ![Cur].rest = FALSE]
      <3> DEFINE e == [tree[Cur] EXCEPT !.rest = FALSE]
      <3>1. e \in TreeSet /\ e.leader = Leader /\ e.rest = FALSE
        BY <2>1, TreeFields DEF TreeSet, Leaders, Rest, Leader
      <3>2. tree' = [tree EXCEPT ![Cur] = e]
        BY <2>4
      <3> HIDE DEF e
      <3> QED
        BY <2>1, <2>4, <3>1, <3>2, TreeFields, TreeTurns
    <2> QED
      BY <2>2, <2>3, <2>4 DEF Exits
  <1> QED
    BY <1>1 DEF Exits, SupInv, SvShape, OwnerMove, Quiet, Begun, WhyKill, Reaped, Causes,
           Told, GivenOut

\* shutdown.
LEMMA CancelMoves ==
    ASSUME SupInv, Cancel
    PROVE  SupInv' /\ OwnerMove
  <1>1. (TreeShape /\ Earlier)' /\ (Standing' <=> Standing) /\ Cur' = Cur /\ Leader' = Leader
    BY TreeStays DEF SupInv, Cancel
  <1> QED
    BY <1>1 DEF Cancel, SupInv, SvShape, OwnerMove, Quiet, Begun, WhyKill, Reaped, Causes,
           Told, GivenOut

\* A new process.
LEMMA RestartMoves ==
    ASSUME SupInv, SupRestart
    PROVE  SupInv' /\ OwnerMove
  <1>1. TreeShape' /\ Earlier' /\ ~ Standing'
    BY NoTrees DEF SupRestart, TreeShape, Earlier, Standing, Cur
  <1> QED
    BY <1>1 DEF SupRestart, SupFresh, SupInv, SvShape, OwnerMove, Quiet, Begun, WhyKill,
           Reaped, Causes, Told, GivenOut

\* Nothing.
LEMMA IdleMoves ==
    ASSUME SupInv, UNCHANGED supVars
    PROVE  SupInv' /\ OwnerMove
  <1>1. (TreeShape /\ Earlier)' /\ (Standing' <=> Standing) /\ Cur' = Cur /\ Leader' = Leader
    BY TreeStays DEF SupInv, supVars
  <1> QED
    BY <1>1 DEF supVars, SupInv, SvShape, OwnerMove, Quiet, Begun, WhyKill, Reaped, Causes,
           Told, GivenOut

\* Every step of the supervisor's task.
LEMMA SupStepMoves ==
    ASSUME SupInv, SupStep
    PROVE  SupInv' /\ OwnerMove
  <1>1. CASE SpawnProbe \/ SpawnSidecar \/ LaunchServer
    BY <1>1, SpawnedMoves DEF SpawnProbe, SpawnSidecar, LaunchServer, SvAt
  <1>2. CASE Signal
    <2>1. CASE lost
      <3>1. sv.pc = "kill" /\ Cleaned(FALSE) /\ UNCHANGED tree
        BY <1>2, <2>1 DEF Signal, SvAt
      <3> QED
        BY <3>1, CleanedMoves
    <2>2. CASE ~ lost
      BY <1>2, <2>2, SignalMoves DEF Signal
    <2> QED
      BY <2>1, <2>2
  <1>3. CASE WaitLeader
    <2>1. CASE Leader = "zombie"
      BY <1>3, <2>1, ReapMoves DEF WaitLeader
    <2>2. CASE Leader # "zombie"
      <3>1. sv.pc = "wait" /\ Cleaned(FALSE) /\ UNCHANGED tree
        BY <1>3, <2>2 DEF WaitLeader, SvAt
      <3> QED
        BY <3>1, CleanedMoves
    <2> QED
      BY <2>1, <2>2
  <1>4. CASE ProbeGroup
    <2>1. sv.pc = "group" /\ Cleaned(~ Rest) /\ UNCHANGED tree
      BY <1>4 DEF ProbeGroup, SvAt
    <2>2. Rest \in BOOLEAN /\ (Standing <=> Rest)
      BY <2>1, TreeFields DEF SupInv, Begun, Reaped
    <2> QED
      BY <2>1, <2>2, CleanedMoves
  <1> QED
    BY <1>1, <1>2, <1>3, <1>4, LoopMoves, DelayMoves, StartEpochMoves, ProbeMoves, HandshakeMoves,
       OwnProcessMoves, ConnectMoves, RunMoves, ObserveMoves, DegradedMoves
       DEF SupStep, CleanupProbe, CleanupBootstrap, ReapTree

\* Every step of the composition: those of the coordinator leave the supervisor alone.
LEMMA OwnNextMoves ==
    ASSUME SupInv, [OwnNext]_ownVars
    PROVE  SupInv' /\ OwnerMove
  <1>1. UNCHANGED supVars \/ SupStep \/ Exits \/ Cancel \/ SupRestart
    BY DEF OwnNext, ownVars, Start, Shut, Crash, Restart
  <1> QED
    BY <1>1, IdleMoves, SupStepMoves, ExitsMoves, CancelMoves, RestartMoves

\* A move is a step of module Owner, or none.
LEMMA OwnerMoveMaps ==
    ASSUME SupInv, SupInv', OwnerMove
    PROVE  [Promise!OwnerNext]_(Promise!ownerVars)
  <1>1. Counted
    BY AliveCount
  <1>2. Counted'
    BY AliveCount, PTL
  <1> QED
    BY <1>1, <1>2
       DEF Counted, OwnerMove, Promise!OwnerNext, Promise!ownerVars, Promise!Spawn, Promise!Die,
           Promise!Serve, Promise!Withdraw, Promise!Return, Promise!NewLife

\* The composition implements module Owner: whatever the interleaving of spawns, exits, kills,
\* recycled process ids, shutdowns and restarts, run_supervisor (codex/supervisor.rs) never runs
\* two trees, never serves from one while another may live, and says "ok" only when none is left.
THEOREM OwnerRefined == OwnSpec => KeepsPromise
  <1>1. OwnInit => SupInv /\ Promise!OwnerInit
    <2> SUFFICES ASSUME OwnInit PROVE SupInv /\ Promise!OwnerInit
      OBVIOUS
    <2>1. SupInv
      BY SupInitInv
    <2>2. PICK p, k : SupInit(p, k)
      BY DEF OwnInit
    <2>3. Cardinality(AliveTrees) = 0
      BY <2>1, <2>2, NoTrees, AliveCount DEF Counted, SupInit
    <2> QED
      BY <2>1, <2>2, <2>3 DEF SupInit, Promise!OwnerInit
  <1>2. SupInv /\ [OwnNext]_ownVars => SupInv' /\ [Promise!OwnerNext]_(Promise!ownerVars)
    BY OwnNextMoves, OwnerMoveMaps
  <1> QED
    BY <1>1, <1>2, PTL DEF OwnSpec, KeepsPromise, Promise!OwnerSpec
=============================================================================
