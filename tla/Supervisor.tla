----------------------------- MODULE Supervisor -----------------------------
(***************************************************************************)
(* The supervisor of an app-server (codex/supervisor.rs) and the process   *)
(* trees it owns (codex/process.rs, codex/sidecar.rs): probe or bootstrap, *)
(* connect, run, clean up, back off and start again - or, for a one-shot   *)
(* owner, never again.  A tree is a leader and the rest of its group; the  *)
(* leader is waited for without being reaped until its group was signalled.*)
(***************************************************************************)
EXTENDS Naturals, Sequences

VARIABLES sv,       \* run_supervisor: where it is, and what it is configured to do
          pub,      \* the published SupervisorState
          slot,     \* ready_slot: the epoch whose client is given out, or 0
          cancel,   \* the shutdown token
          verdict,  \* what the task returned
          tree,     \* the process trees started
          lost,     \* identity_lost: the last one may no longer be signalled
          mishaps   \* faults of processes that may still happen

supVars == <<sv, pub, slot, cancel, verdict, tree, lost, mishaps>>

NewTree == [leader |-> "running", rest |-> TRUE]

Cur == Len(tree)
Leader == tree[Cur].leader
Rest == tree[Cur].rest
Stuck(i) == tree[i].leader = "running" \/ tree[i].rest
Mishap == mishaps > 0 /\ mishaps' = mishaps - 1
Calm == UNCHANGED mishaps
SvAt(pc) == sv.pc = pc
Step(pc) == sv' = [sv EXCEPT !.pc = pc]

\* The end of run_supervisor.
Stop(out) ==
  /\ sv' = [sv EXCEPT !.pc = "done"]
  /\ slot' = 0
  /\ pub' = "stopped"
  /\ verdict' = out

\* Degraded until it is told to stop.
Degrade(out) ==
  /\ sv' = [sv EXCEPT !.pc = "degraded", !.out = out]
  /\ pub' = "degraded"
  /\ UNCHANGED <<slot, verdict>>

Again ==
  /\ sv' = [sv EXCEPT !.pc = "loop", !.attempt = TRUE]
  /\ UNCHANGED <<pub, slot, verdict>>

\* stop_after_start_failure.
StartFailure(permanent, out) ==
  IF permanent \/ sv.policy = "never" THEN Degrade(out) ELSE Again

\* The head of the loop: back off after a failure, unless cancelled.
Loop ==
  /\ SvAt("loop")
  /\ IF sv.attempt
       THEN /\ pub' = "backoff"
            /\ Step("delay")
            /\ UNCHANGED <<slot, verdict>>
       ELSE Step("start") /\ UNCHANGED <<pub, slot, verdict>>
  /\ UNCHANGED <<cancel, tree, lost, mishaps>>

Delay == SvAt("delay") /\ Step("start") /\ UNCHANGED <<pub, slot, cancel, verdict, tree, lost, mishaps>>

StartEpoch ==
  /\ SvAt("start")
  /\ IF cancel
       THEN Stop("ok")
       ELSE /\ sv' = [sv EXCEPT !.pc = "spawn", !.epoch = sv.epoch + 1]
            /\ pub' = "starting"
            /\ UNCHANGED <<slot, verdict>>
  /\ UNCHANGED <<cancel, tree, lost, mishaps>>

RetriesUnclean(permanent, out) == IF cancel THEN Stop(out) ELSE StartFailure(FALSE, out)

\* finish_spawn_attempt on an error of the factory; one that leaves the cleanup
\* unconfirmed is permanent, and remembered (permanent_process_reason,
\* start_failure_outcome).
SpawnError(permanent, out) ==
  IF cancel THEN Stop(out) ELSE StartFailure(permanent \/ out = "failed", out)

\* Why a spawn, a bootstrap and an initialize fail, and which of it a retry can
\* help (spawn_failure_is_retryable, permanent_process_reason,
\* permanent_sidecar_bootstrap_reason, permanent_rpc_reason).
SpawnCauses == {"missing", "exhausted"}
PermanentSpawn(cause) == cause = "missing"
BootCauses == {"timeout", "io", "exit_code", "output", "version"}
PermanentProcess(cause) == cause \notin {"timeout", "io"}
SidecarCauses == {"timeout", "io", "spawn_unavailable", "rejected", "protocol"}
PermanentBootstrap(cause) == cause \notin {"timeout", "io", "spawn_unavailable"}
RpcCauses == {"lost", "timeout", "contract"}
PermanentRpc(cause) == cause = "contract"

\* owned_command(..).spawn(): a leader in a group of its own, or nothing, or a
\* child that has no pid and so can never be confirmed gone.
Spawned(pc) ==
  /\ \/ /\ tree' = Append(tree, NewTree)
        /\ lost' = FALSE
        /\ Step(pc)
        /\ Calm /\ UNCHANGED <<pub, slot, verdict>>
     \/ /\ \E cause \in SpawnCauses : SpawnError(PermanentSpawn(cause), "ok")
        /\ Mishap /\ UNCHANGED <<tree, lost>>
     \/ /\ tree' = Append(tree, NewTree)
        /\ lost' = TRUE
        /\ sv' = [sv EXCEPT !.pc = "kill", !.next = "permanent"]
        /\ Mishap /\ UNCHANGED <<pub, slot, verdict>>
  /\ UNCHANGED cancel

\* probe_version, spawn_codex_sidecar and, after the probe, spawn_app_server.
SpawnProbe == SvAt("spawn") /\ sv.kind = "native" /\ Spawned("probe")
SpawnSidecar == SvAt("spawn") /\ sv.kind = "sidecar" /\ Spawned("handshake")
LaunchServer == SvAt("launch") /\ Spawned("owned")

BootFails(permanent) ==
  sv' = [sv EXCEPT !.pc = "kill", !.next = IF permanent THEN "permanent" ELSE "retry"]

\* collect_version_probe: output and exit within the bound, or not; whatever it
\* is, the tree of the probe is cleaned up before anything else is started.
Probe ==
  /\ SvAt("probe")
  /\ \/ /\ Leader # "foreign"
        /\ tree' = [tree EXCEPT ![Cur].leader = "zombie"]
        /\ sv' = [sv EXCEPT !.pc = "kill", !.next = "probed"]
        /\ Calm /\ UNCHANGED lost
     \/ /\ \E cause \in BootCauses : BootFails(PermanentProcess(cause))
        /\ Mishap /\ UNCHANGED <<tree, lost>>
     \/ /\ Leader = "foreign"
        /\ lost' = TRUE
        /\ BootFails(FALSE)
        /\ Calm /\ UNCHANGED tree
  /\ UNCHANGED <<pub, slot, cancel, verdict>>

\* hello, configure and the answer to it; a sidecar that is not configured in
\* time is ended.
Handshake ==
  /\ SvAt("handshake")
  /\ \/ Leader = "running" /\ Step("owned") /\ Calm
     \/ /\ \E cause \in SidecarCauses : BootFails(PermanentBootstrap(cause))
        /\ Mishap
     \/ Leader # "running" /\ BootFails(FALSE) /\ Calm
  /\ UNCHANGED <<pub, slot, cancel, verdict, tree, lost>>

\* A process that arrives after the cancellation is terminated at once.
OwnProcess ==
  /\ SvAt("owned")
  /\ sv' = IF cancel THEN [sv EXCEPT !.pc = "observe", !.next = "stop"]
                     ELSE [sv EXCEPT !.pc = "connect"]
  /\ UNCHANGED <<pub, slot, cancel, verdict, tree, lost, mishaps>>

\* connect_epoch: adapter, stdio, transport, initialize.
Connect ==
  /\ SvAt("connect")
  /\ \/ /\ Leader = "running" /\ ~ cancel
        /\ sv' = [sv EXCEPT !.pc = "running", !.attempt = FALSE]
        /\ slot' = sv.epoch
        /\ pub' = "ready"
        /\ Calm
     \/ /\ Leader # "running" \/ cancel
        /\ sv' = [sv EXCEPT !.pc = "observe", !.next = "retry_start"]
        /\ Calm /\ UNCHANGED <<pub, slot>>
     \/ /\ \E cause \in RpcCauses :
             sv' = [sv EXCEPT !.pc = "observe",
                              !.next = IF PermanentRpc(cause) THEN "permanent_start"
                                                              ELSE "retry_start"]
        /\ Mishap /\ UNCHANGED <<pub, slot>>
  /\ UNCHANGED <<cancel, verdict, tree, lost>>

\* finish_running_epoch: the cancellation first, else the exit of the leader; the
\* client is withdrawn before anything else is done.
Run ==
  /\ SvAt("running")
  /\ cancel \/ Leader # "running"
  /\ slot' = 0
  /\ sv' = [sv EXCEPT !.pc = "observe", !.next = IF cancel THEN "graceful" ELSE "exited"]
  /\ UNCHANGED <<pub, cancel, verdict, tree, lost, mishaps>>

\* terminate: wait for the leader without reaping it, for as long as the grace.
\* ECHILD means that the identity is lost.
Observe ==
  /\ SvAt("observe")
  /\ IF Leader = "foreign"
       THEN lost' = TRUE
       ELSE UNCHANGED lost
  /\ Step("kill")
  /\ UNCHANGED <<pub, slot, cancel, verdict, tree, mishaps>>

\* What follows a cleanup, by what it was for: a probe, a failed spawn, a process
\* that could not be connected, one that is stopped, one that exited.
ProbeCleaned(ok) ==
  IF ok THEN Step("launch") /\ UNCHANGED <<pub, slot, verdict>> ELSE SpawnError(TRUE, "failed")
SpawnCleaned(ok) == SpawnError(sv.next = "permanent" \/ ~ ok, IF ok THEN "ok" ELSE "failed")
StartCleaned(ok) ==
  IF ok THEN StartFailure(sv.next = "permanent_start", "ok") ELSE Degrade("failed")
StopCleaned(ok) == IF ok THEN Stop("ok") ELSE Degrade("failed")
ExitCleaned(ok) ==
  IF ok /\ sv.policy # "never" THEN Again ELSE StopCleaned(ok)

Cleaned(ok) ==
  CASE sv.next = "probed" -> ProbeCleaned(ok)
    [] sv.next \in {"retry", "permanent"} -> SpawnCleaned(ok)
    [] sv.next \in {"retry_start", "permanent_start"} -> StartCleaned(ok)
    [] sv.next \in {"stop", "graceful"} -> StopCleaned(ok)
    [] sv.next = "exited" -> ExitCleaned(ok)

\* The one signal to the group, if it is still ours to send, and then the wait.
Signal ==
  /\ SvAt("kill")
  /\ IF lost
       THEN Cleaned(FALSE) /\ UNCHANGED <<tree, mishaps>>
       ELSE /\ Step("wait")
            /\ \/ /\ tree' = [tree EXCEPT ![Cur].rest = FALSE,
                                   ![Cur].leader = IF @ = "running" THEN "zombie" ELSE @]
                  /\ Calm
               \/ Mishap /\ UNCHANGED tree
            /\ UNCHANGED <<pub, slot, verdict>>
  /\ UNCHANGED <<cancel, lost>>

\* cleanup_probe_process, cleanup_bootstrap_process, reap_owned_process_tree.
Booting == sv.next \in {"probed", "retry", "permanent"}
CleanupProbe == Booting /\ sv.kind = "native" /\ Signal
CleanupBootstrap == Booting /\ sv.kind = "sidecar" /\ Signal
ReapTree == ~ Booting /\ Signal

\* The exact leader is waited for and reaped, or the deadline passes.
WaitLeader ==
  /\ SvAt("wait")
  /\ CASE Leader = "zombie" ->
            /\ tree' = [tree EXCEPT ![Cur].leader = "reaped"]
            /\ Step("group") /\ UNCHANGED <<pub, slot, verdict, lost>>
       [] Leader = "foreign" ->
            /\ lost' = TRUE
            /\ Cleaned(FALSE) /\ UNCHANGED tree
       [] OTHER -> Cleaned(FALSE) /\ UNCHANGED <<tree, lost>>
  /\ UNCHANGED <<cancel, mishaps>>

\* wait_for_owned_process_group_empty: only ESRCH counts.
ProbeGroup == SvAt("group") /\ Cleaned(~ Rest) /\ UNCHANGED <<cancel, tree, lost, mishaps>>

Degraded ==
  /\ SvAt("degraded") /\ cancel
  /\ Stop(sv.out)
  /\ UNCHANGED <<cancel, tree, lost, mishaps>>

SupStep ==
  \/ Loop \/ Delay \/ StartEpoch \/ SpawnProbe \/ SpawnSidecar \/ Probe \/ Handshake \/ LaunchServer
  \/ OwnProcess \/ Connect \/ Run \/ Observe \/ CleanupProbe \/ CleanupBootstrap \/ ReapTree
  \/ WaitLeader \/ ProbeGroup \/ Degraded

\* Processes end, leaders before or after the rest of their group; something
\* else may consume the status of a leader.
Exits ==
  /\ Cur > 0
  /\ \/ Leader = "running" /\ Mishap /\ tree' = [tree EXCEPT ![Cur].leader = "zombie"]
     \/ Leader = "zombie" /\ Mishap /\ tree' = [tree EXCEPT ![Cur].leader = "foreign"]
     \/ Leader # "running" /\ Rest /\ Calm /\ tree' = [tree EXCEPT ![Cur].rest = FALSE]
  /\ UNCHANGED <<sv, pub, slot, cancel, verdict, lost>>

\* SupervisorHandle::shutdown, or the drop of the handle or of the start.
Cancel ==
  /\ ~ cancel
  /\ cancel' = TRUE
  /\ UNCHANGED <<sv, pub, slot, verdict, tree, lost, mishaps>>

SupFresh(policy, kind) ==
  [pc |-> "loop", attempt |-> FALSE, epoch |-> 0, next |-> "none", out |-> "none",
   policy |-> policy, kind |-> kind]

SupInit(policy, kind) ==
  /\ sv = SupFresh(policy, kind)
  /\ pub = "starting" /\ slot = 0 /\ cancel = FALSE /\ verdict = "none"
  /\ tree = <<>> /\ lost = FALSE

\* A new process of the bridge starts a new supervisor.
SupRestart ==
  /\ sv' = SupFresh(sv.policy, sv.kind)
  /\ pub' = "starting" /\ slot' = 0 /\ cancel' = FALSE /\ verdict' = "none"
  /\ tree' = <<>> /\ lost' = FALSE
  /\ Calm

AliveTrees == {i \in DOMAIN tree : Stuck(i)}
=============================================================================
