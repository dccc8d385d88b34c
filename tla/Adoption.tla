------------------------------ MODULE Adoption ------------------------------
(***************************************************************************)
(* The coordinator of thread adoption (runtime/adoption_coordinator.rs): a *)
(* scope takes over a persisted Codex thread with an app-server process of *)
(* its own, routes turns to it, and gives it back; a drain watches each    *)
(* process, a monitor reaps the ones that are lost, and everything durable *)
(* is fenced on shutdown and on startup.                                   *)
(***************************************************************************)
EXTENDS AdoptionStore, Sequences

CONSTANTS MaxDomains   \* max_domains

ASSUME AdoptionAssumption == MaxDomains \in Nat \ {0}

VARIABLES life,    \* CoordinatorState.lifecycle, and the process around it
          op,      \* CoordinatorState.operations and where each of them is
          dom,     \* CoordinatorState.domains
          own,     \* the dedicated owner of each scope with its drain
          procs,   \* the app-server processes launched
          proof,   \* candidates each scope was last shown
          route,   \* what the scope actor does with an adopted thread
          asked    \* commands each scope has still to give

coordVars == <<life, op, dom, own, procs, proof, route, asked>>
adoptVars == <<storeVars, coordVars>>

NoOp == [stage |-> "none", pc |-> "none", gen |-> 0, target |-> None, again |-> FALSE]
NoDom == [state |-> "none", monitor |-> FALSE]
NoOwner == [p |-> 0, gen |-> 0, target |-> None, healthy |-> TRUE, intent |-> FALSE,
            drain |-> "off", signal |-> FALSE]
Proc(s, g, t) == [alive |-> TRUE, writer |-> FALSE, scope |-> s, gen |-> g, target |-> t]

Operations == {"acquiring", "committing", "releasing", "recovery", "reap"}
Busy(s) == op[s].stage # "none"
At(s, pc) == op[s].pc = pc
Goto(s, pc) == op' = [op EXCEPT ![s].pc = pc]
EndOp(s) == op' = [op EXCEPT ![s] = NoOp]

Gen(s) == op[s].gen
Target(s) == op[s].target
Count(stages) == Cardinality({s \in Scopes : op[s].stage \in stages})
Domains == {s \in Scopes : dom[s].state # "none"}

\* The scope actor runs one command or turn at a time.
Idle(s) == life = "ready" /\ route[s] = "no" /\ ~ Busy(s)
Ask(s) == asked[s] > 0 /\ asked' = [asked EXCEPT ![s] = @ - 1]
Spend == faults > 0 /\ faults' = faults - 1 /\ UNCHANGED <<saga, map, past, open>>

\* project_candidate_page: of the threads Codex lists, the ones nobody in the
\* bridge has a claim on.
Candidates == {t \in Threads : TargetAvailable(t)}

\* discover.
Discover(s) ==
  /\ Idle(s)
  /\ proof' = [proof EXCEPT ![s] = Candidates]
  /\ proof' # proof
  /\ UNCHANGED <<storeVars, life, op, dom, own, procs, route, asked>>

\* begin_acquisition.
MayAcquire(s) ==
  /\ dom[s].state = "none"
  /\ Cardinality(Domains) + Count({"acquiring", "committing"}) < MaxDomains

\* adopt: the proof is used up whether or not the refreshed page still shows
\* the thread.
Adopt(s, t) ==
  /\ Idle(s) /\ Ask(s)
  /\ t \in proof[s]
  /\ proof' = [proof EXCEPT ![s] = {}]
  /\ op' = IF t \in Candidates /\ MayAcquire(s)
             THEN [op EXCEPT ![s] = [NoOp EXCEPT !.stage = "acquiring", !.pc = "reserve",
                                                 !.target = t]]
             ELSE op
  /\ UNCHANGED <<storeVars, life, dom, own, procs, route>>

Reserve(s) ==
  /\ At(s, "reserve")
  /\ \E a \in Answers(s, CanReserve(s, Target(s)), Reserved(s, Target(s))) :
       /\ Transact(s, CanReserve(s, Target(s)), Reserved(s, Target(s)), a)
       /\ op' = IF a.ok THEN [op EXCEPT ![s].pc = "launch", ![s].gen = a.row.saga.gen]
                        ELSE [op EXCEPT ![s] = NoOp]
  /\ UNCHANGED <<life, dom, own, procs, proof, route, asked>>

\* A recovery launches, checks, reads and resumes as an acquisition does; what
\* differs is where each of these steps goes when it fails.
OnFailure(s) == IF op[s].stage = "recovery" THEN "probe" ELSE "fail"

\* launch: a one-shot supervisor, ready or not.
Launch(s) ==
  /\ At(s, "launch")
  /\ procs' = Append(procs, Proc(s, Gen(s), Target(s)))
  /\ own' = [own EXCEPT ![s] = [NoOwner EXCEPT !.p = Len(procs) + 1, !.gen = Gen(s),
                                               !.target = Target(s)]]
  /\ Goto(s, "check")
  /\ UNCHANGED <<storeVars, life, dom, proof, route, asked>>

LaunchFails(s) ==
  /\ At(s, "launch") /\ Spend
  /\ IF op[s].stage = "recovery" THEN EndOp(s) ELSE Goto(s, "finish")
  /\ UNCHANGED <<life, dom, own, procs, proof, route, asked>>

\* The contract, the profile, the client and its control stream.
Check(s) ==
  /\ At(s, "check")
  /\ \/ /\ own' = [own EXCEPT ![s].drain = "on"]
        /\ Goto(s, "read")
        /\ UNCHANGED storeVars
     \/ Spend /\ Goto(s, OnFailure(s)) /\ UNCHANGED own
  /\ UNCHANGED <<life, dom, procs, proof, route, asked>>

Alive(s) == own[s].p # 0 /\ procs[own[s].p].alive
Usable(s) == Alive(s) /\ own[s].healthy

\* read_thread, validate_candidate_for_resume, the health of the domain.
Read(s) ==
  /\ At(s, "read")
  /\ \/ Usable(s) /\ Goto(s, "resume") /\ UNCHANGED storeVars
     \/ ~ Usable(s) /\ Goto(s, OnFailure(s)) /\ UNCHANGED storeVars
     \/ Spend /\ Goto(s, OnFailure(s))
  /\ UNCHANGED <<life, dom, own, procs, proof, route, asked>>

\* Codex lets one process write a thread.
Written(t) == \E i \in DOMAIN procs : procs[i].alive /\ procs[i].writer /\ procs[i].target = t
Resumes(s) == procs' = [procs EXCEPT ![own[s].p].writer = TRUE]

\* After resume_thread: the answer is compared, the domain is still healthy, and
\* an acquisition must still be allowed to commit (mark_committing).
AfterResume(s) ==
  IF op[s].stage = "recovery"
    THEN IF own[s].healthy
           THEN /\ Goto(s, IF OwnedMapping(s, Gen(s), Target(s)) THEN "rbegin" ELSE "rclean")
                /\ own' = [own EXCEPT ![s].intent = TRUE]
           ELSE Goto(s, "probe") /\ UNCHANGED own
    ELSE /\ op' = IF own[s].healthy /\ life = "ready"
                    THEN [op EXCEPT ![s].stage = "committing", ![s].pc = "commit"]
                    ELSE [op EXCEPT ![s].pc = "fail"]
         /\ UNCHANGED own

\* resume_thread: an answer that is lost says nothing of what was done.
Resume(s) ==
  /\ At(s, "resume")
  /\ \/ /\ Alive(s) /\ ~ Written(Target(s))
        /\ Resumes(s)
        /\ AfterResume(s)
        /\ UNCHANGED storeVars
     \/ /\ ~ Alive(s) \/ Written(Target(s))
        /\ Goto(s, OnFailure(s))
        /\ UNCHANGED <<storeVars, own, procs>>
     \/ /\ Alive(s) /\ ~ Written(Target(s))
        /\ Spend
        /\ Resumes(s)
        /\ Goto(s, OnFailure(s))
        /\ UNCHANGED own
  /\ UNCHANGED <<life, dom, proof, route, asked>>

Commit(s) ==
  /\ At(s, "commit")
  /\ LET can == CanCommit(s, Gen(s), Target(s)) IN
     \E a \in Answers(s, can, Committed(s)) :
       /\ Transact(s, can, Committed(s), a)
       /\ Goto(s, IF a.ok THEN "install" ELSE "fail")
  /\ UNCHANGED <<life, dom, own, procs, proof, route, asked>>

\* install_domain and start_reap_monitor, unless the drain was faster.
Install(s) ==
  /\ At(s, "install")
  /\ IF own[s].healthy
       THEN /\ dom' = [dom EXCEPT ![s] = [state |-> "owned", monitor |-> TRUE]]
            /\ EndOp(s)
       ELSE Goto(s, "abort") /\ UNCHANGED dom
  /\ UNCHANGED <<storeVars, life, own, procs, proof, route, asked>>

\* drain.stop and owner.shutdown: a drain that has begun to fence finishes, and
\* only a confirmed shutdown means that the process tree is gone.
Shutdown(s, ok) ==
  /\ own[s].drain # "fencing"
  /\ own' = [own EXCEPT ![s] = NoOwner]
  /\ \/ ok /\ procs' = [procs EXCEPT ![own[s].p].alive = FALSE] /\ UNCHANGED storeVars
     \/ ~ ok /\ Spend /\ UNCHANGED procs
  /\ UNCHANGED <<life, dom, proof, route, asked>>

FinishesAnyway(s, ok) ==
  IF op[s].pc \in {"fail", "rclean"} THEN Goto(s, "finish")
  ELSE IF op[s].pc = "shut" THEN Goto(s, IF ok THEN "released" ELSE "failed")
  ELSE IF op[s].again THEN Goto(s, "fence") ELSE EndOp(s)

\* What follows a shutdown, by what it was for.
AfterShutdown(s, ok) ==
  CASE op[s].pc = "fail"   -> Goto(s, IF ok THEN "finish" ELSE "fence")
    [] op[s].pc = "abort"  -> Goto(s, "fence")
    [] op[s].pc = "probe"  -> EndOp(s)
    [] op[s].pc = "rclean" -> IF ok THEN Goto(s, "finish") ELSE EndOp(s)
    [] op[s].pc = "shut"   -> Goto(s, IF ok THEN "released" ELSE "failed")
    [] op[s].pc = "stop"   -> IF op[s].again THEN Goto(s, "fence") ELSE EndOp(s)

ShutOwner(s) ==
  /\ op[s].pc \in {"fail", "abort", "probe", "rclean", "shut", "stop"}
  /\ \E ok \in BOOLEAN : Shutdown(s, ok) /\ AfterShutdown(s, ok)

\* finish_acquisition_failure, and the end of a recovery without a mapping.
Finish(s) ==
  /\ At(s, "finish")
  /\ LET can == CanFinishAcquisition(s, Gen(s), Target(s)) IN
     \E a \in Answers(s, can, AcquisitionFailed(s)) :
       /\ Transact(s, can, AcquisitionFailed(s), a)
       /\ IF a.ok THEN EndOp(s) ELSE Goto(s, "fence")
  /\ UNCHANGED <<life, dom, own, procs, proof, route, asked>>

\* The fence that ends an operation, durable or not.
LastFence(s) ==
  /\ At(s, "fence")
  /\ LET can == CanFence(s, Gen(s), Target(s)) IN
     \E a \in Answers(s, can, Fenced(s)) : Transact(s, can, Fenced(s), a)
  /\ EndOp(s)
  /\ UNCHANGED <<life, dom, own, procs, proof, route, asked>>

\* begin_domain_stop.
StopDomain(s, stage, pc, again) ==
  /\ dom[s].state = "owned"
  /\ dom' = [dom EXCEPT ![s].state = "releasing"]
  /\ own' = [own EXCEPT ![s].intent = TRUE]
  /\ op' = [op EXCEPT ![s] = [stage |-> stage, pc |-> pc, gen |-> own[s].gen,
                              target |-> own[s].target, again |-> again]]

\* Mutant of Release: it does not wait for the scope's turn.
ReleaseBeside(s) ==
  /\ life = "ready" /\ ~ Busy(s) /\ Ask(s)
  /\ StopDomain(s, "releasing", "begin", FALSE)
  /\ UNCHANGED <<storeVars, life, procs, proof, route>>

\* release.
Release(s) ==
  /\ Idle(s) /\ Ask(s)
  /\ StopDomain(s, "releasing", "begin", FALSE)
  /\ UNCHANGED <<storeVars, life, procs, proof, route>>

\* A release that cannot even begin gives the domain back (restore_owned).
Begin(s) ==
  /\ At(s, "begin")
  /\ LET can == CanBeginRelease(s, Gen(s), Target(s)) IN
     \E a \in Answers(s, can, Releasing(s)) :
       /\ Transact(s, can, Releasing(s), a)
       /\ IF a.ok
            THEN dom' = [dom EXCEPT ![s] = NoDom] /\ Goto(s, "shut") /\ UNCHANGED own
            ELSE /\ dom' = [dom EXCEPT ![s].state = "owned"]
                 /\ own' = [own EXCEPT ![s].intent = FALSE]
                 /\ EndOp(s)
  /\ UNCHANGED <<life, procs, proof, route, asked>>

\* finish_release_or_fence.
FinishRelease(s) ==
  /\ op[s].pc \in {"released", "failed"}
  /\ LET can == CanFinishRelease(s, Gen(s), Target(s))
         row == Finished(s, At(s, "released"))
     IN \E a \in Answers(s, can, row) :
          /\ Transact(s, can, row, a)
          /\ IF a.ok THEN EndOp(s) ELSE Goto(s, "fence")
  /\ UNCHANGED <<life, dom, own, procs, proof, route, asked>>

\* begin_recovery_release.
MayRecover(s) ==
  /\ dom[s].state = "none"
  /\ Cardinality(Domains) + Count({"acquiring", "committing", "recovery"}) < MaxDomains

\* recover_release: for a saga whose domain is gone.
Recover(s) ==
  /\ Idle(s) /\ Ask(s)
  /\ Live(s) /\ MayRecover(s)
  /\ op' = [op EXCEPT ![s] = [NoOp EXCEPT !.stage = "recovery", !.pc = "refence",
                                          !.gen = saga[s].gen, !.target = saga[s].target]]
  /\ UNCHANGED <<storeVars, life, dom, own, procs, proof, route>>

\* The fence is made again before the rows are believed.
Refence(s) ==
  /\ At(s, "refence")
  /\ LET can == CanFence(s, Gen(s), Target(s)) IN
     \E a \in Answers(s, can, Fenced(s)) :
       /\ Transact(s, can, Fenced(s), a)
       /\ IF a.ok THEN Goto(s, "launch") ELSE EndOp(s)
  /\ UNCHANGED <<life, dom, own, procs, proof, route, asked>>

RecoverBegin(s) ==
  /\ At(s, "rbegin")
  /\ LET can == CanBeginRelease(s, Gen(s), Target(s)) IN
     \E a \in Answers(s, can, Releasing(s)) :
       /\ Transact(s, can, Releasing(s), a)
       /\ Goto(s, IF a.ok THEN "shut" ELSE "probe")
  /\ UNCHANGED <<life, dom, own, procs, proof, route, asked>>

\* ControlDrain: the connection ended or drifted.  What the domain is used for
\* stops before anything is written, and on purpose nothing more is done.
DrainTrips(s) ==
  /\ own[s].drain = "on"
  /\ \/ ~ Alive(s) /\ UNCHANGED storeVars
     \/ Alive(s) /\ Spend
  /\ own' = [own EXCEPT ![s].healthy = FALSE,
                        ![s].signal = ~ own[s].intent,
                        ![s].drain = IF own[s].intent THEN "off" ELSE "fencing"]
  /\ UNCHANGED <<life, op, dom, procs, proof, route, asked>>

FencesWhenIdle(s) ==
  /\ own[s].drain = "fencing" /\ ~ Busy(s)
  /\ own' = [own EXCEPT ![s].drain = "off"]
  /\ UNCHANGED <<storeVars, life, op, dom, procs, proof, route, asked>>

DrainFences(s) ==
  /\ own[s].drain = "fencing"
  /\ LET can == CanFence(s, own[s].gen, own[s].target) IN
     \E a \in Answers(s, can, Fenced(s)) : Transact(s, can, Fenced(s), a)
  /\ own' = [own EXCEPT ![s].drain = "off"]
  /\ UNCHANGED <<life, op, dom, procs, proof, route, asked>>

\* reap_signaled_domain: the monitor gives way to any operation in progress.
Monitor(s) ==
  /\ dom[s].monitor /\ own[s].signal
  /\ IF life = "ready" /\ ~ Busy(s) /\ dom[s].state = "owned"
       THEN /\ dom' = [dom EXCEPT ![s] = [state |-> "releasing", monitor |-> FALSE]]
            /\ own' = [own EXCEPT ![s].intent = TRUE]
            /\ op' = [op EXCEPT ![s] = [stage |-> "reap", pc |-> "reap", gen |-> own[s].gen,
                                        target |-> own[s].target, again |-> TRUE]]
       ELSE dom' = [dom EXCEPT ![s].monitor = FALSE] /\ UNCHANGED <<op, own>>
  /\ UNCHANGED <<storeVars, life, procs, proof, route, asked>>

\* fence_and_reap, reap_signaled_domain and shutdown_fence_and_reap: fence, take
\* the domain, end its process; the monitor fences again if it has to.
Reap(s) ==
  /\ At(s, "reap")
  /\ LET can == CanFence(s, Gen(s), Target(s)) IN
     \E a \in Answers(s, can, Fenced(s)) :
       /\ Transact(s, can, Fenced(s), a)
       /\ op' = [op EXCEPT ![s].pc = "stop", ![s].again = op[s].again /\ ~ a.ok]
  /\ dom' = [dom EXCEPT ![s] = NoDom]
  /\ UNCHANGED <<life, own, procs, proof, route, asked>>

\* route, first half: what the store says.
RouteReads(s) ==
  /\ Idle(s) /\ Ask(s)
  /\ map[s].origin = "adopted"
  /\ Exact(s, map[s].gen, map[s].thread, {"owned"})
  /\ route' = [route EXCEPT ![s] = "read"]
  /\ UNCHANGED <<storeVars, life, op, dom, own, procs, proof>>

Routable(s) ==
  /\ dom[s].state = "owned" /\ own[s].healthy
  /\ own[s].gen = map[s].gen /\ own[s].target = map[s].thread

\* route, second half: the domain, under the lock; its client is handed out.
RouteLocks(s) ==
  /\ route[s] = "read" /\ Routable(s)
  /\ route' = [route EXCEPT ![s] = "routed"]
  /\ UNCHANGED <<storeVars, life, op, dom, own, procs, proof, asked>>

\* process_batch with that client: subscribe, then claim the batch for a turn.  What
\* the domain and the saga are by now is not looked at again.
ClaimTurn(s) ==
  /\ route[s] = "routed"
  /\ route' = [route EXCEPT ![s] = "claimed"]
  /\ open' = open \cup {s}
  /\ UNCHANGED <<saga, map, past, faults, life, op, dom, own, procs, proof, asked>>

\* turn/start, after the inputs are assembled: it arrives as long as the process
\* lives and its owner has not been shut down.
StartTurn(s) ==
  /\ route[s] = "claimed" /\ Alive(s)
  /\ route' = [route EXCEPT ![s] = "turn"]
  /\ UNCHANGED <<storeVars, life, op, dom, own, procs, proof, asked>>

\* No route, no subscription, a revoked workspace, an unknown answer to turn/start or
\* a turn that failed on its way: fence_and_reap.  A turn whose outcome is not known
\* stays open.
RouteFails(s) ==
  /\ \/ route[s] = "read" /\ ~ Routable(s) /\ UNCHANGED open
     \/ route[s] = "routed" /\ ~ Alive(s) /\ UNCHANGED open
     \/ route[s] = "claimed" /\ open' \in {open, open \ {s}}
     \/ route[s] = "turn" /\ ~ Usable(s) /\ UNCHANGED open
  /\ route' = [route EXCEPT ![s] = "no"]
  /\ IF life = "ready" /\ ~ Busy(s) /\ dom[s].state = "owned"
       THEN StopDomain(s, "reap", "reap", FALSE)
       ELSE UNCHANGED <<op, dom, own>>
  /\ UNCHANGED <<saga, map, past, faults, life, procs, proof, asked>>

\* The turn is resolved, also when its inputs could not be assembled or turn/start
\* was certainly not applied; or the claim failed and there is none.
TurnEnds(s) ==
  /\ \/ route[s] = "routed" /\ UNCHANGED open
     \/ route[s] \in {"claimed", "turn"} /\ open' = open \ {s}
  /\ route' = [route EXCEPT ![s] = "no"]
  /\ UNCHANGED <<saga, map, past, faults, life, op, dom, own, procs, proof, asked>>

\* The scope's own threads: /new archives the active one, /resume takes one back, and
\* the next batch of a scope without a saga starts another.
OwnThread(s) ==
  /\ Idle(s) /\ Ask(s)
  /\ \/ ArchiveActiveThread(s)
     \/ \E t \in Threads : ReactivateArchivedThread(s, t)
     \/ ~ Live(s) /\ \E t \in Threads : RecordActiveThread(s, t)
  /\ UNCHANGED <<life, op, dom, own, procs, proof, route>>

\* The end of a turn a crash left open.
Resolved(s) ==
  /\ Idle(s)
  /\ ResolveTurn(s)
  /\ UNCHANGED coordVars

\* shutdown_fence_and_reap: no new operations, the running ones end, then the
\* domains.  The router joins its actors before; nothing here relies on that.
Close ==
  /\ life = "ready"
  /\ Spend
  /\ life' = "closing"
  /\ UNCHANGED <<op, dom, own, procs, proof, route, asked>>

CloseDomains ==
  /\ life = "closing" /\ \A s \in Scopes : ~ Busy(s)
  /\ life' = "stopping"
  /\ op' = [s \in Scopes |->
              IF s \in Domains
                THEN [stage |-> "close", pc |-> "reap", gen |-> own[s].gen,
                      target |-> own[s].target, again |-> FALSE]
                ELSE NoOp]
  /\ own' = [s \in Scopes |-> IF s \in Domains THEN [own[s] EXCEPT !.intent = TRUE] ELSE own[s]]
  /\ dom' = [s \in Scopes |-> NoDom]
  /\ UNCHANGED <<storeVars, procs, proof, route, asked>>

Closed ==
  /\ life = "stopping" /\ \A s \in Scopes : ~ Busy(s)
  /\ life' = "stopped"
  /\ UNCHANGED <<storeVars, op, dom, own, procs, proof, route, asked>>

Forget ==
  /\ op' = [s \in Scopes |-> NoOp]
  /\ dom' = [s \in Scopes |-> NoDom]
  /\ own' = [s \in Scopes |-> NoOwner]
  /\ proof' = [s \in Scopes |-> {}]
  /\ route' = [s \in Scopes |-> "no"]

\* The bridge dies; its app-servers may live on for a while.
AdoptCrash ==
  /\ life \in {"ready", "closing", "stopping"}
  /\ Spend
  /\ life' = "down"
  /\ Forget
  /\ UNCHANGED <<procs, asked>>

\* A new process: nothing is routed before startup_fence is through.
AdoptRestart ==
  /\ life \in {"stopped", "down"}
  /\ life' = "new"
  /\ Forget
  /\ UNCHANGED <<storeVars, procs, asked>>

\* With a supervisor that has given up, the router does not start.
AdoptStart(usable) ==
  /\ life = "new"
  /\ StartupFence
  /\ life' = IF usable THEN "ready" ELSE "stopped"
  /\ UNCHANGED <<op, dom, own, procs, proof, route, asked>>

\* An app-server exits; one whose bridge is gone sees its input end.
ProcExits(i) ==
  /\ procs[i].alive
  /\ IF \E s \in Scopes : own[s].p = i THEN Spend ELSE UNCHANGED storeVars
  /\ procs' = [procs EXCEPT ![i].alive = FALSE]
  /\ UNCHANGED <<life, op, dom, own, proof, route, asked>>

OpStep(s) ==
  \/ Reserve(s) \/ Launch(s) \/ LaunchFails(s) \/ Check(s) \/ Read(s) \/ Resume(s)
  \/ Commit(s) \/ Install(s) \/ ShutOwner(s) \/ Finish(s) \/ LastFence(s)
  \/ Begin(s) \/ FinishRelease(s) \/ Refence(s) \/ RecoverBegin(s) \/ Reap(s)

Tasks(s) == OpStep(s) \/ DrainTrips(s) \/ DrainFences(s) \/ Monitor(s)

\* Commands that need the client of the shared app-server.
WithClient(s) == Discover(s) \/ Recover(s) \/ \E t \in Threads : Adopt(s, t)

AdoptStep ==
  \/ \E s \in Scopes :
       \/ Release(s) \/ OwnThread(s) \/ Resolved(s)
       \/ RouteReads(s) \/ RouteLocks(s) \/ ClaimTurn(s) \/ StartTurn(s)
       \/ RouteFails(s) \/ TurnEnds(s)
       \/ Tasks(s)
  \/ Close \/ CloseDomains \/ Closed
  \/ \E i \in DOMAIN procs : ProcExits(i)

AdoptInit ==
  /\ saga = [s \in Scopes |-> NoSaga]
  /\ life = "new"
  /\ op = [s \in Scopes |-> NoOp]
  /\ dom = [s \in Scopes |-> NoDom]
  /\ own = [s \in Scopes |-> NoOwner]
  /\ procs = <<>>
  /\ proof = [s \in Scopes |-> {}]
  /\ route = [s \in Scopes |-> "no"]

(***************************************************************************)
(* Properties.                                                             *)
(***************************************************************************)

\* A generation is declared over, and its thread free for others, only when no
\* process the bridge launched can still write the thread: after lost answers,
\* unconfirmed shutdowns, crashes and recoveries (docs/thread-adoption.md: "only
\* after confirmed reap").
ReleasedIsGone ==
  \A i \in DOMAIN procs :
    procs[i].alive /\ procs[i].writer =>
      LET s == procs[i].scope
      IN Live(s) /\ saga[s].gen = procs[i].gen /\ saga[s].target = procs[i].target

\* Whenever the bridge may stop, the table is one startup_fence accepts; no two live
\* sagas name the same thread, and no two scopes have it as their active mapping.  A
\* reservation does not keep another scope's mapping away (ReactivateArchivedThread
\* and RecordActiveThread look at no saga), but only a thread that nobody has mapped
\* is ever committed, and while it is adopted nobody else maps it.
TableSound ==
  /\ \A s \in Scopes : ~ Orphaned(s) /\ ~ Missing(s)
  /\ \A r, s \in Scopes :
       r # s => /\ Live(r) /\ Live(s) => saga[r].target # saga[s].target
                /\ map[r].thread # None => map[r].thread # map[s].thread

\* A turn reaches only the process that resumed the thread for the generation the
\* scope's saga and mapping name, although route looks at the store and the domain
\* one after the other and nothing is looked at again between it and turn/start.
\* Meanwhile the drain, the monitor or a shutdown may have fenced the saga: such a turn
\* goes to a thread that is fenced, never to one that is being released, is released
\* or belongs to another generation.
TurnIsOwned ==
  [][\A s \in Scopes :
       route[s] # "turn" /\ route'[s] = "turn" =>
         /\ saga[s].state \in {"owned", "recovery_required"}
         /\ OwnedMapping(s, saga[s].gen, saga[s].target)
         /\ procs[own[s].p].writer
         /\ procs[own[s].p].gen = saga[s].gen
         /\ procs[own[s].p].target = saga[s].target]_adoptVars

=============================================================================
