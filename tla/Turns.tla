-------------------------------- MODULE Turns --------------------------------
(***************************************************************************)
(* How a stored event becomes a Codex turn: intake (src/lark/bridge.rs,    *)
(* src/runtime/intake.rs), the router (src/runtime/router.rs), one actor   *)
(* per scope (src/runtime/scope.rs) and the Codex app-server as they see   *)
(* it.  The ledger outlives a crash, everything else is lost.              *)
(*                                                                         *)
(* An actor is split at every await after which the process can die, the   *)
(* actor can be cancelled, or another task can change what it read.        *)
(***************************************************************************)
EXTENDS Ledger, FiniteSetsExt

CONSTANTS
    KindOf,           \* KindOf[e]: what kind of event e is
    MayRefuse,        \* events the access policy or their age may refuse
    QueueCap,         \* LARK_INBOUND_EVENT_CAPACITY
    RetryCap,         \* ROUTER_RETRY_CAPACITY
    MailboxCap,       \* SCOPE_MAILBOX_CAPACITY
    BatchMax,         \* TURN_BATCH_MAX_MESSAGES
    MaxActors,        \* max_scope_actors
    MaxActive,        \* active_turn_permits
    MaxDeliveries,    \* bound: deliveries of one event by Lark
    MayHappen,        \* kinds of fault a run admits
    MaxFaults,        \* bound: faults in one behaviour
    Outcomes,         \* statuses turn/completed may carry
    Quiet             \* turns that Codex completes without any visible output

\* "alone" is audio, or a text that does not fit the byte budget of a batch.
\* "ignored" is media in a group or topic, "media" the same in a private chat.
\* "new" is a command that archives the active thread (/new, /cd), "resume" one that
\* names a thread to go on with, and "stop" one that changes nothing durable (/stop,
\* /status, /info, /help).
Kinds == {"text", "alone", "media", "ignored", "new", "resume", "stop"}
Commands == {"new", "resume", "stop"}

\* What may go wrong: a refused store job, a failing reply projection, a lost
\* app-server process and the supervisor giving up on it, a thread/resume the
\* server does not know, a refused RPC, one that times out, a lagging event
\* subscription, failing attachments or a revoked workspace, a crash, a stop.
FaultKinds == {"store", "sink", "codex", "giveup", "thread", "refused", "timeout",
               "lag", "assembly", "workspace", "crash", "stop"}

ASSUME TurnsAssumption ==
    /\ KindOf \in [Event -> Kinds]
    /\ MayRefuse \subseteq Event
    /\ {QueueCap, RetryCap, MailboxCap, BatchMax, MaxActors, MaxActive,
        MaxDeliveries, MaxFaults} \subseteq Nat
    /\ MaxReceived <= QueueCap
    /\ MayHappen \subseteq FaultKinds
    /\ Outcomes \subseteq Resolutions
    /\ Quiet \subseteq TurnId
    /\ None \notin Event /\ None \notin Scope

VARIABLES
    proc,        \* the bridge process: "up", "stopping" or "down"
    queue,       \* events between the receipt boundary and the router
    retries,     \* the router's retry queue
    eviction,    \* the actor the router is shutting down, and for which event
    actor,       \* actor[s]: the actor of scope s
    codex,       \* what the supervisor publishes: epoch, client, terminal
    exec,        \* turns the current app-server process is executing
    submitted,   \* history: turn/start requests with e that Codex may have seen
    final,       \* turns whose final reply is durable in the outbox
    delivered,   \* deliveries of e so far
    faults       \* environment faults left (bound)

memory == <<queue, retries, eviction, actor>>
outside == <<codex, exec, submitted, delivered>>
vars == <<inbound, turns, thread, made, seen, proc, queue, retries, eviction, actor,
          codex, exec, submitted, final, delivered, faults>>

ActorSteps == {"idle", "got", "control", "answer", "media", "debounce", "permit", "refuse",
               "client", "resume", "abandon", "fresh", "subscribe", "claim",
               "assemble", "sent", "mark", "run", "final", "resolve", "settle", "lost"}

\* shown is ScopeState as the router reads it: Idle, Failed or anything else.
NoActor == [live |-> FALSE, cancel |-> FALSE, box |-> <<>>, pc |-> "idle",
            shown |-> "idle", item |-> None, batch |-> <<>>, later |-> None,
            refuse |-> <<>>, why |-> None, turn |-> NoTurn, epoch |-> 0,
            event |-> None, res |-> None, wait |-> FALSE]
NewActor == [NoActor EXCEPT !.live = TRUE]

Actor == [live: BOOLEAN, cancel: BOOLEAN, box: Seq(Event), pc: ActorSteps,
          shown: {"idle", "failed", "busy"}, item: Event \cup {None}, batch: Seq(Event),
          later: Event \cup {None}, refuse: Seq(Event), why: Refusals \cup {None},
          turn: TurnId \cup {NoTurn}, epoch: Nat, event: Resolutions \cup {None},
          res: Resolutions \cup {None}, wait: BOOLEAN]

NoEviction == [victim |-> None, event |-> None]

Residents == {s \in Scope : actor[s].live}
At(steps) == {s \in Residents : actor[s].pc \in steps}
Holders == At(ActorSteps \ {"idle", "got", "control", "answer", "media", "debounce", "permit"})
Elems(q) == {q[i] : i \in 1..Len(q)}

\* Events some task of this process still has in its hands.
InActor(a) ==
    (Elems(a.box) \cup Elems(a.batch) \cup Elems(a.refuse) \cup {a.item, a.later}) \ {None}
InMemory ==
    Elems(queue) \cup Elems(retries) \cup {eviction.event}
        \cup UNION {InActor(actor[s]) : s \in Scope}

Fault(kind) == kind \in MayHappen /\ faults > 0 /\ faults' = faults - 1

\* One store job: it commits A when its transaction allows it; else the caller
\* sees an error, also when the queue is full or SQLite fails.
StoreJob(allowed, A, ok) ==
    \/ ok /\ allowed /\ A /\ UNCHANGED faults
    \/ ~ok /\ ~allowed /\ UNCHANGED <<ledger, faults>>
    \/ ~ok /\ allowed /\ Fault("store") /\ UNCHANGED ledger

Init ==
    /\ LedgerInit
    /\ proc = "up"
    /\ queue = <<>> /\ retries = <<>>
    /\ eviction = NoEviction
    /\ actor = [s \in Scope |-> NoActor]
    /\ codex = [epoch |-> 1, client |-> FALSE, terminal |-> FALSE]
    /\ exec = {}
    /\ submitted = [e \in Event |-> 0]
    /\ final = {}
    /\ delivered = [e \in Event |-> 0]
    /\ faults = MaxFaults

-----------------------------------------------------------------------------
(* Intake.                                                                 *)

Enqueued(e) == IF Len(queue) < QueueCap THEN Append(queue, e) ELSE queue

\* Lark delivers e, for the first time or again.  A full channel leaves the row
\* registered and the delivery unacknowledged.
Deliver(e, ok) ==
    /\ proc = "up" /\ delivered[e] < MaxDeliveries
    /\ delivered' = [delivered EXCEPT ![e] = @ + 1]
    /\ \/ /\ Canonical(e) = {}
          /\ StoreJob(HasRoom, RegisterInbound(e), ok)
          /\ queue' = IF ok THEN Enqueued(e) ELSE queue
       \/ /\ ok /\ \E c \in Canonical(e) :
                queue' = IF inbound[c].state = "received" THEN Enqueued(c) ELSE queue
          /\ UNCHANGED <<ledger, faults>>
    /\ UNCHANGED <<proc, retries, eviction, actor, codex, exec, submitted, final>>

\* The transport gives up on its handler after the row is committed and before the
\* event is queued; the receipt is a failure and Lark delivers e again.
DeliverCut(e) ==
    /\ proc = "up" /\ delivered[e] < MaxDeliveries
    /\ delivered' = [delivered EXCEPT ![e] = @ + 1]
    /\ Canonical(e) = {} /\ HasRoom /\ Fault("timeout")
    /\ RegisterInbound(e)
    /\ UNCHANGED <<proc, memory, codex, exec, submitted, final>>

-----------------------------------------------------------------------------
(* The router.                                                             *)

Source(src) == IF src = "queue" THEN queue ELSE retries
Routable(src, e) ==
    /\ proc = "up" /\ eviction = NoEviction
    /\ Source(src) # <<>> /\ e = Head(Source(src))

AllCancelled == [s \in Scope |-> [actor[s] EXCEPT !.cancel = actor[s].live]]

\* The item leaves its queue; a retryable failure puts it at the end of the retry
\* queue, and when that is full a routed event is a fatal error for the process.
Popped(src, e, ok) ==
    LET left == IF src = "retry" THEN Tail(retries) ELSE retries
        fatal == ~ok /\ src = "queue" /\ Len(left) >= RetryCap
    IN  /\ retries' = IF fatal THEN <<>> ELSE IF ok THEN left ELSE Append(left, e)
        /\ queue' = IF fatal THEN <<>> ELSE IF src = "queue" THEN Tail(queue) ELSE queue
        /\ proc' = IF fatal THEN "stopping" ELSE "up"
        /\ actor' = IF fatal THEN AllCancelled ELSE actor

RouterRejects(src, e, why, ok) ==
    /\ StoreJob(RejectAllowed(e, why), RejectReceived(e, why), ok)
    /\ Popped(src, e, ok)
    /\ UNCHANGED <<eviction, outside, final>>

\* Group media never reaches an actor.
RouteIgnored(src, e, ok) ==
    /\ Routable(src, e) /\ KindOf[e] = "ignored"
    /\ StoreJob(CompleteAllowed(e), CompleteReceived(e, None), ok)
    /\ Popped(src, e, ok)
    /\ UNCHANGED <<eviction, outside, final>>

RouteRefused(src, e, ok) ==
    /\ Routable(src, e) /\ KindOf[e] # "ignored" /\ e \in MayRefuse
    /\ RouterRejects(src, e, "policy", ok)

NoCodex(e) == KindOf[e] \notin Commands /\ codex.terminal

RouteNoCodex(src, e, ok) ==
    /\ Routable(src, e) /\ KindOf[e] # "ignored" /\ NoCodex(e)
    /\ RouterRejects(src, e, "internal", ok)

\* is_idle_and_empty.
IdleAndEmpty(s) == actor[s].shown = "idle" /\ actor[s].box = <<>>

NeedsSlot(e) == ScopeOf[e] \notin Residents /\ Cardinality(Residents) >= MaxActors

RouteOverloaded(src, e, ok) ==
    /\ Routable(src, e) /\ KindOf[e] # "ignored" /\ ~NoCodex(e)
    /\ \/ NeedsSlot(e) /\ \A s \in Residents : ~IdleAndEmpty(s)
       \/ ScopeOf[e] \in Residents /\ Len(actor[ScopeOf[e]].box) >= MailboxCap
    /\ RouterRejects(src, e, "overloaded", ok)

\* The router cancels an idle actor and waits for it to end.
RouteEvicts(src, e, s) ==
    /\ Routable(src, e) /\ KindOf[e] # "ignored" /\ ~NoCodex(e)
    /\ NeedsSlot(e) /\ s \in Residents /\ IdleAndEmpty(s)
    /\ eviction' = [victim |-> s, event |-> e]
    /\ queue' = IF src = "queue" THEN Tail(queue) ELSE queue
    /\ retries' = IF src = "retry" THEN Tail(retries) ELSE retries
    /\ actor' = [actor EXCEPT ![s].cancel = TRUE]
    /\ UNCHANGED <<ledger, proc, outside, final, faults>>

Mailed(s, e) ==
    actor' = [actor EXCEPT ![s] = IF actor[s].live THEN [actor[s] EXCEPT !.box = Append(@, e)]
                                  ELSE [NewActor EXCEPT !.box = <<e>>]]

EvictionDone ==
    /\ eviction # NoEviction /\ ~actor[eviction.victim].live
    /\ Mailed(ScopeOf[eviction.event], eviction.event)
    /\ eviction' = NoEviction
    /\ UNCHANGED <<ledger, proc, queue, retries, outside, final, faults>>

RouteToActor(src, e) ==
    LET s == ScopeOf[e]
    IN  /\ Routable(src, e) /\ KindOf[e] # "ignored" /\ ~NoCodex(e) /\ ~NeedsSlot(e)
        /\ s \in Residents => Len(actor[s].box) < MailboxCap
        /\ Mailed(s, e)
        /\ queue' = IF src = "queue" THEN Tail(queue) ELSE queue
        /\ retries' = IF src = "retry" THEN Tail(retries) ELSE retries
        /\ UNCHANGED <<ledger, proc, eviction, outside, final, faults>>

Router ==
    \/ \E src \in {"queue", "retry"}, e \in Event, ok \in BOOLEAN :
          \/ RouteIgnored(src, e, ok)
          \/ RouteRefused(src, e, ok)
          \/ RouteNoCodex(src, e, ok)
          \/ RouteOverloaded(src, e, ok)
    \/ \E src \in {"queue", "retry"}, e \in Event :
          \/ RouteToActor(src, e)
          \/ \E s \in Scope : RouteEvicts(src, e, s)
    \/ EvictionDone

-----------------------------------------------------------------------------
(* The scope actor.                                                        *)

Becomes(s, a) == actor' = [actor EXCEPT ![s] = a]
Rest == <<proc, queue, retries, eviction, outside, final>>

\* The end of process_batch: a cancelled actor leaves its loop, the others show how
\* it went and take the next item.
Finished(a, ok) ==
    IF a.cancel THEN NoActor
    ELSE [NewActor EXCEPT !.box = a.box, !.later = a.later,
                          !.shown = IF ok THEN "idle" ELSE "failed"]

\* receiver.recv(), or the item deferred by the previous batch.
NextStep(e) == CASE KindOf[e] = "media" -> "media"
                 [] KindOf[e] \in Commands -> "control"
                 [] OTHER -> "got"

\* Mutant of Receive: the mailbox goes before the deferred item.
ReceiveMailFirst(s) ==
    LET a == actor[s]
    IN  /\ s \in At({"idle"})
        /\ \/ /\ a.later # None /\ a.box = <<>>
              /\ Becomes(s, [a EXCEPT !.later = None, !.item = a.later,
                                      !.pc = NextStep(a.later)])
           \/ /\ ~a.cancel /\ a.box # <<>>
              /\ Becomes(s, [a EXCEPT !.box = Tail(@), !.item = Head(a.box),
                                      !.pc = NextStep(Head(a.box))])
        /\ UNCHANGED <<ledger, Rest, faults>>

Receive(s) ==
    LET a == actor[s]
    IN  /\ s \in At({"idle"})
        /\ \/ /\ a.later # None
              /\ Becomes(s, [a EXCEPT !.later = None, !.item = a.later,
                                      !.pc = NextStep(a.later)])
           \/ /\ a.later = None /\ ~a.cancel /\ a.box # <<>>
              /\ Becomes(s, [a EXCEPT !.box = Tail(@), !.item = Head(a.box),
                                      !.pc = NextStep(Head(a.box))])
        /\ UNCHANGED <<ledger, Rest, faults>>

\* prepare_inbound of private media: settled without a turn, then staged.  It runs
\* with an empty batch (first item) or inside the debounce window; a failure of
\* the first item is shown, one inside the window ends the window.
PrepareMedia(s, ok) ==
    LET a == actor[s]
        refused == a.item \in MayRefuse
        next(good) ==
            [a EXCEPT !.item = None,
                      !.pc = IF a.batch = <<>> THEN "idle"
                             ELSE IF good THEN "debounce" ELSE "permit",
                      !.shown = IF a.batch = <<>> /\ ~good THEN "failed" ELSE @]
    IN  /\ s \in At({"media"})
        /\ \/ /\ refused
              /\ StoreJob(RejectAllowed(a.item, "policy"), RejectReceived(a.item, "policy"), ok)
           \/ StoreJob(CompleteAllowed(a.item), CompleteReceived(a.item, None), ok)
        /\ Becomes(s, next(ok))
        /\ UNCHANGED Rest

\* process_control leaves the loop's variables alone but for what is shown.
AfterControl(a, ok) ==
    [NewActor EXCEPT !.cancel = a.cancel, !.box = a.box,
                     !.shown = IF ok THEN "idle" ELSE "failed"]

\* process_control refuses the command by its age or the access policy.
RefuseControl(s, ok) ==
    LET a == actor[s]
    IN  /\ s \in At({"control"}) /\ a.item \in MayRefuse
        /\ StoreJob(RejectAllowed(a.item, "policy"), RejectReceived(a.item, "policy"), ok)
        /\ Becomes(s, AfterControl(a, ok))
        /\ UNCHANGED Rest

\* execute_new_control and execute_cd_control; execute_resume_control, with a selector
\* that may name a thread of this scope, of another one, or none at all.
NewControl(s) == ArchiveActiveThread(s)
ResumeControl(s) == \E i \in 0..Len(made) : ReactivateArchivedThread(s, i)

\* execute_control: a failure of the store is at most told to the sender.
ControlEffect(s, e) ==
    \/ KindOf[e] = "new" /\ NewControl(s)
    \/ KindOf[e] = "resume" /\ ResumeControl(s)
    \/ KindOf[e] = "stop" /\ UNCHANGED ledger
ExecuteControl(s, ok) ==
    LET a == actor[s]
    IN  /\ s \in At({"control"})
        /\ StoreJob(TRUE, ControlEffect(s, a.item), ok)
        /\ Becomes(s, [a EXCEPT !.pc = "answer"])
        /\ UNCHANGED Rest

\* complete_control_reply: settles the event and enqueues the answer.
AnswerControl(s, ok) ==
    LET a == actor[s]
    IN  /\ s \in At({"answer"})
        /\ StoreJob(CompleteAllowed(a.item), CompleteReceived(a.item, "control"), ok)
        /\ Becomes(s, AfterControl(a, ok))
        /\ UNCHANGED Rest

\* The first item of a batch.  Until here the actor still shows Idle.
BeginBatch(s) ==
    LET a == actor[s]
    IN  /\ s \in At({"got"})
        /\ Becomes(s, [a EXCEPT !.item = None, !.batch = <<a.item>>, !.shown = "busy",
                                !.pc = "debounce"])
        /\ UNCHANGED <<ledger, Rest, faults>>

\* The debounce window: texts join the batch, a command or an item that must be
\* alone ends it and waits, media is settled on the way; or the deadline passes.
Debounce(s) ==
    LET a == actor[s]
        e == Head(a.box)
        next == [a EXCEPT !.box = Tail(@)]
    IN  /\ s \in At({"debounce"}) /\ ~a.cancel
        /\ \/ Becomes(s, [a EXCEPT !.pc = "permit"])
           \/ /\ a.box # <<>> /\ Len(a.batch) < BatchMax /\ KindOf[a.batch[1]] # "alone"
              /\ Becomes(s, CASE KindOf[e] = "text" -> [next EXCEPT !.batch = Append(@, e)]
                              [] KindOf[e] = "media" -> [next EXCEPT !.item = e, !.pc = "media"]
                              [] OTHER -> [next EXCEPT !.later = e, !.pc = "permit"])
        /\ UNCHANGED <<ledger, Rest, faults>>

\* deduplicate_batch.
Unique(q) ==
    LET firsts == Filtered([i \in 1..Len(q) |-> i],
                           {i \in 1..Len(q) : \A j \in 1..(i - 1) : q[j] # q[i]})
    IN  [k \in 1..Len(firsts) |-> q[firsts[k]]]

\* reject_terminal_batch: everything that is left is to be refused.
RefuseAll(a) == [a EXCEPT !.refuse = a.batch, !.batch = <<>>, !.why = "internal",
                          !.pc = "refuse"]

AfterRefusing(a) ==
    CASE a.refuse # <<>> -> [a EXCEPT !.pc = "refuse"]
      [] a.refuse = <<>> /\ a.batch # <<>> -> [a EXCEPT !.pc = "client"]
      [] OTHER -> Finished(a, TRUE)

\* prepare_workspace: the directory of the scope is no longer allowed by the policy.
WorkspaceRefused == Fault("workspace")

\* process_batch up to prepare_workspace: wait for a permit, then sort out what the
\* policy refuses; a workspace that is no longer allowed refuses the whole batch.
AcquirePermit(s) ==
    LET a == actor[s]
        u == [a EXCEPT !.batch = Unique(a.batch)]
        split(R) == AfterRefusing([u EXCEPT
                        !.refuse = Filtered(u.batch, R),
                        !.batch = Filtered(u.batch, Event \ R),
                        !.why = "policy"])
    IN  /\ s \in At({"permit"})
        /\ \/ codex.terminal /\ Becomes(s, RefuseAll(u)) /\ UNCHANGED faults
           \/ /\ ~codex.terminal /\ ~a.cancel /\ Cardinality(Holders) < MaxActive
              /\ \/ /\ \E R \in SUBSET (Elems(a.batch) \cap MayRefuse) : Becomes(s, split(R))
                    /\ UNCHANGED faults
                 \/ WorkspaceRefused /\ Becomes(s, split(Elems(a.batch)))
           \/ Fault("store") /\ Becomes(s, Finished(a, FALSE))
        /\ UNCHANGED <<ledger, Rest>>

\* reject_item, in batch order; an error drops the rest of the batch.
Refuse(s, ok) ==
    LET a == actor[s]
        e == Head(a.refuse)
    IN  /\ s \in At({"refuse"})
        /\ StoreJob(RejectAllowed(e, a.why), RejectReceived(e, a.why), ok)
        /\ Becomes(s, IF ok THEN AfterRefusing([a EXCEPT !.refuse = Tail(@)])
                            ELSE Finished(a, FALSE))
        /\ UNCHANGED Rest

\* The connection the actor took its client from is still there.
Connected(a) == codex.client /\ codex.epoch = a.epoch

\* wait_for_client.
TakeClient(s) ==
    LET a == actor[s]
    IN  /\ s \in At({"client"})
        /\ \/ /\ codex.client
              /\ Becomes(s, [a EXCEPT !.epoch = codex.epoch,
                                      !.pc = IF thread[s] # 0 THEN "resume" ELSE "fresh"])
           \/ ~codex.client /\ codex.terminal /\ Becomes(s, RefuseAll(a))
        /\ UNCHANGED <<ledger, Rest, faults>>

\* ensure_thread, thread/resume of the stored thread.
ResumeThread(s) ==
    LET a == actor[s]
    IN  /\ s \in At({"resume"}) /\ ~a.cancel /\ Connected(a)
        /\ \/ Becomes(s, [a EXCEPT !.pc = "subscribe"]) /\ UNCHANGED faults
           \/ Becomes(s, [a EXCEPT !.pc = "abandon"]) /\ Fault("thread")
        /\ UNCHANGED <<ledger, Rest>>

\* abandon_unusable_bridge_thread: the open turns of the thread are interrupted, one
\* transaction each, then the thread is archived.
AbandonThread(s, ok) ==
    LET a == actor[s]
        open == {t \in LiveTurns : turns[t].scope = s /\ turns[t].thread = thread[s]}
    IN  /\ s \in At({"abandon"}) /\ ~a.cancel
        /\ StoreJob(TRUE,
                    IF open = {} THEN ArchiveActiveThread(s)
                    ELSE ResolveTurn(Min(open), "interrupted"),
                    ok)
        /\ Becomes(s, IF ~ok THEN Finished(a, FALSE)
                      ELSE IF open = {} THEN [a EXCEPT !.pc = "fresh"] ELSE a)
        /\ UNCHANGED Rest

\* ensure_thread, thread/start; a failing record leaves a thread only Codex knows.
StartThread(s, ok) ==
    LET a == actor[s]
    IN  /\ s \in At({"fresh"}) /\ ~a.cancel /\ Connected(a) /\ Len(made) < MaxThreads
        /\ StoreJob(TRUE, RecordActiveThread(s), ok)
        /\ Becomes(s, IF ok THEN [a EXCEPT !.pc = "subscribe"] ELSE Finished(a, FALSE))
        /\ UNCHANGED Rest

\* The ways preparing fails: an RPC that was certainly not applied, a failing read
\* of the store, the end of the epoch.
PrepareFails(s) ==
    LET a == actor[s]
    IN  /\ s \in At({"resume", "fresh"}) /\ ~a.cancel
        /\ \/ Fault("refused") /\ Becomes(s, RefuseAll(a))
           \/ Fault("store") /\ Becomes(s, Finished(a, FALSE))
           \/ ~Connected(a) /\ Becomes(s, [a EXCEPT !.pc = "lost"]) /\ UNCHANGED faults
        /\ UNCHANGED <<ledger, Rest>>

Subscribe(s) ==
    LET a == actor[s]
    IN  /\ s \in At({"subscribe"}) /\ ~a.cancel
        /\ \/ Becomes(s, [a EXCEPT !.pc = IF Connected(a) THEN "claim" ELSE "lost"])
              /\ UNCHANGED faults
           \/ Fault("refused") /\ Becomes(s, Finished(a, FALSE))
        /\ UNCHANGED <<ledger, Rest>>

\* Mutant of SettleLoss: only a new epoch is waited for.
SettleLossByEpoch(s) ==
    LET a == actor[s]
    IN  /\ s \in At({"lost"})
        /\ ~a.cancel /\ codex.client /\ codex.epoch # a.epoch
        /\ Becomes(s, Finished(a, FALSE))
        /\ UNCHANGED <<ledger, Rest, faults>>

\* settle_preclaim_epoch_loss: the batch is refused when Codex is gone for good and
\* dropped, still received, when a new epoch begins.
SettleLoss(s) ==
    LET a == actor[s]
    IN  /\ s \in At({"lost"})
        /\ \/ codex.terminal /\ Becomes(s, RefuseAll(a))
           \/ /\ ~codex.terminal /\ ~a.cancel /\ codex.client /\ codex.epoch # a.epoch
              /\ Becomes(s, Finished(a, FALSE))
        /\ UNCHANGED <<ledger, Rest, faults>>

\* begin_turn_and_claim_inbound_live: only what it claims goes into the turn.
Claim(s, ok) ==
    LET a == actor[s]
        C == Claimable(Elems(a.batch))
    IN  /\ s \in At({"claim"})
        /\ \/ /\ C = {} /\ ok
              /\ Becomes(s, Finished(a, TRUE)) /\ UNCHANGED <<ledger, faults>>
           \/ /\ C # {}
              /\ \E t \in TurnId :
                    /\ IsNewTurn(t)
                    /\ StoreJob(TurnRoom, BeginTurnAndClaim(s, Elems(a.batch), t), ok)
                    /\ Becomes(s, IF ~ok THEN Finished(a, FALSE)
                                  ELSE [a EXCEPT !.turn = t, !.pc = "assemble",
                                                 !.batch = Filtered(@, C)])
        /\ UNCHANGED Rest

\* Mutant of Ends: the turn is resolved before its final reply is durable.
EndsUnanswered(a, res, wait) == [a EXCEPT !.res = res, !.wait = wait, !.pc = "resolve"]

\* How a turn is to be finalised.
Ends(a, res, wait) == [a EXCEPT !.res = res, !.wait = wait, !.pc = "final"]

\* assemble_turn_inputs and revalidate_workspace; a failure is the turn's failure.
AssembleFails(s) ==
    LET a == actor[s]
    IN  /\ s \in At({"assemble"})
        /\ (a.cancel /\ UNCHANGED faults) \/ Fault("assembly")
        /\ Becomes(s, Ends(a, "failed", FALSE))
        /\ UNCHANGED <<ledger, Rest>>

\* turn/start leaves; Codex begins to execute it unless the request is refused or
\* the connection is gone.  A cancelled actor does not send it and cannot tell.
SendStart(s) ==
    LET a == actor[s]
    IN  /\ s \in At({"assemble"})
        /\ \/ /\ ~a.cancel
              /\ \/ Connected(a) /\ exec' = exec \cup {a.turn} /\ UNCHANGED faults
                 \/ ~Connected(a) /\ UNCHANGED <<exec, faults>>
                 \/ Connected(a) /\ Fault("refused") /\ UNCHANGED exec
              /\ submitted' = [e \in Event |-> submitted[e] + IF e \in Elems(a.batch) THEN 1 ELSE 0]
              /\ Becomes(s, [a EXCEPT !.pc = "sent"])
           \/ /\ a.cancel /\ Becomes(s, Ends(a, "uncertain", TRUE))
              /\ UNCHANGED <<exec, submitted, faults>>
        /\ UNCHANGED <<ledger, proc, queue, retries, eviction, codex, delivered, final>>

Applied(a) == a.turn \in exec \/ a.event # None

\* The answer to turn/start: started, certainly not applied, or unknown.  Giving up
\* on an answer faults the connection (PendingTurnStartGuard).
StartAnswered(s) ==
    LET a == actor[s]
    IN  /\ s \in At({"sent"}) /\ Connected(a) /\ ~a.cancel
        /\ IF Applied(a)
           THEN Becomes(s, [a EXCEPT !.pc = "mark"]) /\ UNCHANGED submitted
           ELSE /\ Becomes(s, Ends(a, "failed", FALSE))
                /\ submitted' = [e \in Event |->
                                    submitted[e] - IF e \in Elems(a.batch) THEN 1 ELSE 0]
        /\ UNCHANGED <<ledger, proc, queue, retries, eviction, codex, exec, delivered, final,
                       faults>>

ConnectionEnds ==
    /\ codex' = [codex EXCEPT !.client = FALSE, !.epoch = @ + 1]
    /\ exec' = {}

\* Mutant of StartUnknown: a request that may have been applied is sent again.
StartUnknownRetried(s) ==
    LET a == actor[s]
    IN  /\ s \in At({"sent"}) /\ ~Connected(a)
        /\ Becomes(s, [a EXCEPT !.pc = "assemble"])
        /\ UNCHANGED <<ledger, Rest, faults>>

\* A turn/start without an answer is never sent again.
StartUnknown(s) ==
    LET a == actor[s]
    IN  /\ s \in At({"sent"})
        /\ \/ ~Connected(a) /\ UNCHANGED <<codex, exec, faults>>
           \/ /\ Connected(a) /\ ConnectionEnds
              /\ (a.cancel /\ UNCHANGED faults) \/ Fault("timeout")
        /\ Becomes(s, Ends(a, "uncertain", TRUE))
        /\ UNCHANGED <<ledger, proc, queue, retries, eviction, submitted, delivered, final>>

\* set_turn_state(Running).
MarkRunning(s, ok) ==
    LET a == actor[s]
    IN  /\ s \in At({"mark"})
        /\ StoreJob(TRUE, SetTurnRunning(a.turn), ok)
        /\ Becomes(s, IF ok THEN [a EXCEPT !.pc = "run"] ELSE Ends(a, "uncertain", TRUE))
        /\ UNCHANGED Rest

\* The event loop of process_batch ends with turn/completed, or without it when the
\* connection closes, the subscription is invalidated or the actor is cancelled.
RunEnds(s) ==
    LET a == actor[s]
    IN  /\ s \in At({"run"})
        /\ \/ /\ ~a.cancel /\ a.event # None
              /\ Becomes(s, Ends(a, a.event, FALSE)) /\ UNCHANGED faults
           \/ /\ Becomes(s, Ends(a, "uncertain", TRUE))
              /\ \/ (a.cancel \/ (a.event = None /\ ~Connected(a))) /\ UNCHANGED faults
                 \/ ~a.cancel /\ Fault("lag")
        /\ UNCHANGED <<ledger, Rest>>

\* ProjectedReply::Empty: a completed turn without visible output has no reply.
Empty(a) == a.res = "completed" /\ a.turn \in Quiet

\* persist_finalization: the final reply reaches the outbox, however often it takes,
\* unless the projection is impossible or the cleanup of a cancelled actor times out.
\* An empty reply is no row at all.
PersistFinal(s) ==
    LET a == actor[s]
    IN  /\ s \in At({"final"})
        /\ \/ /\ final' = (IF Empty(a) THEN final ELSE final \cup {a.turn})
              /\ UNCHANGED faults
              /\ Becomes(s, [a EXCEPT !.pc = "resolve"])
           \/ Fault("sink") /\ Becomes(s, Finished(a, FALSE)) /\ UNCHANGED final
        /\ UNCHANGED <<ledger, proc, queue, retries, eviction, outside>>

\* Mutant of Conclude: the end of the epoch is not waited for.
ConcludeAtOnce(s, ok) ==
    LET a == actor[s]
    IN  /\ s \in At({"resolve"})
        /\ StoreJob(ResolveAllowed(a.turn, a.res), ResolveTurn(a.turn, a.res), ok)
        /\ Becomes(s, Finished(a, ok))
        /\ UNCHANGED Rest

\* resolve_turn_and_finish_inbound_batch, tried once.
Conclude(s, ok) ==
    LET a == actor[s]
    IN  /\ s \in At({"resolve"})
        /\ StoreJob(ResolveAllowed(a.turn, a.res), ResolveTurn(a.turn, a.res), ok)
        /\ Becomes(s, IF ok /\ a.wait THEN [a EXCEPT !.pc = "settle"] ELSE Finished(a, ok))
        /\ UNCHANGED Rest

\* wait_for_epoch_end: an uncertain turn may still be executing.
EpochEnds(s) ==
    LET a == actor[s]
    IN  /\ s \in At({"settle"}) /\ ~Connected(a)
        /\ Becomes(s, Finished(a, TRUE))
        /\ UNCHANGED <<ledger, Rest, faults>>

\* A cancelled actor leaves its loop at the next select.
Leave(s) ==
    LET a == actor[s]
    IN  /\ s \in Residents /\ a.cancel
        /\ \/ a.pc \in {"debounce", "permit", "resume", "abandon", "fresh", "subscribe", "lost",
                        "settle"}
           \/ a.pc = "idle" /\ a.later = None
           \/ a.pc = "client" /\ ~codex.client
        /\ Becomes(s, NoActor)
        /\ UNCHANGED <<ledger, Rest, faults>>

ActorStep(s) ==
    \/ Receive(s) \/ BeginBatch(s) \/ Debounce(s) \/ AcquirePermit(s) \/ TakeClient(s)
    \/ ResumeThread(s) \/ PrepareFails(s) \/ Subscribe(s) \/ SettleLoss(s)
    \/ AssembleFails(s) \/ SendStart(s) \/ StartAnswered(s) \/ StartUnknown(s)
    \/ RunEnds(s) \/ PersistFinal(s) \/ EpochEnds(s) \/ Leave(s)
    \/ \E ok \in BOOLEAN :
          \/ PrepareMedia(s, ok) \/ RefuseControl(s, ok) \/ ExecuteControl(s, ok)
          \/ AnswerControl(s, ok) \/ Refuse(s, ok) \/ AbandonThread(s, ok)
          \/ StartThread(s, ok) \/ Claim(s, ok) \/ MarkRunning(s, ok) \/ Conclude(s, ok)

-----------------------------------------------------------------------------
(* Codex, as the supervisor publishes it.  A lost process takes every turn *)
(* it was executing with it.                                               *)

CodexReady ==
    /\ proc # "down" /\ ~codex.client /\ ~codex.terminal
    /\ codex' = [codex EXCEPT !.client = TRUE]
    /\ UNCHANGED <<ledger, proc, memory, exec, submitted, final, delivered, faults>>

CodexDies ==
    /\ codex.client /\ Fault("codex")
    /\ ConnectionEnds
    /\ UNCHANGED <<ledger, proc, memory, submitted, final, delivered>>

\* SupervisorState::Degraded: no further restart.
CodexGivesUp ==
    /\ ~codex.client /\ ~codex.terminal /\ Fault("giveup")
    /\ codex' = [codex EXCEPT !.terminal = TRUE]
    /\ UNCHANGED <<ledger, proc, memory, exec, submitted, final, delivered>>

\* event_belongs_to_turn: the actor of s has started t and listens for its end.
Belongs(t, s) == s \in At({"sent", "mark", "run"}) /\ actor[s].turn = t

\* turn/completed, kept by the subscription of the actor that waits for it.
CodexFinishes(t, res) ==
    LET s == turns[t].scope
    IN  /\ t \in exec
        /\ exec' = exec \ {t}
        /\ actor' = IF Belongs(t, s) THEN [actor EXCEPT ![s].event = res] ELSE actor
        /\ UNCHANGED <<ledger, proc, queue, retries, eviction, codex, submitted, final,
                       delivered, faults>>

-----------------------------------------------------------------------------
(* The process.                                                            *)

Gone ==
    /\ proc' = "down"
    /\ queue' = <<>> /\ retries' = <<>> /\ eviction' = NoEviction
    /\ actor' = [s \in Scope |-> NoActor]
    /\ codex' = [epoch |-> 1, client |-> FALSE, terminal |-> FALSE]
    /\ exec' = {}
    /\ UNCHANGED <<ledger, submitted, final, delivered>>

Crash == proc # "down" /\ Fault("crash") /\ Gone

\* The router stops taking events and cancels every actor.
RequestStop ==
    /\ proc = "up" /\ eviction = NoEviction /\ Fault("stop")
    /\ proc' = "stopping"
    /\ queue' = <<>> /\ retries' = <<>>
    /\ actor' = AllCancelled
    /\ UNCHANGED <<ledger, eviction, outside, final>>

Stopped == proc = "stopping" /\ Residents = {} /\ Gone /\ UNCHANGED faults

\* DurableIntake::prepare: the store is scanned and the received rows are replayed
\* before anything new is taken.
Start ==
    /\ proc = "down" /\ ScanPasses
    /\ proc' = "up"
    /\ queue' = Recovered
    /\ UNCHANGED <<ledger, retries, eviction, actor, outside, final, faults>>

\* sweep_inbound, at an age at which Lark no longer redelivers the message and no task
\* holds it any more (DEDUP_TTL is seven days).
Sweep(e) ==
    /\ proc = "up" /\ e \notin InMemory
    /\ SweepInbound(e)
    /\ delivered' = [d \in Event |-> IF MsgOf[d] = MsgOf[e] THEN MaxDeliveries ELSE delivered[d]]
    /\ UNCHANGED <<proc, memory, codex, exec, submitted, final, faults>>

Next ==
    \/ \E e \in Event, ok \in BOOLEAN : Deliver(e, ok)
    \/ \E e \in Event : DeliverCut(e)
    \/ Router
    \/ \E s \in Scope : ActorStep(s)
    \/ CodexReady \/ CodexDies \/ CodexGivesUp
    \/ \E t \in TurnId, res \in Outcomes : CodexFinishes(t, res)
    \/ Crash \/ RequestStop \/ Stopped \/ Start
    \/ \E e \in Event : Sweep(e)

Spec == Init /\ [][Next]_vars

-----------------------------------------------------------------------------
(* Properties.                                                             *)

TypeOK ==
    /\ LedgerTypeOK
    /\ proc \in {"up", "stopping", "down"}
    /\ queue \in Seq(Event) /\ retries \in Seq(Event)
    /\ eviction \in [victim: Scope \cup {None}, event: Event \cup {None}]
    /\ actor \in [Scope -> Actor]
    /\ codex \in [epoch: Nat, client: BOOLEAN, terminal: BOOLEAN]
    /\ exec \subseteq TurnId /\ final \subseteq TurnId
    /\ submitted \in [Event -> Nat]
    /\ delivered \in [Event -> 0..MaxDeliveries]
    /\ faults \in 0..MaxFaults

\* No event is handed to Codex twice: not by a redelivery, a replay at startup, a
\* second copy in a mailbox or a retry, whatever crashes in between
\* (begin_turn_and_claim_inbound_live claims before turn/start is sent).  A message
\* that Lark sends again under another event id is handed over again only when the
\* turn of the first did not complete and its row was rejected
\* (read_message_candidates skips rejected rows); it never is while the other one is
\* accepted, and never once it is completed.
SubmittedOnce ==
    /\ \A e \in Event : submitted[e] <= 1
    /\ \A e, d \in Event :
          /\ MsgOf[e] = MsgOf[d] /\ e # d
          /\ submitted[e] = 1 /\ submitted[d] = 1
          => \E c \in {e, d} : inbound[c].state \in {"rejected", "absent"}

\* Codex never executes two turns of one scope at a time: the actor starts the next
\* batch only when the last turn is over or its connection is
\* (finalize_uncertain_and_settle_attachments, wait_for_epoch_end).
OneTurnPerScope == \A t, u \in exec : turns[t].scope = turns[u].scope => t = u

\* No message is settled in silence: its control reply or notice was committed with
\* it, or the final reply of its turn was durable before it.  Media is settled without
\* a reply, a turn interrupted with its thread without a final one, and a turn that
\* completed with nothing to show without a message (ProjectedReply::Empty).
SettledIsAnswered ==
    \A e \in Rows({"completed", "rejected"}) :
        \/ inbound[e].reply # None
        \/ inbound[e].turn = NoTurn /\ KindOf[e] \in {"media", "ignored"}
        \/ inbound[e].turn \in final
        \/ inbound[e].turn # NoTurn /\ turns[inbound[e].turn].state = "interrupted"
        \/ inbound[e].turn \in Quiet /\ turns[inbound[e].turn].state = "completed"

\* While nothing has gone wrong, a received row is in the hands of some task: only a
\* restart would find it again otherwise.
NothingStranded ==
    proc = "up" /\ faults = MaxFaults => \A e \in Rows({"received"}) : e \in InMemory

\* While nothing has gone wrong, the messages of a scope reach Codex in the order in
\* which they were registered: none is still waiting when a later one is claimed.
Turned(e) == KindOf[e] \in {"text", "alone"}
Before(e, d) == \E i, j \in 1..Len(seen) : i < j /\ seen[i] = e /\ seen[j] = d
ClaimedInOrder ==
    faults = MaxFaults =>
        \A d \in Event, e \in Rows({"received"}) :
            ~(/\ Turned(e) /\ Turned(d) /\ ScopeOf[e] = ScopeOf[d]
              /\ inbound[d].turn # NoTurn /\ Before(e, d))

\* Debounce, batching, deferral, redelivery and overload neither forget a message nor
\* let a later one of its scope overtake it (run_scope_actor, route_one).
KeptInOrder == NothingStranded /\ ClaimedInOrder

\* A turn goes on with a thread of its own conversation, whatever /new, /resume,
\* abandoned threads and restarts did to the active one meanwhile: nobody reads in
\* one chat what Codex was told in another.
ThreadsStayHome ==
    \A t \in TurnId : turns[t].thread # 0 => made[turns[t].thread] = turns[t].scope

\* Every event that some task holds is let go of: nobody waits for ever on a permit,
\* a client, an answer or the end of an epoch.
Drains == \A e \in Event : (e \in InMemory) ~> (e \notin InMemory)

\* The tasks of the process run, the supervisor restarts Codex, the service manager
\* restarts the process.
TasksRun ==
    /\ WF_vars(Router)
    /\ \A s \in Scope : WF_vars(ActorStep(s))
    /\ WF_vars(CodexReady)
    /\ WF_vars(Stopped) /\ WF_vars(Start)

\* Every turn ends.
TurnsEnd == WF_vars(\E t \in TurnId, res \in Outcomes : CodexFinishes(t, res))

FairSpec == Spec /\ TasksRun /\ TurnsEnd
=============================================================================
