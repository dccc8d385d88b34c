------------------------------ MODULE External ------------------------------
(***************************************************************************)
(* Coordinators of a shared Codex endpoint: the read-only one keeps what   *)
(* is known of the managed threads current across reconnections            *)
(* (codex/external_recovery.rs), the writing one also starts, steers,      *)
(* interrupts and queues turns and answers approval requests               *)
(* (codex/external_write.rs).  Other clients use the same endpoint, so     *)
(* turns begin and end on their own.  A session is one coordinator; every  *)
(* connection it makes is a new epoch.                                     *)
(*                                                                         *)
(* A session runs one command at a time and takes no event meanwhile.      *)
(* The endpoint itself is external: it is what the code assumes of it.     *)
(***************************************************************************)
EXTENDS ExternalStore, Sequences

CONSTANTS Sessions, Writers,
          Target,        \* the turn an intent is about, or the queue entry
          NoThread,
          MailCap,       \* EXTERNAL_RECONCILE_EVENT_CAPACITY
          ApprovalCap,   \* APPROVAL_CAPACITY
          Scenes         \* what a behaviour is about, with bounds on epochs and faults

ASSUME ExternalAssumption ==
  /\ Writers \subseteq Sessions
  /\ Target \in [Intents -> Turns]
  /\ \A i \in Intents : ThreadOf[Target[i]] = ThreadOf[i]
  /\ NoThread \notin Threads
  /\ MailCap \in Nat /\ ApprovalCap \in Nat

VARIABLES db,        \* the tables
          ses,       \* [Sessions -> Session]
          turn,      \* the endpoint's turns
          queue,     \* and its queued submissions
          wire,      \* mutations sent that the endpoint has not handled
          effects,   \* how often a mutation took effect
          ask,       \* approval requests: "none", "open" or "closed"
          answers,   \* how often one was answered
          faults,    \* how often something has gone wrong
          scene

vars == <<db, ses, turn, queue, wire, effects, ask, answers, faults, scene>>
server == <<turn, queue, wire, effects, ask, answers>>

Ends == {"completed", "failed"}
NoTurns == [u \in Turns |-> "none"]

\* The state of a coordinator.  subs: threads this connection is subscribed
\* to; todo, cur, step, snap, box, over, done: reconciliation; evq: events not
\* yet taken; cmd, phase, reply: the command under way; pend: approvals.
Session(pc, e) ==
  [pc |-> pc, epoch |-> e, wake |-> FALSE, subs |-> {}, todo |-> {}, cur |-> NoThread,
   step |-> "none", snap |-> NoTurns, box |-> <<>>, over |-> FALSE, done |-> {}, evq |-> <<>>,
   cmd |-> NoIntent, phase |-> "none", reply |-> "none", pend |-> [a \in Asks |-> "none"]]

Connected(s) == ses[s].pc \in {"reconciling", "live"}
Idle(s) == ses[s].pc = "live" /\ ses[s].cmd = NoIntent
Event(kind, x) == [kind |-> kind, about |-> x, status |-> IF kind = "turn" THEN turn'[x] ELSE "none"]

\* Every connection subscribed to the thread gets the event.
Emit(kind, x) ==
  ses' = [s \in Sessions |->
            IF Connected(s) /\ ThreadOf[x] \in ses[s].subs
            THEN [ses[s] EXCEPT !.evq = Append(@, Event(kind, x))] ELSE ses[s]]

Update(s, r) == ses' = [ses EXCEPT ![s] = r]

\* A coordinator whose epoch failed: the reader waits and connects again, the
\* writer is over.
Retire(s) == Session(IF s \in Writers THEN "off" ELSE "backoff", ses[s].epoch)
Fail(s) ==
  /\ db' = MarkUnavailable(db, ses[s].epoch)
  /\ Update(s, [Retire(s) EXCEPT !.wake = ses[s].wake])
Fault == faults < scene.faults /\ faults' = faults + 1

-----------------------------------------------------------------------------
(* Connecting and reconciling, the same for both. *)

Reserve(s) ==
  /\ ses[s].pc \in {"off", "reserve"}
  /\ s \in scene.sessions
  /\ db.endpoint.epoch < scene.epochs
  /\ db' = ReserveEpoch(db)
  /\ Update(s, [Session("connecting", db.endpoint.epoch + 1) EXCEPT !.wake = ses[s].wake])
  /\ UNCHANGED <<server, faults, scene>>

ConnectFails(s) ==
  /\ ses[s].pc = "connecting"
  /\ Fault
  /\ Fail(s)
  /\ UNCHANGED <<server, scene>>

\* The managed threads are read once; those that are uncertain stay so.
Connect(s) ==
  /\ ses[s].pc = "connecting"
  /\ db' = SetEndpoint(db, ses[s].epoch, "reconciling")
  /\ Update(s, [ses[s] EXCEPT !.pc = "reconciling",
                              !.todo = {t \in Managed(db) : db.thread[t].state # "uncertain"}])
  /\ UNCHANGED <<server, faults, scene>>

BeginThread(s) ==
  /\ ses[s].pc = "reconciling" /\ ses[s].cur = NoThread
  /\ \E t \in ses[s].todo :
       IF Begins(db, t, ses[s].epoch)
       THEN /\ db' = BeginReconciliation(db, t, ses[s].epoch)
            /\ Update(s, [ses[s] EXCEPT !.cur = t, !.step = "resume", !.todo = @ \ {t},
                                        !.snap = NoTurns])
       ELSE Fail(s)
  /\ UNCHANGED <<server, faults, scene>>

\* await_request takes the events that are there before the answer.
Answered(s, step) ==
  /\ ses[s].pc = "reconciling" /\ ses[s].step = step
  /\ ses[s].evq = <<>>

Resume(s) ==
  /\ Answered(s, "resume")
  /\ Update(s, [ses[s] EXCEPT !.subs = @ \union {ses[s].cur}, !.step = "read"])
  /\ UNCHANGED <<db, server, faults, scene>>

ReadThread(s) ==
  /\ Answered(s, "read")
  /\ Update(s, [ses[s] EXCEPT !.step = "turns"])
  /\ UNCHANGED <<db, server, faults, scene>>

\* The pages of turns, without the ones in progress.
ListTurns(s) ==
  /\ Answered(s, "turns")
  /\ Update(s, [ses[s] EXCEPT !.step = "items",
       !.snap = [u \in Turns |-> IF ThreadOf[u] = ses[s].cur /\ turn[u] \in Ends
                                 THEN turn[u] ELSE "none"]])
  /\ UNCHANGED <<db, server, faults, scene>>

\* A request that times out, is refused or lost ends the epoch.
RequestFails(s) ==
  /\ ses[s].pc = "reconciling" /\ ses[s].step # "none"
  /\ Fault
  /\ Fail(s)
  /\ UNCHANGED <<server, scene>>

Finished(s) ==
  [ses[s] EXCEPT !.done = @ \union {ses[s].cur}, !.cur = NoThread, !.step = "none",
                 !.box = <<>>, !.over = FALSE]

\* An answer that names another thread, is too large or has too many pages
\* leaves the thread uncertain.
AnswerUnusable(s) ==
  /\ ses[s].pc = "reconciling" /\ ses[s].step # "none"
  /\ Fault
  /\ db' = MarkThreadUncertain(db, ses[s].cur, ses[s].epoch)
  /\ Update(s, Finished(s))
  /\ UNCHANGED <<server, scene>>

\* Mutant of Projection: what arrived while the pages were read is dropped.
PagesOnly(s) == ses[s].snap

\* TerminalProjection: the pages with the mailbox folded in.
Projection(s) ==
  [u \in Turns |->
     IF \E k \in 1..Len(ses[s].box) : ses[s].box[k].about = u
     THEN (CHOOSE e \in {ses[s].box[k] : k \in 1..Len(ses[s].box)} : e.about = u).status
     ELSE ses[s].snap[u]]
DisagreesAt(s, k) ==
  LET e == ses[s].box[k] IN
  \/ ses[s].snap[e.about] \notin {"none", e.status}
  \/ \E j \in 1..(k - 1) : ses[s].box[j].about = e.about /\ ses[s].box[j].status # e.status
Disagrees(s) == \E k \in 1..Len(ses[s].box) : DisagreesAt(s, k)
NotForReaders(s) ==
  \E k \in 1..Len(ses[s].box) : /\ ses[s].box[k].kind # "turn"
                                /\ \A j \in 1..(k - 1) : ~DisagreesAt(s, j)

\* The items of the turns, the mailbox, and the result in one transaction.
FinishThread(s) ==
  LET t == ses[s].cur
      e == ses[s].epoch
      settle(d) == db' = d /\ Update(s, Finished(s))
  IN
  /\ Answered(s, "items")
  /\ CASE ses[s].over -> settle(MarkThreadUncertain(db, t, e))
       [] ~ses[s].over /\ NotForReaders(s) -> Fail(s)
       [] ~ses[s].over /\ ~NotForReaders(s) /\ Disagrees(s) -> settle(MarkThreadUncertain(db, t, e))
       [] OTHER -> IF Current(db, t, e, "reconciling")
                   THEN settle(ApplyTerminals(db, t, e, Projection(s), TRUE)) ELSE Fail(s)
  /\ UNCHANGED <<server, faults, scene>>

Ended(x) == [u \in Turns |-> IF u = x.about THEN x.status ELSE "none"]

\* apply_live_event: a reader knows no other events than turns that ended.
ApplyLive(s, x) ==
  LET t == ThreadOf[x.about] IN
  IF x.kind = "turn" /\ Current(db, t, ses[s].epoch, "ready")
  THEN /\ db' = ApplyTerminals(db, t, ses[s].epoch, Ended(x), FALSE)
       /\ Update(s, [ses[s] EXCEPT !.evq = Tail(@)])
  ELSE Fail(s)

\* route_reconcile_event: of a thread that is done, or into its mailbox.
RouteEvent(s) ==
  LET x == Head(ses[s].evq) IN
  /\ ses[s].pc = "reconciling" /\ ses[s].step # "none"
  /\ ses[s].evq # <<>>
  /\ IF ThreadOf[x.about] \in ses[s].done
     THEN ApplyLive(s, x)
     ELSE /\ Update(s, [ses[s] EXCEPT !.evq = Tail(@),
                          !.over = @ \/ Len(ses[s].box) >= MailCap,
                          !.box = IF ses[s].over \/ Len(@) >= MailCap THEN @ ELSE Append(@, x)])
          /\ UNCHANGED db
  /\ UNCHANGED <<server, faults, scene>>

Reconciled(s) ==
  /\ ses[s].pc = "reconciling" /\ ses[s].cur = NoThread /\ ses[s].todo = {}
  /\ db' = SetEndpoint(db, ses[s].epoch, "ready")
  /\ Update(s, [ses[s] EXCEPT !.pc = "live"])
  /\ UNCHANGED <<server, faults, scene>>

\* The connection is lost; what was sent on it may still be handled.
Closed(s) ==
  /\ Connected(s) /\ ses[s].cmd = NoIntent
  /\ Fault
  /\ Fail(s)
  /\ UNCHANGED <<server, scene>>

-----------------------------------------------------------------------------
(* The reader. *)

Reading(s) == s \notin Writers

LiveEvent(s) ==
  /\ Reading(s) /\ ses[s].pc = "live"
  /\ ses[s].evq # <<>>
  /\ ApplyLive(s, Head(ses[s].evq))
  /\ UNCHANGED <<server, faults, scene>>

BackoffEnds(s) ==
  /\ ses[s].pc = "backoff"
  /\ Update(s, [ses[s] EXCEPT !.pc = "reserve"])
  /\ UNCHANGED <<db, server, faults, scene>>

\* Mutant of ManageThread: the actor is not told.
RegisterOnly(s, t) ==
  /\ Reading(s) /\ s \in scene.sessions
  /\ ses[s].pc # "stopped"
  /\ t \in scene.adds \ Managed(db)
  /\ db' = IF FitsThread(db, t) THEN RegisterThread(db, t) ELSE db
  /\ UNCHANGED <<ses, server, faults, scene>>

\* manage_thread: the row, then a command that the actor takes when it next
\* looks at its commands, which it does not while it reconciles.  A caller that is gone
\* between the two is left out.
ManageThread(s, t) ==
  /\ Reading(s) /\ s \in scene.sessions
  /\ ses[s].pc # "stopped"
  /\ t \in scene.adds \ Managed(db)
  /\ IF FitsThread(db, t)
     THEN /\ db' = RegisterThread(db, t)
          /\ Update(s, [ses[s] EXCEPT !.wake = TRUE])
     ELSE UNCHANGED <<db, ses>>
  /\ UNCHANGED <<server, faults, scene>>

Wake(s) ==
  /\ Reading(s) /\ ses[s].wake
  /\ ses[s].pc \in {"connecting", "live", "backoff"}
  /\ Update(s, Session("reserve", ses[s].epoch))
  /\ UNCHANGED <<db, server, faults, scene>>

\* request_reconnect
Reconnect(s) ==
  /\ Reading(s) /\ ses[s].pc \in {"connecting", "live", "backoff"}
  /\ Fault
  /\ db' = IF ses[s].pc = "live" THEN MarkUnavailable(db, ses[s].epoch) ELSE db
  /\ Update(s, [Session("reserve", ses[s].epoch) EXCEPT !.wake = ses[s].wake])
  /\ UNCHANGED <<server, scene>>

\* shutdown, and what the actor does after its loop: it is the latest epoch
\* that ends, whoever reserved it.
StopReader(s) ==
  LET failed == IF ses[s].pc = "reconciling" THEN MarkUnavailable(db, ses[s].epoch) ELSE db
      e == failed.endpoint.epoch
      ended == IF failed.endpoint.state = "unavailable" THEN failed ELSE MarkUnavailable(failed, e)
  IN
  /\ Reading(s) /\ scene.stops
  /\ ses[s].pc \in {"connecting", "reconciling", "live", "backoff"}
  /\ db' = SetEndpoint(ended, e, "stopped")
  /\ Update(s, Session("stopped", ses[s].epoch))
  /\ UNCHANGED <<server, faults, scene>>

-----------------------------------------------------------------------------
(* The writer: one mutation at a time. *)

Phase(s, phase) == ses[s].pc = "live" /\ ses[s].cmd \in Intents /\ ses[s].phase = phase
Goto(s, phase) == Update(s, [ses[s] EXCEPT !.phase = phase])
Returns(s) == Update(s, [ses[s] EXCEPT !.cmd = NoIntent, !.phase = "none", !.reply = "none"])

InProgress(t) == {u \in Turns : ThreadOf[u] = t /\ turn[u] = "active"}
Queued(t) == {q \in queue : ThreadOf[q] = t}

\* Which check comes first: steering, interrupting and queueing look at the
\* turn before the fence is taken, starting from the queue at its owner.
Submit(s, i) ==
  /\ s \in Writers /\ Idle(s)
  /\ i \in scene.intents
  /\ Update(s, [ses[s] EXCEPT !.cmd = i,
       !.phase = IF KindOf[i] = "start" THEN "acquire" ELSE "owner"])
  /\ UNCHANGED <<db, server, faults, scene>>

\* Mutant of Owned: any turn that is in progress will do.
OwnedByAnyone(i) == KindOf[i] = "pop" \/ InProgress(ThreadOf[i]) = {Target[i]}

\* require_owned_active, and the owner of a queued submission.
Owned(i) ==
  /\ Owners(db, Target[i]) = {SourceOf[i]}
  /\ KindOf[i] # "pop" => InProgress(ThreadOf[i]) = {Target[i]}

CheckOwner(s) ==
  /\ Phase(s, "owner")
  /\ IF Owned(ses[s].cmd) THEN Goto(s, "acquire") ELSE Returns(s)
  /\ UNCHANGED <<db, server, faults, scene>>

Acquire(s) ==
  LET i == ses[s].cmd
      outcome == PrepareOutcome(db, i, ses[s].epoch)
  IN
  /\ Phase(s, "acquire")
  /\ CASE outcome = "Prepared" ->
            /\ db' = Prepare(db, i, ses[s].epoch)
            /\ Goto(s, IF KindOf[i] \in {"start", "pop"} THEN "idle" ELSE "send")
       [] outcome = "Uncertain" -> Fail(s)
       [] OTHER -> UNCHANGED db /\ Returns(s)
  /\ UNCHANGED <<server, faults, scene>>

\* resolve: when the fence is no longer this session's the command just ends.
Settle(s, to, result) ==
  /\ db' = IF MayResolve(db, ses[s].cmd, ses[s].epoch, to)
           THEN Resolve(db, ses[s].cmd, to, result) ELSE db
  /\ Returns(s)

\* The same, and the error that ends the session.
SettleUncertain(s) ==
  IF MayResolve(db, ses[s].cmd, ses[s].epoch, "uncertain")
  THEN /\ db' = MarkUnavailable(Resolve(db, ses[s].cmd, "uncertain", NoIntent), ses[s].epoch)
       /\ Update(s, Retire(s))
  ELSE UNCHANGED db /\ Returns(s)

\* thread_is_idle with queue_is_empty, or with queue_contains.
Preflight(s) ==
  LET i == ses[s].cmd
      t == ThreadOf[i]
      free == /\ InProgress(t) = {}
              /\ IF KindOf[i] = "start" THEN Queued(t) = {} ELSE Target[i] \in queue
  IN
  /\ Phase(s, "idle")
  /\ IF free THEN Goto(s, "send") /\ UNCHANGED db ELSE Settle(s, "rejected", NoIntent)
  /\ UNCHANGED <<server, faults, scene>>

\* A read that the endpoint refuses is an error that ends the command and
\* nothing else: the fence stays taken until the session is over.
ReadRefused(s) ==
  /\ Phase(s, "idle") \/ Phase(s, "confirm")
  /\ Fault
  /\ Returns(s)
  /\ UNCHANGED <<db, server, scene>>

\* A read that times out or is lost ends the session.
ReadFails(s) ==
  /\ \/ Phase(s, "owner") /\ KindOf[ses[s].cmd] # "pop"
     \/ Phase(s, "idle") \/ Phase(s, "confirm")
  /\ Fault
  /\ Fail(s)
  /\ UNCHANGED <<server, scene>>

\* mark_sent, then the request.
Send(s) ==
  LET i == ses[s].cmd IN
  /\ Phase(s, "send")
  /\ IF MaySend(db, i, ses[s].epoch)
     THEN db' = MarkSent(db, i) /\ Goto(s, "sent")
     ELSE UNCHANGED db /\ Returns(s)
  /\ UNCHANGED <<server, faults, scene>>

Request(s) ==
  /\ Phase(s, "sent")
  /\ wire' = wire \union {<<s, ses[s].epoch, ses[s].cmd>>}
  /\ Goto(s, "wait")
  /\ UNCHANGED <<db, turn, queue, effects, ask, answers, faults, scene>>

\* The answer.  A start or a steer is confirmed by reading its message back.
Answer(s) ==
  LET i == ses[s].cmd IN
  /\ Phase(s, "wait")
  /\ \/ ses[s].reply = "refused" /\ Settle(s, "rejected", NoIntent)
     \/ /\ ses[s].reply = "done"
        /\ IF KindOf[i] \in {"start", "steer"} THEN Goto(s, "confirm") /\ UNCHANGED db
           ELSE Settle(s, "applied", IF KindOf[i] = "interrupt" THEN Target[i] ELSE i)
  /\ UNCHANGED <<server, faults, scene>>

\* resolve_transport_failure, and an answer that does not match the request.
NoAnswer(s) ==
  /\ Phase(s, "wait")
  /\ Fault
  /\ SettleUncertain(s)
  /\ UNCHANGED <<server, scene>>

\* turn_has_client_message, and a reply whose turn is no longer in progress.
Confirm(s) ==
  LET i == ses[s].cmd IN
  /\ Phase(s, "confirm")
  /\ Settle(s, "applied", IF KindOf[i] = "steer" THEN Target[i] ELSE i)
  /\ UNCHANGED <<server, faults, scene>>

Unconfirmed(s) ==
  /\ Phase(s, "confirm")
  /\ Fault
  /\ SettleUncertain(s)
  /\ UNCHANGED <<server, scene>>

-----------------------------------------------------------------------------
(* The writer: events and approvals. *)

Taken(s) == [ses[s] EXCEPT !.evq = Tail(@)]
Waiting(s) == {a \in Asks : ses[s].pend[a] # "none"}

\* What came of recording the turn is not looked at.
TurnEvent(s, x) ==
  LET t == ThreadOf[x.about]
      e == ses[s].epoch
  IN /\ db' = IF Current(db, t, e, "ready") THEN ApplyTerminals(db, t, e, Ended(x), FALSE) ELSE db
     /\ Update(s, Taken(s))

\* receive_approval.  A prompt that the channel has no room for is denied.
ApprovalEvent(s, a) ==
  IF Cardinality(Waiting(s)) < ApprovalCap /\ Receives(db, a, ses[s].epoch)
  THEN /\ db' = Receive(db, a, ses[s].epoch)
       /\ \/ Update(s, [Taken(s) EXCEPT !.pend[a] = "waiting"])
          \/ scene.overflow /\ Update(s, [Taken(s) EXCEPT !.cmd = a, !.phase = "deny"])
  ELSE Fail(s)

ResolvedEvent(s, a) ==
  IF Closes(db, a, ses[s].epoch)
  THEN db' = Close(db, a) /\ Update(s, [Taken(s) EXCEPT !.pend[a] = "none"])
  ELSE Fail(s)

WriterEvent(s) ==
  LET x == Head(ses[s].evq) IN
  /\ s \in Writers /\ Idle(s)
  /\ ses[s].evq # <<>>
  /\ CASE x.kind = "turn" -> TurnEvent(s, x)
       [] x.kind = "ask" -> ApprovalEvent(s, x.about)
       [] x.kind = "resolved" -> ResolvedEvent(s, x.about)
  /\ UNCHANGED <<server, faults, scene>>

\* resolve_pending_approval: the recipient decides.
Decide(s, a) ==
  /\ Idle(s) /\ ses[s].pend[a] = "waiting"
  /\ IF Claims(db, a, ses[s].epoch, FALSE)
     THEN db' = Claim(db, a) /\ Update(s, [ses[s] EXCEPT !.cmd = a, !.phase = "decide"])
     ELSE UNCHANGED <<db, ses>>
  /\ UNCHANGED <<server, faults, scene>>

\* settle_expired_approvals: an answer that is not confirmed in time, or a
\* request that nobody has decided.
Expire(s, a) ==
  /\ Idle(s)
  /\ \/ /\ ses[s].pend[a] = "responded" /\ Fault
        /\ db' = MarkUnavailable(IF Moves(db, a, ses[s].epoch, "uncertain")
                                 THEN Move(db, a, ses[s].epoch, "uncertain") ELSE db,
                                 ses[s].epoch)
        /\ Update(s, Retire(s))
     \/ /\ ses[s].pend[a] = "waiting"
        /\ \A b \in Asks : ses[s].pend[b] # "responded"
        /\ Update(s, [ses[s] EXCEPT !.pend[a] = "none", !.cmd = a, !.phase = "late"])
        /\ UNCHANGED <<db, faults>>
  /\ UNCHANGED <<server, scene>>

Answering(s, phase) == ses[s].pc = "live" /\ ses[s].cmd \in Asks /\ ses[s].phase = phase

\* deny_one_approval takes the claim first.  A timeout of a second or more is
\* also the deadline of the claim, and then it is too late: the request is
\* dropped, which ends its connection.
DenyClaim(s) ==
  LET a == ses[s].cmd
      late == ses[s].phase = "late" /\ ~scene.brief
  IN
  /\ Answering(s, "deny") \/ Answering(s, "late")
  /\ IF Claims(db, a, ses[s].epoch, late)
     THEN db' = Claim(db, a) /\ Goto(s, "denying")
     ELSE Fail(s)
  /\ UNCHANGED <<server, faults, scene>>

\* The claim says "responding" before the answer leaves.  A stale claim is not looked
\* at; a store error, which would end the command without an answer, is left out.
MarkResponding(s, a) ==
  IF Moves(db, a, ses[s].epoch, "responding") THEN Move(db, a, ses[s].epoch, "responding") ELSE db

Respond(s) ==
  /\ Answering(s, "decide") \/ Answering(s, "denying")
  /\ db' = MarkResponding(s, ses[s].cmd)
  /\ Goto(s, IF ses[s].phase = "decide" THEN "answer" ELSE "denial")
  /\ UNCHANGED <<server, faults, scene>>

\* The endpoint takes the first answer and says that the request is over.  The row of
\* a denial, which is written next, is part of the step: a session that ends between
\* the two leaves the row as one that ends before it.
SendAnswer(s) ==
  LET a == ses[s].cmd
      e == ses[s].epoch
      denied == ses[s].phase = "denial"
      after == [ses[s] EXCEPT !.cmd = NoIntent, !.phase = "none",
                  !.pend[a] = IF denied THEN "none" ELSE "responded"]
  IN
  /\ Answering(s, "answer") \/ Answering(s, "denial")
  /\ answers' = [answers EXCEPT ![a] = @ + 1]
  /\ ask' = [ask EXCEPT ![a] = "closed"]
  /\ db' = IF denied /\ Moves(db, a, e, "denied") THEN Move(db, a, e, "denied") ELSE db
  /\ ses' = [r \in Sessions |->
        LET q == IF r = s THEN after ELSE ses[r] IN
        IF Connected(r) /\ ThreadOf[a] \in q.subs /\ ask[a] = "open"
        THEN [q EXCEPT !.evq = Append(@, [kind |-> "resolved", about |-> a, status |-> "none"])]
        ELSE q]
  /\ UNCHANGED <<turn, queue, wire, effects, faults, scene>>

AnswerFails(s) ==
  LET a == ses[s].cmd
      e == ses[s].epoch
  IN
  /\ Answering(s, "answer") \/ Answering(s, "denial")
  /\ Fault
  /\ db' = MarkUnavailable(IF Moves(db, a, e, "uncertain") THEN Move(db, a, e, "uncertain") ELSE db, e)
  /\ Update(s, Retire(s))
  /\ UNCHANGED <<server, scene>>

\* Shutdown, and reassign_approval_actor when nothing is under way.
StopWriter(s) ==
  /\ s \in Writers /\ Idle(s) /\ scene.stops
  /\ db' = SetEndpoint(MarkUnavailable(db, ses[s].epoch), ses[s].epoch, "stopped")
  /\ Update(s, Session("off", ses[s].epoch))
  /\ UNCHANGED <<server, faults, scene>>

Reassign(s) ==
  /\ s \in Writers /\ Idle(s) /\ scene.stops
  /\ Waiting(s) = {} /\ Drained(db) /\ db.endpoint.epoch = ses[s].epoch
  /\ db' = SetEndpoint(MarkUnavailable(db, ses[s].epoch), ses[s].epoch, "stopped")
  /\ Update(s, Session("off", ses[s].epoch))
  /\ UNCHANGED <<server, faults, scene>>

\* A dropped handle aborts its actor wherever it waits, and so does a crash.
Drop(s) ==
  /\ ses[s].pc \notin {"off", "stopped"}
  /\ Fault
  /\ Update(s, Session("off", ses[s].epoch))
  /\ UNCHANGED <<db, server, scene>>

-----------------------------------------------------------------------------
(* The endpoint. *)

\* Somebody else's turn.
TurnBegins(u) ==
  /\ u \in scene.others /\ turn[u] = "none"
  /\ InProgress(ThreadOf[u]) = {}
  /\ turn' = [turn EXCEPT ![u] = "active"]
  /\ UNCHANGED <<db, ses, queue, wire, effects, ask, answers, faults, scene>>

TurnEnds(u) ==
  /\ turn[u] = "active"
  /\ \A a \in Asks : AskTurn[a] = u => ask[a] # "open"
  /\ \E end \in Ends : turn' = [turn EXCEPT ![u] = end]
  /\ Emit("turn", u)
  /\ UNCHANGED <<db, queue, wire, effects, ask, answers, faults, scene>>

\* A turn is reported a second time, another way.
Misreport(u) ==
  /\ scene.misreports
  /\ turn[u] = "completed"
  /\ turn' = [turn EXCEPT ![u] = "failed"]
  /\ Emit("turn", u)
  /\ Fault
  /\ UNCHANGED <<db, queue, wire, effects, ask, answers, scene>>

AskOpens(a) ==
  /\ a \in scene.asks /\ ask[a] = "none"
  /\ turn[AskTurn[a]] = "active"
  /\ ask' = [ask EXCEPT ![a] = "open"]
  /\ Emit("ask", a)
  /\ UNCHANGED <<db, turn, queue, wire, effects, answers, faults, scene>>

\* A request that is still open is put to a connection that came later.
AskAgain(s, a) ==
  /\ ask[a] = "open" /\ Idle(s) /\ ThreadOf[a] \in ses[s].subs
  /\ db.claim[a].epoch # ses[s].epoch
  /\ ses[s].evq = <<>>
  /\ Update(s, [ses[s] EXCEPT !.evq = <<[kind |-> "ask", about |-> a, status |-> "none"]>>])
  /\ UNCHANGED <<db, server, faults, scene>>

\* What the endpoint accepts.
Accepts(i) ==
  LET t == ThreadOf[i] IN
  CASE KindOf[i] = "start" -> InProgress(t) = {}
    [] KindOf[i] = "pop" -> InProgress(t) = {} /\ Target[i] \in queue
    [] KindOf[i] = "add" -> TRUE
    [] OTHER -> turn[Target[i]] = "active"

Reply(m, to) ==
  [ses EXCEPT ![m[1]] = IF ses[m[1]].epoch = m[2] /\ ses[m[1]].cmd = m[3]
                        THEN [@ EXCEPT !.reply = to] ELSE @]

Handle(m) ==
  LET i == m[3] IN
  /\ m \in wire /\ wire' = wire \ {m}
  /\ KindOf[i] # "interrupt" /\ Accepts(i)
  /\ effects' = [effects EXCEPT ![i] = @ + 1]
  /\ turn' = IF KindOf[i] \in {"start", "pop"} THEN [turn EXCEPT ![i] = "active"] ELSE turn
  /\ queue' = CASE KindOf[i] = "add" -> queue \union {i}
                [] KindOf[i] = "pop" -> queue \ {Target[i]}
                [] OTHER -> queue
  /\ ses' = Reply(m, "done")
  /\ UNCHANGED <<db, ask, answers, faults, scene>>

\* An interrupted turn has ended when the answer is sent.
HandleInterrupt(m) ==
  /\ m \in wire /\ wire' = wire \ {m}
  /\ KindOf[m[3]] = "interrupt" /\ Accepts(m[3])
  /\ effects' = [effects EXCEPT ![m[3]] = @ + 1]
  /\ turn' = [turn EXCEPT ![Target[m[3]]] = "failed"]
  /\ ses' = [s \in Sessions |->
        LET q == Reply(m, "done")[s] IN
        IF Connected(s) /\ ThreadOf[m[3]] \in q.subs
        THEN [q EXCEPT !.evq = Append(@, [kind |-> "turn", about |-> Target[m[3]],
                                          status |-> "failed"])] ELSE q]
  /\ UNCHANGED <<db, queue, ask, answers, faults, scene>>

Refuse(m) ==
  /\ m \in wire /\ wire' = wire \ {m}
  /\ ~Accepts(m[3])
  /\ ses' = Reply(m, "refused")
  /\ UNCHANGED <<db, turn, queue, effects, ask, answers, faults, scene>>

\* A connection that is gone may have taken its last request with it.
Lose(m) ==
  /\ m \in wire /\ wire' = wire \ {m}
  /\ ses[m[1]].epoch # m[2] \/ ~Connected(m[1])
  /\ UNCHANGED <<db, ses, turn, queue, effects, ask, answers, faults, scene>>

-----------------------------------------------------------------------------
Init ==
  /\ \E c \in Scenes : scene = c /\ db = Tables(c.managed)
  /\ ses = [s \in Sessions |-> Session("off", 0)]
  /\ turn = NoTurns
  /\ queue = {}
  /\ wire = {}
  /\ effects = [i \in Intents |-> 0]
  /\ ask = [a \in Asks |-> "none"]
  /\ answers = [a \in Asks |-> 0]
  /\ faults = 0

\* What a session does by itself.
Reconciles(s) ==
  \/ Reserve(s) \/ Connect(s) \/ BeginThread(s) \/ Resume(s) \/ ReadThread(s) \/ ListTurns(s)
  \/ FinishThread(s) \/ RouteEvent(s) \/ Reconciled(s)
Reads(s) == LiveEvent(s) \/ BackoffEnds(s) \/ Wake(s)
Mutates(s) ==
  \/ CheckOwner(s) \/ Acquire(s) \/ Preflight(s) \/ Send(s) \/ Request(s) \/ Answer(s) \/ Confirm(s)
Approves(s) == WriterEvent(s) \/ DenyClaim(s) \/ Respond(s) \/ SendAnswer(s)

\* What is asked of it, and what goes wrong.
Commands(s) ==
  \/ \E t \in Threads : ManageThread(s, t)
  \/ \E i \in Intents : Submit(s, i)
  \/ \E a \in Asks : Decide(s, a) \/ Expire(s, a)
  \/ Reconnect(s) \/ StopReader(s) \/ StopWriter(s) \/ Reassign(s)
Fails(s) ==
  \/ ConnectFails(s) \/ RequestFails(s) \/ AnswerUnusable(s) \/ Closed(s) \/ Drop(s)
  \/ ReadRefused(s) \/ ReadFails(s) \/ NoAnswer(s) \/ Unconfirmed(s) \/ AnswerFails(s)

Endpoint ==
  \/ \E u \in Turns : TurnBegins(u) \/ TurnEnds(u) \/ Misreport(u)
  \/ \E a \in Asks : AskOpens(a) \/ \E s \in Sessions : AskAgain(s, a)
  \/ \E m \in wire : Handle(m) \/ HandleInterrupt(m) \/ Refuse(m) \/ Lose(m)

Next ==
  \/ \E s \in Sessions : \/ Reconciles(s) \/ Reads(s) \/ Mutates(s) \/ Approves(s)
                         \/ Commands(s) \/ Fails(s)
  \/ Endpoint

\* Tasks that can run do run, and a coordinator that is dropped is made again.
Spec ==
  /\ Init /\ [][Next]_vars
  /\ \A s \in Sessions \ Writers : WF_vars(Reconciles(s) \/ Reads(s))

-----------------------------------------------------------------------------
(* Properties. *)

\* A mutation takes effect at most once, however often and by whichever session
\* it is submitted, and what the table says of it is so: one that is "rejected"
\* has not happened and will not, one that is "applied" has happened.
VerdictTrue ==
  \A i \in Intents :
    /\ effects[i] <= 1
    /\ db.intent[i].state = "rejected" => effects[i] = 0 /\ \A m \in wire : m[3] # i
    /\ db.intent[i].state = "applied" => effects[i] = 1

\* While a mutation may still take effect nobody else can take the fence of its
\* thread, in this epoch or in a later one.
MaybeIsFenced ==
  \A m \in wire :
    LET f == db.fence[ThreadOf[m[3]]] IN
    f.state = "uncertain" \/ (f.state = "active" /\ f.active = m[3])

\* The bridge steers, interrupts, extends or starts from the queue only what the
\* same Lark actor made, though the turn was checked before the fence was taken.
OwnTarget ==
  \A i \in Intents :
    effects[i] > 0 /\ KindOf[i] # "start" =>
      \E j \in Intents : /\ db.intent[j].state = "applied" /\ db.intent[j].result = Target[i]
                         /\ SourceOf[j] = SourceOf[i]

\* A thread that is said to be ready in the current epoch of a live session
\* misses no turn that has ended: it is recorded, or the session has yet to take
\* the event.  The turns of a page read before they ended come by mailbox.
ReadyIsComplete ==
  \A s \in Sessions, u \in Turns :
    LET t == ThreadOf[u] IN
    /\ ses[s].pc = "live" /\ ses[s].epoch = db.endpoint.epoch
    /\ db.endpoint.state = "ready" /\ db.thread[t] = [epoch |-> ses[s].epoch, state |-> "ready"]
    /\ turn[u] \in Ends
    => \/ db.term[u] = turn[u]
       \/ \E k \in 1..Len(ses[s].evq) : ses[s].evq[k].about = u

\* An approval request is answered at most once, by a denial or a decision, of
\* one session or of two that both received it; and no answer leaves before the
\* claim shows it, so that a crash after it cannot take it for undecided.
AnsweredOnce ==
  \A a \in Asks :
    /\ answers[a] <= 1
    /\ answers[a] > 0 => db.claim[a].state \in {"responding", "denied", "resolved", "uncertain"}

\* What was recorded of a turn is never recorded otherwise, and a fence that is
\* uncertain is never opened again by reconnecting.
KnowledgeStays ==
  [][/\ \A u \in Turns : db.term[u] # "none" => db'.term[u] = db.term[u]
     /\ \A t \in Threads : db.fence[t].state = "uncertain" => db'.fence[t].state = "uncertain"]_vars

\* A reader that is left alone brings every managed thread to "ready" with all
\* its ended turns, or to "uncertain", whatever failed before, threads added
\* while it reconciled included.
ThreadsSettle ==
  (scene.sessions \cap Writers = {} /\ ~scene.stops) ~>
    [](\A t \in Managed(db) :
         \/ db.thread[t].state = "uncertain"
         \/ /\ db.thread[t] = [epoch |-> db.endpoint.epoch, state |-> "ready"]
            /\ db.endpoint.state = "ready")
=============================================================================
