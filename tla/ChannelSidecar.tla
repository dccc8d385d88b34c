--------------------------- MODULE ChannelSidecar ---------------------------
(***************************************************************************)
(* The official-SDK sidecar: the Node process of sidecar/index.cjs and the *)
(* supervisor of channel/sidecar.rs that starts it, speaks its protocol    *)
(* over two pipes, runs the durable handler for its events, and cleans up  *)
(* and starts it again when anything goes wrong.                           *)
(***************************************************************************)
EXTENDS Intake, FiniteSetsExt

CONSTANT OutCap    \* HARD_MAX_OUTBOUND_QUEUE

ASSUME SidecarBounds == OutCap \in Nat \ {0}

VARIABLES bounds,    \* NodeSidecarConfig: the capacities, event and write
          node,      \* the process: "none", "boot", "starting", "up", "leaving", "eof", "dead"
          sdk,       \* the SDK has a connection
          pending,   \* Node's waiters: correlation ids and their messages
          abandoned, \* ids whose waiter timed out, in this process
          up,        \* Node's outbound queue and the pipe to Rust
          chain,     \* the pipe to Node and the frames it has read but not handled
          sup,       \* the supervisor and its session
          why,       \* why it cleans up
          first,     \* the bridge still waits for the first connection
          writes,    \* the bounded queue of the stdin writer
          evq,       \* the bounded queue of the event worker
          ids,       \* ActiveEventIds
          worker,    \* the event worker runs
          stop       \* the shutdown token

procVars == <<node, sdk, pending, abandoned, up, chain>>
sessVars == <<sup, why, first, writes, evq, ids, worker, stop, bounds>>
sideVars == <<procVars, sessVars>>

\* event_capacity bounds Node's waiters, the event queue and the handlers that run;
\* write_capacity the frames on their way to Node's stdin.
EventCap == bounds.event
WriteCap == bounds.write

\* NodeSidecarConfig::validate.
Valid(b) == b.event > 0 /\ b.write > 0

Frame(t, id, v) == [t |-> t, id |-> id, v |-> v]
State(s) == Frame("state", 0, s)
NoIds == [i \in Slots |-> None]
Pending == {i \in Slots : pending[i] # None}

\* An id nothing refers to any more stands for the next one of nextId.
Free == {i \in Slots : i \notin Pending \cup ids \cup abandoned /\ At(i, "idle")
                       /\ \A k \in 1..Len(up) : up[k].id # i}

(***************************************************************************)
(* Node.                                                                   *)
(***************************************************************************)

NodeRuns == node \in {"starting", "up", "leaving"}
Fits(n) == Len(up) + n <= OutCap

\* sendState, before a response was queued or with a full queue, sends nothing.
Says(s) == up' = IF node = "up" /\ Fits(1) THEN Append(up, State(s)) ELSE up

Platform == told' = told /\ UNCHANGED <<kind, row, inq, held, missed, jobs, calls, bridge>>

\* forwardEvent: the platform offers a message it has no success for; beyond its
\* bounds Node refuses it at once.
Offer(m) ==
  /\ node \in {"starting", "up"} /\ sdk /\ m \notin told
  /\ Cardinality(Pending) < EventCap /\ Fits(1) /\ Free # {}
  /\ LET i == Min(Free) IN
       /\ pending' = [pending EXCEPT ![i] = m]
       /\ up' = Append(up, Frame("event", i, m))
  /\ UNCHANGED <<intakeVars, node, sdk, abandoned, chain, sessVars>>

\* The timer of a waiter: handler_timeout and a grace after the event was sent.
AckTimeout ==
  /\ NodeRuns /\ Fault
  /\ \E i \in Pending :
       /\ pending' = [pending EXCEPT ![i] = None]
       /\ abandoned' = abandoned \cup {i}
  /\ Platform /\ UNCHANGED <<node, sdk, up, chain, sessVars>>

\* handleAck: a success resolves the dispatcher's promise, so that the SDK sends
\* its receipt if it still has the connection; an unknown id ends the process.
HandleAck(f) ==
  IF pending[f.id] = None
    THEN /\ node' = "dead"
         /\ UNCHANGED <<pending, told>>
    ELSE /\ pending' = [pending EXCEPT ![f.id] = None]
         /\ told' = IF f.v = "ok" /\ sdk THEN told \cup {pending[f.id]} ELSE told
         /\ UNCHANGED node

\* handleFrame, one frame after the other: while configure waits for the SDK no
\* other frame is handled.
NodeHandles ==
  /\ chain # <<>>
  /\ chain' = Tail(chain)
  /\ LET f == Head(chain) IN
     \/ /\ node = "boot" /\ f.t = "configure"
        /\ node' = "starting"
        /\ UNCHANGED <<pending, up, told>>
     \/ /\ node \in {"up", "leaving", "eof"} /\ f.t = "ack"
        /\ HandleAck(f)
        /\ UNCHANGED up
     \/ /\ node \in {"up", "leaving"} /\ f.t = "shutdown"
        /\ node' = "leaving"
        /\ pending' = NoIds
        /\ up' = up \o (IF Fits(1) THEN <<Frame("response", 0, "shutdown")>> ELSE <<>>)
                    \o (IF Fits(2) THEN <<State("stopped")>> ELSE <<>>)
        /\ UNCHANGED told
  /\ UNCHANGED <<sdk, abandoned, sessVars, kind, row, inq, held, missed, jobs, calls, bridge, faults>>

\* configure: the SDK took the dispatcher; the response goes out, then the state.
Configured ==
  /\ node = "starting"
  /\ IF Fits(1)
       THEN /\ node' = "up"
            /\ up' = up \o <<Frame("response", 0, "configure")>>
                        \o (IF Fits(2) THEN <<State(IF sdk THEN "connected" ELSE "connecting")>>
                                       ELSE <<>>)
       ELSE node' = "dead" /\ UNCHANGED up
  /\ UNCHANGED <<intakeVars, sdk, pending, abandoned, chain, sessVars>>

\* onReady and onReconnected; onReconnecting.
Connects ==
  /\ node \in {"starting", "up"} /\ ~ sdk
  /\ sdk' = TRUE /\ Says("connected")
  /\ UNCHANGED <<intakeVars, node, pending, abandoned, chain, sessVars>>

Disconnects ==
  /\ node \in {"starting", "up"} /\ sdk /\ Fault
  /\ sdk' = FALSE /\ Says("connecting")
  /\ Platform /\ UNCHANGED <<node, pending, abandoned, chain, sessVars>>

\* onError: the SDK gives up, for good when the platform rejected the application.
GivesUp ==
  /\ node \in {"starting", "up"} /\ Fault
  /\ \E s \in {"failed", "fatal"} : Says(s)
  /\ node' = "leaving" /\ sdk' = FALSE
  /\ Platform /\ UNCHANGED <<pending, abandoned, chain, sessVars>>

\* A process that outlives its bridge is reaped by init, however it ends.
Orphan == node = "eof" \/ (node = "dead" /\ sup = "ended")

\* process.exit after the flush, at the end of stdin, or in a crash.
NodeExits ==
  /\ \/ node = "leaving" /\ Calm
     \/ Orphan /\ Calm
     \/ node \in {"boot", "starting", "up"} /\ Fault
  /\ node' = (IF Orphan THEN "none" ELSE "dead")
  /\ sdk' = FALSE
  /\ IF Orphan THEN pending' = NoIds /\ abandoned' = {} /\ chain' = <<>>
     ELSE UNCHANGED <<pending, abandoned, chain>>
  /\ Platform /\ UNCHANGED <<up, sessVars>>

(***************************************************************************)
(* The event worker and the stdin writer.                                  *)
(***************************************************************************)

Tasks == sup \notin {"spawn", "backoff", "ended"}

\* process_event starts.
WorkerTakes ==
  /\ worker /\ evq # <<>>
  /\ Cardinality({i \in Slots : ~ At(i, "idle")}) < EventCap
  /\ Become(Head(evq).id, Begun(Head(evq).msg))
  /\ evq' = Tail(evq)
  /\ UNCHANGED <<kind, row, inq, held, missed, jobs, told, bridge, faults, procVars,
                 sup, why, first, writes, ids, worker, stop, bounds>>

\* A completion becomes an acknowledgement; without room for it the worker ends,
\* and what it had queued or in hand is dropped.
WorkerAnswers(i) ==
  /\ worker /\ calls[i].at \in {"ok", "failed"}
  /\ IF Len(writes) < WriteCap
       THEN /\ writes' = Append(writes, Frame("ack", i, calls[i].at))
            /\ ids' = ids \ {i}
            /\ Become(i, NoCall)
            /\ UNCHANGED <<evq, worker, jobs>>
       ELSE /\ ids' = {} /\ worker' = FALSE /\ evq' = <<>>
            /\ jobs' = Left(Slots) /\ calls' = Dropped(Slots)
            /\ UNCHANGED writes
  /\ UNCHANGED <<kind, row, inq, held, missed, told, bridge, faults, procVars, sup, why, first, stop, bounds>>

\* write_loop.
WriterSends ==
  /\ writes # <<>> /\ node \in {"boot", "starting", "up", "leaving"}
  /\ chain' = Append(chain, Head(writes))
  /\ writes' = Tail(writes)
  /\ UNCHANGED <<intakeVars, node, sdk, pending, abandoned, up, sup, why, first, evq, ids,
                 worker, stop, bounds>>

(***************************************************************************)
(* The session and its supervisor.                                         *)
(***************************************************************************)

Booting == sup \in {"hello", "configure", "await"}

\* A steady session looks at the shutdown token before anything else.
Listening == sup \in {"configure", "await"} \/ (sup = "run" /\ ~ stop)

\* cleanup_failed_bootstrap: the tasks are aborted, then the tree is ended.
BootFails(w) ==
  /\ sup' = "cleanup" /\ why' = w
  /\ writes' = <<>> /\ evq' = <<>> /\ ids' = {} /\ worker' = FALSE
  /\ jobs' = Left(Slots) /\ calls' = Dropped(Slots)

\* crashed and terminal: the tree is ended while the tasks still run.
Leaves(w) ==
  /\ sup' = "cleanup" /\ why' = w
  /\ UNCHANGED <<writes, evq, ids, worker, jobs, calls>>

Breaks == IF sup = "run" THEN Leaves("crash") ELSE BootFails("start")
Stays == UNCHANGED <<sup, why, writes, evq, ids, worker, jobs, calls>>

\* The next line of stdout.
Reads(f) ==
  /\ up # <<>> /\ f = Head(up)
  /\ up' = Tail(up)
  /\ UNCHANGED <<kind, row, inq, held, missed, told, bridge, faults,
                 node, sdk, pending, abandoned, chain, stop, bounds>>

ReadHello ==
  /\ sup = "hello" /\ Reads(Frame("hello", 0, None))
  /\ sup' = "configure"
  /\ writes' = Append(writes, Frame("configure", 0, None))
  /\ UNCHANGED <<why, first, evq, ids, worker, jobs, calls>>

ReadResponse ==
  /\ sup = "configure" /\ Reads(Frame("response", 0, "configure"))
  /\ sup' = "await"
  /\ UNCHANGED <<why, first, writes, evq, ids, worker, jobs, calls>>

\* handle_line of an event: queued, refused with a negative acknowledgement (the
\* queue is full, or its worker has ended), or the end of the session.
Admits == worker /\ Len(evq) < EventCap
\* Mutant: a full queue is answered, yet the event waits for a place in it.
EventInTwice(f) ==
  IF f.id \in ids \/ (~ Admits /\ Len(writes) = WriteCap)
    THEN Breaks
    ELSE /\ evq' = Append(evq, [id |-> f.id, msg |-> f.v])
         /\ ids' = ids \cup {f.id}
         /\ writes' = IF Admits THEN writes ELSE Append(writes, Frame("ack", f.id, "failed"))
         /\ UNCHANGED <<sup, why, worker, jobs, calls>>

EventIn(f) ==
  IF f.id \in ids \/ (~ Admits /\ Len(writes) = WriteCap)
    THEN Breaks
    ELSE /\ IF Admits
              THEN /\ evq' = Append(evq, [id |-> f.id, msg |-> f.v])
                   /\ ids' = ids \cup {f.id}
                   /\ UNCHANGED writes
              ELSE /\ writes' = Append(writes, Frame("ack", f.id, "failed"))
                   /\ UNCHANGED <<evq, ids>>
         /\ UNCHANGED <<sup, why, worker, jobs, calls>>

ReadEvent ==
  /\ Listening /\ up # <<>> /\ Head(up).t = "event"
  /\ Reads(Head(up)) /\ EventIn(Head(up))
  /\ UNCHANGED first

\* StateFrame::publish and what the phase makes of its effect.
ReadState ==
  /\ Listening /\ up # <<>> /\ Head(up).t = "state"
  /\ Reads(Head(up))
  /\ LET s == Head(up).v IN
     \/ /\ s = "connected" /\ sup = "await"
        /\ sup' = "run" /\ first' = FALSE
        /\ UNCHANGED <<why, writes, evq, ids, worker, jobs, calls>>
     \/ /\ s = "connecting" \/ (s = "connected" /\ sup # "await")
        /\ Stays /\ UNCHANGED first
     \/ /\ s \in {"failed", "stopped"}
        /\ Breaks /\ UNCHANGED first
     \/ /\ s = "fatal" /\ UNCHANGED first
        /\ CASE sup = "run"       -> Leaves("fatal")
             [] sup = "await"     -> BootFails("auth")
             [] sup = "configure" -> BootFails("start")

\* stdout has ended, or the leader is seen to have exited; run asks for that
\* before it reads another line.
SeesExit ==
  /\ node = "dead" /\ (sup = "hello" \/ Listening)
  /\ up = <<>> \/ sup \in {"await", "run"}
  /\ Breaks
  /\ UNCHANGED <<kind, row, inq, held, missed, told, bridge, faults, procVars, first, stop, bounds>>

\* The deadlines of hello, configuration and first connection: a fault, except that
\* the last one passes for certain when the state it waits for was never queued.
Unannounced ==
  sup = "await" /\ node = "up" /\ sdk /\ \A k \in 1..Len(up) : up[k] # State("connected")
BootTimeout ==
  /\ \/ Booting /\ Fault
     \/ Unannounced /\ Calm
  /\ BootFails("start")
  /\ UNCHANGED <<kind, row, inq, held, missed, told, bridge, procVars, first, stop, bounds>>

\* graceful_shutdown.
BeginStop ==
  /\ sup = "run" /\ stop
  /\ IF Len(writes) < WriteCap
       THEN /\ writes' = Append(writes, Frame("shutdown", 0, None))
            /\ sup' = "stopping" /\ UNCHANGED why
       ELSE sup' = "cleanup" /\ why' = "shutdown" /\ UNCHANGED writes
  /\ UNCHANGED <<intakeVars, procVars, first, evq, ids, worker, stop, bounds>>

ReadStopping ==
  /\ sup = "stopping" /\ up # <<>>
  /\ Reads(Head(up))
  /\ LET f == Head(up) IN
     \/ /\ f.t = "event"
        /\ writes' = IF Len(writes) < WriteCap
                       THEN Append(writes, Frame("ack", f.id, "failed")) ELSE writes
        /\ UNCHANGED <<sup, why>>
     \/ /\ f.t = "response"
        /\ sup' = "cleanup" /\ why' = "shutdown" /\ UNCHANGED writes
     \/ /\ f.t = "state"
        /\ UNCHANGED <<sup, why, writes>>
  /\ UNCHANGED <<first, evq, ids, worker, jobs, calls>>

\* stdout has ended, or the grace is over.
StopEnds ==
  /\ sup = "stopping"
  /\ \/ node = "dead" /\ up = <<>> /\ Calm
     \/ Fault
  /\ Leaves("shutdown")
  /\ UNCHANGED <<kind, row, inq, held, missed, told, bridge, procVars, first, stop, bounds>>

\* What the supervisor had of a session is gone.
Freed ==
  /\ up' = <<>> /\ writes' = <<>> /\ evq' = <<>> /\ ids' = {} /\ worker' = FALSE
  /\ jobs' = Left(Slots) /\ calls' = Dropped(Slots)

\* The process is gone.
Reaped ==
  /\ node' = "none" /\ sdk' = FALSE /\ pending' = NoIds /\ abandoned' = {}
  /\ chain' = <<>>

\* The process is left to itself: it sees its stdin end, after what it was sent.
Orphaned ==
  IF node \in {"up", "leaving"}
    THEN node' = "eof" /\ UNCHANGED <<sdk, pending, abandoned, chain>>
    ELSE Reaped

\* terminate_and_reap, and what supervise does next.  When the end of the tree is not
\* confirmed, the process may still run, and no other is ever started.
AfterCleanup ==
  IF why = "crash" \/ (why = "start" /\ ~ first) THEN "backoff" ELSE "ended"
Cleanup ==
  /\ sup = "cleanup"
  /\ \/ sup' = AfterCleanup /\ Calm /\ Reaped
     \/ sup' = "ended" /\ Fault /\ Orphaned
  /\ Freed
  /\ UNCHANGED <<kind, row, inq, held, missed, told, bridge, why, first, stop, bounds>>

\* ChildSession::start: Node starts and says hello, or cannot be spawned; if it is
\* spawned and cannot be identified, nothing is ever started again.
Spawn ==
  /\ sup = "spawn"
  /\ \/ /\ ~ stop /\ Calm
        /\ sup' = "hello" /\ node' = "boot" /\ worker' = TRUE
        /\ up' = <<Frame("hello", 0, None)>>
     \/ /\ ~ stop /\ Fault
        /\ sup' \in {"ended", IF first THEN "ended" ELSE "backoff"}
        /\ UNCHANGED <<node, worker, up>>
     \/ /\ stop /\ Calm
        /\ sup' = "ended"
        /\ UNCHANGED <<node, worker, up>>
  /\ UNCHANGED <<kind, row, inq, held, missed, jobs, calls, told, bridge, sdk, pending,
                 abandoned, chain, why, first, writes, evq, ids, stop, bounds>>

Backoff ==
  /\ sup = "backoff"
  /\ sup' = IF stop THEN "ended" ELSE "spawn"
  /\ UNCHANGED <<intakeVars, procVars, why, first, writes, evq, ids, worker, stop, bounds>>

\* NodeSidecarHandle::shutdown: a supervisor that does not end within the join bound
\* is aborted, and its process killed as it is dropped, if that is still its own.
Abort ==
  /\ stop /\ (Booting \/ sup = "cleanup") /\ Fault
  /\ sup' = "ended"
  /\ Reaped \/ Orphaned
  /\ Freed
  /\ UNCHANGED <<kind, row, inq, held, missed, told, bridge, why, first, stop, bounds>>

NodeStep == NodeHandles \/ Configured \/ Connects
NodeFault == AckTimeout \/ Disconnects \/ GivesUp
WorkerStep == WorkerTakes \/ (\E i \in Slots : WorkerAnswers(i))
SessionStep ==
  \/ ReadHello \/ ReadResponse \/ ReadEvent \/ ReadState \/ SeesExit
  \/ BeginStop \/ ReadStopping \/ StopEnds \/ Cleanup \/ Spawn \/ Backoff

SideInit(s, b) ==
  /\ Valid(b) /\ bounds = b
  /\ node = "none" /\ sdk = FALSE /\ pending = NoIds /\ abandoned = {}
  /\ up = <<>> /\ chain = <<>>
  /\ sup = s /\ why = "none" /\ first = TRUE
  /\ writes = <<>> /\ evq = <<>> /\ ids = {} /\ worker = FALSE /\ stop = FALSE

(***************************************************************************)
(* Properties.                                                             *)
(***************************************************************************)

\* While the process serves, every acknowledgement on its way answers one event,
\* once, that Node waits for or has given up on, so that only an event that took
\* longer than handler_timeout and the grace can end the session by a late answer;
\* and the write queue never runs out of room for an answer, which would end the
\* worker, unless Node has given up on an event.
AcksMatch ==
  LET way == writes \o chain
      acks == {k \in 1..Len(way) : way[k].t = "ack"}
  IN  node \in {"starting", "up"} /\ sup \in {"configure", "await", "run"} =>
        /\ \A k \in acks :
             /\ way[k].id \in Pending \cup abandoned
             /\ \A l \in acks : way[l].id = way[k].id => l = k
        /\ worker \/ abandoned # {}
=============================================================================
