-------------------------------- MODULE Rpc --------------------------------
(***************************************************************************)
(* One epoch's connection to a Codex app-server: the RPC actor with its    *)
(* pending map, its sender pumps and its event channels (codex/rpc.rs) on  *)
(* top of the stream transport (codex/transport.rs), and the app-server at *)
(* the other end.  A request is named by the caller that makes it, a turn  *)
(* by the caller that starts it.                                           *)
(***************************************************************************)
EXTENDS Integers, Sequences, FiniteSets, SequencesExt

CONSTANTS Callers,      \* the calls made on this connection
          Scenarios,    \* what the environment may do, see Scenario
          Threads,      \* the threads they are about
          Asks,         \* requests the app-server makes of the bridge
          Inflight,     \* RPC_INFLIGHT_CAPACITY
          EventCap,     \* EVENT_CAPACITY
          ReliableCap,  \* RPC_RELIABLE_EVENT_CAPACITY
          AskCap,       \* RPC_SERVER_REQUEST_CAPACITY
          PipeCap,      \* bound on the messages between the two processes
          FailClosed    \* RpcProtocolPolicy::is_fail_closed_external

Methods == {"turn/start", "thread/resume", "turn/interrupt", "release", "none"}

\* What each call is, which requests the server may make, and the bounds on its
\* reports and on timeouts, repetitions, malformed lines and deaths.
Scenario == [calls : [Callers -> [method : Methods, thread : Threads]],
             asks : SUBSET Asks, reports : Nat, faults : Nat]

ASSUME RpcAssumption ==
  /\ Scenarios \subseteq Scenario
  /\ {Inflight, EventCap, ReliableCap, AskCap, PipeCap} \subseteq Nat \ {0}
  /\ FailClosed \in BOOLEAN

VARIABLES
  scene,      \* the scenario
  call,       \* where every call stands, see Stages
  conn,       \* "open", or "lost": run_actor has left its loop
  cancelled,  \* the cancellation token of the connection
  rpcq,       \* the command channels high_rx and normal_rx
  pending,    \* the pending map: requests that wait for an answer
  reply,      \* the oneshot channel of every request
  out,        \* frames on their way to the app-server
  inbox,      \* messages on their way to the actor
  held,       \* the event emit_reliable_event waits to place, if any
  events,     \* events placed in the channels, in sequence order
  serverPending,  \* server_pending: requests of the server not answered yet
  lease,      \* ServerRequestLease of every request of the server
  server,     \* the app-server: "up", or "dead"
  turn,       \* the app-server's side of every call
  owed,       \* calls the app-server has not answered yet
  asked,      \* requests the server has made, with the answers it got
  reports,    \* reports so far
  sent,       \* what must not get lost of every thread, as the server sent it
  faults      \* faults so far

plan == scene.calls

rpcVars == <<conn, cancelled, rpcq, pending, reply, out, inbox, held, events,
             serverPending, lease>>
serverVars == <<server, turn, owed, asked, reports, sent>>

\* The calls whose repetition would do something twice.
NonIdempotent == {"turn/start", "thread/resume"}

Stages == {"idle", "ensuring", "beginning", "calling", "observing", "releasing"}
Verdicts == {"ok", "notApplied", "uncertain", "untracked", "failed"}

None == [k |-> "none"]
Note(k, c, v) == [k |-> k, c |-> c, t |-> plan[c].thread, v |-> v]
Response(c, ok) == [k |-> IF ok THEN "result" ELSE "error", c |-> c]
AskMessage(q) == [k |-> "ask", q |-> q]
Drift == [k |-> "drift"]
Junk == [k |-> "junk"]
Eof == [k |-> "eof"]

\* What the app-server reports of a turn that must not get lost.
Authoritative(e) == e.k \in {"item", "completed", "ask"}
IsNote(e) == e.k \in {"started", "delta", "usage", "item", "completed"}
Lossy(e) == ~Authoritative(e)

-----------------------------------------------------------------------------
(* The actor. *)

\* run_actor leaves its loop: the token is cancelled, every pending and queued
\* request fails, the pumps and the transport stop.  What was already written
\* to the pipe still reaches the app-server.
Ends ==
  /\ conn' = "lost"
  /\ cancelled' = TRUE
  /\ pending' = {}
  /\ rpcq' = <<>>
  /\ reply' = [c \in Callers |->
                 IF reply[c] = "none" /\ (c \in pending \/ \E i \in DOMAIN rpcq :
                                            rpcq[i] = [k |-> "request", c |-> c])
                 THEN "lost" ELSE reply[c]]
  /\ \E n \in 0..Len(out) : out' = SubSeq(out, 1, n)
  /\ inbox' = <<>>
  /\ held' = None
  /\ lease' = [q \in Asks |->
                 IF lease[q] = "actor" \/ (held.k = "ask" /\ held.q = q)
                 THEN "resolved" ELSE lease[q]]
  /\ UNCHANGED <<events, serverPending>>

Stopped == conn = "open" /\ cancelled /\ Ends

\* receive_command takes the head of the high channel, which the answers to the
\* server use, or, after a burst of those, the head of the normal one.
Dequeue(i) ==
  /\ i \in DOMAIN rpcq
  /\ \A j \in 1..(i - 1) : rpcq[j].k # rpcq[i].k
  /\ rpcq' = RemoveAt(rpcq, i)

\* TransportSender: a frame is queued while there is room, and written in order.
CanWrite == Len(out) < PipeCap
Write(m) == out' = Append(out, m)

\* TransportEventReceiver: the next message leaves the transport.
Taken == inbox' = Tail(inbox)

\* dispatch_command of a request: it is dropped if its caller is gone.
DispatchRequest(c) ==
  IF call[c] # "calling"
  THEN UNCHANGED <<pending, out>>
  ELSE /\ pending' = pending \union {c}
       /\ Write([k |-> "request", c |-> c])

\* dispatch_command of an answer to a request of the server.
DispatchRespond(q) ==
  /\ serverPending' = serverPending \ {q}
  /\ Write([k |-> "respond", q |-> q])

Dispatch ==
  /\ conn = "open" /\ ~cancelled
  /\ held = None
  /\ CanWrite
  /\ \E i \in 1..Len(rpcq) :
       /\ Dequeue(i)
       /\ IF rpcq[i].k = "request"
          THEN DispatchRequest(rpcq[i].c) /\ UNCHANGED serverPending
          ELSE DispatchRespond(rpcq[i].q) /\ UNCHANGED pending
  /\ UNCHANGED <<scene, call, conn, cancelled, reply, inbox, held, events, lease,
                 faults>>
  /\ UNCHANGED serverVars

\* The pump cannot encode the frame: handle_completion answers the request.
PumpRefuses ==
  /\ conn = "open" /\ ~cancelled
  /\ held = None
  /\ faults < scene.faults /\ faults' = faults + 1
  /\ \E i \in DOMAIN out :
       /\ out[i].k = "request"
       /\ out[i].c \in pending
       /\ out' = RemoveAt(out, i)
       /\ pending' = pending \ {out[i].c}
       /\ reply' = [reply EXCEPT ![out[i].c] = "tooLarge"]
  /\ UNCHANGED <<scene, call, conn, cancelled, rpcq, inbox, held, events,
                 serverPending, lease>>
  /\ UNCHANGED serverVars

\* The frames s without the answer to request q, which is among them at most once.
WithoutAnswer(s, q) ==
  LET at == {i \in DOMAIN s : s[i] = [k |-> "respond", q |-> q]}
  IN  IF at = {} THEN s ELSE RemoveAt(s, CHOOSE i \in at : TRUE)

\* An answer to the server is late or cannot be written: its lease fails closed.
\* The transport may already have a late answer, and then writes it all the same.
RespondFails ==
  /\ conn = "open" /\ ~cancelled
  /\ faults < scene.faults /\ faults' = faults + 1
  /\ \E q \in Asks :
       /\ lease[q] = "actor"
       /\ lease' = [lease EXCEPT ![q] = "resolved"]
       /\ rpcq' = WithoutAnswer(rpcq, q)
       /\ out' \in {out, WithoutAnswer(out, q)}
  /\ cancelled' = TRUE
  /\ UNCHANGED <<scene, call, conn, pending, reply, inbox, held, events,
                 serverPending>>
  /\ UNCHANGED serverVars

\* try_emit_event and try_emit_small_event: no room, no event.
LossyCount == Cardinality({i \in DOMAIN events : Lossy(events[i])})
CanEmit == LossyCount < EventCap
CanEmitReliable == Len(events) - LossyCount < ReliableCap

\* A response that nobody waits for, or a line that cannot be decoded.
EmitDrift ==
  IF FailClosed \/ ~CanEmit
  THEN Ends
  ELSE /\ events' = Append(events, Drift)
       /\ Taken
       /\ UNCHANGED <<conn, cancelled, rpcq, pending, reply, out, held,
                      serverPending, lease>>

Correlate(m) ==
  IF m.c \in pending
  THEN /\ pending' = pending \ {m.c}
       /\ reply' = [reply EXCEPT ![m.c] = m.k]
       /\ Taken
       /\ UNCHANGED <<conn, cancelled, rpcq, out, held, events, serverPending,
                      lease>>
  ELSE EmitDrift

TakeAsk(q) ==
  IF Cardinality(serverPending) >= AskCap \/ q \in serverPending
  THEN Ends
  ELSE /\ serverPending' = serverPending \union {q}
       /\ lease' = [lease EXCEPT ![q] = "armed"]
       /\ held' = AskMessage(q)
       /\ Taken
       /\ UNCHANGED <<conn, cancelled, rpcq, pending, reply, out, events>>

TakeNote(e) ==
  /\ Taken
  /\ IF Authoritative(e)
     THEN held' = e /\ UNCHANGED events
     ELSE /\ held' = held
          /\ events' = IF CanEmit THEN Append(events, e) ELSE events
  /\ UNCHANGED <<conn, cancelled, rpcq, pending, reply, out, serverPending,
                 lease>>

\* run_actor takes one message of the transport and handles it.
HandleInbound ==
  /\ conn = "open" /\ ~cancelled
  /\ held = None
  /\ inbox # <<>>
  /\ LET m == Head(inbox) IN
       \/ m.k \in {"result", "error"} /\ Correlate(m)
       \/ m.k = "ask" /\ TakeAsk(m.q)
       \/ m.k = "junk" /\ EmitDrift
       \/ m.k = "eof" /\ Ends
       \/ IsNote(m) /\ TakeNote(m)
  /\ UNCHANGED <<scene, call, faults>>
  /\ UNCHANGED serverVars

\* emit_reliable_event gets its slot.
EmitHeld ==
  /\ conn = "open" /\ ~cancelled
  /\ held # None
  /\ CanEmitReliable
  /\ events' = Append(events, held)
  /\ held' = None
  /\ UNCHANGED <<scene, call, conn, cancelled, rpcq, pending, reply, out, inbox,
                 serverPending, lease, faults>>
  /\ UNCHANGED serverVars

\* The cancel channel and sweep_pending: entries whose caller has gone.
SweepPending ==
  /\ conn = "open" /\ ~cancelled
  /\ held = None
  /\ \E c \in pending :
       /\ call[c] # "calling"
       /\ pending' = pending \ {c}
  /\ UNCHANGED <<scene, call, conn, cancelled, rpcq, reply, out, inbox, held,
                 events, serverPending, lease, faults>>
  /\ UNCHANGED serverVars

\* The token is cancelled: run_actor ends.
ActorStops ==
  /\ Stopped
  /\ UNCHANGED <<scene, call, faults>>
  /\ UNCHANGED serverVars

-----------------------------------------------------------------------------
(* The app-server and the pipe, as the code relies on them. *)

Send(m) == inbox' = Append(inbox, m)
Report(e) ==
  /\ reports < scene.reports
  /\ reports' = reports + 1
  /\ Send(e)
  /\ sent' = IF Authoritative(e) THEN [sent EXCEPT ![e.t] = Append(@, e)] ELSE sent

\* Does the message reach an actor that still reads?
Reads == conn = "open"

\* The server takes a request and executes or refuses it, or takes an answer
\* to a request of its own, which is then known to be written.
ServerTakes ==
  /\ server = "up"
  /\ out # <<>>
  /\ out' = Tail(out)
  /\ LET m == Head(out) IN
       \/ /\ m.k = "request"
          /\ \E verdict \in {"accepted", "refused"} :
               turn' = [turn EXCEPT ![m.c] = verdict]
          /\ owed' = owed \union {m.c}
          /\ UNCHANGED <<asked, lease>>
       \/ /\ m.k = "respond"
          /\ asked' = [asked EXCEPT ![m.q] = @ + 1]
          /\ lease' = [lease EXCEPT ![m.q] = "resolved"]
          /\ UNCHANGED <<turn, owed>>
  /\ UNCHANGED <<scene, call, conn, cancelled, rpcq, pending, reply, inbox, held,
                 events, serverPending, server, reports, sent, faults>>

\* The answer comes before, between or after the reports of the turn.
ServerAnswers ==
  /\ server = "up" /\ Reads
  /\ Len(inbox) < PipeCap
  /\ \E c \in owed :
       /\ owed' = owed \ {c}
       /\ Send(Response(c, turn[c] # "refused"))
  /\ UNCHANGED <<scene, call, conn, cancelled, rpcq, pending, reply, out, held,
                 events, serverPending, lease, server, turn, asked, reports, sent, faults>>

\* A turn runs: started, then output and an item, then completed.
ServerReports ==
  /\ server = "up" /\ Reads
  /\ Len(inbox) < PipeCap
  /\ \E c \in Callers :
       \/ /\ turn[c] = "accepted"
          /\ plan[c].method = "turn/start"
          /\ Report(Note("started", c, 0))
          /\ turn' = [turn EXCEPT ![c] = "started"]
       \/ /\ turn[c] = "started"
          /\ \E k \in {"delta", "usage"} : Report(Note(k, c, 0))
          /\ turn' = [turn EXCEPT ![c] = "streaming"]
       \/ /\ turn[c] \in {"started", "streaming"}
          /\ Report(Note("item", c, 0))
          /\ turn' = [turn EXCEPT ![c] = "item"]
       \/ /\ turn[c] \in {"started", "streaming", "item"}
          /\ Report(Note("completed", c, 0))
          /\ turn' = [turn EXCEPT ![c] = "completed"]
  /\ UNCHANGED <<scene, call, conn, cancelled, rpcq, pending, reply, out, held,
                 events, serverPending, lease, server, owed, asked, faults>>

\* The server repeats an item or a completion, or sends a different one, or a
\* line that cannot be decoded.
ServerErrs ==
  /\ server = "up" /\ Reads
  /\ Len(inbox) < PipeCap
  /\ faults < scene.faults /\ faults' = faults + 1
  /\ \/ \E c \in Callers, v \in 0..1 :
          \/ turn[c] = "item" /\ Report(Note("item", c, v))
          \/ turn[c] = "completed" /\ Report(Note("completed", c, v))
     \/ Send(Junk) /\ UNCHANGED <<reports, sent>>
  /\ UNCHANGED <<scene, call, conn, cancelled, rpcq, pending, reply, out, held,
                 events, serverPending, lease, server, turn, owed, asked>>

\* The server asks while it runs a turn.
ServerAsks ==
  /\ server = "up" /\ Reads
  /\ \E c \in Callers : turn[c] \in {"started", "streaming", "item"}
  /\ Len(inbox) < PipeCap
  /\ \E q \in scene.asks :
       /\ asked[q] < 0
       /\ asked' = [asked EXCEPT ![q] = 0]
       /\ Send(AskMessage(q))
  /\ UNCHANGED <<scene, call, conn, cancelled, rpcq, pending, reply, out, held,
                 events, serverPending, lease, server, turn, owed, reports, sent, faults>>

ServerDies ==
  /\ server = "up"
  /\ conn = "open" => faults < scene.faults
  /\ faults' = IF conn = "open" THEN faults + 1 ELSE faults
  /\ server' = "dead"
  /\ out' = <<>>
  /\ inbox' = IF Reads THEN Append(inbox, Eof) ELSE inbox
  /\ UNCHANGED <<scene, call, conn, cancelled, rpcq, pending, reply, held, events,
                 serverPending, lease, turn, owed, asked, reports, sent>>

RpcNext ==
  \/ Dispatch \/ PumpRefuses \/ RespondFails \/ HandleInbound \/ EmitHeld \/ SweepPending
  \/ ActorStops
  \/ ServerTakes \/ ServerAnswers \/ ServerReports \/ ServerErrs \/ ServerAsks \/ ServerDies

RpcInit ==
  /\ scene \in Scenarios
  /\ call = [c \in Callers |-> "idle"]
  /\ conn = "open"
  /\ cancelled = FALSE
  /\ rpcq = <<>>
  /\ pending = {}
  /\ reply = [c \in Callers |-> "none"]
  /\ out = <<>>
  /\ inbox = <<>>
  /\ held = None
  /\ events = <<>>
  /\ serverPending = {}
  /\ lease = [q \in Asks |-> "none"]
  /\ server = "up"
  /\ turn = [c \in Callers |-> "none"]
  /\ owed = {}
  /\ asked = [q \in Asks |-> -1]
  /\ reports = 0
  /\ sent = [t \in Threads |-> <<>>]
  /\ faults = 0
=============================================================================
