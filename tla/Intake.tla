------------------------------- MODULE Intake -------------------------------
(***************************************************************************)
(* The receipt boundary (lark/bridge.rs prepare_durable, runtime/intake.rs *)
(* and lark/normalize.rs): the handler an inbound source calls for every   *)
(* event - normalise, register, queue - the bounded channel it fills, the  *)
(* driver of app.rs that empties it, and what the platform was told.  The  *)
(* future of a handler can be dropped at any await; a job it had given to  *)
(* the store is done all the same.                                         *)
(***************************************************************************)
EXTENDS Naturals, Sequences, FiniteSets, SequencesExt

CONSTANTS Msgs,        \* messages of the platform
          Slots,       \* 1..n: calls of the handler in flight
          QueueCap,    \* LARK_INBOUND_EVENT_CAPACITY
          Budget,      \* LARK_INBOUND_EVENT_BYTE_BUDGET, in messages
          ReceivedMax, \* STORE_INBOUND_RECEIVED_MAX_ROWS
          None

ASSUME IntakeBounds ==
  /\ QueueCap \in Nat \ {0} /\ Budget \in Nat \ {0} /\ ReceivedMax \in Nat \ {0}
  /\ ReceivedMax <= QueueCap /\ ReceivedMax <= Budget
  /\ Slots # {} /\ Slots \subseteq Nat \ {0}
  /\ None \notin Msgs

VARIABLES kind,    \* what a message is: "plain", "topic" (its thread must be looked up),
                   \* "foreign" (none for the bridge) or "malformed" (cannot be parsed)
          row,     \* its durable row
          inq,     \* the durable inbound channel
          held,    \* copies the router and the scope actors hold, with their permits
          missed,  \* messages of which an actor let a copy go in this life without taking the row
          jobs,    \* registrations in the store writer nobody waits for any more
          calls,   \* the handlers in flight
          told,    \* messages the platform has a success receipt for
          bridge,  \* "up", "closing", "down" or "refused" (recovery does not fit)
          faults   \* faults that may still happen

intakeVars == <<kind, row, inq, held, missed, jobs, calls, told, bridge, faults>>

NoCall == [msg |-> None, at |-> "idle", scope |-> None, live |-> FALSE]
NoRow == [state |-> "none", scope |-> None]
Fault == faults > 0 /\ faults' = faults - 1
Calm == UNCHANGED faults

Copy(m, scope, live) == [msg |-> m, scope |-> scope, live |-> live]
Received == {m \in Msgs : row[m].state = "received"}
Permits == Len(inq) + Len(held)

\* resolve_scope: a lookup that fails leaves the message in the scope of its chat.
Scopes(m) == IF kind[m] = "topic" THEN {"chat", "thread"} ELSE {"chat"}

Begun(m) == [NoCall EXCEPT !.msg = m, !.at = "normalize"]
At(i, a) == calls[i].at = a
Become(i, c) == calls' = [calls EXCEPT ![i] = c]
Goes(i, a) == Become(i, [calls[i] EXCEPT !.at = a])

\* normalize_message_or_card: what is no message and no command of a card is
\* acknowledged and forgotten; what cannot be parsed is refused, at every delivery.
Ignored(m) == kind[m] = "foreign"
Malformed(m) == kind[m] = "malformed"
Normalize(i) ==
  /\ At(i, "normalize")
  /\ \/ Ignored(calls[i].msg) /\ Goes(i, "ok")
     \/ Malformed(calls[i].msg) /\ Goes(i, "failed")
     \/ /\ ~ Ignored(calls[i].msg) /\ ~ Malformed(calls[i].msg)
        /\ \E s \in Scopes(calls[i].msg) :
             Become(i, [calls[i] EXCEPT !.at = "hook", !.scope = s])
  /\ UNCHANGED <<kind, row, inq, held, missed, jobs, told, bridge, faults>>

\* register_inbound, for an event normalised to this scope.
Inserted(m, s) ==
  IF row[m].state = "none" /\ Cardinality(Received) < ReceivedMax
    THEN [row EXCEPT ![m] = [state |-> "received", scope |-> s]]
    ELSE row

\* Mutants: a row that is still received counts as done; the event as it was
\* normalised this time is queued.
VerdictDone(c) ==
  LET r == row[c.msg] IN
  IF r.state = "none"
    THEN [c EXCEPT !.at = IF Cardinality(Received) < ReceivedMax THEN "queue" ELSE "failed",
                   !.live = TRUE]
    ELSE [c EXCEPT !.at = "ok"]
VerdictLive(c) ==
  LET r == row[c.msg] IN
  IF r.state = "received" \/ (r.state = "none" /\ Cardinality(Received) < ReceivedMax)
    THEN [c EXCEPT !.at = "queue", !.live = TRUE]
    ELSE [c EXCEPT !.at = IF r.state = "none" THEN "failed" ELSE "ok"]

\* validate_live_claim: the live event and the stored one name the same conversation.
Agrees(c, r) == c.scope = r.scope

\* registration_from_stored: the stored event is what is queued again; the live
\* one replaces it only when it agrees with it.
Verdict(c) ==
  LET r == row[c.msg] IN
  CASE r.state = "none" /\ Cardinality(Received) < ReceivedMax ->
         [c EXCEPT !.at = "queue", !.live = TRUE]
    [] r.state = "none" /\ Cardinality(Received) >= ReceivedMax ->
         [c EXCEPT !.at = "failed"]
    [] r.state = "received" ->
         [c EXCEPT !.at = "queue", !.scope = r.scope, !.live = Agrees(c, r)]
    [] OTHER -> [c EXCEPT !.at = "ok"]

\* The store writer does the job of a handler that waits for it.
Register(i) ==
  /\ At(i, "hook")
  /\ row' = Inserted(calls[i].msg, calls[i].scope)
  /\ Become(i, Verdict(calls[i]))
  /\ UNCHANGED <<kind, inq, held, missed, jobs, told, bridge, faults>>

\* The writer's queue is full, or the transaction fails.
RegisterFails(i) ==
  /\ At(i, "hook") /\ Fault
  /\ Goes(i, "failed")
  /\ UNCHANGED <<kind, row, inq, held, missed, jobs, told, bridge>>

\* The job of a handler that was dropped.
LateRegister ==
  \E j \in jobs :
    /\ row' = Inserted(j.msg, j.scope)
    /\ jobs' = jobs \ {j}
    /\ UNCHANGED <<kind, inq, held, missed, calls, told, bridge, faults>>

\* Reservation of a place and of the bytes, then the send; nothing awaits between.
HasPlace == bridge = "up" /\ Len(inq) < QueueCap /\ Permits < Budget
Enqueue(i) ==
  /\ At(i, "queue")
  /\ Goes(i, IF HasPlace THEN "ok" ELSE "failed")
  /\ inq' = IF HasPlace
              THEN Append(inq, Copy(calls[i].msg, calls[i].scope, calls[i].live))
              ELSE inq
  /\ UNCHANGED <<kind, row, held, missed, jobs, told, bridge, faults>>

\* Registrations that go on when the handlers of these slots are dropped.
Left(S) == jobs \cup {[msg |-> calls[i].msg, scope |-> calls[i].scope] :
                        i \in {j \in S : At(j, "hook")}}
Dropped(S) == [i \in Slots |-> IF i \in S THEN NoCall ELSE calls[i]]

\* The timeout around the handler: handler_timeout.
HandlerTimeout(i) ==
  /\ calls[i].at \in {"normalize", "hook"} /\ Fault
  /\ jobs' = Left({i})
  /\ Goes(i, "failed")
  /\ UNCHANGED <<kind, row, inq, held, missed, told, bridge>>

HandlerStep(i) == Normalize(i) \/ Register(i) \/ Enqueue(i)
HandlerFault(i) == RegisterFails(i) \/ HandlerTimeout(i)

\* drive_inbound: the next event goes to the router (it keeps the event for itself
\* while the router has no room, which is no step here).
Route ==
  /\ bridge = "up" /\ inq # <<>>
  /\ held' = Append(held, Head(inq))
  /\ inq' = Tail(inq)
  /\ UNCHANGED <<kind, row, missed, jobs, calls, told, bridge, faults>>

\* The router or an actor settles or claims the row, and lets the event go.
Take ==
  \E k \in 1..Len(held) :
    /\ held' = RemoveAt(held, k)
    /\ row' = [row EXCEPT ![held[k].msg].state = "taken"]
    /\ UNCHANGED <<kind, inq, missed, jobs, calls, told, bridge, faults>>

\* An actor lets the event go with its row as it was: the store fails while the event
\* is prepared, read for or claimed, or the actor is evicted with it.
Miss ==
  /\ Fault
  /\ \E k \in 1..Len(held) :
       /\ held' = RemoveAt(held, k)
       /\ missed' = missed \cup {held[k].msg}
  /\ UNCHANGED <<kind, row, inq, jobs, calls, told, bridge>>

\* The event as its row has it.
Retained(m) == Copy(m, row[m].scope, FALSE)

\* DurableIntake::prepare and prepare_durable: what a former life left received is
\* queued before any source starts.
Prepared ==
  /\ bridge' = IF Cardinality(Received) <= QueueCap /\ Cardinality(Received) <= Budget
                 THEN "up" ELSE "refused"
  /\ inq' = SetToSeq({Retained(m) : m \in Received})

\* Whatever the process had in memory.
Forgets ==
  /\ inq' = <<>> /\ held' = <<>> /\ missed' = {} /\ jobs' = {}
  /\ calls' = [i \in Slots |-> NoCall]

IntakeInit ==
  /\ row = [m \in Msgs |-> NoRow]
  /\ inq = <<>> /\ held = <<>> /\ missed = {} /\ jobs = {}
  /\ calls = [i \in Slots |-> NoCall]
  /\ bridge = "down"

(***************************************************************************)
(* Properties.                                                             *)
(***************************************************************************)

Copies == ToSet(inq \o held)

\* A message the platform has a success receipt for is in the ledger and, until its row
\* is taken, where the router finds it in this life - timeouts, negative
\* acknowledgements, redeliveries, late registrations and restarts never leave it a
\* receipt and nothing else (docs/channel-wire-v1.md, "Durable upstream receipt").
\* The one exception is a copy an actor dropped for a store error: that message waits
\* in its row for the next start, which always finds room for what was received.
AckedIsKept ==
  /\ \A m \in told : ~ Ignored(m) =>
       /\ row[m].state # "none"
       /\ bridge = "up" /\ row[m].state = "received" /\ m \notin missed =>
            \E c \in Copies : c.msg = m
  /\ bridge # "refused"

\* Every copy of a message the router can meet has the scope its row was written
\* with, also when a lookup fails on the first delivery and works on the second or
\* the other way round; otherwise the claim of a live event would be refused as
\* corrupt (validate_live_claim) and its turn would run in another conversation.
CopiesAgree ==
  \A c \in Copies : row[c.msg].state # "none" /\ c.scope = row[c.msg].scope
=============================================================================
