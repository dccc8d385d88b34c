------------------------------- MODULE Ledger -------------------------------
(***************************************************************************)
(* The durable inbound ledger: the `inbound_events`, `turns` and `threads` *)
(* tables and the transactions on them (src/store/dedup.rs and             *)
(* src/store/sessions.rs).  Every operator that primes a variable is one   *)
(* transaction of the single writer thread.                                *)
(***************************************************************************)
EXTENDS Integers, Sequences, FiniteSets

CONSTANTS
    Event,            \* event ids, the primary key together with the tenant
    Scope,            \* conversation scopes
    ScopeOf,          \* ScopeOf[e]: scope_key of event e
    MsgOf,            \* MsgOf[e]: message_id of event e
    MaxRows,          \* STORE_INBOUND_MAX_ROWS
    MaxReceived,      \* STORE_INBOUND_RECEIVED_MAX_ROWS
    MaxLiveTurns,     \* STORE_RECOVERY_TURN_MAX_ROWS
    MaxTurns,         \* bound: turn rows a run creates
    MaxThreads        \* bound: Codex threads a run creates

ASSUME LedgerAssumption ==
    /\ IsFiniteSet(Event) /\ IsFiniteSet(Scope) /\ Scope # {}
    /\ ScopeOf \in [Event -> Scope]
    /\ DOMAIN MsgOf = Event
    /\ {MaxRows, MaxReceived, MaxLiveTurns, MaxTurns, MaxThreads} \subseteq Nat

VARIABLES
    inbound,     \* inbound_events: [Event -> InboundRow]
    turns,       \* turns: [TurnId -> TurnRow]
    thread,      \* thread[s]: the active thread of scope s, 0 when it has none
    made,        \* made[i]: the scope Codex thread i was recorded for
    seen         \* the rows present, in first_seen_ms order

ledger == <<inbound, turns, thread, made, seen>>

TurnId == 1..MaxTurns
NoTurn == 0
None == "none"

InboundStates == {"absent", "received", "accepted", "completed", "rejected"}
Refusals == {"policy", "overloaded", "internal"}          \* InboundRejectionKind
Unresolved == {"starting", "running"}                     \* with uncertain = 0
Resolutions == {"completed", "failed", "interrupted", "uncertain"}

\* Why resolve_turn_and_finish_inbound_batch rejects the events of a turn.
TurnReason == [failed |-> "turn_failed", interrupted |-> "turn_interrupted",
               uncertain |-> "turn_uncertain", completed |-> None]
Reasons == Refusals \cup {"turn_failed", "turn_interrupted", "turn_uncertain", None}

\* `reply` is the class of reply_outbox_key: the control reply or the notice.
InboundRow == [state: InboundStates, turn: TurnId \cup {NoTurn}, reason: Reasons,
               reply: Refusals \cup {"control", None}]
TurnRow == [state: {"absent"} \cup Unresolved \cup Resolutions, scope: Scope,
            thread: 0..MaxThreads, count: 0..Cardinality(Event)]

NoInbound == [state |-> "absent", turn |-> NoTurn, reason |-> None, reply |-> None]
NoTurnRow == [state |-> "absent", scope |-> CHOOSE s \in Scope : TRUE,
              thread |-> 0, count |-> 0]

LedgerTypeOK ==
    /\ inbound \in [Event -> InboundRow]
    /\ turns \in [TurnId -> TurnRow]
    /\ thread \in [Scope -> 0..MaxThreads]
    /\ made \in Seq(Scope) /\ Len(made) <= MaxThreads
    /\ seen \in Seq(Event)

LedgerInit ==
    /\ inbound = [e \in Event |-> NoInbound]
    /\ turns = [t \in TurnId |-> NoTurnRow]
    /\ thread = [s \in Scope |-> 0]
    /\ made = <<>>
    /\ seen = <<>>

\* The elements of q that are in S, in the order of q: the loops that keep some rows of
\* a list and skip the others.  (SelectSeq, as a function one can prove facts about.)
Filtered(q, S) ==
    LET f[i \in 0..Len(q)] == IF i = 0 THEN <<>>
                              ELSE IF q[i] \in S THEN Append(f[i - 1], q[i]) ELSE f[i - 1]
    IN  f[Len(q)]

Rows(states) == {e \in Event : inbound[e].state \in states}
Linked(t) == {e \in Event : inbound[e].turn = t}
LiveTurns == {t \in TurnId : turns[t].state \in Unresolved}

-----------------------------------------------------------------------------
(* Registration.                                                           *)

\* Mutant of Canonical: only the event id is looked up.
CanonicalById(e) == Rows(InboundStates \ {"absent"}) \cap {e}

\* The row a delivery of e meets: its own, else the one of the same message that
\* is not rejected.
Canonical(e) ==
    IF inbound[e].state # "absent" THEN {e}
    ELSE {c \in Rows({"received", "accepted", "completed"}) : MsgOf[c] = MsgOf[e]}

HasRoom ==
    /\ Cardinality(Rows(InboundStates \ {"absent"})) < MaxRows
    /\ Cardinality(Rows({"received"})) < MaxReceived

\* register_inbound of a delivery nothing is known of.
RegisterInbound(e) ==
    /\ inbound' = [inbound EXCEPT ![e].state = "received"]
    /\ seen' = Append(seen, e)
    /\ UNCHANGED <<turns, thread, made>>

\* recover_received: the received rows in first_seen_ms order.
Recovered == Filtered(seen, Rows({"received"}))

\* sweep_inbound: terminal rows past their age go.
SweepInbound(e) ==
    /\ inbound[e].state \in {"completed", "rejected"}
    /\ inbound' = [inbound EXCEPT ![e] = NoInbound]
    /\ seen' = Filtered(seen, Event \ {e})
    /\ UNCHANGED <<turns, thread, made>>

-----------------------------------------------------------------------------
(* Settlement without a turn.                                              *)

\* terminal_disposition: a second rejection must name the same reason.
RejectAllowed(e, why) ==
    /\ inbound[e].state # "absent"
    /\ inbound[e].state = "rejected" => inbound[e].reason = why

\* reject_received_in_transaction; the reply that is enqueued and recorded with it.
Refused(r, why) == [r EXCEPT !.state = "rejected", !.reason = why]
Replied(r, reply) == [r EXCEPT !.reply = reply]

\* reject_received_and_enqueue_notice; no effect on a claimed or settled row.
RejectReceived(e, why) ==
    /\ inbound' = IF inbound[e].state = "received"
                  THEN [inbound EXCEPT ![e] = Replied(Refused(@, why), why)]
                  ELSE inbound
    /\ UNCHANGED <<turns, thread, made, seen>>

CompleteAllowed(e) ==
    \/ inbound[e].state = "received"
    \/ inbound[e].state = "completed" /\ inbound[e].turn = NoTurn

\* complete_received_without_turn (reply = None) and
\* complete_received_and_enqueue_control_reply (reply = "control").
CompleteReceived(e, reply) ==
    /\ inbound' = [inbound EXCEPT ![e] = Replied([@ EXCEPT !.state = "completed"], reply)]
    /\ UNCHANGED <<turns, thread, made, seen>>

-----------------------------------------------------------------------------
(* Turns.                                                                  *)

\* What begin_turn_and_claim_inbound_live would claim of the batch E.
Claimable(E) == E \cap Rows({"received"})
TurnRoom == Cardinality(LiveTurns) < MaxLiveTurns
IsNewTurn(t) == turns[t].state = "absent" /\ \A u \in 1..(t - 1) : turns[u].state # "absent"

BeginTurnAndClaim(s, E, t) ==
    LET C == Claimable(E)
    IN  /\ turns' = [turns EXCEPT ![t] = [state |-> "starting", scope |-> s,
                                          thread |-> thread[s], count |-> Cardinality(C)]]
        /\ inbound' = [e \in Event |-> IF e \in C
                                       THEN [inbound[e] EXCEPT !.state = "accepted", !.turn = t]
                                       ELSE inbound[e]]
        /\ UNCHANGED <<thread, made, seen>>

\* set_turn_state, which an inbound turn may use only from starting to running.
SetTurnRunning(t) ==
    /\ turns' = [turns EXCEPT ![t].state = "running"]
    /\ UNCHANGED <<inbound, thread, made, seen>>

ResolveAllowed(t, res) ==
    /\ turns[t].state \in Unresolved
    /\ turns[t].state = "starting" => res # "completed"

\* resolve_turn_and_finish_inbound_batch.
ResolveTurn(t, res) ==
    /\ turns' = [turns EXCEPT ![t].state = res]
    /\ inbound' = [e \in Event |->
                      IF e \in Linked(t)
                      THEN [inbound[e] EXCEPT
                              !.state = IF res = "completed" THEN "completed" ELSE "rejected",
                              !.reason = TurnReason[res]]
                      ELSE inbound[e]]
    /\ UNCHANGED <<thread, made, seen>>

\* record_active_thread_with_context_tools: a new thread of scope s.
RecordActiveThread(s) ==
    /\ Len(made) < MaxThreads
    /\ made' = Append(made, s)
    /\ thread' = [thread EXCEPT ![s] = Len(made) + 1]
    /\ UNCHANGED <<inbound, turns, seen>>

ArchiveActiveThread(s) ==
    /\ thread' = [thread EXCEPT ![s] = 0]
    /\ UNCHANGED <<inbound, turns, made, seen>>

\* Mutant: the selected thread is looked up by its id alone.
ReactivateAnyThread(s, i) ==
    /\ thread' = [thread EXCEPT ![s] = IF i \in DOMAIN made THEN i ELSE @]
    /\ UNCHANGED <<inbound, turns, made, seen>>

\* reactivate_archived_thread: what the selector names becomes the active thread if
\* it is one of this scope, and the active one is archived for it.
ReactivateArchivedThread(s, i) ==
    /\ thread' = [thread EXCEPT ![s] = IF i \in DOMAIN made /\ made[i] = s THEN i ELSE @]
    /\ UNCHANGED <<inbound, turns, made, seen>>

-----------------------------------------------------------------------------
(* validate_inbound_collection: the scan recover_received runs at every    *)
(* start.  A store that fails it cannot be opened again.                   *)

\* No two rows of one message, unless at most one of them is not rejected.
MessagesCanonical ==
    \A e, d \in Rows({"received", "accepted", "completed"}) : MsgOf[e] = MsgOf[d] => e = d

\* validate_turn_association.
Associated(e) ==
    LET r == inbound[e]
        t == turns[r.turn]
    IN  /\ r.turn \in TurnId /\ t.scope = ScopeOf[e] /\ t.count > 0
        /\ \/ r.state = "accepted" /\ t.state \in Unresolved
           \/ r.state = "completed" /\ t.state = "completed"
           \/ /\ r.state = "rejected" /\ t.state \in Resolutions \ {"completed"}
              /\ r.reason = TurnReason[t.state]

\* validate_stored_inbound_row.
RowValid(e) ==
    LET r == inbound[e]
    IN  /\ r.state = "received" => r.turn = NoTurn
        /\ r.state = "accepted" \/ r.turn # NoTurn => Associated(e)
        /\ r.reason # None => r.state = "rejected"

\* validate_inbound_reply_effect.
ReplyValid(e) ==
    LET r == inbound[e]
    IN  r.reply # None =>
            /\ r.turn = NoTurn
            /\ \/ r.state = "completed" /\ r.reason = None /\ r.reply = "control"
               \/ r.state = "rejected" /\ r.reply = r.reason

\* validate_unresolved_markers and validate_resolved_markers: all events of an open
\* turn are still accepted; of a resolved one some may have been swept.
UnresolvedMarkers(t) ==
    Cardinality(Linked(t)) = turns[t].count /\ Linked(t) \subseteq Rows({"accepted"})
ResolvedMarkers(t) ==
    /\ Cardinality(Linked(t)) <= turns[t].count
    /\ Linked(t) \subseteq Rows(IF turns[t].state = "completed" THEN {"completed"}
                                                             ELSE {"rejected"})

\* validate_runtime_turn_group.
GroupValid(t) ==
    /\ turns[t].state \in Unresolved => UnresolvedMarkers(t)
    /\ turns[t].state \in Resolutions => ResolvedMarkers(t)

ScanPasses ==
    /\ Cardinality(Rows(InboundStates \ {"absent"})) <= MaxRows
    /\ Cardinality(Rows({"received"})) <= MaxReceived
    /\ MessagesCanonical
    /\ \A e \in Event : RowValid(e) /\ ReplyValid(e)
    /\ \A t \in TurnId : GroupValid(t)
=============================================================================
