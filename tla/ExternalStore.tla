--------------------------- MODULE ExternalStore ---------------------------
(***************************************************************************)
(* What the bridge remembers about a Codex endpoint that it shares with    *)
(* others (store/external.rs, store/external_write.rs): the epoch of the   *)
(* endpoint, the managed threads, a write fence per thread, the intents to *)
(* write, the approval claims and the turns known to have ended.  An       *)
(* operator on the tables is one transaction: it returns the tables, and   *)
(* where the code also returns an outcome there is an operator for it.     *)
(***************************************************************************)
EXTENDS Integers, FiniteSets

CONSTANTS Threads, Intents, Asks, Turns,
          ThreadOf,   \* the thread of every turn, intent and ask
          KindOf,     \* the mutation that an intent is for
          SourceOf,   \* the Lark actor behind an intent
          AskTurn,    \* the turn that an approval request belongs to
          NoIntent,   \* nothing
          ThreadCap   \* EXTERNAL_MANAGED_THREAD_CAPACITY

ASSUME ExternalStoreAssumption ==
  /\ Intents \subseteq Turns
  /\ NoIntent \notin Turns \union Asks
  /\ Turns \cap Asks = {}
  /\ KindOf \in [Intents -> {"start", "steer", "interrupt", "add", "pop"}]
  /\ AskTurn \in [Asks -> Turns]
  /\ \A x \in Turns \union Asks : ThreadOf[x] \in Threads
  /\ ThreadCap \in Nat

NewIntent == [state |-> "none", epoch |-> 0, result |-> NoIntent]
NewFence == [state |-> "absent", epoch |-> 0, active |-> NoIntent]

Tables(managed) ==
  [endpoint |-> [epoch |-> 0, state |-> "none"],
   thread |-> [t \in Threads |-> [epoch |-> 0, state |-> IF t \in managed
                                                        THEN "unavailable" ELSE "none"]],
   fence |-> [t \in Threads |-> NewFence],
   intent |-> [i \in Intents |-> NewIntent],
   claim |-> [a \in Asks |-> [state |-> "none", epoch |-> 0]],
   term |-> [u \in Turns |-> "none"]]

-----------------------------------------------------------------------------
(* Epochs. *)

Unsettled(d, t) ==
  \/ \E i \in Intents : ThreadOf[i] = t /\ d.intent[i].state = "uncertain"
  \/ \E a \in Asks : ThreadOf[a] = t /\ d.claim[a].state = "uncertain"

\* Mutant of CloseIntents: without an answer nothing has happened.
RejectIntents(d, S) ==
  [d EXCEPT !.intent = [i \in Intents |->
     IF i \in S /\ d.intent[i].state \in {"prepared", "sent"}
     THEN [d.intent[i] EXCEPT !.state = "rejected"] ELSE d.intent[i]]]

\* Intents that were not sent did not happen; the rest is not known.
CloseIntents(d, S) ==
  [d EXCEPT !.intent = [i \in Intents |->
     CASE i \in S /\ d.intent[i].state = "prepared" -> [d.intent[i] EXCEPT !.state = "rejected"]
       [] i \in S /\ d.intent[i].state = "sent" -> [d.intent[i] EXCEPT !.state = "uncertain"]
       [] OTHER -> d.intent[i]]]

CloseClaims(d, S) ==
  [d EXCEPT !.claim = [a \in Asks |->
     IF a \in S /\ d.claim[a].state \in {"received", "claimed", "responding"}
     THEN [d.claim[a] EXCEPT !.state = "uncertain"] ELSE d.claim[a]]]

\* A fence stays closed while anything on the thread is uncertain.
ResetFences(d, e, S) ==
  [d EXCEPT !.fence = [t \in Threads |->
     IF t \in S /\ d.fence[t].state # "absent"
     THEN [state |-> IF Unsettled(d, t) THEN "uncertain" ELSE "open",
           epoch |-> e, active |-> NoIntent]
     ELSE d.fence[t]]]

\* reserve_external_epoch
ReserveEpoch(d) ==
  LET e == d.endpoint.epoch + 1
      opened == [d EXCEPT
        !.endpoint = [epoch |-> e, state |-> "connecting"],
        !.thread = [t \in Threads |->
           IF d.thread[t].state \in {"none", "uncertain"} THEN d.thread[t]
           ELSE [epoch |-> e, state |-> "unavailable"]]]
  IN ResetFences(CloseClaims(CloseIntents(opened, Intents), Asks), e, Threads)

\* set_external_endpoint_state: only the current epoch.
SetEndpoint(d, e, state) ==
  IF d.endpoint.epoch = e THEN [d EXCEPT !.endpoint.state = state] ELSE d

\* mark_external_unavailable
MarkUnavailable(d, e) ==
  IF d.endpoint.epoch # e THEN d
  ELSE LET down == [d EXCEPT
             !.endpoint.state = "unavailable",
             !.thread = [t \in Threads |->
                IF d.thread[t].epoch = e /\ d.thread[t].state \notin {"none", "uncertain"}
                THEN [d.thread[t] EXCEPT !.state = "unavailable"] ELSE d.thread[t]]]
           mine == {i \in Intents : d.intent[i].epoch = e}
           asked == {a \in Asks : d.claim[a].epoch = e}
       IN ResetFences(CloseClaims(CloseIntents(down, mine), asked), e,
                      {t \in Threads : d.fence[t].epoch = e})

-----------------------------------------------------------------------------
(* Threads. *)

Managed(d) == {t \in Threads : d.thread[t].state # "none"}

\* register_external_thread
FitsThread(d, t) == t \in Managed(d) \/ Cardinality(Managed(d)) < ThreadCap
RegisterThread(d, t) ==
  IF t \in Managed(d) THEN d
  ELSE [d EXCEPT !.thread[t] = [epoch |-> d.endpoint.epoch, state |-> "unavailable"]]

\* begin_external_reconciliation: whether it is current, and what it does.
Begins(d, t, e) ==
  d.endpoint.epoch = e /\ d.thread[t].state \notin {"none", "uncertain"}
BeginReconciliation(d, t, e) ==
  [d EXCEPT !.thread[t] = [epoch |-> e, state |-> "reconciling"]]

\* mark_external_thread_uncertain
MarkThreadUncertain(d, t, e) ==
  IF d.thread[t].epoch = e /\ d.endpoint.epoch = e
  THEN [d EXCEPT !.thread[t].state = "uncertain"] ELSE d

\* apply_terminals, for ended: [Turns -> "none", "completed" or "failed"], the
\* turns that are said to have ended.
Current(d, t, e, state) ==
  d.endpoint.epoch = e /\ d.thread[t].epoch = e /\ d.thread[t].state = state
Contradicts(d, t, ended) ==
  \E u \in Turns : /\ ThreadOf[u] = t /\ ended[u] # "none"
                   /\ d.term[u] \notin {"none", ended[u]}

\* Mutant of ApplyTerminals: the status that came last is kept.
OverwriteTerminals(d, t, e, ended, finish) ==
  [d EXCEPT !.term = [u \in Turns |-> IF ThreadOf[u] = t /\ ended[u] # "none"
                                      THEN ended[u] ELSE d.term[u]],
            !.thread[t].state = IF finish THEN "ready" ELSE @]

ApplyTerminals(d, t, e, ended, finish) ==
  IF Contradicts(d, t, ended) THEN [d EXCEPT !.thread[t].state = "uncertain"]
  ELSE [d EXCEPT !.term = [u \in Turns |->
                    IF ThreadOf[u] = t /\ d.term[u] = "none" THEN ended[u] ELSE d.term[u]],
                 !.thread[t].state = IF finish THEN "ready" ELSE @]

-----------------------------------------------------------------------------
(* Writing. *)

Ready(d, t, e) ==
  /\ d.endpoint = [epoch |-> e, state |-> "ready"]
  /\ d.thread[t] = [epoch |-> e, state |-> "ready"]

\* prepare_external_mutation
PrepareOutcome(d, i, e) ==
  LET t == ThreadOf[i] IN
  CASE d.intent[i].state # "none" -> "Duplicate"
    [] ~Ready(d, t, e) -> "NotReady"
    [] d.fence[t].state = "active" -> "Busy"
    [] d.fence[t].state = "uncertain" -> "Uncertain"
    [] OTHER -> "Prepared"

Prepare(d, i, e) ==
  [d EXCEPT !.intent[i] = [state |-> "prepared", epoch |-> e, result |-> NoIntent],
            !.fence[ThreadOf[i]] = [state |-> "active", epoch |-> e, active |-> i]]

Holds(d, i, e) == d.fence[ThreadOf[i]] = [state |-> "active", epoch |-> e, active |-> i]

\* Mutant of MaySend: the fence that was taken is trusted.
SendsAnyway(d, i, e) == TRUE

\* transition_sent
MaySend(d, i, e) ==
  /\ d.intent[i].epoch = e
  /\ \/ d.intent[i].state = "prepared" /\ Holds(d, i, e)
     \/ d.intent[i].state = "sent"
MarkSent(d, i) == [d EXCEPT !.intent[i].state = "sent"]

\* resolve_external_mutation: which states may become which, and the fence
\* that has to be held.
MayResolve(d, i, e, to) ==
  /\ d.intent[i].epoch = e
  /\ d.intent[i].state \in (IF to = "rejected" THEN {"prepared", "sent"} ELSE {"sent"})
  /\ Holds(d, i, e)
Resolve(d, i, to, result) ==
  [d EXCEPT !.intent[i].state = to,
            !.intent[i].result = result,
            !.fence[ThreadOf[i]].state = IF to = "uncertain" THEN "uncertain" ELSE "open",
            !.fence[ThreadOf[i]].active = NoIntent]

\* external_mutation_owner: the actors of what is known to have made this turn
\* or this queue entry; a turn that has ended has no owner.
Owners(d, u) ==
  {SourceOf[i] : i \in {j \in Intents :
     /\ d.intent[j].state = "applied" /\ d.intent[j].result = u
     /\ KindOf[j] = "add" \/ d.term[u] = "none"}}

-----------------------------------------------------------------------------
(* Approvals. *)

\* Mutant of Receives: whatever else is uncertain on the thread.
ReceivesAnyway(d, a, e) ==
  /\ ~(d.claim[a].state # "none" /\ d.claim[a].epoch = e)
  /\ Ready(d, ThreadOf[a], e)
  /\ d.term[AskTurn[a]] = "none"

\* receive_external_approval: of a turn that the bridge has started.
Receives(d, a, e) ==
  /\ ~(d.claim[a].state # "none" /\ d.claim[a].epoch = e)
  /\ Ready(d, ThreadOf[a], e)
  /\ d.fence[ThreadOf[a]].state = "open"
  /\ \E i \in Intents : /\ d.intent[i].state = "applied"
                        /\ d.intent[i].result = AskTurn[a]
                        /\ KindOf[i] \in {"start", "steer", "pop"}
  /\ d.term[AskTurn[a]] = "none"
Receive(d, a, e) == [d EXCEPT !.claim[a] = [state |-> "received", epoch |-> e]]

\* claim_external_approval: a compare and swap before the durable deadline.
Claims(d, a, e, expired) ==
  d.claim[a] = [state |-> "received", epoch |-> e] /\ ~expired
Claim(d, a) == [d EXCEPT !.claim[a].state = "claimed"]

\* resolve_external_approval
From(to) ==
  CASE to = "responding" -> {"claimed"}
    [] to = "denied" -> {"received", "claimed", "responding"}
    [] to = "uncertain" -> {"received", "claimed", "responding"}
Moves(d, a, e, to) ==
  d.claim[a].epoch = e /\ d.claim[a].state \in From(to) \union {to}

Move(d, a, e, to) ==
  LET moved == [d EXCEPT !.claim[a].state = to]
      t == ThreadOf[a]
  IN IF to = "uncertain" /\ d.fence[t].epoch = e /\ d.fence[t].state # "absent"
     THEN [moved EXCEPT !.fence[t].state = "uncertain", !.fence[t].active = NoIntent]
     ELSE moved

\* resolve_external_approval_request: the endpoint says that a request is over.
Closes(d, a, e) ==
  d.claim[a].epoch = e /\ d.claim[a].state \in {"received", "claimed", "responding", "denied"}
Close(d, a) == [d EXCEPT !.claim[a].state = "resolved"]

\* reassign_external_approval_actor: only when nothing is under way.
Drained(d) ==
  /\ \A t \in Threads : d.fence[t].state \in {"absent", "open"}
  /\ \A i \in Intents :
       /\ d.intent[i].state \notin {"prepared", "sent", "uncertain"}
       /\ d.intent[i].state = "applied" /\ KindOf[i] \in {"start", "steer", "pop"}
          => d.term[d.intent[i].result] # "none"
  /\ \A a \in Asks : d.claim[a].state \notin {"received", "claimed", "responding", "uncertain"}
=============================================================================
