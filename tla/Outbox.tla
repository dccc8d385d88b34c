------------------------------- MODULE Outbox -------------------------------
(***************************************************************************)
(* The durable outbox: the `outbox` table of the SQLite store              *)
(* (src/store/outbox.rs), the single pump that drains it                   *)
(* (src/outbox/pump.rs), the maintenance sweep, and the rows the reply     *)
(* sink puts there (src/outbox/sink.rs).                                   *)
(*                                                                         *)
(* Every store request runs alone on the writer thread, so a request is    *)
(* one atomic step.  The pump is split where the process can die, the      *)
(* connection can drop or another store client can run in between: claim,  *)
(* start of a send, answer of the provider, write of the receipt, release  *)
(* of one claimed row.                                                     *)
(***************************************************************************)
EXTENDS Integers, FiniteSets, FiniteSetsExt

CONSTANTS
    Key,              \* idempotency keys (UNIQUE in the table)
    OpOf,             \* OpOf[k]: the operation the producer encodes in row k
    AnchorOf,         \* AnchorOf[k]: the progress row an update/finalize needs
    BytesOf,          \* BytesOf[k]: payload_bytes of row k
    FallbackBytes,    \* payload_bytes of the standalone fallback post
    FinalPairs,       \* pairs <<k1, k2>>: the parts of a two-part answer
    StoreMaxRows,     \* STORE_OUTBOX_MAX_ROWS
    StoreMaxBytes,    \* STORE_OUTBOX_MAX_QUEUED_BYTES
    TotalMaxRows,     \* OUTBOX_TERMINAL_MAX_ROWS
    TotalMaxBytes,    \* OUTBOX_TERMINAL_MAX_BYTES
    ClaimMaxBatch,    \* STORE_OUTBOX_CLAIM_MAX_BATCH
    ClaimMaxBytes,    \* STORE_OUTBOX_CLAIM_MAX_BYTES
    MaxAttempts,      \* STORE_OUTBOX_MAX_ATTEMPTS
    RetryBase,        \* OUTBOX_RETRY_BASE
    RetryMax,         \* OUTBOX_RETRY_MAX
    Retention,        \* OUTBOX_TERMINAL_RETENTION_MS
    SweepBatch,       \* OUTBOX_SWEEP_BATCH
    MaxTime,          \* bound: where the wall clock and saturating_add stop
    MaxRowId,         \* bound: largest row id a run allocates
    MaxFaults,        \* bound: environment faults in one behaviour
    ClockStepsBack,   \* may the wall clock (SystemTime) be set back?
    WriterMayDie      \* may a job commit and yet report an error?

Ops == {"reply", "progress", "update", "finalize", "undecodable"}
Patches == {"update", "finalize"}       \* operations that PATCH an anchor

ASSUME OutboxAssumption ==
    /\ IsFiniteSet(Key) /\ "none" \notin Key
    /\ OpOf \in [Key -> Ops]
    /\ AnchorOf \in [Key -> Key]
    /\ BytesOf \in [Key -> Nat]
    /\ FallbackBytes \in Nat
    /\ FinalPairs \subseteq Key \X Key
    /\ \A p \in FinalPairs : OpOf[p[2]] \notin Patches     \* final_rows: replies
    /\ {StoreMaxRows, StoreMaxBytes, TotalMaxRows, TotalMaxBytes, ClaimMaxBatch,
        ClaimMaxBytes, RetryBase, RetryMax, Retention, SweepBatch,
        MaxTime, MaxRowId, MaxFaults} \subseteq Nat
    /\ MaxAttempts \in Nat \ {0}
    /\ ClockStepsBack \in BOOLEAN
    /\ WriterMayDie \in BOOLEAN

VARIABLES
    outbox,      \* the table: [Key -> Row], state "absent" = no such row
    storeUp,     \* the writer thread serves requests
    clock,       \* now_ms()
    connected,   \* the transport watch says Connected
    shutdown,    \* the pump's cancellation token
    pc,          \* where the pump is
    claimed,     \* claimed rows of the current batch not yet processed
    cur,         \* the row being processed
    answer,      \* request in flight, or what the last send returned
    accepted,    \* progress rows whose enqueue this process saw succeed
    faults       \* environment faults left (bound)

store == <<outbox, storeUp>>
env == <<clock, connected, shutdown, faults>>
vars == <<outbox, storeUp, clock, connected, shutdown, pc, claimed, cur, answer,
          accepted, faults>>

States == {"absent", "pending", "sending", "sent", "failed", "uncertain_delivery"}
LiveStates == {"pending", "sending"}
TerminalStates == {"sent", "failed", "uncertain_delivery"}
Times == 0..MaxTime

(***************************************************************************)
(* `posts` and `patches` are history: how many of the POSTs and PATCHes    *)
(* issued for this row Lark may have applied.                              *)
(* updated_ms is kept for terminal rows only, the ones the sweep reads.    *)
(***************************************************************************)
Row == [state: States, id: 0..MaxRowId, op: Ops, bytes: Nat, attempts: Nat,
        next: Times, updated: Times, posts: Nat, patches: Nat]

Table == [Key -> Row]

NoRow(k) == [state |-> "absent", id |-> 0, op |-> OpOf[k], bytes |-> 0,
             attempts |-> 0, next |-> 0, updated |-> 0, posts |-> 0,
             patches |-> 0]

None == "none"
Rejections == {"rate_limited", "rejected"}          \* provably not applied
Unknowns == {"server_error", "lost"}                \* may have been applied
Answers == {"ok"} \cup Rejections \cup Unknowns
Dependencies == {"dep_pending", "dep_permanent", "dep_uncertain"}
Answer == [req: {"post", "patch", None}, at: Times,
           res: Answers \cup Dependencies \cup {"undecodable", None}]
NoAnswer == [req |-> None, res |-> None, at |-> 0]

Later(a, b) == IF a < b THEN b ELSE a
Saturate(t) == IF t > MaxTime THEN MaxTime ELSE t

-----------------------------------------------------------------------------
(* The table.                                                              *)

Present(t) == {k \in Key : t[k].state # "absent"}
Live(t) == {k \in Key : t[k].state \in LiveStates}
BytesIn(t, S) == MapThenSumSet(LAMBDA k : t[k].bytes, S)

\* INTEGER PRIMARY KEY without AUTOINCREMENT: one more than the largest id in
\* the table, 1 when it is empty.
IsNextId(t, n) ==
    /\ \A k \in Present(t) : t[k].id < n
    /\ n = 1 \/ \E k \in Present(t) : t[k].id = n - 1

\* COALESCE(MAX(next_retry_ms), 0) over the live rows.
IsWatermark(t, w) ==
    /\ \A k \in Live(t) : t[k].next <= w
    /\ w = 0 \/ \E k \in Live(t) : t[k].next = w

\* Mutants of Sweepable: no anchor exception; uncertain rows are swept too.
SweepableAnchors(t) ==
    {k \in Key : t[k].state \in {"sent", "failed"} /\ t[k].updated < clock - Retention}
SweepableUncertain(t) ==
    {k \in Key : t[k].state \in TerminalStates /\ t[k].updated < clock - Retention}

\* sweep_terminal_rows_inline: over-age sent/failed rows, except a progress row
\* that a live update or finalize still names as its anchor.
Sweepable(t) ==
    {k \in Key :
        /\ t[k].state \in {"sent", "failed"}
        /\ t[k].updated < clock - Retention
        /\ ~ /\ t[k].op \in {"progress", "update"}
             /\ \E l \in Live(t) : t[l].op \in Patches /\ AnchorOf[l] = k}

\* The SweepBatch oldest of them, by (updated_ms, id).
IsSweep(t, D) ==
    LET before(k, l) == \/ t[k].updated < t[l].updated
                        \/ t[k].updated = t[l].updated /\ t[k].id < t[l].id
        C == Sweepable(t)
    IN  /\ D \subseteq C
        /\ Cardinality(D) = IF Cardinality(C) < SweepBatch THEN Cardinality(C)
                                                         ELSE SweepBatch
        /\ \A k \in D, l \in C \ D : before(k, l)

Deleted(t, D) == [k \in Key |-> IF k \in D THEN NoRow(k) ELSE t[k]]

FitsTotal(t, k) ==
    /\ Cardinality(Present(t)) + 1 <= TotalMaxRows
    /\ BytesIn(t, Present(t)) + BytesOf[k] <= TotalMaxBytes

FitsQueue(t, k) ==
    /\ Cardinality(Live(t)) < StoreMaxRows
    /\ BytesIn(t, Live(t)) + BytesOf[k] <= StoreMaxBytes

Sweeps(t) == {Deleted(t, D) : D \in {S \in SUBSET Sweepable(t) : IsSweep(t, S)}}

\* enforce_total_cap: the table after the one bounded inline sweep, if it fits.
EnforceTotalCap(t, k) ==
    IF FitsTotal(t, k) THEN {t} ELSE {u \in Sweeps(t) : FitsTotal(u, k)}

\* Mutant of InsertRow: the retry watermark is not applied.
InsertRowNow(t, k, n, w) ==
    [t EXCEPT ![k] = [NoRow(k) EXCEPT !.state = "pending", !.id = n, !.bytes = BytesOf[k]]]

\* Every producer passes next_retry_ms = 0, so the row inherits the watermark.
InsertRow(t, k, n, w) ==
    [t EXCEPT ![k] = [NoRow(k) EXCEPT !.state = "pending", !.id = n,
                                      !.bytes = BytesOf[k], !.next = w]]

\* enqueue_one inside an open transaction: the possible tables after it; none
\* when a capacity check fails and the transaction rolls back.
EnqueueOne(t, k) ==
    IF k \in Present(t) THEN {t}                                  \* Duplicate
    ELSE IF ~FitsQueue(t, k) THEN {}
    ELSE UNION {{InsertRow(u, k, n, w) :
                    n \in {i \in 1..MaxRowId : IsNextId(u, i)},
                    w \in {m \in Times : IsWatermark(u, m)}} :
                u \in EnforceTotalCap(t, k)}

\* claim_outbox_batch: due pending rows in id order up to the first one that
\* crosses the count or the byte limit.
Due(t) == {k \in Key : t[k].state = "pending" /\ t[k].next <= clock}

IsClaim(t, C) ==
    /\ C \subseteq Due(t)
    /\ \A k \in C, l \in Due(t) \ C : t[k].id < t[l].id
    /\ Cardinality(C) <= ClaimMaxBatch
    /\ BytesIn(t, C) <= ClaimMaxBytes
    /\ \A k \in Due(t) \ C :
          (\A l \in Due(t) \ C : t[k].id <= t[l].id) =>
              \/ Cardinality(C) >= ClaimMaxBatch
              \/ BytesIn(t, C) + t[k].bytes > ClaimMaxBytes

ClaimRows(t, C) == [k \in Key |-> IF k \in C THEN [t[k] EXCEPT !.state = "sending"]
                                             ELSE t[k]]

CompleteOutbox(t, k) == [t EXCEPT ![k].state = "sent", ![k].updated = clock]
FailOutboxTerminal(t, k) == [t EXCEPT ![k].state = "failed", ![k].updated = clock]
FailOutboxUncertain(t, k) ==
    [t EXCEPT ![k].state = "uncertain_delivery", ![k].attempts = @ + 1,
              ![k].next = clock]

\* Mutant of ReleaseOutboxClaim: a state text OutboxState::parse does not know.
ReleaseOutboxClaimUnknown(t, k) == [t EXCEPT ![k].state = "released", ![k].next = clock]
ReleaseOutboxClaim(t, k) == [t EXCEPT ![k].state = "pending", ![k].next = clock]

\* Mutant of ParkSuccessors: only rows not yet claimed are parked.
ParkPendingSuccessors(t, k, at) ==
    [l \in Key |-> IF t[l].state = "pending" /\ t[l].id > t[k].id
                   THEN [t[l] EXCEPT !.next = Later(@, at)] ELSE t[l]]

\* The rows after k that are live go back to pending, due no earlier than at.
ParkSuccessors(t, k, at) ==
    [l \in Key |-> IF l \in Live(t) /\ t[l].id > t[k].id
                   THEN [t[l] EXCEPT !.state = "pending", !.next = Later(@, at)]
                   ELSE t[l]]

\* Mutant of FailOutboxAndDeferSuccessors: the attempt is not counted.
FailOutboxUncounted(t, k, at) ==
    [ParkSuccessors(t, k, at) EXCEPT ![k] = [t[k] EXCEPT !.state = "pending", !.next = at]]

FailOutboxAndDeferSuccessors(t, k, at) ==
    IF t[k].attempts + 1 < MaxAttempts
    THEN [ParkSuccessors(t, k, at) EXCEPT
            ![k] = [t[k] EXCEPT !.state = "pending", !.attempts = @ + 1, !.next = at]]
    ELSE [t EXCEPT ![k] = [t[k] EXCEPT !.state = "failed", !.attempts = @ + 1,
                                       !.next = at, !.updated = clock]]

\* Mutant of FitsFallback: the longer payload is not counted against the caps.
FitsFallbackUnchecked(t, k) == TRUE

FitsFallback(t, k) ==
    LET delta == Later(0, FallbackBytes - t[k].bytes)
    IN  /\ BytesIn(t, Live(t)) + delta <= StoreMaxBytes
        /\ BytesIn(t, Present(t)) + delta <= TotalMaxBytes

ReplaceOutboxWithFallback(t, k) ==
    [ParkSuccessors(t, k, clock) EXCEPT
        ![k] = [t[k] EXCEPT !.state = "pending", !.op = "reply", !.attempts = 0,
                            !.bytes = FallbackBytes, !.next = clock]]

\* Mutant of RecoverSendingOutbox: stranded rows are sent again.
RecoverAsPending(t) ==
    [k \in Key |-> IF t[k].state = "sending" THEN [t[k] EXCEPT !.state = "pending"]
                                            ELSE t[k]]

RecoverSendingOutbox(t) ==
    [k \in Key |-> IF t[k].state = "sending"
                   THEN [t[k] EXCEPT !.state = "uncertain_delivery"] ELSE t[k]]

-----------------------------------------------------------------------------
(* The pump.                                                               *)

\* retry_delay_ms: base << min(attempts - 1, 10), capped; attempts counts the
\* attempt that just failed.
Shift == <<1, 2, 4, 8, 16, 32, 64, 128, 256, 512, 1024>>
RetryDelay(attempts) ==
    LET exponent == IF attempts - 1 > 10 THEN 10 ELSE attempts - 1
        scaled == RetryBase * Shift[exponent + 1]
    IN  IF scaled < RetryMax THEN scaled ELSE RetryMax
RetryAt(k) == Saturate(answer.at + RetryDelay(outbox[k].attempts + 1))

\* progress_anchor: what an update or finalize finds in its anchor row.
ProgressAnchor(k) ==
    LET a == outbox[AnchorOf[k]]
    IN  IF a.state = "absent" \/ a.id >= outbox[k].id \/ a.op # "progress"
        THEN "dep_permanent"
        ELSE CASE a.state = "sent" -> "patch"
               [] a.state \in LiveStates -> "dep_pending"
               [] a.state = "failed" ->
                    IF outbox[k].op = "finalize" THEN "post" ELSE "dep_permanent"
               [] a.state = "uncertain_delivery" -> "dep_uncertain"

\* What send() does for row k before it reaches the provider.
Plan(k) ==
    CASE outbox[k].op = "undecodable" -> "undecodable"
      [] outbox[k].op \in {"reply", "progress"} -> "post"
      [] outbox[k].op \in Patches -> ProgressAnchor(k)

\* process_row, record_card_patch_failure and record_final_card_patch_failure:
\* how the result of a send is recorded.  A 429 and a 5xx are patch_retryable
\* (delivery_error in src/channel/native.rs).
Verdict(k) ==
    LET budget == outbox[k].attempts + 1 < MaxAttempts
        r == answer.res
    IN  CASE r = "ok" -> "complete"
          [] r \in {"undecodable", "dep_permanent"} -> "permanent"
          [] r = "dep_pending" -> "retry"
          [] r = "dep_uncertain" -> "uncertain"
          [] answer.req = "patch" /\ r \in {"rate_limited", "server_error"} /\ budget
                -> "retry"
          [] r \in Unknowns -> "uncertain"
          [] answer.req = "post" /\ r = "rate_limited" -> "retry"
          [] answer.req = "post" /\ r = "rejected" -> "permanent"
          [] answer.req = "patch" /\ r \in Rejections /\ (r = "rejected" \/ ~budget)
                -> IF outbox[k].op = "finalize" THEN "fallback" ELSE "permanent"

\* The table the receipt transaction commits.
Receipt(k) ==
    CASE Verdict(k) = "complete" -> CompleteOutbox(outbox, k)
      [] Verdict(k) = "permanent" -> FailOutboxTerminal(outbox, k)
      [] Verdict(k) = "uncertain" -> FailOutboxUncertain(outbox, k)
      [] Verdict(k) = "retry" -> FailOutboxAndDeferSuccessors(outbox, k, RetryAt(k))
      [] Verdict(k) = "fallback" -> ReplaceOutboxWithFallback(outbox, k)

\* ProcessOutcome::Deferred: the receipt already returned the claimed tail.
Deferred(k) ==
    \/ Verdict(k) = "retry" /\ outbox[k].attempts + 1 < MaxAttempts
    \/ Verdict(k) = "fallback"

First(S) == {k \in S : \A l \in S : outbox[k].id <= outbox[l].id}
AfterRow(rest) == IF rest = {} THEN "idle" ELSE "batch"
Fault == faults > 0 /\ faults' = faults - 1

\* run_sized and writer_main: one job whose transaction leaves table t.  It
\* succeeds; or the caller sees an error because the writer is gone, because the
\* queue is full or SQLite refuses, or because a sidecar validation around the
\* job fails and the writer leaves its loop, before the job or after its commit.
StoreJob(t, ok) ==
    \/ ok /\ storeUp /\ outbox' = t /\ UNCHANGED <<storeUp, faults>>
    \/ ~ok /\ ~storeUp /\ UNCHANGED <<outbox, storeUp, faults>>
    \/ ~ok /\ storeUp /\ Fault /\ UNCHANGED <<outbox, storeUp>>
    \/ ~ok /\ storeUp /\ WriterMayDie /\ Fault /\ storeUp' = FALSE /\ outbox' \in {outbox, t}

Init ==
    /\ outbox = [k \in Key |-> NoRow(k)]
    /\ storeUp = TRUE
    /\ clock = 0
    /\ connected = FALSE
    /\ shutdown = FALSE
    /\ pc = "idle"
    /\ claimed = {}
    /\ cur = None
    /\ answer = NoAnswer
    /\ accepted = {}
    /\ faults = MaxFaults

\* The reply sink enqueues one row.  It names an anchor only after the anchor's
\* own enqueue succeeded (progress_sequence in run_turn).
Enqueue(k, ok) ==
    /\ pc # "down"
    /\ \A p \in FinalPairs : k \notin {p[1], p[2]}
    /\ OpOf[k] \in Patches => AnchorOf[k] \in accepted
    /\ \E t \in EnqueueOne(outbox, k) : StoreJob(t, ok)
    /\ accepted' = IF ok /\ OpOf[k] = "progress" THEN accepted \cup {k} ELSE accepted
    /\ UNCHANGED <<clock, connected, shutdown, pc, claimed, cur, answer>>

\* enqueue_outbox_batch: all parts of an answer in one transaction.
EnqueueBatch(p, ok) ==
    /\ pc # "down"
    /\ OpOf[p[1]] \in Patches => AnchorOf[p[1]] \in accepted
    /\ \E u \in EnqueueOne(outbox, p[1]) :
          \E t \in EnqueueOne(u, p[2]) : StoreJob(t, ok)
    /\ UNCHANGED <<clock, connected, shutdown, pc, claimed, cur, answer, accepted>>

\* run_maintenance: one bounded retention batch; any time, connected or not.
\* A failed sweep is retried, so only the successful one is a step.
Sweep ==
    /\ pc # "down"
    /\ Sweepable(outbox) # {}
    /\ \E t \in Sweeps(outbox) : StoreJob(t, TRUE)
    /\ UNCHANGED <<clock, connected, shutdown, pc, claimed, cur, answer, accepted>>

Claim(ok) ==
    /\ pc = "idle" /\ ~shutdown /\ connected
    /\ \E C \in SUBSET Due(outbox) :
        /\ C # {} /\ IsClaim(outbox, C)
        /\ StoreJob(ClaimRows(outbox, C), ok)
        /\ claimed' = IF ok THEN C ELSE {}
    /\ pc' = IF ok THEN "batch" ELSE "idle"
    /\ UNCHANGED <<clock, connected, shutdown, cur, answer, accepted>>

\* process_row up to the request: StartSend(k, FALSE) is the case where reading
\* the anchor row fails, which is retried like a pending dependency.
StartSend(k, readOk) ==
    /\ pc = "batch" /\ ~shutdown /\ connected
    /\ k \in First(claimed)
    /\ claimed' = claimed \ {k}
    /\ cur' = k
    /\ LET needsRead == outbox[k].op \in Patches
           plan == IF readOk THEN Plan(k) ELSE "dep_pending"
       IN  /\ IF readOk THEN (needsRead => storeUp) /\ UNCHANGED faults
                        ELSE needsRead /\ (IF storeUp THEN Fault ELSE UNCHANGED faults)
           /\ IF plan \in {"post", "patch"}
              THEN /\ pc' = "inflight"
                   /\ answer' = [req |-> plan, res |-> None, at |-> 0]
                   /\ outbox' = IF plan = "post" THEN [outbox EXCEPT ![k].posts = @ + 1]
                                               ELSE [outbox EXCEPT ![k].patches = @ + 1]
              ELSE /\ pc' = "receipt"
                   /\ answer' = [req |-> None, res |-> plan, at |-> clock]
                   /\ UNCHANGED outbox
    /\ UNCHANGED <<storeUp, clock, connected, shutdown, accepted>>

\* OutboundDelivery::deliver returns.
LarkAnswers(res) ==
    /\ pc = "inflight"
    /\ answer' = [answer EXCEPT !.res = res, !.at = clock]
    /\ outbox' = IF res \notin Rejections THEN outbox
                 ELSE IF answer.req = "post" THEN [outbox EXCEPT ![cur].posts = @ - 1]
                 ELSE [outbox EXCEPT ![cur].patches = @ - 1]
    /\ pc' = "receipt"
    /\ UNCHANGED <<storeUp, env, claimed, cur, accepted>>

\* require_sending and, for a fallback, the byte caps: else the job is refused.
ReceiptAllowed ==
    /\ outbox[cur].state = "sending"
    /\ Verdict(cur) = "fallback" => FitsFallback(outbox, cur)

\* write_receipt: recorded within STORE_RECEIPT_WRITE_ATTEMPTS, or given up, and
\* then the batch goes on as if the row were resolved.
WriteReceipt(ok) ==
    /\ pc = "receipt"
    /\ \/ ReceiptAllowed /\ StoreJob(Receipt(cur), ok)
       \/ ~ReceiptAllowed /\ ~ok /\ UNCHANGED <<store, faults>>
    /\ claimed' = IF ok /\ Deferred(cur) THEN {} ELSE claimed
    /\ pc' = AfterRow(claimed')
    /\ cur' = None /\ answer' = NoAnswer
    /\ UNCHANGED <<clock, connected, shutdown, accepted>>

\* Shutdown or a disconnect is seen between two rows of a batch.
BeginRelease ==
    /\ pc = "batch" /\ (shutdown \/ ~connected)
    /\ pc' = "releasing"
    /\ UNCHANGED <<store, env, claimed, cur, answer, accepted>>

\* release_tail, one row: the release is written or only logged as failed.
ReleaseTail(k, ok) ==
    /\ pc = "releasing" /\ k \in First(claimed)
    /\ IF outbox[k].state = "sending" THEN StoreJob(ReleaseOutboxClaim(outbox, k), ok)
                                    ELSE ~ok /\ UNCHANGED <<store, faults>>
    /\ claimed' = claimed \ {k}
    /\ pc' = IF claimed' = {} THEN "idle" ELSE "releasing"
    /\ UNCHANGED <<clock, connected, shutdown, cur, answer, accepted>>

\* The loop breaks and the process ends.
Stop ==
    /\ pc = "idle" /\ shutdown
    /\ pc' = "down"
    /\ UNCHANGED <<store, env, claimed, cur, answer, accepted>>

Crash ==
    /\ pc # "down" /\ Fault
    /\ pc' = "down"
    /\ claimed' = {} /\ cur' = None /\ answer' = NoAnswer
    /\ UNCHANGED <<store, clock, connected, shutdown, accepted>>

\* A new process opens the store and its pump recovers; a failed recovery is
\* only logged.
Start ==
    /\ pc = "down"
    /\ pc' = "idle"
    /\ storeUp' = TRUE /\ shutdown' = FALSE /\ connected' = FALSE
    /\ accepted' = {}
    /\ \/ outbox' = RecoverSendingOutbox(outbox) /\ UNCHANGED faults
       \/ UNCHANGED outbox /\ Fault
    /\ UNCHANGED <<clock, claimed, cur, answer>>

RequestShutdown ==
    /\ pc # "down" /\ ~shutdown /\ Fault
    /\ shutdown' = TRUE
    /\ UNCHANGED <<store, clock, connected, pc, claimed, cur, answer, accepted>>

Connect ==
    /\ pc # "down" /\ ~connected
    /\ connected' = TRUE
    /\ UNCHANGED <<store, clock, shutdown, faults, pc, claimed, cur, answer, accepted>>

Disconnect ==
    /\ connected /\ Fault
    /\ connected' = FALSE
    /\ UNCHANGED <<store, clock, shutdown, pc, claimed, cur, answer, accepted>>

Tick ==
    /\ clock' = Saturate(clock + 1)
    /\ UNCHANGED <<store, connected, shutdown, faults, pc, claimed, cur, answer, accepted>>

\* SystemTime is not monotonic.
SetClockBack ==
    /\ ClockStepsBack /\ Fault
    /\ clock' \in 0..(clock - 1)
    /\ UNCHANGED <<store, connected, shutdown, pc, claimed, cur, answer, accepted>>

Pump ==
    \/ \E ok \in BOOLEAN : Claim(ok)
    \/ \E k \in Key, readOk \in BOOLEAN : StartSend(k, readOk)
    \/ \E res \in Answers : LarkAnswers(res)
    \/ \E ok \in BOOLEAN : WriteReceipt(ok)
    \/ BeginRelease
    \/ \E k \in Key, ok \in BOOLEAN : ReleaseTail(k, ok)
    \/ Stop

Environment ==
    Crash \/ Start \/ RequestShutdown \/ Connect \/ Disconnect \/ Tick \/ SetClockBack

Next ==
    \/ \E k \in Key, ok \in BOOLEAN : Enqueue(k, ok)
    \/ \E p \in FinalPairs, ok \in BOOLEAN : EnqueueBatch(p, ok)
    \/ Sweep
    \/ Pump
    \/ Environment

Spec == Init /\ [][Next]_vars

\* The pump task is polled whenever it can run and a request ends within the HTTP
\* timeout; time passes; the transport keeps reconnecting.  Nothing is assumed
\* of the producers, the sweep or a restart.
Fairness == WF_vars(Pump) /\ WF_vars(Tick) /\ WF_vars(Connect)
FairSpec == Spec /\ Fairness

-----------------------------------------------------------------------------
(* Properties.                                                             *)

\* Every variable has its type; in particular the table only ever holds the state
\* texts that OutboxState::parse reads back.
TypeOK ==
    /\ outbox \in Table
    /\ storeUp \in BOOLEAN /\ connected \in BOOLEAN /\ shutdown \in BOOLEAN
    /\ clock \in Times
    /\ pc \in {"idle", "batch", "inflight", "receipt", "releasing", "down"}
    /\ claimed \subseteq Key
    /\ cur \in Key \cup {None}
    /\ answer \in Answer
    /\ accepted \subseteq Key
    /\ faults \in 0..MaxFaults

\* No row is ever POSTed again once Lark may have applied a POST of it: not by a
\* retry, a lost receipt, the re-parking of a claimed tail, a crash or a restart
\* (fail_outbox, recover_sending_outbox, fail_outbox_and_defer_successors).
AtMostOncePost == \A k \in Key : outbox[k].posts <= 1

\* A row parked for a retry holds back every later live row until that time
\* (the successor update of fail_outbox_and_defer_successors and the watermark of
\* enqueue_one).
ParkedRowHoldsSuccessors ==
    \A i, j \in Live(outbox) :
        outbox[i].id < outbox[j].id /\ outbox[i].next > clock
            => outbox[i].next <= outbox[j].next

\* Global FIFO: when the pump puts a row on the wire, no row with a smaller id is
\* still pending (claim_outbox_batch, release_tail, the retry watermark).
NothingOvertakes ==
    pc = "batch" /\ pc' = "inflight" =>
        \A l \in Key : outbox[l].state = "pending" => outbox[cur'].id < outbox[l].id
SendsInOrder == [][NothingOvertakes]_vars

\* A settled row changes its state only by retention: it is sent or failed and
\* over age, it is deleted, and only the same transaction may use its key again,
\* when the first part of an answer swept the row of the second.  The evidence of an
\* uncertain delivery stays (sweep_terminal_rows_inline, enqueue_one on a duplicate
\* key, enqueue_outbox_batch).
SettledRowsStay ==
    \A k \in Key :
        outbox[k].state \in TerminalStates /\ outbox'[k].state # outbox[k].state =>
            /\ outbox[k].state # "uncertain_delivery"
            /\ outbox[k].updated < clock - Retention
            /\ \/ outbox'[k].state = "absent"
               \/ outbox'[k].state = "pending" /\ \E p \in FinalPairs : k = p[2]
SettledStays == [][SettledRowsStay]_vars

\* No sweep, not even the one inside another row's enqueue, deletes the anchor
\* that a live update or finalize still needs (sweep_terminal_rows_inline).
NeededAnchorsStay ==
    \A k \in Live(outbox) :
        outbox[k].op \in Patches /\ AnchorOf[k] \in Present(outbox)
            => outbox'[AnchorOf[k]].state # "absent"
AnchorSurvives == [][NeededAnchorsStay]_vars

\* The durable bounds hold in every state, also after a fallback has replaced a
\* payload by a longer one (enqueue_one, enforce_total_cap,
\* replace_outbox_with_fallback).
RowsBounded ==
    /\ Cardinality(Live(outbox)) <= StoreMaxRows
    /\ Cardinality(Present(outbox)) <= TotalMaxRows
BytesBounded ==
    /\ BytesIn(outbox, Live(outbox)) <= StoreMaxBytes
    /\ BytesIn(outbox, Present(outbox)) <= TotalMaxBytes
CapacityBounded == RowsBounded /\ BytesBounded

\* A row whose receipt or release was lost: no step of this process settles it.
Stranded(k) == outbox[k].state = "sending" /\ k \notin claimed /\ cur # k

\* Every pending row is eventually settled, unless its receipt was lost, the
\* writer is gone or the process ends (run, retry_delay_ms, the attempt budget).
RowsSettle ==
    \A k \in Key :
        outbox[k].state = "pending" ~>
            \/ outbox[k].state \in TerminalStates
            \/ Stranded(k)
            \/ ~storeUp
            \/ pc = "down"

\* A final answer reaches the user at most once: as the edited card or as a
\* standalone post, never both (record_final_card_patch_failure).
FinalVisibleOnce ==
    \A k \in Key : OpOf[k] = "finalize" => outbox[k].posts = 0 \/ outbox[k].patches = 0

-----------------------------------------------------------------------------
(* The inductive invariant behind AtMostOncePost and SendsInOrder.         *)

Processing == {k \in Key : k = cur}
MayBePosted(k) == outbox[k].state = "sending" /\ outbox[k].posts > 0

\* Row ids identify rows.
IdsUnique ==
    \A i, j \in Present(outbox) : outbox[i].id = outbox[j].id => i = j

\* What the pump holds in memory, and what it knows of the row it processes.
PumpHolds ==
    /\ pc \in {"idle", "down"} => claimed = {}
    /\ pc \in {"inflight", "receipt"} <=> cur # None
    /\ \A k \in claimed \cup Processing : outbox[k].state = "sending"
    /\ cur \notin claimed
    /\ pc = "inflight" => answer.req # None /\ answer.res = None
    /\ pc = "receipt" =>
          IF answer.req = None THEN answer.res \in Dependencies \cup {"undecodable"}
                               ELSE answer.res \in Answers

\* The number of POSTs that may have been applied, by the state of a row.
PostsKnown ==
    /\ \A k \in Key : outbox[k].state \in {"absent", "pending"} => outbox[k].posts = 0
    /\ \A k \in claimed : outbox[k].posts = 0
    /\ \A k \in Processing :
          outbox[k].posts =
              IF answer.req = "post" /\ answer.res \notin Rejections THEN 1 ELSE 0
    /\ \A k \in Processing :
          pc = "inflight" /\ answer.req = "patch" => outbox[k].patches > 0

\* A claimed row is due: only time moves while it is in the pump's hands.
SendingDue == \A k \in Key : outbox[k].state = "sending" => outbox[k].next <= clock

\* Until a release starts, the claim is a prefix of the live rows the pump may
\* still send, and the row being processed is the first of it.
ClaimIsPrefix ==
    pc # "releasing" =>
        \A c \in claimed \cup Processing, p \in Key :
            (outbox[p].state = "pending" \/ (p \in claimed /\ c \in Processing))
                => outbox[c].id < outbox[p].id

\* A sending row that may have been posted, be it in flight or stranded, lies
\* below every row that can still be sent: no retry can park it as pending.
PostedBelow ==
    \A s, p \in Key :
        MayBePosted(s) /\ s # p /\ (outbox[p].state = "pending" \/ p \in claimed \cup Processing)
            => outbox[s].id < outbox[p].id

IInv ==
    /\ TypeOK
    /\ IdsUnique
    /\ PumpHolds
    /\ PostsKnown
    /\ ParkedRowHoldsSuccessors
    /\ SendingDue
    /\ ClaimIsPrefix
    /\ PostedBelow
    /\ AtMostOncePost

-----------------------------------------------------------------------------
(* The part that survives a clock set back and a writer that commits and    *)
(* reports an error: the invariant behind SettledStays, AnchorSurvives and  *)
(* RowsBounded.                                                             *)

\* The rows in the pump's hands are live, whatever their receipt came to, and what
\* the request in flight counted is still counted.
HeldLive ==
    /\ pc \in {"idle", "down"} => claimed = {}
    /\ pc \in {"inflight", "receipt"} <=> cur # None
    /\ claimed \cup Processing \subseteq Live(outbox)
    /\ cur \notin claimed
    /\ pc = "inflight" =>
          \A k \in Processing : \/ answer.req = "post" /\ outbox[k].posts > 0
                                \/ answer.req = "patch" /\ outbox[k].patches > 0
    /\ pc = "receipt" =>
          IF answer.req = None THEN answer.res \in Dependencies \cup {"undecodable"}
                               ELSE answer.res \in Answers

\* A row's operation is the one its producer gave it, or the post that replaced a
\* finalize; and what a live update or finalize names as its anchor is a progress row.
OpsKnown ==
    /\ \A k \in accepted : OpOf[k] = "progress"
    /\ \A k \in Key : outbox[k].op = OpOf[k] \/ (OpOf[k] = "finalize" /\ outbox[k].op = "reply")
    /\ \A k \in Live(outbox) : outbox[k].op \in Patches => OpOf[AnchorOf[k]] = "progress"

WInv == TypeOK /\ HeldLive /\ OpsKnown /\ RowsBounded
=============================================================================
