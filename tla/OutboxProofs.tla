---------------------------- MODULE OutboxProofs ----------------------------
(***************************************************************************)
(* Proofs about Outbox for every key set, payload size, cap, batch size,   *)
(* attempt budget, retry schedule and number of faults.  The first half,   *)
(* on what is sent, assumes a clock that does not step back and a writer   *)
(* that reports what it committed; the second, on what the table keeps,    *)
(* assumes neither.                                                        *)
(***************************************************************************)
EXTENDS Outbox, FiniteSetTheorems, TLAPS

Reliable == ~ClockStepsBack /\ ~WriterMayDie

LEMMA LaterType ==
    ASSUME NEW a \in Times, NEW b \in Times
    PROVE  Later(a, b) \in Times /\ Later(a, b) \in {a, b} /\ a <= Later(a, b) /\ b <= Later(a, b)
BY OutboxAssumption DEF Later, Times

LEMMA SaturateType == ASSUME NEW a \in Nat PROVE Saturate(a) \in Times
BY OutboxAssumption DEF Saturate, Times

LEMMA RetryDelayType == ASSUME NEW n \in Nat \ {0} PROVE RetryDelay(n) \in Nat
<1> DEFINE e == IF n - 1 > 10 THEN 10 ELSE n - 1
<1>1. e + 1 \in 1..11 OBVIOUS
<1>2. \A i \in 1..11 : Shift[i] \in Nat BY DEF Shift
<1>3. Shift[e + 1] \in Nat BY <1>1, <1>2
<1> HIDE DEF e
<1>4. RetryBase \in Nat /\ RetryMax \in Nat BY OutboxAssumption
<1> QED BY <1>3, <1>4 DEF RetryDelay, e

LEMMA NoRowType == ASSUME NEW k \in Key PROVE NoRow(k) \in Row
BY OutboxAssumption DEF NoRow, Row, Ops, States, Times

LEMMA InitInv == Init => IInv
<1> SUFFICES ASSUME Init PROVE IInv
  OBVIOUS
<1> USE DEF Init
<1>0. outbox \in Table /\ NoAnswer \in Answer /\ 0 \in Times /\ MaxFaults \in 0..MaxFaults
  BY NoRowType, OutboxAssumption DEF Table, Answer, NoAnswer, Times, None
<1>1. TypeOK
  BY <1>0 DEF TypeOK, None
<1>2. outbox \in Table /\ \A k \in Key : outbox[k].state = "absent" /\ outbox[k].posts = 0
  BY <1>1 DEF NoRow, TypeOK
<1>3. Present(outbox) = {} /\ Live(outbox) = {}
  BY <1>2 DEF Present, Live, LiveStates
<1>4. Processing = {}
  BY OutboxAssumption DEF Processing, None
<1>5. PumpHolds
  BY <1>4 DEF PumpHolds, None
<1> HIDE DEF Init
<1>6. claimed = {}
  BY DEF Init
<1> QED
  BY <1>1, <1>2, <1>3, <1>4, <1>5, <1>6 DEF IInv, IdsUnique, PostsKnown, SendingDue, AtMostOncePost,
     ParkedRowHoldsSuccessors, ClaimIsPrefix, PostedBelow, MayBePosted

\* Steps that leave the table and the pump's memory alone.
LEMMA QuietInv ==
    ASSUME IInv, UNCHANGED <<outbox, claimed, cur, answer>>,
           clock' \in Times /\ clock <= clock',
           storeUp' \in BOOLEAN, connected' \in BOOLEAN, shutdown' \in BOOLEAN,
           accepted' \subseteq Key, faults' \in 0..MaxFaults,
           \/ pc' = pc
           \/ pc = "batch" /\ pc' = "releasing"
           \/ pc = "idle" /\ pc' = "down"
           \/ pc = "down" /\ pc' = "idle"
    PROVE  IInv'
<1>1. TypeOK'
  BY DEF IInv, TypeOK
<1>2. IdsUnique' /\ PostsKnown' /\ PostedBelow' /\ AtMostOncePost'
  BY DEF IInv, IdsUnique, PostsKnown, PostedBelow, AtMostOncePost, Present, Processing,
         MayBePosted
<1>3. PumpHolds'
  BY DEF IInv, PumpHolds, Processing
<1>4. ClaimIsPrefix'
  BY DEF IInv, PumpHolds, ClaimIsPrefix, Processing
<1>5. \A k \in Key : outbox[k].next \in Nat /\ clock \in Nat /\ clock' \in Nat
  BY OutboxAssumption DEF IInv, TypeOK, Table, Row, Times
<1>6. SendingDue'
  BY <1>5 DEF IInv, SendingDue
<1>7. ParkedRowHoldsSuccessors'
  BY <1>5 DEF IInv, ParkedRowHoldsSuccessors, Live
<1> QED
  BY <1>1, <1>2, <1>3, <1>4, <1>6, <1>7 DEF IInv

\* Updates of one row keep its type.
LEMMA RowUpdates ==
    ASSUME NEW r \in Row, NEW s \in States, NEW n \in Nat, NEW x \in Times, NEW y \in Times
    PROVE  /\ [r EXCEPT !.state = s, !.next = x] \in Row
           /\ [r EXCEPT !.state = s, !.updated = x] \in Row
           /\ [r EXCEPT !.state = s, !.attempts = n, !.next = x] \in Row
           /\ [r EXCEPT !.state = s, !.attempts = n, !.next = x, !.updated = y] \in Row
           /\ [r EXCEPT !.state = s, !.op = "reply", !.attempts = 0, !.bytes = n, !.next = x] \in Row
           /\ [r EXCEPT !.posts = n] \in Row
           /\ [r EXCEPT !.patches = n] \in Row
<1>1. [r EXCEPT !.state = s, !.next = x] \in Row
  BY DEF Row
<1>2. [r EXCEPT !.state = s, !.updated = x] \in Row
  BY DEF Row
<1>3. [r EXCEPT !.state = s, !.attempts = n, !.next = x] \in Row
  BY DEF Row
<1>4. [r EXCEPT !.state = s, !.attempts = n, !.next = x, !.updated = y] \in Row
  BY DEF Row
<1>5. [r EXCEPT !.state = s, !.op = "reply", !.attempts = 0, !.bytes = n, !.next = x] \in Row
  <2>1. "reply" \in Ops /\ 0 \in Nat
    BY DEF Ops
  <2> QED
    BY <2>1 DEF Row
<1>6. [r EXCEPT !.posts = n] \in Row /\ [r EXCEPT !.patches = n] \in Row
  BY DEF Row
<1> QED
  BY <1>1, <1>2, <1>3, <1>4, <1>5, <1>6

\* The table operations keep the table's type.
LEMMA TableTypes ==
    ASSUME NEW t \in Table, NEW k \in Key, NEW at \in Times, clock \in Times
    PROVE  /\ CompleteOutbox(t, k) \in Table
           /\ FailOutboxTerminal(t, k) \in Table
           /\ FailOutboxUncertain(t, k) \in Table
           /\ ReleaseOutboxClaim(t, k) \in Table
           /\ ParkSuccessors(t, k, at) \in Table
           /\ FailOutboxAndDeferSuccessors(t, k, at) \in Table
           /\ ReplaceOutboxWithFallback(t, k) \in Table
           /\ RecoverSendingOutbox(t) \in Table
           /\ \A C \in SUBSET Key : ClaimRows(t, C) \in Table
<1> USE DEF Table
<1>0. /\ t[k] \in Row /\ t[k].attempts + 1 \in Nat
      /\ \A s \in {"pending", "sent", "failed", "uncertain_delivery"} : s \in States
  BY DEF Row, States
<1>1. CompleteOutbox(t, k) \in Table /\ FailOutboxTerminal(t, k) \in Table
  BY <1>0, RowUpdates DEF CompleteOutbox, FailOutboxTerminal
<1>2. FailOutboxUncertain(t, k) \in Table /\ ReleaseOutboxClaim(t, k) \in Table
  BY <1>0, RowUpdates DEF FailOutboxUncertain, ReleaseOutboxClaim
<1>3. \A a \in Times : ParkSuccessors(t, k, a) \in Table
  <2> SUFFICES ASSUME NEW a \in Times, NEW l \in Key
               PROVE  [t[l] EXCEPT !.state = "pending", !.next = Later(@, a)] \in Row
    BY DEF ParkSuccessors
  <2>1. t[l].next \in Times BY DEF Row
  <2>2. Later(t[l].next, a) \in Times BY <2>1, LaterType
  <2> QED BY <2>2 DEF Row, States
<1>4. FailOutboxAndDeferSuccessors(t, k, at) \in Table
  <2>1. [t[k] EXCEPT !.state = "pending", !.attempts = @ + 1, !.next = at] \in Row
    BY <1>0, RowUpdates
  <2>2. [t[k] EXCEPT !.state = "failed", !.attempts = @ + 1, !.next = at, !.updated = clock] \in Row
    BY <1>0, RowUpdates
  <2> QED BY <1>3, <2>1, <2>2 DEF FailOutboxAndDeferSuccessors
<1>5. ReplaceOutboxWithFallback(t, k) \in Table
  <2>1. [t[k] EXCEPT !.state = "pending", !.op = "reply", !.attempts = 0,
                     !.bytes = FallbackBytes, !.next = clock] \in Row
    BY <1>0, RowUpdates, OutboxAssumption
  <2> QED BY <1>3, <2>1 DEF ReplaceOutboxWithFallback
<1>6. RecoverSendingOutbox(t) \in Table /\ \A C \in SUBSET Key : ClaimRows(t, C) \in Table
  BY DEF RecoverSendingOutbox, ClaimRows, Row, States
<1> QED
  BY <1>1, <1>2, <1>3, <1>4, <1>5, <1>6

\* A job that reports what it did leaves the new table or the old one.
LEMMA StoreJobEffect ==
    ASSUME Reliable, NEW t, NEW ok \in BOOLEAN, StoreJob(t, ok), TypeOK
    PROVE  /\ outbox' = IF ok THEN t ELSE outbox
           /\ storeUp' = storeUp
           /\ faults' \in 0..MaxFaults
BY OutboxAssumption DEF Reliable, StoreJob, Fault, TypeOK

\* What the inline sweep and the insert of an enqueue can do to the table.
LEMMA EnqueueOneEffect ==
    ASSUME NEW t \in Table, NEW k \in Key, NEW u \in EnqueueOne(t, k)
    PROVE  \/ u = t
           \/ \E D \in SUBSET Sweepable(t), n \in 1..MaxRowId, w \in Times :
                /\ k \notin Present(t)
                /\ IsNextId(Deleted(t, D), n) /\ IsWatermark(Deleted(t, D), w)
                /\ u = InsertRow(Deleted(t, D), k, n, w)
<1> SUFFICES ASSUME u # t PROVE \E D \in SUBSET Sweepable(t), n \in 1..MaxRowId, w \in Times :
                /\ k \notin Present(t)
                /\ IsNextId(Deleted(t, D), n) /\ IsWatermark(Deleted(t, D), w)
                /\ u = InsertRow(Deleted(t, D), k, n, w)
  OBVIOUS
<1>1. k \notin Present(t) /\ FitsQueue(t, k)
  BY DEF EnqueueOne
<1>2. PICK v \in EnforceTotalCap(t, k) :
        u \in {InsertRow(v, k, n, w) : n \in {i \in 1..MaxRowId : IsNextId(v, i)},
                                       w \in {m \in Times : IsWatermark(v, m)}}
  BY <1>1 DEF EnqueueOne
<1>3. PICK n \in 1..MaxRowId, w \in Times :
        IsNextId(v, n) /\ IsWatermark(v, w) /\ u = InsertRow(v, k, n, w)
  BY <1>2
<1>4. \E D \in SUBSET Sweepable(t) : v = Deleted(t, D)
  <2>1. Deleted(t, {}) = t
    BY DEF Deleted, Table
  <2>2. CASE v = t
    BY <2>1, <2>2
  <2>3. CASE v \in Sweeps(t)
    BY <2>3 DEF Sweeps
  <2> QED
    BY <2>2, <2>3 DEF EnforceTotalCap
<1> QED
  BY <1>1, <1>3, <1>4

\* The numbers the order arguments need.
LEMMA Numbers ==
    ASSUME NEW t \in Table
    PROVE  \A k \in Key : t[k].id \in Nat /\ t[k].next \in Nat /\ t[k].posts \in Nat
BY OutboxAssumption DEF Table, Row, Times

\* u is t after sweeps and enqueues: settled rows may vanish, and fresh rows are
\* pending, unsent, above every other row and no earlier than any live one.
Fresh(t, u) == {l \in Key : u[l].state = "pending" /\ t[l].state \notin LiveStates}
Grown(t, u) ==
    /\ u \in Table
    /\ \A l \in Fresh(t, u) : u[l].posts = 0
    /\ \A l \in Key \ Fresh(t, u) :
          \/ u[l] = t[l]
          \/ t[l].state \notin LiveStates /\ u[l].state = "absent" /\ u[l].posts = 0
    /\ \A j \in Fresh(t, u), i \in Present(u) :
          i # j => /\ u[i].id # u[j].id
                   /\ i \notin Fresh(t, u) => u[i].id < u[j].id
                   /\ i \in Live(u) /\ u[i].id < u[j].id => u[i].next <= u[j].next

LEMMA GrownBySweep ==
    ASSUME NEW t \in Table, NEW D \in SUBSET Sweepable(t), clock \in Times
    PROVE  /\ Grown(t, Deleted(t, D))
           /\ \A l \in Key : \/ Deleted(t, D)[l] = t[l]
                             \/ /\ t[l].state \notin LiveStates
                                /\ Deleted(t, D)[l].state = "absent"
                                /\ Deleted(t, D)[l].posts = 0
<1> DEFINE u == Deleted(t, D)
<1>1. u \in Table
  BY NoRowType DEF Deleted, Table
<1>2. \A l \in Key : \/ u[l] = t[l]
                     \/ t[l].state \notin LiveStates /\ u[l].state = "absent" /\ u[l].posts = 0
  BY DEF Deleted, NoRow, Sweepable, LiveStates
<1>3. Fresh(t, u) = {}
  BY <1>2 DEF Fresh, LiveStates
<1> QED
  BY <1>1, <1>2, <1>3 DEF Grown

LEMMA GrownByInsert ==
    ASSUME NEW t \in Table, NEW D \in SUBSET Sweepable(t), NEW k \in Key \ Present(t),
           NEW n \in 1..MaxRowId, NEW w \in Times, clock \in Times,
           IsNextId(Deleted(t, D), n), IsWatermark(Deleted(t, D), w)
    PROVE  Grown(t, InsertRow(Deleted(t, D), k, n, w))
<1> DEFINE v == Deleted(t, D)
           u == InsertRow(v, k, n, w)
<1>1. Grown(t, v) /\ v \in Table
  BY GrownBySweep DEF Grown
<1>a. \A l \in Key : \/ v[l] = t[l]
                     \/ t[l].state \notin LiveStates /\ v[l].state = "absent" /\ v[l].posts = 0
  BY GrownBySweep
<1>2. v[k].state = "absent" /\ t[k].state = "absent"
  BY DEF Deleted, Present, NoRow
<1>3. [NoRow(k) EXCEPT !.state = "pending", !.id = n, !.bytes = BytesOf[k], !.next = w] \in Row
  <2>1. n \in 0..MaxRowId /\ BytesOf[k] \in Nat /\ "pending" \in States
    BY OutboxAssumption DEF States
  <2> QED
    BY NoRowType, <2>1 DEF Row
<1>4. u \in Table
  BY <1>1, <1>3 DEF InsertRow, Table
<1>5. /\ u[k].state = "pending" /\ u[k].id = n /\ u[k].next = w /\ u[k].posts = 0
      /\ \A l \in Key \ {k} : u[l] = v[l]
  BY <1>1 DEF InsertRow, NoRow, Table
<1> HIDE DEF u, v
<1>6. \A l \in Key : t[l].state \in LiveStates => v[l] = t[l]
  BY <1>1 DEF Grown, Fresh, LiveStates
<1>7. \A l \in Key \ {k} : \/ u[l] = t[l]
                           \/ t[l].state \notin LiveStates /\ u[l].state = "absent" /\ u[l].posts = 0
  BY <1>5, <1>a
<1>8. Fresh(t, u) = {k}
  BY <1>2, <1>5, <1>7 DEF Fresh, LiveStates
<1>9. \A i \in Present(u) \ {k} : u[i].id < n /\ (i \in Live(u) => u[i].next <= w)
  BY <1>5 DEF IsNextId, IsWatermark, Present, Live, LiveStates, v
<1>10. \A i \in Key : u[i].id \in Nat /\ n \in Nat
  BY <1>4, Numbers, OutboxAssumption
<1> QED
  BY <1>4, <1>5, <1>7, <1>8, <1>9, <1>10 DEF Grown, u, v

LEMMA GrownTransitive ==
    ASSUME NEW t \in Table, NEW u, NEW v, Grown(t, u), Grown(u, v)
    PROVE  Grown(t, v)
<1>1. u \in Table /\ v \in Table
  BY DEF Grown
<1>2. \A l \in Key : u[l].state \in LiveStates => v[l] = u[l]
  BY DEF Grown, Fresh, LiveStates
<1>3. \A l \in Key : t[l].state \in LiveStates => u[l] = t[l]
  BY DEF Grown, Fresh, LiveStates
<1>4. Fresh(t, v) = Fresh(t, u) \cup Fresh(u, v)
  BY <1>2, <1>3 DEF Grown, Fresh, LiveStates
<1>5. \A l \in Fresh(t, v) : v[l].posts = 0
  BY <1>2, <1>4 DEF Grown, Fresh, LiveStates
<1>6. \A l \in Key \ Fresh(t, v) :
          \/ v[l] = t[l]
          \/ t[l].state \notin LiveStates /\ v[l].state = "absent" /\ v[l].posts = 0
  BY <1>2, <1>3, <1>4 DEF Grown, Fresh, LiveStates
<1>7. \A i \in Key \ Fresh(u, v) : i \in Present(v) => v[i] = u[i] /\ i \in Present(u)
  BY DEF Grown, Present
<1>8. ASSUME NEW j \in Fresh(t, v), NEW i \in Present(v), i # j
      PROVE  /\ v[i].id # v[j].id
             /\ i \notin Fresh(t, v) => v[i].id < v[j].id
             /\ i \in Live(v) /\ v[i].id < v[j].id => v[i].next <= v[j].next
  <2>1. CASE j \in Fresh(u, v)
    BY <1>4, <1>8, <2>1 DEF Grown
  <2>2. CASE j \notin Fresh(u, v) /\ i \notin Fresh(u, v)
    <3>0. i \in Key /\ j \in Key
      BY <1>8 DEF Present, Fresh
    <3>1. j \in Fresh(t, u) /\ i \in Present(u) /\ v[i] = u[i]
      BY <1>4, <1>7, <1>8, <2>2, <3>0
    <3>2. v[j] = u[j]
      BY <1>2, <3>1 DEF Fresh, LiveStates
    <3>3. i \in Live(v) => i \in Live(u)
      BY <3>1 DEF Live
    <3> QED
      BY <1>4, <1>8, <3>1, <3>2, <3>3 DEF Grown
  <2>3. CASE j \notin Fresh(u, v) /\ i \in Fresh(u, v)
    <3>1. j \in Present(v)
      BY <1>8 DEF Fresh, Present
    <3>2. v[j].id < v[i].id
      BY <1>8, <2>3, <3>1 DEF Grown
    <3>3. v[i].id \in Nat /\ v[j].id \in Nat /\ i \in Fresh(t, v)
      BY <1>1, <1>4, <1>8, <2>3, Numbers DEF Fresh
    <3> QED
      BY <3>2, <3>3
  <2> QED
    BY <2>1, <2>2, <2>3
<1> QED
  BY <1>1, <1>5, <1>6, <1>8 DEF Grown

\* Enqueues and sweeps keep the invariant, whatever the pump is doing.
LEMMA GrownInv ==
    ASSUME IInv, Grown(outbox, outbox'), storeUp' = storeUp, faults' \in 0..MaxFaults,
           accepted' \subseteq Key,
           UNCHANGED <<clock, connected, shutdown, pc, claimed, cur, answer>>
    PROVE  IInv'
<1> DEFINE t == outbox
           u == outbox'
<1>1. TypeOK'
  BY DEF IInv, TypeOK, Grown
<1>2. t \in Table /\ u \in Table /\ claimed \subseteq Key
  BY DEF IInv, TypeOK, Grown
<1>3. \A k \in Key : /\ t[k].id \in Nat /\ t[k].next \in Nat /\ t[k].posts \in Nat
                     /\ u[k].id \in Nat /\ u[k].next \in Nat /\ u[k].posts \in Nat
  BY <1>2, Numbers
<1>4. \A l \in Key : /\ t[l].state \in LiveStates => u[l] = t[l]
                     /\ l \in Live(u) => l \in Fresh(t, u) \/ (l \in Live(t) /\ u[l] = t[l])
                     /\ l \in Present(u) => l \in Fresh(t, u) \/ (l \in Present(t) /\ u[l] = t[l])
                     /\ u[l].state = "sending" => u[l] = t[l]
                     /\ l \in Fresh(t, u) => u[l].posts = 0 /\ u[l].state = "pending" /\ l \in Present(u)
                     /\ u[l].state = "pending" => l \in Fresh(t, u) \/ u[l] = t[l]
  BY DEF Grown, Fresh, LiveStates, Live, Present
<1>5. \A j \in Fresh(t, u), i \in Present(u) :
          i # j => /\ u[i].id # u[j].id
                   /\ i \notin Fresh(t, u) => u[i].id < u[j].id
                   /\ i \in Live(u) /\ u[i].id < u[j].id => u[i].next <= u[j].next
  BY DEF Grown
<1>6. Processing' = Processing /\ \A c \in claimed \cup Processing : c \in Key /\ t[c].state = "sending"
  BY <1>2 DEF Processing, IInv, PumpHolds
<1>7. \A c \in claimed \cup Processing : u[c] = t[c] /\ c \in Present(u) /\ c \notin Fresh(t, u)
  BY <1>4, <1>6 DEF LiveStates, Present, Fresh
<1>8. IdsUnique'
  <2> SUFFICES ASSUME NEW i \in Present(u), NEW j \in Present(u), u[i].id = u[j].id PROVE i = j
    BY DEF IdsUnique
  <2>1. i \in Key /\ j \in Key
    BY DEF Present
  <2>2. CASE i \notin Fresh(t, u) /\ j \notin Fresh(t, u)
    BY <1>4, <2>1, <2>2 DEF IInv, IdsUnique
  <2> QED
    BY <1>5, <2>1, <2>2
<1>9. PumpHolds'
  BY <1>6, <1>7 DEF PumpHolds, IInv
<1>10. PostsKnown'
  <2>1. \A k \in Key : u[k].state \in {"absent", "pending"} => u[k].posts = 0
    BY DEF Grown, IInv, PostsKnown
  <2> QED
    BY <1>6, <1>7, <2>1 DEF PostsKnown, IInv
<1>11. ParkedRowHoldsSuccessors'
  <2> SUFFICES ASSUME NEW i \in Live(u), NEW j \in Live(u), u[i].id < u[j].id, u[i].next > clock
               PROVE  u[i].next <= u[j].next
    BY DEF ParkedRowHoldsSuccessors
  <2>1. i \in Key /\ j \in Key /\ i \in Present(u) /\ j \in Present(u)
    BY DEF Live, Present, LiveStates
  <2>2. CASE j \in Fresh(t, u)
    BY <1>3, <1>5, <2>1, <2>2
  <2>3. CASE j \notin Fresh(t, u) /\ i \in Fresh(t, u)
    BY <1>3, <1>5, <2>1, <2>3
  <2>4. CASE j \notin Fresh(t, u) /\ i \notin Fresh(t, u)
    BY <1>4, <2>1, <2>4 DEF IInv, ParkedRowHoldsSuccessors
  <2> QED
    BY <2>2, <2>3, <2>4
<1>12. SendingDue'
  BY <1>4 DEF IInv, SendingDue
<1>13. ClaimIsPrefix'
  <2> SUFFICES ASSUME pc # "releasing", NEW c \in claimed \cup Processing, NEW p \in Key,
                      u[p].state = "pending" \/ (p \in claimed /\ c \in Processing)
               PROVE  u[c].id < u[p].id
    BY <1>6 DEF ClaimIsPrefix
  <2>1. CASE p \in Fresh(t, u)
    BY <1>5, <1>7, <2>1
  <2>2. CASE p \notin Fresh(t, u)
    <3>1. u[p] = t[p]
      BY <1>4, <1>7, <2>2
    <3> QED
      BY <1>7, <3>1 DEF IInv, ClaimIsPrefix
  <2> QED
    BY <2>1, <2>2
<1>14. PostedBelow'
  <2> SUFFICES ASSUME NEW s \in Key, NEW p \in Key, s # p, u[s].state = "sending", u[s].posts > 0,
                      u[p].state = "pending" \/ p \in claimed \cup Processing
               PROVE  u[s].id < u[p].id
    BY <1>6 DEF PostedBelow, MayBePosted
  <2>1. u[s] = t[s] /\ s \notin Fresh(t, u) /\ s \in Present(u)
    BY <1>4 DEF Fresh, Present
  <2>2. CASE p \in Fresh(t, u)
    BY <1>5, <2>1, <2>2
  <2>3. CASE p \notin Fresh(t, u)
    <3>1. u[p] = t[p]
      BY <1>4, <1>7, <2>3
    <3> QED
      BY <2>1, <3>1 DEF IInv, PostedBelow, MayBePosted
  <2> QED
    BY <2>2, <2>3
<1>15. AtMostOncePost'
  BY <1>3 DEF IInv, AtMostOncePost, Grown
<1> QED
  BY <1>1, <1>8, <1>9, <1>10, <1>11, <1>12, <1>13, <1>14, <1>15 DEF IInv

LEMMA EnqueueOneGrows ==
    ASSUME NEW t \in Table, NEW k \in Key, NEW u \in EnqueueOne(t, k), clock \in Times
    PROVE  Grown(t, u)
<1>1. CASE u = t
  <2>1. Deleted(t, {}) = t
    BY DEF Deleted, Table
  <2> QED
    BY <1>1, <2>1, GrownBySweep
<1>2. CASE u # t
  BY <1>2, EnqueueOneEffect, GrownByInsert
<1> QED
  BY <1>1, <1>2

LEMMA GrownReflexive == ASSUME NEW t \in Table, clock \in Times PROVE Grown(t, t)
<1>1. Deleted(t, {}) = t
  BY DEF Deleted, Table
<1> QED
  BY <1>1, GrownBySweep

LEMMA ProducerInv ==
    ASSUME IInv, Reliable,
           \/ \E k \in Key, ok \in BOOLEAN : Enqueue(k, ok)
           \/ \E p \in FinalPairs, ok \in BOOLEAN : EnqueueBatch(p, ok)
           \/ Sweep
    PROVE  IInv'
<1>0. outbox \in Table /\ clock \in Times /\ TypeOK /\ accepted \subseteq Key
  BY DEF IInv, TypeOK
<1>1. ASSUME NEW k \in Key, NEW ok \in BOOLEAN, Enqueue(k, ok) PROVE IInv'
  <2>1. PICK t \in EnqueueOne(outbox, k) : StoreJob(t, ok)
    BY <1>1 DEF Enqueue
  <2>2. Grown(outbox, t)
    BY <1>0, EnqueueOneGrows
  <2>3. outbox' \in {outbox, t} /\ storeUp' = storeUp /\ faults' \in 0..MaxFaults
    BY <1>0, <2>1, StoreJobEffect
  <2>4. Grown(outbox, outbox') /\ accepted' \subseteq Key
    BY <1>0, <1>1, <2>2, <2>3, GrownReflexive DEF Enqueue
  <2> QED
    BY <1>1, <2>3, <2>4, GrownInv DEF Enqueue
<1>2. ASSUME NEW p \in FinalPairs, NEW ok \in BOOLEAN, EnqueueBatch(p, ok) PROVE IInv'
  <2>0. p[1] \in Key /\ p[2] \in Key
    BY OutboxAssumption
  <2>1. PICK u \in EnqueueOne(outbox, p[1]) : \E t \in EnqueueOne(u, p[2]) : StoreJob(t, ok)
    BY <1>2 DEF EnqueueBatch
  <2>2. PICK t \in EnqueueOne(u, p[2]) : StoreJob(t, ok)
    BY <2>1
  <2>3. Grown(outbox, u) /\ u \in Table
    BY <1>0, <2>0, EnqueueOneGrows DEF Grown
  <2>4. Grown(u, t)
    BY <1>0, <2>0, <2>3, EnqueueOneGrows
  <2>5. Grown(outbox, t)
    BY <1>0, <2>3, <2>4, GrownTransitive
  <2>6. outbox' \in {outbox, t} /\ storeUp' = storeUp /\ faults' \in 0..MaxFaults
    BY <1>0, <2>2, StoreJobEffect
  <2>7. Grown(outbox, outbox')
    BY <1>0, <2>5, <2>6, GrownReflexive
  <2> QED
    BY <1>0, <1>2, <2>6, <2>7, GrownInv DEF EnqueueBatch
<1>3. ASSUME Sweep PROVE IInv'
  <2>1. PICK t \in Sweeps(outbox) : StoreJob(t, TRUE)
    BY <1>3 DEF Sweep
  <2>2. PICK D \in SUBSET Sweepable(outbox) : t = Deleted(outbox, D)
    BY <2>1 DEF Sweeps
  <2>3. Grown(outbox, t)
    BY <1>0, <2>2, GrownBySweep
  <2>4. outbox' = t /\ storeUp' = storeUp /\ faults' \in 0..MaxFaults
    BY <1>0, <2>1, StoreJobEffect
  <2> QED
    BY <1>0, <1>3, <2>3, <2>4, GrownInv DEF Sweep
<1> QED
  BY <1>1, <1>2, <1>3

\* Taking a batch.
LEMMA ClaimInv ==
    ASSUME IInv, Reliable, NEW ok \in BOOLEAN, Claim(ok)
    PROVE  IInv'
<1>0. outbox \in Table /\ clock \in Times /\ TypeOK /\ claimed = {} /\ cur = None
  BY DEF IInv, TypeOK, PumpHolds, Claim
<1>1. PICK C \in SUBSET Due(outbox) :
        /\ C # {} /\ IsClaim(outbox, C)
        /\ StoreJob(ClaimRows(outbox, C), ok)
        /\ claimed' = IF ok THEN C ELSE {}
  BY DEF Claim
<1>2. /\ outbox' = IF ok THEN ClaimRows(outbox, C) ELSE outbox
      /\ storeUp' = storeUp /\ faults' \in 0..MaxFaults
  BY <1>0, <1>1, StoreJobEffect
<1>3. CASE ~ok
  <2>1. /\ UNCHANGED <<outbox, claimed, cur, answer, pc, connected, shutdown, accepted>>
        /\ clock' \in Times /\ clock <= clock'
    BY <1>0, <1>1, <1>2, <1>3, OutboxAssumption DEF Claim, Times
  <2> QED
    BY <1>0, <1>2, <2>1, QuietInv DEF TypeOK
<1>4. CASE ok
  <2> DEFINE t == outbox
             u == outbox'
  <2>1. C \subseteq Key /\ claimed' = C /\ cur' = None /\ pc' = "batch" /\ clock' = clock
    BY <1>0, <1>1, <1>4 DEF Claim, Due
  <2>2. \A k \in Key : /\ u[k].id = t[k].id /\ u[k].next = t[k].next
                       /\ u[k].posts = t[k].posts /\ u[k].patches = t[k].patches
                       /\ u[k].state = IF k \in C THEN "sending" ELSE t[k].state
    BY <1>0, <1>2, <1>4 DEF ClaimRows, Table, Row
  <2>3. \A k \in C : t[k].state = "pending" /\ t[k].next <= clock
    BY <1>1 DEF Due
  <2>4. \A k \in Key : /\ t[k].id \in Nat /\ t[k].next \in Nat /\ t[k].posts \in Nat
    BY <1>0, Numbers
  <2>5. Live(u) = Live(t) /\ Present(u) = Present(t)
    BY <2>2, <2>3 DEF Live, Present, LiveStates
  <2>6. Processing = {} /\ Processing' = {}
    BY <1>0, <2>1, OutboxAssumption DEF Processing, None
  <2>7. u \in Table
    BY <1>0, <1>2, <1>4, <2>1 DEF ClaimRows, Table, Row, States
  <2>8. TypeOK'
    BY <1>0, <1>2, <2>1, <2>7 DEF TypeOK, Claim
  <2>9. IdsUnique'
    BY <2>2, <2>5 DEF IInv, IdsUnique, Present
  <2>10. PumpHolds'
    BY <1>0, <2>1, <2>2, <2>6, OutboxAssumption DEF PumpHolds, None
  <2>11. PostsKnown'
    BY <2>1, <2>2, <2>3, <2>6 DEF IInv, PostsKnown
  <2>12. ParkedRowHoldsSuccessors'
    BY <2>1, <2>2, <2>5 DEF IInv, ParkedRowHoldsSuccessors, Live
  <2>13. SendingDue'
    BY <2>1, <2>2, <2>3 DEF IInv, SendingDue
  <2>14. ClaimIsPrefix'
    <3> SUFFICES ASSUME NEW c \in C, NEW p \in Key, u[p].state = "pending" PROVE u[c].id < u[p].id
      BY <2>1, <2>6 DEF ClaimIsPrefix
    <3>1. p \notin C /\ t[p].state = "pending" /\ c \in Key /\ c # p
      BY <2>1, <2>2
    <3>2. CASE p \in Due(t)
      BY <1>1, <2>2, <3>1, <3>2 DEF IsClaim
    <3>3. CASE p \notin Due(t)
      <4>1. clock < t[p].next /\ t[c].next <= clock /\ p \in Live(t) /\ c \in Live(t)
        BY <1>0, <2>3, <2>4, <3>1, <3>3, OutboxAssumption DEF Due, Times, Live, LiveStates
      <4>2. ~(t[p].id < t[c].id)
        BY <1>0, <2>4, <3>1, <4>1, OutboxAssumption DEF IInv, ParkedRowHoldsSuccessors, Times
      <4>3. t[p].id # t[c].id
        BY <3>1, <4>1 DEF IInv, IdsUnique, Present, Live, LiveStates
      <4> QED
        BY <2>2, <2>4, <3>1, <4>2, <4>3
    <3> QED
      BY <3>2, <3>3
  <2>15. PostedBelow'
    <3> SUFFICES ASSUME NEW s \in Key, NEW p \in Key, s # p, u[s].state = "sending", u[s].posts > 0,
                        u[p].state = "pending" \/ p \in C
                 PROVE  u[s].id < u[p].id
      BY <2>1, <2>6 DEF PostedBelow, MayBePosted
    <3>1. s \notin C /\ t[s].state = "sending"
      BY <2>2, <2>3, <2>4 DEF IInv, PostsKnown
    <3>2. t[p].state = "pending"
      BY <2>2, <2>3
    <3> QED
      BY <2>2, <3>1, <3>2 DEF IInv, PostedBelow, MayBePosted
  <2>16. AtMostOncePost'
    BY <2>2 DEF IInv, AtMostOncePost
  <2> QED
    BY <2>8, <2>9, <2>10, <2>11, <2>12, <2>13, <2>14, <2>15, <2>16 DEF IInv
<1> QED
  BY <1>3, <1>4

\* Putting the first claimed row on the wire, or finding that it cannot be sent.
LEMMA StartSendInv ==
    ASSUME IInv, NEW k \in Key, NEW readOk \in BOOLEAN, StartSend(k, readOk)
    PROVE  IInv'
<1> DEFINE t == outbox
           u == outbox'
           plan == IF readOk THEN Plan(k) ELSE "dep_pending"
<1>0. /\ outbox \in Table /\ clock \in Times /\ TypeOK /\ cur = None /\ claimed \subseteq Key
      /\ k \in claimed /\ claimed' = claimed \ {k} /\ cur' = k /\ clock' = clock
      /\ \A l \in claimed : t[k].id <= t[l].id
      /\ pc = "batch" /\ pc' \in {"inflight", "receipt"}
  BY DEF IInv, TypeOK, PumpHolds, StartSend, First
<1>1. plan \in {"post", "patch", "undecodable", "dep_pending", "dep_permanent", "dep_uncertain"}
  <2>1. t[k].op \in Ops /\ t[AnchorOf[k]].state \in States
    BY <1>0, OutboxAssumption DEF Table, Row
  <2>2. t[AnchorOf[k]].state # "absent" =>
          t[AnchorOf[k]].state \in {"sent", "failed", "uncertain_delivery"} \cup LiveStates
    BY <2>1 DEF States, LiveStates
  <2>3. ProgressAnchor(k) \in {"post", "patch", "dep_pending", "dep_permanent", "dep_uncertain"}
    BY <2>2 DEF ProgressAnchor, LiveStates
  <2> QED
    BY <2>1, <2>3 DEF Plan, Ops, Patches
<1> HIDE DEF plan
<1>2. \/ /\ plan = "post" /\ pc' = "inflight" /\ answer' = [req |-> "post", res |-> None, at |-> 0]
         /\ u = [t EXCEPT ![k].posts = @ + 1]
      \/ /\ plan = "patch" /\ pc' = "inflight" /\ answer' = [req |-> "patch", res |-> None, at |-> 0]
         /\ u = [t EXCEPT ![k].patches = @ + 1]
      \/ /\ plan \in {"undecodable", "dep_pending", "dep_permanent", "dep_uncertain"}
         /\ pc' = "receipt" /\ answer' = [req |-> None, res |-> plan, at |-> clock]
         /\ u = t
  BY <1>1 DEF StartSend, plan
<1>3. t[k].state = "sending" /\ t[k].posts = 0 /\ k # None
  BY <1>0, OutboxAssumption DEF IInv, PumpHolds, PostsKnown, None
<1>4. \A l \in Key : /\ t[l].id \in Nat /\ t[l].next \in Nat /\ t[l].posts \in Nat /\ t[l].patches \in Nat
  BY <1>0, Numbers DEF Table, Row
<1>5. /\ \A l \in Key : /\ u[l].id = t[l].id /\ u[l].next = t[l].next /\ u[l].state = t[l].state
                        /\ l # k => u[l].posts = t[l].posts
      /\ u[k].posts = IF plan = "post" THEN 1 ELSE 0
      /\ plan = "patch" => u[k].patches > 0
  BY <1>0, <1>2, <1>3, <1>4 DEF Table, Row
<1>6. u \in Table
  <2>1. t[k].posts + 1 \in Nat /\ t[k].patches + 1 \in Nat /\ t[k] \in Row
    BY <1>0, <1>4 DEF Table
  <2>2. [t[k] EXCEPT !.posts = t[k].posts + 1] \in Row /\ [t[k] EXCEPT !.patches = t[k].patches + 1] \in Row
    <3>1. "sent" \in States
      BY DEF States
    <3> QED
      BY <1>0, <2>1, <3>1, RowUpdates
  <2> QED
    BY <1>0, <1>2, <2>2 DEF Table
<1>7. answer' \in Answer /\ answer'.req = IF plan \in {"post", "patch"} THEN plan ELSE None
  BY <1>0, <1>1, <1>2, OutboxAssumption DEF Answer, Answers, Dependencies, Rejections, Unknowns, None, Times
<1>8. faults' \in 0..MaxFaults
  BY <1>0, OutboxAssumption DEF StartSend, Fault, TypeOK
<1>9. TypeOK'
  BY <1>0, <1>2, <1>6, <1>7, <1>8 DEF TypeOK, StartSend
<1>10. Processing = {} /\ Processing' = {k}
  BY <1>0, OutboxAssumption DEF Processing, None
<1>11. IdsUnique'
  BY <1>5 DEF IInv, IdsUnique, Present
<1>12. PumpHolds'
  <2>1. \A l \in claimed' \cup Processing' : u[l].state = "sending"
    BY <1>0, <1>5, <1>10 DEF IInv, PumpHolds
  <2>2. pc' = "receipt" => answer'.req = None /\ answer'.res \in Dependencies \cup {"undecodable"}
    BY <1>2 DEF Dependencies
  <2>3. pc' = "inflight" => answer'.req # None /\ answer'.res = None
    BY <1>2 DEF None
  <2> QED
    BY <1>0, <1>3, <2>1, <2>2, <2>3 DEF PumpHolds
<1>13. PostsKnown'
  <2>1. \A l \in Key : u[l].state \in {"absent", "pending"} => u[l].posts = 0
    BY <1>3, <1>5 DEF IInv, PostsKnown
  <2>2. \A l \in claimed' : u[l].posts = 0
    BY <1>0, <1>5 DEF IInv, PostsKnown
  <2>3. u[k].posts = IF answer'.req = "post" /\ answer'.res \notin Rejections THEN 1 ELSE 0
    BY <1>2, <1>5 DEF Rejections, None
  <2>4. pc' = "inflight" /\ answer'.req = "patch" => u[k].patches > 0
    BY <1>2, <1>5
  <2> QED
    BY <1>10, <2>1, <2>2, <2>3, <2>4 DEF PostsKnown
<1>14. ParkedRowHoldsSuccessors' /\ SendingDue'
  BY <1>0, <1>5 DEF IInv, ParkedRowHoldsSuccessors, SendingDue, Live
<1>15. \A p \in Key : t[p].state = "pending" \/ p \in claimed \ {k} => t[k].id < t[p].id
  <2> SUFFICES ASSUME NEW p \in Key, t[p].state = "pending" \/ p \in claimed \ {k}
               PROVE  t[k].id < t[p].id
    OBVIOUS
  <2>1. CASE t[p].state = "pending"
    BY <1>0, <2>1 DEF IInv, ClaimIsPrefix
  <2>2. CASE p \in claimed \ {k}
    <3>1. t[p].state = "sending"
      BY <2>2 DEF IInv, PumpHolds
    <3>2. t[k].id # t[p].id
      BY <1>3, <2>2, <3>1 DEF IInv, IdsUnique, Present
    <3> QED
      BY <1>0, <1>4, <2>2, <3>2
  <2> QED
    BY <2>1, <2>2
<1>16. ClaimIsPrefix'
  <2> SUFFICES ASSUME NEW c \in claimed \cup {k}, NEW p \in Key,
                      u[p].state = "pending" \/ (p \in claimed \ {k} /\ c = k)
               PROVE  u[c].id < u[p].id
    BY <1>0, <1>10 DEF ClaimIsPrefix
  <2>1. CASE c = k
    BY <1>5, <1>15, <2>1
  <2>2. CASE c # k
    BY <1>0, <1>5, <2>2 DEF IInv, ClaimIsPrefix
  <2> QED
    BY <2>1, <2>2
<1>17. PostedBelow'
  <2> SUFFICES ASSUME NEW s \in Key, NEW p \in Key, s # p, u[s].state = "sending", u[s].posts > 0,
                      u[p].state = "pending" \/ p \in claimed
               PROVE  u[s].id < u[p].id
    BY <1>0, <1>10 DEF PostedBelow, MayBePosted
  <2>1. CASE s = k
    BY <1>5, <1>15, <2>1
  <2>2. CASE s # k
    BY <1>5, <2>2 DEF IInv, PostedBelow, MayBePosted
  <2> QED
    BY <2>1, <2>2
<1>18. AtMostOncePost'
  BY <1>5 DEF IInv, AtMostOncePost
<1> QED
  BY <1>9, <1>11, <1>12, <1>13, <1>14, <1>16, <1>17, <1>18 DEF IInv

\* The provider answers: a rejection takes the request off the history counters.
LEMMA LarkAnswersInv ==
    ASSUME IInv, NEW res \in Answers, LarkAnswers(res)
    PROVE  IInv'
<1> DEFINE t == outbox
           u == outbox'
<1>0. /\ outbox \in Table /\ clock \in Times /\ TypeOK /\ claimed' = claimed /\ cur' = cur
      /\ clock' = clock /\ pc = "inflight" /\ pc' = "receipt" /\ cur # None /\ cur \in Key
      /\ claimed \subseteq Key
  BY DEF IInv, TypeOK, PumpHolds, LarkAnswers, env
<1>1. /\ answer \in Answer /\ answer.req # None /\ answer.res = None
      /\ answer' = [answer EXCEPT !.res = res, !.at = clock]
  BY <1>0 DEF IInv, TypeOK, PumpHolds, LarkAnswers
<1>2. answer' \in Answer /\ answer'.req = answer.req /\ answer'.res = res /\ answer.req \in {"post", "patch"}
  BY <1>0, <1>1 DEF Answer
<1>3. Processing = {cur} /\ Processing' = {cur}
  BY <1>0 DEF Processing
<1>4. \A l \in Key : /\ t[l].id \in Nat /\ t[l].next \in Nat /\ t[l].posts \in Nat /\ t[l].patches \in Nat
  BY <1>0, Numbers DEF Table, Row
<1>5. /\ answer.req = "post" => t[cur].posts = 1
      /\ answer.req = "patch" => t[cur].posts = 0 /\ t[cur].patches > 0
  BY <1>0, <1>3, <1>1 DEF IInv, PostsKnown, Rejections, None
<1>6. u = IF res \notin Rejections THEN t
          ELSE IF answer.req = "post" THEN [t EXCEPT ![cur].posts = @ - 1]
          ELSE [t EXCEPT ![cur].patches = @ - 1]
  BY DEF LarkAnswers
<1>7. /\ \A l \in Key : /\ u[l].id = t[l].id /\ u[l].next = t[l].next /\ u[l].state = t[l].state
                        /\ l # cur => u[l].posts = t[l].posts
      /\ u[cur].posts = IF answer.req = "post" /\ res \notin Rejections THEN 1 ELSE 0
  BY <1>0, <1>2, <1>4, <1>5, <1>6 DEF Table, Row
<1>8. u \in Table
  <2>1. CASE answer.req = "post"
    <3>1. t[cur].posts - 1 \in Nat /\ t[cur] \in Row /\ "sent" \in States
      BY <1>0, <1>4, <1>5, <2>1 DEF Table, States
    <3>2. [t[cur] EXCEPT !.posts = t[cur].posts - 1] \in Row
      BY <1>0, <3>1, RowUpdates
    <3> QED
      BY <1>0, <1>6, <2>1, <3>2 DEF Table
  <2>2. CASE answer.req = "patch"
    <3>1. t[cur].patches - 1 \in Nat /\ t[cur] \in Row /\ "sent" \in States
      BY <1>0, <1>4, <1>5, <2>2 DEF Table, States
    <3>2. [t[cur] EXCEPT !.patches = t[cur].patches - 1] \in Row
      BY <1>0, <3>1, RowUpdates
    <3> QED
      BY <1>0, <1>6, <2>2, <3>2 DEF Table
  <2> QED
    BY <1>2, <2>1, <2>2
<1>9. TypeOK'
  BY <1>0, <1>2, <1>8 DEF TypeOK, LarkAnswers, env
<1>10. IdsUnique'
  BY <1>7 DEF IInv, IdsUnique, Present
<1>11. PumpHolds'
  <2>1. \A l \in claimed' \cup Processing' : u[l].state = "sending"
    BY <1>0, <1>3, <1>7 DEF IInv, PumpHolds
  <2> QED
    BY <1>0, <1>1, <1>2, <2>1 DEF IInv, PumpHolds
<1>12. PostsKnown'
  <2>1. t[cur].state = "sending"
    BY <1>0, <1>3 DEF IInv, PumpHolds
  <2>2. \A l \in Key : u[l].state \in {"absent", "pending"} => u[l].posts = 0
    BY <1>7, <2>1 DEF IInv, PostsKnown
  <2>3. \A l \in claimed' : u[l].posts = 0
    BY <1>0, <1>7 DEF IInv, PostsKnown, PumpHolds
  <2> QED
    BY <1>0, <1>2, <1>3, <1>7, <2>2, <2>3 DEF PostsKnown
<1>13. ParkedRowHoldsSuccessors' /\ SendingDue'
  BY <1>0, <1>7 DEF IInv, ParkedRowHoldsSuccessors, SendingDue, Live
<1>14. ClaimIsPrefix'
  BY <1>0, <1>3, <1>7 DEF IInv, ClaimIsPrefix
<1>15. PostedBelow'
  <2> SUFFICES ASSUME NEW s \in Key, NEW p \in Key, s # p, u[s].state = "sending", u[s].posts > 0,
                      u[p].state = "pending" \/ p \in claimed \cup {cur}
               PROVE  u[s].id < u[p].id
    BY <1>0, <1>3 DEF PostedBelow, MayBePosted
  <2>1. t[s].posts > 0
    BY <1>2, <1>5, <1>7
  <2> QED
    BY <1>3, <1>7, <2>1 DEF IInv, PostedBelow, MayBePosted
<1>16. AtMostOncePost'
  BY <1>7 DEF IInv, AtMostOncePost
<1> QED
  BY <1>9, <1>10, <1>11, <1>12, <1>13, <1>14, <1>15, <1>16 DEF IInv

\* The row being processed leaves the pump's hands and the rest of the table stays.
LEMMA SettleInv ==
    ASSUME IInv, outbox' \in Table, cur \in Key, cur' = None, answer' = NoAnswer,
           pc = "receipt", pc' = AfterRow(claimed'), claimed' = claimed,
           storeUp' = storeUp, faults' \in 0..MaxFaults,
           UNCHANGED <<clock, connected, shutdown, accepted>>,
           \A l \in Key \ {cur} : outbox'[l] = outbox[l],
           outbox'[cur].id = outbox[cur].id, outbox'[cur].posts = outbox[cur].posts,
           outbox'[cur] = outbox[cur] \/ outbox'[cur].state \in TerminalStates
    PROVE  IInv'
<1> DEFINE t == outbox
           u == outbox'
<1>0. /\ t \in Table /\ u \in Table /\ TypeOK /\ clock' = clock /\ cur # None /\ cur \notin claimed
      /\ claimed \subseteq Key
  BY OutboxAssumption DEF IInv, TypeOK, PumpHolds, None
<1>1. Processing = {cur} /\ Processing' = {}
  BY <1>0, OutboxAssumption DEF Processing, None
<1>2. pc' \in {"idle", "batch"} /\ (pc' = "idle" => claimed' = {})
  BY DEF AfterRow
<1>3. NoAnswer \in Answer
  BY OutboxAssumption DEF NoAnswer, Answer, None, Times
<1>4. TypeOK'
  BY <1>0, <1>2, <1>3 DEF TypeOK
<1>5. \A l \in Key : /\ u[l].id = t[l].id /\ u[l].posts = t[l].posts
                     /\ l \in Live(u) => u[l] = t[l] /\ l \in Live(t)
                     /\ u[l].state \in {"pending", "sending", "absent"} => u[l] = t[l]
                     /\ l \in Present(u) => l \in Present(t)
                     /\ l \in claimed => u[l] = t[l]
  <2>1. t[cur].state = "sending"
    BY <1>1 DEF IInv, PumpHolds
  <2> QED
    BY <1>0, <2>1 DEF Live, LiveStates, TerminalStates, Present
<1>6. IdsUnique'
  BY <1>5 DEF IInv, IdsUnique, Present
<1>7. PumpHolds'
  BY <1>0, <1>1, <1>2, <1>5, OutboxAssumption DEF IInv, PumpHolds, None
<1>8. PostsKnown'
  BY <1>0, <1>1, <1>5 DEF IInv, PostsKnown
<1>9. ParkedRowHoldsSuccessors' /\ SendingDue'
  BY <1>0, <1>5 DEF IInv, ParkedRowHoldsSuccessors, SendingDue, Live
<1>10. ClaimIsPrefix'
  BY <1>0, <1>1, <1>5 DEF IInv, ClaimIsPrefix
<1>11. PostedBelow'
  <2> SUFFICES ASSUME NEW s \in Key, NEW p \in Key, s # p, u[s].state = "sending", u[s].posts > 0,
                      u[p].state = "pending" \/ p \in claimed
               PROVE  u[s].id < u[p].id
    BY <1>1 DEF PostedBelow, MayBePosted
  <2> QED
    BY <1>5 DEF IInv, PostedBelow, MayBePosted
<1>12. AtMostOncePost'
  BY <1>5 DEF IInv, AtMostOncePost
<1> QED
  BY <1>4, <1>6, <1>7, <1>8, <1>9, <1>10, <1>11, <1>12 DEF IInv

\* u is t with row k parked until at and every later live row behind it.
IsDeferral(t, u, k, at) ==
    /\ \A l \in Key \ {k} :
          u[l] = IF l \in Live(t) /\ t[l].id > t[k].id
                 THEN [t[l] EXCEPT !.state = "pending", !.next = Later(@, at)]
                 ELSE t[l]
    /\ u[k].id = t[k].id /\ u[k].posts = t[k].posts
    /\ u[k].state = "pending" /\ u[k].next = at

\* The row being processed is parked for a retry and every later live row with it.
LEMMA DeferInv ==
    ASSUME IInv, outbox' \in Table, cur \in Key, cur' = None, answer' = NoAnswer,
           pc = "receipt", pc' = "idle", claimed' = {},
           storeUp' = storeUp, faults' \in 0..MaxFaults,
           UNCHANGED <<clock, connected, shutdown, accepted>>,
           outbox[cur].posts = 0,
           NEW at \in Times,
           IsDeferral(outbox, outbox', cur, at)
    PROVE  IInv'
<1> DEFINE t == outbox
           u == outbox'
           Parked(l) == l \in Live(t) /\ t[l].id > t[cur].id
<1>0. /\ t \in Table /\ u \in Table /\ TypeOK /\ clock' = clock /\ cur # None /\ clock \in Times
  BY OutboxAssumption DEF IInv, TypeOK, None
<1>1. Processing = {cur} /\ Processing' = {}
  BY <1>0, OutboxAssumption DEF Processing, None
<1>2. \A l \in Key : /\ t[l].id \in Nat /\ t[l].next \in Nat /\ t[l].posts \in Nat /\ t[l].next \in Times
                     /\ clock \in Nat /\ at \in Nat
  BY <1>0, Numbers, OutboxAssumption DEF Table, Row, Times
<1>3. NoAnswer \in Answer
  BY OutboxAssumption DEF NoAnswer, Answer, None, Times
<1>4. TypeOK'
  BY <1>0, <1>3 DEF TypeOK
<1>5. t[cur].state = "sending" /\ t[cur].next <= clock
  BY <1>1 DEF IInv, PumpHolds, SendingDue
<1>6. \A l \in Key \ {cur} :
         /\ u[l].id = t[l].id /\ u[l].posts = t[l].posts
         /\ Parked(l) => u[l].state = "pending" /\ u[l].next = Later(t[l].next, at)
         /\ ~Parked(l) => u[l] = t[l]
  BY <1>0 DEF Table, Row, IsDeferral
<1>b. /\ u[cur].id = t[cur].id /\ u[cur].posts = t[cur].posts
      /\ u[cur].state = "pending" /\ u[cur].next = at
  BY DEF IsDeferral
<1>7. \A l \in Key \ {cur} : Parked(l) => at <= u[l].next /\ u[l].next \in {t[l].next, at} /\ t[l].next <= u[l].next
  BY <1>2, <1>6, LaterType
<1>8. Live(u) = Live(t) /\ Present(u) = Present(t) /\ \A l \in Key : u[l].id = t[l].id /\ u[l].posts = t[l].posts
  BY <1>5, <1>6, <1>b DEF Live, Present, LiveStates
<1>9. \A l \in Key : u[l].state = "sending" => l # cur /\ u[l] = t[l] /\ ~Parked(l)
  BY <1>6, <1>b
<1> HIDE DEF Parked
<1>10. IdsUnique'
  BY <1>8 DEF IInv, IdsUnique, Present
<1>11. PumpHolds'
  BY <1>1, OutboxAssumption DEF PumpHolds, None
<1>12. PostsKnown'
  <2> SUFFICES ASSUME NEW l \in Key, u[l].state \in {"absent", "pending"} PROVE u[l].posts = 0
    BY <1>1 DEF PostsKnown
  <2>1. CASE l = cur
    BY <1>b, <2>1
  <2>2. CASE l # cur /\ ~Parked(l)
    BY <1>6, <2>2 DEF IInv, PostsKnown
  <2>3. CASE l # cur /\ Parked(l)
    <3>1. t[l].id > t[cur].id /\ t[l].state \in {"pending", "sending"}
      BY <2>3 DEF Parked, Live, LiveStates
    <3>2. ~MayBePosted(l)
      BY <1>1, <1>2, <2>3, <3>1 DEF IInv, PostedBelow
    <3> QED
      BY <1>2, <1>8, <3>1, <3>2 DEF MayBePosted, IInv, PostsKnown
  <2> QED
    BY <2>1, <2>2, <2>3
<1>13. ParkedRowHoldsSuccessors'
  <2> SUFFICES ASSUME NEW i \in Live(t), NEW j \in Live(t), t[i].id < t[j].id, u[i].next > clock
               PROVE  u[i].next <= u[j].next
    BY <1>0, <1>8 DEF ParkedRowHoldsSuccessors, Live
  <2>0. i \in Key /\ j \in Key /\ i # j /\ cur \in Live(t)
    BY <1>2, <1>5 DEF Live, LiveStates
  <2>1. CASE i = cur
    BY <1>7, <1>b, <2>0, <2>1 DEF Parked
  <2>2. CASE i # cur /\ Parked(i)
    <3>1. j # cur /\ Parked(j)
      BY <1>2, <2>0, <2>2 DEF Parked
    <3>2. CASE u[i].next = at
      BY <1>7, <2>0, <3>1, <3>2
    <3>3. CASE u[i].next = t[i].next
      <4>1. t[i].next <= t[j].next
        BY <3>3 DEF IInv, ParkedRowHoldsSuccessors
      <4>2. t[j].next <= u[j].next /\ u[j].next \in Nat
        BY <1>2, <1>7, <2>0, <3>1
      <4> QED
        BY <1>2, <2>0, <3>3, <4>1, <4>2
    <3> QED
      BY <1>7, <2>0, <2>2, <3>2, <3>3
  <2>3. CASE i # cur /\ ~Parked(i)
    <3>1. u[i] = t[i] /\ t[i].id < t[cur].id
      <4>1. t[i].id # t[cur].id
        BY <2>0, <2>3 DEF IInv, IdsUnique, Live, Present, LiveStates
      <4> QED
        BY <1>2, <1>6, <2>0, <2>3, <4>1 DEF Parked
    <3>2. t[i].next <= t[cur].next
      BY <2>0, <3>1 DEF IInv, ParkedRowHoldsSuccessors
    <3> QED
      BY <1>2, <1>5, <2>0, <3>1, <3>2
  <2> QED
    BY <2>1, <2>2, <2>3
<1>14. SendingDue'
  BY <1>0, <1>9 DEF IInv, SendingDue
<1>15. ClaimIsPrefix'
  BY <1>1 DEF ClaimIsPrefix
<1>16. PostedBelow'
  <2> SUFFICES ASSUME NEW s \in Key, NEW p \in Key, s # p, u[s].state = "sending", u[s].posts > 0,
                      u[p].state = "pending"
               PROVE  u[s].id < u[p].id
    BY <1>1 DEF PostedBelow, MayBePosted
  <2>1. s # cur /\ MayBePosted(s)
    BY <1>8, <1>9 DEF MayBePosted
  <2>2. t[s].id < t[cur].id
    BY <1>1, <2>1 DEF IInv, PostedBelow
  <2>3. CASE p = cur
    BY <1>8, <2>2, <2>3
  <2>4. CASE p # cur /\ Parked(p)
    BY <1>2, <1>8, <2>2, <2>4 DEF Parked
  <2>5. CASE p # cur /\ ~Parked(p)
    BY <1>6, <1>8, <2>1, <2>5 DEF IInv, PostedBelow
  <2> QED
    BY <2>3, <2>4, <2>5
<1>17. AtMostOncePost'
  BY <1>8 DEF IInv, AtMostOncePost
<1> QED
  BY <1>4, <1>10, <1>11, <1>12, <1>13, <1>14, <1>15, <1>16, <1>17 DEF IInv

\* How a result is recorded, and that a row that may have been posted is never
\* parked for a retry or replaced by a fallback.
LEMMA VerdictFacts ==
    ASSUME IInv, pc = "receipt", cur \in Key
    PROVE  /\ Verdict(cur) \in {"complete", "permanent", "uncertain", "retry", "fallback"}
           /\ Verdict(cur) \in {"retry", "fallback"} => outbox[cur].posts = 0
<1>1. /\ answer.req = None => answer.res \in Dependencies \cup {"undecodable"}
      /\ answer.req # None => answer.res \in Answers
      /\ answer.req \in {"post", "patch", None}
      /\ outbox[cur].posts = IF answer.req = "post" /\ answer.res \notin Rejections THEN 1 ELSE 0
  BY DEF IInv, PumpHolds, PostsKnown, Processing, TypeOK, Answer
<1>2. CASE answer.req = None
  BY <1>1, <1>2 DEF Verdict, Dependencies, None
<1>3. CASE answer.req = "post"
  BY <1>1, <1>3 DEF Verdict, Answers, Rejections, Unknowns, None
<1>4. CASE answer.req = "patch"
  BY <1>1, <1>4 DEF Verdict, Answers, Rejections, Unknowns, None
<1> QED
  BY <1>1, <1>2, <1>3, <1>4

LEMMA WriteReceiptInv ==
    ASSUME IInv, Reliable, NEW ok \in BOOLEAN, WriteReceipt(ok)
    PROVE  IInv'
<1>0. /\ outbox \in Table /\ clock \in Times /\ TypeOK /\ pc = "receipt" /\ cur # None /\ cur \in Key
      /\ cur' = None /\ answer' = NoAnswer
      /\ claimed' = IF ok /\ Deferred(cur) THEN {} ELSE claimed
      /\ pc' = AfterRow(claimed')
      /\ UNCHANGED <<clock, connected, shutdown, accepted>>
      /\ outbox[cur] \in Row
  BY DEF IInv, TypeOK, PumpHolds, WriteReceipt, Table
<1>1. /\ outbox' = IF ok THEN Receipt(cur) ELSE outbox
      /\ storeUp' = storeUp /\ faults' \in 0..MaxFaults
  BY <1>0, StoreJobEffect DEF WriteReceipt, store, TypeOK
<1>2. RetryAt(cur) \in Times
  <2>1. outbox[cur].attempts + 1 \in Nat \ {0} /\ answer.at \in Nat
    BY <1>0, OutboxAssumption DEF Row, TypeOK, Answer, Times
  <2>2. RetryDelay(outbox[cur].attempts + 1) \in Nat
    BY <2>1, RetryDelayType
  <2> QED
    BY <2>1, <2>2, SaturateType DEF RetryAt
<1>3. CASE ~ok
  BY <1>0, <1>1, <1>3, SettleInv
<1>4. CASE ok /\ Verdict(cur) \in {"complete", "permanent", "uncertain"}
  <2>1. ~Deferred(cur)
    BY <1>4 DEF Deferred
  <2>2. Receipt(cur) \in {CompleteOutbox(outbox, cur), FailOutboxTerminal(outbox, cur),
                          FailOutboxUncertain(outbox, cur)}
    BY <1>4 DEF Receipt
  <2>3. outbox' \in Table
    BY <1>0, <1>1, <1>2, <1>4, <2>2, TableTypes
  <2>4. /\ \A l \in Key \ {cur} : outbox'[l] = outbox[l]
        /\ outbox'[cur].id = outbox[cur].id /\ outbox'[cur].posts = outbox[cur].posts
        /\ outbox'[cur].state \in TerminalStates
    BY <1>0, <1>1, <1>4, <2>2
       DEF CompleteOutbox, FailOutboxTerminal, FailOutboxUncertain, TerminalStates, Table, Row
  <2> QED
    BY <1>0, <1>1, <2>1, <2>3, <2>4, SettleInv
<1>5. CASE ok /\ Verdict(cur) = "retry" /\ ~(outbox[cur].attempts + 1 < MaxAttempts)
  <2>1. ~Deferred(cur)
    BY <1>5 DEF Deferred
  <2>2. outbox' = [outbox EXCEPT ![cur] = [outbox[cur] EXCEPT
                       !.state = "failed", !.attempts = @ + 1, !.next = RetryAt(cur), !.updated = clock]]
    BY <1>1, <1>5 DEF Receipt, FailOutboxAndDeferSuccessors
  <2>3. outbox' \in Table
    BY <1>0, <1>1, <1>2, <1>5, TableTypes DEF Receipt
  <2>4. /\ \A l \in Key \ {cur} : outbox'[l] = outbox[l]
        /\ outbox'[cur].id = outbox[cur].id /\ outbox'[cur].posts = outbox[cur].posts
        /\ outbox'[cur].state \in TerminalStates
    BY <1>0, <2>2 DEF TerminalStates, Table, Row
  <2> QED
    BY <1>0, <1>1, <2>1, <2>3, <2>4, SettleInv
<1>6. CASE ok /\ Verdict(cur) = "retry" /\ outbox[cur].attempts + 1 < MaxAttempts
  <2>1. claimed' = {} /\ pc' = "idle"
    BY <1>0, <1>6 DEF Deferred, AfterRow
  <2>2. outbox' = [ParkSuccessors(outbox, cur, RetryAt(cur)) EXCEPT ![cur] = [outbox[cur] EXCEPT
                       !.state = "pending", !.attempts = @ + 1, !.next = RetryAt(cur)]]
    BY <1>1, <1>6 DEF Receipt, FailOutboxAndDeferSuccessors
  <2>3. outbox' \in Table
    BY <1>0, <1>1, <1>2, <1>6, TableTypes DEF Receipt
  <2>4. IsDeferral(outbox, outbox', cur, RetryAt(cur))
    BY <1>0, <2>2 DEF IsDeferral, ParkSuccessors, Table, Row
  <2>5. outbox[cur].posts = 0
    BY <1>0, <1>6, VerdictFacts
  <2> QED
    BY <1>0, <1>1, <1>2, <2>1, <2>3, <2>4, <2>5, DeferInv
<1>7. CASE ok /\ Verdict(cur) = "fallback"
  <2>1. claimed' = {} /\ pc' = "idle"
    BY <1>0, <1>7 DEF Deferred, AfterRow
  <2>2. outbox' = ReplaceOutboxWithFallback(outbox, cur)
    BY <1>1, <1>7 DEF Receipt
  <2>3. outbox' \in Table
    BY <1>0, <1>2, <2>2, TableTypes
  <2>4. IsDeferral(outbox, outbox', cur, clock)
    BY <1>0, <2>2 DEF IsDeferral, ReplaceOutboxWithFallback, ParkSuccessors, Table, Row
  <2>5. outbox[cur].posts = 0
    BY <1>0, <1>7, VerdictFacts
  <2> QED
    BY <1>0, <1>1, <2>1, <2>3, <2>4, <2>5, DeferInv
<1> QED
  BY <1>0, <1>3, <1>4, <1>5, <1>6, <1>7, VerdictFacts

\* Giving one claimed row back, or failing to.
LEMMA ReleaseTailInv ==
    ASSUME IInv, Reliable, NEW k \in Key, NEW ok \in BOOLEAN, ReleaseTail(k, ok)
    PROVE  IInv'
<1> DEFINE t == outbox
           u == outbox'
<1>0. /\ t \in Table /\ clock \in Times /\ TypeOK /\ pc = "releasing" /\ cur = None
      /\ k \in claimed /\ claimed' = claimed \ {k} /\ t[k].state = "sending" /\ claimed \subseteq Key
      /\ pc' = (IF claimed' = {} THEN "idle" ELSE "releasing")
      /\ UNCHANGED <<clock, connected, shutdown, cur, answer, accepted>>
      /\ t[k].posts = 0
  BY DEF IInv, TypeOK, PumpHolds, PostsKnown, ReleaseTail, First
<1>1. /\ u = IF ok THEN ReleaseOutboxClaim(t, k) ELSE t
      /\ storeUp' = storeUp /\ faults' \in 0..MaxFaults
  BY <1>0, StoreJobEffect DEF ReleaseTail
<1>2. u \in Table
  BY <1>0, <1>1, TableTypes
<1>3. /\ \A l \in Key : u[l].id = t[l].id /\ u[l].posts = t[l].posts /\ (l # k => u[l] = t[l])
      /\ \/ u[k] = t[k]
         \/ u[k].state = "pending" /\ u[k].next = clock
  BY <1>0, <1>1 DEF ReleaseOutboxClaim, Table, Row
<1>4. \A l \in Key : /\ t[l].id \in Nat /\ t[l].next \in Nat /\ u[l].next \in Nat /\ clock \in Nat
  BY <1>0, <1>2, Numbers, OutboxAssumption DEF Times
<1>5. Processing = {} /\ Processing' = {}
  BY <1>0, OutboxAssumption DEF Processing, None
<1>6. TypeOK'
  BY <1>0, <1>1, <1>2 DEF TypeOK
<1>7. Live(u) = Live(t) /\ Present(u) = Present(t)
  BY <1>0, <1>3 DEF Live, Present, LiveStates
<1>8. IdsUnique'
  BY <1>3, <1>7 DEF IInv, IdsUnique, Present
<1>9. PumpHolds'
  BY <1>0, <1>3, <1>5, OutboxAssumption DEF IInv, PumpHolds, None
<1>10. PostsKnown'
  BY <1>0, <1>3, <1>5 DEF IInv, PostsKnown
<1>11. ParkedRowHoldsSuccessors'
  <2> SUFFICES ASSUME NEW i \in Live(t), NEW j \in Live(t), t[i].id < t[j].id, u[i].next > clock
               PROVE  u[i].next <= u[j].next
    BY <1>0, <1>3, <1>7 DEF ParkedRowHoldsSuccessors, Live
  <2>1. i \in Key /\ j \in Key /\ t[k].next <= clock
    BY <1>0 DEF Live, IInv, SendingDue
  <2>2. i # k
    BY <1>3, <1>4, <2>1
  <2>3. t[i].next <= t[j].next /\ u[i] = t[i]
    BY <1>3, <2>1, <2>2 DEF IInv, ParkedRowHoldsSuccessors
  <2>4. j # k
    BY <1>4, <2>1, <2>3
  <2> QED
    BY <1>3, <2>1, <2>3, <2>4
<1>12. SendingDue'
  BY <1>0, <1>3 DEF IInv, SendingDue
<1>13. ClaimIsPrefix'
  BY <1>0, <1>5 DEF ClaimIsPrefix
<1>14. PostedBelow'
  <2> SUFFICES ASSUME NEW s \in Key, NEW p \in Key, s # p, u[s].state = "sending", u[s].posts > 0,
                      u[p].state = "pending" \/ p \in claimed \ {k}
               PROVE  u[s].id < u[p].id
    BY <1>0, <1>5 DEF PostedBelow, MayBePosted
  <2>1. s # k /\ u[s] = t[s] /\ MayBePosted(s)
    BY <1>0, <1>3 DEF MayBePosted
  <2>2. t[p].state = "pending" \/ p \in claimed
    BY <1>0, <1>3
  <2> QED
    BY <1>3, <2>1, <2>2 DEF IInv, PostedBelow
<1>15. AtMostOncePost'
  BY <1>3 DEF IInv, AtMostOncePost
<1> QED
  BY <1>6, <1>8, <1>9, <1>10, <1>11, <1>12, <1>13, <1>14, <1>15 DEF IInv

\* The process dies with rows in its hands.
LEMMA CrashInv == ASSUME IInv, Crash PROVE IInv'
<1>0. /\ TypeOK /\ claimed' = {} /\ cur' = None /\ pc' = "down" /\ answer' = NoAnswer
      /\ UNCHANGED <<outbox, storeUp, clock, connected, shutdown, accepted>>
      /\ faults' \in 0..MaxFaults
  BY OutboxAssumption DEF IInv, TypeOK, Crash, store, Fault
<1>1. Processing' = {} /\ NoAnswer \in Answer
  BY <1>0, OutboxAssumption DEF Processing, None, NoAnswer, Answer, Times
<1>2. TypeOK'
  BY <1>0, <1>1 DEF TypeOK
<1>3. PumpHolds' /\ ClaimIsPrefix'
  BY <1>0, <1>1, OutboxAssumption DEF PumpHolds, ClaimIsPrefix, None
<1>4. PostsKnown' /\ PostedBelow'
  BY <1>0, <1>1 DEF IInv, PostsKnown, PostedBelow, MayBePosted
<1> QED
  BY <1>0, <1>2, <1>3, <1>4 DEF IInv, IdsUnique, ParkedRowHoldsSuccessors, SendingDue, AtMostOncePost,
     Present, Live

\* A new process: the rows a dead one left in sending become uncertain, or stay.
LEMMA StartInv == ASSUME IInv, Start PROVE IInv'
<1> DEFINE t == outbox
           u == outbox'
<1>0. /\ TypeOK /\ t \in Table /\ clock \in Times /\ claimed = {} /\ cur = None /\ pc' = "idle"
      /\ UNCHANGED <<clock, claimed, cur, answer>>
      /\ storeUp' \in BOOLEAN /\ connected' \in BOOLEAN /\ shutdown' \in BOOLEAN /\ accepted' \subseteq Key
      /\ u = t \/ u = RecoverSendingOutbox(t)
  BY DEF IInv, TypeOK, PumpHolds, Start
<1>a. faults' \in 0..MaxFaults
  BY OutboxAssumption DEF IInv, TypeOK, Start, Fault
<1>1. u \in Table
  <2>1. RecoverSendingOutbox(t) \in Table
    BY <1>0 DEF RecoverSendingOutbox, Table, Row, States
  <2> QED
    BY <1>0, <2>1
<1>2. \A l \in Key : /\ u[l].id = t[l].id /\ u[l].posts = t[l].posts /\ u[l].next = t[l].next
                     /\ u[l].state = t[l].state
                        \/ (t[l].state = "sending" /\ u[l].state = "uncertain_delivery")
  BY <1>0 DEF RecoverSendingOutbox, Table, Row
<1>3. Present(u) = Present(t) /\ Live(u) \subseteq Live(t)
  BY <1>2 DEF Present, Live, LiveStates
<1>4. Processing' = {}
  BY <1>0, OutboxAssumption DEF Processing, None
<1>5. TypeOK'
  BY <1>0, <1>1, <1>a DEF TypeOK
<1>6. IdsUnique'
  BY <1>2, <1>3 DEF IInv, IdsUnique, Present
<1>7. PumpHolds' /\ ClaimIsPrefix'
  BY <1>0, <1>4, OutboxAssumption DEF PumpHolds, ClaimIsPrefix, None
<1>8. PostsKnown'
  BY <1>0, <1>2, <1>4 DEF IInv, PostsKnown
<1>9. PostedBelow'
  BY <1>0, <1>2, <1>4 DEF IInv, PostedBelow, MayBePosted
<1>10. ParkedRowHoldsSuccessors'
  <2> SUFFICES ASSUME NEW i \in Live(u), NEW j \in Live(u), u[i].id < u[j].id, u[i].next > clock
               PROVE  u[i].next <= u[j].next
    BY <1>0 DEF ParkedRowHoldsSuccessors
  <2>1. i \in Live(t) /\ j \in Live(t) /\ i \in Key /\ j \in Key
    BY <1>3 DEF Live
  <2> QED
    BY <1>2, <2>1 DEF IInv, ParkedRowHoldsSuccessors
<1>11. SendingDue' /\ AtMostOncePost'
  BY <1>0, <1>2 DEF IInv, SendingDue, AtMostOncePost
<1> QED
  BY <1>5, <1>6, <1>7, <1>8, <1>9, <1>10, <1>11 DEF IInv

\* Shutdown requests, connection changes, time, and the pump's own quiet steps.
LEMMA QuietSteps ==
    ASSUME IInv, Reliable,
           BeginRelease \/ Stop \/ RequestShutdown \/ Connect \/ Disconnect \/ Tick \/ SetClockBack
    PROVE  IInv'
<1>0. TypeOK
  BY DEF IInv
<1>1. ~SetClockBack
  BY DEF Reliable, SetClockBack
<1>2. CASE BeginRelease \/ Stop
  <2>1. /\ UNCHANGED <<outbox, storeUp, clock, connected, shutdown, faults, claimed, cur, answer, accepted>>
        /\ \/ pc = "batch" /\ pc' = "releasing"
           \/ pc = "idle" /\ pc' = "down"
    BY <1>2 DEF BeginRelease, Stop, store, env
  <2>2. clock' \in Times /\ clock <= clock'
    BY <1>0, <2>1, OutboxAssumption DEF TypeOK, Times
  <2> QED
    BY <1>0, <2>1, <2>2, QuietInv DEF TypeOK
<1>3. CASE RequestShutdown \/ Connect \/ Disconnect
  <2>1. UNCHANGED <<outbox, storeUp, clock, pc, claimed, cur, answer, accepted>>
    BY <1>3 DEF RequestShutdown, Connect, Disconnect, store
  <2>2. connected' \in BOOLEAN /\ shutdown' \in BOOLEAN
    BY <1>0, <1>3 DEF RequestShutdown, Connect, Disconnect, TypeOK
  <2>3. faults' \in 0..MaxFaults
    BY <1>0, <1>3, OutboxAssumption DEF RequestShutdown, Connect, Disconnect, Fault, TypeOK
  <2>4. clock' \in Times /\ clock <= clock'
    BY <1>0, <2>1, OutboxAssumption DEF TypeOK, Times
  <2> QED
    BY <1>0, <2>1, <2>2, <2>3, <2>4, QuietInv DEF TypeOK
<1>4. CASE Tick
  <2>1. clock' \in Times /\ clock <= clock'
    BY <1>0, <1>4, SaturateType, OutboxAssumption DEF Tick, TypeOK, Times, Saturate
  <2> QED
    BY <1>0, <1>4, <2>1, QuietInv DEF Tick, TypeOK, store
<1> QED
  BY <1>1, <1>2, <1>3, <1>4

LEMMA NextInv == ASSUME Reliable, IInv, [Next]_vars PROVE IInv'
<1>1. CASE UNCHANGED vars
  <2>1. clock' \in Times /\ clock <= clock'
    BY <1>1, OutboxAssumption DEF vars, IInv, TypeOK, Times
  <2> QED
    BY <1>1, <2>1, QuietInv DEF vars, IInv, TypeOK
<1>2. CASE Next
  BY <1>2, ProducerInv, ClaimInv, StartSendInv, LarkAnswersInv, WriteReceiptInv, ReleaseTailInv,
     CrashInv, StartInv, QuietSteps DEF Next, Pump, Environment
<1> QED
  BY <1>1, <1>2

\* The inductive invariant holds in every reachable state.
THEOREM Inductive == ASSUME Reliable PROVE Spec => []IInv
BY InitInv, NextInv, PTL DEF Spec

\* No row that Lark may have accepted is ever posted again: whatever the number of
\* rows, crashes, lost receipts, failed releases and failed recoveries.
THEOREM PostedAtMostOnce == ASSUME Reliable PROVE Spec => []AtMostOncePost
<1>1. IInv => AtMostOncePost
  BY DEF IInv
<1> QED
  BY <1>1, Inductive, PTL

\* A row parked for a retry holds back every later live row until that time.
THEOREM ParkedHolds == ASSUME Reliable PROVE Spec => []ParkedRowHoldsSuccessors
<1>1. IInv => ParkedRowHoldsSuccessors
  BY DEF IInv
<1> QED
  BY <1>1, Inductive, PTL

LEMMA StepInOrder == ASSUME Reliable, IInv, [Next]_vars PROVE [NothingOvertakes]_vars
<1> SUFFICES ASSUME Next, pc = "batch", pc' = "inflight", NEW l \in Key, outbox[l].state = "pending"
             PROVE  outbox[cur'].id < outbox[l].id
  BY DEF NothingOvertakes
<1>1. PICK k \in Key, readOk \in BOOLEAN : StartSend(k, readOk)
  BY DEF Next, Enqueue, EnqueueBatch, Sweep, Pump, Claim, LarkAnswers, WriteReceipt, BeginRelease,
         ReleaseTail, Stop, Environment, Crash, Start, RequestShutdown, Connect, Disconnect, Tick,
         SetClockBack
<1>2. cur' = k /\ k \in claimed
  BY <1>1 DEF StartSend, First
<1> QED
  BY <1>2 DEF IInv, ClaimIsPrefix

\* Rows go on the wire in the order of their ids: when a row is sent, no row with
\* a smaller id is still pending.
THEOREM InOrder == ASSUME Reliable PROVE Spec => SendsInOrder
<1>1. IInv /\ [Next]_vars => [NothingOvertakes]_vars
  BY StepInOrder
<1> QED
  BY <1>1, Inductive, PTL DEF Spec, SendsInOrder
-----------------------------------------------------------------------------
(* Without assumptions on the clock and on the writer: what the store does  *)
(* to a row, one transaction at a time.                                     *)

\* What a transaction may do to row k: leave its state, move it while it is live,
\* sweep it, or insert it, also in place of a row it swept.
Change(t, u, k) ==
    \/ u[k].state = t[k].state /\ u[k].op = t[k].op
    \/ /\ t[k].state \in LiveStates /\ u[k].state \in LiveStates \cup TerminalStates
       /\ u[k].op = t[k].op \/ (t[k].op = "finalize" /\ u[k].op = "reply")
    \/ k \in Sweepable(t) /\ u[k].state = "absent" /\ u[k].op = OpOf[k]
    \/ /\ t[k].state = "absent" \/ (k \in Sweepable(t) /\ \E p \in FinalPairs : k = p[2])
       /\ u[k].state = "pending" /\ u[k].op = OpOf[k]
       /\ OpOf[k] \in Patches => OpOf[AnchorOf[k]] = "progress"
Changes(t, u) == \A k \in Key : Change(t, u, k)

\* The operations that OpsKnown speaks of, for a table.
OpsIn(t) ==
    /\ \A k \in Key : t[k].op = OpOf[k] \/ (OpOf[k] = "finalize" /\ t[k].op = "reply")
    /\ \A k \in Live(t) : t[k].op \in Patches => OpOf[AnchorOf[k]] = "progress"

\* The bounds on rows, for a table, and what cannot break them.
RowsIn(t) == Cardinality(Live(t)) <= StoreMaxRows /\ Cardinality(Present(t)) <= TotalMaxRows
Fewer(t, u) == Live(u) \subseteq Live(t) /\ Present(u) \subseteq Present(t)

LEMMA FewerRows == ASSUME NEW t, NEW u, RowsIn(t), Fewer(t, u) PROVE RowsIn(u)
<1>1. /\ IsFiniteSet(Live(t)) /\ IsFiniteSet(Present(t))
  <2>1. Live(t) \subseteq Key /\ Present(t) \subseteq Key
    BY DEF Live, Present
  <2> QED
    BY <2>1, OutboxAssumption, FS_Subset
<1>2. /\ IsFiniteSet(Live(u)) /\ Cardinality(Live(u)) <= Cardinality(Live(t))
      /\ IsFiniteSet(Present(u)) /\ Cardinality(Present(u)) <= Cardinality(Present(t))
  BY <1>1, FS_Subset DEF Fewer
<1>3. /\ Cardinality(Live(t)) \in Nat /\ Cardinality(Present(t)) \in Nat
      /\ Cardinality(Live(u)) \in Nat /\ Cardinality(Present(u)) \in Nat
  BY <1>1, <1>2, FS_CardinalityType
<1>4. StoreMaxRows \in Nat /\ TotalMaxRows \in Nat
  BY OutboxAssumption
<1> QED
  BY <1>2, <1>3, <1>4 DEF RowsIn

\* An enqueue checks both bounds, the total one after its sweep.
LEMMA EnqueueOneRows ==
    ASSUME NEW t \in Table, NEW k \in Key, NEW u \in EnqueueOne(t, k), RowsIn(t)
    PROVE  RowsIn(u)
<1>1. CASE u = t
  BY <1>1
<1>2. CASE u # t
  <2>1. k \notin Present(t) /\ Cardinality(Live(t)) < StoreMaxRows
    BY <1>2 DEF EnqueueOne, FitsQueue
  <2>2. PICK v \in EnforceTotalCap(t, k) :
          u \in {InsertRow(v, k, n, w) : n \in {i \in 1..MaxRowId : IsNextId(v, i)},
                                         w \in {m \in Times : IsWatermark(v, m)}}
    BY <1>2, <2>1 DEF EnqueueOne
  <2>3. PICK n \in 1..MaxRowId, w \in Times : u = InsertRow(v, k, n, w)
    BY <2>2
  <2>4. FitsTotal(v, k) /\ \E D \in SUBSET Sweepable(t) : v = Deleted(t, D)
    <3>1. Deleted(t, {}) = t
      BY DEF Deleted, Table
    <3> QED
      BY <3>1 DEF EnforceTotalCap, Sweeps
  <2>5. PICK D \in SUBSET Sweepable(t) : v = Deleted(t, D)
    BY <2>4
  <2>6. \A l \in Key : v[l] = IF l \in D THEN NoRow(l) ELSE t[l]
    BY <2>5 DEF Deleted
  <2>7. u[k].state = "pending" /\ \A l \in Key \ {k} : u[l] = v[l]
    BY <2>3, <2>5 DEF InsertRow, NoRow, Deleted
  <2>8. Live(u) \subseteq Live(t) \cup {k}
    <3>1. \A l \in Key : v[l].state \in LiveStates => t[l].state \in LiveStates
      <4>1. \A l \in Key : NoRow(l).state = "absent"
        BY DEF NoRow
      <4> QED
        BY <2>6, <4>1 DEF LiveStates
    <3> QED
      BY <2>7, <3>1 DEF Live
  <2>9. Present(u) \subseteq Present(v) \cup {k}
    BY <2>7 DEF Present
  <2>10. IsFiniteSet(Live(t)) /\ IsFiniteSet(Present(v))
    <3>1. Live(t) \subseteq Key /\ Present(v) \subseteq Key
      BY DEF Live, Present
    <3> QED
      BY <3>1, OutboxAssumption, FS_Subset
  <2>11. /\ IsFiniteSet(Live(t) \cup {k}) /\ Cardinality(Live(t) \cup {k}) <= Cardinality(Live(t)) + 1
         /\ IsFiniteSet(Present(v) \cup {k}) /\ Cardinality(Present(v) \cup {k}) <= Cardinality(Present(v)) + 1
    <3>1. Cardinality(Live(t)) \in Nat /\ Cardinality(Present(v)) \in Nat
      BY <2>10, FS_CardinalityType
    <3>2. /\ IsFiniteSet(Live(t) \cup {k})
          /\ Cardinality(Live(t) \cup {k}) \in {Cardinality(Live(t)), Cardinality(Live(t)) + 1}
      BY <2>10, FS_AddElement
    <3>3. /\ IsFiniteSet(Present(v) \cup {k})
          /\ Cardinality(Present(v) \cup {k}) \in {Cardinality(Present(v)), Cardinality(Present(v)) + 1}
      BY <2>10, FS_AddElement
    <3> QED
      BY <3>1, <3>2, <3>3
  <2>12. /\ Cardinality(Live(u)) <= Cardinality(Live(t) \cup {k})
         /\ Cardinality(Present(u)) <= Cardinality(Present(v) \cup {k})
         /\ IsFiniteSet(Live(u)) /\ IsFiniteSet(Present(u))
    BY <2>8, <2>9, <2>11, FS_Subset
  <2>13. /\ Cardinality(Live(u)) \in Nat /\ Cardinality(Live(t)) \in Nat
         /\ Cardinality(Present(u)) \in Nat /\ Cardinality(Present(v)) \in Nat
         /\ Cardinality(Live(t) \cup {k}) \in Nat /\ Cardinality(Present(v) \cup {k}) \in Nat
    BY <2>10, <2>11, <2>12, FS_CardinalityType
  <2>14. StoreMaxRows \in Nat /\ TotalMaxRows \in Nat /\ Cardinality(Present(v)) + 1 <= TotalMaxRows
    BY <2>4, OutboxAssumption DEF FitsTotal
  <2> QED
    BY <2>1, <2>11, <2>12, <2>13, <2>14 DEF RowsIn
<1> QED
  BY <1>1, <1>2

\* Such a transaction deletes no settled row before its time and no needed anchor.
LEMMA ChangesKeep ==
    ASSUME outbox \in Table, outbox' \in Table, OpsIn(outbox), Changes(outbox, outbox')
    PROVE  SettledRowsStay /\ NeededAnchorsStay /\ OpsIn(outbox')
<1>1. SettledRowsStay
  <2> SUFFICES ASSUME NEW k \in Key, outbox[k].state \in TerminalStates,
                      outbox'[k].state # outbox[k].state
               PROVE  /\ outbox[k].state # "uncertain_delivery"
                      /\ outbox[k].updated < clock - Retention
                      /\ \/ outbox'[k].state = "absent"
                         \/ outbox'[k].state = "pending" /\ \E p \in FinalPairs : k = p[2]
    BY DEF SettledRowsStay
  <2>1. Change(outbox, outbox', k)
    BY DEF Changes
  <2>2. outbox[k].state \notin LiveStates /\ outbox[k].state # "absent"
    BY DEF TerminalStates, LiveStates
  <2>3. /\ k \in Sweepable(outbox)
        /\ \/ outbox'[k].state = "absent"
           \/ outbox'[k].state = "pending" /\ \E p \in FinalPairs : k = p[2]
    BY <2>1, <2>2 DEF Change
  <2>4. outbox[k].state \in {"sent", "failed"} /\ outbox[k].updated < clock - Retention
    BY <2>3 DEF Sweepable
  <2> QED
    BY <2>3, <2>4
<1>2. NeededAnchorsStay
  <2> SUFFICES ASSUME NEW k \in Live(outbox), outbox[k].op \in Patches,
                      AnchorOf[k] \in Present(outbox), outbox'[AnchorOf[k]].state = "absent"
               PROVE  FALSE
    BY DEF NeededAnchorsStay
  <2> DEFINE a == AnchorOf[k]
  <2>1. a \in Key /\ OpOf[a] = "progress" /\ outbox[a].state # "absent"
    BY OutboxAssumption DEF OpsIn, Live, Present
  <2>2. outbox[a].op = "progress"
    BY <2>1 DEF OpsIn
  <2>3. a \in Sweepable(outbox)
    <3>1. Change(outbox, outbox', a)
      BY <2>1 DEF Changes
    <3> QED
      BY <2>1, <3>1 DEF Change, LiveStates, TerminalStates
  <2> QED
    BY <2>2, <2>3 DEF Sweepable
<1>3. OpsIn(outbox')
  <2>1. ASSUME NEW k \in Key
        PROVE  outbox'[k].op = OpOf[k] \/ (OpOf[k] = "finalize" /\ outbox'[k].op = "reply")
    BY DEF OpsIn, Changes, Change
  <2>2. ASSUME NEW k \in Live(outbox'), outbox'[k].op \in Patches
        PROVE  OpOf[AnchorOf[k]] = "progress"
    <3>1. k \in Key /\ outbox'[k].state \in LiveStates /\ Change(outbox, outbox', k)
      BY <2>2 DEF Live, Changes
    <3>2. outbox'[k].state # "absent"
      BY <3>1 DEF LiveStates
    <3>3. CASE k \in Live(outbox) /\ outbox[k].op \in Patches
      BY <3>3 DEF OpsIn
    <3>4. CASE ~(k \in Live(outbox) /\ outbox[k].op \in Patches)
      <4> QED
        BY <2>2, <3>1, <3>2, <3>4 DEF Change, Live, Patches
    <3> QED
      BY <3>3, <3>4
  <2> QED
    BY <2>1, <2>2 DEF OpsIn
<1> QED
  BY <1>1, <1>2, <1>3

\* What one enqueue may do: nothing, or sweep rows and insert row k.
Inserts(t, u, K) ==
    /\ u \in Table
    /\ \A l \in Key :
          \/ u[l] = t[l]
          \/ l \in Sweepable(t) /\ u[l] = NoRow(l)
          \/ /\ l \in K /\ (t[l].state = "absent" \/ l \in Sweepable(t))
             /\ u[l].state = "pending" /\ u[l].op = OpOf[l]

LEMMA EnqueueOneInserts ==
    ASSUME NEW t \in Table, NEW k \in Key, NEW u \in EnqueueOne(t, k), clock \in Times
    PROVE  /\ Inserts(t, u, {k})
           /\ u[k] = t[k] \/ t[k].state = "absent"
<1>0. u \in Table
  BY EnqueueOneGrows DEF Grown
<1>1. CASE u = t
  BY <1>0, <1>1 DEF Inserts
<1>2. CASE u # t
  <2>1. PICK D \in SUBSET Sweepable(t), n \in 1..MaxRowId, w \in Times :
          k \notin Present(t) /\ u = InsertRow(Deleted(t, D), k, n, w)
    BY <1>2, EnqueueOneEffect
  <2>2. t[k].state = "absent"
    BY <2>1 DEF Present
  <2>3. /\ u[k].state = "pending" /\ u[k].op = OpOf[k]
        /\ \A l \in Key \ {k} : u[l] = IF l \in D THEN NoRow(l) ELSE t[l]
    BY <2>1 DEF InsertRow, NoRow, Deleted
  <2> QED
    BY <1>0, <2>2, <2>3 DEF Inserts
<1> QED
  BY <1>1, <1>2

\* A live row is left alone by an enqueue, so what it protects from one sweep it
\* protects from the next.
LEMMA InsertsSweepable ==
    ASSUME NEW t \in Table, NEW u, NEW K, Inserts(t, u, K)
    PROVE  /\ \A l \in Live(t) : u[l] = t[l]
           /\ Sweepable(u) \subseteq Sweepable(t)
           /\ \A l \in Sweepable(u) : u[l] = t[l]
<1>1. \A l \in Live(t) : u[l] = t[l]
  BY DEF Inserts, Live, LiveStates, Sweepable
<1>2. \A l \in Sweepable(u) : u[l] = t[l]
  <2> SUFFICES ASSUME NEW l \in Key, u[l].state \in {"sent", "failed"} PROVE u[l] = t[l]
    BY DEF Sweepable
  <2>1. NoRow(l).state = "absent"
    BY DEF NoRow
  <2> QED
    BY <2>1 DEF Inserts
<1>3. ASSUME NEW l \in Sweepable(u) PROVE l \in Sweepable(t)
  <2>1. /\ l \in Key /\ u[l] = t[l] /\ t[l].state \in {"sent", "failed"}
        /\ t[l].updated < clock - Retention
    BY <1>2, <1>3 DEF Sweepable
  <2>2. ASSUME t[l].op \in {"progress", "update"}, NEW m \in Live(t), t[m].op \in Patches, AnchorOf[m] = l
        PROVE  FALSE
    <3>1. m \in Live(u) /\ u[m].op \in Patches
      BY <1>1, <2>2 DEF Live
    <3> QED
      BY <1>3, <2>1, <2>2, <3>1 DEF Sweepable
  <2> QED
    BY <2>1, <2>2 DEF Sweepable
<1> QED
  BY <1>1, <1>2, <1>3

LEMMA InsertsChange ==
    ASSUME NEW t \in Table, NEW u, NEW k \in Key, Inserts(t, u, {k}), u[k] = t[k] \/ t[k].state = "absent",
           OpOf[k] \in Patches => OpOf[AnchorOf[k]] = "progress"
    PROVE  Changes(t, u)
<1> SUFFICES ASSUME NEW l \in Key PROVE Change(t, u, l)
  BY DEF Changes
<1>1. NoRow(l).state = "absent" /\ NoRow(l).op = OpOf[l]
  BY DEF NoRow
<1>2. CASE u[l] = t[l]
  BY <1>2 DEF Change
<1>3. CASE l \in Sweepable(t) /\ u[l] = NoRow(l)
  BY <1>1, <1>3 DEF Change
<1>4. CASE l = k /\ t[k].state = "absent" /\ u[l].state = "pending" /\ u[l].op = OpOf[l]
  BY <1>4 DEF Change
<1> QED
  BY <1>2, <1>3, <1>4 DEF Inserts

\* The two parts of an answer: the second may be a row the first one swept.
LEMMA BatchChanges ==
    ASSUME NEW t \in Table, NEW u, NEW v, NEW p \in FinalPairs,
           Inserts(t, u, {p[1]}), u[p[1]] = t[p[1]] \/ t[p[1]].state = "absent",
           Inserts(u, v, {p[2]}), u \in Table,
           OpOf[p[1]] \in Patches => OpOf[AnchorOf[p[1]]] = "progress"
    PROVE  Changes(t, v)
<1>0. p[1] \in Key /\ p[2] \in Key /\ OpOf[p[2]] \notin Patches
  BY OutboxAssumption
<1> SUFFICES ASSUME NEW l \in Key PROVE Change(t, v, l)
  BY DEF Changes
<1>1. NoRow(l).state = "absent" /\ NoRow(l).op = OpOf[l]
  BY DEF NoRow
<1>2. Sweepable(u) \subseteq Sweepable(t) /\ Changes(t, u)
  BY <1>0, InsertsSweepable, InsertsChange
<1>3. Change(t, u, l)
  BY <1>2 DEF Changes
<1>4. CASE v[l] = u[l]
  BY <1>3, <1>4 DEF Change
<1>5. CASE l \in Sweepable(u) /\ v[l] = NoRow(l)
  BY <1>1, <1>2, <1>5 DEF Change
<1>6. CASE /\ l = p[2] /\ (u[l].state = "absent" \/ l \in Sweepable(u))
           /\ v[l].state = "pending" /\ v[l].op = OpOf[l]
  <2>1. t[l].state = "absent" \/ l \in Sweepable(t)
    BY <1>2, <1>6 DEF Inserts
  <2> QED
    BY <1>0, <1>6, <2>1 DEF Change
<1> QED
  BY <1>4, <1>5, <1>6 DEF Inserts

-----------------------------------------------------------------------------
(* The weaker invariant, one lemma per action.                              *)

\* What every step does: it keeps the invariant, every settled row and every
\* anchor that is needed.
Stays == WInv' /\ SettledRowsStay /\ NeededAnchorsStay

\* A job leaves the old table or the new one, whatever it reports.
LEMMA StoreJobAny ==
    ASSUME NEW t, NEW ok \in BOOLEAN, StoreJob(t, ok), TypeOK
    PROVE  /\ outbox' \in {outbox, t} /\ (ok => outbox' = t)
           /\ storeUp' \in BOOLEAN
           /\ faults' \in 0..MaxFaults
<1>1. faults' = faults \/ (faults > 0 /\ faults' = faults - 1)
  BY DEF StoreJob, Fault
<1>2. faults' \in 0..MaxFaults
  BY <1>1, OutboxAssumption DEF TypeOK
<1>3. outbox' \in {outbox, t} /\ (ok => outbox' = t) /\ (storeUp' = storeUp \/ storeUp' = FALSE)
  BY DEF StoreJob
<1> QED
  BY <1>2, <1>3 DEF TypeOK

LEMMA WeakFacts ==
    ASSUME WInv
    PROVE  /\ outbox \in Table /\ clock \in Times /\ TypeOK /\ OpsIn(outbox) /\ HeldLive /\ RowsIn(outbox)
           /\ claimed \subseteq Key /\ accepted \subseteq Key
           /\ \A k \in accepted : OpOf[k] = "progress"
BY DEF WInv, TypeOK, OpsKnown, OpsIn, RowsBounded, RowsIn

LEMMA SameChanges == ASSUME NEW t PROVE Changes(t, t)
BY DEF Changes, Change

\* The three parts of the goal, from what a step did to the table.
LEMMA StaysBy ==
    ASSUME WInv, TypeOK', HeldLive', Changes(outbox, outbox'), RowsIn(outbox'),
           \A k \in accepted' : OpOf[k] = "progress"
    PROVE  Stays
<1>1. outbox \in Table /\ outbox' \in Table /\ OpsIn(outbox)
  BY WeakFacts DEF TypeOK
<1>2. SettledRowsStay /\ NeededAnchorsStay /\ OpsIn(outbox')
  BY <1>1, ChangesKeep
<1>3. OpsKnown'
  BY <1>2 DEF OpsKnown, OpsIn
<1>4. RowsBounded'
  BY DEF RowsBounded, RowsIn
<1> QED
  BY <1>2, <1>3, <1>4 DEF Stays, WInv

\* Steps that leave the live rows and the pump's memory alone.
LEMMA LeavesLive ==
    ASSUME WInv, outbox' \in Table, Changes(outbox, outbox'), \A l \in Live(outbox) : outbox'[l] = outbox[l],
           storeUp' \in BOOLEAN, connected' \in BOOLEAN, shutdown' \in BOOLEAN, clock' \in Times,
           faults' \in 0..MaxFaults, accepted' \subseteq Key, \A k \in accepted' : OpOf[k] = "progress",
           UNCHANGED <<claimed, cur, answer>>, RowsIn(outbox'),
           \/ pc' = pc
           \/ pc = "batch" /\ pc' = "releasing"
           \/ pc \in {"idle", "down"} /\ pc' \in {"idle", "down"}
    PROVE  Stays
<1>1. TypeOK'
  BY DEF WInv, TypeOK
<1>2. HeldLive'
  <2>1. HeldLive /\ Processing' = Processing
    BY DEF WInv, Processing
  <2>2. Processing \subseteq Live(outbox)
    BY <2>1 DEF HeldLive
  <2>3. Live(outbox) \subseteq Live(outbox')
    BY DEF Live
  <2>4. \A k \in Processing : outbox'[k] = outbox[k]
    BY <2>2
  <2>5. /\ pc' \in {"idle", "down"} => claimed' = {}
        /\ pc' \in {"inflight", "receipt"} <=> cur' # None
        /\ (claimed \cup Processing)' \subseteq Live(outbox')
        /\ cur' \notin claimed'
    BY <2>1, <2>3 DEF HeldLive
  <2>6. pc' = "inflight" =>
          \A k \in Processing' : \/ answer'.req = "post" /\ outbox'[k].posts > 0
                                 \/ answer'.req = "patch" /\ outbox'[k].patches > 0
    BY <2>1, <2>4 DEF HeldLive
  <2>7. pc' = "receipt" =>
          IF answer'.req = None THEN answer'.res \in Dependencies \cup {"undecodable"}
                                ELSE answer'.res \in Answers
    BY <2>1 DEF HeldLive
  <2> QED
    BY <2>5, <2>6, <2>7 DEF HeldLive
<1> QED
  BY <1>1, <1>2, StaysBy

LEMMA ProducerStays ==
    ASSUME WInv,
           \/ \E k \in Key, ok \in BOOLEAN : Enqueue(k, ok)
           \/ \E p \in FinalPairs, ok \in BOOLEAN : EnqueueBatch(p, ok)
           \/ Sweep
    PROVE  Stays
<1>0. outbox \in Table /\ clock \in Times /\ TypeOK /\ OpsIn(outbox) /\ connected \in BOOLEAN
      /\ RowsIn(outbox)
      /\ accepted \subseteq Key /\ (\A k \in accepted : OpOf[k] = "progress") /\ shutdown \in BOOLEAN
  BY WeakFacts DEF TypeOK
<1>1. ASSUME NEW k \in Key, NEW ok \in BOOLEAN, Enqueue(k, ok) PROVE Stays
  <2>1. PICK t \in EnqueueOne(outbox, k) : StoreJob(t, ok)
    BY <1>1 DEF Enqueue
  <2>2. OpOf[k] \in Patches => OpOf[AnchorOf[k]] = "progress"
    BY <1>0, <1>1 DEF Enqueue
  <2>3. Inserts(outbox, t, {k}) /\ (t[k] = outbox[k] \/ outbox[k].state = "absent")
    BY <1>0, EnqueueOneInserts
  <2>4. Changes(outbox, t) /\ t \in Table /\ \A l \in Live(outbox) : t[l] = outbox[l]
    BY <1>0, <2>2, <2>3, InsertsChange, InsertsSweepable DEF Inserts
  <2>5. outbox' \in {outbox, t} /\ storeUp' \in BOOLEAN /\ faults' \in 0..MaxFaults
    BY <1>0, <2>1, StoreJobAny
  <2>6. /\ outbox' \in Table /\ Changes(outbox, outbox') /\ RowsIn(outbox')
        /\ \A l \in Live(outbox) : outbox'[l] = outbox[l]
    BY <1>0, <2>4, <2>5, SameChanges, EnqueueOneRows
  <2>7. accepted' \subseteq Key /\ \A l \in accepted' : OpOf[l] = "progress"
    BY <1>0, <1>1 DEF Enqueue
  <2>8. UNCHANGED <<clock, connected, shutdown, pc, claimed, cur, answer>>
    BY <1>1 DEF Enqueue
  <2> QED
    BY <1>0, <2>5, <2>6, <2>7, <2>8, LeavesLive
<1>2. ASSUME NEW p \in FinalPairs, NEW ok \in BOOLEAN, EnqueueBatch(p, ok) PROVE Stays
  <2>0. p[1] \in Key /\ p[2] \in Key
    BY OutboxAssumption
  <2>1. PICK u \in EnqueueOne(outbox, p[1]) : \E t \in EnqueueOne(u, p[2]) : StoreJob(t, ok)
    BY <1>2 DEF EnqueueBatch
  <2>2. PICK t \in EnqueueOne(u, p[2]) : StoreJob(t, ok)
    BY <2>1
  <2>3. OpOf[p[1]] \in Patches => OpOf[AnchorOf[p[1]]] = "progress"
    BY <1>0, <1>2 DEF EnqueueBatch
  <2>4. /\ Inserts(outbox, u, {p[1]}) /\ (u[p[1]] = outbox[p[1]] \/ outbox[p[1]].state = "absent")
        /\ u \in Table
    BY <1>0, <2>0, EnqueueOneInserts DEF Inserts
  <2>5. Inserts(u, t, {p[2]}) /\ t \in Table
    BY <1>0, <2>0, <2>4, EnqueueOneInserts DEF Inserts
  <2>6. Changes(outbox, t)
    BY <1>0, <2>3, <2>4, <2>5, BatchChanges
  <2>7. \A l \in Live(outbox) : t[l] = outbox[l]
    <3>1. \A l \in Live(outbox) : u[l] = outbox[l] /\ l \in Live(u)
      BY <1>0, <2>4, InsertsSweepable DEF Live
    <3>2. \A l \in Live(u) : t[l] = u[l]
      BY <2>4, <2>5, InsertsSweepable
    <3> QED
      BY <3>1, <3>2
  <2>8. outbox' \in {outbox, t} /\ storeUp' \in BOOLEAN /\ faults' \in 0..MaxFaults
    BY <1>0, <2>2, StoreJobAny
  <2>9. /\ outbox' \in Table /\ Changes(outbox, outbox') /\ \A l \in Live(outbox) : outbox'[l] = outbox[l]
    BY <1>0, <2>5, <2>6, <2>7, <2>8, SameChanges
  <2>a. RowsIn(t)
    BY <1>0, <2>0, <2>4, EnqueueOneRows
  <2>b. RowsIn(outbox')
    BY <1>0, <2>8, <2>a
  <2>10. UNCHANGED <<clock, connected, shutdown, pc, claimed, cur, answer, accepted>>
    BY <1>2 DEF EnqueueBatch
  <2> QED
    BY <1>0, <2>8, <2>9, <2>b, <2>10, LeavesLive
<1>3. ASSUME Sweep PROVE Stays
  <2>1. PICK t \in Sweeps(outbox) : StoreJob(t, TRUE)
    BY <1>3 DEF Sweep
  <2>2. PICK D \in SUBSET Sweepable(outbox) : t = Deleted(outbox, D)
    BY <2>1 DEF Sweeps
  <2>3. t \in Table
    BY <1>0, <2>2, GrownBySweep DEF Grown
  <2>4. \A l \in Key : t[l] = IF l \in D THEN NoRow(l) ELSE outbox[l]
    BY <2>2 DEF Deleted
  <2>5. Changes(outbox, t)
    <3> SUFFICES ASSUME NEW l \in Key PROVE Change(outbox, t, l)
      BY DEF Changes
    <3>1. NoRow(l).state = "absent" /\ NoRow(l).op = OpOf[l]
      BY DEF NoRow
    <3>2. t[l] = outbox[l] \/ (l \in Sweepable(outbox) /\ t[l] = NoRow(l))
      BY <2>4
    <3> QED
      BY <3>1, <3>2 DEF Change
  <2>6. \A l \in Live(outbox) : t[l] = outbox[l]
    BY <2>4 DEF Live, LiveStates, Sweepable
  <2>7. outbox' = t /\ storeUp' \in BOOLEAN /\ faults' \in 0..MaxFaults
    BY <1>0, <2>1, StoreJobAny
  <2>8. UNCHANGED <<clock, connected, shutdown, pc, claimed, cur, answer, accepted>>
    BY <1>3 DEF Sweep
  <2>9. RowsIn(outbox')
    <3>1. \A l \in Key : NoRow(l).state = "absent"
      BY DEF NoRow
    <3>2. Fewer(outbox, t)
      BY <2>4, <3>1 DEF Fewer, Live, LiveStates, Present
    <3> QED
      BY <1>0, <2>7, <3>2, FewerRows
  <2> QED
    BY <1>0, <2>3, <2>5, <2>6, <2>7, <2>8, <2>9, LeavesLive
<1> QED
  BY <1>1, <1>2, <1>3
LEMMA ClaimStays == ASSUME WInv, NEW ok \in BOOLEAN, Claim(ok) PROVE Stays
<1>0. /\ outbox \in Table /\ clock \in Times /\ TypeOK /\ HeldLive /\ RowsIn(outbox)
      /\ \A k \in accepted : OpOf[k] = "progress"
  BY WeakFacts
<1>1. PICK C \in SUBSET Due(outbox) :
        StoreJob(ClaimRows(outbox, C), ok) /\ claimed' = IF ok THEN C ELSE {}
  BY DEF Claim
<1>2. /\ outbox' \in {outbox, ClaimRows(outbox, C)} /\ (ok => outbox' = ClaimRows(outbox, C))
      /\ storeUp' \in BOOLEAN /\ faults' \in 0..MaxFaults
  BY <1>0, <1>1, StoreJobAny
<1>3. /\ C \subseteq Key /\ \A k \in C : outbox[k].state = "pending"
      /\ pc' = (IF ok THEN "batch" ELSE "idle") /\ pc = "idle"
      /\ UNCHANGED <<clock, connected, shutdown, cur, answer, accepted>>
  BY DEF Claim, Due
<1>4. cur' = None /\ Processing' = {}
  BY <1>0, <1>3, OutboxAssumption DEF HeldLive, Processing, None
<1>5. outbox' \in Table
  BY <1>0, <1>2, <1>3 DEF ClaimRows, Table, Row, States
<1>6. \A k \in Key : /\ outbox'[k].op = outbox[k].op
                     /\ \/ outbox'[k].state = outbox[k].state
                        \/ k \in C /\ outbox'[k].state = "sending"
                     /\ ok /\ k \in C => outbox'[k].state = "sending"
  BY <1>0, <1>2 DEF ClaimRows, Table, Row
<1>7. TypeOK'
  BY <1>0, <1>1, <1>2, <1>3, <1>5 DEF TypeOK
<1>8. HeldLive'
  BY <1>1, <1>3, <1>4, <1>6, OutboxAssumption DEF HeldLive, Live, LiveStates, None
<1>9. Changes(outbox, outbox')
  BY <1>3, <1>6 DEF Changes, Change, LiveStates
<1>r. RowsIn(outbox')
  <2>1. Fewer(outbox, outbox')
    BY <1>3, <1>6 DEF Fewer, Live, LiveStates, Present
  <2> QED
    BY <1>0, <2>1, FewerRows
<1> QED
  BY <1>0, <1>3, <1>7, <1>8, <1>9, <1>r, StaysBy

\* What a send finds before it reaches the provider.
LEMMA PlanType ==
    ASSUME outbox \in Table, NEW k \in Key
    PROVE  Plan(k) \in {"post", "patch", "undecodable"} \cup Dependencies
<1>1. outbox[k].op \in Ops /\ outbox[AnchorOf[k]].state \in States
  BY OutboxAssumption DEF Table, Row
<1>2. outbox[AnchorOf[k]].state # "absent" =>
        outbox[AnchorOf[k]].state \in {"sent", "failed", "uncertain_delivery"} \cup LiveStates
  BY <1>1 DEF States, LiveStates
<1>3. ProgressAnchor(k) \in {"post", "patch"} \cup Dependencies
  BY <1>2 DEF ProgressAnchor, LiveStates, Dependencies
<1> QED
  BY <1>1, <1>3 DEF Plan, Ops, Patches

LEMMA StartSendStays ==
    ASSUME WInv, NEW k \in Key, NEW readOk \in BOOLEAN, StartSend(k, readOk)
    PROVE  Stays
<1> DEFINE plan == IF readOk THEN Plan(k) ELSE "dep_pending"
<1>0. /\ outbox \in Table /\ clock \in Times /\ TypeOK /\ HeldLive /\ RowsIn(outbox)
      /\ \A l \in accepted : OpOf[l] = "progress"
  BY WeakFacts
<1>1. plan \in {"post", "patch", "undecodable"} \cup Dependencies
  BY <1>0, PlanType DEF Dependencies
<1> HIDE DEF plan
<1>2. /\ pc = "batch" /\ k \in claimed /\ claimed' = claimed \ {k} /\ cur' = k /\ k # None
      /\ UNCHANGED <<storeUp, clock, connected, shutdown, accepted>>
  BY OutboxAssumption DEF StartSend, First, None
<1>3. faults' \in 0..MaxFaults
  BY <1>0, OutboxAssumption DEF StartSend, Fault, TypeOK
<1>4. \/ /\ plan = "post" /\ pc' = "inflight" /\ answer' = [req |-> "post", res |-> None, at |-> 0]
         /\ outbox' = [outbox EXCEPT ![k].posts = @ + 1]
      \/ /\ plan = "patch" /\ pc' = "inflight" /\ answer' = [req |-> "patch", res |-> None, at |-> 0]
         /\ outbox' = [outbox EXCEPT ![k].patches = @ + 1]
      \/ /\ plan \in {"undecodable"} \cup Dependencies /\ pc' = "receipt"
         /\ answer' = [req |-> None, res |-> plan, at |-> clock] /\ outbox' = outbox
  BY <1>1 DEF StartSend, plan
<1>5. outbox[k] \in Row /\ outbox[k].posts + 1 \in Nat \ {0} /\ outbox[k].patches + 1 \in Nat \ {0}
  BY <1>0 DEF Table, Row
<1>6. [outbox[k] EXCEPT !.posts = @ + 1] \in Row /\ [outbox[k] EXCEPT !.patches = @ + 1] \in Row
  BY <1>5 DEF Row
<1>7. outbox' \in Table
  BY <1>0, <1>4, <1>6 DEF Table
<1>8. \A l \in Key : outbox'[l].state = outbox[l].state /\ outbox'[l].op = outbox[l].op
  BY <1>0, <1>4 DEF Table, Row
<1>9. /\ answer' \in Answer /\ pc' \in {"inflight", "receipt"}
      /\ pc' = "inflight" => \/ answer'.req = "post" /\ outbox'[k].posts > 0
                             \/ answer'.req = "patch" /\ outbox'[k].patches > 0
      /\ pc' = "receipt" => answer'.req = None /\ answer'.res \in Dependencies \cup {"undecodable"}
  <2>1. 0 \in Times /\ clock \in Times
    BY <1>0, OutboxAssumption DEF Times
  <2>2. answer' \in Answer
    BY <1>4, <2>1 DEF Answer, None
  <2> QED
    BY <1>0, <1>4, <1>5, <2>2 DEF Table, Row
<1>10. TypeOK'
  BY <1>0, <1>2, <1>3, <1>7, <1>9 DEF TypeOK
<1>11. HeldLive'
  <2>1. Live(outbox') = Live(outbox) /\ Processing' = {k} /\ k \in Live(outbox)
    BY <1>0, <1>2, <1>8 DEF Live, Processing, HeldLive
  <2> QED
    BY <1>0, <1>2, <1>9, <2>1 DEF HeldLive
<1>12. Changes(outbox, outbox')
  BY <1>8 DEF Changes, Change
<1>r. RowsIn(outbox')
  <2>1. Fewer(outbox, outbox')
    BY <1>8 DEF Fewer, Live, LiveStates, Present
  <2> QED
    BY <1>0, <2>1, FewerRows
<1> QED
  BY <1>0, <1>2, <1>10, <1>11, <1>12, <1>r, StaysBy

LEMMA LarkAnswersStays == ASSUME WInv, NEW res \in Answers, LarkAnswers(res) PROVE Stays
<1>0. /\ outbox \in Table /\ clock \in Times /\ TypeOK /\ HeldLive /\ RowsIn(outbox)
      /\ \A l \in accepted : OpOf[l] = "progress"
  BY WeakFacts
<1>1. /\ pc = "inflight" /\ pc' = "receipt" /\ cur \in Key /\ cur # None /\ Processing = {cur}
      /\ UNCHANGED <<storeUp, clock, connected, shutdown, faults, claimed, cur, accepted>>
      /\ answer' = [answer EXCEPT !.res = res, !.at = clock]
  BY <1>0 DEF LarkAnswers, env, TypeOK, HeldLive, Processing
<1>2. \/ outbox' = outbox
      \/ answer.req = "post" /\ outbox' = [outbox EXCEPT ![cur].posts = @ - 1]
      \/ answer.req # "post" /\ outbox' = [outbox EXCEPT ![cur].patches = @ - 1]
  BY DEF LarkAnswers
<1>3. /\ outbox[cur] \in Row
      /\ \/ answer.req = "post" /\ outbox[cur].posts - 1 \in Nat
         \/ answer.req = "patch" /\ outbox[cur].patches - 1 \in Nat
  BY <1>0, <1>1 DEF HeldLive, Table, Row
<1>4. outbox' \in Table
  <2>1. CASE outbox' = outbox
    BY <1>0, <2>1
  <2>2. CASE answer.req = "post" /\ outbox' = [outbox EXCEPT ![cur].posts = @ - 1]
    <3>1. [outbox[cur] EXCEPT !.posts = @ - 1] \in Row
      BY <1>3, <2>2 DEF Row
    <3> QED
      BY <1>0, <2>2, <3>1 DEF Table
  <2>3. CASE answer.req # "post" /\ outbox' = [outbox EXCEPT ![cur].patches = @ - 1]
    <3>1. [outbox[cur] EXCEPT !.patches = @ - 1] \in Row
      BY <1>3, <2>3 DEF Row
    <3> QED
      BY <1>0, <2>3, <3>1 DEF Table
  <2> QED
    BY <1>2, <2>1, <2>2, <2>3
<1>5. \A l \in Key : outbox'[l].state = outbox[l].state /\ outbox'[l].op = outbox[l].op
  BY <1>0, <1>2 DEF Table, Row
<1>6. answer' \in Answer /\ answer'.req \in {"post", "patch"} /\ answer'.res \in Answers
  BY <1>0, <1>1, <1>3 DEF TypeOK, Answer
<1>7. TypeOK'
  BY <1>0, <1>1, <1>4, <1>6 DEF TypeOK
<1>8. HeldLive'
  <2>1. Live(outbox') = Live(outbox) /\ Processing' = Processing
    BY <1>1, <1>5 DEF Live, Processing
  <2> QED
    BY <1>0, <1>1, <1>6, <2>1 DEF HeldLive, None
<1>9. Changes(outbox, outbox')
  BY <1>5 DEF Changes, Change
<1>r. RowsIn(outbox')
  <2>1. Fewer(outbox, outbox')
    BY <1>5 DEF Fewer, Live, LiveStates, Present
  <2> QED
    BY <1>0, <2>1, FewerRows
<1> QED
  BY <1>0, <1>1, <1>7, <1>8, <1>9, <1>r, StaysBy
\* Parking touches only live rows, and not their operation.
LEMMA ParkedRows ==
    ASSUME NEW t \in Table, NEW k \in Key, NEW at \in Times
    PROVE  \A l \in Key : /\ ParkSuccessors(t, k, at)[l].op = t[l].op
                          /\ \/ ParkSuccessors(t, k, at)[l].state = t[l].state
                             \/ /\ t[l].state \in LiveStates
                                /\ ParkSuccessors(t, k, at)[l].state = "pending"
<1> SUFFICES ASSUME NEW l \in Key
             PROVE  /\ ParkSuccessors(t, k, at)[l].op = t[l].op
                    /\ \/ ParkSuccessors(t, k, at)[l].state = t[l].state
                       \/ /\ t[l].state \in LiveStates
                          /\ ParkSuccessors(t, k, at)[l].state = "pending"
  OBVIOUS
<1>1. t[l] \in Row
  BY DEF Table
<1>2. CASE l \in Live(t) /\ t[l].id > t[k].id
  <2>1. ParkSuccessors(t, k, at)[l] = [t[l] EXCEPT !.state = "pending", !.next = Later(@, at)]
    BY <1>2 DEF ParkSuccessors
  <2>2. t[l].state \in LiveStates
    BY <1>2 DEF Live
  <2> QED
    BY <1>1, <2>1, <2>2 DEF Row
<1>3. CASE ~(l \in Live(t) /\ t[l].id > t[k].id)
  BY <1>3 DEF ParkSuccessors
<1> QED
  BY <1>2, <1>3

\* What the receipt transaction does to the table.
LEMMA ReceiptIs ==
    ASSUME WInv, pc = "receipt", ReceiptAllowed
    PROVE  /\ cur \in Key /\ cur # None /\ Receipt(cur) \in Table
           /\ \A l \in Key \ {cur} :
                 /\ Receipt(cur)[l].op = outbox[l].op
                 /\ \/ Receipt(cur)[l].state = outbox[l].state
                    \/ outbox[l].state \in LiveStates /\ Receipt(cur)[l].state = "pending"
           /\ Receipt(cur)[cur].state \in {"pending"} \cup TerminalStates
           /\ \/ Receipt(cur)[cur].op = outbox[cur].op
              \/ outbox[cur].op = "finalize" /\ Receipt(cur)[cur].op = "reply"
<1>0. /\ outbox \in Table /\ clock \in Times /\ TypeOK /\ cur \in Key /\ cur # None /\ outbox[cur] \in Row
      /\ answer.req \in {"post", "patch", None}
      /\ answer.req = None => answer.res \in Dependencies \cup {"undecodable"}
      /\ answer.req # None => answer.res \in Answers
  BY WeakFacts DEF HeldLive, TypeOK, Table, Answer
<1>1. RetryAt(cur) \in Times
  <2>1. outbox[cur].attempts + 1 \in Nat \ {0} /\ answer.at \in Nat
    BY <1>0, OutboxAssumption DEF Row, TypeOK, Answer, Times
  <2>2. RetryDelay(outbox[cur].attempts + 1) \in Nat
    BY <2>1, RetryDelayType
  <2> QED
    BY <2>1, <2>2, SaturateType DEF RetryAt
<1>2. /\ Verdict(cur) \in {"complete", "permanent", "uncertain", "retry", "fallback"}
      /\ Verdict(cur) = "fallback" => outbox[cur].op = "finalize"
  <2>1. CASE answer.req = None
    BY <1>0, <2>1 DEF Verdict, Dependencies, None
  <2>2. CASE answer.req = "post"
    BY <1>0, <2>2 DEF Verdict, Answers, Rejections, Unknowns, None
  <2>3. CASE answer.req = "patch"
    BY <1>0, <2>3 DEF Verdict, Answers, Rejections, Unknowns, None
  <2> QED
    BY <1>0, <2>1, <2>2, <2>3
<1> DEFINE u == Receipt(cur)
<1>3. CASE Verdict(cur) \in {"complete", "permanent", "uncertain"}
  <2>1. u \in {CompleteOutbox(outbox, cur), FailOutboxTerminal(outbox, cur), FailOutboxUncertain(outbox, cur)}
    BY <1>3 DEF Receipt
  <2>2. u \in Table
    BY <1>0, <1>1, <2>1, TableTypes
  <2>3. /\ \A l \in Key \ {cur} : u[l] = outbox[l]
        /\ u[cur].op = outbox[cur].op /\ u[cur].state \in TerminalStates
    BY <1>0, <2>1 DEF CompleteOutbox, FailOutboxTerminal, FailOutboxUncertain, TerminalStates, Table, Row
  <2> QED
    BY <1>0, <2>2, <2>3
<1>4. CASE Verdict(cur) = "retry"
  <2>1. u = FailOutboxAndDeferSuccessors(outbox, cur, RetryAt(cur))
    BY <1>4 DEF Receipt
  <2>2. u \in Table
    BY <1>0, <1>1, <2>1, TableTypes
  <2>3. CASE outbox[cur].attempts + 1 < MaxAttempts
    <3>1. /\ u[cur] = [outbox[cur] EXCEPT !.state = "pending", !.attempts = @ + 1, !.next = RetryAt(cur)]
          /\ \A l \in Key \ {cur} : u[l] = ParkSuccessors(outbox, cur, RetryAt(cur))[l]
      BY <1>0, <2>1, <2>3 DEF FailOutboxAndDeferSuccessors, ParkSuccessors
    <3>2. u[cur].op = outbox[cur].op /\ u[cur].state = "pending"
      BY <1>0, <3>1 DEF Row
    <3>3. \A l \in Key \ {cur} : /\ u[l].op = outbox[l].op
                                 /\ \/ u[l].state = outbox[l].state
                                    \/ outbox[l].state \in LiveStates /\ u[l].state = "pending"
      BY <1>0, <1>1, <3>1, ParkedRows
    <3> QED
      BY <1>0, <2>2, <3>2, <3>3
  <2>4. CASE ~(outbox[cur].attempts + 1 < MaxAttempts)
    <3>1. /\ u[cur] = [outbox[cur] EXCEPT !.state = "failed", !.attempts = @ + 1, !.next = RetryAt(cur),
                                          !.updated = clock]
          /\ \A l \in Key \ {cur} : u[l] = outbox[l]
      BY <1>0, <2>1, <2>4 DEF FailOutboxAndDeferSuccessors, Table
    <3>2. u[cur].op = outbox[cur].op /\ u[cur].state \in TerminalStates
      BY <1>0, <3>1 DEF Row, TerminalStates
    <3> QED
      BY <1>0, <2>2, <3>1, <3>2
  <2> QED
    BY <2>3, <2>4
<1>5. CASE Verdict(cur) = "fallback"
  <2>1. u = ReplaceOutboxWithFallback(outbox, cur)
    BY <1>5 DEF Receipt
  <2>2. u \in Table
    BY <1>0, <1>1, <2>1, TableTypes
  <2>3. /\ u[cur] = [outbox[cur] EXCEPT !.state = "pending", !.op = "reply", !.attempts = 0,
                                        !.bytes = FallbackBytes, !.next = clock]
        /\ \A l \in Key \ {cur} : u[l] = ParkSuccessors(outbox, cur, clock)[l]
    BY <1>0, <2>1 DEF ReplaceOutboxWithFallback, ParkSuccessors
  <2>4. u[cur].op = "reply" /\ u[cur].state = "pending"
    BY <1>0, <2>3 DEF Row
  <2>5. \A l \in Key \ {cur} : /\ u[l].op = outbox[l].op
                               /\ \/ u[l].state = outbox[l].state
                                  \/ outbox[l].state \in LiveStates /\ u[l].state = "pending"
    BY <1>0, <2>3, ParkedRows
  <2> QED
    BY <1>0, <1>2, <1>5, <2>2, <2>4, <2>5
<1> QED
  BY <1>2, <1>3, <1>4, <1>5

LEMMA WriteReceiptStays == ASSUME WInv, NEW ok \in BOOLEAN, WriteReceipt(ok) PROVE Stays
<1>0. /\ outbox \in Table /\ clock \in Times /\ TypeOK /\ HeldLive /\ RowsIn(outbox)
      /\ \A l \in accepted : OpOf[l] = "progress"
  BY WeakFacts
<1>1. /\ pc = "receipt" /\ claimed' \subseteq claimed /\ pc' = AfterRow(claimed')
      /\ cur' = None /\ answer' = NoAnswer /\ cur \notin claimed /\ Processing' = {}
      /\ UNCHANGED <<clock, connected, shutdown, accepted>>
  BY <1>0, OutboxAssumption DEF WriteReceipt, HeldLive, Processing, None
<1>2. /\ storeUp' \in BOOLEAN /\ faults' \in 0..MaxFaults
      /\ outbox' = outbox \/ (ReceiptAllowed /\ outbox' = Receipt(cur))
  BY <1>0, StoreJobAny DEF WriteReceipt, store, TypeOK
<1>3. outbox' \in Table
  BY <1>0, <1>1, <1>2, ReceiptIs
<1>4. \A l \in claimed : l \in Key /\ l # cur /\ outbox[l].state \in LiveStates
  BY <1>0, <1>1 DEF HeldLive, Live
<1>5. \A l \in claimed : outbox'[l].state \in LiveStates
  <2>1. "pending" \in LiveStates
    BY DEF LiveStates
  <2> QED
    BY <1>1, <1>2, <1>4, <2>1, ReceiptIs
<1>6. Changes(outbox, outbox')
  <2>1. CASE outbox' = outbox
    BY <2>1 DEF Changes, Change
  <2>2. CASE ReceiptAllowed /\ outbox' = Receipt(cur)
    <3>1. outbox[cur].state \in LiveStates /\ "pending" \in LiveStates
      BY <2>2 DEF ReceiptAllowed, LiveStates
    <3>2. ASSUME NEW l \in Key PROVE Change(outbox, outbox', l)
      <4>1. CASE l = cur
        BY <1>1, <2>2, <3>1, <4>1, ReceiptIs DEF Change
      <4>2. CASE l # cur
        BY <1>1, <2>2, <3>1, <4>2, ReceiptIs DEF Change
      <4> QED
        BY <4>1, <4>2
    <3> QED
      BY <3>2 DEF Changes
  <2> QED
    BY <1>2, <2>1, <2>2
<1>7. TypeOK'
  <2>1. NoAnswer \in Answer
    BY OutboxAssumption DEF NoAnswer, Answer, None, Times
  <2> QED
    BY <1>0, <1>1, <1>2, <1>3, <2>1 DEF TypeOK, AfterRow
<1>8. HeldLive'
  BY <1>1, <1>4, <1>5, OutboxAssumption DEF HeldLive, Live, AfterRow, None
<1>r. RowsIn(outbox')
  <2>1. CASE outbox' = outbox
    BY <1>0, <2>1
  <2>2. CASE ReceiptAllowed /\ outbox' = Receipt(cur)
    <3>1. outbox[cur].state \in LiveStates
      BY <2>2 DEF ReceiptAllowed, LiveStates
    <3>2. \A l \in Key : /\ outbox'[l].state \in LiveStates => outbox[l].state \in LiveStates
                         /\ outbox'[l].state # "absent" => outbox[l].state # "absent"
      BY <1>1, <2>2, <3>1, ReceiptIs DEF LiveStates
    <3>3. Fewer(outbox, outbox')
      BY <3>2 DEF Fewer, Live, Present
    <3> QED
      BY <1>0, <3>3, FewerRows
  <2> QED
    BY <1>2, <2>1, <2>2
<1> QED
  BY <1>0, <1>1, <1>6, <1>7, <1>8, <1>r, StaysBy

LEMMA ReleaseTailStays == ASSUME WInv, NEW k \in Key, NEW ok \in BOOLEAN, ReleaseTail(k, ok) PROVE Stays
<1>0. /\ outbox \in Table /\ clock \in Times /\ TypeOK /\ HeldLive /\ RowsIn(outbox)
      /\ \A l \in accepted : OpOf[l] = "progress"
  BY WeakFacts
<1>1. /\ pc = "releasing" /\ k \in claimed /\ claimed' = claimed \ {k}
      /\ pc' = IF claimed' = {} THEN "idle" ELSE "releasing"
      /\ UNCHANGED <<clock, connected, shutdown, cur, answer, accepted>>
      /\ cur = None /\ Processing' = {}
  BY <1>0, OutboxAssumption DEF ReleaseTail, First, HeldLive, Processing, None
<1>2. /\ storeUp' \in BOOLEAN /\ faults' \in 0..MaxFaults
      /\ \/ outbox' = outbox
         \/ outbox[k].state = "sending" /\ outbox' = ReleaseOutboxClaim(outbox, k)
  BY <1>0, StoreJobAny DEF ReleaseTail, store, TypeOK
<1>3. outbox' \in Table
  BY <1>0, <1>2, TableTypes
<1>4. \A l \in Key : /\ outbox'[l].op = outbox[l].op
                     /\ \/ outbox'[l].state = outbox[l].state
                        \/ outbox[l].state = "sending" /\ outbox'[l].state = "pending"
  BY <1>0, <1>2 DEF ReleaseOutboxClaim, Table, Row
<1>5. TypeOK'
  BY <1>0, <1>1, <1>2, <1>3 DEF TypeOK
<1>6. Live(outbox) \subseteq Live(outbox')
  BY <1>4 DEF Live, LiveStates
<1>7. HeldLive'
  BY <1>0, <1>1, <1>6 DEF HeldLive
<1>8. Changes(outbox, outbox')
  BY <1>4 DEF Changes, Change, LiveStates
<1>r. RowsIn(outbox')
  <2>1. Fewer(outbox, outbox')
    BY <1>4 DEF Fewer, Live, LiveStates, Present
  <2> QED
    BY <1>0, <2>1, FewerRows
<1> QED
  BY <1>0, <1>1, <1>5, <1>7, <1>8, <1>r, StaysBy

LEMMA CrashStays == ASSUME WInv, Crash PROVE Stays
<1>0. outbox \in Table /\ TypeOK /\ RowsIn(outbox) /\ \A l \in accepted : OpOf[l] = "progress"
  BY WeakFacts
<1>1. /\ pc' = "down" /\ claimed' = {} /\ cur' = None /\ answer' = NoAnswer /\ Processing' = {}
      /\ UNCHANGED <<outbox, storeUp, clock, connected, shutdown, accepted>>
  BY OutboxAssumption DEF Crash, store, Processing, None
<1>2. TypeOK'
  <2>1. NoAnswer \in Answer /\ faults' \in 0..MaxFaults
    BY <1>0, OutboxAssumption DEF NoAnswer, Answer, None, Times, Crash, Fault, TypeOK
  <2> QED
    BY <1>0, <1>1, <2>1 DEF TypeOK
<1>3. HeldLive'
  BY <1>1 DEF HeldLive, None
<1> QED
  BY <1>0, <1>1, <1>2, <1>3, StaysBy, SameChanges

LEMMA StartStays == ASSUME WInv, Start PROVE Stays
<1>0. outbox \in Table /\ clock \in Times /\ TypeOK /\ HeldLive /\ RowsIn(outbox)
  BY WeakFacts
<1>1. /\ pc = "down" /\ pc' = "idle" /\ storeUp' = TRUE /\ shutdown' = FALSE /\ connected' = FALSE
      /\ accepted' = {} /\ UNCHANGED <<clock, claimed, cur, answer>>
      /\ outbox' \in {outbox, RecoverSendingOutbox(outbox)}
      /\ claimed = {} /\ cur = None /\ Processing' = {}
  BY <1>0, OutboxAssumption DEF Start, HeldLive, Processing, None
<1>2. outbox' \in Table
  BY <1>0, <1>1, OutboxAssumption DEF RecoverSendingOutbox, Table, Row, States
<1>3. \A l \in Key : /\ outbox'[l].op = outbox[l].op
                     /\ \/ outbox'[l].state = outbox[l].state
                        \/ outbox[l].state = "sending" /\ outbox'[l].state = "uncertain_delivery"
  BY <1>0, <1>1 DEF RecoverSendingOutbox, Table, Row
<1>4. TypeOK'
  <2>1. faults' \in 0..MaxFaults
    BY <1>0, OutboxAssumption DEF Start, Fault, TypeOK
  <2> QED
    BY <1>0, <1>1, <1>2, <2>1 DEF TypeOK
<1>5. HeldLive'
  BY <1>0, <1>1 DEF HeldLive
<1>6. Changes(outbox, outbox')
  BY <1>3 DEF Changes, Change, LiveStates, TerminalStates
<1>r. RowsIn(outbox')
  <2>1. Fewer(outbox, outbox')
    BY <1>3 DEF Fewer, Live, LiveStates, Present
  <2> QED
    BY <1>0, <2>1, FewerRows
<1> QED
  BY <1>1, <1>4, <1>5, <1>6, <1>r, StaysBy

LEMMA QuietStays ==
    ASSUME WInv, \/ BeginRelease \/ Stop \/ RequestShutdown \/ Connect \/ Disconnect \/ Tick
                 \/ SetClockBack \/ UNCHANGED vars
    PROVE  Stays
<1>0. outbox \in Table /\ clock \in Times /\ TypeOK /\ RowsIn(outbox) /\ \A l \in accepted : OpOf[l] = "progress"
  BY WeakFacts
<1>1. /\ UNCHANGED <<outbox, storeUp, claimed, cur, answer, accepted>>
      /\ \/ pc' = pc
         \/ pc = "batch" /\ pc' = "releasing"
         \/ pc = "idle" /\ pc' = "down"
  BY DEF BeginRelease, Stop, RequestShutdown, Connect, Disconnect, Tick, SetClockBack, vars, store, env
<1>2. clock' \in Times
  <2>1. clock' = clock \/ clock' = Saturate(clock + 1) \/ clock' \in 0..(clock - 1)
    BY DEF BeginRelease, Stop, RequestShutdown, Connect, Disconnect, Tick, SetClockBack, vars, env
  <2>2. clock + 1 \in Nat /\ clock \in Nat /\ clock <= MaxTime /\ MaxTime \in Nat
    BY <1>0, OutboxAssumption DEF Times
  <2>3. Saturate(clock + 1) \in Times
    BY <2>2, SaturateType
  <2> QED
    BY <1>0, <2>1, <2>2, <2>3 DEF Times
<1>3. faults' \in 0..MaxFaults
  <2>1. faults' = faults \/ (faults > 0 /\ faults' = faults - 1)
    BY DEF BeginRelease, Stop, RequestShutdown, Connect, Disconnect, Tick, SetClockBack, vars, env, Fault
  <2> QED
    BY <1>0, <2>1, OutboxAssumption DEF TypeOK
<1>4. connected' \in BOOLEAN /\ shutdown' \in BOOLEAN
  BY <1>0 DEF BeginRelease, Stop, RequestShutdown, Connect, Disconnect, Tick, SetClockBack, vars, env, TypeOK
<1>5. storeUp' \in BOOLEAN /\ accepted' \subseteq Key
  BY <1>0, <1>1 DEF TypeOK
<1> QED
  BY <1>0, <1>1, <1>2, <1>3, <1>4, <1>5, SameChanges, LeavesLive

LEMMA NextStays == ASSUME WInv, [Next]_vars PROVE Stays
BY ProducerStays, ClaimStays, StartSendStays, LarkAnswersStays, WriteReceiptStays, ReleaseTailStays,
   CrashStays, StartStays, QuietStays DEF Next, Pump, Environment

LEMMA InitWeak == Init => WInv
<1> SUFFICES ASSUME Init PROVE WInv
  OBVIOUS
<1>1. TypeOK
  BY InitInv DEF IInv
<1>2. /\ \A k \in Key : outbox[k].state = "absent" /\ outbox[k].op = OpOf[k]
      /\ pc = "idle" /\ claimed = {} /\ cur = None /\ accepted = {}
  BY DEF Init, NoRow
<1>3. Live(outbox) = {} /\ Processing = {}
  BY <1>2, OutboxAssumption DEF Live, LiveStates, Processing, None
<1>4. HeldLive /\ OpsKnown
  BY <1>2, <1>3 DEF HeldLive, OpsKnown, None
<1>5. RowsBounded
  <2>1. Present(outbox) = {}
    BY <1>2 DEF Present
  <2> QED
    BY <1>3, <2>1, FS_EmptySet, OutboxAssumption DEF RowsBounded
<1> QED
  BY <1>1, <1>4, <1>5 DEF WInv

\* The invariant that no assumption on the clock or the writer is needed for.
THEOREM WeakInductive == Spec => []WInv
<1>1. WInv /\ [Next]_vars => WInv'
  BY NextStays DEF Stays
<1> QED
  BY <1>1, InitWeak, PTL DEF Spec

\* Every variable keeps its type, and the table only holds state texts that
\* OutboxState::parse reads back.
THEOREM TypeCorrect == Spec => []TypeOK
<1>1. WInv => TypeOK
  BY DEF WInv
<1> QED
  BY <1>1, WeakInductive, PTL

\* A settled row leaves its state only by retention, and an uncertain one never:
\* whatever the clock does and whatever the writer reports.
THEOREM SettledForGood == Spec => SettledStays
<1>1. WInv /\ [Next]_vars => [SettledRowsStay]_vars
  BY NextStays DEF Stays
<1> QED
  BY <1>1, WeakInductive, PTL DEF Spec, SettledStays

\* No sweep deletes the anchor that a live update or finalize still needs.
THEOREM AnchorsKept == Spec => AnchorSurvives
<1>1. WInv /\ [Next]_vars => [NeededAnchorsStay]_vars
  BY NextStays DEF Stays
<1> QED
  BY <1>1, WeakInductive, PTL DEF Spec, AnchorSurvives
\* The bounds on the number of rows hold in every state, across enqueues of several
\* rows, inline sweeps, crashes and jobs that commit and report an error.
THEOREM RowsStayBounded == Spec => []RowsBounded
<1>1. WInv => RowsBounded
  BY DEF WInv
<1> QED
  BY <1>1, WeakInductive, PTL
-----------------------------------------------------------------------------
(* The bounds on bytes.  A sum over a set is a fold of the library; it is    *)
(* shown to be the number of elements of a set, about which there are facts. *)

Sized(t, S) == \A k \in S : t[k].bytes \in Nat

\* The bytes of the rows of S one by one: their number is the sum.
Counted(t, S) == UNION {{k} \X (1..t[k].bytes) : k \in S}

\* There are finitely many.
LEMMA CountedFinite ==
    ASSUME NEW t, NEW S, IsFiniteSet(S), Sized(t, S)
    PROVE  IsFiniteSet(Counted(t, S)) /\ Cardinality(Counted(t, S)) \in Nat
<1> DEFINE f == [k \in S |-> {k} \X (1..t[k].bytes)]
           I == {{k} \X (1..t[k].bytes) : k \in S}
<1>1. f \in Surjection(S, I)
  BY DEF Surjection
<1>2. IsFiniteSet(I)
  BY <1>1, FS_Surjection
<1>3. ASSUME NEW T \in I PROVE IsFiniteSet(T)
  <2>1. PICK k \in S : T = {k} \X (1..t[k].bytes)
    OBVIOUS
  <2>2. t[k].bytes \in Int /\ 1 \in Int
    BY DEF Sized
  <2>3. IsFiniteSet(1..t[k].bytes)
    BY <2>2, FS_Interval, Zenon
  <2>4. IsFiniteSet({k})
    BY FS_Singleton
  <2> QED
    BY <2>1, <2>3, <2>4, FS_Product
<1> HIDE DEF I
<1>4. IsFiniteSet(UNION I)
  BY <1>2, <1>3, FS_UNION
<1> QED
  BY <1>4, FS_CardinalityType DEF Counted, I

\* One row more.
LEMMA CountedSplit ==
    ASSUME NEW t, NEW S, IsFiniteSet(S), Sized(t, S), NEW c \in S
    PROVE  Cardinality(Counted(t, S)) = t[c].bytes + Cardinality(Counted(t, S \ {c}))
<1> DEFINE n == t[c].bytes  P == {c} \X (1..n)  R == Counted(t, S \ {c})
<1>1. n \in Nat
  BY DEF Sized
<1>2. Counted(t, S) = R \cup P /\ R \cap P = {}
  BY DEF Counted
<1>3. IsFiniteSet(S \ {c}) /\ Sized(t, S \ {c})
  BY FS_RemoveElement DEF Sized
<1>4. IsFiniteSet(R) /\ Cardinality(R) \in Nat
  BY <1>3, CountedFinite
<1>5. IsFiniteSet(P) /\ Cardinality(P) = n
  <2>1. IsFiniteSet({c}) /\ Cardinality({c}) = 1
    BY FS_Singleton
  <2>2. n \in Int /\ 1 \in Int
    BY <1>1
  <2>3. IsFiniteSet(1..n) /\ Cardinality(1..n) = IF 1 > n THEN 0 ELSE n - 1 + 1
    BY <2>2, FS_Interval
  <2>4. Cardinality(1..n) = n
    BY <1>1, <2>3
  <2> DEFINE A == {c}  B == 1..n
  <2> HIDE DEF A, B, n
  <2>5. IsFiniteSet(A \X B) /\ Cardinality(A \X B) = Cardinality(A) * Cardinality(B)
    <3>1. IsFiniteSet(A) /\ IsFiniteSet(B)
      BY <2>1, <2>3 DEF A, B
    <3> QED
      BY <3>1, FS_Product
  <2>6. IsFiniteSet(P) /\ Cardinality(P) = 1 * n
    BY <2>1, <2>4, <2>5 DEF A, B
  <2> QED
    BY <2>6, <1>1
<1> HIDE DEF P, R, n
<1>6. Cardinality(R \cup P) = Cardinality(R) + Cardinality(P) - Cardinality(R \cap P)
  BY <1>4, <1>5, FS_Union
<1>7. Cardinality(R \cap P) = 0
  BY <1>2, FS_EmptySet
<1>8. Cardinality(Counted(t, S)) = n + Cardinality(R)
  BY <1>1, <1>2, <1>4, <1>5, <1>6, <1>7
<1> QED
  BY <1>8 DEF n, R

\* h computes the sums over the subsets of S the way the fold does.
Sums(t, S, h) == h = [s \in SUBSET S |-> IF s = {} THEN 0
                       ELSE t[CHOOSE x \in s : TRUE].bytes + h[s \ {CHOOSE x \in s : TRUE}]]

\* BytesIn is that function at S, if there is exactly one.
LEMMA SumUnfolds == ASSUME NEW t, NEW S, NEW g, \A h : Sums(t, S, h) <=> h = g
   PROVE BytesIn(t, S) = g[S]
 BY DEF Sums, BytesIn, MapThenSumSet, MapThenFoldSet

\* The fold counts: the number of elements solves its equation, and nothing else does.
LEMMA BytesCounted ==
    ASSUME NEW t, NEW S, IsFiniteSet(S), Sized(t, S)
    PROVE  BytesIn(t, S) = Cardinality(Counted(t, S))
<1> DEFINE g == [s \in SUBSET S |-> Cardinality(Counted(t, s))]
           c(s) == CHOOSE x \in s : TRUE
<1>1. ASSUME NEW s \in SUBSET S, s # {}
      PROVE  /\ c(s) \in s /\ s \ {c(s)} \in SUBSET S
             /\ g[s] = t[c(s)].bytes + g[s \ {c(s)}]
  <2>1. c(s) \in s
    BY <1>1
  <2>2. IsFiniteSet(s) /\ Sized(t, s)
    BY FS_Subset DEF Sized
  <2> HIDE DEF c
  <2> QED
    BY <2>1, <2>2, CountedSplit
<1>2. g[{}] = 0
  BY FS_EmptySet DEF Counted
<1>3. Sums(t, S, g)
  <2> DEFINE G(s) == IF s = {} THEN 0 ELSE t[c(s)].bytes + g[s \ {c(s)}]
  <2>1. \A s \in SUBSET S : g[s] = G(s)
    BY <1>1, <1>2
  <2>2. g = [s \in SUBSET S |-> g[s]]
    OBVIOUS
  <2> HIDE DEF g
  <2>3. g = [s \in SUBSET S |-> G(s)]
    BY <2>1, <2>2, Zenon
  <2> QED
    BY <2>3, Zenon DEF Sums
<1>4. ASSUME NEW h, Sums(t, S, h) PROVE h = g
  <2>0. /\ h = [s \in SUBSET S |-> h[s]] /\ h[{}] = 0
        /\ \A s \in SUBSET S : s # {} => h[s] = t[c(s)].bytes + h[s \ {c(s)}]
    BY <1>4 DEF Sums
  <2> DEFINE Bad == {s \in SUBSET S : h[s] # g[s]}
             T == {Cardinality(s) : s \in Bad}
  <2> HIDE DEF g, c
  <2>1. SUFFICES ASSUME Bad # {} PROVE FALSE
    <3>1. \A s \in SUBSET S : h[s] = g[s]
      BY <2>1
    <3>2. g = [s \in SUBSET S |-> g[s]]
      BY DEF g
    <3> QED
      BY <3>1, <3>2, <2>0, Zenon
  <2>2. \A s \in Bad : IsFiniteSet(s) /\ Cardinality(s) \in Nat
    BY FS_Subset, FS_CardinalityType
  <2>3. PICK n \in T : \A m \in T : n <= m
    <3>1. T \in SUBSET Nat /\ T # {}
      BY <2>1, <2>2
    <3>2. PICK n \in T : \A m \in T : ~ (<<m, n>> \in OpToRel(<, Nat))
      BY <3>1, NatLessThanWellFounded, WFMin, Zenon
    <3>3. \A m \in T : ~ (m < n)
      BY <3>1, <3>2 DEF OpToRel
    <3> QED
      BY <3>1, <3>3
  <2>4. PICK s \in Bad : n = Cardinality(s)
    OBVIOUS
  <2>5. s # {}
    BY <1>2, <2>0
  <2>6. c(s) \in s /\ s \ {c(s)} \in SUBSET S /\ h[s \ {c(s)}] # g[s \ {c(s)}]
    BY <1>1, <2>0, <2>5
  <2>7. Cardinality(s \ {c(s)}) = n - 1
    BY <2>2, <2>4, <2>6, FS_RemoveElement
  <2>8. n \in Nat /\ n - 1 \in T
    BY <2>2, <2>4, <2>6, <2>7
  <2> QED
    BY <2>3, <2>8
<1>5. \A h : Sums(t, S, h) <=> h = g
  BY <1>3, <1>4
<1>6. BytesIn(t, S) = g[S]
  <2> HIDE DEF g
  <2> QED BY <1>5, SumUnfolds, Zenon
<1> QED
  BY <1>6
\* What follows for the sums of a table.
LEMMA BytesAdd ==
    ASSUME NEW t, NEW S, IsFiniteSet(S), Sized(t, S), NEW c \in S
    PROVE  /\ BytesIn(t, S) = t[c].bytes + BytesIn(t, S \ {c})
           /\ BytesIn(t, S \ {c}) \in Nat /\ t[c].bytes \in Nat
<1>1. IsFiniteSet(S \ {c}) /\ Sized(t, S \ {c})
  BY FS_RemoveElement DEF Sized
<1> QED
  BY <1>1, CountedFinite, CountedSplit, BytesCounted DEF Sized

LEMMA BytesMono ==
    ASSUME NEW t, NEW u, NEW S, NEW T \in SUBSET S, IsFiniteSet(S), Sized(t, S),
           \A k \in T : u[k].bytes = t[k].bytes
    PROVE  /\ BytesIn(u, T) <= BytesIn(t, S)
           /\ BytesIn(u, T) \in Nat /\ BytesIn(t, S) \in Nat
<1>1. IsFiniteSet(T) /\ Sized(u, T)
  BY FS_Subset DEF Sized
<1>2. Counted(u, T) \in SUBSET Counted(t, S)
  BY DEF Counted
<1>3. IsFiniteSet(Counted(t, S))
  BY CountedFinite
<1>4. Cardinality(Counted(u, T)) <= Cardinality(Counted(t, S))
  BY <1>2, <1>3, FS_Subset
<1> QED
  BY <1>1, <1>4, BytesCounted, CountedFinite

\* The bounds on bytes, for a table.
BytesFit(t) == BytesIn(t, Live(t)) <= StoreMaxBytes /\ BytesIn(t, Present(t)) <= TotalMaxBytes

LEMMA TableSums ==
    ASSUME NEW t \in Table
    PROVE  /\ IsFiniteSet(Live(t)) /\ IsFiniteSet(Present(t)) /\ Live(t) \in SUBSET Present(t)
           /\ Sized(t, Live(t)) /\ Sized(t, Present(t))
<1>1. Live(t) \subseteq Key /\ Present(t) \subseteq Key /\ Live(t) \in SUBSET Present(t)
  BY DEF Live, Present, LiveStates
<1>2. IsFiniteSet(Live(t)) /\ IsFiniteSet(Present(t))
  BY <1>1, OutboxAssumption, FS_Subset
<1>3. \A k \in Key : t[k].bytes \in Nat
  BY DEF Table, Row
<1> QED
  BY <1>1, <1>2, <1>3 DEF Sized

\* Rows settle, go or stay, and keep their payload.
Lighter(t, u) ==
    \A k \in Key : u[k].state # "absent" =>
        /\ t[k].state # "absent" /\ u[k].bytes = t[k].bytes
        /\ u[k].state \in LiveStates => t[k].state \in LiveStates

LEMMA LighterFits ==
    ASSUME NEW t \in Table, NEW u, Lighter(t, u), BytesFit(t) PROVE BytesFit(u)
<1>1. /\ Live(u) \in SUBSET Live(t) /\ Present(u) \in SUBSET Present(t)
      /\ \A k \in Live(u) : u[k].bytes = t[k].bytes
      /\ \A k \in Present(u) : u[k].bytes = t[k].bytes
  BY DEF Lighter, Live, Present, LiveStates
<1>2. /\ BytesIn(u, Live(u)) <= BytesIn(t, Live(t))
      /\ BytesIn(u, Live(u)) \in Nat /\ BytesIn(t, Live(t)) \in Nat
  BY <1>1, TableSums, BytesMono
<1>3. /\ BytesIn(u, Present(u)) <= BytesIn(t, Present(t))
      /\ BytesIn(u, Present(u)) \in Nat /\ BytesIn(t, Present(t)) \in Nat
  BY <1>1, TableSums, BytesMono
<1>4. StoreMaxBytes \in Nat /\ TotalMaxBytes \in Nat
  BY OutboxAssumption
<1> QED
  BY <1>2, <1>3, <1>4 DEF BytesFit

\* Row k gets n bytes while the other rows only get lighter.
LEMMA HeavierFits ==
    ASSUME NEW t \in Table, NEW u \in Table, NEW k \in Key, NEW n \in Nat,
           k \in Live(u), u[k].bytes = n,
           \A l \in Key \ {k} : u[l].state # "absent" =>
               /\ t[l].state # "absent" /\ u[l].bytes = t[l].bytes
               /\ u[l].state \in LiveStates => t[l].state \in LiveStates
    PROVE  /\ BytesIn(u, Live(u)) <= n + BytesIn(t, Live(t) \ {k})
           /\ BytesIn(u, Present(u)) <= n + BytesIn(t, Present(t) \ {k})
<1>0. k \in Present(u)
  BY DEF Live, Present, LiveStates
<1>1. /\ Live(u) \ {k} \in SUBSET (Live(t) \ {k}) /\ Present(u) \ {k} \in SUBSET (Present(t) \ {k})
      /\ \A l \in Live(u) \ {k} : u[l].bytes = t[l].bytes
      /\ \A l \in Present(u) \ {k} : u[l].bytes = t[l].bytes
  BY DEF Live, Present, LiveStates
<1>2. /\ IsFiniteSet(Live(t) \ {k}) /\ IsFiniteSet(Present(t) \ {k})
      /\ Sized(t, Live(t) \ {k}) /\ Sized(t, Present(t) \ {k})
  BY TableSums, FS_RemoveElement DEF Sized
<1>3. /\ BytesIn(u, Live(u) \ {k}) <= BytesIn(t, Live(t) \ {k})
      /\ BytesIn(u, Live(u) \ {k}) \in Nat /\ BytesIn(t, Live(t) \ {k}) \in Nat
  BY <1>1, <1>2, BytesMono
<1>4. /\ BytesIn(u, Present(u) \ {k}) <= BytesIn(t, Present(t) \ {k})
      /\ BytesIn(u, Present(u) \ {k}) \in Nat /\ BytesIn(t, Present(t) \ {k}) \in Nat
  BY <1>1, <1>2, BytesMono
<1>5. BytesIn(u, Live(u)) = n + BytesIn(u, Live(u) \ {k})
  BY TableSums, BytesAdd
<1>6. BytesIn(u, Present(u)) = n + BytesIn(u, Present(u) \ {k})
  BY <1>0, TableSums, BytesAdd
<1> QED
  BY <1>3, <1>4, <1>5, <1>6

\* An enqueue checks the bytes too: the queued ones before its sweep, all after it.
LEMMA EnqueueOneBytes ==
    ASSUME NEW t \in Table, NEW k \in Key, NEW u \in EnqueueOne(t, k), clock \in Times, BytesFit(t)
    PROVE  BytesFit(u)
<1>1. CASE u = t
  BY <1>1
<1>2. CASE u # t
  <2>0. u \in Table
    BY EnqueueOneGrows DEF Grown
  <2>1. k \notin Present(t) /\ BytesIn(t, Live(t)) + BytesOf[k] <= StoreMaxBytes
    BY <1>2 DEF EnqueueOne, FitsQueue
  <2>2. PICK v \in EnforceTotalCap(t, k) :
          u \in {InsertRow(v, k, n, w) : n \in {i \in 1..MaxRowId : IsNextId(v, i)},
                                         w \in {m \in Times : IsWatermark(v, m)}}
    BY <1>2, <2>1 DEF EnqueueOne
  <2>3. PICK n \in 1..MaxRowId, w \in Times : u = InsertRow(v, k, n, w)
    BY <2>2
  <2>4. BytesIn(v, Present(v)) + BytesOf[k] <= TotalMaxBytes /\ \E D \in SUBSET Sweepable(t) : v = Deleted(t, D)
    <3>1. Deleted(t, {}) = t
      BY DEF Deleted, Table
    <3> QED
      BY <3>1 DEF EnforceTotalCap, Sweeps, FitsTotal
  <2>5. PICK D \in SUBSET Sweepable(t) : v = Deleted(t, D)
    BY <2>4
  <2>6. \A l \in Key : v[l] = IF l \in D THEN NoRow(l) ELSE t[l]
    BY <2>5 DEF Deleted
  <2>7. \A l \in Key : NoRow(l).state = "absent"
    BY DEF NoRow
  <2>8. v \in Table /\ Lighter(t, v)
    BY <2>5, <2>6, <2>7, GrownBySweep DEF Grown, Lighter
  <2>9. /\ u[k].state = "pending" /\ u[k].bytes = BytesOf[k] /\ BytesOf[k] \in Nat
        /\ \A l \in Key \ {k} : u[l] = v[l]
    BY <2>3, <2>5, OutboxAssumption DEF InsertRow, NoRow, Deleted
  <2>10. k \in Live(u)
    BY <2>9 DEF Live, LiveStates
  <2>11. k \notin Live(t) /\ k \notin Present(v)
    BY <2>1, <2>6, <2>7 DEF Live, Present, LiveStates
  <2>12. BytesIn(u, Live(u)) <= BytesOf[k] + BytesIn(t, Live(t) \ {k})
    BY <2>0, <2>8, <2>9, <2>10, HeavierFits DEF Lighter
  <2>13. BytesIn(u, Present(u)) <= BytesOf[k] + BytesIn(v, Present(v) \ {k})
    BY <2>0, <2>8, <2>9, <2>10, HeavierFits
  <2>14. Live(t) \ {k} = Live(t) /\ Present(v) \ {k} = Present(v)
    BY <2>11
  <2>15. /\ BytesIn(t, Live(t)) \in Nat /\ BytesIn(v, Present(v)) \in Nat
         /\ BytesIn(u, Live(u)) \in Nat /\ BytesIn(u, Present(u)) \in Nat
    BY <2>0, <2>8, TableSums, BytesMono
  <2>16. StoreMaxBytes \in Nat /\ TotalMaxBytes \in Nat
    BY OutboxAssumption
  <2>17. /\ BytesIn(u, Live(u)) <= BytesOf[k] + BytesIn(t, Live(t))
         /\ BytesIn(u, Present(u)) <= BytesOf[k] + BytesIn(v, Present(v))
    BY <2>12, <2>13, <2>14
  <2>18. BytesIn(u, Live(u)) <= StoreMaxBytes
    BY <2>1, <2>9, <2>15, <2>16, <2>17
  <2>19. BytesIn(u, Present(u)) <= TotalMaxBytes
    BY <2>4, <2>9, <2>15, <2>16, <2>17
  <2> QED
    BY <2>18, <2>19 DEF BytesFit
<1> QED
  BY <1>1, <1>2

\* Parking keeps the payload.
LEMMA ParkedBytes ==
    ASSUME NEW t \in Table, NEW k \in Key, NEW at, NEW l \in Key
    PROVE  ParkSuccessors(t, k, at)[l].bytes = t[l].bytes
<1>1. t[l] \in Row
  BY DEF Table
<1>2. [t[l] EXCEPT !.state = "pending", !.next = Later(@, at)].bytes = t[l].bytes
  BY <1>1 DEF Row
<1> QED
  BY <1>2 DEF ParkSuccessors

\* Every receipt but the fallback keeps the payload; the fallback is longer by what
\* FitsFallback checked.
LEMMA ReceiptFits ==
    ASSUME WInv, pc = "receipt", ReceiptAllowed, BytesFit(outbox) PROVE BytesFit(Receipt(cur))
<1> DEFINE u == Receipt(cur)
<1>0. /\ outbox \in Table /\ clock \in Times /\ cur \in Key /\ outbox[cur] \in Row /\ u \in Table
      /\ outbox[cur].state = "sending"
  BY WeakFacts, ReceiptIs DEF Table, ReceiptAllowed
<1>1. \A l \in Key \ {cur} : u[l].state # "absent" =>
          /\ outbox[l].state # "absent"
          /\ u[l].state \in LiveStates => outbox[l].state \in LiveStates
  BY ReceiptIs DEF LiveStates
<1>2. Verdict(cur) \in {"complete", "permanent", "uncertain", "retry", "fallback"}
  <2>1. /\ answer.req \in {"post", "patch", None}
        /\ answer.req = None => answer.res \in Dependencies \cup {"undecodable"}
        /\ answer.req # None => answer.res \in Answers
    BY WeakFacts DEF HeldLive, TypeOK, Answer
  <2>2. CASE answer.req = None
    BY <2>1, <2>2 DEF Verdict, Dependencies, None
  <2>3. CASE answer.req = "post"
    BY <2>1, <2>3 DEF Verdict, Answers, Rejections, Unknowns, None
  <2>4. CASE answer.req = "patch"
    BY <2>1, <2>4 DEF Verdict, Answers, Rejections, Unknowns, None
  <2> QED
    BY <2>1, <2>2, <2>3, <2>4
<1>3. CASE Verdict(cur) # "fallback"
  <2>1. \A l \in Key : u[l].bytes = outbox[l].bytes
    <3>1. CASE Verdict(cur) \in {"complete", "permanent", "uncertain"}
      BY <1>0, <3>1 DEF Receipt, CompleteOutbox, FailOutboxTerminal, FailOutboxUncertain, Table, Row
    <3>2. CASE Verdict(cur) = "retry" /\ outbox[cur].attempts + 1 < MaxAttempts
      <4>1. /\ u[cur] = [outbox[cur] EXCEPT !.state = "pending", !.attempts = @ + 1, !.next = RetryAt(cur)]
            /\ \A l \in Key \ {cur} : u[l] = ParkSuccessors(outbox, cur, RetryAt(cur))[l]
        BY <1>0, <3>2 DEF Receipt, FailOutboxAndDeferSuccessors, ParkSuccessors
      <4>2. u[cur].bytes = outbox[cur].bytes
        BY <1>0, <4>1 DEF Row
      <4>3. \A l \in Key : ParkSuccessors(outbox, cur, RetryAt(cur))[l].bytes = outbox[l].bytes
        BY <1>0, ParkedBytes
      <4> QED
        BY <4>1, <4>2, <4>3
    <3>3. CASE Verdict(cur) = "retry" /\ ~(outbox[cur].attempts + 1 < MaxAttempts)
      BY <1>0, <3>3 DEF Receipt, FailOutboxAndDeferSuccessors, Table, Row
    <3> QED
      BY <1>2, <1>3, <3>1, <3>2, <3>3
  <2>2. Lighter(outbox, u)
    BY <1>0, <1>1, <2>1 DEF Lighter, LiveStates
  <2> QED
    BY <1>0, <2>2, LighterFits
<1>4. CASE Verdict(cur) = "fallback"
  <2> DEFINE b == outbox[cur].bytes
  <2>0. FitsFallback(outbox, cur) /\ b \in Nat /\ FallbackBytes \in Nat
    BY <1>0, <1>4, OutboxAssumption DEF ReceiptAllowed, Row
  <2>1. /\ u[cur] = [outbox[cur] EXCEPT !.state = "pending", !.op = "reply", !.attempts = 0,
                                        !.bytes = FallbackBytes, !.next = clock]
        /\ \A l \in Key \ {cur} : u[l] = ParkSuccessors(outbox, cur, clock)[l]
    BY <1>0, <1>4 DEF Receipt, ReplaceOutboxWithFallback, ParkSuccessors
  <2>2. u[cur].bytes = FallbackBytes /\ cur \in Live(u)
    BY <1>0, <2>1 DEF Row, Live, LiveStates
  <2>3. \A l \in Key \ {cur} : u[l].bytes = outbox[l].bytes
    BY <1>0, <2>1, ParkedBytes
  <2>4. /\ BytesIn(u, Live(u)) <= FallbackBytes + BytesIn(outbox, Live(outbox) \ {cur})
        /\ BytesIn(u, Present(u)) <= FallbackBytes + BytesIn(outbox, Present(outbox) \ {cur})
    BY <1>0, <1>1, <2>0, <2>2, <2>3, HeavierFits
  <2>5. cur \in Live(outbox) /\ cur \in Present(outbox)
    BY <1>0 DEF Live, LiveStates, Present
  <2>6. /\ BytesIn(outbox, Live(outbox)) = b + BytesIn(outbox, Live(outbox) \ {cur})
        /\ BytesIn(outbox, Live(outbox) \ {cur}) \in Nat
    BY <1>0, <2>5, TableSums, BytesAdd
  <2>7. /\ BytesIn(outbox, Present(outbox)) = b + BytesIn(outbox, Present(outbox) \ {cur})
        /\ BytesIn(outbox, Present(outbox) \ {cur}) \in Nat
    BY <1>0, <2>5, TableSums, BytesAdd
  <2>8. BytesIn(u, Live(u)) \in Nat /\ BytesIn(u, Present(u)) \in Nat
    BY <1>0, TableSums, BytesMono
  <2>9. StoreMaxBytes \in Nat /\ TotalMaxBytes \in Nat
    BY OutboxAssumption
  <2> QED
    BY <2>0, <2>4, <2>6, <2>7, <2>8, <2>9 DEF BytesFit, FitsFallback, Later
<1> QED
  BY <1>3, <1>4

\* A job leaves a table that fits if its own does.
LEMMA NextFits == ASSUME WInv, BytesFit(outbox), [Next]_vars PROVE BytesFit(outbox')
<1>0. outbox \in Table /\ clock \in Times /\ TypeOK
  BY WeakFacts
<1>1. ASSUME NEW k \in Key, NEW ok \in BOOLEAN, Enqueue(k, ok) PROVE BytesFit(outbox')
  <2>1. PICK t \in EnqueueOne(outbox, k) : StoreJob(t, ok)
    BY <1>1 DEF Enqueue
  <2> QED
    BY <1>0, <2>1, StoreJobAny, EnqueueOneBytes
<1>2. ASSUME NEW p \in FinalPairs, NEW ok \in BOOLEAN, EnqueueBatch(p, ok) PROVE BytesFit(outbox')
  <2>0. p[1] \in Key /\ p[2] \in Key
    BY OutboxAssumption
  <2>1. PICK u \in EnqueueOne(outbox, p[1]) : \E t \in EnqueueOne(u, p[2]) : StoreJob(t, ok)
    BY <1>2 DEF EnqueueBatch
  <2>2. PICK t \in EnqueueOne(u, p[2]) : StoreJob(t, ok)
    BY <2>1
  <2>3. u \in Table /\ BytesFit(u)
    BY <1>0, <2>0, EnqueueOneGrows, EnqueueOneBytes DEF Grown
  <2>4. BytesFit(t)
    BY <1>0, <2>0, <2>3, EnqueueOneBytes
  <2> QED
    BY <1>0, <2>2, <2>4, StoreJobAny
<1>3. ASSUME Sweep PROVE BytesFit(outbox')
  <2>1. PICK t \in Sweeps(outbox) : StoreJob(t, TRUE)
    BY <1>3 DEF Sweep
  <2>2. PICK D \in SUBSET Sweepable(outbox) : t = Deleted(outbox, D)
    BY <2>1 DEF Sweeps
  <2>3. \A l \in Key : NoRow(l).state = "absent" /\ t[l] = IF l \in D THEN NoRow(l) ELSE outbox[l]
    BY <2>2 DEF Deleted, NoRow
  <2>4. Lighter(outbox, t)
    BY <2>3 DEF Lighter
  <2> QED
    BY <1>0, <2>1, <2>4, LighterFits, StoreJobAny
<1>4. ASSUME NEW ok \in BOOLEAN, Claim(ok) PROVE BytesFit(outbox')
  <2>1. PICK C \in SUBSET Due(outbox) : StoreJob(ClaimRows(outbox, C), ok)
    BY <1>4 DEF Claim
  <2>2. \A l \in C : outbox[l].state = "pending"
    BY DEF Due
  <2>3. Lighter(outbox, ClaimRows(outbox, C))
    BY <1>0, <2>2 DEF Lighter, ClaimRows, LiveStates, Table, Row
  <2> QED
    BY <1>0, <2>1, <2>3, LighterFits, StoreJobAny
<1>5. ASSUME NEW k \in Key, NEW readOk \in BOOLEAN, StartSend(k, readOk) PROVE BytesFit(outbox')
  <2>1. \/ outbox' = outbox
        \/ outbox' = [outbox EXCEPT ![k].posts = @ + 1]
        \/ outbox' = [outbox EXCEPT ![k].patches = @ + 1]
    BY <1>5 DEF StartSend
  <2>2. Lighter(outbox, outbox')
    BY <1>0, <2>1 DEF Lighter, Table, Row
  <2> QED
    BY <1>0, <2>2, LighterFits
<1>6. ASSUME NEW res \in Answers, LarkAnswers(res) PROVE BytesFit(outbox')
  <2>1. \/ outbox' = outbox
        \/ outbox' = [outbox EXCEPT ![cur].posts = @ - 1]
        \/ outbox' = [outbox EXCEPT ![cur].patches = @ - 1]
    BY <1>6 DEF LarkAnswers
  <2>2. Lighter(outbox, outbox')
    BY <1>0, <2>1 DEF Lighter, Table, Row
  <2> QED
    BY <1>0, <2>2, LighterFits
<1>7. ASSUME NEW ok \in BOOLEAN, WriteReceipt(ok) PROVE BytesFit(outbox')
  BY <1>0, <1>7, StoreJobAny, ReceiptFits DEF WriteReceipt, store
<1>8. ASSUME NEW k \in Key, NEW ok \in BOOLEAN, ReleaseTail(k, ok) PROVE BytesFit(outbox')
  <2>1. outbox' = outbox \/ (outbox[k].state = "sending" /\ outbox' = ReleaseOutboxClaim(outbox, k))
    BY <1>0, <1>8, StoreJobAny DEF ReleaseTail, store
  <2>2. Lighter(outbox, outbox')
    BY <1>0, <2>1 DEF Lighter, ReleaseOutboxClaim, LiveStates, Table, Row
  <2> QED
    BY <1>0, <2>2, LighterFits
<1>9. ASSUME Start PROVE BytesFit(outbox')
  <2>1. Lighter(outbox, outbox')
    BY <1>0, <1>9 DEF Start, RecoverSendingOutbox, Lighter, LiveStates, Table, Row
  <2> QED
    BY <1>0, <2>1, LighterFits
<1>10. ASSUME \/ Crash \/ BeginRelease \/ Stop \/ RequestShutdown \/ Connect \/ Disconnect \/ Tick
              \/ SetClockBack \/ UNCHANGED vars
       PROVE  BytesFit(outbox')
  <2>1. outbox' = outbox
    BY <1>10 DEF Crash, BeginRelease, Stop, RequestShutdown, Connect, Disconnect, Tick, SetClockBack,
                 vars, store
  <2> QED
    BY <2>1
<1> QED
  BY <1>1, <1>2, <1>3, <1>4, <1>5, <1>6, <1>7, <1>8, <1>9, <1>10 DEF Next, Pump, Environment

LEMMA InitFits == Init => BytesFit(outbox)
<1> SUFFICES ASSUME Init PROVE BytesFit(outbox)
  OBVIOUS
<1>1. Live(outbox) = {} /\ Present(outbox) = {}
  BY DEF Init, NoRow, Live, LiveStates, Present
<1>2. IsFiniteSet({}) /\ Sized(outbox, {}) /\ Counted(outbox, {}) = {}
  BY FS_EmptySet DEF Sized, Counted
<1>3. BytesIn(outbox, {}) = 0
  BY <1>2, FS_EmptySet, BytesCounted
<1> QED
  BY <1>1, <1>3, OutboxAssumption DEF BytesFit

\* The queue and the table keep within their bounds on rows and on bytes, across
\* enqueues of several rows, inline sweeps, fallbacks that are longer than the patch
\* they replace, crashes and jobs that commit and report an error.
THEOREM CapacityStaysBounded == Spec => []CapacityBounded
<1>1. WInv /\ BytesFit(outbox) /\ [Next]_vars => (WInv /\ BytesFit(outbox))'
  BY NextStays, NextFits DEF Stays
<1>2. WInv /\ BytesFit(outbox) => CapacityBounded
  BY DEF WInv, BytesFit, CapacityBounded, BytesBounded
<1> QED
  BY <1>1, <1>2, InitWeak, InitFits, PTL DEF Spec
=============================================================================
