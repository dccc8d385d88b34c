-------------------------- MODULE InboundProofs --------------------------
(***************************************************************************)
(* What an acknowledgement promises, proved of the inbound side for every  *)
(* number of messages, handlers, faults and restarts.                      *)
(*                                                                         *)
(* Kept(m) is that promise.  No step takes it back (Keeps); what remains   *)
(* is that it holds of whatever is acknowledged.  For the socket the       *)
(* handler's outcome says so (OkIsKept).  For the sidecar the outcome      *)
(* travels: from the handler to the writer, over the pipe, to the waiter   *)
(* Node has under the same id.  Ids are used again, so that the invariant  *)
(* has to say that an event on its way is in one place at a time (Once),   *)
(* that Node never gives an id to a new event while the old one is on its  *)
(* way (Awaited), and that what arrives is about the waiter's message      *)
(* (Matched).                                                              *)
(***************************************************************************)
EXTENDS Inbound, FiniteSetTheorems, TLAPS

USE IntakeBounds

(***************************************************************************)
(* The invariant of the intake.                                            *)
(***************************************************************************)

ScopeSet == {"chat", "thread", None}
RowSet == [state : {"none", "received", "taken"}, scope : ScopeSet]
CallSet == [msg : Msgs \cup {None}, at : {"idle", "normalize", "hook", "queue", "ok", "failed"},
            scope : ScopeSet, live : BOOLEAN]
CopySet == [msg : Msgs, scope : ScopeSet, live : BOOLEAN]
JobSet == [msg : Msgs, scope : ScopeSet]

IntakeShape ==
  /\ row \in [Msgs -> RowSet]
  /\ calls \in [Slots -> CallSet]
  /\ inq \in Seq(CopySet) /\ held \in Seq(CopySet)
  /\ jobs \subseteq JobSet /\ told \subseteq Msgs

\* A call that is not idle is about a message.
CallsNamed == \A i \in Slots : calls[i].at # "idle" => calls[i].msg \in Msgs

\* register_inbound bounds the rows that are received.
ReceivedBound == IsFiniteSet(Received) /\ Cardinality(Received) <= ReceivedMax

\* A copy of m waits in the channel or behind it.
Waits(m) == \/ \E k \in 1 .. Len(inq) : inq[k].msg = m
            \/ \E k \in 1 .. Len(held) : held[k].msg = m

\* What an acknowledgement of m promises.
Kept(m) == \/ Ignored(m)
           \/ /\ row[m].state # "none"
              /\ bridge = "up" /\ row[m].state = "received" /\ m \notin missed => Waits(m)

\* The copies agree with their rows, before and after they are queued.
Agree(r, c) == r[c.msg].state # "none" /\ c.scope = r[c.msg].scope
QueuesAgree ==
  /\ \A k \in 1 .. Len(inq) : Agree(row, inq[k])
  /\ \A k \in 1 .. Len(held) : Agree(row, held[k])
  /\ \A i \in Slots : calls[i].at = "queue" => Agree(row, calls[i])

\* A handler that has succeeded, and a platform that was told so.
OkIsKept == \A i \in Slots : calls[i].at = "ok" => Kept(calls[i].msg)
ToldIsKept == \A m \in told : Kept(m)

IntakeInv ==
  /\ IntakeShape /\ CallsNamed /\ ReceivedBound /\ QueuesAgree /\ OkIsKept /\ ToldIsKept
  /\ bridge \in {"up", "closing", "down"}

(***************************************************************************)
(* What the operators of the community modules return.                     *)
(***************************************************************************)

\* The order that Min is taken in.
Below == {ss \in Nat \X Nat : ss[1] < ss[2]}

\* Min of a set of slots is one of them.
LEMMA MinIn == ASSUME NEW S, S \subseteq Nat, S # {} PROVE Min(S) \in S
  <1>1. IsWellFoundedOn(Below, Nat)
    BY NatLessThanWellFounded, Zenon DEF OpToRel, Below
  <1>2. PICK x \in S : \A y \in S : ~ (<<y, x>> \in Below)
    BY <1>1, WFMin
  <1>3. \A y \in S : x <= y
    <2> SUFFICES ASSUME NEW y \in S, y < x PROVE FALSE
      OBVIOUS
    <2>1. <<y, x>> \in Below
      BY DEF Below
    <2> QED
      BY <1>2, <2>1
  <1> QED
    BY <1>3 DEF Min

\* SetToSeq of a finite set lists just its elements: an injection between finite sets of
\* one size is onto.
LEMMA SetToSeqIs ==
    ASSUME NEW S, IsFiniteSet(S)
    PROVE  SetToSeq(S) \in Seq(S) /\ ToSet(SetToSeq(S)) = S
  <1>1. Cardinality(S) \in Nat /\ \E f \in [1 .. Cardinality(S) -> S] : IsInjective(f)
    BY FS_CardinalityType DEF ExistsBijection, Bijection, Injection
  <1> DEFINE f == SetToSeq(S)
  <1>2. f \in [1 .. Cardinality(S) -> S] /\ IsInjective(f)
    BY <1>1 DEF SetToSeq
  <1>3. f \in Injection(1 .. Cardinality(S), S)
    BY <1>2 DEF Injection
  <1>4. Cardinality(1 .. Cardinality(S)) = Cardinality(S)
    BY <1>1, FS_Interval
  <1>5. f \in Surjection(1 .. Cardinality(S), S)
    BY <1>3, <1>4, FS_Injection
  <1> HIDE DEF f
  <1>6. f \in Seq(S)
    BY <1>1, <1>2
  <1>7. ToSet(f) = S
    BY <1>2, <1>5 DEF ToSet, Surjection
  <1> QED
    BY <1>6, <1>7 DEF f

\* RemoveAt, element by element.
LEMMA RemoveAtIs ==
    ASSUME NEW S, NEW s \in Seq(S), NEW k \in 1 .. Len(s)
    PROVE  /\ RemoveAt(s, k) \in Seq(S)
           /\ Len(RemoveAt(s, k)) = Len(s) - 1
           /\ \A j \in 1 .. Len(s) - 1 :
                RemoveAt(s, k)[j] = IF j < k THEN s[j] ELSE s[j + 1]
  <1> DEFINE a == SubSeq(s, 1, k - 1)
             b == SubSeq(s, k + 1, Len(s))
  <1>1. Len(s) \in Nat /\ k \in Nat /\ 1 <= k /\ k <= Len(s)
    OBVIOUS
  <1>2. a \in Seq(S) /\ Len(a) = k - 1 /\ \A j \in 1 .. k - 1 : a[j] = s[j]
    BY <1>1
  <1>3. b \in Seq(S) /\ Len(b) = Len(s) - k /\ \A j \in 1 .. Len(s) - k : b[j] = s[k + j]
    BY <1>1
  <1> HIDE DEF a, b
  <1>4. /\ a \o b \in Seq(S) /\ Len(a \o b) = Len(s) - 1
        /\ \A j \in 1 .. Len(s) - 1 : (a \o b)[j] = IF j <= Len(a) THEN a[j] ELSE b[j - Len(a)]
    BY <1>1, <1>2, <1>3
  <1>5. \A j \in 1 .. Len(s) - 1 : (a \o b)[j] = IF j < k THEN s[j] ELSE s[j + 1]
    <2> SUFFICES ASSUME NEW j \in 1 .. Len(s) - 1
                 PROVE  (a \o b)[j] = IF j < k THEN s[j] ELSE s[j + 1]
      OBVIOUS
    <2>1. CASE j < k
      BY <1>1, <1>2, <1>4, <2>1
    <2>2. CASE j >= k
      <3>1. j - (k - 1) \in 1 .. Len(s) - k /\ k + (j - (k - 1)) = j + 1
        BY <1>1, <2>2
      <3> QED
        BY <1>1, <1>2, <1>3, <1>4, <2>2, <3>1
    <2>3. j < k \/ j >= k
      BY <1>1
    <2> QED
      BY <2>1, <2>2, <2>3, Zenon
  <1>6. RemoveAt(s, k) = a \o b
    BY DEF RemoveAt, a, b
  <1> QED
    BY <1>4, <1>5, <1>6

\* The set of copies, place by place.
LEMMA CopiesAre ==
    ASSUME NEW a \in Seq(CopySet), NEW b \in Seq(CopySet), NEW c
    PROVE  c \in ToSet(a \o b) <=> \/ \E k \in 1 .. Len(a) : a[k] = c
                                   \/ \E k \in 1 .. Len(b) : b[k] = c
  <1> DEFINE s == a \o b
  <1>1. /\ DOMAIN s = 1 .. Len(a) + Len(b)
        /\ \A k \in 1 .. Len(a) : s[k] = a[k]
        /\ \A k \in 1 .. Len(b) : s[Len(a) + k] = b[k]
        /\ \A k \in DOMAIN s : s[k] = IF k <= Len(a) THEN a[k] ELSE b[k - Len(a)]
    OBVIOUS
  <1>2. Len(a) \in Nat /\ Len(b) \in Nat
    OBVIOUS
  <1>3. c \in ToSet(s) <=> \E k \in DOMAIN s : s[k] = c
    BY DEF ToSet
  <1>4. ASSUME NEW k \in DOMAIN s, s[k] = c
        PROVE  \/ \E l \in 1 .. Len(a) : a[l] = c
               \/ \E l \in 1 .. Len(b) : b[l] = c
    <2>1. CASE k <= Len(a)
      BY <1>1, <1>2, <1>4, <2>1
    <2>2. CASE k > Len(a)
      <3>1. k - Len(a) \in 1 .. Len(b) /\ b[k - Len(a)] = c
        BY <1>1, <1>2, <1>4, <2>2
      <3> QED
        BY <3>1
    <2> QED
      BY <1>1, <1>2, <2>1, <2>2
  <1>5. ASSUME NEW k \in 1 .. Len(a), a[k] = c PROVE k \in DOMAIN s /\ s[k] = c
    BY <1>1, <1>2, <1>5
  <1>6. ASSUME NEW k \in 1 .. Len(b), b[k] = c
        PROVE  Len(a) + k \in DOMAIN s /\ s[Len(a) + k] = c
    BY <1>1, <1>2, <1>6
  <1> HIDE DEF s
  <1>7. c \in ToSet(s) <=> \/ \E k \in 1 .. Len(a) : a[k] = c
                           \/ \E k \in 1 .. Len(b) : b[k] = c
    BY <1>3, <1>4, <1>5, <1>6
  <1> QED
    BY <1>7 DEF s

\* The invariant says what the two properties say.
LEMMA IntakeInvSays == IntakeInv => CopiesAgree /\ AckedIsKept
  <1> SUFFICES ASSUME IntakeInv PROVE CopiesAgree /\ AckedIsKept
    OBVIOUS
  <1>1. \A c : c \in Copies <=> \/ \E k \in 1 .. Len(inq) : inq[k] = c
                                \/ \E k \in 1 .. Len(held) : held[k] = c
    BY CopiesAre DEF Copies, IntakeInv, IntakeShape
  <1>2. CopiesAgree
    BY <1>1 DEF CopiesAgree, IntakeInv, QueuesAgree, Agree
  <1>3. \A m : Waits(m) => \E c \in Copies : c.msg = m
    BY <1>1 DEF Waits
  <1>4. AckedIsKept
    BY <1>3 DEF AckedIsKept, IntakeInv, ToldIsKept, Kept
  <1> QED
    BY <1>2, <1>4

(***************************************************************************)
(* The steps of the intake.                                                *)
(***************************************************************************)

\* What was kept stays kept.
Keeps == \A m \in Msgs : Kept(m) => Kept(m)'

\* What a step of the handlers does to the calls of the sources.
HandlersKeep ==
  \A i \in Slots : calls'[i].msg = calls[i].msg /\ (At(i, "idle")' <=> At(i, "idle"))

\* Steps that change the calls, and not the rows and queues.
LEMMA CallsShift ==
    ASSUME IntakeInv, UNCHANGED <<kind, row, inq, held, missed, bridge>>,
           jobs' \subseteq JobSet, told' \subseteq Msgs, calls' \in [Slots -> CallSet],
           \A i \in Slots :
             \/ calls'[i] = calls[i]
             \/ /\ calls'[i].at # "idle" => calls'[i].msg \in Msgs
                /\ calls'[i].at = "queue" => Agree(row, calls'[i])
                /\ calls'[i].at = "ok" => Kept(calls'[i].msg),
           \A m \in told' : Kept(m)
    PROVE  IntakeInv' /\ Keeps
  <1>1. IntakeShape' /\ CallsNamed'
    BY DEF IntakeInv, IntakeShape, CallsNamed
  <1>2. ReceivedBound'
    BY DEF IntakeInv, ReceivedBound, Received
  <1>3. \A m : Kept(m)' <=> Kept(m)
    BY DEF Kept, Ignored, Waits
  <1>4. \A i \in Slots : calls'[i].at = "queue" => Agree(row, calls'[i])
    BY DEF IntakeInv, QueuesAgree
  <1>5. QueuesAgree'
    BY <1>4 DEF IntakeInv, QueuesAgree, Agree
  <1>6. OkIsKept' /\ ToldIsKept' /\ Keeps
    BY <1>3 DEF IntakeInv, OkIsKept, ToldIsKept, Keeps
  <1> QED
    BY <1>1, <1>2, <1>5, <1>6 DEF IntakeInv

\* One call goes on.
LEMMA OneCall ==
    ASSUME IntakeInv, UNCHANGED <<kind, row, inq, held, missed, bridge, told>>, jobs' \subseteq JobSet,
           NEW i \in Slots, NEW c \in CallSet, Become(i, c),
           c.at # "idle" => c.msg \in Msgs, c.at = "queue" => Agree(row, c),
            c.at = "ok" => Kept(c.msg)
    PROVE  IntakeInv' /\ Keeps
  <1>1. calls' \in [Slots -> CallSet] /\ calls'[i] = c
        /\ \A j \in Slots \ {i} : calls'[j] = calls[j]
    BY DEF IntakeInv, IntakeShape, Become
  <1>2. told' \subseteq Msgs /\ \A m \in told' : Kept(m)
    BY DEF IntakeInv, IntakeShape, ToldIsKept
  <1> QED
    BY <1>1, <1>2, CallsShift

\* A job, and the rows after it.
LEMMA JobDone ==
    ASSUME IntakeInv, NEW m \in Msgs, NEW s \in ScopeSet, row' = Inserted(m, s)
    PROVE  /\ row' \in [Msgs -> RowSet] /\ ReceivedBound'
           /\ \A n \in Msgs : row[n].state # "none" \/ n # m => row'[n] = row[n]
           /\ row[m].state = "none" /\ Cardinality(Received) < ReceivedMax =>
                row'[m].state = "received" /\ row'[m].scope = s
  <1>1. CASE row[m].state = "none" /\ Cardinality(Received) < ReceivedMax
    <2>1. row' = [row EXCEPT ![m] = [state |-> "received", scope |-> s]]
      BY <1>1 DEF Inserted
    <2>2. /\ row' \in [Msgs -> RowSet]
          /\ row'[m] = [state |-> "received", scope |-> s]
          /\ \A n \in Msgs \ {m} : row'[n] = row[n]
      BY <2>1 DEF IntakeInv, IntakeShape, RowSet
    <2>3. Received' = Received \cup {m}
      BY <2>2 DEF Received
    <2>4. IsFiniteSet(Received) /\ Cardinality(Received) \in Nat
      BY FS_CardinalityType DEF IntakeInv, ReceivedBound
    <2>5. m \notin Received
      BY <1>1 DEF Received
    <2>6. IsFiniteSet(Received') /\ Cardinality(Received') = Cardinality(Received) + 1
      BY <2>3, <2>4, <2>5, FS_AddElement
    <2>7. ReceivedBound'
      BY <1>1, <2>4, <2>6 DEF ReceivedBound
    <2> QED
      BY <1>1, <2>2, <2>7
  <1>2. CASE ~ (row[m].state = "none" /\ Cardinality(Received) < ReceivedMax)
    <2>1. row' = row
      BY <1>2 DEF Inserted
    <2> QED
      BY <1>2, <2>1 DEF IntakeInv, IntakeShape, ReceivedBound, Received
  <1> QED
    BY <1>1, <1>2

\* normalize_message_or_card.
LEMMA NormalizeKeeps ==
    ASSUME IntakeInv, NEW i \in Slots, Normalize(i)
    PROVE  IntakeInv' /\ Keeps /\ HandlersKeep
  <1>1. PICK c \in CallSet : /\ Become(i, c) /\ c.msg = calls[i].msg
                             /\ \/ c.at = "ok" /\ Ignored(c.msg)
                                \/ c.at \in {"hook", "failed"}
    <2>1. calls[i] \in CallSet
      BY DEF IntakeInv, IntakeShape
    <2>2. CASE Ignored(calls[i].msg) /\ Goes(i, "ok")
      BY <2>1, <2>2 DEF Goes, CallSet
    <2>4. CASE Goes(i, "failed")
      BY <2>1, <2>4 DEF Goes, CallSet
    <2>3. CASE \E s \in Scopes(calls[i].msg) :
                 Become(i, [calls[i] EXCEPT !.at = "hook", !.scope = s])
      <3>1. PICK s \in Scopes(calls[i].msg) :
                   Become(i, [calls[i] EXCEPT !.at = "hook", !.scope = s])
        BY <2>3
      <3> DEFINE c == [calls[i] EXCEPT !.at = "hook", !.scope = s]
      <3>2. s \in ScopeSet
        BY DEF Scopes, ScopeSet
      <3>3. c \in CallSet /\ c.msg = calls[i].msg /\ c.at = "hook"
        BY <2>1, <3>2 DEF CallSet
      <3> QED
        BY <3>1, <3>3
    <2> QED
      BY <2>2, <2>3, <2>4 DEF Normalize
  <1>2. calls[i].at = "normalize" /\ calls[i].msg \in Msgs
    BY DEF Normalize, At, IntakeInv, CallsNamed
  <1>3. IntakeInv' /\ Keeps
    BY <1>1, <1>2, OneCall DEF Normalize, IntakeInv, IntakeShape, Kept
  <1> QED
    BY <1>1, <1>2, <1>3 DEF HandlersKeep, Become, At, IntakeInv, IntakeShape

\* The rows only grow; what was kept stays kept.
LEMMA RowsGrow ==
    ASSUME IntakeInv, NEW m \in Msgs, NEW s \in ScopeSet, row' = Inserted(m, s),
           UNCHANGED <<kind, inq, held, missed, bridge>>
    PROVE  /\ Keeps
           /\ \A c : c.msg \in Msgs /\ Agree(row, c) => Agree(row', c)
           /\ \A k \in 1 .. Len(inq) : Agree(row', inq[k])
           /\ \A k \in 1 .. Len(held) : Agree(row', held[k])
  <1>1. \A n \in Msgs : row[n].state # "none" => row'[n] = row[n]
    BY JobDone
  <1>2. \A c : c.msg \in Msgs /\ Agree(row, c) => Agree(row', c)
    BY <1>1 DEF Agree
  <1>3. Keeps
    BY <1>1 DEF Keeps, Kept, Ignored, Waits
  <1>4. \A k \in 1 .. Len(inq) : inq[k].msg \in Msgs /\ Agree(row, inq[k])
    <2>1. \A k \in 1 .. Len(inq) : inq[k] \in CopySet
      BY DEF IntakeInv, IntakeShape
    <2> QED
      BY <2>1 DEF IntakeInv, QueuesAgree, CopySet
  <1>5. \A k \in 1 .. Len(held) : held[k].msg \in Msgs /\ Agree(row, held[k])
    <2>1. \A k \in 1 .. Len(held) : held[k] \in CopySet
      BY DEF IntakeInv, IntakeShape
    <2> QED
      BY <2>1 DEF IntakeInv, QueuesAgree, CopySet
  <1>6. (\A k \in 1 .. Len(inq) : Agree(row', inq[k]))
         /\ \A k \in 1 .. Len(held) : Agree(row', held[k])
    BY <1>1, <1>4, <1>5 DEF Agree
  <1> QED
    BY <1>2, <1>3, <1>6

\* register_inbound for a handler that waits: a row is written, found received, or found taken.
LEMMA RegisterKeeps ==
    ASSUME IntakeInv, NEW i \in Slots, Register(i)
    PROVE  IntakeInv' /\ Keeps /\ HandlersKeep
  <1>1. PICK m \in Msgs, s \in ScopeSet : calls[i].msg = m /\ calls[i].scope = s
    BY DEF Register, At, IntakeInv, IntakeShape, CallsNamed, CallSet
  <1>2. calls[i] \in CallSet /\ calls[i].at = "hook" /\ row[m] \in RowSet
    BY <1>1 DEF Register, At, IntakeInv, IntakeShape
  <1>3. Cardinality(Received) \in Nat
    BY FS_CardinalityType DEF IntakeInv, ReceivedBound
  <1>4. PICK d \in CallSet :
          /\ calls' = [calls EXCEPT ![i] = d]
          /\ d.msg = m /\ d.at \in {"queue", "ok", "failed"}
          /\ d.at = "ok" => row[m].state = "taken"
          /\ d.at = "queue" => \/ /\ row[m].state = "none" /\ d.scope = s
                                  /\ Cardinality(Received) < ReceivedMax
                               \/ row[m].state = "received" /\ d.scope = row[m].scope
    <2> DEFINE c == calls[i]
               r == row[m]
    <2>1. c \in CallSet /\ c.msg = m /\ c.scope = s /\ r \in RowSet /\ Verdict(c) =
            CASE r.state = "none" /\ Cardinality(Received) < ReceivedMax ->
                   [c EXCEPT !.at = "queue", !.live = TRUE]
              [] r.state = "none" /\ Cardinality(Received) >= ReceivedMax ->
                   [c EXCEPT !.at = "failed"]
              [] r.state = "received" ->
                   [c EXCEPT !.at = "queue", !.scope = r.scope, !.live = (c.scope = r.scope)]
              [] OTHER -> [c EXCEPT !.at = "ok"]
      BY <1>1, <1>2 DEF Verdict, Agrees
    <2> HIDE DEF c, r
    <2>2. CASE r.state = "none" /\ Cardinality(Received) < ReceivedMax
      <3>1. Verdict(c) = [c EXCEPT !.at = "queue", !.live = TRUE]
        BY <1>3, <2>1, <2>2
      <3> QED
        BY <2>1, <2>2, <3>1 DEF Register, Become, c, r, CallSet
    <2>3. CASE r.state = "none" /\ Cardinality(Received) >= ReceivedMax
      <3>1. Verdict(c) = [c EXCEPT !.at = "failed"]
        BY <1>3, <2>1, <2>3
      <3> QED
        BY <2>1, <2>3, <3>1 DEF Register, Become, c, r, CallSet
    <2>4. CASE r.state = "received"
      <3>1. Verdict(c) = [c EXCEPT !.at = "queue", !.scope = r.scope, !.live = (c.scope = r.scope)]
        BY <2>1, <2>4
      <3> QED
        BY <2>1, <2>4, <3>1 DEF Register, Become, c, r, CallSet, RowSet
    <2>5. CASE r.state = "taken"
      <3>1. Verdict(c) = [c EXCEPT !.at = "ok"]
        BY <2>1, <2>5
      <3> QED
        BY <2>1, <2>5, <3>1 DEF Register, Become, c, r, CallSet
    <2> QED
      BY <1>3, <2>1, <2>2, <2>3, <2>4, <2>5 DEF RowSet
  <1>5. row' = Inserted(m, s)
    BY <1>1 DEF Register
  <1>6. /\ calls' \in [Slots -> CallSet] /\ calls'[i] = d
        /\ \A j \in Slots \ {i} : calls'[j] = calls[j]
    BY <1>4 DEF IntakeInv, IntakeShape
  <1>7. /\ row' \in [Msgs -> RowSet] /\ ReceivedBound'
        /\ \A n \in Msgs : row[n].state # "none" \/ n # m => row'[n] = row[n]
        /\ row[m].state = "none" /\ Cardinality(Received) < ReceivedMax =>
             row'[m].state = "received" /\ row'[m].scope = s
    BY <1>5, JobDone
  <1>8. /\ Keeps /\ (\A e : e.msg \in Msgs /\ Agree(row, e) => Agree(row', e))
        /\ (\A k \in 1 .. Len(inq) : Agree(row', inq[k]))
        /\ \A k \in 1 .. Len(held) : Agree(row', held[k])
    BY <1>5, RowsGrow DEF Register
  <1>9. IntakeShape' /\ CallsNamed'
    BY <1>4, <1>6, <1>7 DEF IntakeInv, IntakeShape, CallsNamed, Register
  <1>10. d.at = "queue" => Agree(row', d)
    BY <1>2, <1>4, <1>7 DEF Agree
  <1>11. QueuesAgree'
    <2>1. \A j \in Slots \ {i} : calls[j].at = "queue" => Agree(row', calls[j])
      BY <1>8 DEF IntakeInv, QueuesAgree, CallsNamed
    <2> QED
      BY <1>6, <1>8, <1>10, <2>1 DEF QueuesAgree, Register
  <1>12. d.at = "ok" => Kept(m)'
    BY <1>2, <1>4, <1>7 DEF Kept
  <1>13. OkIsKept'
    BY <1>4, <1>6, <1>8, <1>12 DEF OkIsKept, IntakeInv, Keeps, CallsNamed
  <1>14. ToldIsKept'
    BY <1>8 DEF ToldIsKept, IntakeInv, IntakeShape, Keeps, Register
  <1> QED
    BY <1>1, <1>2, <1>4, <1>6, <1>7, <1>8, <1>9, <1>11, <1>13, <1>14
       DEF IntakeInv, HandlersKeep, At, Register

\* register_inbound for a handler that was dropped.
LEMMA LateRegisterKeeps ==
    ASSUME IntakeInv, LateRegister
    PROVE  IntakeInv' /\ Keeps
  <1>1. PICK j \in jobs : /\ row' = Inserted(j.msg, j.scope) /\ jobs' = jobs \ {j}
                          /\ UNCHANGED <<kind, inq, held, missed, calls, told, bridge, faults>>
    BY DEF LateRegister
  <1>2. j.msg \in Msgs /\ j.scope \in ScopeSet
    BY DEF IntakeInv, IntakeShape, JobSet
  <1>3. row' \in [Msgs -> RowSet] /\ ReceivedBound'
    BY <1>1, <1>2, JobDone
  <1>4. /\ Keeps /\ (\A e : e.msg \in Msgs /\ Agree(row, e) => Agree(row', e))
        /\ (\A k \in 1 .. Len(inq) : Agree(row', inq[k]))
        /\ \A k \in 1 .. Len(held) : Agree(row', held[k])
    BY <1>1, <1>2, RowsGrow
  <1>5. QueuesAgree'
    <2>1. \A i \in Slots : calls[i].at = "queue" => Agree(row', calls[i])
      BY <1>4 DEF IntakeInv, QueuesAgree, CallsNamed
    <2> QED
      BY <1>1, <1>4, <2>1 DEF QueuesAgree, Agree
  <1> QED
    BY <1>1, <1>3, <1>4, <1>5
       DEF IntakeInv, IntakeShape, CallsNamed, Keeps, OkIsKept, ToldIsKept

\* The jobs of handlers that are dropped.
LEMMA LeftTyped ==
    ASSUME IntakeInv, NEW S, S \subseteq Slots
    PROVE  Left(S) \subseteq JobSet
  <1> SUFFICES ASSUME NEW j \in Left(S), j \notin jobs PROVE j \in JobSet
    BY DEF IntakeInv, IntakeShape
  <1>1. PICK i \in S : At(i, "hook") /\ j = [msg |-> calls[i].msg, scope |-> calls[i].scope]
    BY DEF Left
  <1>2. calls[i] \in CallSet /\ calls[i].msg \in Msgs
    BY <1>1 DEF IntakeInv, IntakeShape, CallsNamed, At
  <1> QED
    BY <1>1, <1>2 DEF JobSet, CallSet

\* The send into the durable channel, or its refusal.
LEMMA EnqueueKeeps ==
    ASSUME IntakeInv, NEW i \in Slots, Enqueue(i)
    PROVE  IntakeInv' /\ Keeps /\ HandlersKeep
  <1>1. calls[i] \in CallSet /\ calls[i].at = "queue" /\ calls[i].msg \in Msgs
        /\ Agree(row, calls[i])
    BY DEF Enqueue, At, IntakeInv, IntakeShape, CallsNamed, QueuesAgree
  <1>2. CASE ~ HasPlace
    <2>1. [calls[i] EXCEPT !.at = "failed"] \in CallSet
      BY <1>1 DEF CallSet
    <2>2. /\ Become(i, [calls[i] EXCEPT !.at = "failed"])
          /\ UNCHANGED <<kind, row, inq, held, missed, jobs, told, bridge>>
      BY <1>2 DEF Enqueue, Goes
    <2>3. IntakeInv' /\ Keeps
      BY <1>1, <2>1, <2>2, OneCall DEF CallSet, IntakeInv, IntakeShape
    <2> QED
      BY <1>1, <2>2, <2>3 DEF HandlersKeep, Become, At, IntakeInv, IntakeShape
  <1>3. CASE HasPlace
    <2>1. PICK m \in Msgs, e \in CopySet :
            /\ m = calls[i].msg /\ e.msg = m /\ Agree(row, e) /\ inq' = Append(inq, e)
      <3> DEFINE e == Copy(calls[i].msg, calls[i].scope, calls[i].live)
      <3>1. e \in CopySet /\ e.msg = calls[i].msg /\ Agree(row, e)
        BY <1>1 DEF Copy, CopySet, CallSet, Agree
      <3>2. inq' = Append(inq, e)
        BY <1>3 DEF Enqueue
      <3> QED
        BY <1>1, <3>1, <3>2
    <2>2. PICK d \in CallSet : d.msg = m /\ d.at = "ok" /\ calls' = [calls EXCEPT ![i] = d]
      <3> DEFINE d == [calls[i] EXCEPT !.at = "ok"]
      <3>1. d \in CallSet /\ d.msg = m /\ d.at = "ok"
        BY <1>1, <2>1 DEF CallSet
      <3>2. calls' = [calls EXCEPT ![i] = d]
        BY <1>3 DEF Enqueue, Goes, Become
      <3> QED
        BY <3>1, <3>2
    <2>3. UNCHANGED <<kind, row, held, missed, jobs, told, bridge>>
      BY DEF Enqueue
    <2>4. /\ inq' \in Seq(CopySet) /\ Len(inq') = Len(inq) + 1 /\ Len(inq) \in Nat
          /\ inq'[Len(inq) + 1] = e /\ \A k \in 1 .. Len(inq) : inq'[k] = inq[k]
      BY <2>1 DEF IntakeInv, IntakeShape
    <2>5. /\ calls' \in [Slots -> CallSet] /\ calls'[i] = d
          /\ \A j \in Slots \ {i} : calls'[j] = calls[j]
      BY <2>2 DEF IntakeInv, IntakeShape
    <2>6. \A n : Waits(n) => Waits(n)'
      BY <2>3, <2>4 DEF Waits
    <2>7. Waits(m)'
      BY <2>1, <2>4 DEF Waits
    <2>8. Keeps /\ Kept(m)'
      BY <1>1, <2>1, <2>3, <2>6, <2>7 DEF Keeps, Kept, Ignored, Agree
    <2>9. IntakeShape' /\ CallsNamed' /\ ReceivedBound'
      BY <2>2, <2>3, <2>4, <2>5
         DEF IntakeInv, IntakeShape, CallsNamed, ReceivedBound, Received
    <2>10. QueuesAgree'
      <3>1. \A k \in 1 .. Len(inq') : Agree(row, inq'[k])
        BY <2>1, <2>4 DEF IntakeInv, QueuesAgree
      <3>2. \A j \in Slots : calls'[j].at = "queue" => Agree(row, calls'[j])
        BY <2>2, <2>5 DEF IntakeInv, QueuesAgree
      <3> QED
        BY <2>3, <3>1, <3>2 DEF IntakeInv, QueuesAgree
    <2>11. OkIsKept' /\ ToldIsKept'
      BY <2>2, <2>3, <2>5, <2>8
         DEF IntakeInv, IntakeShape, OkIsKept, ToldIsKept, Keeps, CallsNamed
    <2> QED
      BY <1>1, <2>1, <2>2, <2>3, <2>5, <2>8, <2>9, <2>10, <2>11 DEF IntakeInv, HandlersKeep, At
  <1> QED
    BY <1>2, <1>3

\* The store refuses, or the timeout around the handler drops it.
LEMMA HandlerFaultKeeps ==
    ASSUME IntakeInv, NEW i \in Slots, HandlerFault(i)
    PROVE  IntakeInv' /\ Keeps /\ HandlersKeep
  <1>1. calls[i] \in CallSet /\ calls[i].at # "idle" /\ calls[i].msg \in Msgs
    BY DEF HandlerFault, RegisterFails, HandlerTimeout, At, IntakeInv, IntakeShape, CallsNamed
  <1>2. [calls[i] EXCEPT !.at = "failed"] \in CallSet
    BY <1>1 DEF CallSet
  <1>3. /\ Become(i, [calls[i] EXCEPT !.at = "failed"])
        /\ UNCHANGED <<kind, row, inq, held, missed, told, bridge>>
        /\ jobs' = jobs \/ jobs' = Left({i})
    BY DEF HandlerFault, RegisterFails, HandlerTimeout, Goes
  <1>4. jobs' \subseteq JobSet
    BY <1>3, LeftTyped DEF IntakeInv, IntakeShape
  <1>5. IntakeInv' /\ Keeps
    BY <1>1, <1>2, <1>3, <1>4, OneCall DEF CallSet
  <1> QED
    BY <1>1, <1>3, <1>5 DEF HandlersKeep, Become, At, IntakeInv, IntakeShape

\* Steps that move or drop copies, and leave the calls alone.
LEMMA QueuesShift ==
    ASSUME IntakeInv, UNCHANGED <<kind, calls, told>>, jobs' \subseteq JobSet,
           row' \in [Msgs -> RowSet], ReceivedBound',
           \A m \in Msgs : row[m].state # "none" =>
             row'[m].state # "none" /\ row'[m].scope = row[m].scope,
           inq' \in Seq(CopySet), held' \in Seq(CopySet),
           \A k \in 1 .. Len(inq') : Agree(row', inq'[k]),
           \A k \in 1 .. Len(held') : Agree(row', held'[k]),
           bridge' \in {"up", "closing", "down"}, Keeps
    PROVE  IntakeInv'
  <1>1. IntakeShape' /\ CallsNamed'
    BY DEF IntakeInv, IntakeShape, CallsNamed
  <1>2. QueuesAgree'
    <2>1. \A i \in Slots : calls[i].at = "queue" => Agree(row', calls[i])
      BY DEF IntakeInv, QueuesAgree, CallsNamed, Agree
    <2> QED
      BY <2>1 DEF QueuesAgree
  <1>3. OkIsKept' /\ ToldIsKept'
    BY DEF IntakeInv, IntakeShape, OkIsKept, ToldIsKept, Keeps, CallsNamed
  <1> QED
    BY <1>1, <1>2, <1>3 DEF IntakeInv

\* drive_inbound hands the next copy on.
LEMMA RouteKeeps ==
    ASSUME IntakeInv, Route
    PROVE  IntakeInv' /\ Keeps
  <1>1. /\ UNCHANGED <<kind, row, missed, jobs, calls, told, bridge>> /\ inq # <<>>
        /\ held' = Append(held, Head(inq)) /\ inq' = Tail(inq)
        /\ inq \in Seq(CopySet) /\ held \in Seq(CopySet)
    BY DEF Route, IntakeInv, IntakeShape
  <1>2. /\ inq' \in Seq(CopySet) /\ Len(inq) \in Nat /\ Len(inq) > 0 /\ Len(inq') = Len(inq) - 1
        /\ \A k \in 1 .. Len(inq) - 1 : inq'[k] = inq[k + 1]
    BY <1>1
  <1>3. /\ held' \in Seq(CopySet) /\ Len(held) \in Nat /\ Len(held') = Len(held) + 1
        /\ held'[Len(held) + 1] = inq[1] /\ \A k \in 1 .. Len(held) : held'[k] = held[k]
    BY <1>1
  <1>4. \A k \in 1 .. Len(inq') : Agree(row', inq'[k])
    BY <1>1, <1>2 DEF IntakeInv, QueuesAgree
  <1>5. \A k \in 1 .. Len(held') : Agree(row', held'[k])
    BY <1>1, <1>2, <1>3 DEF IntakeInv, QueuesAgree
  <1>6. ASSUME NEW m, Waits(m) PROVE Waits(m)'
    <2>1. CASE \E k \in 1 .. Len(held) : held[k].msg = m
      BY <1>3, <2>1 DEF Waits
    <2>2. ASSUME NEW k \in 1 .. Len(inq), inq[k].msg = m PROVE Waits(m)'
      <3>1. CASE k = 1
        BY <1>3, <2>2, <3>1 DEF Waits
      <3>2. CASE k > 1
        <4>1. k - 1 \in 1 .. Len(inq') /\ inq'[k - 1] = inq[k]
          BY <1>2, <3>2
        <4> QED
          BY <2>2, <4>1 DEF Waits
      <3> QED
        BY <1>2, <3>1, <3>2
    <2> QED
      BY <1>6, <2>1, <2>2 DEF Waits
  <1>7. Keeps
    BY <1>1, <1>6 DEF Keeps, Kept, Ignored
  <1>8. row' \in [Msgs -> RowSet] /\ ReceivedBound' /\ jobs' \subseteq JobSet
    BY <1>1 DEF IntakeInv, IntakeShape, ReceivedBound, Received
  <1> QED
    BY <1>1, <1>2, <1>3, <1>4, <1>5, <1>7, <1>8, QueuesShift DEF IntakeInv

\* One copy less behind the channel; the other messages wait as before.
LEMMA OneLess ==
    ASSUME IntakeInv, NEW l \in 1 .. Len(held), held' = RemoveAt(held, l), inq' = inq
    PROVE  /\ held[l].msg \in Msgs
           /\ held' \in Seq(CopySet)
           /\ \A j \in 1 .. Len(held') : \E k \in 1 .. Len(held) : held'[j] = held[k]
           /\ \A n \in Msgs : n # held[l].msg /\ Waits(n) => Waits(n)'
  <1>1. held \in Seq(CopySet) /\ held[l] \in CopySet
    BY DEF IntakeInv, IntakeShape
  <1>2. /\ held' \in Seq(CopySet) /\ Len(held) \in Nat /\ Len(held') = Len(held) - 1
        /\ \A j \in 1 .. Len(held) - 1 : held'[j] = IF j < l THEN held[j] ELSE held[j + 1]
    <2>1. /\ RemoveAt(held, l) \in Seq(CopySet) /\ Len(RemoveAt(held, l)) = Len(held) - 1
          /\ \A j \in 1 .. Len(held) - 1 :
               RemoveAt(held, l)[j] = IF j < l THEN held[j] ELSE held[j + 1]
      BY <1>1, RemoveAtIs, Zenon
    <2>2. Len(held) \in Nat
      BY <1>1
    <2> QED
      BY <2>1, <2>2, Zenon
  <1>3. ASSUME NEW j \in 1 .. Len(held') PROVE \E k \in 1 .. Len(held) : held'[j] = held[k]
    <2>1. j \in 1 .. Len(held) /\ j + 1 \in 1 .. Len(held)
      BY <1>2
    <2>2. held'[j] = held[j] \/ held'[j] = held[j + 1]
      BY <1>2
    <2> QED
      BY <2>1, <2>2
  <1>4. ASSUME NEW n \in Msgs, n # held[l].msg, Waits(n) PROVE Waits(n)'
    <2>1. CASE \E k \in 1 .. Len(inq) : inq[k].msg = n
      BY <2>1 DEF Waits
    <2>2. ASSUME NEW k \in 1 .. Len(held), held[k].msg = n PROVE Waits(n)'
      <3>1. k # l /\ l \in Nat
        BY <1>4, <2>2
      <3>2. CASE k < l
        <4>1. k \in 1 .. Len(held') /\ held'[k] = held[k]
          BY <1>2, <3>2
        <4> QED
          BY <2>2, <4>1 DEF Waits
      <3>3. CASE k > l
        <4>1. k - 1 \in 1 .. Len(held') /\ held'[k - 1] = held[k]
          BY <1>2, <3>3
        <4> QED
          BY <2>2, <4>1 DEF Waits
      <3> QED
        BY <1>2, <3>1, <3>2, <3>3
    <2> QED
      BY <1>4, <2>1, <2>2 DEF Waits
  <1> QED
    BY <1>1, <1>2, <1>3, <1>4 DEF CopySet

\* The router or an actor takes one copy: its row is taken, the others keep theirs.
LEMMA TakeKeeps ==
    ASSUME IntakeInv, Take
    PROVE  IntakeInv' /\ Keeps
  <1>1. PICK l \in 1 .. Len(held) :
          /\ held' = RemoveAt(held, l)
          /\ row' = [row EXCEPT ![held[l].msg].state = "taken"]
          /\ UNCHANGED <<kind, inq, missed, jobs, calls, told, bridge>>
    BY DEF Take
  <1>2. /\ held[l].msg \in Msgs /\ held' \in Seq(CopySet)
        /\ \A j \in 1 .. Len(held') : \E k \in 1 .. Len(held) : held'[j] = held[k]
        /\ \A n \in Msgs : n # held[l].msg /\ Waits(n) => Waits(n)'
    BY <1>1, OneLess
  <1>3. PICK m \in Msgs : held[l].msg = m
    BY <1>2
  <1>4. row[m].state # "none"
    BY <1>3 DEF IntakeInv, QueuesAgree, Agree
  <1>5. /\ row' \in [Msgs -> RowSet]
        /\ row'[m].state = "taken" /\ row'[m].scope = row[m].scope
        /\ \A n \in Msgs \ {m} : row'[n] = row[n]
    BY <1>1, <1>3 DEF IntakeInv, IntakeShape, RowSet
  <1>6. \A c : c.msg \in Msgs /\ Agree(row, c) => Agree(row', c)
    BY <1>4, <1>5 DEF Agree
  <1>7. \A k \in 1 .. Len(inq) : inq[k].msg \in Msgs /\ Agree(row, inq[k])
    <2>1. \A k \in 1 .. Len(inq) : inq[k] \in CopySet
      BY DEF IntakeInv, IntakeShape
    <2> QED
      BY <2>1 DEF IntakeInv, QueuesAgree, CopySet
  <1>8. \A k \in 1 .. Len(held) : held[k].msg \in Msgs /\ Agree(row, held[k])
    <2>1. \A k \in 1 .. Len(held) : held[k] \in CopySet
      BY DEF IntakeInv, IntakeShape
    <2> QED
      BY <2>1 DEF IntakeInv, QueuesAgree, CopySet
  <1>9. \A k \in 1 .. Len(inq') : Agree(row', inq'[k])
    BY <1>1, <1>6, <1>7
  <1>10. \A k \in 1 .. Len(held') : Agree(row', held'[k])
    BY <1>2, <1>6, <1>8
  <1>11. Keeps
    BY <1>1, <1>2, <1>3, <1>5 DEF Keeps, Kept, Ignored
  <1>12. ReceivedBound'
    <2>1. Received' = Received \ {m}
      BY <1>5 DEF Received
    <2>2. IsFiniteSet(Received) /\ Cardinality(Received) \in Nat
          /\ Cardinality(Received) <= ReceivedMax
      BY FS_CardinalityType DEF IntakeInv, ReceivedBound
    <2>3. /\ IsFiniteSet(Received \ {m})
          /\ Cardinality(Received \ {m}) =
               IF m \in Received THEN Cardinality(Received) - 1 ELSE Cardinality(Received)
      BY <2>2, FS_RemoveElement
    <2> QED
      BY <2>1, <2>2, <2>3 DEF ReceivedBound
  <1>13. \A n \in Msgs : row[n].state # "none" =>
           row'[n].state # "none" /\ row'[n].scope = row[n].scope
    BY <1>5
  <1>14. inq' \in Seq(CopySet) /\ jobs' \subseteq JobSet
    BY <1>1 DEF IntakeInv, IntakeShape
  <1> QED
    BY <1>1, <1>2, <1>5, <1>9, <1>10, <1>11, <1>12, <1>13, <1>14, QueuesShift DEF IntakeInv

\* An actor drops one copy: its message is missed, and its row stays.
LEMMA MissKeeps ==
    ASSUME IntakeInv, Miss
    PROVE  IntakeInv' /\ Keeps
  <1>1. PICK l \in 1 .. Len(held) :
          /\ held' = RemoveAt(held, l)
          /\ missed' = missed \cup {held[l].msg}
          /\ UNCHANGED <<kind, row, inq, jobs, calls, told, bridge>>
    BY DEF Miss
  <1>2. /\ held' \in Seq(CopySet)
        /\ \A j \in 1 .. Len(held') : \E k \in 1 .. Len(held) : held'[j] = held[k]
        /\ \A n \in Msgs : n # held[l].msg /\ Waits(n) => Waits(n)'
    BY <1>1, OneLess
  <1>3. Keeps
    BY <1>1, <1>2 DEF Keeps, Kept, Ignored
  <1>4. /\ row' \in [Msgs -> RowSet] /\ ReceivedBound' /\ jobs' \subseteq JobSet
        /\ inq' \in Seq(CopySet)
    BY <1>1 DEF IntakeInv, IntakeShape, ReceivedBound, Received
  <1>5. /\ \A k \in 1 .. Len(inq') : Agree(row', inq'[k])
        /\ \A k \in 1 .. Len(held') : Agree(row', held'[k])
    BY <1>1, <1>2 DEF IntakeInv, QueuesAgree
  <1> QED
    BY <1>1, <1>2, <1>3, <1>4, <1>5, QueuesShift DEF IntakeInv

\* A new life: what is received is queued again, and there is always room for it.
LEMMA PreparedKeeps ==
    ASSUME IntakeInv, bridge = "down", Prepared,
           UNCHANGED <<kind, row, held, missed, jobs, calls, told>>
    PROVE  IntakeInv' /\ Keeps
  <1> DEFINE R == {Retained(m) : m \in Received}
             f == [m \in Received |-> Retained(m)]
  <1>1. IsFiniteSet(Received) /\ Cardinality(Received) \in Nat
        /\ Cardinality(Received) <= ReceivedMax
    BY FS_CardinalityType DEF IntakeInv, ReceivedBound
  <1>2. IsFiniteSet(R)
    <2>1. f \in Surjection(Received, R)
      BY DEF Surjection
    <2> QED
      BY <1>1, <2>1, FS_Surjection
  <1>3. inq' = SetToSeq(R)
    BY DEF Prepared
  <1>4. inq' \in Seq(R) /\ ToSet(inq') = R
    BY <1>2, <1>3, SetToSeqIs
  <1>5. \A c \in R : c \in CopySet /\ Agree(row, c)
    <2> SUFFICES ASSUME NEW m \in Received PROVE Retained(m) \in CopySet /\ Agree(row, Retained(m))
      OBVIOUS
    <2>1. m \in Msgs /\ row[m] \in RowSet /\ row[m].state = "received"
      BY DEF Received, IntakeInv, IntakeShape
    <2> QED
      BY <2>1 DEF Retained, Copy, CopySet, RowSet, Agree
  <1>6. \A k \in 1 .. Len(inq') : inq'[k] \in R
    BY <1>4
  <1>7. inq' \in Seq(CopySet) /\ \A k \in 1 .. Len(inq') : Agree(row', inq'[k])
    <2>1. \A k \in 1 .. Len(inq') : inq'[k] \in CopySet /\ Agree(row, inq'[k])
      BY <1>5, <1>6
    <2>2. inq' \in Seq(CopySet)
      BY <1>4, <2>1
    <2> QED
      BY <2>1, <2>2
  <1>8. bridge' = "up"
    BY <1>1 DEF Prepared
  <1>9. ASSUME NEW m \in Msgs, row[m].state = "received" PROVE Waits(m)'
    <2>1. Retained(m) \in ToSet(inq')
      BY <1>4, <1>9 DEF Received
    <2>2. PICK k \in DOMAIN inq' : inq'[k] = Retained(m)
      BY <2>1 DEF ToSet
    <2>3. k \in 1 .. Len(inq')
      BY <1>4
    <2> QED
      BY <2>2, <2>3 DEF Waits, Retained, Copy
  <1>10. Keeps
    BY <1>9 DEF Keeps, Kept, Ignored
  <1>11. /\ row' \in [Msgs -> RowSet] /\ ReceivedBound' /\ jobs' \subseteq JobSet
         /\ held' \in Seq(CopySet) /\ \A k \in 1 .. Len(held') : Agree(row', held'[k])
    BY DEF IntakeInv, IntakeShape, ReceivedBound, Received, QueuesAgree
  <1> HIDE DEF R, f
  <1> QED
    BY <1>7, <1>8, <1>10, <1>11, QueuesShift

\* The bridge closes, or is gone: the promise of an acknowledgement is then the row alone.
LEMMA CloseKeeps ==
    ASSUME IntakeInv, bridge' = "closing", inq' = <<>>,
            UNCHANGED <<kind, row, held, missed, jobs, calls, told>>
    PROVE  IntakeInv' /\ Keeps
  <1>1. Keeps
    BY DEF Keeps, Kept, Ignored
  <1>2. /\ row' \in [Msgs -> RowSet] /\ ReceivedBound' /\ jobs' \subseteq JobSet
        /\ held' \in Seq(CopySet) /\ \A k \in 1 .. Len(held') : Agree(row', held'[k])
    BY DEF IntakeInv, IntakeShape, ReceivedBound, Received, QueuesAgree
  <1>3. inq' \in Seq(CopySet) /\ \A k \in 1 .. Len(inq') : Agree(row', inq'[k])
    OBVIOUS
  <1> QED
    BY <1>1, <1>2, <1>3, QueuesShift

\* The process is gone.
LEMMA ForgetsKeeps ==
    ASSUME IntakeInv, bridge' = "down", Forgets, UNCHANGED <<kind, row, told>>
    PROVE  IntakeInv' /\ Keeps
  <1>1. NoCall \in CallSet
    BY DEF NoCall, CallSet, ScopeSet
  <1>2. IntakeShape' /\ CallsNamed' /\ ReceivedBound'
    BY <1>1 DEF Forgets, IntakeInv, IntakeShape, CallsNamed, ReceivedBound, Received, NoCall
  <1>3. \A i \in Slots : calls'[i].at = "idle"
    BY DEF Forgets, NoCall
  <1>4. Keeps
    BY DEF Keeps, Kept, Ignored
  <1>5. QueuesAgree' /\ OkIsKept' /\ ToldIsKept'
    BY <1>3, <1>4 DEF Forgets, QueuesAgree, OkIsKept, ToldIsKept, IntakeInv, IntakeShape, Keeps
  <1> QED
    BY <1>2, <1>4, <1>5 DEF IntakeInv

(***************************************************************************)
(* The invariant of the pipes: every event that is offered is in one place *)
(* at a time, under one id.                                                *)
(***************************************************************************)

EventFrames == [t : {"event"}, id : Slots, v : Msgs]
AckFrames == [t : {"ack"}, id : Slots, v : {"ok", "failed"}]
PlainFrames == [t : {"hello", "configure", "response", "state", "shutdown"}, id : {0},
                v : {"configure", "shutdown", "connected", "connecting", "failed", "fatal",
                     "stopped", None}]
FrameSet == EventFrames \cup AckFrames \cup PlainFrames
EntrySet == [id : Slots, msg : Msgs]

\* What a pipe or a queue holds of the event with this id.
Event(s, i) == \E k \in 1 .. Len(s) : s[k].t = "event" /\ s[k].id = i
Ack(s, i) == \E k \in 1 .. Len(s) : s[k].t = "ack" /\ s[k].id = i
AckOk(s, i) == \E k \in 1 .. Len(s) : s[k].t = "ack" /\ s[k].id = i /\ s[k].v = "ok"
Entry(s, i) == \E k \in 1 .. Len(s) : s[k].id = i
Names(s, i, m) == \A k \in 1 .. Len(s) : s[k].t = "event" /\ s[k].id = i => s[k].v = m
EntryNames(s, i, m) == \A k \in 1 .. Len(s) : s[k].id = i => s[k].msg = m

\* It holds it once.
OneEvent(s) ==
  \A k, l \in 1 .. Len(s) : s[k].t = "event" /\ s[l].t = "event" /\ s[k].id = s[l].id => k = l
OneAck(s) ==
  \A k, l \in 1 .. Len(s) : s[k].t = "ack" /\ s[l].t = "ack" /\ s[k].id = s[l].id => k = l
OneEntry(s) == \A k, l \in 1 .. Len(s) : s[k].id = s[l].id => k = l

Busy(i) == calls[i].at # "idle"

SideShape ==
  /\ up \in Seq(FrameSet) /\ writes \in Seq(FrameSet) /\ chain \in Seq(FrameSet)
  /\ evq \in Seq(EntrySet)
  /\ pending \in [Slots -> Msgs \cup {None}]
  /\ ids \subseteq Slots /\ abandoned \subseteq Slots

\* An event on its way is in one of five places, once.
Once ==
  /\ OneEvent(up) /\ OneEntry(evq) /\ OneAck(writes) /\ OneAck(chain)
  /\ \A i \in Slots :
       /\ Event(up, i) => ~ Entry(evq, i) /\ ~ Busy(i) /\ ~ Ack(writes, i) /\ ~ Ack(chain, i)
       /\ Entry(evq, i) => ~ Busy(i) /\ ~ Ack(writes, i) /\ ~ Ack(chain, i)
       /\ Busy(i) => ~ Ack(writes, i) /\ ~ Ack(chain, i)
       /\ Ack(writes, i) => ~ Ack(chain, i)

OnItsWay(i) == Event(up, i) \/ Entry(evq, i) \/ Busy(i) \/ Ack(writes, i) \/ Ack(chain, i)

\* While Node may offer events, it waits for everything on its way or has given up on it.
Awaited ==
  node \in {"boot", "starting", "up"} =>
    \A i \in Slots : OnItsWay(i) => pending[i] # None \/ i \in abandoned

\* What is on its way for a waiter is about the waiter's message, and an acknowledgement
\* of success is kept.
Matched ==
  \A i \in Slots : pending[i] # None =>
    /\ Names(up, i, pending[i]) /\ EntryNames(evq, i, pending[i])
    /\ Busy(i) => calls[i].msg = pending[i]
    /\ AckOk(writes, i) \/ AckOk(chain, i) => Kept(pending[i])

\* ActiveEventIds covers the event queue.
Active == \A i \in Slots : Entry(evq, i) => i \in ids

\* Between two sessions nothing is left of one.
Bare ==
  /\ sup \in {"spawn", "backoff", "ended"} =>
       /\ up = <<>> /\ writes = <<>> /\ evq = <<>> /\ ids = {}
       /\ Sidecar => \A i \in Slots : ~ Busy(i)
  /\ sup \in {"spawn", "backoff"} => node = "none"
  /\ sup = "ended" => node \in {"none", "eof", "dead"}
  /\ node = "none" => chain = <<>> /\ pending = NoIds /\ abandoned = {}
  /\ ~ Sidecar => sup = "ended" /\ node = "none"
  /\ bridge = "down" => sup = "ended" /\ \A i \in Slots : ~ Busy(i)

SideInv == SideShape /\ Once /\ Awaited /\ Matched /\ Active /\ Bare

(***************************************************************************)
(* Pipes and queues.                                                       *)
(***************************************************************************)

\* A frame by its type.
LEMMA FrameFields ==
    ASSUME NEW f \in FrameSet
    PROVE  /\ f.t = "event" => f \in EventFrames /\ f.id \in Slots /\ f.v \in Msgs
           /\ f.t = "ack" => f \in AckFrames /\ f.id \in Slots /\ f.v \in {"ok", "failed"}
           /\ f.t \notin {"event", "ack"} => f \in PlainFrames
  BY DEF FrameSet, EventFrames, AckFrames, PlainFrames

\* What one more frame at the end changes.
Gains(s, e, r) ==
  /\ r \in Seq(FrameSet)
  /\ \A i : Event(r, i) <=> Event(s, i) \/ (e.t = "event" /\ e.id = i)
  /\ \A i : Ack(r, i) <=> Ack(s, i) \/ (e.t = "ack" /\ e.id = i)
  /\ \A i : AckOk(r, i) <=> AckOk(s, i) \/ (e.t = "ack" /\ e.id = i /\ e.v = "ok")
  /\ \A i, m : Names(r, i, m) <=> Names(s, i, m) /\ (e.t = "event" /\ e.id = i => e.v = m)
  /\ OneEvent(s) /\ (e.t = "event" => ~ Event(s, e.id)) => OneEvent(r)
  /\ OneAck(s) /\ (e.t = "ack" => ~ Ack(s, e.id)) => OneAck(r)

LEMMA FrameAppended ==
    ASSUME NEW s \in Seq(FrameSet), NEW e \in FrameSet, NEW r, r = Append(s, e)
    PROVE  Gains(s, e, r)
  <1>1. /\ r \in Seq(FrameSet) /\ Len(s) \in Nat /\ Len(r) = Len(s) + 1 /\ r[Len(s) + 1] = e
        /\ \A k \in 1 .. Len(s) : r[k] = s[k]
    OBVIOUS
  <1>2. \A k \in 1 .. Len(r) : k \in 1 .. Len(s) \/ k = Len(s) + 1
    BY <1>1
  <1>3. Len(s) + 1 \in 1 .. Len(r) /\ \A k \in 1 .. Len(s) : k \in 1 .. Len(r)
    BY <1>1
  <1>4. \A i : Event(r, i) <=> Event(s, i) \/ (e.t = "event" /\ e.id = i)
    BY <1>1, <1>2, <1>3 DEF Event
  <1>5. \A i : Ack(r, i) <=> Ack(s, i) \/ (e.t = "ack" /\ e.id = i)
    BY <1>1, <1>2, <1>3 DEF Ack
  <1>6. \A i : AckOk(r, i) <=> AckOk(s, i) \/ (e.t = "ack" /\ e.id = i /\ e.v = "ok")
    BY <1>1, <1>2, <1>3 DEF AckOk
  <1>7. \A i, m : Names(r, i, m) <=> Names(s, i, m) /\ (e.t = "event" /\ e.id = i => e.v = m)
    BY <1>1, <1>2, <1>3 DEF Names
  <1>8. OneEvent(s) /\ (e.t = "event" => ~ Event(s, e.id)) => OneEvent(r)
    BY <1>1, <1>2 DEF OneEvent, Event
  <1>9. OneAck(s) /\ (e.t = "ack" => ~ Ack(s, e.id)) => OneAck(r)
    BY <1>1, <1>2 DEF OneAck, Ack
  <1> QED
    BY <1>1, <1>4, <1>5, <1>6, <1>7, <1>8, <1>9 DEF Gains

\* What one frame less at the front changes.
Loses(s, e, r) ==
  /\ r \in Seq(FrameSet) /\ e \in FrameSet
  /\ \A i : Event(s, i) <=> Event(r, i) \/ (e.t = "event" /\ e.id = i)
  /\ \A i : Ack(s, i) <=> Ack(r, i) \/ (e.t = "ack" /\ e.id = i)
  /\ \A i : AckOk(s, i) <=> AckOk(r, i) \/ (e.t = "ack" /\ e.id = i /\ e.v = "ok")
  /\ \A i, m : Names(s, i, m) <=> Names(r, i, m) /\ (e.t = "event" /\ e.id = i => e.v = m)
  /\ OneEvent(s) => OneEvent(r) /\ (e.t = "event" => ~ Event(r, e.id))
  /\ OneAck(s) => OneAck(r) /\ (e.t = "ack" => ~ Ack(r, e.id))

LEMMA FrameTaken ==
    ASSUME NEW s \in Seq(FrameSet), s # <<>>, NEW r, r = Tail(s), NEW e, e = Head(s)
    PROVE  Loses(s, e, r)
  <1>1. /\ r \in Seq(FrameSet) /\ e \in FrameSet /\ Len(s) \in Nat /\ Len(s) > 0
        /\ Len(r) = Len(s) - 1 /\ s[1] = e
        /\ \A k \in 1 .. Len(r) : r[k] = s[k + 1]
    OBVIOUS
  <1>2. \A k \in 1 .. Len(s) : k = 1 \/ (k - 1 \in 1 .. Len(r) /\ s[k] = r[k - 1])
    BY <1>1
  <1>3. 1 \in 1 .. Len(s) /\ \A k \in 1 .. Len(r) : k + 1 \in 1 .. Len(s) /\ k + 1 # 1
    BY <1>1
  <1>4. \A i : Event(s, i) <=> Event(r, i) \/ (e.t = "event" /\ e.id = i)
    BY <1>1, <1>2, <1>3 DEF Event
  <1>5. \A i : Ack(s, i) <=> Ack(r, i) \/ (e.t = "ack" /\ e.id = i)
    BY <1>1, <1>2, <1>3 DEF Ack
  <1>6. \A i : AckOk(s, i) <=> AckOk(r, i) \/ (e.t = "ack" /\ e.id = i /\ e.v = "ok")
    BY <1>1, <1>2, <1>3 DEF AckOk
  <1>7. \A i, m : Names(s, i, m) <=> Names(r, i, m) /\ (e.t = "event" /\ e.id = i => e.v = m)
    BY <1>1, <1>2, <1>3 DEF Names
  <1>8. OneEvent(s) => OneEvent(r) /\ (e.t = "event" => ~ Event(r, e.id))
    BY <1>1, <1>3 DEF OneEvent, Event
  <1>9. OneAck(s) => OneAck(r) /\ (e.t = "ack" => ~ Ack(r, e.id))
    BY <1>1, <1>3 DEF OneAck, Ack
  <1> QED
    BY <1>1, <1>4, <1>5, <1>6, <1>7, <1>8, <1>9 DEF Loses

\* The same for the event queue.
EntryGains(s, e, r) ==
  /\ r \in Seq(EntrySet)
  /\ \A i : Entry(r, i) <=> Entry(s, i) \/ e.id = i
  /\ \A i, m : EntryNames(r, i, m) <=> EntryNames(s, i, m) /\ (e.id = i => e.msg = m)
  /\ OneEntry(s) /\ ~ Entry(s, e.id) => OneEntry(r)

LEMMA EntryAppended ==
    ASSUME NEW s \in Seq(EntrySet), NEW e \in EntrySet, NEW r, r = Append(s, e)
    PROVE  EntryGains(s, e, r)
  <1>1. /\ r \in Seq(EntrySet) /\ Len(s) \in Nat /\ Len(r) = Len(s) + 1 /\ r[Len(s) + 1] = e
        /\ \A k \in 1 .. Len(s) : r[k] = s[k]
    OBVIOUS
  <1>2. \A k \in 1 .. Len(r) : k \in 1 .. Len(s) \/ k = Len(s) + 1
    BY <1>1
  <1>3. Len(s) + 1 \in 1 .. Len(r) /\ \A k \in 1 .. Len(s) : k \in 1 .. Len(r)
    BY <1>1
  <1>4. \A i : Entry(r, i) <=> Entry(s, i) \/ e.id = i
    BY <1>1, <1>2, <1>3 DEF Entry
  <1>5. \A i, m : EntryNames(r, i, m) <=> EntryNames(s, i, m) /\ (e.id = i => e.msg = m)
    BY <1>1, <1>2, <1>3 DEF EntryNames
  <1>6. OneEntry(s) /\ ~ Entry(s, e.id) => OneEntry(r)
    BY <1>1, <1>2 DEF OneEntry, Entry
  <1> QED
    BY <1>1, <1>4, <1>5, <1>6 DEF EntryGains

EntryLoses(s, e, r) ==
  /\ r \in Seq(EntrySet) /\ e \in EntrySet
  /\ \A i : Entry(s, i) <=> Entry(r, i) \/ e.id = i
  /\ \A i, m : EntryNames(s, i, m) <=> EntryNames(r, i, m) /\ (e.id = i => e.msg = m)
  /\ OneEntry(s) => OneEntry(r) /\ ~ Entry(r, e.id)

LEMMA EntryTaken ==
    ASSUME NEW s \in Seq(EntrySet), s # <<>>, NEW r, r = Tail(s), NEW e, e = Head(s)
    PROVE  EntryLoses(s, e, r)
  <1>1. /\ r \in Seq(EntrySet) /\ e \in EntrySet /\ Len(s) \in Nat /\ Len(s) > 0
        /\ Len(r) = Len(s) - 1 /\ s[1] = e
        /\ \A k \in 1 .. Len(r) : r[k] = s[k + 1]
    OBVIOUS
  <1>2. \A k \in 1 .. Len(s) : k = 1 \/ (k - 1 \in 1 .. Len(r) /\ s[k] = r[k - 1])
    BY <1>1
  <1>3. 1 \in 1 .. Len(s) /\ \A k \in 1 .. Len(r) : k + 1 \in 1 .. Len(s) /\ k + 1 # 1
    BY <1>1
  <1>4. \A i : Entry(s, i) <=> Entry(r, i) \/ e.id = i
    BY <1>1, <1>2, <1>3 DEF Entry
  <1>5. \A i, m : EntryNames(s, i, m) <=> EntryNames(r, i, m) /\ (e.id = i => e.msg = m)
    BY <1>1, <1>2, <1>3 DEF EntryNames
  <1>6. OneEntry(s) => OneEntry(r) /\ ~ Entry(r, e.id)
    BY <1>1, <1>3 DEF OneEntry, Entry
  <1> QED
    BY <1>1, <1>4, <1>5, <1>6 DEF EntryLoses

\* A pipe that is empty, or that only loses or gains frames of no event.
Less(s, r) ==
  /\ r \in Seq(FrameSet)
  /\ \A i : (Event(r, i) => Event(s, i)) /\ (Ack(r, i) => Ack(s, i)) /\ (AckOk(r, i) => AckOk(s, i))
  /\ \A i, m : Names(s, i, m) => Names(r, i, m)
  /\ (OneEvent(s) => OneEvent(r)) /\ (OneAck(s) => OneAck(r))
LessQueued(s, r) ==
  /\ r \in Seq(EntrySet)
  /\ \A i : Entry(r, i) => Entry(s, i)
  /\ \A i, m : EntryNames(s, i, m) => EntryNames(r, i, m)
  /\ OneEntry(s) => OneEntry(r)

\* Nothing changes, or nothing is left.
LEMMA LessSame ==
    ASSUME NEW s \in Seq(FrameSet)
    PROVE  Less(s, s) /\ Less(s, <<>>)
  BY DEF Less, Event, Ack, AckOk, Names, OneEvent, OneAck

LEMMA LessQueuedSame ==
    ASSUME NEW s \in Seq(EntrySet)
    PROVE  LessQueued(s, s) /\ LessQueued(s, <<>>)
  BY DEF LessQueued, Entry, EntryNames, OneEntry

\* A frame is read.
LEMMA LessTail ==
    ASSUME NEW s \in Seq(FrameSet), s # <<>>
    PROVE  Less(s, Tail(s))
  <1> DEFINE r == Tail(s)
             e == Head(s)
  <1>1. r = Tail(s) /\ e = Head(s)
    OBVIOUS
  <1> HIDE DEF r, e
  <1>2. Less(s, r)
    <2>1. Loses(s, e, r)
      BY <1>1, FrameTaken
    <2> QED
      BY <2>1 DEF Less, Loses
  <1> QED
    BY <1>1, <1>2

\* A frame that is about no event is sent.
LEMMA LessPlain ==
    ASSUME NEW s \in Seq(FrameSet), NEW e \in PlainFrames
    PROVE  Less(s, Append(s, e))
  <1>1. e \in FrameSet /\ e.t # "event" /\ e.t # "ack"
    BY DEF FrameSet, PlainFrames
  <1> DEFINE r == Append(s, e)
  <1>2. r = Append(s, e)
    OBVIOUS
  <1> HIDE DEF r
  <1>3. Less(s, r)
    <2>1. Gains(s, e, r)
      BY <1>1, <1>2, FrameAppended
    <2> QED
      BY <1>1, <2>1 DEF Less, Gains
  <1> QED
    BY <1>2, <1>3

\* Two such changes.
LEMMA LessTrans ==
    ASSUME NEW s, NEW r, NEW q, Less(s, r), Less(r, q)
    PROVE  Less(s, q)
  BY DEF Less

\* A step that only takes away: from the pipes, the queue, the calls, and from what Node
\* awaits once it offers nothing any more.
LEMMA SideShrinks ==
    ASSUME SideInv, Keeps,
           Less(up, up'), Less(writes, writes'), Less(chain, chain'), LessQueued(evq, evq'),
           pending' \in [Slots -> Msgs \cup {None}], ids' \subseteq Slots,
            abandoned' \subseteq Slots,
           \A i \in Slots : pending'[i] # None => pending'[i] = pending[i],
           \A i \in Slots : Busy(i)' => Busy(i) /\ calls'[i].msg = calls[i].msg,
           \A i \in Slots : Entry(evq', i) /\ i \in ids => i \in ids',
           node' \in {"boot", "starting", "up"} =>
             /\ node \in {"boot", "starting", "up"} 
             /\ \A i \in Slots : pending[i] # None \/ i \in abandoned =>
                  pending'[i] # None \/ i \in abandoned',
           Bare'
    PROVE  SideInv'
  <1>1. SideShape'
    BY DEF SideShape, Less, LessQueued
  <1>2. Once'
    BY DEF SideInv, Once, Less, LessQueued
  <1>3. Awaited'
    BY DEF SideInv, Awaited, OnItsWay, Less, LessQueued
  <1>4. Matched'
    <2> SUFFICES ASSUME NEW i \in Slots, pending'[i] # None
                 PROVE  /\ Names(up', i, pending'[i]) /\ EntryNames(evq', i, pending'[i])
                        /\ Busy(i)' => calls'[i].msg = pending'[i]
                        /\ AckOk(writes', i) \/ AckOk(chain', i) => Kept(pending[i])'
      BY DEF Matched
    <2>1. PICK m \in Msgs : pending[i] = m /\ pending'[i] = m
      BY DEF SideInv, SideShape
    <2>2. /\ Names(up, i, m) /\ EntryNames(evq, i, m)
          /\ Busy(i) => calls[i].msg = m
          /\ AckOk(writes, i) \/ AckOk(chain, i) => Kept(m)
      BY <2>1 DEF SideInv, Matched
    <2>3. AckOk(writes', i) \/ AckOk(chain', i) => Kept(m)'
      BY <2>2 DEF Less, Keeps
    <2> QED
      BY <2>1, <2>2, <2>3 DEF Less, LessQueued
  <1>5. Active'
    BY DEF SideInv, Active, LessQueued
  <1> QED
    BY <1>1, <1>2, <1>3, <1>4, <1>5 DEF SideInv

\* The inductive invariant of the inbound side.
InInv == IntakeInv /\ SideInv

(***************************************************************************)
(* Steps of the handlers and of the router.                                *)
(***************************************************************************)

\* A slot without a call.
LEMMA NoCallIs == NoCall \in CallSet /\ NoCall.at = "idle"
  BY DEF NoCall, CallSet, ScopeSet

\* The handlers and the router leave the sources alone.
LEMMA QuietKeeps ==
    ASSUME InInv, IntakeInv', Keeps, Quiet, bridge' = bridge,
           \A i \in Slots : (Busy(i)' <=> Busy(i)) /\ calls'[i].msg = calls[i].msg
    PROVE  InInv'
  <1>1. UNCHANGED <<up, writes, chain, evq, pending, ids, abandoned, node, sup, source>>
    BY DEF Quiet, sideVars, procVars, sessVars
  <1>2. /\ Less(up, up') /\ Less(writes, writes') /\ Less(chain, chain') /\ LessQueued(evq, evq')
    BY <1>1, LessSame, LessQueuedSame DEF InInv, SideInv, SideShape
  <1>3. Bare'
    BY <1>1 DEF InInv, SideInv, Bare, Sidecar, NoIds
  <1>4. SideInv'
    BY <1>1, <1>2, <1>3, SideShrinks DEF InInv, SideInv, SideShape
  <1> QED
    BY <1>4 DEF InInv

\* A handler goes on.
LEMMA ServeKeeps ==
    ASSUME InInv, NEW i \in Slots, Serve(i)
    PROVE  InInv'
  <1>1. IntakeInv' /\ Keeps /\ HandlersKeep
    BY NormalizeKeeps, RegisterKeeps, EnqueueKeeps, HandlerFaultKeeps
       DEF InInv, Serve, HandlerStep
  <1>2. Quiet /\ bridge' = bridge
    BY DEF Serve, HandlerStep, HandlerFault, Normalize, Register, Enqueue, RegisterFails,
           HandlerTimeout
  <1> QED
    BY <1>1, <1>2, QuietKeeps DEF HandlersKeep, At, Busy

\* The store writer, the driver and the router.
LEMMA SettleKeeps ==
    ASSUME InInv, Settle \/ Drop
    PROVE  InInv'
  <1>1. IntakeInv' /\ Keeps
    BY LateRegisterKeeps, RouteKeeps, TakeKeeps, MissKeeps DEF InInv, Settle, Driver, Drop
  <1>2. Quiet /\ UNCHANGED <<bridge, calls>>
    BY DEF Settle, LateRegister, Driver, Route, Take, Drop, Miss
  <1> QED
    BY <1>1, <1>2, QuietKeeps DEF Busy

(***************************************************************************)
(* Steps of Node.                                                          *)
(***************************************************************************)

\* The pipes and queues of a state, none of which grows.
LEMMA PipesStay ==
    ASSUME SideInv
    PROVE  /\ Less(up, up) /\ Less(writes, writes) /\ Less(chain, chain) /\ LessQueued(evq, evq)
           /\ Less(up, <<>>) /\ Less(writes, <<>>) /\ Less(chain, <<>>) /\ LessQueued(evq, <<>>)
           /\ up # <<>> => Less(up, Tail(up))
           /\ chain # <<>> => Less(chain, Tail(chain))
           /\ NoIds \in [Slots -> Msgs \cup {None}]
           /\ \A i \in Slots : NoIds[i] = None
  BY LessSame, LessQueuedSame, LessTail DEF SideInv, SideShape, NoIds

\* Steps that leave the handlers alone, or drop them all.
LEMMA TaskCalls ==
    ASSUME IntakeInv, UNCHANGED <<kind, row, inq, held, missed, bridge, told>>,
           \/ UNCHANGED <<jobs, calls>>
           \/ jobs' = Left(Slots) /\ calls' = Dropped(Slots)
    PROVE  /\ IntakeInv' /\ Keeps
           /\ \A i \in Slots : Busy(i)' => Busy(i) /\ calls'[i].msg = calls[i].msg
           /\ calls' = Dropped(Slots) => \A i \in Slots : ~ Busy(i)'
  <1>1. jobs' \subseteq JobSet
    BY LeftTyped DEF IntakeInv, IntakeShape
  <1>2. CASE UNCHANGED calls
    <2>1. IntakeInv' /\ Keeps
      BY <1>1, <1>2, CallsShift DEF IntakeInv, IntakeShape, ToldIsKept
    <2>2. calls = Dropped(Slots) => \A i \in Slots : ~ Busy(i)
      BY NoCallIs DEF Dropped, Busy
    <2> QED
      BY <1>2, <2>1, <2>2 DEF Busy
  <1>3. CASE calls' = Dropped(Slots)
    <2>1. calls' \in [Slots -> CallSet] /\ \A i \in Slots : calls'[i].at = "idle"
      BY <1>3, NoCallIs DEF Dropped
    <2>2. IntakeInv' /\ Keeps
      BY <1>1, <2>1, CallsShift DEF IntakeInv, IntakeShape, ToldIsKept
    <2> QED
      BY <2>1, <2>2 DEF Busy
  <1> QED
    BY <1>2, <1>3

\* A step of Node that forwards nothing and takes no acknowledgement.
LEMMA NodeKeeps ==
    ASSUME InInv, UNCHANGED <<kind, row, inq, held, missed, bridge, told, jobs, calls, source>>,
           UNCHANGED <<sup, writes, evq, ids>>,
           Less(up, up'), Less(chain, chain'), sup \in {"spawn", "backoff", "ended"} => up' = <<>>,
           pending' \in [Slots -> Msgs \cup {None}], abandoned' \subseteq Slots,
           \A i \in Slots : pending'[i] # None => pending'[i] = pending[i],
           node' \in {"boot", "starting", "up"} =>
             /\ node \in {"boot", "starting", "up"}
             /\ \A i \in Slots : pending[i] # None \/ i \in abandoned =>
                  pending'[i] # None \/ i \in abandoned',
           node # "none",
           node' = "none" => chain' = <<>> /\ pending' = NoIds /\ abandoned' = {},
           node \in {"eof", "dead"} => node' \in {"none", "eof", "dead"}
    PROVE  InInv'
  <1>1. IntakeInv' /\ Keeps /\ \A i \in Slots : Busy(i)' => Busy(i) /\ calls'[i].msg = calls[i].msg
    BY TaskCalls DEF InInv
  <1>2. Less(writes, writes') /\ LessQueued(evq, evq')
    BY PipesStay DEF InInv
  <1>3. Bare'
    BY <1>1 DEF InInv, SideInv, Bare, Sidecar, NoIds
  <1>4. SideInv'
    BY <1>1, <1>2, <1>3, SideShrinks DEF InInv, SideInv, SideShape
  <1> QED
    BY <1>1, <1>4 DEF InInv

\* The timer of a waiter.
LEMMA AckTimeoutKeeps ==
    ASSUME InInv, AckTimeout, SideOnly
    PROVE  InInv'
  <1>1. PICK i \in Pending : /\ pending' = [pending EXCEPT ![i] = None]
                             /\ abandoned' = abandoned \cup {i}
    BY DEF AckTimeout
  <1>2. /\ pending' \in [Slots -> Msgs \cup {None}] /\ abandoned' \subseteq Slots
        /\ \A j \in Slots : pending'[j] # None => pending'[j] = pending[j]
        /\ \A j \in Slots : pending[j] # None \/ j \in abandoned =>
             pending'[j] # None \/ j \in abandoned'
    BY <1>1 DEF InInv, SideInv, SideShape, Pending
  <1>3. Less(up, up) /\ Less(chain, chain)
    BY PipesStay DEF InInv
  <1> QED
    BY <1>2, <1>3, NodeKeeps
       DEF AckTimeout, Platform, SideOnly, sessVars, NodeRuns, InInv, SideInv, Bare

\* sendState.
LEMMA SaysKeeps ==
    ASSUME InInv, NEW w \in {"connected", "connecting", "failed", "fatal"}, Says(w)
    PROVE  Less(up, up') /\ (sup \in {"spawn", "backoff", "ended"} => up' = <<>>)
  <1>1. State(w) \in PlainFrames
    BY DEF State, Frame, PlainFrames
  <1>2. up \in Seq(FrameSet)
    BY DEF InInv, SideInv, SideShape
  <1> QED
    BY <1>1, <1>2, LessPlain, LessSame DEF Says, InInv, SideInv, Bare

\* The connection comes and goes.
LEMMA ConnectsKeeps ==
    ASSUME InInv, Connects \/ Disconnects \/ GivesUp, SideOnly
    PROVE  InInv'
  <1>1. Less(up, up') /\ (sup \in {"spawn", "backoff", "ended"} => up' = <<>>)
    BY SaysKeeps DEF Connects, Disconnects, GivesUp
  <1>2. /\ UNCHANGED <<kind, row, inq, held, missed, bridge, told, jobs, calls, source>>
        /\ UNCHANGED <<sup, writes, evq, ids, pending, abandoned, chain>>
        /\ node \in {"starting", "up"} /\ (node' = node \/ node' = "leaving")
    BY DEF Connects, Disconnects, GivesUp, Platform, SideOnly, sessVars, intakeVars
  <1>3. Less(chain, chain')
    BY <1>2, PipesStay DEF InInv
  <1> QED
    BY <1>1, <1>2, <1>3, NodeKeeps DEF InInv, SideInv, SideShape

\* The process ends.
LEMMA NodeExitsKeeps ==
    ASSUME InInv, NodeExits, SideOnly
    PROVE  InInv'
  <1>1. /\ UNCHANGED <<kind, row, inq, held, missed, bridge, told, jobs, calls, source>>
        /\ UNCHANGED <<sup, writes, evq, ids, up>>
        /\ node # "none" /\ node' \in {"none", "dead"}
        /\ \/ pending' = NoIds /\ abandoned' = {} /\ chain' = <<>>
           \/ node' = "dead" /\ UNCHANGED <<pending, abandoned, chain>>
    BY DEF NodeExits, Orphan, Platform, SideOnly, sessVars
  <1>2. Less(up, up') /\ Less(chain, chain')
    BY <1>1, PipesStay DEF InInv
  <1>3. /\ pending' \in [Slots -> Msgs \cup {None}] /\ abandoned' \subseteq Slots
        /\ \A j \in Slots : pending'[j] # None => pending'[j] = pending[j]
    BY <1>1, PipesStay DEF InInv, SideInv, SideShape
  <1> QED
    BY <1>1, <1>2, <1>3, NodeKeeps DEF InInv, SideInv, Bare

\* The answer to configure.
LEMMA ConfiguredKeeps ==
    ASSUME InInv, Configured, SideOnly
    PROVE  InInv'
  <1>1. /\ UNCHANGED <<kind, row, inq, held, missed, bridge, told, jobs, calls, source>>
        /\ UNCHANGED <<sup, writes, evq, ids, pending, abandoned, chain>>
        /\ node = "starting" /\ node' \in {"up", "dead"}
    BY DEF Configured, SideOnly, sessVars, intakeVars
  <1>2. up \in Seq(FrameSet)
    BY DEF InInv, SideInv, SideShape
  <1>3. Less(up, up')
    <2> DEFINE a == Frame("response", 0, "configure")
               b == State(IF sdk THEN "connected" ELSE "connecting")
    <2>1. a \in PlainFrames /\ b \in PlainFrames
      BY DEF Frame, State, PlainFrames
    <2>2. Less(up, up) /\ Less(up, Append(up, a))
      BY <1>2, <2>1, LessPlain, LessSame
    <2>3. Append(up, a) \in Seq(FrameSet)
      BY <2>2 DEF Less
    <2>4. Less(Append(up, a), Append(Append(up, a), b))
      BY <2>1, <2>3, LessPlain
    <2>5. Less(up, Append(Append(up, a), b))
      BY <2>2, <2>4, LessTrans
    <2>6. up' = up \/ up' = up \o <<a>> \o <<b>> \/ up' = up \o <<a>> \o <<>>
      BY DEF Configured
    <2>7. a \in FrameSet /\ b \in FrameSet
      BY <2>1 DEF FrameSet
    <2> HIDE DEF a, b
    <2>8. up \o <<a>> \o <<b>> = Append(Append(up, a), b) /\ up \o <<a>> \o <<>> = Append(up, a)
      BY <1>2, <2>7
    <2> QED
      BY <2>2, <2>5, <2>6, <2>8
  <1>4. Less(chain, chain')
    BY <1>1, PipesStay DEF InInv
  <1>5. sup \notin {"spawn", "backoff", "ended"}
    BY <1>1 DEF InInv, SideInv, Bare
  <1> QED
    BY <1>1, <1>3, <1>4, <1>5, NodeKeeps DEF InInv, SideInv, SideShape

\* forwardEvent: the id is one nothing refers to.
LEMMA OfferKeeps ==
    ASSUME InInv, NEW m \in Msgs, Offer(m), SideOnly
    PROVE  InInv'
  <1> DEFINE i == Min(Free)
  <1>1. i \in Free /\ Free \subseteq Slots
    <2>1. Free \subseteq Slots /\ Free # {}
      BY DEF Free, Offer
    <2> QED
      BY <2>1, MinIn
  <1>2. /\ pending' = [pending EXCEPT ![i] = m] /\ up' = Append(up, Frame("event", i, m))
        /\ node \in {"starting", "up"}
        /\ UNCHANGED <<kind, row, inq, held, missed, bridge, told, jobs, calls, source>>
        /\ UNCHANGED <<sup, writes, evq, ids, chain, abandoned, node>>
    BY DEF Offer, SideOnly, sessVars, intakeVars
  <1>3. PICK j \in Slots : j = i
    BY <1>1
  <1>4. /\ pending[j] = None /\ j \notin ids /\ j \notin abandoned /\ ~ Busy(j)
        /\ \A k \in 1 .. Len(up) : up[k].id # j
    BY <1>1, <1>3 DEF Free, Pending, At, Busy
  <1> HIDE DEF i
  <1>5. PICK e \in FrameSet : e.t = "event" /\ e.id = j /\ e.v = m /\ up' = Append(up, e)
    <2>1. Frame("event", j, m) \in EventFrames
      BY DEF Frame, EventFrames
    <2> QED
      BY <1>2, <1>3, <2>1 DEF Frame, FrameSet
  <1>6. IntakeInv' /\ Keeps
    BY <1>2, TaskCalls DEF InInv
  <1>7. /\ pending' \in [Slots -> Msgs \cup {None}] /\ pending'[j] = m
        /\ \A n \in Slots \ {j} : pending'[n] = pending[n]
    BY <1>2, <1>3 DEF InInv, SideInv, SideShape
  <1>8. /\ ~ Event(up, j) /\ ~ Entry(evq, j) /\ ~ Ack(writes, j) /\ ~ Ack(chain, j)
    <2>1. ~ Event(up, j)
      BY <1>4 DEF Event
    <2>2. ~ Entry(evq, j)
      BY <1>4 DEF InInv, SideInv, Active
    <2>3. ~ Ack(writes, j) /\ ~ Ack(chain, j)
      BY <1>2, <1>4 DEF InInv, SideInv, Awaited, OnItsWay
    <2> QED
      BY <2>1, <2>2, <2>3
  <1>9. /\ up' \in Seq(FrameSet) /\ OneEvent(up')
        /\ \A n : Event(up', n) <=> Event(up, n) \/ j = n
        /\ \A n, x : Names(up', n, x) <=> Names(up, n, x) /\ (j = n => m = x)
    <2>1. up \in Seq(FrameSet) /\ OneEvent(up)
      BY DEF InInv, SideInv, SideShape, Once
    <2>2. Gains(up, e, up')
      BY <1>5, <2>1, FrameAppended
    <2> QED
      BY <1>5, <1>8, <2>1, <2>2 DEF Gains
  <1>10. SideShape'
    BY <1>2, <1>7, <1>9 DEF InInv, SideInv, SideShape
  <1>11. Once'
    BY <1>2, <1>4, <1>8, <1>9 DEF InInv, SideInv, Once, Busy
  <1>12. Awaited'
    BY <1>2, <1>7, <1>9 DEF InInv, SideInv, Awaited, OnItsWay, Busy
  <1>13. Matched'
    <2> SUFFICES ASSUME NEW n \in Slots, pending'[n] # None
                 PROVE  /\ Names(up', n, pending'[n]) /\ EntryNames(evq', n, pending'[n])
                        /\ Busy(n)' => calls'[n].msg = pending'[n]
                        /\ AckOk(writes', n) \/ AckOk(chain', n) => Kept(pending[n])'
      BY DEF Matched
    <2>1. CASE n = j
      <3>1. Names(up, j, m) /\ EntryNames(evq, j, m)
        BY <1>8 DEF Names, Event, EntryNames, Entry
      <3>2. ~ AckOk(writes, j) /\ ~ AckOk(chain, j)
        BY <1>8 DEF AckOk, Ack
      <3> QED
        BY <1>2, <1>4, <1>7, <1>9, <2>1, <3>1, <3>2 DEF Busy
    <2>2. CASE n # j
      <3>1. PICK x \in Msgs : pending[n] = x /\ pending'[n] = x
        BY <1>7, <2>2 DEF InInv, SideInv, SideShape
      <3>2. /\ Names(up, n, x) /\ EntryNames(evq, n, x) /\ (Busy(n) => calls[n].msg = x)
            /\ AckOk(writes, n) \/ AckOk(chain, n) => Kept(x)
        BY <3>1 DEF InInv, SideInv, Matched
      <3>3. Kept(x) => Kept(x)'
        BY <1>6 DEF Keeps
      <3> QED
        BY <1>2, <1>9, <2>2, <3>1, <3>2, <3>3 DEF Busy
    <2> QED
      BY <2>1, <2>2
  <1>14. Active'
    BY <1>2 DEF InInv, SideInv, Active
  <1>15. Bare'
    BY <1>2 DEF InInv, SideInv, Bare, Sidecar, Busy
  <1> QED
    BY <1>6, <1>10, <1>11, <1>12, <1>13, <1>14, <1>15 DEF InInv, SideInv

\* An acknowledgement reaches its waiter, or ends the process.
LEMMA HandleAckKeeps ==
    ASSUME InInv, chain # <<>>, Head(chain).t = "ack", node \in {"up", "leaving", "eof"},
           HandleAck(Head(chain)), chain' = Tail(chain), UNCHANGED up,
           UNCHANGED <<sdk, abandoned, sessVars, kind, row, inq, held, missed,
                             jobs, calls, bridge, faults>>,
           SideOnly
    PROVE  InInv'
  <1>1. UNCHANGED <<sup, writes, evq, ids, up, abandoned, source>>
    BY DEF sessVars, SideOnly
  <1>2. PICK e \in FrameSet : e = Head(chain) /\ e.t = "ack" /\ e.id \in Slots
    <2>1. Head(chain) \in FrameSet
      BY DEF InInv, SideInv, SideShape
    <2> QED
      BY <2>1, FrameFields
  <1>3. /\ chain' \in Seq(FrameSet) /\ ~ Ack(chain', e.id) /\ OneAck(chain')
        /\ \A n : Ack(chain, n) <=> Ack(chain', n) \/ e.id = n
        /\ \A n : AckOk(chain', n) => AckOk(chain, n)
        /\ e.v = "ok" => AckOk(chain, e.id)
    <2>1. chain \in Seq(FrameSet) /\ OneAck(chain)
      BY DEF InInv, SideInv, SideShape, Once
    <2>2. Loses(chain, e, chain')
      BY <1>2, <2>1, FrameTaken
    <2> QED
      BY <1>2, <2>1, <2>2 DEF Loses
  <1>4. /\ ~ Event(up, e.id) /\ ~ Entry(evq, e.id) /\ ~ Busy(e.id) /\ ~ Ack(writes, e.id)
    BY <1>2, <1>3 DEF InInv, SideInv, Once
  <1>5. /\ pending' \in [Slots -> Msgs \cup {None}]
        /\ \A n \in Slots : pending'[n] # None => pending'[n] = pending[n]
        /\ \A n \in Slots \ {e.id} : pending'[n] = pending[n]
    BY <1>2 DEF HandleAck, InInv, SideInv, SideShape
  <1>6. \A m \in told' : m \in Msgs /\ Kept(m)
    <2>1. CASE told' = told
      BY <2>1 DEF InInv, IntakeInv, IntakeShape, ToldIsKept
    <2>2. CASE told' # told
      <3>1. pending[e.id] # None /\ e.v = "ok" /\ told' = told \cup {pending[e.id]}
        BY <1>2, <2>2 DEF HandleAck
      <3>2. pending[e.id] \in Msgs /\ Kept(pending[e.id])
        BY <1>2, <1>3, <3>1 DEF InInv, SideInv, SideShape, Matched
      <3> QED
        BY <3>1, <3>2 DEF InInv, IntakeInv, IntakeShape, ToldIsKept
    <2> QED
      BY <2>1, <2>2
  <1>7. IntakeInv' /\ Keeps
    BY <1>6, CallsShift DEF InInv, IntakeInv, IntakeShape
  <1>8. node' \in {node, "dead"}
    BY DEF HandleAck
  <1>9. SideShape'
    BY <1>1, <1>3, <1>5 DEF InInv, SideInv, SideShape
  <1>10. Once'
    BY <1>1, <1>3 DEF InInv, SideInv, Once, Busy
  <1>11. Awaited'
    <2> SUFFICES ASSUME node' \in {"boot", "starting", "up"}, NEW n \in Slots, OnItsWay(n)'
                 PROVE  pending'[n] # None \/ n \in abandoned'
      BY DEF Awaited
    <2>1. n # e.id
      BY <1>1, <1>3, <1>4 DEF OnItsWay, Busy
    <2>2. OnItsWay(n)
      BY <1>1, <1>3 DEF OnItsWay, Busy
    <2> QED
      BY <1>1, <1>5, <1>8, <2>1, <2>2 DEF InInv, SideInv, Awaited
  <1>12. Matched'
    <2> SUFFICES ASSUME NEW n \in Slots, pending'[n] # None
                 PROVE  /\ Names(up', n, pending'[n]) /\ EntryNames(evq', n, pending'[n])
                        /\ Busy(n)' => calls'[n].msg = pending'[n]
                        /\ AckOk(writes', n) \/ AckOk(chain', n) => Kept(pending[n])'
      BY DEF Matched
    <2>1. PICK x \in Msgs : pending[n] = x /\ pending'[n] = x
      BY <1>5 DEF InInv, SideInv, SideShape
    <2>2. /\ Names(up, n, x) /\ EntryNames(evq, n, x) /\ (Busy(n) => calls[n].msg = x)
          /\ AckOk(writes, n) \/ AckOk(chain, n) => Kept(x)
      BY <2>1 DEF InInv, SideInv, Matched
    <2>3. Kept(x) => Kept(x)'
      BY <1>7 DEF Keeps
    <2> QED
      BY <1>1, <1>3, <2>1, <2>2, <2>3 DEF Busy
  <1>13. Active' /\ Bare'
    BY <1>1, <1>8 DEF InInv, SideInv, Active, Bare, Sidecar, Busy
  <1> QED
    BY <1>7, <1>9, <1>10, <1>11, <1>12, <1>13 DEF InInv, SideInv

\* handleFrame.
LEMMA NodeHandlesKeeps ==
    ASSUME InInv, NodeHandles, SideOnly
    PROVE  InInv'
  <1>1. /\ UNCHANGED <<kind, row, inq, held, missed, bridge, jobs, calls, source>>
        /\ UNCHANGED <<sup, writes, evq, ids, abandoned>> /\ chain # <<>> /\ chain' = Tail(chain)
    BY DEF NodeHandles, SideOnly, sessVars
  <1>2. Less(chain, chain') /\ Less(up, up)
    BY <1>1, PipesStay DEF InInv
  <1>3. CASE node = "boot" /\ node' = "starting" /\ UNCHANGED <<pending, up, told>>
    <2>1. sup \notin {"spawn", "backoff", "ended"}
      BY <1>3 DEF InInv, SideInv, Bare
    <2> QED
      BY <1>1, <1>2, <1>3, <2>1, NodeKeeps DEF InInv, SideInv, SideShape
  <1>4. CASE node \in {"up", "leaving", "eof"} /\ Head(chain).t = "ack" /\ HandleAck(Head(chain))
             /\ UNCHANGED up
    BY <1>1, <1>4, HandleAckKeeps DEF NodeHandles
  <1>5. CASE /\ node \in {"up", "leaving"} /\ node' = "leaving" /\ pending' = NoIds
             /\ up' = up \o (IF Fits(1) THEN <<Frame("response", 0, "shutdown")>> ELSE <<>>)
                         \o (IF Fits(2) THEN <<State("stopped")>> ELSE <<>>)
             /\ UNCHANGED told
    <2>1. up \in Seq(FrameSet)
      BY DEF InInv, SideInv, SideShape
    <2>2. Less(up, up')
      <3> DEFINE a == Frame("response", 0, "shutdown")
                 b == State("stopped")
      <3>1. a \in PlainFrames /\ b \in PlainFrames
        BY DEF Frame, State, PlainFrames
      <3>2. Less(up, up) /\ Less(up, Append(up, a)) /\ Less(up, Append(up, b))
        BY <2>1, <3>1, LessPlain, LessSame
      <3>3. Append(up, a) \in Seq(FrameSet)
        BY <3>2 DEF Less
      <3>4. Less(Append(up, a), Append(Append(up, a), b))
        BY <3>1, <3>3, LessPlain
      <3>5. Less(up, Append(Append(up, a), b))
        BY <3>2, <3>4, LessTrans
      <3>6. \/ up' = up \o <<a>> \o <<b>> \/ up' = up \o <<a>> \o <<>>
            \/ up' = up \o <<>> \o <<b>> \/ up' = up \o <<>> \o <<>>
        BY <1>5
      <3>7. a \in FrameSet /\ b \in FrameSet
        BY <3>1 DEF FrameSet
      <3> HIDE DEF a, b
      <3>8. /\ up \o <<a>> \o <<b>> = Append(Append(up, a), b)
             /\ up \o <<a>> \o <<>> = Append(up, a)
            /\ up \o <<>> \o <<b>> = Append(up, b) /\ up \o <<>> \o <<>> = up
        BY <2>1, <3>7
      <3> QED
        BY <3>2, <3>5, <3>6, <3>8
    <2>3. sup \notin {"spawn", "backoff", "ended"}
      BY <1>5 DEF InInv, SideInv, Bare
    <2>4. pending' \in [Slots -> Msgs \cup {None}] /\ \A i \in Slots : pending'[i] = None
      BY <1>5, PipesStay DEF InInv
    <2> QED
      BY <1>1, <1>2, <1>5, <2>2, <2>3, <2>4, NodeKeeps DEF InInv, SideInv, SideShape
  <1> QED
    BY <1>3, <1>4, <1>5 DEF NodeHandles

\* Every step of Node.
LEMMA NodeProcessKeeps ==
    ASSUME InInv, NodeProcess
    PROVE  InInv'
  BY NodeHandlesKeeps, ConfiguredKeeps, ConnectsKeeps, AckTimeoutKeeps, NodeExitsKeeps
     DEF NodeProcess, NodeStep, NodeFault

(***************************************************************************)
(* Steps of the event worker, the writer and the session.                  *)
(***************************************************************************)

\* What a step that moves one event from place to place has to show.
LEMMA Passed ==
    ASSUME InInv, IntakeInv', Keeps, SideShape', Once', Active', Bare',
           node' \in {"boot", "starting", "up"} => node \in {"boot", "starting", "up"},
           UNCHANGED <<pending, abandoned>>,
           \A i \in Slots : OnItsWay(i)' => OnItsWay(i),
           \A i \in Slots, m \in Msgs :
             /\ Names(up, i, m) => Names(up', i, m)
             /\ Names(up, i, m) /\ EntryNames(evq, i, m) => EntryNames(evq', i, m)
             /\ EntryNames(evq, i, m) /\ (Busy(i) => calls[i].msg = m) =>
                  (Busy(i)' => calls'[i].msg = m)
             /\ AckOk(writes, i) \/ AckOk(chain, i) \/ (Busy(i) /\ calls[i].at = "ok") 
                  \/ ~ (AckOk(writes', i) \/ AckOk(chain', i))
    PROVE  InInv'
  <1>1. Awaited'
    BY DEF InInv, SideInv, Awaited
  <1>2. Matched'
    <2> SUFFICES ASSUME NEW n \in Slots, pending'[n] # None
                 PROVE  /\ Names(up', n, pending'[n]) /\ EntryNames(evq', n, pending'[n])
                        /\ Busy(n)' => calls'[n].msg = pending'[n]
                        /\ AckOk(writes', n) \/ AckOk(chain', n) => Kept(pending[n])'
      BY DEF Matched
    <2>1. PICK x \in Msgs : pending[n] = x /\ pending'[n] = x
      BY DEF InInv, SideInv, SideShape
    <2>2. /\ Names(up, n, x) /\ EntryNames(evq, n, x) /\ (Busy(n) => calls[n].msg = x)
          /\ AckOk(writes, n) \/ AckOk(chain, n) => Kept(x)
      BY <2>1 DEF InInv, SideInv, Matched
    <2>3. Kept(x) => Kept(x)'
      BY DEF Keeps
    <2>4. Busy(n) /\ calls[n].at = "ok" => Kept(x)
      BY <2>2 DEF InInv, IntakeInv, OkIsKept
    <2> QED
      BY <2>1, <2>2, <2>3, <2>4
  <1> QED
    BY <1>1, <1>2 DEF InInv, SideInv

\* A call that begins.
LEMMA BegunIs ==
    ASSUME NEW m \in Msgs
    PROVE  Begun(m) \in CallSet /\ Begun(m).msg = m /\ Begun(m).at = "normalize"
  BY NoCallIs DEF Begun, CallSet, NoCall

\* process_event starts: from the queue to a handler.
LEMMA WorkerTakesKeeps ==
    ASSUME InInv, WorkerTakes, SideOnly
    PROVE  InInv'
  <1>1. /\ UNCHANGED <<kind, row, inq, held, missed, bridge, told, jobs, source>>
        /\ UNCHANGED <<sup, writes, ids, up, chain, pending, abandoned, node>>
        /\ evq # <<>> /\ evq' = Tail(evq)
    BY DEF WorkerTakes, SideOnly, procVars
  <1>2. PICK e \in EntrySet : e = Head(evq)
    BY <1>1 DEF InInv, SideInv, SideShape
  <1>3. /\ evq' \in Seq(EntrySet)
        /\ \A i : Entry(evq, i) <=> Entry(evq', i) \/ e.id = i
        /\ \A i, m : EntryNames(evq, i, m) <=> EntryNames(evq', i, m) /\ (e.id = i => e.msg = m)
        /\ OneEntry(evq') /\ ~ Entry(evq', e.id)
    <2>1. evq \in Seq(EntrySet) /\ OneEntry(evq)
      BY DEF InInv, SideInv, SideShape, Once
    <2>2. EntryLoses(evq, e, evq')
      BY <1>1, <1>2, <2>1, EntryTaken
    <2> QED
      BY <2>1, <2>2 DEF EntryLoses
  <1>4. e.id \in Slots /\ e.msg \in Msgs
    BY DEF EntrySet
  <1>5. /\ Become(e.id, Begun(e.msg)) /\ Begun(e.msg) \in CallSet /\ Begun(e.msg).msg = e.msg
        /\ Begun(e.msg).at = "normalize"
    BY <1>2, <1>4, BegunIs DEF WorkerTakes
  <1>6. IntakeInv' /\ Keeps
    BY <1>1, <1>4, <1>5, OneCall DEF InInv, IntakeInv, IntakeShape
  <1>7. /\ Busy(e.id)' /\ calls'[e.id].msg = e.msg
        /\ \A i \in Slots \ {e.id} : calls'[i] = calls[i]
    BY <1>4, <1>5 DEF Become, Busy, InInv, IntakeInv, IntakeShape
  <1>8. SideShape'
    BY <1>1, <1>3 DEF InInv, SideInv, SideShape
  <1>9. Once'
    BY <1>1, <1>3, <1>4, <1>7 DEF InInv, SideInv, Once, Busy
  <1>10. Active' /\ Bare'
    BY <1>1, <1>3 DEF InInv, SideInv, Active, Bare, Sidecar, Busy
  <1>11. \A i \in Slots : OnItsWay(i)' => OnItsWay(i)
    BY <1>1, <1>3, <1>7 DEF OnItsWay, Busy
  <1> QED
    BY <1>1, <1>3, <1>6, <1>7, <1>8, <1>9, <1>10, <1>11, Passed DEF Busy

\* A completion is answered: from a handler to the writer.
LEMMA WorkerAnswersKeeps ==
    ASSUME InInv, NEW i \in Slots, WorkerAnswers(i), Sidecar, SideOnly
    PROVE  InInv'
  <1>1. /\ UNCHANGED <<kind, row, inq, held, missed, bridge, told, source>>
        /\ UNCHANGED <<sup, up, chain, pending, abandoned, node>>
        /\ calls[i].at \in {"ok", "failed"}
    BY DEF WorkerAnswers, SideOnly, procVars
  <1>2. CASE Len(writes) < WriteCap
    <2>1. /\ writes' = Append(writes, Frame("ack", i, calls[i].at)) /\ ids' = ids \ {i}
          /\ Become(i, NoCall) /\ UNCHANGED <<evq, jobs>>
      BY <1>2 DEF WorkerAnswers
    <2>2. PICK e \in FrameSet : /\ e.t = "ack" /\ e.id = i /\ e.v = calls[i].at
                                /\ writes' = Append(writes, e)
      <3>1. Frame("ack", i, calls[i].at) \in AckFrames
        BY <1>1 DEF Frame, AckFrames
      <3> QED
        BY <2>1, <3>1 DEF Frame, FrameSet
    <2>3. Busy(i) /\ ~ Entry(evq, i) /\ ~ Ack(writes, i) /\ ~ Ack(chain, i) /\ ~ Event(up, i)
      BY <1>1 DEF Busy, InInv, SideInv, Once
    <2>4. /\ writes' \in Seq(FrameSet) /\ OneAck(writes')
          /\ \A n : Ack(writes', n) <=> Ack(writes, n) \/ i = n
          /\ \A n : AckOk(writes', n) <=> AckOk(writes, n) \/ (i = n /\ e.v = "ok")
      <3>1. writes \in Seq(FrameSet) /\ OneAck(writes)
        BY DEF InInv, SideInv, SideShape, Once
      <3>2. Gains(writes, e, writes')
        BY <2>2, <3>1, FrameAppended
      <3> QED
        BY <2>2, <2>3, <3>1, <3>2 DEF Gains
    <2>5. IntakeInv' /\ Keeps
      BY <1>1, <2>1, OneCall, NoCallIs DEF InInv, IntakeInv, IntakeShape
    <2>6. ~ Busy(i)' /\ \A n \in Slots \ {i} : calls'[n] = calls[n]
      BY <2>1, NoCallIs DEF Become, Busy, InInv, IntakeInv, IntakeShape
    <2>7. SideShape'
      BY <1>1, <2>1, <2>4 DEF InInv, SideInv, SideShape
    <2>8. Once'
      BY <1>1, <2>1, <2>3, <2>4, <2>6 DEF InInv, SideInv, Once, Busy
    <2>9. Active' /\ Bare'
      BY <1>1, <2>1, <2>3, <2>6 DEF InInv, SideInv, Active, Bare, Sidecar, Busy
    <2>10. \A n \in Slots : OnItsWay(n)' => OnItsWay(n)
      BY <1>1, <2>1, <2>3, <2>4, <2>6 DEF OnItsWay, Busy
    <2> QED
      BY <1>1, <2>1, <2>2, <2>3, <2>4, <2>5, <2>6, <2>7, <2>8, <2>9, <2>10, Passed DEF Busy
  <1>3. CASE ~ (Len(writes) < WriteCap)
    <2>1. /\ ids' = {} /\ evq' = <<>> /\ jobs' = Left(Slots) /\ calls' = Dropped(Slots)
          /\ UNCHANGED writes
      BY <1>3 DEF WorkerAnswers
    <2>2. /\ IntakeInv' /\ Keeps
          /\ \A n \in Slots : Busy(n)' => Busy(n) /\ calls'[n].msg = calls[n].msg
          /\ \A n \in Slots : ~ Busy(n)'
      BY <1>1, <2>1, TaskCalls DEF InInv
    <2>3. /\ Less(up, up') /\ Less(writes, writes') /\ Less(chain, chain') /\ LessQueued(evq, evq')
      BY <1>1, <2>1, PipesStay DEF InInv
    <2>4. Bare'
      BY <1>1, <2>1, <2>2 DEF InInv, SideInv, Bare, Sidecar
    <2>5. \A n \in Slots : ~ Entry(evq', n)
      BY <2>1 DEF Entry
    <2> QED
      BY <1>1, <2>1, <2>2, <2>3, <2>4, <2>5, SideShrinks DEF InInv, SideInv, SideShape
  <1> QED
    BY <1>2, <1>3

\* write_loop: from the writer to Node.
LEMMA WriterSendsKeeps ==
    ASSUME InInv, WriterSends, SideOnly
    PROVE  InInv'
  <1>1. /\ UNCHANGED <<kind, row, inq, held, missed, bridge, told, jobs, calls, source>>
        /\ UNCHANGED <<sup, evq, ids, up, pending, abandoned, node>>
        /\ node \in {"boot", "starting", "up", "leaving"}
        /\ writes # <<>> /\ writes' = Tail(writes) /\ chain' = Append(chain, Head(writes))
    BY DEF WriterSends, SideOnly, intakeVars
  <1>2. /\ writes \in Seq(FrameSet) /\ OneAck(writes) /\ chain \in Seq(FrameSet) /\ OneAck(chain)
    BY DEF InInv, SideInv, SideShape, Once
  <1>3. PICK e \in FrameSet : e = Head(writes)
    BY <1>1, <1>2
  <1>4. /\ writes' \in Seq(FrameSet) /\ OneAck(writes') /\ (e.t = "ack" => ~ Ack(writes', e.id))
        /\ \A n : Ack(writes, n) <=> Ack(writes', n) \/ (e.t = "ack" /\ e.id = n)
        /\ \A n : AckOk(writes, n) <=>
                  AckOk(writes', n) \/ (e.t = "ack" /\ e.id = n /\ e.v = "ok")
    <2>1. Loses(writes, e, writes')
      BY <1>1, <1>2, <1>3, FrameTaken
    <2> QED
      BY <1>2, <2>1 DEF Loses
  <1>5. /\ chain' \in Seq(FrameSet)
        /\ OneAck(chain) /\ (e.t = "ack" => ~ Ack(chain, e.id)) => OneAck(chain')
        /\ \A n : Ack(chain', n) <=> Ack(chain, n) \/ (e.t = "ack" /\ e.id = n)
        /\ \A n : AckOk(chain', n) <=>
                  AckOk(chain, n) \/ (e.t = "ack" /\ e.id = n /\ e.v = "ok")
    <2>1. Gains(chain, e, chain')
      BY <1>1, <1>2, <1>3, FrameAppended
    <2> QED
      BY <2>1 DEF Gains
  <1>6. e.t = "ack" => e.id \in Slots /\ ~ Ack(chain, e.id)
    BY <1>3, <1>4, FrameFields DEF InInv, SideInv, Once
  <1>7. IntakeInv' /\ Keeps
    BY <1>1, TaskCalls DEF InInv
  <1>8. SideShape'
    BY <1>1, <1>4, <1>5 DEF InInv, SideInv, SideShape
  <1>9. Once'
    BY <1>1, <1>2, <1>4, <1>5, <1>6 DEF InInv, SideInv, Once, Busy
  <1>10. Active' /\ Bare'
    BY <1>1 DEF InInv, SideInv, Active, Bare, Sidecar, Busy
  <1>11. \A n \in Slots : OnItsWay(n)' => OnItsWay(n)
    BY <1>1, <1>4, <1>5 DEF OnItsWay, Busy
  <1> QED
    BY <1>1, <1>4, <1>5, <1>7, <1>8, <1>9, <1>10, <1>11, Passed DEF Busy

\* A step of the session that admits no event and leaves Node's process alone.
LEMMA SessionKeeps ==
    ASSUME InInv, UNCHANGED <<kind, row, inq, held, missed, bridge, told, source>>,
           UNCHANGED <<node, chain, pending, abandoned>>,
           \/ UNCHANGED <<jobs, calls, evq, ids>>
           \/ jobs' = Left(Slots) /\ calls' = Dropped(Slots) /\ evq' = <<>> /\ ids' = {},
           Less(up, up'), Less(writes, writes'),
           sup \notin {"spawn", "backoff", "ended"}, sup' \notin {"spawn", "backoff", "ended"}
    PROVE  InInv'
  <1>1. /\ IntakeInv' /\ Keeps
        /\ \A i \in Slots : Busy(i)' => Busy(i) /\ calls'[i].msg = calls[i].msg
    BY TaskCalls DEF InInv
  <1>2. Less(chain, chain') /\ LessQueued(evq, evq')
    BY PipesStay DEF InInv
  <1>3. Bare'
    BY DEF InInv, SideInv, Bare, Sidecar
  <1>4. \A i \in Slots : Entry(evq', i) /\ i \in ids => i \in ids'
    BY DEF Entry
  <1>5. SideInv'
    BY <1>1, <1>2, <1>3, <1>4, SideShrinks DEF InInv, SideInv, SideShape
  <1> QED
    BY <1>1, <1>5 DEF InInv

\* A session ends, one way or the other.
LEMMA EndsKeeps ==
    ASSUME InInv, UNCHANGED <<kind, row, inq, held, missed, bridge, told, source>>,
           UNCHANGED <<node, chain, pending, abandoned>>, Less(up, up'),
           sup \notin {"spawn", "backoff", "ended"},
           \/ BootFails("start") \/ BootFails("auth")
           \/ Leaves("crash") \/ Leaves("fatal") \/ Leaves("shutdown")
    PROVE  InInv'
  <1>1. Less(writes, writes) /\ Less(writes, <<>>)
    BY PipesStay DEF InInv
  <1> QED
    BY <1>1, SessionKeeps DEF BootFails, Leaves

\* The next line of stdout.
LEMMA ReadsIs ==
    ASSUME InInv, NEW f, Reads(f), SideOnly
    PROVE  /\ UNCHANGED <<kind, row, inq, held, missed, bridge, told, source>>
           /\ UNCHANGED <<node, chain, pending, abandoned>>
           /\ up # <<>> /\ up' = Tail(up) /\ f = Head(up) /\ f \in FrameSet /\ Less(up, up')
           /\ sup \notin {"spawn", "backoff", "ended"}
  <1>1. up # <<>> /\ up' = Tail(up) /\ f = Head(up)
    BY DEF Reads
  <1>2. Less(up, up')
    BY <1>1, PipesStay DEF InInv
  <1>3. f \in FrameSet
    BY <1>1 DEF InInv, SideInv, SideShape
  <1>4. sup \notin {"spawn", "backoff", "ended"}
    BY <1>1 DEF InInv, SideInv, Bare
  <1> QED
    BY <1>1, <1>2, <1>3, <1>4 DEF Reads, SideOnly

\* An event that is read goes to the queue, or is refused: from stdout to either.
LEMMA AdmittedKeeps ==
    ASSUME InInv, up # <<>>, Head(up).t = "event", up' = Tail(up),
           UNCHANGED <<kind, row, inq, held, missed, bridge, told, source,
                        node, chain, pending, abandoned>>,
           UNCHANGED <<sup, jobs, calls>>,
           \/ /\ Head(up).id \notin ids
              /\ evq' = Append(evq, [id |-> Head(up).id, msg |-> Head(up).v])
              /\ ids' = ids \cup {Head(up).id} /\ UNCHANGED writes
           \/ writes' = Append(writes, Frame("ack", Head(up).id, "failed"))
               /\ UNCHANGED <<evq, ids>>
    PROVE  InInv'
  <1>1. PICK f \in FrameSet : f = Head(up) /\ f.t = "event"
    BY DEF InInv, SideInv, SideShape
  <1>2. f.id \in Slots /\ f.v \in Msgs
    BY <1>1, FrameFields
  <1>3. /\ up' \in Seq(FrameSet) /\ OneEvent(up') /\ ~ Event(up', f.id)
        /\ \A n : Event(up, n) <=> Event(up', n) \/ f.id = n
        /\ \A n, x : Names(up, n, x) <=> Names(up', n, x) /\ (f.id = n => f.v = x)
    <2>1. up \in Seq(FrameSet) /\ OneEvent(up)
      BY DEF InInv, SideInv, SideShape, Once
    <2>2. Loses(up, f, up')
      BY <1>1, <2>1, FrameTaken
    <2> QED
      BY <1>1, <2>1, <2>2 DEF Loses
  <1>4. ~ Entry(evq, f.id) /\ ~ Busy(f.id) /\ ~ Ack(writes, f.id) /\ ~ Ack(chain, f.id)
    BY <1>2, <1>3 DEF InInv, SideInv, Once
  <1>5. IntakeInv' /\ Keeps
    BY TaskCalls DEF InInv
  <1>6. sup \notin {"spawn", "backoff", "ended"}
    BY DEF InInv, SideInv, Bare
  <1>7. Bare'
    BY <1>6 DEF InInv, SideInv, Bare, Sidecar, Busy
  <1>8. CASE /\ evq' = Append(evq, [id |-> f.id, msg |-> f.v])
             /\ ids' = ids \cup {f.id} /\ UNCHANGED writes
    <2>1. PICK e \in EntrySet : e.id = f.id /\ e.msg = f.v /\ evq' = Append(evq, e)
      BY <1>2, <1>8 DEF EntrySet
    <2>2. /\ evq' \in Seq(EntrySet) /\ OneEntry(evq')
          /\ \A n : Entry(evq', n) <=> Entry(evq, n) \/ f.id = n
          /\ \A n, x : EntryNames(evq', n, x) <=> EntryNames(evq, n, x) /\ (f.id = n => f.v = x)
      <3>1. evq \in Seq(EntrySet) /\ OneEntry(evq)
        BY DEF InInv, SideInv, SideShape, Once
      <3>2. EntryGains(evq, e, evq')
        BY <2>1, <3>1, EntryAppended
      <3> QED
        BY <1>4, <2>1, <3>1, <3>2 DEF EntryGains
    <2>3. SideShape'
      BY <1>2, <1>3, <1>8, <2>2 DEF InInv, SideInv, SideShape
    <2>4. Once'
      BY <1>3, <1>4, <1>8, <2>2 DEF InInv, SideInv, Once, Busy
    <2>5. Active'
      BY <1>8, <2>2 DEF InInv, SideInv, Active
    <2>6. \A n \in Slots : OnItsWay(n)' => OnItsWay(n)
      BY <1>3, <1>8, <2>2 DEF OnItsWay, Busy
    <2> QED
      BY <1>3, <1>5, <1>7, <1>8, <2>2, <2>3, <2>4, <2>5, <2>6, Passed DEF Busy
  <1>9. CASE writes' = Append(writes, Frame("ack", f.id, "failed")) /\ UNCHANGED <<evq, ids>>
    <2>1. PICK e \in FrameSet : /\ e.t = "ack" /\ e.id = f.id /\ e.v = "failed"
                                /\ writes' = Append(writes, e)
      <3>1. Frame("ack", f.id, "failed") \in AckFrames
        BY <1>2 DEF Frame, AckFrames
      <3> QED
        BY <1>9, <3>1 DEF Frame, FrameSet
    <2>2. /\ writes' \in Seq(FrameSet) /\ OneAck(writes')
          /\ \A n : Ack(writes', n) <=> Ack(writes, n) \/ f.id = n
          /\ \A n : AckOk(writes', n) <=> AckOk(writes, n)
      <3>1. writes \in Seq(FrameSet) /\ OneAck(writes)
        BY DEF InInv, SideInv, SideShape, Once
      <3>2. Gains(writes, e, writes')
        BY <2>1, <3>1, FrameAppended
      <3> QED
        BY <1>4, <2>1, <3>1, <3>2 DEF Gains
    <2>3. SideShape'
      BY <1>3, <1>9, <2>2 DEF InInv, SideInv, SideShape
    <2>4. Once'
      BY <1>3, <1>4, <1>9, <2>2 DEF InInv, SideInv, Once, Busy
    <2>5. Active'
      BY <1>9 DEF InInv, SideInv, Active
    <2>6. \A n \in Slots : OnItsWay(n)' => OnItsWay(n)
      BY <1>3, <1>9, <2>2 DEF OnItsWay, Busy
    <2> QED
      BY <1>3, <1>5, <1>7, <1>9, <2>2, <2>3, <2>4, <2>5, <2>6, Passed DEF Busy
  <1> QED
    BY <1>1, <1>8, <1>9

\* handle_line of an event.
LEMMA ReadEventKeeps ==
    ASSUME InInv, ReadEvent, SideOnly
    PROVE  InInv'
  <1>1. /\ UNCHANGED <<kind, row, inq, held, missed, bridge, told, source>>
        /\ UNCHANGED <<node, chain, pending, abandoned>>
        /\ up # <<>> /\ up' = Tail(up) /\ Less(up, up') /\ Head(up).t = "event"
        /\ sup \notin {"spawn", "backoff", "ended"} /\ EventIn(Head(up))
    BY ReadsIs DEF ReadEvent
  <1>2. CASE Breaks
    BY <1>1, <1>2, EndsKeeps DEF Breaks
  <1>3. CASE ~ Breaks
    <2>1. /\ UNCHANGED <<sup, jobs, calls>>
          /\ \/ /\ Head(up).id \notin ids
                /\ evq' = Append(evq, [id |-> Head(up).id, msg |-> Head(up).v])
                /\ ids' = ids \cup {Head(up).id} /\ UNCHANGED writes
             \/ writes' = Append(writes, Frame("ack", Head(up).id, "failed"))
                 /\ UNCHANGED <<evq, ids>>
      BY <1>1, <1>3 DEF EventIn
    <2> QED
      BY <1>1, <2>1, AdmittedKeeps
  <1> QED
    BY <1>2, <1>3

\* handle_line of everything else.
LEMMA ReadPlainKeeps ==
    ASSUME InInv, ReadHello \/ ReadResponse \/ ReadState, SideOnly
    PROVE  InInv'
  <1>1. /\ UNCHANGED <<kind, row, inq, held, missed, bridge, told, source>>
        /\ UNCHANGED <<node, chain, pending, abandoned>> /\ Less(up, up')
        /\ sup \notin {"spawn", "backoff", "ended"}
    BY ReadsIs DEF ReadHello, ReadResponse, ReadState
  <1>2. Less(writes, writes) /\ writes \in Seq(FrameSet)
    BY PipesStay DEF InInv, SideInv, SideShape
  <1>3. CASE ReadHello
    <2>1. Frame("configure", 0, None) \in PlainFrames
      BY DEF Frame, PlainFrames
    <2>2. Less(writes, writes')
      BY <1>2, <1>3, <2>1, LessPlain DEF ReadHello
    <2> QED
      BY <1>1, <1>3, <2>2, SessionKeeps DEF ReadHello
  <1>4. CASE ReadResponse
    BY <1>1, <1>2, <1>4, SessionKeeps DEF ReadResponse
  <1>5. CASE ReadState
    <2>1. CASE UNCHANGED <<writes, evq, ids, jobs, calls>> /\ sup' \in {"run", sup}
      BY <1>1, <1>2, <2>1, SessionKeeps
    <2>2. CASE ~ (UNCHANGED <<writes, evq, ids, jobs, calls>> /\ sup' \in {"run", sup})
      <3>1. \/ BootFails("start") \/ BootFails("auth")
            \/ Leaves("crash") \/ Leaves("fatal")
        BY <1>5, <2>2 DEF ReadState, Listening, Breaks, Stays
      <3> QED
        BY <1>1, <3>1, EndsKeeps
    <2> QED
      BY <2>1, <2>2
  <1> QED
    BY <1>3, <1>4, <1>5

\* The end of stdout, and the deadlines.
LEMMA EndsAllKeeps ==
    ASSUME InInv, SeesExit \/ BootTimeout \/ StopEnds, SideOnly
    PROVE  InInv'
  <1>1. /\ UNCHANGED <<kind, row, inq, held, missed, bridge, told, source>>
        /\ UNCHANGED <<node, chain, pending, abandoned, up>>
    BY DEF SeesExit, BootTimeout, StopEnds, SideOnly, procVars
  <1>2. Less(up, up') /\ sup \notin {"spawn", "backoff", "ended"}
    BY <1>1, PipesStay DEF InInv, SeesExit, BootTimeout, StopEnds, Listening, Booting, Unannounced
  <1>3. BootFails("start") \/ Leaves("crash") \/ Leaves("shutdown")
    BY DEF SeesExit, BootTimeout, StopEnds, Breaks
  <1> QED
    BY <1>1, <1>2, <1>3, EndsKeeps

\* graceful_shutdown begins.
LEMMA BeginStopKeeps ==
    ASSUME InInv, BeginStop, SideOnly
    PROVE  InInv'
  <1>1. Frame("shutdown", 0, None) \in PlainFrames
    BY DEF Frame, PlainFrames
  <1>2. Less(up, up) /\ Less(writes, writes) /\ writes \in Seq(FrameSet)
    BY PipesStay DEF InInv, SideInv, SideShape
  <1>3. Less(writes, writes')
    BY <1>1, <1>2, LessPlain DEF BeginStop
  <1>4. /\ UNCHANGED <<kind, row, inq, held, missed, bridge, told, jobs, calls, source>>
        /\ UNCHANGED <<node, chain, pending, abandoned, up, evq, ids>>
        /\ sup = "run" /\ sup' \in {"stopping", "cleanup"}
    BY DEF BeginStop, SideOnly, procVars, intakeVars
  <1> QED
    BY <1>2, <1>3, <1>4, SessionKeeps

\* graceful_shutdown refuses what still arrives.
LEMMA ReadStoppingKeeps ==
    ASSUME InInv, ReadStopping, SideOnly
    PROVE  InInv'
  <1>1. /\ UNCHANGED <<kind, row, inq, held, missed, bridge, told, source>>
        /\ UNCHANGED <<node, chain, pending, abandoned>>
        /\ up # <<>> /\ up' = Tail(up) /\ Less(up, up')
        /\ sup \notin {"spawn", "backoff", "ended"}
        /\ UNCHANGED <<evq, ids, jobs, calls>>
    BY ReadsIs DEF ReadStopping
  <1>2. CASE UNCHANGED writes
    <2>1. Less(writes, writes')
      BY <1>2, PipesStay DEF InInv
    <2> QED
      BY <1>1, <2>1, SessionKeeps DEF ReadStopping
  <1>3. CASE ~ UNCHANGED writes
    <2>1. /\ Head(up).t = "event" /\ UNCHANGED sup
          /\ writes' = Append(writes, Frame("ack", Head(up).id, "failed"))
      BY <1>3 DEF ReadStopping
    <2> QED
      BY <1>1, <2>1, AdmittedKeeps
  <1> QED
    BY <1>2, <1>3

\* A process that is gone, or left to itself.
LEMMA LeftAlone ==
    ASSUME InInv, Reaped \/ Orphaned
    PROVE  /\ Less(chain, chain')
           /\ pending' \in [Slots -> Msgs \cup {None}] /\ abandoned' \subseteq Slots
           /\ \A i \in Slots : pending'[i] # None => pending'[i] = pending[i]
           /\ node' \in {"none", "eof"}
           /\ node' = "none" => chain' = <<>> /\ pending' = NoIds /\ abandoned' = {}
           /\ node = "none" => node' = "none"
  BY PipesStay DEF InInv, SideInv, SideShape, Reaped, Orphaned

\* terminate_and_reap, and the abort of the supervisor.
LEMMA ClearedKeeps ==
    ASSUME InInv, Freed, UNCHANGED <<kind, row, inq, held, missed, bridge, told, source>>, Sidecar,
           \/ Reaped /\ sup' \in {"backoff", "ended"}
           \/ Orphaned /\ sup' = "ended",
           bridge = "down" => sup' = "ended"
    PROVE  InInv'
  <1>1. /\ IntakeInv' /\ Keeps
        /\ \A i \in Slots : Busy(i)' => Busy(i) /\ calls'[i].msg = calls[i].msg
        /\ \A i \in Slots : ~ Busy(i)'
    BY TaskCalls DEF InInv, Freed
  <1>2. Less(up, up') /\ Less(writes, writes') /\ LessQueued(evq, evq')
    BY PipesStay DEF InInv, Freed
  <1>3. sup' = "backoff" => node' = "none"
    BY DEF Reaped
  <1>4. Bare'
    BY <1>1, <1>3, LeftAlone DEF InInv, SideInv, Bare, Sidecar, Freed, NoIds
  <1>5. \A i \in Slots : ~ Entry(evq', i)
    BY DEF Freed, Entry
  <1>6. SideInv'
    BY <1>1, <1>2, <1>4, <1>5, LeftAlone, SideShrinks DEF InInv, SideInv, SideShape, Freed
  <1> QED
    BY <1>1, <1>6 DEF InInv

\* A new process: nothing of the old one is left.
LEMMA SpawnKeeps ==
    ASSUME InInv, Spawn \/ Backoff, Sidecar, SideOnly
    PROVE  InInv'
  <1>1. /\ UNCHANGED <<kind, row, inq, held, missed, bridge, told, jobs, calls, source>>
        /\ UNCHANGED <<chain, pending, abandoned, writes, evq, ids>>
        /\ sup \in {"spawn", "backoff"}
        /\ \/ sup' \in {"ended", "backoff", "spawn"} /\ UNCHANGED <<node, up>>
           \/ sup' = "hello" /\ node' = "boot" /\ up' = <<Frame("hello", 0, None)>>
    BY DEF Spawn, Backoff, SideOnly, procVars, intakeVars
  <1>2. /\ up = <<>> /\ writes = <<>> /\ evq = <<>> /\ ids = {} /\ chain = <<>> /\ pending = NoIds
        /\ node = "none" /\ abandoned = {} /\ bridge # "down" /\ \A i \in Slots : ~ Busy(i)
    BY <1>1 DEF InInv, SideInv, Bare
  <1>3. IntakeInv' /\ Keeps
    BY <1>1, TaskCalls DEF InInv
  <1>4. Less(up, up')
    <2>1. CASE up' = <<Frame("hello", 0, None)>>
      <3> DEFINE e == Frame("hello", 0, None)
      <3>1. e \in PlainFrames
        BY DEF Frame, PlainFrames
      <3>2. e \in FrameSet
        BY <3>1 DEF FrameSet
      <3> HIDE DEF e
      <3>3. up' = Append(up, e)
        BY <1>2, <2>1, <3>2 DEF e
      <3> QED
        BY <3>1, <3>3, LessPlain DEF InInv, SideInv, SideShape
    <2> QED
      BY <1>1, <2>1, PipesStay DEF InInv
  <1>5. \A i \in Slots : ~ OnItsWay(i)'
    <2>1. \A i \in Slots : ~ OnItsWay(i)
      BY <1>2 DEF OnItsWay, Event, Entry, Ack
    <2> QED
      BY <1>1, <1>4, <2>1 DEF OnItsWay, Less, Busy
  <1>6. SideShape' /\ Active' /\ Once'
    BY <1>1, <1>4 DEF InInv, SideInv, SideShape, Active, Once, Less, Busy
  <1>7. Awaited' /\ Matched'
    <2>1. \A i \in Slots : pending'[i] = None
      BY <1>1, <1>2 DEF NoIds
    <2> QED
      BY <1>5, <2>1 DEF Awaited, Matched
  <1>8. Bare'
    BY <1>1, <1>2 DEF Bare, Sidecar, Busy, NoIds
  <1> QED
    BY <1>3, <1>6, <1>7, <1>8 DEF InInv, SideInv

\* Every step of the worker, the writer and the session.
LEMMA SessionStepKeeps ==
    ASSUME InInv, Session
    PROVE  InInv'
  <1>1. CASE WorkerStep
    BY <1>1, WorkerTakesKeeps, WorkerAnswersKeeps DEF Session, WorkerStep
  <1>2. CASE WriterSends
    BY <1>2, WriterSendsKeeps DEF Session
  <1>3. CASE Cleanup \/ Abort
    <2>1. /\ Freed /\ UNCHANGED <<kind, row, inq, held, missed, bridge, told, source>>
          /\ Sidecar /\ sup # "ended"
          /\ \/ Reaped /\ sup' \in {"backoff", "ended"}
             \/ Orphaned /\ sup' = "ended"
      BY <1>3 DEF Session, SideOnly, Cleanup, Abort, AfterCleanup, Booting
    <2>2. bridge # "down"
      BY <2>1 DEF InInv, SideInv, Bare
    <2> QED
      BY <2>1, <2>2, ClearedKeeps
  <1>4. CASE SessionStep /\ ~ Cleanup
    BY <1>4, ReadPlainKeeps, ReadEventKeeps, EndsAllKeeps, BeginStopKeeps, ReadStoppingKeeps,
        SpawnKeeps
       DEF Session, SessionStep
  <1>5. CASE BootTimeout
    BY <1>5, EndsAllKeeps DEF Session
  <1> QED
    BY <1>1, <1>2, <1>3, <1>4, <1>5 DEF Session

(***************************************************************************)
(* Steps of the socket, and of the process as a whole.                     *)
(***************************************************************************)

\* What is on the wire is about messages, and a bridge that is down has no session.
WireSet == [msg : Msgs, seq : Nat]
SockInv ==
  /\ wire \in Seq(WireSet)
  /\ ~ Sidecar /\ bridge = "down" => sock \in {"off", "ended"}

\* Without a sidecar nothing is in its pipes.
LEMMA SocketKeeps ==
    ASSUME InInv, IntakeInv', Keeps, ~ Sidecar, SockOnly,
           bridge' # "down" \/ \A i \in Slots : ~ Busy(i)'
    PROVE  InInv'
  <1>1. UNCHANGED <<up, writes, chain, evq, pending, ids, abandoned, node, sup, source>>
    BY DEF SockOnly, sideVars, procVars, sessVars
  <1>2. /\ up = <<>> /\ writes = <<>> /\ evq = <<>> /\ ids = {} /\ chain = <<>> /\ pending = NoIds
        /\ node = "none" /\ sup = "ended"
    BY DEF InInv, SideInv, Bare
  <1>3. \A i \in Slots : pending'[i] = None
    BY <1>1, <1>2 DEF NoIds
  <1>4. SideShape' /\ Awaited' /\ Matched' /\ Active' /\ Bare'
    BY <1>1, <1>2, <1>3
       DEF InInv, SideInv, SideShape, Awaited, Matched, Active, Bare, Sidecar, NoIds
  <1>5. Once'
    BY <1>1, <1>2 DEF Once, OneEvent, OneEntry, OneAck, Event, Entry, Ack
  <1> QED
    BY <1>4, <1>5 DEF InInv, SideInv

\* The slot of the inline handler.
LEMMA InlineIs == Inline \in Slots
  BY MinIn DEF Inline

\* A message that is complete goes to the handler; the receipt follows its outcome.
LEMMA SockReadKeeps ==
    ASSUME InInv, SockInv, SockRead, ~ Sidecar, SockOnly
    PROVE  InInv' /\ SockInv'
  <1>1. UNCHANGED <<kind, row, inq, held, missed, jobs, told, bridge, sock>> /\ UNCHANGED source
    BY DEF SockRead, SockOnly
  <1>2. PICK m \in Msgs : UNCHANGED calls \/ Become(Inline, Begun(m))
    <2>1. Head(wire) \in WireSet
      BY DEF SockInv, SockRead
    <2> QED
      BY <2>1 DEF SockRead, WireSet
  <1>3. IntakeInv' /\ Keeps
    <2>1. CASE UNCHANGED calls
      BY <1>1, <2>1, TaskCalls DEF InInv
    <2>2. CASE Become(Inline, Begun(m))
      <3>1. jobs' \subseteq JobSet
        BY <1>1 DEF InInv, IntakeInv, IntakeShape
      <3> QED
        BY <1>1, <2>2, <3>1, OneCall, BegunIs, InlineIs DEF InInv
    <2> QED
      BY <1>2, <2>1, <2>2
  <1>4. bridge' # "down"
    BY <1>1 DEF SockInv, SockRead
  <1>5. InInv'
    BY <1>3, <1>4, SocketKeeps
  <1>6. SockInv'
    BY <1>1 DEF SockInv, SockRead, Sidecar
  <1> QED
    BY <1>5, <1>6

\* build_receipt.
LEMMA SockReceiptKeeps ==
    ASSUME InInv, SockInv, SockReceipt, ~ Sidecar, SockOnly
    PROVE  InInv' /\ SockInv'
  <1>1. UNCHANGED <<kind, row, inq, held, missed, jobs, bridge, sock, wire, source>>
    BY DEF SockReceipt, SockOnly, sockVars
  <1>2. calls' \in [Slots -> CallSet]
        /\ \A i \in Slots : calls'[i] = calls[i] \/ calls'[i].at = "idle"
    BY NoCallIs, InlineIs DEF SockReceipt, Become, InInv, IntakeInv, IntakeShape
  <1>3. \A m \in told' : m \in Msgs /\ Kept(m)
    BY InlineIs DEF SockReceipt, At, InInv, IntakeInv, IntakeShape, ToldIsKept, OkIsKept, CallsNamed
  <1>4. IntakeInv' /\ Keeps
    BY <1>1, <1>2, <1>3, CallsShift DEF InInv, IntakeInv, IntakeShape
  <1>5. bridge' # "down"
    BY <1>1 DEF SockInv, SockReceipt
  <1> QED
    BY <1>1, <1>4, <1>5, SocketKeeps DEF SockInv, Sidecar

\* Every step of the transport actor.
LEMMA SocketStepKeeps ==
    ASSUME InInv, SockInv, Socket
    PROVE  InInv' /\ SockInv'
  <1>1. ~ Sidecar /\ SockOnly
    BY DEF Socket
  <1>2. CASE SockRead \/ SockReceipt
    BY <1>1, <1>2, SockReadKeeps, SockReceiptKeeps
  <1>3. CASE SockConnect \/ SockBackoff \/ SockPing \/ SockLeaves \/ SockAbort \/ LinkLost
             \/ FragmentAges
    <2>1. /\ UNCHANGED <<kind, row, inq, held, missed, told, bridge>>
          /\ \/ UNCHANGED <<jobs, calls>>
             \/ jobs' = Left(Slots) /\ calls' = Dropped(Slots)
      BY <1>3 DEF SockConnect, SockBackoff, SockPing, SockLeaves, SockAbort, LinkLost, FragmentAges,
                  intakeVars
    <2>2. /\ IntakeInv' /\ Keeps
          /\ \A i \in Slots : Busy(i)' => Busy(i)
      BY <2>1, TaskCalls DEF InInv
    <2>3. InInv'
      BY <1>1, <2>1, <2>2, SocketKeeps DEF InInv, SideInv, Bare
    <2>4. (wire' = wire \/ wire' = <<>>) /\ UNCHANGED source
      BY <1>1, <1>3 DEF SockConnect, Opened, SockBackoff, SockPing, SockLeaves, SockAbort, LinkLost,
                  FragmentAges, SockOnly
    <2>5. sock' = "ended" \/ sock' = sock \/ sock \in {"connecting", "session", "backoff"}
      BY <1>3 DEF SockConnect, SockBackoff, SockPing, SockLeaves, SockAbort, LinkLost, FragmentAges
    <2>6. wire' \in Seq(WireSet)
      <3>1. <<>> \in Seq(WireSet)
        OBVIOUS
      <3> QED
        BY <2>4, <3>1, Zenon DEF SockInv
    <2>7. SockInv'
      BY <2>1, <2>4, <2>5, <2>6 DEF SockInv, Sidecar
    <2> QED
      BY <2>3, <2>7
  <1> QED
    BY <1>2, <1>3 DEF Socket, SockStep

\* The platform offers a message.
LEMMA DeliverKeeps ==
    ASSUME InInv, SockInv, NEW m \in Msgs, NEW k \in Nat, Deliver(m, k)
    PROVE  InInv' /\ SockInv'
  <1>1. CASE Sidecar /\ Offer(m) /\ SideOnly
    <2>1. InInv'
      BY <1>1, OfferKeeps
    <2> QED
      BY <1>1, <2>1 DEF SockInv, SideOnly, sockVars, Offer, intakeVars, Sidecar
  <1>2. CASE ~ Sidecar /\ SockOffer(m, k) /\ SockOnly
    <2>1. UNCHANGED <<kind, row, inq, held, missed, told, bridge, jobs, calls, source, sock>>
      BY <1>2 DEF SockOffer, intakeVars, SockOnly
    <2>2. IntakeInv' /\ Keeps
      BY <2>1, TaskCalls DEF InInv
    <2>3. InInv'
      BY <1>2, <2>1, <2>2, SocketKeeps DEF InInv, SideInv, Bare, Busy
    <2>4. SockInv'
      BY <1>2, <2>1 DEF SockOffer, SockInv, WireSet, Sidecar
    <2> QED
      BY <2>3, <2>4
  <1> QED
    BY <1>1, <1>2 DEF Deliver

\* start_inbound.
LEMMA StartKeeps ==
    ASSUME InInv, SockInv, Start
    PROVE  InInv' /\ SockInv'
  <1>1. /\ UNCHANGED <<kind, row, held, missed, jobs, calls, told, source, wire>>
        /\ UNCHANGED <<up, writes, chain, evq, pending, ids, abandoned, node>>
        /\ bridge = "down" /\ node = "none" /\ Prepared
        /\ sup' = IF Sidecar THEN "spawn" ELSE sup
    BY DEF Start, procVars
  <1>2. IntakeInv' /\ Keeps
    BY <1>1, PreparedKeeps DEF InInv
  <1>3. bridge' \in {"up", "refused"}
    BY <1>1 DEF Prepared
  <1>4. Less(up, up') /\ Less(writes, writes') /\ Less(chain, chain') /\ LessQueued(evq, evq')
    BY <1>1, PipesStay DEF InInv
  <1>5. Bare'
    BY <1>1, <1>3 DEF InInv, SideInv, Bare, Sidecar, Busy, NoIds
  <1>6. SideInv'
    BY <1>1, <1>2, <1>4, <1>5, SideShrinks DEF InInv, SideInv, SideShape, Busy
  <1> QED
    BY <1>1, <1>2, <1>3, <1>6 DEF InInv, SockInv

\* The bridge closes, goes down, or crashes.
LEMMA CloseDownKeeps ==
    ASSUME InInv, SockInv, Close \/ Down \/ Crash
    PROVE  InInv' /\ SockInv'
  <1>1. CASE Close
    <2>1. /\ UNCHANGED <<kind, row, held, missed, jobs, calls, told, source, wire, sock>>
          /\ UNCHANGED <<up, writes, chain, evq, pending, ids, abandoned, node, sup>>
          /\ bridge' = "closing" /\ inq' = <<>>
      BY <1>1 DEF Close, procVars
    <2>2. IntakeInv' /\ Keeps
      BY <2>1, CloseKeeps DEF InInv
    <2>3. Less(up, up') /\ Less(writes, writes') /\ Less(chain, chain') /\ LessQueued(evq, evq')
      BY <2>1, PipesStay DEF InInv
    <2>4. Bare'
      BY <2>1 DEF InInv, SideInv, Bare, Sidecar, Busy, NoIds
    <2>5. SideInv'
      BY <2>1, <2>2, <2>3, <2>4, SideShrinks DEF InInv, SideInv, SideShape, Busy
    <2> QED
      BY <2>1, <2>2, <2>5 DEF InInv, SockInv, Sidecar
  <1>2. ASSUME Forgets PROVE \A i \in Slots : ~ Busy(i)'
    BY <1>2, NoCallIs DEF Forgets, Busy
  <1>3. CASE Down
    <2>1. /\ UNCHANGED <<kind, row, told, source, wire, sock>>
          /\ UNCHANGED <<up, writes, chain, evq, pending, ids, abandoned, node, sup>>
          /\ bridge' = "down" /\ Forgets /\ Ended
      BY <1>3 DEF Down, sideVars, procVars, sessVars, sockVars
    <2>2. IntakeInv' /\ Keeps
      BY <2>1, ForgetsKeeps DEF InInv
    <2>3. Less(up, up') /\ Less(writes, writes') /\ Less(chain, chain') /\ LessQueued(evq, evq')
      BY <2>1, PipesStay DEF InInv
    <2>4. Bare'
      BY <1>2, <2>1 DEF InInv, SideInv, Bare, Sidecar, NoIds, Ended
    <2>5. SideInv'
      BY <1>2, <2>1, <2>2, <2>3, <2>4, SideShrinks DEF InInv, SideInv, SideShape
    <2> QED
      BY <2>1, <2>2, <2>5 DEF InInv, SockInv, Sidecar, Ended
  <1>4. CASE Crash
    <2>1. /\ UNCHANGED <<kind, row, told, source>> /\ bridge' = "down" /\ Forgets
          /\ up' = <<>> /\ writes' = <<>> /\ evq' = <<>> /\ ids' = {} /\ sup' = "ended"
          /\ wire' = <<>> /\ sock' = "off"
          /\ Orphaned
      BY <1>4 DEF Crash
    <2>2. IntakeInv' /\ Keeps
      BY <2>1, ForgetsKeeps DEF InInv
    <2>3. Less(up, up') /\ Less(writes, writes') /\ LessQueued(evq, evq')
      BY <2>1, PipesStay DEF InInv
    <2>4. Bare'
      BY <1>2, <2>1, LeftAlone DEF InInv, SideInv, Bare, Sidecar, NoIds
    <2>5. \A i \in Slots : ~ Entry(evq', i)
      BY <2>1 DEF Entry
    <2>6. SideInv'
      BY <1>2, <2>1, <2>2, <2>3, <2>4, <2>5, LeftAlone, SideShrinks DEF InInv, SideInv, SideShape
    <2> QED
      BY <2>1, <2>2, <2>6 DEF InInv, SockInv
  <1> QED
    BY <1>1, <1>3, <1>4

\* Nothing happens.
LEMMA StutterKeeps ==
    ASSUME InInv, SockInv, UNCHANGED inVars
    PROVE  InInv' /\ SockInv'
  <1>1. /\ UNCHANGED <<kind, row, inq, held, missed, jobs, calls, told, bridge>> /\ Quiet
        /\ UNCHANGED <<wire, sock, source>>
    BY DEF inVars, Quiet, intakeVars, sockVars
  <1>2. IntakeInv' /\ Keeps
    BY <1>1, TaskCalls DEF InInv
  <1> QED
    BY <1>1, <1>2, QuietKeeps DEF SockInv, Sidecar, Busy

\* Every step of the composition.
LEMMA InNextKeeps ==
    ASSUME InInv, SockInv, [InNext]_inVars
    PROVE  InInv' /\ SockInv'
  <1>1. ASSUME UNCHANGED <<sockVars, source>>, bridge' = bridge PROVE SockInv'
    BY <1>1 DEF SockInv, sockVars, Sidecar
  <1>2. ASSUME NEW i \in Slots, Serve(i) PROVE InInv' /\ SockInv'
    <2>1. UNCHANGED <<sockVars, source>> /\ bridge' = bridge
      BY <1>2 DEF Serve, Quiet, HandlerStep, HandlerFault, Normalize, Register, Enqueue,
                  RegisterFails, HandlerTimeout
    <2> QED
      BY <1>1, <1>2, <2>1, ServeKeeps
  <1>3. CASE Settle \/ Drop
    <2>1. UNCHANGED <<sockVars, source>> /\ bridge' = bridge
      BY <1>3 DEF Settle, Quiet, LateRegister, Driver, Route, Take, Drop, Miss
    <2> QED
      BY <1>1, <1>3, <2>1, SettleKeeps
  <1>4. ASSUME NEW m \in Msgs, NEW k \in 0 .. (Pieces[m] - 1), Deliver(m, k)
        PROVE  InInv' /\ SockInv'
    <2>1. k \in Nat
      BY SocketBounds
    <2> QED
      BY <1>4, <2>1, DeliverKeeps
  <1>5. CASE NodeProcess
    <2>1. UNCHANGED <<sockVars, source>> /\ bridge' = bridge
      BY <1>5 DEF NodeProcess, SideOnly, NodeStep, NodeFault, NodeHandles, Configured, Connects,
                  AckTimeout, Disconnects, GivesUp, NodeExits, Platform, intakeVars
    <2> QED
      BY <1>1, <1>5, <2>1, NodeProcessKeeps
  <1>6. CASE Session
    <2>1. UNCHANGED <<sockVars, source>> /\ bridge' = bridge
      BY <1>6 DEF Session, SideOnly, WorkerStep, WorkerTakes, WorkerAnswers, WriterSends,
               SessionStep,
                  ReadHello, ReadResponse, ReadEvent, ReadState, Reads, SeesExit, BeginStop,
                  ReadStopping, StopEnds, Cleanup, Spawn, Backoff, BootTimeout, Abort, intakeVars
    <2> QED
      BY <1>1, <1>6, <2>1, SessionStepKeeps
  <1> QED
    BY <1>2, <1>3, <1>4, <1>5, <1>6, SocketStepKeeps, StartKeeps, CloseDownKeeps, StutterKeeps
       DEF InNext

\* The first start, on an empty store.
LEMMA InInitInv == ASSUME InInit PROVE InInv /\ SockInv
  <1>1. PICK c \in Scenes : /\ source = c.source /\ kind = c.kind /\ told = c.told
                            /\ SideInit("ended", c.bounds) /\ SockInit(c.cap)
    BY DEF InInit
  <1>2. /\ row = [m \in Msgs |-> NoRow] /\ inq = <<>> /\ held = <<>> /\ jobs = {}
        /\ calls = [i \in Slots |-> NoCall] /\ bridge = "down"
    BY DEF InInit, IntakeInit
  <1>3. IntakeShape /\ CallsNamed
    <2>1. NoRow \in RowSet
      BY DEF NoRow, RowSet, ScopeSet
    <2>2. told \subseteq Msgs
      BY <1>1, ScenesAssumption
    <2> QED
      BY <1>2, <2>1, <2>2, NoCallIs DEF IntakeShape, CallsNamed
  <1>4. ReceivedBound
    <2>1. Received = {}
      BY <1>2 DEF Received, NoRow
    <2> QED
      BY <2>1, FS_EmptySet DEF ReceivedBound
  <1>5. QueuesAgree /\ OkIsKept
    BY <1>2, NoCallIs DEF QueuesAgree, OkIsKept
  <1>6. ToldIsKept
    BY <1>1, ScenesAssumption DEF ToldIsKept, Kept, Ignored
  <1>7. IntakeInv
    BY <1>2, <1>3, <1>4, <1>5, <1>6 DEF IntakeInv
  <1>8. /\ up = <<>> /\ writes = <<>> /\ evq = <<>> /\ ids = {} /\ chain = <<>> /\ pending = NoIds
        /\ abandoned = {} /\ node = "none" /\ sup = "ended"
    BY <1>1 DEF SideInit
  <1>9. \A i \in Slots : pending[i] = None /\ ~ Busy(i)
    BY <1>2, <1>8, NoCallIs DEF NoIds, Busy
  <1>10. SideShape /\ Awaited /\ Matched /\ Bare
    BY <1>8, <1>9 DEF SideShape, Awaited, Matched, Bare, NoIds
  <1>11. Once /\ Active
    BY <1>8, <1>9 DEF Once, Active, OneEvent, OneEntry, OneAck, Event, Entry, Ack
  <1> QED
    BY <1>1, <1>7, <1>10, <1>11 DEF InInv, SideInv, SockInv, SockInit

\* The invariant holds of every behaviour, from whatever the two sources, the handlers, the
\* store writer and the crashes make of it.
THEOREM InInvariant == InSpec => [](InInv /\ SockInv)
  <1>1. InInit => InInv /\ SockInv
    BY InInitInv
  <1>2. InInv /\ SockInv /\ [InNext]_inVars => (InInv /\ SockInv)'
    BY InNextKeeps
  <1> QED
    BY <1>1, <1>2, PTL DEF InSpec

\* Every copy of a message the router can meet has the scope its row was written with,
\* whatever the lookups of resolve_scope return on each delivery (registration_from_stored).
THEOREM CopiesAlwaysAgree == InSpec => []CopiesAgree
  <1>1. InInv /\ SockInv => CopiesAgree
    BY IntakeInvSays DEF InInv
  <1> QED
    BY <1>1, InInvariant, PTL

\* A message with a success receipt is in the ledger and, until its row is taken, in the
\* channel or behind it, unless an actor dropped its copy for a store error and left the row
\* to the next start; and that start always finds room (prepare_durable): for any number of
\* messages, handlers, faults and restarts.
THEOREM AckedStaysKept == InSpec => []AckedIsKept
  <1>1. InInv /\ SockInv => AckedIsKept
    BY IntakeInvSays DEF InInv
  <1> QED
    BY <1>1, InInvariant, PTL

(***************************************************************************)
(* The reassembler.  total_bytes is a sum over its entries; the sum is a   *)
(* fold, shown to be the number of the fragments held.                     *)
(***************************************************************************)

\* The fragments a reassembler p holds of the messages in S, one by one, and their number
\* as the model counts them.
Pile(p, S) == UNION {{m} \X p[m] : m \in S}
Weight(p, S) == FoldSet(LAMBDA m, n : n + Cardinality(p[m]), 0, S)
EachFinite(p, S) == \A m \in S : IsFiniteSet(p[m])

LEMMA PileFinite ==
    ASSUME NEW p, NEW S, IsFiniteSet(S), EachFinite(p, S)
    PROVE  IsFiniteSet(Pile(p, S)) /\ Cardinality(Pile(p, S)) \in Nat
  <1> DEFINE f == [m \in S |-> {m} \X p[m]]
             I == {{m} \X p[m] : m \in S}
  <1>1. f \in Surjection(S, I)
    BY DEF Surjection
  <1>2. IsFiniteSet(I)
    BY <1>1, FS_Surjection
  <1>3. ASSUME NEW T \in I PROVE IsFiniteSet(T)
    <2>1. PICK m \in S : T = {m} \X p[m]
      OBVIOUS
    <2>2. IsFiniteSet({m}) /\ IsFiniteSet(p[m])
      BY FS_Singleton DEF EachFinite
    <2> QED
      BY <2>1, <2>2, FS_Product
  <1> HIDE DEF I
  <1>4. IsFiniteSet(UNION I)
    BY <1>2, <1>3, FS_UNION
  <1> QED
    BY <1>4, FS_CardinalityType DEF Pile, I

\* A pile of one message, and a pile without it.
LEMMA PileSplit ==
    ASSUME NEW p, NEW S, IsFiniteSet(S), EachFinite(p, S), NEW c \in S
    PROVE  /\ Cardinality(p[c]) \in Nat
           /\ Cardinality(Pile(p, S)) = Cardinality(Pile(p, S \ {c})) + Cardinality(p[c])
  <1> DEFINE A == {c}  B == p[c]  P == A \X B  R == Pile(p, S \ {c})
  <1>1. IsFiniteSet(B) /\ Cardinality(B) \in Nat
    BY FS_CardinalityType DEF EachFinite
  <1>2. Pile(p, S) = R \cup P /\ R \cap P = {}
    BY DEF Pile
  <1>3. IsFiniteSet(S \ {c}) /\ EachFinite(p, S \ {c})
    BY FS_RemoveElement DEF EachFinite
  <1>4. IsFiniteSet(R) /\ Cardinality(R) \in Nat
    BY <1>3, PileFinite
  <1>5. IsFiniteSet(A) /\ Cardinality(A) = 1
    BY FS_Singleton
  <1> HIDE DEF A, B, R
  <1>6. IsFiniteSet(P) /\ Cardinality(P) = Cardinality(A) * Cardinality(B)
    BY <1>1, <1>5, FS_Product
  <1>7. Cardinality(P) = Cardinality(B)
    BY <1>1, <1>5, <1>6
  <1> HIDE DEF P
  <1>8. Cardinality(R \cup P) = Cardinality(R) + Cardinality(P) - Cardinality(R \cap P)
    BY <1>4, <1>6, FS_Union
  <1>9. Cardinality(R \cap P) = 0
    BY <1>2, FS_EmptySet
  <1>10. Cardinality(Pile(p, S)) = Cardinality(R) + Cardinality(B)
    BY <1>1, <1>2, <1>4, <1>7, <1>8, <1>9
  <1> QED
    BY <1>1, <1>10 DEF R, B

\* h weighs the subsets of S the way the fold does; Weight is that function at S, if
\* there is exactly one.
Weighs(p, S, h) ==
  h = [s \in SUBSET S |-> IF s = {} THEN 0
                          ELSE h[s \ {CHOOSE x \in s : TRUE}] + Cardinality(p[CHOOSE x \in s : TRUE])]
LEMMA WeightUnfolds ==
    ASSUME NEW p, NEW S, NEW g, \A h : Weighs(p, S, h) <=> h = g
    PROVE  Weight(p, S) = g[S]
  BY DEF Weighs, Weight, FoldSet, MapThenFoldSet

\* The number of fragments solves the equation of the fold, and nothing else does.
LEMMA WeightCounts ==
    ASSUME NEW p, NEW S, IsFiniteSet(S), EachFinite(p, S)
    PROVE  Weight(p, S) = Cardinality(Pile(p, S))
  <1> DEFINE g == [s \in SUBSET S |-> Cardinality(Pile(p, s))]
             c(s) == CHOOSE x \in s : TRUE
  <1>1. ASSUME NEW s \in SUBSET S, s # {}
        PROVE  /\ c(s) \in s /\ s \ {c(s)} \in SUBSET S
               /\ g[s] = g[s \ {c(s)}] + Cardinality(p[c(s)])
    <2>1. c(s) \in s
      BY <1>1
    <2>2. IsFiniteSet(s) /\ EachFinite(p, s)
      BY FS_Subset DEF EachFinite
    <2> HIDE DEF c
    <2> QED
      BY <2>1, <2>2, PileSplit
  <1>2. g[{}] = 0
    BY FS_EmptySet DEF Pile
  <1>3. Weighs(p, S, g)
    <2> DEFINE G(s) == IF s = {} THEN 0 ELSE g[s \ {c(s)}] + Cardinality(p[c(s)])
    <2>1. \A s \in SUBSET S : g[s] = G(s)
      BY <1>1, <1>2
    <2>2. g = [s \in SUBSET S |-> g[s]]
      OBVIOUS
    <2> HIDE DEF g
    <2>3. g = [s \in SUBSET S |-> G(s)]
      BY <2>1, <2>2, Zenon
    <2> QED
      BY <2>3, Zenon DEF Weighs
  <1>4. ASSUME NEW h, Weighs(p, S, h) PROVE h = g
    <2>0. /\ h = [s \in SUBSET S |-> h[s]] /\ h[{}] = 0
          /\ \A s \in SUBSET S : s # {} => h[s] = h[s \ {c(s)}] + Cardinality(p[c(s)])
      BY <1>4 DEF Weighs
    <2> DEFINE Bad == {s \in SUBSET S : h[s] # g[s]}
               T == {Cardinality(s) : s \in Bad}
    <2> HIDE DEF g, c
    <2>1. SUFFICES ASSUME Bad # {} PROVE FALSE
      <3>1. \A s \in SUBSET S : h[s] = g[s]
        BY <2>1
      <3>2. g = [s \in SUBSET S |-> g[s]]
        BY DEF g
      <3> QED
        BY <3>1, <3>2, <2>0, Zenon
    <2>2. \A s \in Bad : IsFiniteSet(s) /\ Cardinality(s) \in Nat
      BY FS_Subset, FS_CardinalityType
    <2>3. PICK n \in T : \A m \in T : n <= m
      <3>1. T \in SUBSET Nat /\ T # {}
        BY <2>1, <2>2
      <3>2. PICK n \in T : \A m \in T : ~ (<<m, n>> \in OpToRel(<, Nat))
        BY <3>1, NatLessThanWellFounded, WFMin, Zenon
      <3>3. \A m \in T : ~ (m < n)
        BY <3>1, <3>2 DEF OpToRel
      <3> QED
        BY <3>1, <3>3
    <2>4. PICK s \in Bad : n = Cardinality(s)
      OBVIOUS
    <2>5. s # {}
      BY <1>2, <2>0
    <2>6. c(s) \in s /\ s \ {c(s)} \in SUBSET S /\ h[s \ {c(s)}] # g[s \ {c(s)}]
      BY <1>1, <2>0, <2>5
    <2>7. Cardinality(s \ {c(s)}) = n - 1
      BY <2>2, <2>4, <2>6, FS_RemoveElement
    <2>8. n \in Nat /\ n - 1 \in T
      BY <2>2, <2>4, <2>6, <2>7
    <2> QED
      BY <2>3, <2>8
  <1>5. \A h : Weighs(p, S, h) <=> h = g
    BY <1>3, <1>4
  <1>6. Weight(p, S) = g[S]
    <2> HIDE DEF g
    <2> QED BY <1>5, WeightUnfolds, Zenon
  <1> QED
    BY <1>6

\* The entries of a reassembler, and what FragmentsAccounted says of it, with the types that
\* keep the numbers meaningful and the bound on what an expiry may take away.
EntriesOf(p) == {m \in Msgs : p[m] # {}}
Bounded(p) ==
  /\ p \in [Msgs -> SUBSET Nat] /\ EachFinite(p, Msgs)
  /\ IsFiniteSet(EntriesOf(p)) /\ Cardinality(EntriesOf(p)) <= MaxPartial
  /\ \A m \in EntriesOf(p) : Cardinality(p[m]) < Pieces[m]
FragInv ==
  /\ Bounded(parts) /\ aged \subseteq EntriesOf(parts)
  /\ bytes = Weight(parts, EntriesOf(parts)) /\ bytes <= PartBytes

\* What is left after the sweep weighs what the sweep computes.
LEMMA SweptIs ==
    ASSUME FragInv
    PROVE  /\ Bounded(Swept) /\ EntriesOf(Swept) = EntriesOf(parts) \ aged
           /\ SweptBytes = Weight(Swept, EntriesOf(Swept))
           /\ SweptBytes \in Nat /\ SweptBytes <= PartBytes
  <1> DEFINE E == EntriesOf(parts)  K == E \ aged
  <1>1. /\ Swept \in [Msgs -> SUBSET Nat] /\ EntriesOf(Swept) = K
        /\ \A m \in K : Swept[m] = parts[m]
    BY DEF FragInv, Bounded, Swept, EntriesOf
  <1>2. /\ IsFiniteSet(E) /\ IsFiniteSet(K) /\ IsFiniteSet(aged)
        /\ Cardinality(K) <= Cardinality(E) /\ Cardinality(K) \in Nat /\ Cardinality(E) \in Nat
    BY FS_Subset, FS_CardinalityType DEF FragInv, Bounded
  <1>3. /\ EachFinite(Swept, Msgs) /\ EachFinite(parts, E) /\ EachFinite(parts, aged)
        /\ EachFinite(parts, K) /\ EachFinite(Swept, K)
    BY <1>1, FS_EmptySet DEF FragInv, Bounded, EachFinite, Swept, EntriesOf
  <1>4. Bounded(Swept)
    BY <1>1, <1>2, <1>3, SocketBounds DEF FragInv, Bounded
  <1>5. Pile(Swept, K) = Pile(parts, K)
    BY <1>1 DEF Pile
  <1>6. Pile(parts, E) = Pile(parts, K) \cup Pile(parts, aged) /\ Pile(parts, K) \cap Pile(parts, aged) = {}
    BY DEF Pile, FragInv
  <1>7. /\ IsFiniteSet(Pile(parts, K)) /\ Cardinality(Pile(parts, K)) \in Nat
        /\ IsFiniteSet(Pile(parts, aged)) /\ Cardinality(Pile(parts, aged)) \in Nat
    BY <1>2, <1>3, PileFinite
  <1>8. Cardinality(Pile(parts, E)) = Cardinality(Pile(parts, K)) + Cardinality(Pile(parts, aged))
    <2>1. Cardinality(Pile(parts, K) \cap Pile(parts, aged)) = 0
      BY <1>6, FS_EmptySet
    <2>2. Cardinality(Pile(parts, E)) = Cardinality(Pile(parts, K)) + Cardinality(Pile(parts, aged))
                                        - Cardinality(Pile(parts, K) \cap Pile(parts, aged))
      BY <1>6, <1>7, FS_Union
    <2> QED
      BY <1>7, <2>1, <2>2
  <1>9. SweptBytes = bytes - Weight(parts, aged)
    BY DEF SweptBytes, Weight
  <1>10. bytes = Cardinality(Pile(parts, E)) /\ Weight(parts, aged) = Cardinality(Pile(parts, aged))
    BY <1>2, <1>3, WeightCounts DEF FragInv
  <1>11. SweptBytes = Cardinality(Pile(parts, K)) /\ bytes <= PartBytes /\ PartBytes \in Nat
    BY <1>7, <1>8, <1>9, <1>10, SocketBounds DEF FragInv
  <1>12. Weight(Swept, K) = Cardinality(Pile(parts, K))
    BY <1>2, <1>3, <1>5, WeightCounts
  <1> QED
    BY <1>1, <1>4, <1>7, <1>8, <1>10, <1>11, <1>12

\* Sums of a reassembler in which only message m changes.
LEMMA OneEntryChanges ==
    ASSUME NEW p, NEW q, Bounded(p), Bounded(q), NEW m \in Msgs, \A l \in Msgs \ {m} : q[l] = p[l]
    PROVE  /\ Weight(q, EntriesOf(q)) = Weight(p, EntriesOf(p)) - Cardinality(p[m]) + Cardinality(q[m])
           /\ Cardinality(p[m]) \in Nat /\ Cardinality(q[m]) \in Nat
           /\ Weight(p, EntriesOf(p)) \in Nat
  <1> DEFINE K == EntriesOf(p) \ {m}
  <1>1. EntriesOf(q) \ {m} = K /\ Pile(q, K) = Pile(p, K)
    BY DEF EntriesOf, Pile
  <1>2. ASSUME NEW r, Bounded(r), EntriesOf(r) \ {m} = K
        PROVE  /\ Weight(r, EntriesOf(r)) = Cardinality(Pile(r, K)) + Cardinality(r[m])
               /\ Cardinality(r[m]) \in Nat /\ Cardinality(Pile(r, K)) \in Nat
    <2>1. /\ IsFiniteSet(EntriesOf(r)) /\ EachFinite(r, EntriesOf(r)) /\ IsFiniteSet(r[m])
          /\ IsFiniteSet(K) /\ EachFinite(r, K)
      <3>1. EntriesOf(r) \subseteq Msgs
        BY DEF EntriesOf
      <3> QED
        BY <1>2, <3>1, FS_RemoveElement DEF Bounded, EachFinite
    <2>2. Weight(r, EntriesOf(r)) = Cardinality(Pile(r, EntriesOf(r)))
      BY <2>1, WeightCounts
    <2>3. Cardinality(r[m]) \in Nat /\ Cardinality(Pile(r, K)) \in Nat
      BY <2>1, FS_CardinalityType, PileFinite
    <2>4. CASE m \in EntriesOf(r)
      BY <1>2, <2>1, <2>2, <2>3, <2>4, PileSplit
    <2>5. CASE m \notin EntriesOf(r)
      <3>1. r[m] = {} /\ EntriesOf(r) = K
        BY <1>2, <2>5 DEF EntriesOf
      <3>2. Cardinality(r[m]) = 0
        BY <3>1, FS_EmptySet
      <3> QED
        BY <2>2, <2>3, <3>1, <3>2
    <2> QED
      BY <2>4, <2>5
  <1>3. /\ Weight(p, EntriesOf(p)) = Cardinality(Pile(p, K)) + Cardinality(p[m])
        /\ Cardinality(p[m]) \in Nat /\ Cardinality(Pile(p, K)) \in Nat
    BY <1>2
  <1>4. /\ Weight(q, EntriesOf(q)) = Cardinality(Pile(p, K)) + Cardinality(q[m])
        /\ Cardinality(q[m]) \in Nat
    BY <1>1, <1>2
  <1> QED
    BY <1>3, <1>4

\* ingest, whatever becomes of the fragment.
LEMMA IngestKeeps ==
    ASSUME FragInv, NEW f \in WireSet, Ingest(f) PROVE FragInv'
  <1> DEFINE m == f.msg
  <1>0. /\ Bounded(Swept) /\ EntriesOf(Swept) = EntriesOf(parts) \ aged
        /\ SweptBytes = Weight(Swept, EntriesOf(Swept))
        /\ SweptBytes \in Nat /\ SweptBytes <= PartBytes
    BY SweptIs
  <1>1. aged' = {} /\ m \in Msgs /\ f.seq \in Nat /\ PartBytes \in Nat /\ MaxPartial \in Nat \ {0}
        /\ Pieces[m] \in Nat \ {0}
    BY SocketBounds DEF Ingest, WireSet
  <1>2. CASE ~ Accepts(f)
    <2>1. parts' = Swept /\ bytes' = SweptBytes
      BY <1>2 DEF Ingest
    <2> QED
      BY <1>0, <1>1, <2>1 DEF FragInv
  <1>3. CASE Accepts(f) /\ Completes(f)
    <2>1. parts' = [Swept EXCEPT ![m] = {}] /\ bytes' = SweptBytes - Cardinality(Swept[m])
      BY <1>3 DEF Ingest
    <2>2. /\ parts' \in [Msgs -> SUBSET Nat] /\ parts'[m] = {} /\ \A l \in Msgs \ {m} : parts'[l] = Swept[l]
      BY <1>0, <1>1, <2>1 DEF Bounded
    <2>3. EntriesOf(parts') = EntriesOf(Swept) \ {m}
      BY <2>2 DEF EntriesOf
    <2>4. /\ IsFiniteSet(EntriesOf(parts')) /\ Cardinality(EntriesOf(parts')) <= Cardinality(EntriesOf(Swept))
          /\ Cardinality(EntriesOf(parts')) \in Nat /\ Cardinality(EntriesOf(Swept)) \in Nat
      BY <1>0, <2>3, FS_Subset, FS_CardinalityType DEF Bounded
    <2>5. EachFinite(parts', Msgs)
      BY <1>0, <2>2, FS_EmptySet DEF Bounded, EachFinite
    <2>6. Bounded(parts')
      BY <1>0, <1>1, <2>2, <2>3, <2>4, <2>5 DEF Bounded, EntriesOf
    <2>7. /\ Weight(parts', EntriesOf(parts')) = SweptBytes - Cardinality(Swept[m]) + Cardinality(parts'[m])
          /\ Cardinality(Swept[m]) \in Nat
      <3> DEFINE p == Swept  q == parts'
      <3>1. Bounded(p) /\ Bounded(q) /\ m \in Msgs /\ (\A l \in Msgs \ {m} : q[l] = p[l])
        BY <1>0, <1>1, <2>2, <2>6
      <3> HIDE DEF p, q, m
      <3>2. /\ Weight(q, EntriesOf(q)) = Weight(p, EntriesOf(p)) - Cardinality(p[m]) + Cardinality(q[m])
            /\ Cardinality(p[m]) \in Nat
        BY <3>1, OneEntryChanges
      <3> QED
        BY <1>0, <3>2 DEF p, q
    <2>8. Cardinality(parts'[m]) = 0
      BY <2>2, FS_EmptySet
    <2>9. bytes' = Weight(parts', EntriesOf(parts')) /\ bytes' <= PartBytes
      BY <1>0, <1>1, <2>1, <2>7, <2>8
    <2> QED
      BY <1>1, <2>6, <2>9 DEF FragInv
  <1>4. CASE Accepts(f) /\ ~ Completes(f)
    <2>1. parts' = [Swept EXCEPT ![m] = @ \cup {f.seq}] /\ bytes' = SweptBytes + 1
      BY <1>4 DEF Ingest
    <2>2. /\ parts' \in [Msgs -> SUBSET Nat] /\ parts'[m] = Swept[m] \cup {f.seq}
          /\ \A l \in Msgs \ {m} : parts'[l] = Swept[l]
      BY <1>0, <1>1, <2>1 DEF Bounded
    <2>3. EntriesOf(parts') = EntriesOf(Swept) \cup {m}
      BY <1>1, <2>2 DEF EntriesOf
    <2>4. /\ IsFiniteSet(Swept[m]) /\ Cardinality(Swept[m]) \in Nat /\ f.seq \notin Swept[m]
          /\ IsFiniteSet(parts'[m]) /\ Cardinality(parts'[m]) = Cardinality(Swept[m]) + 1
      <3>1. IsFiniteSet(Swept[m]) /\ f.seq \notin Swept[m]
        BY <1>0, <1>1, <1>4 DEF Bounded, EachFinite, Accepts
      <3> QED
        BY <2>2, <3>1, FS_AddElement, FS_CardinalityType
    <2>5. Cardinality(parts'[m]) < Pieces[m]
      <3>1. Cardinality(Swept[m]) < Pieces[m]
        <4>1. CASE m \in EntriesOf(Swept)
          BY <1>0, <4>1 DEF Bounded
        <4>2. CASE m \notin EntriesOf(Swept)
          <5>1. Swept[m] = {}
            BY <1>1, <4>2 DEF EntriesOf
          <5> QED
            BY <1>1, <5>1, FS_EmptySet
        <4> QED
          BY <4>1, <4>2
      <3>2. Cardinality(Swept[m]) + 1 # Pieces[m]
        BY <1>4 DEF Completes
      <3> QED
        BY <1>1, <2>4, <3>1, <3>2
    <2>6. IsFiniteSet(EntriesOf(parts')) /\ Cardinality(EntriesOf(parts')) <= MaxPartial
      <3>0. IsFiniteSet(EntriesOf(Swept)) /\ Cardinality(EntriesOf(Swept)) \in Nat
        BY <1>0, FS_CardinalityType DEF Bounded
      <3>1. CASE m \in EntriesOf(Swept)
        <4>1. EntriesOf(parts') = EntriesOf(Swept)
          BY <2>3, <3>1
        <4> QED
          BY <1>0, <4>1 DEF Bounded
      <3>2. CASE m \notin EntriesOf(Swept)
        <4>1. Swept[m] = {}
          BY <1>1, <3>2 DEF EntriesOf
        <4>2. Cardinality(EntriesOf(Swept)) < MaxPartial
          BY <1>0, <1>4, <4>1 DEF Accepts, Entries, EntriesOf
        <4>3. /\ IsFiniteSet(EntriesOf(Swept) \cup {m})
              /\ Cardinality(EntriesOf(Swept) \cup {m}) = Cardinality(EntriesOf(Swept)) + 1
          BY <3>0, <3>2, FS_AddElement
        <4> QED
          BY <1>1, <2>3, <3>0, <4>2, <4>3
      <3> QED
        BY <3>1, <3>2
    <2>7. EachFinite(parts', Msgs)
      BY <1>0, <2>2, <2>4 DEF Bounded, EachFinite
    <2>8. Bounded(parts')
      <3>1. ASSUME NEW l \in EntriesOf(parts') PROVE Cardinality(parts'[l]) < Pieces[l]
        <4>1. CASE l = m
          BY <2>5, <4>1
        <4>2. CASE l # m
          <5>1. l \in EntriesOf(Swept) /\ l \in Msgs \ {m}
            BY <2>3, <3>1, <4>2 DEF EntriesOf
          <5>2. parts'[l] = Swept[l]
            BY <2>2, <5>1
          <5> QED
            BY <1>0, <5>1, <5>2 DEF Bounded
        <4> QED
          BY <4>1, <4>2
      <3> QED
        BY <2>2, <2>6, <2>7, <3>1 DEF Bounded
    <2>9. Weight(parts', EntriesOf(parts')) = SweptBytes - Cardinality(Swept[m]) + Cardinality(parts'[m])
      <3> DEFINE p == Swept  q == parts'
      <3>1. Bounded(p) /\ Bounded(q) /\ m \in Msgs /\ (\A l \in Msgs \ {m} : q[l] = p[l])
        BY <1>0, <1>1, <2>2, <2>8
      <3> HIDE DEF p, q, m
      <3>2. Weight(q, EntriesOf(q)) = Weight(p, EntriesOf(p)) - Cardinality(p[m]) + Cardinality(q[m])
        BY <3>1, OneEntryChanges
      <3> QED
        BY <1>0, <3>2 DEF p, q
    <2>10. bytes' = Weight(parts', EntriesOf(parts')) /\ bytes' <= PartBytes
      BY <1>0, <1>1, <1>4, <2>1, <2>4, <2>9 DEF Accepts
    <2> QED
      BY <1>1, <2>8, <2>10 DEF FragInv
  <1> QED
    BY <1>2, <1>3, <1>4

\* An empty reassembler.
LEMMA EmptyFrag ==
    ASSUME parts' = [m \in Msgs |-> {}], aged' = {}, bytes' = 0 PROVE FragInv'
  <1>1. EntriesOf(parts') = {} /\ parts' \in [Msgs -> SUBSET Nat] /\ EachFinite(parts', Msgs)
        /\ EachFinite(parts', {})
    BY FS_EmptySet DEF EntriesOf, EachFinite
  <1>2. Weight(parts', {}) = 0
    BY <1>1, FS_EmptySet, WeightCounts DEF Pile
  <1> QED
    <2>1. Cardinality({}) = 0 /\ IsFiniteSet({}) /\ 0 <= MaxPartial /\ 0 <= PartBytes
      BY FS_EmptySet, SocketBounds
    <2>2. Bounded(parts')
      BY <1>1, <1>2, <2>1 DEF Bounded
    <2> QED
      BY <1>1, <1>2, <2>1, <2>2 DEF FragInv

\* What a step of the bridge does to the reassembler.
LEMMA FragSteps ==
    ASSUME [InNext]_inVars
    PROVE  \/ UNCHANGED <<parts, aged, bytes>>
           \/ parts' = [m \in Msgs |-> {}] /\ aged' = {} /\ bytes' = 0
           \/ SockRead \/ FragmentAges
  <1>1. ASSUME UNCHANGED sockVars PROVE UNCHANGED <<parts, aged, bytes>>
    BY <1>1 DEF sockVars
  <1>2. CASE (\E i \in Slots : Serve(i)) \/ Settle \/ Drop \/ NodeProcess \/ Session \/ Down
    BY <1>1, <1>2 DEF Serve, Settle, Drop, NodeProcess, Session, Down, Quiet, SideOnly
  <1>3. ASSUME NEW m \in Msgs, NEW k, Deliver(m, k) PROVE UNCHANGED <<parts, aged, bytes>>
    BY <1>1, <1>3 DEF Deliver, SideOnly, SockOffer
  <1>4. CASE Start \/ Close \/ Crash
    BY <1>4 DEF Start, Close, Crash
  <1>5. CASE Socket
    BY <1>5 DEF Socket, SockStep, SockConnect, Opened, SockBackoff, SockReceipt, SockPing, SockLeaves,
                SockAbort, LinkLost, sockVars
  <1>6. CASE UNCHANGED inVars
    BY <1>1, <1>6 DEF inVars
  <1> QED
    BY <1>2, <1>3, <1>4, <1>5, <1>6 DEF InNext

LEMMA FragKept == ASSUME SockInv, FragInv, [InNext]_inVars PROVE FragInv'
  <1>1. CASE UNCHANGED <<parts, aged, bytes>>
    BY <1>1 DEF FragInv
  <1>2. CASE parts' = [m \in Msgs |-> {}] /\ aged' = {} /\ bytes' = 0
    BY <1>2, EmptyFrag
  <1>3. CASE SockRead
    <2>1. Head(wire) \in WireSet
      BY <1>3 DEF SockInv, SockRead
    <2>2. CASE Pieces[Head(wire).msg] = 1
      <3>1. aged' = {} /\ parts' = Swept /\ bytes' = SweptBytes
        BY <1>3, <2>2 DEF SockRead
      <3> QED
        BY <3>1, SweptIs DEF FragInv
    <2>3. CASE Pieces[Head(wire).msg] # 1
      BY <1>3, <2>1, <2>3, IngestKeeps DEF SockRead
    <2> QED
      BY <2>2, <2>3
  <1>4. CASE FragmentAges
    BY <1>4 DEF FragmentAges, FragInv, Entries, EntriesOf
  <1> QED
    BY <1>1, <1>2, <1>3, <1>4, FragSteps

LEMMA FragInit == ASSUME InInit PROVE FragInv
  <1>1. parts = [m \in Msgs |-> {}] /\ aged = {} /\ bytes = 0
    BY DEF InInit, SockInit
  <1>2. EntriesOf(parts) = {} /\ parts \in [Msgs -> SUBSET Nat] /\ EachFinite(parts, Msgs)
        /\ EachFinite(parts, {})
    BY <1>1, FS_EmptySet DEF EntriesOf, EachFinite
  <1>3. Weight(parts, {}) = 0
    BY <1>2, FS_EmptySet, WeightCounts DEF Pile
  <1> QED
    <2>1. Cardinality({}) = 0 /\ IsFiniteSet({}) /\ 0 <= MaxPartial /\ 0 <= PartBytes
      BY FS_EmptySet, SocketBounds
    <2>2. Bounded(parts)
      BY <1>1, <1>2, <1>3, <2>1 DEF Bounded
    <2> QED
      BY <1>1, <1>2, <1>3, <2>1, <2>2 DEF FragInv

\* The reassembler counts exactly what it holds, keeps its bounds and never holds a whole
\* message, whatever fragments repeat, come out of order, expire or never come, for any
\* number of messages and fragments (Reassembler::ingest, sweep).
THEOREM FragmentsStayAccounted == InSpec => []FragmentsAccounted
  <1>1. FragInv => FragmentsAccounted
    BY DEF FragInv, Bounded, FragmentsAccounted, Weight, Entries, EntriesOf
  <1>2. InInit => InInv /\ SockInv /\ FragInv
    BY InInitInv, FragInit
  <1>3. InInv /\ SockInv /\ FragInv /\ [InNext]_inVars => (InInv /\ SockInv /\ FragInv)'
    BY InNextKeeps, FragKept
  <1> QED
    BY <1>1, <1>2, <1>3, PTL DEF InSpec

(***************************************************************************)
(* The queue of the stdin writer has room for every answer.                *)
(***************************************************************************)

\* The session serves, and Node may still offer events.
Serving == sup \in {"hello", "configure", "await", "run"}
Offering == node \in {"boot", "starting", "up"}

\* The frames that answer no event: in a serving session that is configure, once, and not
\* before hello.
Others(s) == {k \in 1 .. Len(s) : s[k].t # "ack"}
OneOther(s) == \A k, l \in Others(s) : k = l

\* Node waits for no more events than it may, and the worker runs until Node has given up
\* on an event.
Rooms ==
  /\ {EventCap, WriteCap} \subseteq Nat /\ EventCap < WriteCap
  /\ IsFiniteSet(Pending) /\ Cardinality(Pending) <= EventCap
  /\ Serving => OneOther(writes) /\ (sup = "hello" => Others(writes) = {})
  /\ Serving /\ Offering /\ abandoned = {} => worker

\* A queue that gains no such frame.
FewerOthers(s, r) == (OneOther(s) => OneOther(r)) /\ (Others(s) = {} => Others(r) = {})

LEMMA OthersSame == ASSUME NEW s PROVE FewerOthers(s, s) /\ Others(<<>>) = {} /\ OneOther(<<>>)
  BY DEF FewerOthers, Others, OneOther

LEMMA OthersTail ==
    ASSUME NEW s \in Seq(FrameSet), s # <<>>
    PROVE  FewerOthers(s, Tail(s))
  <1> DEFINE r == Tail(s)
  <1>1. /\ r \in Seq(FrameSet) /\ Len(s) \in Nat /\ Len(s) > 0 /\ Len(r) = Len(s) - 1
        /\ \A k \in 1 .. Len(r) : r[k] = s[k + 1]
    OBVIOUS
  <1> HIDE DEF r
  <1>2. \A k \in Others(r) : k \in Int /\ k + 1 \in Others(s)
    BY <1>1 DEF Others
  <1>3. FewerOthers(s, r)
    BY <1>2 DEF FewerOthers, OneOther
  <1> QED
    BY <1>3 DEF r

LEMMA OthersAppend ==
    ASSUME NEW s \in Seq(FrameSet), NEW e \in FrameSet
    PROVE  /\ e.t = "ack" => FewerOthers(s, Append(s, e))
           /\ Others(s) = {} => OneOther(Append(s, e))
  <1> DEFINE r == Append(s, e)
  <1>1. /\ r \in Seq(FrameSet) /\ Len(s) \in Nat /\ Len(r) = Len(s) + 1 /\ r[Len(s) + 1] = e
        /\ \A k \in 1 .. Len(s) : r[k] = s[k]
    OBVIOUS
  <1> HIDE DEF r
  <1>2. \A k \in Others(r) : k \in Others(s) \/ (k = Len(s) + 1 /\ e.t # "ack")
    BY <1>1 DEF Others
  <1>3. /\ e.t = "ack" => FewerOthers(s, r)
        /\ Others(s) = {} => OneOther(r)
    BY <1>2 DEF FewerOthers, OneOther
  <1> QED
    BY <1>3 DEF r

\* Acknowledgements of different events, all of them among the events of P, and at most one
\* other frame take at most one place more than P has events.
LEMMA QueueLength ==
    ASSUME NEW s \in Seq(FrameSet), OneAck(s), OneOther(s), NEW P, IsFiniteSet(P), 0 \notin P,
           \A k \in 1 .. Len(s) : s[k].t = "ack" => s[k].id \in P
    PROVE  Len(s) <= Cardinality(P) + 1
  <1> DEFINE D == 1 .. Len(s)
             R == P \cup {0}
             f == [k \in D |-> IF s[k].t = "ack" THEN s[k].id ELSE 0]
  <1>0. Len(s) \in Nat
    OBVIOUS
  <1>1. Len(s) \in Nat /\ IsFiniteSet(D) /\ Cardinality(D) = Len(s)
    <2> DEFINE n == Len(s)
    <2> HIDE DEF n
    <2>1. n \in Nat
      BY <1>0 DEF n
    <2>2. IsFiniteSet(1 .. n) /\ Cardinality(1 .. n) = IF 1 > n THEN 0 ELSE n - 1 + 1
      BY <2>1, FS_Interval
    <2>3. Cardinality(1 .. n) = n
      BY <2>1, <2>2
    <2> QED
      BY <2>1, <2>2, <2>3 DEF n
  <1>2. IsFiniteSet(R) /\ Cardinality(R) = Cardinality(P) + 1 /\ Cardinality(P) \in Nat
    BY FS_AddElement, FS_CardinalityType
  <1>3. f \in [D -> R]
    OBVIOUS
  <1>4. \A k, l \in D : f[k] = f[l] => k = l
    BY DEF OneAck, OneOther, Others
  <1>5. f \in Injection(D, R)
    BY <1>3, <1>4 DEF Injection, IsInjective
  <1>6. Cardinality(D) <= Cardinality(R)
    <2> HIDE DEF D, R, f
    <2> QED BY <1>1, <1>2, <1>5, FS_Injection
  <1> QED
    BY <1>1, <1>2, <1>6

\* A step that only takes away.
LEMMA RoomsShrink ==
    ASSUME Rooms, bounds' = bounds, Pending' \subseteq Pending,
           Serving' => Serving /\ (sup' = "hello" => sup = "hello") /\ FewerOthers(writes, writes'),
           Serving' /\ Offering' /\ abandoned' = {} =>
             Offering /\ abandoned = {} /\ (Serving /\ Offering /\ abandoned = {} /\ worker => worker')
    PROVE  Rooms'
  <1>1. {EventCap', WriteCap'} \subseteq Nat /\ EventCap' < WriteCap' /\ EventCap' = EventCap
    BY DEF Rooms, EventCap, WriteCap
  <1>2. IsFiniteSet(Pending') /\ Cardinality(Pending') <= Cardinality(Pending)
        /\ Cardinality(Pending) \in Nat /\ Cardinality(Pending') \in Nat
    BY FS_Subset, FS_CardinalityType DEF Rooms
  <1>3. Cardinality(Pending') <= EventCap'
    BY <1>1, <1>2 DEF Rooms
  <1>4. Serving' => OneOther(writes') /\ (sup' = "hello" => Others(writes') = {})
    BY DEF Rooms, FewerOthers
  <1>5. Serving' /\ Offering' /\ abandoned' = {} => worker'
    BY DEF Rooms
  <1> QED
    BY <1>1, <1>2, <1>3, <1>4, <1>5 DEF Rooms

\* A step that leaves the session alone, while Node offers no event that is new.
LEMMA RoomsStay ==
    ASSUME Rooms, UNCHANGED <<sup, writes, worker, bounds>>, Pending' \subseteq Pending,
           Offering' => Offering, abandoned' = {} => abandoned = {} \/ ~ Offering'
    PROVE  Rooms'
  BY RoomsShrink, OthersSame DEF Serving

\* A step after which no session serves.
LEMMA RoomsEnd ==
    ASSUME Rooms, bounds' = bounds, Pending' \subseteq Pending, ~ Serving'
    PROVE  Rooms'
  BY RoomsShrink

\* Node: what it handles, offers, gives up and how it ends.
LEMMA NodeRooms ==
    ASSUME InInv, Rooms, NodeStep \/ NodeFault \/ NodeExits
    PROVE  Rooms'
  <1>1. pending \in [Slots -> Msgs \cup {None}]
    BY DEF InInv, SideInv, SideShape
  <1>2. CASE NodeHandles
    <2>1. Pending' \subseteq Pending
      BY <1>1, <1>2 DEF NodeHandles, HandleAck, Pending, NoIds
    <2>2. Offering' => Offering
      BY <1>2 DEF NodeHandles, HandleAck, Offering
    <2>3. UNCHANGED <<sup, writes, worker, bounds, abandoned>>
      BY <1>2 DEF NodeHandles, sessVars
    <2> QED
      BY <2>1, <2>2, <2>3, RoomsStay
  <1>3. CASE Configured \/ Connects \/ Disconnects \/ GivesUp
    <2>1. Pending' = Pending
      BY <1>3 DEF Configured, Connects, Disconnects, GivesUp, Pending
    <2>2. Offering' => Offering
      BY <1>3 DEF Configured, Connects, Disconnects, GivesUp, Offering
    <2>3. UNCHANGED <<sup, writes, worker, bounds, abandoned>>
      BY <1>3 DEF Configured, Connects, Disconnects, GivesUp, sessVars
    <2> QED
      BY <2>1, <2>2, <2>3, RoomsStay
  <1>4. CASE AckTimeout
    <2>1. UNCHANGED <<sup, writes, worker, bounds, node>> /\ abandoned' # {}
      BY <1>4 DEF AckTimeout, sessVars
    <2>2. Pending' \subseteq Pending
      BY <1>1, <1>4 DEF AckTimeout, Pending
    <2> QED
      BY <2>1, <2>2, RoomsStay DEF Offering
  <1>5. CASE NodeExits
    <2>1. UNCHANGED <<sup, writes, worker, bounds>> /\ node' \in {"none", "dead"}
      BY <1>5 DEF NodeExits, sessVars
    <2>2. Pending' \subseteq Pending
      BY <1>1, <1>5 DEF NodeExits, Pending, NoIds
    <2> QED
      BY <2>1, <2>2, RoomsStay DEF Offering
  <1> QED
    BY <1>2, <1>3, <1>4, <1>5 DEF NodeStep, NodeFault

\* forwardEvent: only while Node waits for fewer events than it may.
LEMMA OfferRooms ==
    ASSUME InInv, Rooms, NEW m \in Msgs, Offer(m)
    PROVE  Rooms'
  <1>1. pending \in [Slots -> Msgs \cup {None}]
    BY DEF InInv, SideInv, SideShape
  <1>2. PICK i : pending' = [pending EXCEPT ![i] = m]
    BY DEF Offer
  <1>3. Pending' \subseteq Pending \cup {i}
    BY <1>1, <1>2 DEF Pending
  <1>4. /\ Cardinality(Pending) < EventCap
        /\ UNCHANGED <<sup, writes, worker, bounds, node, abandoned>>
    BY DEF Offer, sessVars
  <1>5. IsFiniteSet(Pending) /\ Cardinality(Pending) \in Nat /\ EventCap \in Nat
    BY FS_CardinalityType DEF Rooms
  <1>6. /\ IsFiniteSet(Pending \cup {i}) /\ Cardinality(Pending \cup {i}) <= Cardinality(Pending) + 1
        /\ Cardinality(Pending \cup {i}) \in Nat
    <2>1. /\ IsFiniteSet(Pending \cup {i})
          /\ Cardinality(Pending \cup {i}) = IF i \in Pending THEN Cardinality(Pending)
                                                               ELSE Cardinality(Pending) + 1
      BY <1>5, FS_AddElement
    <2> QED
      BY <1>5, <2>1
  <1>7. IsFiniteSet(Pending') /\ Cardinality(Pending') <= EventCap
    <2>1. /\ IsFiniteSet(Pending') /\ Cardinality(Pending') <= Cardinality(Pending \cup {i})
          /\ Cardinality(Pending') \in Nat
      BY <1>3, <1>6, FS_Subset, FS_CardinalityType
    <2> QED
      BY <1>4, <1>5, <1>6, <2>1
  <1> QED
    BY <1>4, <1>7 DEF Rooms, Serving, Offering, EventCap, WriteCap

\* A completion finds room for its answer: its event is one Node waits for, and so is every
\* event that is answered in the queue.
LEMMA AnswerRooms ==
    ASSUME InInv, Rooms, NEW i \in Slots, WorkerAnswers(i)
    PROVE  Rooms'
  <1>1. /\ UNCHANGED <<sup, bounds, node, abandoned, pending>> /\ Busy(i)
        /\ calls[i].at \in {"ok", "failed"}
    BY DEF WorkerAnswers, procVars, Busy
  <1>2. Pending' = Pending
    BY <1>1 DEF Pending
  <1>3. CASE Len(writes) < WriteCap
    <2> DEFINE e == Frame("ack", i, calls[i].at)
    <2>1. writes' = Append(writes, e) /\ worker' = worker
      BY <1>3 DEF WorkerAnswers
    <2>2. e \in FrameSet /\ e.t = "ack" /\ writes \in Seq(FrameSet)
      BY <1>1 DEF Frame, FrameSet, AckFrames, InInv, SideInv, SideShape
    <2>3. FewerOthers(writes, writes')
      <3> HIDE DEF e
      <3> QED BY <2>1, <2>2, OthersAppend
    <2> QED
      BY <1>1, <1>2, <2>1, <2>3, RoomsShrink DEF Serving, Offering
  <1>4. CASE ~ (Len(writes) < WriteCap)
    <2>1. writes' = writes
      BY <1>4 DEF WorkerAnswers
    <2>2. ~ (Serving /\ Offering /\ abandoned = {})
      <3> SUFFICES ASSUME Serving, Offering, abandoned = {} PROVE FALSE
        OBVIOUS
      <3> DEFINE P == Pending \ {i}
      <3>1. writes \in Seq(FrameSet) /\ OneAck(writes) /\ OneOther(writes) /\ ~ Ack(writes, i)
        BY <1>1 DEF InInv, SideInv, SideShape, Once, Rooms
      <3>2. i \in Pending
        BY <1>1 DEF InInv, SideInv, Awaited, OnItsWay, Offering, Pending
      <3>3. \A k \in 1 .. Len(writes) : writes[k].t = "ack" => writes[k].id \in P
        <4> SUFFICES ASSUME NEW k \in 1 .. Len(writes), writes[k].t = "ack"
                     PROVE  writes[k].id \in P
          OBVIOUS
        <4>1. writes[k] \in FrameSet
          BY <3>1
        <4>2. writes[k].id \in Slots
          BY <4>1, FrameFields
        <4>3. Ack(writes, writes[k].id)
          BY DEF Ack
        <4> QED
          BY <3>1, <4>2, <4>3 DEF InInv, SideInv, Awaited, OnItsWay, Offering, Pending
      <3>4. /\ IsFiniteSet(P) /\ Cardinality(P) = Cardinality(Pending) - 1
            /\ Cardinality(Pending) \in Nat
        BY <3>2, FS_RemoveElement, FS_CardinalityType DEF Rooms
      <3>5. 0 \notin P
        BY IntakeBounds DEF Pending
      <3>6. Len(writes) <= Cardinality(P) + 1
        <4> HIDE DEF P
        <4> QED BY <3>1, <3>3, <3>4, <3>5, QueueLength
      <3> QED
        BY <1>4, <3>1, <3>4, <3>6 DEF Rooms
    <2> QED
      BY <1>1, <1>2, <2>1, <2>2, RoomsShrink, OthersSame DEF Serving, Offering
  <1> QED
    BY <1>3, <1>4

\* The session and its supervisor.
LEMMA SessionRooms ==
    ASSUME InInv, Rooms, WorkerStep \/ WriterSends \/ SessionStep \/ BootTimeout \/ Abort
    PROVE  Rooms'
  <1>0. /\ writes \in Seq(FrameSet) /\ up \in Seq(FrameSet)
        /\ pending \in [Slots -> Msgs \cup {None}]
    BY DEF InInv, SideInv, SideShape
  <1>1. ASSUME UNCHANGED procVars
        PROVE  Pending' = Pending /\ Offering' = Offering /\ abandoned' = abandoned
    BY <1>1 DEF procVars, Pending, Offering
  <1>2. CASE WorkerTakes
    <2>1. UNCHANGED <<procVars, sup, writes, worker, bounds>>
      BY <1>2 DEF WorkerTakes
    <2> QED
      BY <1>1, <2>1, RoomsStay
  <1>3. CASE \E i \in Slots : WorkerAnswers(i)
    BY <1>3, AnswerRooms
  <1>4. CASE WriterSends
    <2>1. /\ UNCHANGED <<sup, worker, bounds, abandoned, node, pending>>
          /\ writes # <<>> /\ writes' = Tail(writes)
      BY <1>4 DEF WriterSends
    <2>2. FewerOthers(writes, writes')
      BY <1>0, <2>1, OthersTail
    <2>3. Pending' = Pending
      BY <2>1 DEF Pending
    <2> QED
      BY <2>1, <2>2, <2>3, RoomsShrink DEF Serving, Offering
  <1>5. ASSUME NEW f, Reads(f)
        PROVE  /\ bounds' = bounds /\ Pending' = Pending /\ Offering' = Offering
               /\ abandoned' = abandoned /\ up # <<>> /\ f = Head(up)
    BY <1>5 DEF Reads, Pending, Offering
  <1>6. CASE ReadHello
    <2> DEFINE e == Frame("configure", 0, None)
    <2>1. /\ bounds' = bounds /\ Pending' = Pending /\ Offering' = Offering
          /\ abandoned' = abandoned
      BY <1>5, <1>6 DEF ReadHello
    <2>2. sup = "hello" /\ sup' = "configure" /\ writes' = Append(writes, e) /\ worker' = worker
      BY <1>6 DEF ReadHello
    <2>3. e \in FrameSet
      BY DEF Frame, FrameSet, PlainFrames
    <2>4. Others(writes) = {}
      BY <2>2 DEF Rooms, Serving
    <2>5. OneOther(writes')
      <3> HIDE DEF e
      <3> QED BY <1>0, <2>2, <2>3, <2>4, OthersAppend
    <2> QED
      BY <2>1, <2>2, <2>5 DEF Rooms, Serving, EventCap, WriteCap
  <1>7. CASE ReadResponse
    <2>1. /\ bounds' = bounds /\ Pending' = Pending /\ Offering' = Offering
          /\ abandoned' = abandoned
      BY <1>5, <1>7 DEF ReadResponse
    <2>2. sup = "configure" /\ sup' = "await" /\ writes' = writes /\ worker' = worker
      BY <1>7 DEF ReadResponse
    <2> QED
      BY <2>1, <2>2, RoomsShrink, OthersSame DEF Serving
  <1>8. CASE ReadEvent
    <2> DEFINE f == Head(up)
               e == Frame("ack", f.id, "failed")
    <2>1. /\ bounds' = bounds /\ Pending' = Pending /\ Offering' = Offering
          /\ abandoned' = abandoned /\ up # <<>>
      BY <1>5, <1>8 DEF ReadEvent
    <2>2. EventIn(f) /\ f.t = "event"
      BY <1>8 DEF ReadEvent
    <2>3. CASE sup' = "cleanup"
      BY <2>1, <2>3, RoomsEnd DEF Serving
    <2>4. CASE sup' # "cleanup"
      <3>1. UNCHANGED <<sup, worker>> /\ (writes' = writes \/ writes' = Append(writes, e))
        BY <2>2, <2>4 DEF EventIn, Breaks, Leaves, BootFails
      <3>2. e \in FrameSet /\ e.t = "ack"
        <4>1. f \in FrameSet
          BY <1>0, <2>1
        <4>2. f.id \in Slots
          BY <2>2, <4>1, FrameFields
        <4> QED
          BY <4>2 DEF Frame, FrameSet, AckFrames
      <3>3. FewerOthers(writes, writes')
        <4> HIDE DEF e
        <4> QED BY <1>0, <3>1, <3>2, OthersAppend, OthersSame
      <3> QED
        BY <2>1, <3>1, <3>3, RoomsShrink DEF Serving
    <2> QED
      BY <2>3, <2>4
  <1>9. CASE ReadState
    <2>1. /\ bounds' = bounds /\ Pending' = Pending /\ Offering' = Offering
          /\ abandoned' = abandoned
      BY <1>5, <1>9 DEF ReadState
    <2>2. \/ sup' = "cleanup"
          \/ UNCHANGED <<writes, worker>> /\ (sup' = sup \/ (sup = "await" /\ sup' = "run"))
      BY <1>9 DEF ReadState, Stays, Breaks, Leaves, BootFails, Listening
    <2> QED
      BY <2>1, <2>2, RoomsShrink, RoomsEnd, OthersSame DEF Serving
  <1>10. CASE SeesExit \/ BootTimeout \/ StopEnds
    <2>1. sup' = "cleanup" /\ UNCHANGED <<procVars, bounds>>
      BY <1>10 DEF SeesExit, BootTimeout, StopEnds, Breaks, Leaves, BootFails
    <2> QED
      BY <1>1, <2>1, RoomsEnd DEF Serving
  <1>11. CASE BeginStop
    <2>1. sup' \in {"stopping", "cleanup"} /\ UNCHANGED <<procVars, bounds>>
      BY <1>11 DEF BeginStop
    <2> QED
      BY <1>1, <2>1, RoomsEnd DEF Serving
  <1>12. CASE ReadStopping
    <2>1. bounds' = bounds /\ Pending' = Pending
      BY <1>5, <1>12 DEF ReadStopping
    <2>2. sup' \in {"stopping", "cleanup"}
      BY <1>12 DEF ReadStopping
    <2> QED
      BY <2>1, <2>2, RoomsEnd DEF Serving
  <1>13. CASE Cleanup \/ Abort
    <2>1. /\ sup' \in {"backoff", "ended"} /\ bounds' = bounds
          /\ pending' = NoIds \/ pending' = pending
      BY <1>13 DEF Cleanup, Abort, Reaped, Orphaned, AfterCleanup
    <2>2. Pending' \subseteq Pending
      BY <2>1 DEF Pending, NoIds
    <2> QED
      BY <2>1, <2>2, RoomsEnd DEF Serving
  <1>14. CASE Spawn
    <2>1. UNCHANGED <<pending, bounds, writes>> /\ sup = "spawn"
      BY <1>14 DEF Spawn
    <2>2. Pending' = Pending
      BY <2>1 DEF Pending
    <2>3. CASE sup' = "hello"
      <3>1. worker' /\ writes' = <<>>
        BY <1>14, <2>1, <2>3 DEF Spawn, InInv, SideInv, Bare
      <3> QED
        BY <2>1, <2>2, <3>1, OthersSame DEF Rooms, EventCap, WriteCap
    <2>4. CASE sup' # "hello"
      <3>1. sup' \in {"ended", "backoff"}
        BY <1>14, <2>4 DEF Spawn
      <3> QED
        BY <2>1, <2>2, <3>1, RoomsEnd DEF Serving
    <2> QED
      BY <2>3, <2>4
  <1>15. CASE Backoff
    <2>1. sup' \in {"ended", "spawn"} /\ UNCHANGED <<procVars, bounds>>
      BY <1>15 DEF Backoff
    <2> QED
      BY <1>1, <2>1, RoomsEnd DEF Serving
  <1> QED
    BY <1>2, <1>3, <1>4, <1>6, <1>7, <1>8, <1>9, <1>10, <1>11, <1>12, <1>13, <1>14, <1>15
       DEF WorkerStep, SessionStep

LEMMA RoomsKept == ASSUME InInv, Rooms, [InNext]_inVars PROVE Rooms'
  <1>1. ASSUME UNCHANGED sideVars PROVE Rooms'
    <2>1. UNCHANGED <<sup, writes, worker, bounds, pending, node, abandoned>>
      BY <1>1 DEF sideVars, procVars, sessVars
    <2> QED
      BY <2>1, RoomsStay DEF Pending, Offering
  <1>2. CASE \E i \in Slots : Serve(i)
    BY <1>1, <1>2 DEF Serve, Quiet
  <1>3. CASE Settle \/ Drop \/ Socket \/ Down
    BY <1>1, <1>3 DEF Settle, Drop, Socket, Down, Quiet, SockOnly
  <1>4. ASSUME NEW m \in Msgs, NEW k, Deliver(m, k) PROVE Rooms'
    BY <1>1, <1>4, OfferRooms DEF Deliver, SockOnly
  <1>5. CASE NodeProcess
    BY <1>5, NodeRooms DEF NodeProcess
  <1>6. CASE Session
    BY <1>6, SessionRooms DEF Session
  <1>7. CASE Start \/ Close
    <2>1. /\ UNCHANGED <<writes, worker, bounds, pending, node, abandoned>>
          /\ sup' = sup \/ sup' = "spawn"
      BY <1>7 DEF Start, Close, procVars
    <2>2. Pending' = Pending
      BY <2>1 DEF Pending
    <2> QED
      BY <2>1, <2>2, RoomsStay, RoomsEnd DEF Serving, Offering
  <1>8. CASE Crash
    <2>1. sup' = "ended" /\ bounds' = bounds /\ (pending' = pending \/ pending' = NoIds)
      BY <1>8 DEF Crash, Reaped, Orphaned
    <2>2. Pending' \subseteq Pending
      BY <2>1 DEF Pending, NoIds
    <2> QED
      BY <2>1, <2>2, RoomsEnd DEF Serving
  <1>9. CASE UNCHANGED inVars
    BY <1>1, <1>9 DEF inVars
  <1> QED
    BY <1>2, <1>3, <1>4, <1>5, <1>6, <1>7, <1>8, <1>9 DEF InNext

LEMMA RoomsInit == ASSUME InInit PROVE Rooms
  <1>1. PICK c \in Scenes : SideInit("ended", c.bounds)
    BY DEF InInit
  <1>2. bounds = c.bounds /\ pending = NoIds /\ sup = "ended"
    BY <1>1 DEF SideInit
  <1>3. {EventCap, WriteCap} \subseteq Nat /\ EventCap < WriteCap
    BY <1>2, ScenesAssumption DEF EventCap, WriteCap
  <1>4. Pending = {}
    BY <1>2 DEF Pending, NoIds
  <1>5. IsFiniteSet(Pending) /\ Cardinality(Pending) = 0
    BY <1>4, FS_EmptySet
  <1> QED
    BY <1>2, <1>3, <1>5 DEF Rooms, Serving

\* The pipe to Node and the queue before it, read as one.
LEMMA WayMatches ==
    ASSUME InInv, Rooms
    PROVE  AcksMatch
  <1> DEFINE way == writes \o chain
             acks == {k \in 1 .. Len(way) : way[k].t = "ack"}
  <1> SUFFICES ASSUME node \in {"starting", "up"}, sup \in {"configure", "await", "run"}
               PROVE  /\ \A k \in acks : /\ way[k].id \in Pending \cup abandoned
                                         /\ \A l \in acks : way[l].id = way[k].id => l = k
                      /\ worker \/ abandoned # {}
    BY DEF AcksMatch
  <1>1. worker \/ abandoned # {}
    BY DEF Rooms, Serving, Offering
  <1>2. /\ writes \in Seq(FrameSet) /\ chain \in Seq(FrameSet)
        /\ OneAck(writes) /\ OneAck(chain) /\ \A i \in Slots : Ack(writes, i) => ~ Ack(chain, i)
    BY DEF InInv, SideInv, SideShape, Once
  <1>3. ASSUME NEW k \in acks
        PROVE  /\ way[k].id \in Slots
               /\ \/ k \in 1 .. Len(writes) /\ way[k] = writes[k] /\ Ack(writes, way[k].id)
                  \/ /\ k - Len(writes) \in 1 .. Len(chain) /\ way[k] = chain[k - Len(writes)]
                     /\ Ack(chain, way[k].id) /\ k \in Int
    <2>1. /\ Len(writes) \in Nat /\ Len(chain) \in Nat
          /\ \/ k \in 1 .. Len(writes) /\ way[k] = writes[k]
             \/ k - Len(writes) \in 1 .. Len(chain) /\ way[k] = chain[k - Len(writes)] /\ k \in Int
      BY <1>2
    <2>2. way[k].t = "ack" /\ way[k] \in FrameSet
      BY <1>2, <2>1
    <2> HIDE DEF way
    <2>3. way[k].id \in Slots
      BY <2>2, FrameFields
    <2> QED
      BY <2>1, <2>2, <2>3 DEF Ack
  <1>4. ASSUME NEW k \in acks PROVE way[k].id \in Pending \cup abandoned
    <2> HIDE DEF way, acks
    <2>1. way[k].id \in Slots /\ OnItsWay(way[k].id)
      BY <1>3 DEF OnItsWay
    <2> QED
      BY <2>1 DEF InInv, SideInv, Awaited, Pending
  <1>5. ASSUME NEW k \in acks, NEW l \in acks, way[l].id = way[k].id PROVE l = k
    <2>1. way[k].t = "ack" /\ way[l].t = "ack" /\ Len(writes) \in Nat
      BY <1>2
    <2> HIDE DEF way, acks
    <2> DEFINE n == Len(writes)
               x == way[k].id
               w(j) == j \in 1 .. n /\ way[j] = writes[j] /\ Ack(writes, x)
               c(j) == j - n \in 1 .. Len(chain) /\ way[j] = chain[j - n] /\ Ack(chain, x) /\ j \in Int
    <2>2. (w(k) \/ c(k)) /\ (w(l) \/ c(l)) /\ x \in Slots
      BY <1>3, <1>5
    <2>3. ~ (Ack(writes, x) /\ Ack(chain, x))
      BY <1>2, <2>2
    <2>4. CASE w(k) /\ w(l)
      BY <1>2, <1>5, <2>1, <2>4 DEF OneAck
    <2>5. CASE c(k) /\ c(l)
      <3>1. k - n = l - n
        BY <1>2, <1>5, <2>1, <2>5 DEF OneAck
      <3> QED
        BY <2>1, <2>5, <3>1
    <2> QED
      BY <2>2, <2>3, <2>4, <2>5
  <1> QED
    BY <1>1, <1>4, <1>5

\* Every acknowledgement on its way answers one event, once, that Node waits for or has given
\* up on, and the worker finds room for every answer while Node has given up on none
\* (handleAck, EventWorker): for any number of events, slots and capacities, given more room
\* for frames than for events.
THEOREM AcksAlwaysMatch == InSpec => []AcksMatch
  <1>1. InInit => Rooms
    BY RoomsInit
  <1>2. InInv /\ Rooms /\ [InNext]_inVars => Rooms'
    BY RoomsKept
  <1>3. InInv /\ Rooms => AcksMatch
    BY WayMatches
  <1> QED
    BY <1>1, <1>2, <1>3, InInvariant, PTL DEF InSpec
=============================================================================
