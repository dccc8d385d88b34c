---------------------------- MODULE ClientProofs ----------------------------
(***************************************************************************)
(* Proofs about Client: what a call returns is true (OutcomeIsTrue), a     *)
(* request of the app-server is answered at most once (AskedOnce), and a   *)
(* thread holds its reports back only for a start that is under way        *)
(* (DeferralIsOwned), for any number of calls, requests, subscriptions and *)
(* faults and every capacity.                                              *)
(*                                                                         *)
(* None of them is inductive.  "Not applied" is only true for good if      *)
(* no copy of the request is left that the app-server could still take, so *)
(* WireInv says that every frame is in one place, the actor's queue or the *)
(* pipe, and CallInv ties the stage of a call, its reply and the refusals  *)
(* that are under way to the place of its request and to what the          *)
(* app-server has done with it.  AskInv does the same for an answer to the *)
(* app-server: its lease, its place and the answers counted so far.        *)
(*                                                                         *)
(* A step that only takes messages out of queues, ends the connection or   *)
(* works on the router's own state is a QuietStep and preserves all of     *)
(* this (QuietInv); the others have a lemma each.                          *)
(*                                                                         *)
(* A pending start (RouteInv) has an owner: its call, or a command in the  *)
(* router's queue that will end it; and a call whose start is not pending  *)
(* yet, or not any more, is waited for by no thread, so that no late       *)
(* command revives it.  Whatever the router does with a report it Settles: *)
(* it makes no start pending and ends a deferral at most.  The deferred    *)
(* reports are routed by a fold of the library, a CHOSEN solution of its   *)
(* equation: FoldSolvable shows that there is one, and FoldSettles that    *)
(* every solution settles, by the least number of reports for which it     *)
(* would not.                                                              *)
(***************************************************************************)
EXTENDS Client, SequenceTheorems, FiniteSetTheorems, WellFoundedInduction, TLAPS

\* The frames the bridge sends, and the messages it receives.
Frames == [k : {"request"}, c : Callers] \union [k : {"respond"}, q : Asks]
Messages == [k : {"result", "error"}, c : Callers] \union [k : {"ask"}, q : Asks]
              \union [k : {"junk", "eof"}]
              \union [k : {"started", "delta", "usage", "item", "completed"},
                      c : Callers, t : Threads, v : 0 .. 1]

\* The values of turn, reply and lease.
TurnStates == {"none", "accepted", "refused", "started", "streaming", "item", "completed"}
Replies == {"none", "result", "error", "tooLarge", "lost"}
Leases == {"none", "armed", "actor", "resolved"}

\* Is a request, an answer, a request of the server, a refusal in the queue s?
HasRequest(s, c) == \E i \in DOMAIN s : s[i].k = "request" /\ s[i].c = c
HasAnswer(s, q) == \E i \in DOMAIN s : s[i].k = "respond" /\ s[i].q = q
HasAsk(s, q) == \E i \in DOMAIN s : s[i].k = "ask" /\ s[i].q = q
HasRefusal(s, c) == \E i \in DOMAIN s : s[i].k = "error" /\ s[i].c = c

\* No two places of s hold the same frame; nor the same request of the server.
Distinct(s) == \A i, j \in DOMAIN s : s[i] = s[j] => i = j
AsksDistinct(s) == \A i, j \in DOMAIN s : s[i].k = "ask" /\ s[i] = s[j] => i = j

\* The scenario and the three queues of the connection.
WireType ==
  /\ scene \in Scenarios
  /\ rpcq \in Seq(Frames)
  /\ out \in Seq(Frames)
  /\ inbox \in Seq(Messages)

\* The state of calls, requests of the server, and the connection.
StateType ==
  /\ call \in [Callers -> Stages \union Verdicts]
  /\ reply \in [Callers -> Replies]
  /\ turn \in [Callers -> TurnStates]
  /\ asked \in [Asks -> Int]
  /\ lease \in [Asks -> Leases]
  /\ cancelled \in BOOLEAN
  /\ stop \in BOOLEAN
  /\ conn \in {"open", "lost"}
  /\ owed \subseteq Callers

\* Every frame is in one place.
WireInv ==
  /\ Distinct(rpcq)
  /\ Distinct(out)
  /\ \A c \in Callers : ~(HasRequest(rpcq, c) /\ HasRequest(out, c))
  /\ \A q \in Asks : ~(HasAnswer(rpcq, q) /\ HasAnswer(out, q))
  /\ AsksDistinct(inbox)

\* No request of call c, no answer to request q is under way.
Unsent(c) == ~HasRequest(rpcq, c) /\ ~HasRequest(out, c)
Unreplied(q) == ~HasAnswer(rpcq, q) /\ ~HasAnswer(out, q)
\* The stages of a call before its request.
Before == {"idle", "ensuring", "beginning", "releasing"}

\* Where the request of a call is and what the app-server did with it.
CallInv ==
  \A c \in Callers :
    /\ call[c] \in Before => Unsent(c) /\ turn[c] = "none" /\ reply[c] # "tooLarge"
    /\ ~Unsent(c) => turn[c] = "none"
    /\ c \in owed => turn[c] # "none"
    /\ HasRefusal(inbox, c) => turn[c] = "refused"
    /\ reply[c] = "error" => turn[c] = "refused"
    /\ reply[c] = "tooLarge" => Unsent(c) /\ turn[c] = "none"
    /\ call[c] = "notApplied" => turn[c] = "refused" \/ (Unsent(c) /\ turn[c] = "none")

\* Where the answer to a request of the app-server is, and who owes it.
AskInv ==
  /\ conn = "lost" => cancelled
  /\ \A q \in Asks :
       /\ HasAsk(inbox, q) => lease[q] \in {"none", "resolved"} /\ asked[q] = 0
                              /\ Unreplied(q)
       /\ asked[q] < 0 => lease[q] \in {"none", "resolved"}
       /\ lease[q] = "armed" => asked[q] = 0
       /\ ~Unreplied(q) => lease[q] \in {"actor", "resolved"} /\ asked[q] = 0
       /\ asked[q] <= 1
       /\ lease[q] = "resolved" => asked[q] = 1 \/ cancelled

\* The inductive invariant.
Inv == WireType /\ StateType /\ WireInv /\ CallInv /\ AskInv /\ UncertainEndsEpoch

-----------------------------------------------------------------------------

\* s2 is what is left of s when some places are taken out; Drops: place k is one.
Shrinks(S, s2, s) ==
  /\ s2 \in Seq(S)
  /\ \E f \in [DOMAIN s2 -> DOMAIN s] :
       /\ \A i, j \in DOMAIN s2 : f[i] = f[j] => i = j
       /\ \A i \in DOMAIN s2 : s2[i] = s[f[i]]

Drops(S, s2, s, k) ==
  /\ s2 \in Seq(S)
  /\ \E f \in [DOMAIN s2 -> DOMAIN s \ {k}] :
       /\ \A i, j \in DOMAIN s2 : f[i] = f[j] => i = j
       /\ \A i \in DOMAIN s2 : s2[i] = s[f[i]]

\* RemoveAt, element by element.
LEMMA RemoveAtIs ==
    ASSUME NEW S, NEW s \in Seq(S), NEW k \in 1 .. Len(s)
    PROVE  /\ RemoveAt(s, k) \in Seq(S)
           /\ Len(RemoveAt(s, k)) = Len(s) - 1
           /\ \A j \in 1 .. Len(s) - 1 :
                RemoveAt(s, k)[j] = s[IF j < k THEN j ELSE j + 1]
  <1> DEFINE a == SubSeq(s, 1, k - 1)
             b == SubSeq(s, k + 1, Len(s))
  <1>1. Len(s) \in Nat /\ k \in Nat /\ 1 <= k /\ k <= Len(s)
    OBVIOUS
  <1>2. a \in Seq(S) /\ Len(a) = k - 1 /\ \A j \in 1 .. k - 1 : a[j] = s[j]
    BY <1>1
  <1>3. b \in Seq(S) /\ Len(b) = Len(s) - k /\ \A j \in 1 .. Len(s) - k : b[j] = s[k + j]
    BY <1>1
  <1> HIDE DEF a, b
  <1>41. /\ a \o b \in Seq(S) /\ Len(a \o b) = Len(a) + Len(b)
         /\ \A j \in 1 .. Len(a) + Len(b) :
              (a \o b)[j] = IF j <= Len(a) THEN a[j] ELSE b[j - Len(a)]
    BY <1>2, <1>3, ConcatProperties, Zenon
  <1>4. /\ a \o b \in Seq(S) /\ Len(a \o b) = Len(s) - 1
        /\ \A j \in 1 .. Len(s) - 1 :
             (a \o b)[j] = IF j <= Len(a) THEN a[j] ELSE b[j - Len(a)]
    BY <1>1, <1>2, <1>3, <1>41
  <1>5. ASSUME NEW j \in 1 .. Len(s) - 1
        PROVE  (a \o b)[j] = s[IF j < k THEN j ELSE j + 1]
    <2>1. CASE j < k
      BY <1>1, <1>2, <1>4, <2>1
    <2>2. CASE j >= k
      <3>1. j - (k - 1) \in 1 .. Len(s) - k /\ k + (j - (k - 1)) = j + 1
        BY <1>1, <2>2
      <3> QED
        BY <1>1, <1>2, <1>3, <1>4, <2>2, <3>1
    <2>3. j < k \/ j >= k
      BY <1>1
    <2> QED
      BY <2>1, <2>2, <2>3, Zenon
  <1>6. RemoveAt(s, k) = a \o b
    BY DEF RemoveAt, a, b
  <1> QED
    BY <1>4, <1>5, <1>6

\* RemoveAt takes out the place it is given.
LEMMA RemoveAtDrops ==
    ASSUME NEW S, NEW s \in Seq(S), NEW k \in DOMAIN s
    PROVE  Drops(S, RemoveAt(s, k), s, k)
  <1> DEFINE f == [j \in 1 .. Len(s) - 1 |-> IF j < k THEN j ELSE j + 1]
  <1>1. k \in 1 .. Len(s) /\ DOMAIN s = 1 .. Len(s) /\ Len(s) \in Nat
    OBVIOUS
  <1>2. /\ RemoveAt(s, k) \in Seq(S)
        /\ Len(RemoveAt(s, k)) = Len(s) - 1
        /\ \A j \in 1 .. Len(s) - 1 : RemoveAt(s, k)[j] = s[IF j < k THEN j ELSE j + 1]
    BY <1>1, RemoveAtIs
  <1>3. DOMAIN RemoveAt(s, k) = 1 .. Len(s) - 1
    BY <1>2
  <1>4. f \in [DOMAIN RemoveAt(s, k) -> DOMAIN s \ {k}]
    BY <1>1, <1>3
  <1>5. \A i, j \in 1 .. Len(s) - 1 : f[i] = f[j] => i = j
    BY <1>1
  <1>6. \A i \in 1 .. Len(s) - 1 : RemoveAt(s, k)[i] = s[f[i]]
    BY <1>2
  <1> HIDE DEF f
  <1> QED
    BY SMTT(30), <1>2, <1>3, <1>4, <1>5, <1>6 DEF Drops

\* Tail takes out the first place.
LEMMA TailDrops ==
    ASSUME NEW S, NEW s \in Seq(S), s # <<>>
    PROVE  Drops(S, Tail(s), s, 1) /\ Head(s) = s[1] /\ 1 \in DOMAIN s /\ Head(s) \in S
  <1> DEFINE f == [j \in 1 .. Len(s) - 1 |-> j + 1]
  <1>1. /\ DOMAIN s = 1 .. Len(s) /\ Len(s) \in Nat /\ Len(s) >= 1
        /\ Head(s) = s[1] /\ Head(s) \in S
    OBVIOUS
  <1>2. /\ Tail(s) \in Seq(S) /\ DOMAIN Tail(s) = 1 .. Len(s) - 1
        /\ \A j \in 1 .. Len(s) - 1 : Tail(s)[j] = s[j + 1]
    OBVIOUS
  <1>3. f \in [DOMAIN Tail(s) -> DOMAIN s \ {1}]
    BY <1>1, <1>2
  <1>4. \A i, j \in 1 .. Len(s) - 1 : f[i] = f[j] => i = j
    BY <1>1
  <1>5. \A i \in 1 .. Len(s) - 1 : Tail(s)[i] = s[f[i]]
    BY <1>2
  <1> HIDE DEF f
  <1> QED
    BY <1>1, <1>2, <1>3, <1>4, <1>5 DEF Drops

\* A prefix takes out the places after it.
LEMMA PrefixShrinks ==
    ASSUME NEW S, NEW s \in Seq(S), NEW n \in 0 .. Len(s)
    PROVE  Shrinks(S, SubSeq(s, 1, n), s)
  <1> DEFINE f == [j \in 1 .. n |-> j]
  <1>1. /\ DOMAIN s = 1 .. Len(s) /\ Len(s) \in Nat /\ n \in Nat /\ n <= Len(s)
        /\ 1 .. n \subseteq DOMAIN s
    OBVIOUS
  <1>2. /\ SubSeq(s, 1, n) \in Seq(S) /\ DOMAIN SubSeq(s, 1, n) = 1 .. n
        /\ \A j \in 1 .. n : SubSeq(s, 1, n)[j] = s[j]
    BY <1>1
  <1>3. f \in [DOMAIN SubSeq(s, 1, n) -> DOMAIN s]
    BY <1>1, <1>2
  <1>4. \A i, j \in 1 .. n : f[i] = f[j] => i = j
    BY <1>1
  <1>5. \A i \in 1 .. n : SubSeq(s, 1, n)[i] = s[f[i]]
    BY <1>2
  <1> HIDE DEF f
  <1> QED
    BY <1>1, <1>2, <1>3, <1>4, <1>5 DEF Shrinks

\* A queue that stays as it is.
LEMMA SameShrinks ==
    ASSUME NEW S, NEW s \in Seq(S)
    PROVE  Shrinks(S, s, s)
  <1> DEFINE f == [j \in DOMAIN s |-> j]
  <1>1. /\ f \in [DOMAIN s -> DOMAIN s]
        /\ \A i, j \in DOMAIN s : f[i] = f[j] => i = j
        /\ \A i \in DOMAIN s : s[i] = s[f[i]]
    OBVIOUS
  <1> HIDE DEF f
  <1> QED
    BY <1>1 DEF Shrinks

\* A queue that is cleared.
LEMMA EmptyShrinks ==
    ASSUME NEW S, NEW s
    PROVE  Shrinks(S, <<>>, s)
  <1> DEFINE f == [j \in {} |-> j]
  <1>1. <<>> \in Seq(S) /\ DOMAIN << >> = {}
    OBVIOUS
  <1>2. f \in [{} -> DOMAIN s]
    OBVIOUS
  <1> HIDE DEF f
  <1> QED
    BY <1>1, <1>2 DEF Shrinks

\* Drops is a case of Shrinks.
LEMMA DropsShrinks ==
    ASSUME NEW S, NEW s2, NEW s, NEW k, Drops(S, s2, s, k)
    PROVE  Shrinks(S, s2, s)
  BY DEF Drops, Shrinks

\* What holds of a sequence holds of what is left of it.
LEMMA ShrinkKeeps ==
    ASSUME NEW S, NEW s2, NEW s, Shrinks(S, s2, s)
    PROVE  /\ s2 \in Seq(S)
           /\ Distinct(s) => Distinct(s2)
           /\ AsksDistinct(s) => AsksDistinct(s2)
           /\ \A c : HasRequest(s2, c) => HasRequest(s, c)
           /\ \A c : HasRefusal(s2, c) => HasRefusal(s, c)
           /\ \A q : HasAnswer(s2, q) => HasAnswer(s, q)
           /\ \A q : HasAsk(s2, q) => HasAsk(s, q)
  <1>1. s2 \in Seq(S)
    BY DEF Shrinks
  <1>2. PICK f \in [DOMAIN s2 -> DOMAIN s] :
               /\ \A i, j \in DOMAIN s2 : f[i] = f[j] => i = j
               /\ \A i \in DOMAIN s2 : s2[i] = s[f[i]]
    BY DEF Shrinks
  <1>3. \A i \in DOMAIN s2 : f[i] \in DOMAIN s
    BY <1>2
  <1>4. Distinct(s) => Distinct(s2)
    BY <1>2, <1>3 DEF Distinct
  <1>5. AsksDistinct(s) => AsksDistinct(s2)
    BY <1>2, <1>3 DEF AsksDistinct
  <1>6. \A c : HasRequest(s2, c) => HasRequest(s, c)
    BY <1>2, <1>3 DEF HasRequest
  <1>7. \A c : HasRefusal(s2, c) => HasRefusal(s, c)
    BY <1>2, <1>3 DEF HasRefusal
  <1>8. \A q : HasAnswer(s2, q) => HasAnswer(s, q)
    BY <1>2, <1>3 DEF HasAnswer
  <1>9. \A q : HasAsk(s2, q) => HasAsk(s, q)
    BY <1>2, <1>3 DEF HasAsk
  <1> QED
    BY <1>1, <1>4, <1>5, <1>6, <1>7, <1>8, <1>9

\* What is taken out of a queue is no longer in it.
LEMMA DropIsGone ==
    ASSUME NEW S, NEW s2, NEW s, NEW k \in DOMAIN s, Drops(S, s2, s, k)
    PROVE  /\ s \in Seq(Frames) /\ S = Frames /\ Distinct(s) /\ s[k].k = "request"
                => ~HasRequest(s2, s[k].c)
           /\ s \in Seq(Frames) /\ S = Frames /\ Distinct(s) /\ s[k].k = "respond"
                => ~HasAnswer(s2, s[k].q)
           /\ s \in Seq(Messages) /\ S = Messages /\ AsksDistinct(s) /\ s[k].k = "ask"
                => ~HasAsk(s2, s[k].q)
  <1>1. PICK f \in [DOMAIN s2 -> DOMAIN s \ {k}] :
               /\ \A i, j \in DOMAIN s2 : f[i] = f[j] => i = j
               /\ \A i \in DOMAIN s2 : s2[i] = s[f[i]]
    BY DEF Drops
  <1>2. \A i \in DOMAIN s2 : f[i] \in DOMAIN s /\ f[i] # k
    BY <1>1
  <1>3. ASSUME s \in Seq(Frames), Distinct(s), s[k].k = "request", HasRequest(s2, s[k].c)
        PROVE  FALSE
    <2>1. PICK i \in DOMAIN s2 : s2[i].k = "request" /\ s2[i].c = s[k].c
      BY <1>3 DEF HasRequest
    <2>2. s[f[i]].k = "request" /\ s[f[i]].c = s[k].c
      BY <1>1, <2>1
    <2>3. s[f[i]] \in Frames /\ s[k] \in Frames
      BY <1>2, <1>3
    <2>4. s[f[i]] = s[k]
      BY <1>3, <2>2, <2>3 DEF Frames
    <2> QED
      BY <1>2, <1>3, <2>4 DEF Distinct
  <1>4. ASSUME s \in Seq(Frames), Distinct(s), s[k].k = "respond", HasAnswer(s2, s[k].q)
        PROVE  FALSE
    <2>1. PICK i \in DOMAIN s2 : s2[i].k = "respond" /\ s2[i].q = s[k].q
      BY <1>4 DEF HasAnswer
    <2>2. s[f[i]].k = "respond" /\ s[f[i]].q = s[k].q
      BY <1>1, <2>1
    <2>3. s[f[i]] \in Frames /\ s[k] \in Frames
      BY <1>2, <1>4
    <2>4. s[f[i]] = s[k]
      BY <1>4, <2>2, <2>3 DEF Frames
    <2> QED
      BY <1>2, <1>4, <2>4 DEF Distinct
  <1>5. ASSUME s \in Seq(Messages), AsksDistinct(s), s[k].k = "ask", HasAsk(s2, s[k].q)
        PROVE  FALSE
    <2>1. PICK i \in DOMAIN s2 : s2[i].k = "ask" /\ s2[i].q = s[k].q
      BY <1>5 DEF HasAsk
    <2>2. s[f[i]].k = "ask" /\ s[f[i]].q = s[k].q
      BY <1>1, <2>1
    <2>3. s[f[i]] \in Messages /\ s[k] \in Messages
      BY <1>2, <1>5
    <2>4. s[f[i]] = s[k]
      BY <1>5, <2>2, <2>3 DEF Messages
    <2> QED
      BY <1>2, <1>5, <2>4 DEF AsksDistinct
  <1> QED
    BY <1>3, <1>4, <1>5

-----------------------------------------------------------------------------

\* Append, element by element.
LEMMA AppendIs ==
    ASSUME NEW S, NEW s \in Seq(S), NEW m \in S
    PROVE  /\ Append(s, m) \in Seq(S)
           /\ \A i \in DOMAIN s : i \in DOMAIN Append(s, m) /\ Append(s, m)[i] = s[i]
           /\ Len(s) + 1 \in DOMAIN Append(s, m) /\ Append(s, m)[Len(s) + 1] = m
           /\ \A i \in DOMAIN Append(s, m) : i \in DOMAIN s \/ i = Len(s) + 1
  OBVIOUS

\* What a queue holds after a message is appended.
LEMMA AppendAdds ==
    ASSUME NEW S, NEW s \in Seq(S), NEW m \in S
    PROVE  /\ Append(s, m) \in Seq(S)
           /\ \A c : HasRequest(Append(s, m), c) <=>
                       HasRequest(s, c) \/ (m.k = "request" /\ m.c = c)
           /\ \A c : HasRefusal(Append(s, m), c) <=>
                       HasRefusal(s, c) \/ (m.k = "error" /\ m.c = c)
           /\ \A q : HasAnswer(Append(s, m), q) <=>
                       HasAnswer(s, q) \/ (m.k = "respond" /\ m.q = q)
           /\ \A q : HasAsk(Append(s, m), q) <=>
                       HasAsk(s, q) \/ (m.k = "ask" /\ m.q = q)
           /\ Distinct(s) /\ (\A i \in DOMAIN s : s[i] # m) => Distinct(Append(s, m))
           /\ AsksDistinct(s) /\ (m.k = "ask" => \A i \in DOMAIN s : s[i] # m)
                => AsksDistinct(Append(s, m))
  <1> DEFINE a == Append(s, m)
             n == Len(s) + 1
  <1>1. /\ a \in Seq(S)
        /\ \A i \in DOMAIN s : i \in DOMAIN a /\ a[i] = s[i]
        /\ n \in DOMAIN a /\ a[n] = m
        /\ \A i \in DOMAIN a : i \in DOMAIN s \/ i = n
    BY AppendIs
  <1> HIDE DEF a, n
  <1>2. \A c : HasRequest(a, c) <=> HasRequest(s, c) \/ (m.k = "request" /\ m.c = c)
    BY <1>1 DEF HasRequest
  <1>3. \A c : HasRefusal(a, c) <=> HasRefusal(s, c) \/ (m.k = "error" /\ m.c = c)
    BY <1>1 DEF HasRefusal
  <1>4. \A q : HasAnswer(a, q) <=> HasAnswer(s, q) \/ (m.k = "respond" /\ m.q = q)
    BY <1>1 DEF HasAnswer
  <1>5. \A q : HasAsk(a, q) <=> HasAsk(s, q) \/ (m.k = "ask" /\ m.q = q)
    BY <1>1 DEF HasAsk
  <1>6. Distinct(s) /\ (\A i \in DOMAIN s : s[i] # m) => Distinct(a)
    BY <1>1 DEF Distinct
  <1>7. AsksDistinct(s) /\ (m.k = "ask" => \A i \in DOMAIN s : s[i] # m)
          => AsksDistinct(a)
    BY <1>1 DEF AsksDistinct
  <1> QED
    BY <1>1, <1>2, <1>3, <1>4, <1>5, <1>6, <1>7 DEF a

\* The inbox has no refusal and no request of the server that it had not before.
InboxKept ==
  /\ inbox' \in Seq(Messages)
  /\ AsksDistinct(inbox) => AsksDistinct(inbox')
  /\ \A c : HasRefusal(inbox', c) => HasRefusal(inbox, c)
  /\ \A q : HasAsk(inbox', q) => HasAsk(inbox, q)
\* No frame is queued or written.
Wires ==
  /\ scene' = scene
  /\ Shrinks(Frames, rpcq', rpcq)
  /\ Shrinks(Frames, out', out)
  /\ InboxKept
\* Calls get results, or learn that the connection is lost.
Replied ==
  /\ reply' \in [Callers -> Replies]
  /\ \A c \in Callers : reply'[c] = reply[c] \/ reply'[c] \in {"lost", "result"}
\* A lease is resolved only as the connection ends.
Leased ==
  /\ lease' \in [Asks -> Leases]
  /\ \A q \in Asks : lease'[q] = lease[q] \/ (lease'[q] = "resolved" /\ cancelled')
\* A cancelled token stays cancelled, and a lost connection has cancelled its own.
Flags ==
  /\ cancelled' \in BOOLEAN /\ stop' \in BOOLEAN /\ conn' \in {"open", "lost"}
  /\ cancelled => cancelled'
  /\ stop => stop'
  /\ conn' = "lost" => cancelled'
\* A step that starts no call and no request, and resolves a request of the
\* server only by ending the connection.
QuietStep ==
  /\ Wires /\ Replied /\ Leased /\ Flags
  /\ UNCHANGED <<call, turn, asked, owed>>

\* What a step without a new frame keeps of the queues.
LEMMA WiresKeep ==
    ASSUME WireType, WireInv, Wires
    PROVE  /\ WireType' /\ WireInv'
           /\ \A c \in Callers : Unsent(c) => Unsent(c)'
           /\ \A c \in Callers : HasRefusal(inbox, c)' => HasRefusal(inbox, c)
           /\ \A q \in Asks : Unreplied(q) => Unreplied(q)'
           /\ \A q \in Asks : HasAsk(inbox, q)' => HasAsk(inbox, q)
  <1>1. /\ rpcq' \in Seq(Frames)
        /\ Distinct(rpcq) => Distinct(rpcq')
        /\ \A c : HasRequest(rpcq', c) => HasRequest(rpcq, c)
        /\ \A q : HasAnswer(rpcq', q) => HasAnswer(rpcq, q)
    BY ShrinkKeeps DEF Wires
  <1>2. /\ out' \in Seq(Frames)
        /\ Distinct(out) => Distinct(out')
        /\ \A c : HasRequest(out', c) => HasRequest(out, c)
        /\ \A q : HasAnswer(out', q) => HasAnswer(out, q)
    BY ShrinkKeeps DEF Wires
  <1>3. /\ inbox' \in Seq(Messages)
        /\ AsksDistinct(inbox) => AsksDistinct(inbox')
        /\ \A c : HasRefusal(inbox', c) => HasRefusal(inbox, c)
        /\ \A q : HasAsk(inbox', q) => HasAsk(inbox, q)
    BY DEF Wires, InboxKept
  <1>4. WireType'
    BY <1>1, <1>2, <1>3 DEF WireType, Wires
  <1>5. WireInv'
    BY <1>1, <1>2, <1>3 DEF WireInv
  <1>6. \A c \in Callers : Unsent(c) => Unsent(c)'
    BY <1>1, <1>2 DEF Unsent
  <1>7. \A q \in Asks : Unreplied(q) => Unreplied(q)'
    BY <1>1, <1>2 DEF Unreplied
  <1> QED
    BY <1>3, <1>4, <1>5, <1>6, <1>7

\* A quiet step preserves the invariant.
LEMMA QuietInv ==
    ASSUME Inv, QuietStep
    PROVE  Inv'
  <1>1. WireType /\ StateType /\ WireInv /\ CallInv /\ AskInv /\ UncertainEndsEpoch
    BY DEF Inv
  <1>2. /\ WireType' /\ WireInv'
        /\ \A c \in Callers : Unsent(c) => Unsent(c)'
        /\ \A c \in Callers : HasRefusal(inbox, c)' => HasRefusal(inbox, c)
        /\ \A q \in Asks : Unreplied(q) => Unreplied(q)'
        /\ \A q \in Asks : HasAsk(inbox, q)' => HasAsk(inbox, q)
    BY <1>1, WiresKeep DEF QuietStep
  <1>3. StateType'
    BY <1>1 DEF QuietStep, StateType, Replied, Leased, Flags
  <1>4. CallInv'
    <2> SUFFICES ASSUME NEW c \in Callers
                 PROVE  /\ call'[c] \in Before => Unsent(c)' /\ turn'[c] = "none"
                                                  /\ reply'[c] # "tooLarge"
                        /\ ~Unsent(c)' => turn'[c] = "none"
                        /\ c \in owed' => turn'[c] # "none"
                        /\ HasRefusal(inbox, c)' => turn'[c] = "refused"
                        /\ reply'[c] = "error" => turn'[c] = "refused"
                        /\ reply'[c] = "tooLarge" => Unsent(c)' /\ turn'[c] = "none"
                        /\ call'[c] = "notApplied" =>
                             turn'[c] = "refused" \/ (Unsent(c)' /\ turn'[c] = "none")
      BY DEF CallInv
    <2>1. call' = call /\ turn' = turn /\ owed' = owed
      BY DEF QuietStep
    <2>2. reply'[c] = reply[c] \/ reply'[c] \in {"lost", "result"}
      BY DEF QuietStep, Replied
    <2> QED
      BY <1>1, <1>2, <2>1, <2>2 DEF CallInv
  <1>5. AskInv'
    <2>1. asked' = asked /\ (cancelled => cancelled') /\ (conn' = "lost" => cancelled')
      BY DEF QuietStep, Flags
    <2>2. \A q \in Asks : lease'[q] = lease[q] \/ (lease'[q] = "resolved" /\ cancelled')
      BY DEF QuietStep, Leased
    <2> QED
      BY <1>1, <1>2, <2>1, <2>2 DEF AskInv
  <1>6. UncertainEndsEpoch'
    BY <1>1 DEF UncertainEndsEpoch, QuietStep, Flags
  <1> QED
    BY <1>2, <1>3, <1>4, <1>5, <1>6 DEF Inv

\* Messages that are taken out of the inbox.
LEMMA InboxShrinks ==
    ASSUME Shrinks(Messages, inbox', inbox)
    PROVE  InboxKept
  BY ShrinkKeeps DEF InboxKept

\* Queues that stay as they are.
LEMMA SameWires ==
    ASSUME WireType
    PROVE  /\ rpcq' = rpcq => Shrinks(Frames, rpcq', rpcq)
           /\ out' = out => Shrinks(Frames, out', out)
           /\ inbox' = inbox => InboxKept
  BY SameShrinks, InboxShrinks DEF WireType

\* All the queues stay as they are.
LEMMA QuietWires ==
    ASSUME WireType, UNCHANGED <<scene, rpcq, out, inbox>>
    PROVE  Wires
  BY SameWires DEF Wires

\* Replies that stay as they are.
LEMMA SameReplies ==
    ASSUME StateType, reply' = reply
    PROVE  Replied
  BY DEF StateType, Replied

\* Leases that stay as they are.
LEMMA SameLeases ==
    ASSUME StateType, lease' = lease
    PROVE  Leased
  BY DEF StateType, Leased

\* Tokens that stay as they are.
LEMMA SameFlags ==
    ASSUME StateType, AskInv, UNCHANGED <<cancelled, stop, conn>>
    PROVE  Flags
  BY DEF StateType, AskInv, Flags

\* run_actor leaves its loop.
LEMMA EndsInv ==
    ASSUME Inv, Ends, UNCHANGED <<scene, call, stop>>, UNCHANGED serverVars
    PROVE  Inv'
  <1>1. WireType /\ StateType
    BY DEF Inv
  <1>2. Wires
    <2>1. PICK n \in 0 .. Len(out) : out' = SubSeq(out, 1, n)
      BY DEF Ends
    <2>2. Shrinks(Frames, out', out)
      BY <1>1, <2>1, PrefixShrinks DEF WireType
    <2>3. rpcq' = <<>> /\ inbox' = <<>>
      BY DEF Ends
    <2> QED
      BY <2>2, <2>3, EmptyShrinks, InboxShrinks DEF Wires
  <1>3. Replied
    <2>1. \A c \in Callers : reply'[c] \in {"lost", reply[c]}
      BY DEF Ends
    <2>2. reply' \in [Callers -> Replies]
      BY <1>1 DEF Ends, StateType, Replies
    <2> QED
      BY <2>1, <2>2 DEF Replied
  <1>4. Leased
    <2>1. \A q \in Asks : lease'[q] \in {"resolved", lease[q]}
      BY DEF Ends
    <2>2. lease' \in [Asks -> Leases] /\ cancelled'
      BY <1>1 DEF Ends, StateType, Leases
    <2> QED
      BY <2>1, <2>2 DEF Leased
  <1>5. Flags
    BY <1>1 DEF Flags, Ends, StateType
  <1>6. QuietStep
    BY <1>2, <1>3, <1>4, <1>5 DEF QuietStep, serverVars
  <1> QED
    BY <1>6, QuietInv

\* Steps of the actor and of the transport that move neither a call nor an answer.
LEMMA EmitDriftInv ==
    ASSUME Inv, EmitDrift, inbox # <<>>, UNCHANGED <<scene, call, stop>>,
           UNCHANGED serverVars
    PROVE  Inv'
  <1>1. WireType /\ StateType /\ AskInv
    BY DEF Inv
  <1>2. CASE FailClosed \/ ~CanEmit
    BY <1>2, EndsInv DEF EmitDrift
  <1>3. CASE ~(FailClosed \/ ~CanEmit)
    <2>1. inbox' = Tail(inbox) /\ UNCHANGED <<conn, cancelled, rpcq, reply, out, lease>>
      BY <1>3 DEF EmitDrift, Taken
    <2>2. Shrinks(Messages, inbox', inbox)
      BY <1>1, <2>1, TailDrops, DropsShrinks DEF WireType
    <2>3. Wires
      BY <1>1, <2>1, <2>2, SameWires, InboxShrinks DEF Wires
    <2>4. Replied /\ Leased /\ Flags
      BY <1>1, <2>1, SameReplies, SameLeases, SameFlags
    <2>5. QuietStep
      BY <2>3, <2>4 DEF QuietStep, serverVars
    <2> QED
      BY <2>5, QuietInv
  <1> QED
    BY <1>2, <1>3

\* A report is placed or held.
LEMMA TakeNoteInv ==
    ASSUME Inv, inbox # <<>>, UNCHANGED <<scene, call, stop>>, UNCHANGED serverVars,
           NEW e, TakeNote(e)
    PROVE  Inv'
  <1>1. WireType /\ StateType /\ AskInv
    BY DEF Inv
  <1>2. inbox' = Tail(inbox) /\ UNCHANGED <<conn, cancelled, rpcq, reply, out, lease>>
    BY DEF TakeNote, Taken
  <1>3. Shrinks(Messages, inbox', inbox)
    BY <1>1, <1>2, TailDrops, DropsShrinks DEF WireType
  <1>4. Wires
    BY <1>1, <1>2, <1>3, SameWires, InboxShrinks DEF Wires
  <1>5. Replied /\ Leased /\ Flags
    BY <1>1, <1>2, SameReplies, SameLeases, SameFlags
  <1>6. QuietStep
    BY <1>4, <1>5 DEF QuietStep, serverVars
  <1> QED
    BY <1>6, QuietInv

\* WithoutAnswer takes out at most one place.
LEMMA WithoutAnswerShrinks ==
    ASSUME NEW s \in Seq(Frames), NEW q
    PROVE  Shrinks(Frames, WithoutAnswer(s, q), s)
  <1> DEFINE at == {i \in DOMAIN s : s[i] = [k |-> "respond", q |-> q]}
  <1>1. CASE at = {}
    BY <1>1, SameShrinks DEF WithoutAnswer
  <1>2. CASE at # {}
    <2> DEFINE i == CHOOSE j \in at : TRUE
    <2>1. i \in DOMAIN s
      BY <1>2
    <2>2. WithoutAnswer(s, q) = RemoveAt(s, i)
      BY <1>2 DEF WithoutAnswer
    <2> HIDE DEF i, at
    <2> QED
      BY <2>1, <2>2, RemoveAtDrops, DropsShrinks
  <1> QED
    BY <1>1, <1>2

\* An answer to the server that cannot be written ends the connection.
LEMMA RespondFailsInv ==
    ASSUME Inv, RespondFails, UNCHANGED clientVars
    PROVE  Inv'
  <1>1. WireType /\ StateType /\ AskInv
    BY DEF Inv
  <1>2. PICK q \in Asks : /\ lease' = [lease EXCEPT ![q] = "resolved"]
                          /\ rpcq' = WithoutAnswer(rpcq, q)
                          /\ out' \in {out, WithoutAnswer(out, q)}
    BY DEF RespondFails
  <1>3. cancelled' = TRUE /\ UNCHANGED <<scene, call, conn, reply, inbox, stop>>
    BY DEF RespondFails, clientVars
  <1>4. Shrinks(Frames, rpcq', rpcq) /\ Shrinks(Frames, out', out)
    BY <1>1, <1>2, WithoutAnswerShrinks, SameShrinks DEF WireType
  <1>5. Wires
    BY <1>1, <1>3, <1>4, SameWires DEF Wires
  <1>6. Replied
    BY <1>1, <1>3, SameReplies
  <1>7. Leased
    BY <1>1, <1>2, <1>3 DEF Leased, StateType, Leases
  <1>8. Flags
    BY <1>1, <1>3 DEF Flags, StateType
  <1>9. QuietStep
    BY <1>3, <1>5, <1>6, <1>7, <1>8 DEF QuietStep, RespondFails, serverVars
  <1> QED
    BY <1>9, QuietInv

\* A message that is neither a refusal nor a request.
LEMMA HarmlessMessage ==
    ASSUME WireType, NEW m \in Messages, m.k \notin {"error", "ask"},
           inbox' = Append(inbox, m)
    PROVE  InboxKept
  <1>1. inbox \in Seq(Messages)
    BY DEF WireType
  <1>2. /\ inbox' \in Seq(Messages)
        /\ \A c : HasRefusal(inbox', c) <=> HasRefusal(inbox, c) \/ (m.k = "error" /\ m.c = c)
        /\ \A q : HasAsk(inbox', q) <=> HasAsk(inbox, q) \/ (m.k = "ask" /\ m.q = q)
        /\ AsksDistinct(inbox) /\ (m.k = "ask" => \A i \in DOMAIN inbox : inbox[i] # m)
                => AsksDistinct(inbox')
    BY <1>1, AppendAdds
  <1> QED
    BY <1>2 DEF InboxKept

\* Nothing of the connection moves but its events and the caller's bookkeeping.
StillStep ==
  /\ UNCHANGED <<scene, call, conn, cancelled, rpcq, reply, out, inbox, lease, stop>>
  /\ UNCHANGED <<turn, asked, owed>>

\* A still step preserves the invariant.
LEMMA StillInv ==
    ASSUME Inv, StillStep
    PROVE  Inv'
  <1>1. WireType /\ StateType /\ AskInv
    BY DEF Inv
  <1>2. Wires
    BY <1>1, QuietWires DEF StillStep
  <1>3. Replied /\ Leased /\ Flags
    BY <1>1, SameReplies, SameLeases, SameFlags DEF StillStep
  <1>4. QuietStep
    BY <1>2, <1>3 DEF QuietStep, StillStep
  <1> QED
    BY <1>4, QuietInv

\* The still steps: the event channel, the router's commands, the subscribers.
LEMMA StillSteps ==
    ASSUME Inv,
           \/ (EmitHeld \/ SweepPending) /\ UNCHANGED clientVars
           \/ HandleRouterCommand \/ RouterBreaks
           \/ \E s \in Subs : Subscribe(s) \/ Recv(s) \/ Unsubscribe(s)
           \/ UNCHANGED vars
    PROVE  Inv'
  <1>1. ASSUME (EmitHeld \/ SweepPending) /\ UNCHANGED clientVars
        PROVE  StillStep
    BY <1>1 DEF StillStep, EmitHeld, SweepPending, clientVars, serverVars
  <1>2. ASSUME HandleRouterCommand
        PROVE  StillStep
    BY <1>2 DEF StillStep, HandleRouterCommand, rpcVars, serverVars
  <1>3. ASSUME RouterBreaks
        PROVE  StillStep
    BY <1>3 DEF StillStep, RouterBreaks, rpcVars, serverVars
  <1>4. ASSUME NEW s \in Subs, Subscribe(s)
        PROVE  StillStep
    BY <1>4 DEF StillStep, Subscribe, rpcVars, serverVars
  <1>5. ASSUME NEW s \in Subs, Recv(s)
        PROVE  StillStep
    BY <1>5 DEF StillStep, Recv, rpcVars, serverVars
  <1>6. ASSUME NEW s \in Subs, Unsubscribe(s)
        PROVE  StillStep
    BY <1>6 DEF StillStep, Unsubscribe, rpcVars, serverVars
  <1>7. ASSUME UNCHANGED vars
        PROVE  StillStep
    BY <1>7 DEF StillStep, vars, rpcVars, serverVars, clientVars
  <1>8. StillStep
    BY <1>1, <1>2, <1>3, <1>4, <1>5, <1>6, <1>7
  <1> QED
    BY <1>8, StillInv

\* The app-server dies.
LEMMA ServerDiesInv ==
    ASSUME Inv, ServerDies, UNCHANGED clientVars
    PROVE  Inv'
  <1>1. WireType /\ StateType /\ AskInv
    BY DEF Inv
  <1>2. /\ UNCHANGED <<scene, call, conn, cancelled, rpcq, reply, lease, stop>>
        /\ UNCHANGED <<turn, asked, owed>>
        /\ out' = <<>>
        /\ inbox' = inbox \/ inbox' = Append(inbox, Eof)
    BY DEF ServerDies, clientVars
  <1>3. InboxKept
    <2>1. Eof \in Messages /\ Eof.k \notin {"error", "ask"}
      BY DEF Eof, Messages
    <2> HIDE DEF Eof
    <2> QED
      BY <1>1, <1>2, <2>1, HarmlessMessage, SameWires
  <1>4. Wires
    BY <1>1, <1>2, <1>3, SameWires, EmptyShrinks DEF Wires
  <1>5. QuietStep
    BY <1>1, <1>2, <1>4, SameReplies, SameLeases, SameFlags DEF QuietStep
  <1> QED
    BY <1>5, QuietInv

\* Steps of the router and the supervisor that end the connection.
LEMMA EndingSteps ==
    ASSUME Inv, RouteEvent \/ RouterCancels \/ RouterEnds \/ Shutdown
    PROVE  Inv'
  <1>1. WireType /\ StateType /\ AskInv
    BY DEF Inv
  <1>2. /\ UNCHANGED <<scene, call, conn, rpcq, reply, out, inbox>>
        /\ UNCHANGED <<turn, asked, owed>>
    BY DEF RouteEvent, RouterCancels, RouterEnds, Shutdown, rpcVars, serverVars
  <1>3. /\ cancelled' = cancelled \/ cancelled' = TRUE
        /\ stop' = stop \/ stop' = TRUE
    BY DEF RouteEvent, RouterCancels, RouterEnds, Shutdown, rpcVars, clientVars
  <1>4. Leased
    <2>1. ASSUME RouteEvent
          PROVE  Leased
      <3>1. \/ lease' = lease
            \/ \E e : lease' = [lease EXCEPT ![e] = "resolved"] /\ cancelled'
        BY <2>1 DEF RouteEvent
      <3> QED
        BY <1>1, <3>1 DEF Leased, StateType, Leases
    <2>2. ASSUME RouterCancels \/ Shutdown
          PROVE  Leased
      BY <1>1, <2>2, SameLeases DEF RouterCancels, Shutdown, rpcVars
    <2>3. ASSUME RouterEnds
          PROVE  Leased
      <3>1. cancelled'
        BY <1>1, <2>3 DEF RouterEnds, AskInv, StateType
      <3>2. /\ lease' \in [Asks -> Leases]
            /\ \A q \in Asks : lease'[q] \in {"resolved", lease[q]}
        BY <1>1, <2>3 DEF RouterEnds, StateType, Leases
      <3> QED
        BY <3>1, <3>2 DEF Leased
    <2> QED
      BY <2>1, <2>2, <2>3
  <1>5. Wires /\ Replied
    BY <1>1, <1>2, QuietWires, SameReplies
  <1>6. Flags
    <2>1. cancelled' \in BOOLEAN /\ (cancelled => cancelled')
      <3>1. cancelled \in BOOLEAN
        BY <1>1 DEF StateType
      <3>2. CASE cancelled' = cancelled
        BY <3>1, <3>2
      <3>3. CASE cancelled' = TRUE
        BY <3>3
      <3> QED
        BY <1>3, <3>2, <3>3
    <2>2. stop' \in BOOLEAN /\ (stop => stop')
      <3>1. stop \in BOOLEAN
        BY <1>1 DEF StateType
      <3>2. CASE stop' = stop
        BY <3>1, <3>2
      <3>3. CASE stop' = TRUE
        BY <3>3
      <3> QED
        BY <1>3, <3>2, <3>3
    <2>3. conn' \in {"open", "lost"} /\ (conn' = "lost" => cancelled')
      BY <1>1, <1>2, <2>1, Zenon DEF StateType, AskInv
    <2> QED
      BY <2>1, <2>2, <2>3, Zenon DEF Flags
  <1>7. QuietStep
    BY <1>2, <1>4, <1>5, <1>6 DEF QuietStep
  <1> QED
    BY <1>7, QuietInv

-----------------------------------------------------------------------------
(* The steps that move a request of a caller. *)

\* What AskInv says of one request of the server.
AskOf(q) ==
  /\ HasAsk(inbox, q) => lease[q] \in {"none", "resolved"} /\ asked[q] = 0 /\ Unreplied(q)
  /\ asked[q] < 0 => lease[q] \in {"none", "resolved"}
  /\ lease[q] = "armed" => asked[q] = 0
  /\ ~Unreplied(q) => lease[q] \in {"actor", "resolved"} /\ asked[q] = 0
  /\ asked[q] <= 1
  /\ lease[q] = "resolved" => asked[q] = 1 \/ cancelled

\* dispatch_command: a frame moves from the queue to the pipe.
LEMMA DispatchInv ==
    ASSUME Inv, Dispatch, UNCHANGED clientVars
    PROVE  Inv'
  <1>1. WireType /\ StateType /\ WireInv /\ CallInv /\ AskInv /\ UncertainEndsEpoch
    BY DEF Inv
  <1>2. /\ UNCHANGED <<scene, call, conn, cancelled, reply, inbox, lease, stop>>
        /\ UNCHANGED <<turn, asked, owed>>
    BY DEF Dispatch, clientVars, serverVars
  <1>3. PICK i \in 1 .. Len(rpcq) :
               /\ Dequeue(i)
               /\ IF rpcq[i].k = "request"
                  THEN DispatchRequest(rpcq[i].c) /\ UNCHANGED serverPending
                  ELSE DispatchRespond(rpcq[i].q) /\ UNCHANGED pending
    BY DEF Dispatch
  <1> DEFINE m == rpcq[i]
  <1>4. rpcq \in Seq(Frames) /\ out \in Seq(Frames) /\ inbox \in Seq(Messages)
    BY <1>1 DEF WireType
  <1>5. i \in DOMAIN rpcq /\ rpcq' = RemoveAt(rpcq, i) /\ m \in Frames
    BY <1>3, <1>4 DEF Dequeue
  <1>6. \/ m.k = "request" /\ m.c \in Callers /\ m = [k |-> "request", c |-> m.c]
        \/ m.k = "respond" /\ m.q \in Asks /\ m = [k |-> "respond", q |-> m.q]
    BY <1>5 DEF Frames
  <1>7. Drops(Frames, rpcq', rpcq, i) /\ Shrinks(Frames, rpcq', rpcq)
    BY <1>4, <1>5, RemoveAtDrops, DropsShrinks
  <1>8. out' = out \/ out' = Append(out, m)
    BY <1>3, <1>6 DEF DispatchRequest, DispatchRespond, Write
  <1>9. CASE out' = out
    <2>1. Wires
      BY <1>1, <1>2, <1>7, <1>9, SameWires DEF Wires
    <2>2. QuietStep
      BY <1>1, <1>2, <2>1, SameReplies, SameLeases, SameFlags DEF QuietStep
    <2> QED
      BY <2>2, QuietInv
  <1>10. CASE out' = Append(out, m)
    <2>1. /\ rpcq' \in Seq(Frames)
          /\ Distinct(rpcq')
          /\ \A c : HasRequest(rpcq', c) => HasRequest(rpcq, c)
          /\ \A q : HasAnswer(rpcq', q) => HasAnswer(rpcq, q)
      BY <1>1, <1>7, ShrinkKeeps DEF WireInv
    <2>2. /\ m.k = "request" => ~HasRequest(rpcq', m.c)
          /\ m.k = "respond" => ~HasAnswer(rpcq', m.q)
      BY <1>1, <1>4, <1>5, <1>7, DropIsGone DEF WireInv
    <2>3. /\ m.k = "request" => HasRequest(rpcq, m.c) /\ ~HasRequest(out, m.c)
          /\ m.k = "respond" => HasAnswer(rpcq, m.q) /\ ~HasAnswer(out, m.q)
      BY <1>1, <1>5, <1>6 DEF WireInv, HasRequest, HasAnswer
    <2>4. \A j \in DOMAIN out : out[j] # m
      BY <1>6, <2>3 DEF HasRequest, HasAnswer
    <2>5. /\ out' \in Seq(Frames)
          /\ Distinct(out')
          /\ \A c : HasRequest(out', c) <=>
                      HasRequest(out, c) \/ (m.k = "request" /\ m.c = c)
          /\ \A q : HasAnswer(out', q) <=>
                      HasAnswer(out, q) \/ (m.k = "respond" /\ m.q = q)
      <3> HIDE DEF m
      <3> QED
        BY <1>1, <1>4, <1>5, <1>10, <2>4, AppendAdds DEF WireInv
    <2> HIDE DEF m
    <2>6. WireType'
      BY <1>1, <1>2, <2>1, <2>5 DEF WireType
    <2>7. WireInv'
      BY <1>1, <1>2, <1>6, <2>1, <2>2, <2>5 DEF WireInv
    <2>8. StateType' /\ UncertainEndsEpoch'
      BY <1>1, <1>2 DEF StateType, UncertainEndsEpoch
    <2>9. \A c \in Callers : Unsent(c) => Unsent(c)'
      BY <2>1, <2>3, <2>5 DEF Unsent
    <2>10. \A q \in Asks : Unreplied(q) => Unreplied(q)'
      BY <2>1, <2>3, <2>5 DEF Unreplied
    <2>11. CallInv'
      BY <1>1, <1>2, <2>9 DEF CallInv
    <2>12. AskInv'
      BY <1>1, <1>2, <2>10 DEF AskInv
    <2> QED
      BY <2>6, <2>7, <2>8, <2>11, <2>12 DEF Inv
  <1> QED
    BY <1>8, <1>9, <1>10

\* The pump cannot encode the frame: the request has not left the bridge.
LEMMA PumpRefusesInv ==
    ASSUME Inv, PumpRefuses, UNCHANGED clientVars
    PROVE  Inv'
  <1>1. WireType /\ StateType /\ WireInv /\ CallInv /\ AskInv /\ UncertainEndsEpoch
    BY DEF Inv
  <1>2. /\ UNCHANGED <<scene, call, conn, cancelled, rpcq, inbox, lease, stop>>
        /\ UNCHANGED <<turn, asked, owed>>
    BY DEF PumpRefuses, clientVars, serverVars
  <1>3. PICK i \in DOMAIN out : /\ out[i].k = "request"
                                /\ out' = RemoveAt(out, i)
                                /\ reply' = [reply EXCEPT ![out[i].c] = "tooLarge"]
    BY DEF PumpRefuses
  <1>4. out \in Seq(Frames) /\ out[i] \in Frames /\ out[i].c \in Callers
    BY <1>1, <1>3 DEF WireType, Frames
  <1>41. PICK d \in Callers : d = out[i].c
    BY <1>4
  <1>5. Drops(Frames, out', out, i) /\ Shrinks(Frames, out', out)
    BY <1>3, <1>4, RemoveAtDrops, DropsShrinks
  <1>6. ~HasRequest(out', d) /\ HasRequest(out, d) /\ ~HasRequest(rpcq, d)
    <2>1. ~HasRequest(out', d)
      BY <1>1, <1>3, <1>4, <1>41, <1>5, DropIsGone DEF WireInv
    <2>2. HasRequest(out, d)
      BY <1>3, <1>41 DEF HasRequest
    <2> QED
      BY <1>1, <1>4, <2>1, <2>2 DEF WireInv
  <1>7. Wires
    BY <1>1, <1>2, <1>5, SameWires DEF Wires
  <1>8. /\ WireType' /\ WireInv'
        /\ \A c \in Callers : Unsent(c) => Unsent(c)'
        /\ \A q \in Asks : Unreplied(q) => Unreplied(q)'
    BY <1>1, <1>7, WiresKeep
  <1>9. StateType' /\ UncertainEndsEpoch'
    BY <1>1, <1>2, <1>3 DEF StateType, UncertainEndsEpoch, Replies
  <1>10. reply' = [reply EXCEPT ![d] = "tooLarge"]
    BY <1>3, <1>41
  <1>11. reply'[d] = "tooLarge" /\ \A c \in Callers \ {d} : reply'[c] = reply[c]
    BY <1>1, <1>4, <1>10 DEF StateType
  <1>12. ~Unsent(d) /\ Unsent(d)'
    BY <1>2, <1>6 DEF Unsent
  <1>13. CallInv'
    BY <1>1, <1>2, <1>4, <1>8, <1>11, <1>12 DEF CallInv
  <1>14. AskInv'
    BY <1>1, <1>2, <1>8 DEF AskInv
  <1> QED
    BY <1>8, <1>9, <1>13, <1>14 DEF Inv

\* The answer to a request reaches its caller.
LEMMA CorrelateInv ==
    ASSUME Inv, inbox # <<>>, UNCHANGED <<scene, call, stop>>, UNCHANGED serverVars,
           Head(inbox).k \in {"result", "error"}, Correlate(Head(inbox))
    PROVE  Inv'
  <1> DEFINE m == Head(inbox)
             d == Head(inbox).c
  <1>1. WireType /\ StateType /\ WireInv /\ CallInv /\ AskInv /\ UncertainEndsEpoch
    BY DEF Inv
  <1>2. CASE d \notin pending
    BY <1>2, EmitDriftInv DEF Correlate
  <1>3. CASE d \in pending
    <2>1. /\ UNCHANGED <<conn, cancelled, rpcq, out, lease>>
          /\ UNCHANGED <<turn, asked, owed>>
          /\ inbox' = Tail(inbox)
          /\ reply' = [reply EXCEPT ![d] = m.k]
      BY <1>3 DEF Correlate, Taken, serverVars
    <2>2. inbox \in Seq(Messages)
      BY <1>1 DEF WireType
    <2>3. Drops(Messages, inbox', inbox, 1) /\ m = inbox[1] /\ 1 \in DOMAIN inbox
          /\ m \in Messages
      BY <2>1, <2>2, TailDrops
    <2>4. InboxKept
      BY <2>3, DropsShrinks, InboxShrinks
    <2>5. Wires
      BY <1>1, <2>1, <2>4, SameWires DEF Wires
    <2>6. m.k = "error" => HasRefusal(inbox, d)
      BY <2>3 DEF HasRefusal
    <2>7. d \in Callers /\ m.k \in {"result", "error"}
      BY <2>3 DEF Messages
    <2> HIDE DEF m, d
    <2>8. /\ WireType' /\ WireInv'
          /\ \A c \in Callers : Unsent(c) => Unsent(c)'
          /\ \A c \in Callers : HasRefusal(inbox, c)' => HasRefusal(inbox, c)
          /\ \A q \in Asks : Unreplied(q) => Unreplied(q)'
          /\ \A q \in Asks : HasAsk(inbox, q)' => HasAsk(inbox, q)
      BY <1>1, <2>5, WiresKeep
    <2>9. StateType' /\ UncertainEndsEpoch'
      BY <1>1, <2>1, <2>7 DEF StateType, UncertainEndsEpoch, Replies
    <2>10. reply'[d] = m.k /\ \A c \in Callers \ {d} : reply'[c] = reply[c]
      BY <1>1, <2>1, <2>7 DEF StateType
    <2>11. CallInv'
      BY <1>1, <2>1, <2>6, <2>7, <2>8, <2>10 DEF CallInv
    <2>12. AskInv'
      BY <1>1, <2>1, <2>8 DEF AskInv
    <2> QED
      BY <2>8, <2>9, <2>11, <2>12 DEF Inv
  <1> QED
    BY <1>2, <1>3

\* A request of the server arrives.
LEMMA TakeAskInv ==
    ASSUME Inv, inbox # <<>>, UNCHANGED <<scene, call, stop>>, UNCHANGED serverVars,
           Head(inbox).k = "ask", TakeAsk(Head(inbox).q)
    PROVE  Inv'
  <1> DEFINE p == Head(inbox).q
  <1>1. WireType /\ StateType /\ WireInv /\ CallInv /\ AskInv /\ UncertainEndsEpoch
    BY DEF Inv
  <1>2. CASE Cardinality(serverPending) >= AskCap \/ p \in serverPending
    BY <1>2, EndsInv DEF TakeAsk
  <1>3. CASE ~(Cardinality(serverPending) >= AskCap \/ p \in serverPending)
    <2>1. /\ UNCHANGED <<conn, cancelled, rpcq, out, reply>>
          /\ UNCHANGED <<turn, asked, owed>>
          /\ inbox' = Tail(inbox)
          /\ lease' = [lease EXCEPT ![p] = "armed"]
      BY <1>3 DEF TakeAsk, Taken, serverVars
    <2>2. inbox \in Seq(Messages)
      BY <1>1 DEF WireType
    <2>3. Drops(Messages, inbox', inbox, 1) /\ Head(inbox) = inbox[1] /\ 1 \in DOMAIN inbox
          /\ Head(inbox) \in Messages
      BY <2>1, <2>2, TailDrops
    <2>4. InboxKept
      BY <2>3, DropsShrinks, InboxShrinks
    <2>5. Wires
      BY <1>1, <2>1, <2>4, SameWires DEF Wires
    <2>6. HasAsk(inbox, p)
      BY <2>3 DEF HasAsk
    <2>7. p \in Asks
      BY <2>3 DEF Messages
    <2>8. ~HasAsk(inbox', p)
      BY <1>1, <2>2, <2>3, DropIsGone DEF WireInv
    <2> HIDE DEF p
    <2>9. /\ WireType' /\ WireInv'
          /\ \A c \in Callers : Unsent(c) => Unsent(c)'
          /\ \A c \in Callers : HasRefusal(inbox, c)' => HasRefusal(inbox, c)
          /\ \A q \in Asks : Unreplied(q) => Unreplied(q)'
          /\ \A q \in Asks : HasAsk(inbox, q)' => HasAsk(inbox, q)
      BY <1>1, <2>5, WiresKeep
    <2>10. StateType' /\ UncertainEndsEpoch'
      BY <1>1, <2>1, <2>7 DEF StateType, UncertainEndsEpoch, Leases
    <2>11. lease'[p] = "armed" /\ \A q \in Asks \ {p} : lease'[q] = lease[q]
      BY <1>1, <2>1, <2>7 DEF StateType
    <2>12. CallInv'
      BY <1>1, <2>1, <2>9 DEF CallInv
    <2>13. AskInv'
      BY <1>1, <2>1, <2>6, <2>7, <2>8, <2>9, <2>11 DEF AskInv
    <2> QED
      BY <2>9, <2>10, <2>12, <2>13 DEF Inv
  <1> QED
    BY <1>2, <1>3

\* run_actor handles one message.
LEMMA HandleInboundInv ==
    ASSUME Inv, HandleInbound, UNCHANGED clientVars
    PROVE  Inv'
  <1>1. UNCHANGED <<scene, call, stop>> /\ UNCHANGED serverVars /\ inbox # <<>>
    BY DEF HandleInbound, clientVars
  <1>2. \/ Head(inbox).k \in {"result", "error"} /\ Correlate(Head(inbox))
        \/ Head(inbox).k = "ask" /\ TakeAsk(Head(inbox).q)
        \/ EmitDrift
        \/ Ends
        \/ TakeNote(Head(inbox))
    BY DEF HandleInbound
  <1> QED
    BY <1>1, <1>2, CorrelateInv, TakeAskInv, EmitDriftInv, EndsInv, TakeNoteInv, Zenon

\* The server takes a request.
LEMMA ServerTakesRequest ==
    ASSUME Inv, UNCHANGED clientVars, out # <<>>, out' = Tail(out),
           Head(out).k = "request",
           NEW verdict \in {"accepted", "refused"},
           turn' = [turn EXCEPT ![Head(out).c] = verdict],
           owed' = owed \union {Head(out).c},
           UNCHANGED <<asked, lease>>,
           UNCHANGED <<scene, call, conn, cancelled, rpcq, reply, inbox>>
    PROVE  Inv'
  <1>1. WireType /\ StateType /\ WireInv /\ CallInv /\ AskInv /\ UncertainEndsEpoch
    BY DEF Inv
  <1>2. out \in Seq(Frames) /\ stop' = stop
    BY <1>1 DEF WireType, clientVars
  <1>3. Drops(Frames, out', out, 1) /\ Head(out) = out[1] /\ 1 \in DOMAIN out
        /\ Head(out) \in Frames
    BY <1>2, TailDrops
  <1>4. PICK d \in Callers : d = Head(out).c
    BY <1>3 DEF Frames
  <1>5. ~HasRequest(out', d) /\ HasRequest(out, d) /\ ~HasRequest(rpcq, d)
    <2>1. ~HasRequest(out', d)
      BY <1>1, <1>2, <1>3, <1>4, DropIsGone DEF WireInv
    <2>2. HasRequest(out, d)
      BY <1>3, <1>4 DEF HasRequest
    <2> QED
      BY <1>1, <1>4, <2>1, <2>2 DEF WireInv
  <1>6. Wires
    BY <1>1, <1>3, DropsShrinks, SameWires DEF Wires
  <1>7. /\ WireType' /\ WireInv'
        /\ \A c \in Callers : Unsent(c) => Unsent(c)'
        /\ \A q \in Asks : Unreplied(q) => Unreplied(q)'
    BY <1>1, <1>6, WiresKeep
  <1>8. /\ turn' \in [Callers -> TurnStates]
        /\ turn'[d] = verdict
        /\ \A c \in Callers \ {d} : turn'[c] = turn[c]
    BY <1>1, <1>4 DEF StateType, TurnStates
  <1>9. StateType' /\ UncertainEndsEpoch'
    BY <1>1, <1>2, <1>4, <1>8 DEF StateType, UncertainEndsEpoch
  <1>10. ~Unsent(d) /\ Unsent(d)'
    BY <1>5 DEF Unsent
  <1>11. CallInv'
    BY <1>1, <1>4, <1>7, <1>8, <1>10 DEF CallInv
  <1>12. AskInv'
    BY <1>1, <1>7 DEF AskInv
  <1> QED
    BY <1>7, <1>9, <1>11, <1>12 DEF Inv

\* The server takes an answer to a request of its own.
LEMMA ServerTakesAnswer ==
    ASSUME Inv, UNCHANGED clientVars, out # <<>>, out' = Tail(out),
           Head(out).k = "respond",
           asked' = [asked EXCEPT ![Head(out).q] = @ + 1],
           lease' = [lease EXCEPT ![Head(out).q] = "resolved"],
           UNCHANGED <<turn, owed>>,
           UNCHANGED <<scene, call, conn, cancelled, rpcq, reply, inbox>>
    PROVE  Inv'
  <1>1. WireType /\ StateType /\ WireInv /\ CallInv /\ AskInv /\ UncertainEndsEpoch
    BY DEF Inv
  <1>2. out \in Seq(Frames) /\ stop' = stop
    BY <1>1 DEF WireType, clientVars
  <1>3. Drops(Frames, out', out, 1) /\ Head(out) = out[1] /\ 1 \in DOMAIN out
        /\ Head(out) \in Frames
    BY <1>2, TailDrops
  <1>4. PICK p \in Asks : p = Head(out).q
    BY <1>3 DEF Frames
  <1>5. ~HasAnswer(out', p) /\ HasAnswer(out, p) /\ ~HasAnswer(rpcq, p)
    <2>1. ~HasAnswer(out', p)
      BY <1>1, <1>2, <1>3, <1>4, DropIsGone DEF WireInv
    <2>2. HasAnswer(out, p)
      BY <1>3, <1>4 DEF HasAnswer
    <2> QED
      BY <1>1, <1>4, <2>1, <2>2 DEF WireInv
  <1>6. Wires
    BY <1>1, <1>3, DropsShrinks, SameWires DEF Wires
  <1>7. /\ WireType' /\ WireInv'
        /\ \A c \in Callers : Unsent(c) => Unsent(c)'
        /\ \A q \in Asks : Unreplied(q) => Unreplied(q)'
    BY <1>1, <1>6, WiresKeep
  <1>8. ~Unreplied(p) /\ Unreplied(p)'
    BY <1>5 DEF Unreplied
  <1>9. /\ asked' \in [Asks -> Int] /\ lease' \in [Asks -> Leases]
        /\ asked'[p] = asked[p] + 1 /\ lease'[p] = "resolved"
        /\ \A q \in Asks \ {p} : asked'[q] = asked[q] /\ lease'[q] = lease[q]
    BY <1>1, <1>4 DEF StateType, Leases
  <1>10. asked'[p] = 1
    BY <1>1, <1>4, <1>8, <1>9 DEF AskInv
  <1>11. StateType' /\ UncertainEndsEpoch'
    BY <1>1, <1>2, <1>9 DEF StateType, UncertainEndsEpoch
  <1>12. CallInv'
    BY <1>1, <1>7 DEF CallInv
  <1>13. AskInv'
    BY <1>1, <1>4, <1>7, <1>8, <1>9, <1>10 DEF AskInv
  <1> QED
    BY <1>7, <1>11, <1>12, <1>13 DEF Inv

\* The server takes a frame of the pipe.
LEMMA ServerTakesInv ==
    ASSUME Inv, ServerTakes, UNCHANGED clientVars
    PROVE  Inv'
  <1>1. /\ out # <<>> /\ out' = Tail(out)
        /\ UNCHANGED <<scene, call, conn, cancelled, rpcq, reply, inbox>>
    BY DEF ServerTakes
  <1>2. \/ /\ Head(out).k = "request"
           /\ \E verdict \in {"accepted", "refused"} :
                turn' = [turn EXCEPT ![Head(out).c] = verdict]
           /\ owed' = owed \union {Head(out).c}
           /\ UNCHANGED <<asked, lease>>
        \/ /\ Head(out).k = "respond"
           /\ asked' = [asked EXCEPT ![Head(out).q] = @ + 1]
           /\ lease' = [lease EXCEPT ![Head(out).q] = "resolved"]
           /\ UNCHANGED <<turn, owed>>
    BY DEF ServerTakes
  <1> QED
    BY <1>1, <1>2, ServerTakesRequest, ServerTakesAnswer, Zenon

\* The server answers a request.
LEMMA ServerAnswersInv ==
    ASSUME Inv, ServerAnswers, UNCHANGED clientVars
    PROVE  Inv'
  <1>1. WireType /\ StateType /\ WireInv /\ CallInv /\ AskInv /\ UncertainEndsEpoch
    BY DEF Inv
  <1>2. /\ UNCHANGED <<scene, call, conn, cancelled, rpcq, reply, out, lease, stop>>
        /\ UNCHANGED <<turn, asked>>
    BY DEF ServerAnswers, clientVars
  <1>3. PICK d \in owed : /\ owed' = owed \ {d}
                          /\ inbox' = Append(inbox, Response(d, turn[d] # "refused"))
    BY DEF ServerAnswers, Send
  <1>4. d \in Callers
    BY <1>1, <1>3 DEF StateType
  <1>5. PICK m \in Messages : /\ inbox' = Append(inbox, m)
                              /\ m.k \in {"result", "error"} /\ m.c = d
                              /\ m.k = "error" => turn[d] = "refused"
    <2>1. Response(d, turn[d] # "refused") \in Messages
      BY <1>4 DEF Response, Messages
    <2>2. /\ Response(d, turn[d] # "refused").k \in {"result", "error"}
          /\ Response(d, turn[d] # "refused").c = d
          /\ Response(d, turn[d] # "refused").k = "error" => turn[d] = "refused"
      BY DEF Response
    <2> QED
      BY <1>3, <2>1, <2>2
  <1>6. inbox \in Seq(Messages)
    BY <1>1 DEF WireType
  <1>7. /\ inbox' \in Seq(Messages)
        /\ \A c : HasRefusal(inbox', c) <=> HasRefusal(inbox, c) \/ (m.k = "error" /\ m.c = c)
        /\ \A q : HasAsk(inbox', q) <=> HasAsk(inbox, q) \/ (m.k = "ask" /\ m.q = q)
        /\ AsksDistinct(inbox) /\ (m.k = "ask" => \A i \in DOMAIN inbox : inbox[i] # m)
                => AsksDistinct(inbox')
    BY <1>5, <1>6, AppendAdds
  <1>8. WireType' /\ StateType' /\ UncertainEndsEpoch'
    BY <1>1, <1>2, <1>3, <1>7 DEF WireType, StateType, UncertainEndsEpoch
  <1>9. WireInv'
    BY <1>1, <1>2, <1>5, <1>7 DEF WireInv
  <1>10. \A c \in Callers : HasRefusal(inbox', c) => turn[c] = "refused"
    BY <1>1, <1>5, <1>7 DEF CallInv
  <1>11. \A q \in Asks : HasAsk(inbox', q) => HasAsk(inbox, q)
    BY <1>5, <1>7
  <1>12. (\A c \in Callers : Unsent(c)' <=> Unsent(c))
         /\ \A q \in Asks : Unreplied(q)' <=> Unreplied(q)
    BY <1>2 DEF Unsent, Unreplied
  <1>13. CallInv'
    BY <1>1, <1>2, <1>3, <1>10, <1>12 DEF CallInv
  <1>14. AskInv'
    BY <1>1, <1>2, <1>11, <1>12 DEF AskInv
  <1> QED
    BY <1>8, <1>9, <1>13, <1>14 DEF Inv

\* The kinds of report, and the states of a turn that runs or has run.
Notes == {"started", "delta", "usage", "item", "completed"}
Running == TurnStates \ {"none", "refused"}

\* A report is a message, and no refusal or request.
LEMMA NoteIsMessage ==
    ASSUME WireType, NEW c \in Callers, NEW k \in Notes, NEW v \in 0 .. 1
    PROVE  Note(k, c, v) \in Messages /\ Note(k, c, v).k \notin {"error", "ask"}
  <1>1. scene \in Scenario
    BY RpcAssumption DEF WireType
  <1>2. plan[c].thread \in Threads
    BY <1>1 DEF plan, Scenario
  <1>3. Note(k, c, v) \in Messages
    BY <1>2 DEF Note, Messages, Notes
  <1>4. Note(k, c, v).k \notin {"error", "ask"}
    BY DEF Note, Notes
  <1> QED
    BY <1>3, <1>4

\* The server reports on a turn that runs.
LEMMA ServerReportsInv ==
    ASSUME Inv, ServerReports, UNCHANGED clientVars
    PROVE  Inv'
  <1>1. WireType /\ StateType /\ WireInv /\ CallInv /\ AskInv /\ UncertainEndsEpoch
    BY DEF Inv
  <1>2. /\ UNCHANGED <<scene, call, conn, cancelled, rpcq, reply, out, lease, stop>>
        /\ UNCHANGED <<owed, asked>>
    BY DEF ServerReports, clientVars
  <1>3. PICK d \in Callers, k \in Notes, st \in Running :
               /\ turn[d] \in Running
               /\ inbox' = Append(inbox, Note(k, d, 0))
               /\ turn' = [turn EXCEPT ![d] = st]
    BY DEF ServerReports, Report, Send, Notes, Running, TurnStates
  <1>4. InboxKept
    BY <1>1, <1>3, NoteIsMessage, HarmlessMessage
  <1>5. Wires
    BY <1>1, <1>2, <1>4, SameWires DEF Wires
  <1>6. /\ WireType' /\ WireInv'
        /\ \A c \in Callers : Unsent(c) => Unsent(c)'
        /\ \A c \in Callers : HasRefusal(inbox, c)' => HasRefusal(inbox, c)
        /\ \A q \in Asks : Unreplied(q) => Unreplied(q)'
        /\ \A q \in Asks : HasAsk(inbox, q)' => HasAsk(inbox, q)
    BY <1>1, <1>5, WiresKeep
  <1>7. /\ turn' \in [Callers -> TurnStates] /\ turn'[d] = st
        /\ \A c \in Callers \ {d} : turn'[c] = turn[c]
    BY <1>1, <1>3 DEF StateType, Running
  <1>8. StateType' /\ UncertainEndsEpoch'
    BY <1>1, <1>2, <1>7 DEF StateType, UncertainEndsEpoch
  <1>9. turn[d] \notin {"none", "refused"} /\ turn'[d] \notin {"none", "refused"}
    BY <1>3, <1>7 DEF Running
  <1>10. CallInv'
    BY <1>1, <1>2, <1>3, <1>6, <1>7, <1>9 DEF CallInv
  <1>11. AskInv'
    BY <1>1, <1>2, <1>6 DEF AskInv
  <1> QED
    BY <1>6, <1>8, <1>10, <1>11 DEF Inv

\* The server repeats itself or sends what cannot be decoded.
LEMMA ServerErrsInv ==
    ASSUME Inv, ServerErrs, UNCHANGED clientVars
    PROVE  Inv'
  <1>1. WireType /\ StateType /\ AskInv
    BY DEF Inv
  <1>2. /\ UNCHANGED <<scene, call, conn, cancelled, rpcq, reply, out, lease, stop>>
        /\ UNCHANGED <<turn, owed, asked>>
    BY DEF ServerErrs, clientVars
  <1>3. InboxKept
    <2>1. \/ \E c \in Callers, v \in 0 .. 1, k \in Notes : inbox' = Append(inbox, Note(k, c, v))
          \/ inbox' = Append(inbox, Junk)
      BY DEF ServerErrs, Report, Send, Notes
    <2>2. Junk \in Messages /\ Junk.k \notin {"error", "ask"}
      BY DEF Junk, Messages
    <2>3. ASSUME NEW c \in Callers, NEW v \in 0 .. 1, NEW k \in Notes,
                 inbox' = Append(inbox, Note(k, c, v))
          PROVE  InboxKept
      BY <1>1, <2>3, NoteIsMessage, HarmlessMessage
    <2>4. inbox' = Append(inbox, Junk) => InboxKept
      BY <1>1, <2>2, HarmlessMessage
    <2> QED
      BY <2>1, <2>3, <2>4
  <1>4. Wires
    BY <1>1, <1>2, <1>3, SameWires DEF Wires
  <1>5. QuietStep
    BY <1>1, <1>2, <1>4, SameReplies, SameLeases, SameFlags DEF QuietStep
  <1> QED
    BY <1>5, QuietInv

\* The server makes a request, once.
LEMMA ServerAsksInv ==
    ASSUME Inv, ServerAsks, UNCHANGED clientVars
    PROVE  Inv'
  <1>1. WireType /\ StateType /\ WireInv /\ CallInv /\ AskInv /\ UncertainEndsEpoch
    BY DEF Inv
  <1>2. /\ UNCHANGED <<scene, call, conn, cancelled, rpcq, reply, out, lease, stop>>
        /\ UNCHANGED <<turn, owed>>
    BY DEF ServerAsks, clientVars
  <1>3. PICK p \in scene.asks : /\ asked[p] < 0
                                /\ asked' = [asked EXCEPT ![p] = 0]
                                /\ inbox' = Append(inbox, AskMessage(p))
    BY DEF ServerAsks, Send
  <1>4. p \in Asks
    <2>1. scene \in Scenario
      BY <1>1, RpcAssumption DEF WireType
    <2> QED
      BY <1>3, <2>1 DEF Scenario
  <1>5. PICK m \in Messages : m = AskMessage(p) /\ m.k = "ask" /\ m.q = p
    <2>1. AskMessage(p) \in Messages
      BY <1>4 DEF AskMessage, Messages
    <2>2. AskMessage(p).k = "ask" /\ AskMessage(p).q = p
      BY DEF AskMessage
    <2> QED
      BY <2>1, <2>2
  <1>6. inbox \in Seq(Messages)
    BY <1>1 DEF WireType
  <1>7. ~HasAsk(inbox, p)
    BY <1>1, <1>3, <1>4 DEF AskInv, StateType
  <1>8. \A i \in DOMAIN inbox : inbox[i] # m
    BY <1>5, <1>7 DEF HasAsk
  <1>9. /\ inbox' \in Seq(Messages)
        /\ \A c : HasRefusal(inbox', c) <=> HasRefusal(inbox, c) \/ (m.k = "error" /\ m.c = c)
        /\ \A q : HasAsk(inbox', q) <=> HasAsk(inbox, q) \/ (m.k = "ask" /\ m.q = q)
        /\ AsksDistinct(inbox) /\ (m.k = "ask" => \A i \in DOMAIN inbox : inbox[i] # m)
                => AsksDistinct(inbox')
    <2>1. inbox' = Append(inbox, m)
      BY <1>3, <1>5
    <2> QED
      BY <1>6, <2>1, AppendAdds
  <1>10. /\ asked' \in [Asks -> Int] /\ asked'[p] = 0
         /\ \A q \in Asks \ {p} : asked'[q] = asked[q]
    BY <1>1, <1>3, <1>4 DEF StateType
  <1>11. WireType' /\ StateType' /\ UncertainEndsEpoch'
    BY <1>1, <1>2, <1>9, <1>10 DEF WireType, StateType, UncertainEndsEpoch
  <1>12. WireInv'
    BY <1>1, <1>2, <1>8, <1>9 DEF WireInv
  <1>13. /\ \A c \in Callers : HasRefusal(inbox', c) => HasRefusal(inbox, c)
         /\ \A q \in Asks \ {p} : HasAsk(inbox', q) => HasAsk(inbox, q)
    BY <1>5, <1>9
  <1>14. /\ \A c \in Callers : Unsent(c)' <=> Unsent(c)
         /\ \A q \in Asks : Unreplied(q)' <=> Unreplied(q)
    BY <1>2 DEF Unsent, Unreplied
  <1>15. CallInv'
    BY <1>1, <1>2, <1>13, <1>14 DEF CallInv
  <1>16. AskOf(p)'
    <2>1. AskOf(p) /\ asked[p] \in Int /\ asked[p] < 0
      BY <1>1, <1>3, <1>4 DEF AskInv, AskOf, StateType
    <2>2. lease'[p] = lease[p] /\ cancelled' = cancelled
      BY <1>2
    <2>3. Unreplied(p) /\ Unreplied(p)'
      BY <1>4, <1>14, <2>1 DEF AskOf
    <2> QED
      BY <1>10, <2>1, <2>2, <2>3 DEF AskOf
  <1>17. \A q \in Asks \ {p} : AskOf(q)'
    BY <1>1, <1>2, <1>10, <1>13, <1>14 DEF AskInv, AskOf
  <1>18. AskInv'
    BY <1>1, <1>2, <1>16, <1>17 DEF AskInv, AskOf
  <1> QED
    BY <1>11, <1>12, <1>15, <1>18 DEF Inv

-----------------------------------------------------------------------------
(* The calls. *)

\* The request of a call that has sent nothing yet is queued.
LEMMA RequestQueued ==
    ASSUME Inv, NEW d \in Callers, call[d] \in Before,
           call' = [call EXCEPT ![d] = "calling"],
           rpcq' = Append(rpcq, [k |-> "request", c |-> d]),
           UNCHANGED <<scene, conn, cancelled, reply, out, inbox, lease, stop>>,
           UNCHANGED <<turn, owed, asked>>
    PROVE  Inv'
  <1>1. WireType /\ StateType /\ WireInv /\ CallInv /\ AskInv /\ UncertainEndsEpoch
    BY DEF Inv
  <1>2. PICK m \in Frames : m = [k |-> "request", c |-> d] /\ m.k = "request" /\ m.c = d
    BY DEF Frames
  <1>3. rpcq \in Seq(Frames) /\ rpcq' = Append(rpcq, m)
    BY <1>1, <1>2 DEF WireType
  <1>4. Unsent(d) /\ turn[d] = "none" /\ reply[d] # "tooLarge"
    BY <1>1 DEF CallInv
  <1>5. \A i \in DOMAIN rpcq : rpcq[i] # m
    BY <1>2, <1>4 DEF Unsent, HasRequest
  <1>6. /\ rpcq' \in Seq(Frames)
        /\ \A c : HasRequest(rpcq', c) <=>
                    HasRequest(rpcq, c) \/ (m.k = "request" /\ m.c = c)
        /\ \A q : HasAnswer(rpcq', q) <=>
                    HasAnswer(rpcq, q) \/ (m.k = "respond" /\ m.q = q)
        /\ Distinct(rpcq) /\ (\A i \in DOMAIN rpcq : rpcq[i] # m) => Distinct(rpcq')
    BY <1>3, AppendAdds
  <1>7. /\ \A c \in Callers \ {d} : HasRequest(rpcq', c) <=> HasRequest(rpcq, c)
        /\ \A q : HasAnswer(rpcq', q) <=> HasAnswer(rpcq, q)
        /\ Distinct(rpcq')
    BY <1>1, <1>2, <1>5, <1>6 DEF WireInv
  <1>8. WireType'
    BY <1>1, <1>6 DEF WireType
  <1>9. WireInv'
    BY <1>1, <1>4, <1>7 DEF WireInv, Unsent
  <1>10. /\ call'[d] = "calling" /\ \A c \in Callers \ {d} : call'[c] = call[c]
         /\ call' \in [Callers -> Stages \union Verdicts]
    BY <1>1 DEF StateType, Stages
  <1>11. StateType' /\ UncertainEndsEpoch'
    BY <1>1, <1>10 DEF StateType, UncertainEndsEpoch
  <1>12. /\ \A c \in Callers \ {d} : Unsent(c)' <=> Unsent(c)
         /\ \A q \in Asks : Unreplied(q)' <=> Unreplied(q)
    BY <1>7 DEF Unsent, Unreplied
  <1>13. CallInv'
    BY <1>1, <1>4, <1>10, <1>12 DEF CallInv, Before
  <1>14. AskInv'
    BY <1>1, <1>12 DEF AskInv
  <1> QED
    BY <1>8, <1>9, <1>11, <1>13, <1>14 DEF Inv

\* A call comes to a stage or a verdict that what it has heard bears out.
Founded(d, v) ==
  /\ v \in Stages \union Verdicts
  /\ v \in Before => call[d] \in Before
  /\ v = "notApplied" => call[d] \in Before \/ reply[d] \in {"error", "tooLarge"}
  /\ v \in {"uncertain", "untracked"} => stop'

\* A call that moves so preserves the invariant.
LEMMA CallMoves ==
    ASSUME Inv, NEW d \in Callers, NEW v, Founded(d, v),
           call' = [call EXCEPT ![d] = v],
           stop' = stop \/ stop' = TRUE,
           UNCHANGED <<scene, conn, cancelled, rpcq, reply, out, inbox, lease>>,
           UNCHANGED <<turn, owed, asked>>
    PROVE  Inv'
  <1>1. WireType /\ StateType /\ WireInv /\ CallInv /\ AskInv /\ UncertainEndsEpoch
    BY DEF Inv
  <1>2. /\ call'[d] = v /\ \A c \in Callers \ {d} : call'[c] = call[c]
        /\ call' \in [Callers -> Stages \union Verdicts]
    BY <1>1 DEF StateType, Founded
  <1>3. stop' \in BOOLEAN /\ (stop => stop')
    <2>1. stop \in BOOLEAN
      BY <1>1 DEF StateType
    <2>2. CASE stop' = stop
      BY <2>1, <2>2
    <2>3. CASE stop' = TRUE
      BY <2>3
    <2> QED
      BY <2>2, <2>3
  <1>4. WireType' /\ WireInv'
    BY <1>1 DEF WireType, WireInv
  <1>5. StateType'
    BY <1>1, <1>2, <1>3 DEF StateType
  <1>6. UncertainEndsEpoch'
    <2> SUFFICES ASSUME NEW c \in Callers, call'[c] \in {"uncertain", "untracked"}
                 PROVE  stop'
      BY DEF UncertainEndsEpoch
    <2>1. CASE c = d
      BY <1>2, <2>1 DEF Founded
    <2>2. CASE c # d
      BY <1>1, <1>2, <1>3, <2>2 DEF UncertainEndsEpoch
    <2> QED
      BY <2>1, <2>2
  <1>7. /\ \A c \in Callers : Unsent(c)' <=> Unsent(c)
        /\ \A q \in Asks : Unreplied(q)' <=> Unreplied(q)
    BY DEF Unsent, Unreplied
  <1>8. CallInv'
    BY <1>1, <1>2, <1>7 DEF CallInv, Founded
  <1>9. AskInv'
    BY <1>1, <1>7 DEF AskInv
  <1> QED
    BY <1>4, <1>5, <1>6, <1>8, <1>9 DEF Inv

\* What the calls leave alone.
Untouched ==
  /\ UNCHANGED <<scene, conn, cancelled, reply, out, inbox, lease>>
  /\ UNCHANGED <<turn, owed, asked>>

\* request_budgeted, from a stage before the request.
LEMMA RequestInv ==
    ASSUME Inv, Untouched, NEW d \in Callers, call[d] \in Before, Request(d)
    PROVE  Inv'
  <1>1. CASE conn # "open" \/ cancelled
    <2>1. rpcq' = rpcq
      BY <1>1 DEF Request
    <2>2. PICK v \in {"uncertain", "failed"} :
                 /\ call' = [call EXCEPT ![d] = v]
                 /\ v = "uncertain" => stop' = TRUE
                 /\ stop' = stop \/ stop' = TRUE
      BY <1>1 DEF Request, FailClosedOn, Returns
    <2>3. Founded(d, v)
      BY <2>2 DEF Founded, Before, Verdicts
    <2> QED
      BY <2>1, <2>2, <2>3, CallMoves DEF Untouched
  <1>2. CASE ~(conn # "open" \/ cancelled)
    <2>1. /\ call' = [call EXCEPT ![d] = "calling"]
          /\ rpcq' = Append(rpcq, [k |-> "request", c |-> d])
          /\ stop' = stop
      BY <1>2 DEF Request
    <2> QED
      BY <2>1, RequestQueued DEF Untouched
  <1> QED
    BY <1>1, <1>2

\* A call begins.
LEMMA CallBegins ==
    ASSUME Inv, NEW d \in Callers, Call(d)
    PROVE  Inv'
  <1>1. Untouched /\ call[d] \in Before
    BY DEF Call, Untouched, serverVars, Before
  <1>2. CASE Request(d)
    BY <1>1, <1>2, RequestInv
  <1>3. CASE ~Request(d)
    <2>1. PICK v \in {"ensuring", "releasing", "notApplied"} :
                 call' = [call EXCEPT ![d] = v] /\ stop' = stop /\ rpcq' = rpcq
      BY <1>3 DEF Call, Returns
    <2>2. Founded(d, v)
      BY <1>1, <2>1 DEF Founded, Before, Stages, Verdicts
    <2> QED
      BY <1>1, <2>1, <2>2, CallMoves DEF Untouched
  <1> QED
    BY <1>2, <1>3

\* The router has acknowledged.
LEMMA AcknowledgedInv ==
    ASSUME Inv, NEW d \in Callers, Acknowledged(d)
    PROVE  Inv'
  <1>1. Untouched
    BY DEF Acknowledged, Untouched, serverVars
  <1>2. CASE call[d] \in {"ensuring", "beginning"} /\ Request(d)
    BY <1>1, <1>2, RequestInv DEF Before
  <1>3. CASE ~(call[d] \in {"ensuring", "beginning"} /\ Request(d))
    <2>1. PICK v \in {"beginning", "notApplied", "ok"} :
                 /\ call' = [call EXCEPT ![d] = v] /\ stop' = stop /\ rpcq' = rpcq
                 /\ v # "ok" => call[d] = "ensuring"
      BY <1>3 DEF Acknowledged, Returns
    <2>2. Founded(d, v)
      BY <2>1 DEF Founded, Before, Stages, Verdicts
    <2> QED
      BY <1>1, <2>1, <2>2, CallMoves DEF Untouched
  <1> QED
    BY <1>2, <1>3

\* The router has not acknowledged.
LEMMA NotAcknowledgedInv ==
    ASSUME Inv, NEW d \in Callers, NotAcknowledged(d)
    PROVE  Inv'
  <1>1. Untouched /\ rpcq' = rpcq
    BY DEF NotAcknowledged, Untouched, serverVars, rpcVars
  <1>2. PICK v \in {"untracked", "notApplied"} :
               /\ call' = [call EXCEPT ![d] = v]
               /\ v = "untracked" => stop' = TRUE
               /\ v = "notApplied" => call[d] \in Before /\ stop' = stop
    BY DEF NotAcknowledged, FailClosedOn, Returns, Before
  <1>3. Founded(d, v) /\ (stop' = stop \/ stop' = TRUE)
    BY <1>2 DEF Founded, Before, Stages, Verdicts
  <1> QED
    BY <1>1, <1>2, <1>3, CallMoves DEF Untouched

\* The answer has arrived.
LEMMA AnsweredInv ==
    ASSUME Inv, NEW d \in Callers, Answered(d)
    PROVE  Inv'
  <1>1. Untouched /\ rpcq' = rpcq
    BY DEF Answered, Untouched, serverVars, rpcVars
  <1>2. PICK v \in {"notApplied", "failed", "ok", "observing", "untracked"} :
               /\ call' = [call EXCEPT ![d] = v]
               /\ v = "untracked" => stop' = TRUE
               /\ v = "notApplied" => reply[d] \in {"error", "tooLarge"}
               /\ stop' = stop \/ stop' = TRUE
    BY DEF Answered, FailClosedOn, Returns
  <1>3. Founded(d, v)
    BY <1>2 DEF Founded, Before, Stages, Verdicts
  <1> QED
    BY <1>1, <1>2, <1>3, CallMoves DEF Untouched

\* No answer has arrived.
LEMMA UnansweredInv ==
    ASSUME Inv, NEW d \in Callers, Unanswered(d)
    PROVE  Inv'
  <1>1. Untouched /\ rpcq' = rpcq
    BY DEF Unanswered, Untouched, serverVars, rpcVars
  <1>2. PICK v \in {"uncertain", "failed"} :
               /\ call' = [call EXCEPT ![d] = v]
               /\ v = "uncertain" => stop' = TRUE
               /\ stop' = stop \/ stop' = TRUE
    BY DEF Unanswered, FailClosedOn, Returns
  <1>3. Founded(d, v)
    BY <1>2 DEF Founded, Before, Stages, Verdicts
  <1> QED
    BY <1>1, <1>2, <1>3, CallMoves DEF Untouched

\* The consumer answers a request of the server, or drops it.
LEMMA RespondInv ==
    ASSUME Inv, NEW p \in Asks, Respond(p)
    PROVE  Inv'
  <1>1. WireType /\ StateType /\ WireInv /\ CallInv /\ AskInv /\ UncertainEndsEpoch
    BY DEF Inv
  <1>2. /\ UNCHANGED <<scene, call, conn, reply, out, inbox, stop>>
        /\ UNCHANGED <<turn, owed, asked>>
        /\ lease[p] = "armed"
    BY DEF Respond, serverVars
  <1>3. CASE /\ lease' = [lease EXCEPT ![p] = "resolved"]
             /\ cancelled' = TRUE
             /\ rpcq' = rpcq
    <2>1. Wires
      BY <1>1, <1>2, <1>3, QuietWires
    <2>2. Leased
      BY <1>1, <1>3 DEF Leased, StateType, Leases
    <2>3. Flags
      BY <1>1, <1>2, <1>3 DEF Flags, StateType
    <2>4. QuietStep
      BY <1>1, <1>2, <2>1, <2>2, <2>3, SameReplies DEF QuietStep
    <2> QED
      BY <2>4, QuietInv
  <1>4. CASE /\ lease' = [lease EXCEPT ![p] = "actor"]
             /\ rpcq' = Append(rpcq, [k |-> "respond", q |-> p])
             /\ UNCHANGED cancelled
    <2>1. PICK m \in Frames : m = [k |-> "respond", q |-> p] /\ m.k = "respond" /\ m.q = p
      <3>1. [k |-> "respond", q |-> p] \in Frames
        BY DEF Frames
      <3> QED
        BY <3>1
    <2>2. rpcq \in Seq(Frames) /\ rpcq' = Append(rpcq, m)
      BY <1>1, <1>4, <2>1 DEF WireType
    <2>3. Unreplied(p) /\ asked[p] = 0 /\ ~HasAsk(inbox, p)
      BY <1>1, <1>2 DEF AskInv
    <2>4. \A i \in DOMAIN rpcq : rpcq[i] # m
      BY <2>1, <2>3 DEF Unreplied, HasAnswer
    <2>5. /\ rpcq' \in Seq(Frames)
          /\ \A c : HasRequest(rpcq', c) <=>
                      HasRequest(rpcq, c) \/ (m.k = "request" /\ m.c = c)
          /\ \A q : HasAnswer(rpcq', q) <=>
                      HasAnswer(rpcq, q) \/ (m.k = "respond" /\ m.q = q)
          /\ Distinct(rpcq) /\ (\A i \in DOMAIN rpcq : rpcq[i] # m) => Distinct(rpcq')
      BY <2>2, AppendAdds
    <2>6. /\ \A q \in Asks \ {p} : HasAnswer(rpcq', q) <=> HasAnswer(rpcq, q)
          /\ \A c : HasRequest(rpcq', c) <=> HasRequest(rpcq, c)
          /\ Distinct(rpcq')
      BY <1>1, <2>1, <2>4, <2>5 DEF WireInv
    <2>7. WireType'
      BY <1>1, <1>2, <2>5 DEF WireType
    <2>8. WireInv'
      BY <1>1, <1>2, <2>3, <2>6 DEF WireInv, Unreplied
    <2>9. /\ lease'[p] = "actor" /\ \A q \in Asks \ {p} : lease'[q] = lease[q]
          /\ lease' \in [Asks -> Leases]
      BY <1>1, <1>4 DEF StateType, Leases
    <2>10. StateType' /\ UncertainEndsEpoch'
      BY <1>1, <1>2, <1>4, <2>9 DEF StateType, UncertainEndsEpoch
    <2>11. /\ \A c \in Callers : Unsent(c)' <=> Unsent(c)
           /\ \A q \in Asks \ {p} : Unreplied(q)' <=> Unreplied(q)
      BY <1>2, <2>6 DEF Unsent, Unreplied
    <2>12. CallInv'
      BY <1>1, <1>2, <2>11 DEF CallInv
    <2>13. AskInv'
      BY <1>1, <1>2, <1>4, <2>3, <2>9, <2>11 DEF AskInv
    <2> QED
      BY <2>7, <2>8, <2>10, <2>12, <2>13 DEF Inv
  <1> QED
    BY <1>3, <1>4 DEF Respond

-----------------------------------------------------------------------------

\* The initial states satisfy the invariant.
LEMMA InitInv == ClientInit => Inv
  <1> SUFFICES ASSUME ClientInit
               PROVE  Inv
    OBVIOUS
  <1> USE DEF ClientInit, RpcInit
  <1>1. WireType
    BY DEF WireType
  <1>2. StateType
    <2>1. /\ call \in [Callers -> Stages \union Verdicts]
          /\ reply \in [Callers -> Replies]
          /\ turn \in [Callers -> TurnStates]
          /\ lease \in [Asks -> Leases]
      BY DEF Stages, Replies, TurnStates, Leases
    <2>2. -1 \in Int
      OBVIOUS
    <2>3. asked \in [Asks -> Int]
      BY <2>2
    <2>4. /\ cancelled \in BOOLEAN /\ stop \in BOOLEAN
          /\ conn \in {"open", "lost"} /\ owed \subseteq Callers
      OBVIOUS
    <2> QED
      BY <2>1, <2>3, <2>4 DEF StateType
  <1>3. \A c : ~HasRequest(rpcq, c) /\ ~HasRequest(out, c) /\ ~HasRefusal(inbox, c)
    BY DEF HasRequest, HasRefusal
  <1>4. \A q : ~HasAnswer(rpcq, q) /\ ~HasAnswer(out, q) /\ ~HasAsk(inbox, q)
    BY DEF HasAnswer, HasAsk
  <1>5. WireInv
    BY <1>3, <1>4 DEF WireInv, Distinct, AsksDistinct
  <1>6. CallInv
    BY <1>3 DEF CallInv, Unsent
  <1>7. AskInv
    BY <1>4 DEF AskInv, Unreplied
  <1>8. UncertainEndsEpoch
    BY DEF UncertainEndsEpoch
  <1> QED
    BY <1>1, <1>2, <1>5, <1>6, <1>7, <1>8 DEF Inv

\* run_actor sees the cancelled token.
LEMMA ActorStopsInv ==
    ASSUME Inv, ActorStops, UNCHANGED clientVars
    PROVE  Inv'
  BY EndsInv DEF ActorStops, Stopped, clientVars

\* Every step of the actor, the pipe and the app-server preserves the invariant.
LEMMA RpcInv ==
    ASSUME Inv, RpcNext, UNCHANGED clientVars
    PROVE  Inv'
  <1>1. CASE Dispatch
    BY <1>1, DispatchInv
  <1>2. CASE PumpRefuses
    BY <1>2, PumpRefusesInv
  <1>3. CASE RespondFails
    BY <1>3, RespondFailsInv
  <1>4. CASE HandleInbound
    BY <1>4, HandleInboundInv
  <1>5. CASE EmitHeld \/ SweepPending
    BY <1>5, StillSteps
  <1>6. CASE ActorStops
    BY <1>6, ActorStopsInv
  <1>7. CASE ServerTakes
    BY <1>7, ServerTakesInv
  <1>8. CASE ServerAnswers
    BY <1>8, ServerAnswersInv
  <1>9. CASE ServerReports
    BY <1>9, ServerReportsInv
  <1>10. CASE ServerErrs
    BY <1>10, ServerErrsInv
  <1>11. CASE ServerAsks
    BY <1>11, ServerAsksInv
  <1>12. CASE ServerDies
    BY <1>12, ServerDiesInv
  <1> QED
    BY <1>1, <1>2, <1>3, <1>4, <1>5, <1>6, <1>7, <1>8, <1>9, <1>10, <1>11, <1>12
       DEF RpcNext

\* Every step preserves the invariant.
LEMMA NextInv ==
    ASSUME Inv, [ClientNext]_vars
    PROVE  Inv'
  <1>1. CASE RpcNext /\ UNCHANGED clientVars
    BY <1>1, RpcInv
  <1>2. CASE HandleRouterCommand \/ RouterBreaks
    BY <1>2, StillSteps
  <1>3. CASE RouteEvent \/ RouterCancels \/ RouterEnds \/ Shutdown
    BY <1>3, EndingSteps
  <1>4. ASSUME NEW d \in Callers, \/ Call(d) \/ Acknowledged(d) \/ NotAcknowledged(d)
                                  \/ Answered(d) \/ Unanswered(d)
        PROVE  Inv'
    BY <1>4, CallBegins, AcknowledgedInv, NotAcknowledgedInv, AnsweredInv, UnansweredInv
  <1>5. CASE \E s \in Subs : Subscribe(s) \/ Recv(s) \/ Unsubscribe(s)
    BY <1>5, StillSteps
  <1>6. ASSUME NEW q \in Asks, Respond(q)
        PROVE  Inv'
    BY <1>6, RespondInv
  <1>7. CASE UNCHANGED vars
    BY <1>7, StillSteps
  <1> QED
    BY <1>1, <1>2, <1>3, <1>4, <1>5, <1>6, <1>7 DEF ClientNext

\* The invariant holds in every reachable state.
THEOREM ClientInvariant == Spec => []Inv
  BY InitInv, NextInv, PTL DEF Spec

\* A call that returns "not applied" was not executed and never will be, and after
\* an unknown outcome the epoch ends (turn_start_definitely_not_applied,
\* NonIdempotentGuard, PendingTurnStartGuard), for every number of calls and faults.
THEOREM OutcomeStaysTrue == Spec => []OutcomeIsTrue
  <1>1. Inv => OutcomeIsTrue
    BY DEF Inv, CallInv, OutcomeIsTrue, NotAppliedIsTrue
  <1> QED
    BY <1>1, ClientInvariant, PTL

\* A request of the app-server is answered at most once, and none is given up
\* unless the connection ends (ServerRequestLease, respond_request), for every
\* number of requests and every capacity.
THEOREM AskedAtMostOnce == Spec => []AskedOnce
  <1>1. Inv => AskedOnce
    BY DEF Inv, AskInv, AskedOnce
  <1> QED
    BY <1>1, ClientInvariant, PTL

-----------------------------------------------------------------------------
(***************************************************************************)
(* A thread that holds its reports back (DeferralIsOwned).                 *)
(***************************************************************************)

\* The reports of the app-server, the events of the connection and the commands to the
\* router.
NoteSet == [k : {"started", "delta", "usage", "item", "completed"},
            c : Callers, t : Threads, v : 0 .. 1]
EventSet == Messages \union {Drift}
CommandSet == [k : {"subscribe", "unsubscribe"}, s : Subs]
                \union [k : {"ensure", "begin", "abort", "turn", "thread", "release"}, c : Callers]

\* x is a ThreadRoute; its deferred reports are reports.
IsRoute(x) ==
  /\ x = [subs |-> x.subs, pend |-> x.pend, defer |-> x.defer, deferred |-> x.deferred,
          known |-> x.known, invalid |-> x.invalid, started |-> x.started, active |-> x.active,
          items |-> x.items, usage |-> x.usage, outcomes |-> x.outcomes]
  /\ x.deferred \in Seq(NoteSet)
  /\ x.pend \in {None} \union {Start(c) : c \in Callers}

\* r is a state of the router.
Fine(r) ==
  /\ r = [routes |-> r.routes, box |-> r.box, fault |-> r.fault]
  /\ r.routes = [t \in Threads |-> r.routes[t]]
  /\ \A t \in Threads : r.routes[t] = NoRoute \/ IsRoute(r.routes[t])

QueueType ==
  /\ events \in Seq(EventSet) /\ held \in Messages \union {None}
  /\ cmds \in Seq(CommandSet)
  /\ ack \in [Callers -> {"none", "yes", "no"}]
  /\ Fine(State)

\* Some thread waits for the start of call c; a command of kind K for c is in the queue q,
\* which has at most one "begin" for c.
Waits(c) == \E t \in Threads : routes[t] # NoRoute /\ routes[t].pend = Start(c)
QueuedIn(q, c, K) == \E i \in DOMAIN q : q[i].k \in K /\ q[i].c = c
Queued(c, K) == QueuedIn(cmds, c, K)
BeginsOnce(q, c) ==
  \A i, j \in DOMAIN q :
    (q[i].k = "begin" /\ q[i].c = c /\ q[j].k = "begin" /\ q[j].c = c) => i = j

\* Somebody will end the start of call c, or the epoch ends.
Owner(c) ==
  \/ call[c] \in {"beginning", "calling", "observing"}
  \/ Queued(c, {"abort", "turn"})
  \/ stop \/ router # "run"

\* A thread defers only while a start is pending; that is a turn/start of this thread.
PendInv ==
  \A t \in Threads : routes[t] # NoRoute =>
    /\ routes[t].defer => routes[t].pend # None
    /\ \A c \in Callers : routes[t].pend = Start(c) =>
         Thread(c) = t /\ plan[c].method = "turn/start" /\ Owner(c)

\* No thread waits for the start of a call before the router has handled its command, or
\* after it has handled the last one.
StartOf(c) ==
  /\ call[c] \in {"idle", "calling"} => ack[c] = "none"
  /\ call[c] \in {"idle", "ensuring"} => ~Waits(c) /\ ~Queued(c, {"begin"})
  /\ call[c] = "beginning" /\ ack[c] # "yes" => ~Waits(c)
  /\ call[c] = "observing" /\ ack[c] # "none" => ~Waits(c)
  /\ Queued(c, {"begin"}) => ~Waits(c)
  /\ Queued(c, {"begin", "abort", "turn"}) => plan[c].method = "turn/start"
  /\ Queued(c, {"thread"}) => plan[c].method # "turn/start"
  /\ BeginsOnce(cmds, c)

RouteInv == QueueType /\ PendInv /\ \A c \in Callers : StartOf(c)

\* What a step of the router may do to a thread without being told to: nothing to a pending
\* start, and end a deferral; a route it makes has neither.
Quieter(r, q) ==
  \A t \in Threads : q.routes[t] # NoRoute =>
    \/ q.routes[t].pend = None /\ ~q.routes[t].defer
    \/ /\ r.routes[t] # NoRoute
       /\ q.routes[t].pend = r.routes[t].pend
       /\ q.routes[t].defer => r.routes[t].defer
Settles(r, q) == Fine(q) /\ Quieter(r, q)

LEMMA RouteIsThere == ASSUME NEW x, IsRoute(x) PROVE x # NoRoute
  <1>1. x = NoRoute => DOMAIN x = {"absent"}
    BY DEF NoRoute
  <1>2. "subs" \in DOMAIN x
    BY DEF IsRoute
  <1> QED
    BY <1>1, <1>2

LEMMA NewRouteIs ==
    IsRoute(NewRoute) /\ NewRoute.pend = None /\ ~NewRoute.defer /\ NewRoute # NoRoute
  <1>1. IsRoute(NewRoute) /\ NewRoute.pend = None /\ ~NewRoute.defer
    BY DEF IsRoute, NewRoute
  <1> QED
    BY <1>1, RouteIsThere

LEMMA SettlesSame == ASSUME NEW r, Fine(r) PROVE Settles(r, r)
  BY DEF Settles, Quieter

LEMMA SettlesTrans ==
    ASSUME NEW r, NEW q, NEW p, Settles(r, q), Settles(q, p)
    PROVE  Settles(r, p)
  BY DEF Settles, Quieter

\* The state with one field changed.
LEMMA StateExcept ==
    ASSUME NEW r, Fine(r), NEW v
    PROVE  /\ [r EXCEPT !.routes = v] = [routes |-> v, box |-> r.box, fault |-> r.fault]
           /\ [r EXCEPT !.box = v] = [routes |-> r.routes, box |-> v, fault |-> r.fault]
           /\ [r EXCEPT !.fault = v] = [routes |-> r.routes, box |-> r.box, fault |-> v]
  BY DEF Fine

\* Only the mailboxes or the fault change.
LEMMA SameRoutes ==
    ASSUME NEW r, Fine(r), NEW q, q = [routes |-> r.routes, box |-> q.box, fault |-> q.fault]
    PROVE  Settles(r, q)
  <1>1. q.routes = r.routes
    OBVIOUS
  <1> QED
    BY <1>1 DEF Settles, Quieter, Fine

\* One route changes, but not its pending start, and its deferral only ends.
LEMMA OneRoute ==
    ASSUME NEW r, Fine(r), NEW t \in Threads, NEW x, IsRoute(x), NEW q,
           \/ r.routes[t] # NoRoute /\ x.pend = r.routes[t].pend /\ (x.defer => r.routes[t].defer)
           \/ x.pend = None /\ ~x.defer,
           q = [routes |-> [r.routes EXCEPT ![t] = x], box |-> q.box, fault |-> q.fault]
    PROVE  Settles(r, q) /\ q.routes[t] = x /\ x # NoRoute
  <1>1. q.routes = [r.routes EXCEPT ![t] = x]
    OBVIOUS
  <1>2. DOMAIN r.routes = Threads
    BY DEF Fine
  <1>3. q.routes[t] = x /\ \A u \in Threads \ {t} : q.routes[u] = r.routes[u]
    BY <1>1, <1>2
  <1>4. q.routes = [u \in Threads |-> q.routes[u]]
    BY <1>1, <1>2
  <1>5. Fine(q)
    BY <1>3, <1>4 DEF Fine
  <1>6. Quieter(r, q)
    BY <1>3 DEF Quieter
  <1> QED
    BY <1>3, <1>5, <1>6, RouteIsThere DEF Settles

\* A route with a changed field is a route, with the same start.
LEMMA SubsChange ==
    ASSUME NEW x, IsRoute(x), NEW v
    PROVE  /\ IsRoute([x EXCEPT !.subs = v]) /\ [x EXCEPT !.subs = v].pend = x.pend
           /\ [x EXCEPT !.subs = v].defer = x.defer
  BY DEF IsRoute

LEMMA KnownChange ==
    ASSUME NEW x, IsRoute(x), NEW v
    PROVE  /\ IsRoute([x EXCEPT !.known = v]) /\ [x EXCEPT !.known = v].pend = x.pend
           /\ [x EXCEPT !.known = v].defer = x.defer
  BY DEF IsRoute

LEMMA InvalidChange ==
    ASSUME NEW x, IsRoute(x), NEW v
    PROVE  /\ IsRoute([x EXCEPT !.invalid = v]) /\ [x EXCEPT !.invalid = v].pend = x.pend
           /\ [x EXCEPT !.invalid = v].defer = x.defer
  BY DEF IsRoute

LEMMA StartedChange ==
    ASSUME NEW x, IsRoute(x), NEW v
    PROVE  /\ IsRoute([x EXCEPT !.started = v]) /\ [x EXCEPT !.started = v].pend = x.pend
           /\ [x EXCEPT !.started = v].defer = x.defer
  BY DEF IsRoute

LEMMA ActiveChange ==
    ASSUME NEW x, IsRoute(x), NEW v
    PROVE  /\ IsRoute([x EXCEPT !.active = v]) /\ [x EXCEPT !.active = v].pend = x.pend
           /\ [x EXCEPT !.active = v].defer = x.defer
  BY DEF IsRoute

LEMMA ItemsChange ==
    ASSUME NEW x, IsRoute(x), NEW v
    PROVE  /\ IsRoute([x EXCEPT !.items = v]) /\ [x EXCEPT !.items = v].pend = x.pend
           /\ [x EXCEPT !.items = v].defer = x.defer
  BY DEF IsRoute

LEMMA UsageChange ==
    ASSUME NEW x, IsRoute(x), NEW v
    PROVE  /\ IsRoute([x EXCEPT !.usage = v]) /\ [x EXCEPT !.usage = v].pend = x.pend
           /\ [x EXCEPT !.usage = v].defer = x.defer
  BY DEF IsRoute

LEMMA OutcomesChange ==
    ASSUME NEW x, IsRoute(x), NEW v
    PROVE  /\ IsRoute([x EXCEPT !.outcomes = v]) /\ [x EXCEPT !.outcomes = v].pend = x.pend
           /\ [x EXCEPT !.outcomes = v].defer = x.defer
  BY DEF IsRoute

LEMMA PruneSettles ==
    ASSUME NEW r, Fine(r)
    PROVE  Settles(r, Prune(r)) /\ \A t \in Threads : Prune(r).routes[t] = NoRoute <=> r.routes[t] = NoRoute
  <1> DEFINE x(t) == IF r.routes[t] = NoRoute THEN NoRoute
                     ELSE [r.routes[t] EXCEPT !.subs = {s \in @ : r.box[s].open}]
             p == Prune(r)
  <1>1. p = [routes |-> [t \in Threads |-> x(t)], box |-> r.box, fault |-> r.fault]
    <2> DEFINE f == [t \in Threads |-> x(t)]
    <2>1. p = [r EXCEPT !.routes = f]
      BY DEF Prune
    <2> HIDE DEF p, f
    <2>2. p = [routes |-> f, box |-> r.box, fault |-> r.fault]
      BY <2>1, StateExcept
    <2> QED
      BY <2>2 DEF f
  <1>2. \A t \in Threads :
          \/ r.routes[t] = NoRoute /\ x(t) = NoRoute
          \/ /\ IsRoute(r.routes[t]) /\ r.routes[t] # NoRoute /\ IsRoute(x(t)) /\ x(t) # NoRoute
             /\ x(t).pend = r.routes[t].pend /\ x(t).defer = r.routes[t].defer
    BY SubsChange, RouteIsThere DEF Fine
  <1> HIDE DEF x, p
  <1>3. \A t \in Threads : p.routes[t] = x(t)
    BY <1>1
  <1>4. Fine(p) /\ Quieter(r, p)
    BY <1>1, <1>2, <1>3 DEF Fine, Quieter
  <1> QED
    BY <1>2, <1>3, <1>4 DEF Settles, p

LEMMA WithRouteSettles ==
    ASSUME NEW r0, Fine(r0), NEW t \in Threads
    PROVE  Settles(r0, WithRoute(r0, t))
  <1> DEFINE r == Prune(r0)
             there == {u \in Threads : r.routes[u] # NoRoute}
             idle == {u \in there : Idle(r.routes[u])}
             out1 == CHOOSE u \in idle : TRUE
             a == [r EXCEPT !.routes[t] = NewRoute]
             b == [r EXCEPT !.routes[out1] = NoRoute, !.routes[t] = NewRoute]
  <1>1. Settles(r0, r) /\ Fine(r)
    BY PruneSettles DEF Settles
  <1> HIDE DEF r
  <1>2. Settles(r, a)
    <2>1. a = [routes |-> [r.routes EXCEPT ![t] = NewRoute], box |-> r.box, fault |-> r.fault]
      BY <1>1 DEF Fine
    <2> HIDE DEF a
    <2>2. a = [routes |-> [r.routes EXCEPT ![t] = NewRoute], box |-> a.box, fault |-> a.fault]
      BY <2>1
    <2> QED
      BY <1>1, <2>2, NewRouteIs, OneRoute
  <1>3. idle # {} => Settles(r, b)
    <2> SUFFICES ASSUME idle # {} PROVE Settles(r, b)
      OBVIOUS
    <2>1. out1 \in Threads
      OBVIOUS
    <2> DEFINE c == [r EXCEPT !.routes[out1] = NoRoute]
    <2> HIDE DEF out1
    <2>2. c = [routes |-> [r.routes EXCEPT ![out1] = NoRoute], box |-> r.box, fault |-> r.fault]
      BY <1>1 DEF Fine
    <2>3. DOMAIN r.routes = Threads /\ \A u \in Threads : c.routes[u] = IF u = out1 THEN NoRoute ELSE r.routes[u]
      BY <1>1, <2>1, <2>2 DEF Fine
    <2>4. c.routes = [u \in Threads |-> c.routes[u]]
      BY <2>2, <2>3
    <2>5. Settles(r, c)
      BY <1>1, <2>2, <2>3, <2>4 DEF Settles, Fine, Quieter
    <2> HIDE DEF c
    <2>6. b = [c EXCEPT !.routes[t] = NewRoute]
      BY DEF c
    <2>7. b = [routes |-> [c.routes EXCEPT ![t] = NewRoute], box |-> b.box, fault |-> b.fault]
      <3> DEFINE f == [c.routes EXCEPT ![t] = NewRoute]
      <3>1. b = [c EXCEPT !.routes = f]
        BY <2>6
      <3> HIDE DEF b, f
      <3>2. b = [routes |-> f, box |-> c.box, fault |-> c.fault]
        BY <2>5, <3>1, StateExcept DEF Settles
      <3>3. b = [routes |-> f, box |-> b.box, fault |-> b.fault]
        BY <3>2
      <3> QED
        BY <3>3 DEF f
    <2>8. Settles(c, b)
      <3> HIDE DEF b
      <3> QED BY <2>5, <2>7, NewRouteIs, OneRoute DEF Settles
    <2> QED
      BY <2>5, <2>8, SettlesTrans
  <1>4. WithRoute(r0, t) \in {r, a} \/ (idle # {} /\ WithRoute(r0, t) = b)
    BY DEF WithRoute, r
  <1> HIDE DEF a, b, idle
  <1> QED
    BY <1>1, <1>2, <1>3, <1>4, SettlesTrans

LEMMA FaultedSettles == ASSUME NEW r, Fine(r) PROVE Settles(r, Faulted(r))
  <1> DEFINE q == Faulted(r)
  <1>1. q = [routes |-> r.routes, box |-> r.box, fault |-> TRUE]
    BY StateExcept DEF Faulted
  <1> HIDE DEF q
  <1>2. q = [routes |-> r.routes, box |-> q.box, fault |-> q.fault]
    BY <1>1
  <1>3. Settles(r, q)
    BY <1>2, SameRoutes
  <1> QED
    BY <1>3 DEF q

LEMMA LossySettles ==
    ASSUME NEW r, Fine(r), NEW t, NEW e
    PROVE  Settles(r, DispatchLossy(r, t, e))
  <1> DEFINE q == DispatchLossy(r, t, e)
  <1>1. PICK f : q = [r EXCEPT !.box = f]
    BY DEF DispatchLossy
  <1> HIDE DEF q
  <1>2. q = [routes |-> r.routes, box |-> f, fault |-> r.fault]
    BY <1>1, StateExcept
  <1>3. q = [routes |-> r.routes, box |-> q.box, fault |-> q.fault]
    BY <1>2
  <1>4. Settles(r, q)
    BY <1>3, SameRoutes
  <1> QED
    BY <1>4 DEF q

\* The route of one thread and the mailboxes change.
Put(r, t, x, f) == [routes |-> [r.routes EXCEPT ![t] = x], box |-> f, fault |-> r.fault]

LEMMA PutIs ==
    ASSUME NEW r, Fine(r), NEW t \in Threads, NEW x, NEW f
    PROVE  /\ [r EXCEPT !.routes[t] = x] = Put(r, t, x, r.box)
           /\ [[r EXCEPT !.routes[t] = x] EXCEPT !.box = f] = Put(r, t, x, f)
  <1> DEFINE p == [r EXCEPT !.routes[t] = x]
             q == [p EXCEPT !.box = f]
  <1>1. p = Put(r, t, x, r.box)
    BY DEF Fine, Put
  <1> HIDE DEF p
  <1>3. q = Put(r, t, x, f)
    BY <1>1 DEF Put
  <1> QED
    BY <1>1, <1>3 DEF p

LEMMA PutSettles ==
    ASSUME NEW r, Fine(r), NEW t \in Threads, NEW x, IsRoute(x), NEW f,
           \/ r.routes[t] # NoRoute /\ x.pend = r.routes[t].pend /\ (x.defer => r.routes[t].defer)
           \/ x.pend = None /\ ~x.defer
    PROVE  Settles(r, Put(r, t, x, f)) /\ Put(r, t, x, f).routes[t] = x /\ x # NoRoute
  <1> DEFINE q == Put(r, t, x, f)
  <1>1. q = [routes |-> [r.routes EXCEPT ![t] = x], box |-> q.box, fault |-> q.fault]
    BY DEF Put
  <1> HIDE DEF q
  <1>2. Settles(r, q) /\ q.routes[t] = x /\ x # NoRoute
    BY <1>1, OneRoute
  <1> QED
    BY <1>2 DEF q

LEMMA TerminalSettles ==
    ASSUME NEW r, Fine(r), NEW t \in Threads, r.routes[t] # NoRoute, NEW e
    PROVE  Settles(r, DispatchTerminal(r, t, e))
  <1>1. IsRoute(r.routes[t])
    BY DEF Fine
  <1> DEFINE here == r.routes[t].subs
             fit == {s \in here : CanPushTerminal(r.box[s])}
             f == [s \in Subs |->
                     IF s \in fit THEN PushTerminal(r.box[s], e)
                     ELSE IF s \in here /\ r.box[s].open THEN Invalidate(r.box[s])
                     ELSE r.box[s]]
             x == [r.routes[t] EXCEPT !.subs = fit]
  <1>2. IsRoute(x) /\ x.pend = r.routes[t].pend /\ x.defer = r.routes[t].defer
    BY <1>1, SubsChange
  <1>3. DispatchTerminal(r, t, e) = [[r EXCEPT !.routes[t] = x] EXCEPT !.box = f]
    BY DEF DispatchTerminal
  <1> HIDE DEF x, f
  <1>4. DispatchTerminal(r, t, e) = Put(r, t, x, f)
    <2> DEFINE p == [r EXCEPT !.routes[t] = x]
               q == DispatchTerminal(r, t, e)
    <2>1. q = [p EXCEPT !.box = f]
      BY <1>3
    <2>2. p = Put(r, t, x, r.box)
      BY PutIs, Zenon
    <2> HIDE DEF p, q
    <2>3. q = Put(r, t, x, f)
      BY <2>1, <2>2 DEF Put
    <2> QED
      BY <2>3 DEF q
  <1> QED
    BY <1>2, <1>4, PutSettles

LEMMA InvalidateSettles ==
    ASSUME NEW r, Fine(r), NEW t \in Threads, r.routes[t] # NoRoute
    PROVE  Settles(r, InvalidateRoute(r, t))
  <1> DEFINE y == r.routes[t]
             x1 == [y EXCEPT !.invalid = TRUE]
             x2 == [x1 EXCEPT !.started = {}]
             x3 == [x2 EXCEPT !.active = {}]
             x4 == [x3 EXCEPT !.items = {}]
             x5 == [x4 EXCEPT !.usage = {}]
             x6 == [x5 EXCEPT !.subs = {}]
             x == [y EXCEPT !.invalid = TRUE, !.started = {}, !.active = {},
                            !.items = {}, !.usage = {}, !.subs = {}]
             f == [s \in Subs |-> IF s \in r.routes[t].subs THEN Invalidate(r.box[s]) ELSE r.box[s]]
  <1>1. IsRoute(y)
    BY DEF Fine
  <1>2. InvalidateRoute(r, t) = [[r EXCEPT !.routes[t] = x] EXCEPT !.box = f]
    BY DEF InvalidateRoute
  <1>3. x = x6
    OBVIOUS
  <1> HIDE DEF y, x, f
  <1>4. IsRoute(x1) /\ x1.pend = y.pend /\ x1.defer = y.defer
    BY <1>1, InvalidChange
  <1> HIDE DEF x1
  <1>5. IsRoute(x2) /\ x2.pend = y.pend /\ x2.defer = y.defer
    BY <1>4, StartedChange
  <1> HIDE DEF x2
  <1>6. IsRoute(x3) /\ x3.pend = y.pend /\ x3.defer = y.defer
    BY <1>5, ActiveChange
  <1> HIDE DEF x3
  <1>7. IsRoute(x4) /\ x4.pend = y.pend /\ x4.defer = y.defer
    BY <1>6, ItemsChange
  <1> HIDE DEF x4
  <1>8. IsRoute(x5) /\ x5.pend = y.pend /\ x5.defer = y.defer
    BY <1>7, UsageChange
  <1> HIDE DEF x5
  <1>9. IsRoute(x6) /\ x6.pend = y.pend /\ x6.defer = y.defer
    BY <1>8, SubsChange
  <1> HIDE DEF x6
  <1>10. InvalidateRoute(r, t) = Put(r, t, x, f)
    <2> DEFINE p == [r EXCEPT !.routes[t] = x]
               q == InvalidateRoute(r, t)
    <2>1. q = [p EXCEPT !.box = f]
      BY <1>2
    <2>2. p = Put(r, t, x, r.box)
      BY PutIs, Zenon
    <2> HIDE DEF p, q
    <2>3. q = Put(r, t, x, f)
      BY <2>1, <2>2 DEF Put
    <2> QED
      BY <2>3 DEF q
  <1> QED
    BY <1>3, <1>9, <1>10, PutSettles DEF y

\* One field of a route changes, and an event goes to its subscribers.
LEMMA ChangedThenSent ==
    ASSUME NEW r, Fine(r), NEW t \in Threads, r.routes[t] # NoRoute, NEW x, IsRoute(x), NEW e,
           x.pend = r.routes[t].pend, x.defer => r.routes[t].defer, NEW p,
           p = [r EXCEPT !.routes[t] = x]
    PROVE  /\ Settles(r, p)
           /\ Settles(r, DispatchTerminal(p, t, e))
           /\ Settles(r, DispatchLossy(p, t, e))
  <1>0. p = Put(r, t, x, r.box)
    BY PutIs, Zenon
  <1>1. Settles(r, p) /\ p.routes[t] # NoRoute
    BY <1>0, PutSettles
  <1>2. Fine(p)
    BY <1>1 DEF Settles
  <1>3. Settles(p, DispatchTerminal(p, t, e)) /\ Settles(p, DispatchLossy(p, t, e))
    BY <1>1, <1>2, TerminalSettles, LossySettles
  <1> QED
    BY <1>1, <1>3, SettlesTrans

LEMMA ThreadStartedSettles ==
    ASSUME NEW r0, Fine(r0), NEW t \in Threads
    PROVE  Settles(r0, RouteThreadStarted(r0, t))
  <1> DEFINE r == WithRoute(r0, t)
             x == [r.routes[t] EXCEPT !.known = TRUE]
             p == [r EXCEPT !.routes[t] = x]
             q == RouteThreadStarted(r0, t)
  <1>1. q = r \/ (Usable(r, t) /\ q = DispatchTerminal(p, t, ThreadStarted))
    BY DEF RouteThreadStarted
  <1>2. Settles(r0, r) /\ Fine(r)
    BY WithRouteSettles DEF Settles
  <1> HIDE DEF r, q
  <1>3. Usable(r, t) => Settles(r, DispatchTerminal(p, t, ThreadStarted))
    <2> SUFFICES ASSUME Usable(r, t) PROVE Settles(r, DispatchTerminal(p, t, ThreadStarted))
      OBVIOUS
    <2>1. r.routes[t] # NoRoute /\ IsRoute(r.routes[t])
      BY <1>2 DEF Usable, Fine
    <2>2. IsRoute(x) /\ x.pend = r.routes[t].pend /\ x.defer = r.routes[t].defer
      BY <2>1, KnownChange
    <2>3. p = [r EXCEPT !.routes[t] = x]
      OBVIOUS
    <2> HIDE DEF x, p
    <2> QED
      BY <2>3, <1>2, <2>1, <2>2, ChangedThenSent
  <1> HIDE DEF p
  <1> QED
    BY <1>1, <1>2, <1>3, SettlesTrans DEF q

LEMMA TurnStartedSettles ==
    ASSUME NEW r0, Fine(r0), NEW e, e.t \in Threads
    PROVE  Settles(r0, RouteTurnStarted(r0, e))
  <1> DEFINE r == WithRoute(r0, e.t)
             x == [r.routes[e.t] EXCEPT !.started = @ \union {e.c}, !.active = @ \union {e.c}]
             p == [r EXCEPT !.routes[e.t] = x]
             q == RouteTurnStarted(r0, e)
  <1>1. Settles(r0, r) /\ Fine(r)
    BY WithRouteSettles DEF Settles
  <1>2. \/ q = r
        \/ Usable(r, e.t) /\ q \in {InvalidateRoute(r, e.t), p, DispatchTerminal(p, e.t, e)}
    <2>1. [r EXCEPT !.routes[e.t].started = @ \union {e.c},
                    !.routes[e.t].active = @ \union {e.c}] = p
      <3> HIDE DEF r
      <3>1. DOMAIN r.routes = Threads /\ "routes" \in DOMAIN r
        BY <1>1 DEF Fine
      <3> QED
        BY <3>1
    <2> QED
      BY <2>1 DEF RouteTurnStarted
  <1> HIDE DEF r, q
  <1>3. Usable(r, e.t) => /\ Settles(r, p) /\ Settles(r, DispatchTerminal(p, e.t, e))
                          /\ Settles(r, InvalidateRoute(r, e.t))
    <2> SUFFICES ASSUME Usable(r, e.t)
                 PROVE  /\ Settles(r, p) /\ Settles(r, DispatchTerminal(p, e.t, e))
                        /\ Settles(r, InvalidateRoute(r, e.t))
      OBVIOUS
    <2>1. r.routes[e.t] # NoRoute /\ IsRoute(r.routes[e.t])
      BY <1>1 DEF Usable, Fine
    <2>2. IsRoute(x) /\ x.pend = r.routes[e.t].pend /\ x.defer = r.routes[e.t].defer
      <3> DEFINE y == r.routes[e.t]
                 v1 == y.started \union {e.c}
                 v2 == y.active \union {e.c}
                 x1 == [y EXCEPT !.started = v1]
                 x2 == [x1 EXCEPT !.active = v2]
      <3>2. x = x2
        OBVIOUS
      <3>0. IsRoute(y)
        BY <2>1
      <3> HIDE DEF x, y, v1, v2
      <3>1. IsRoute(x1) /\ x1.pend = y.pend /\ x1.defer = y.defer
        BY <3>0, StartedChange
      <3> HIDE DEF x1
      <3>3. IsRoute(x2) /\ x2.pend = y.pend /\ x2.defer = y.defer
        BY <3>1, ActiveChange
      <3> QED
        BY <3>2, <3>3 DEF y
    <2>3. p = [r EXCEPT !.routes[e.t] = x]
      OBVIOUS
    <2> HIDE DEF x, p
    <2> QED
      BY <2>3, <1>1, <2>1, <2>2, ChangedThenSent, InvalidateSettles
  <1> HIDE DEF p
  <1> QED
    BY <1>1, <1>2, <1>3, SettlesTrans DEF q

LEMMA UsageSettles ==
    ASSUME NEW r0, Fine(r0), NEW e, e.t \in Threads
    PROVE  Settles(r0, RouteUsage(r0, e))
  <1> DEFINE r == WithRoute(r0, e.t)
             x == [r.routes[e.t] EXCEPT !.usage = @ \union {e.c}]
             p == [r EXCEPT !.routes[e.t] = x]
             q == RouteUsage(r0, e)
  <1>1. Settles(r0, r) /\ Fine(r)
    BY WithRouteSettles DEF Settles
  <1>2. \/ q = r \/ q = DispatchLossy(r, e.t, e)
        \/ Usable(r, e.t) /\ q \in {InvalidateRoute(r, e.t), DispatchLossy(p, e.t, e)}
    BY DEF RouteUsage
  <1> HIDE DEF r, q
  <1>3. Settles(r, DispatchLossy(r, e.t, e))
    BY <1>1, LossySettles
  <1>4. Usable(r, e.t) => Settles(r, DispatchLossy(p, e.t, e)) /\ Settles(r, InvalidateRoute(r, e.t))
    <2> SUFFICES ASSUME Usable(r, e.t)
                 PROVE  Settles(r, DispatchLossy(p, e.t, e)) /\ Settles(r, InvalidateRoute(r, e.t))
      OBVIOUS
    <2>1. r.routes[e.t] # NoRoute /\ IsRoute(r.routes[e.t])
      BY <1>1 DEF Usable, Fine
    <2>2. IsRoute(x) /\ x.pend = r.routes[e.t].pend /\ x.defer = r.routes[e.t].defer
      BY <2>1, UsageChange
    <2>3. p = [r EXCEPT !.routes[e.t] = x]
      OBVIOUS
    <2> HIDE DEF x, p
    <2> QED
      BY <2>3, <1>1, <2>1, <2>2, ChangedThenSent, InvalidateSettles
  <1> HIDE DEF p
  <1> QED
    BY <1>1, <1>2, <1>3, <1>4, SettlesTrans DEF q

LEMMA ItemSettles ==
    ASSUME NEW r0, Fine(r0), NEW e, e.t \in Threads
    PROVE  Settles(r0, RouteItemCompleted(r0, e))
  <1> DEFINE r == WithRoute(r0, e.t)
             x == [r.routes[e.t] EXCEPT !.items = @ \union {e}]
             p == [r EXCEPT !.routes[e.t] = x]
             q == RouteItemCompleted(r0, e)
  <1>1. Settles(r0, r) /\ Fine(r)
    BY WithRouteSettles DEF Settles
  <1>2. \/ q = r \/ q = Faulted(r)
        \/ Usable(r, e.t) /\ q \in {InvalidateRoute(r, e.t), DispatchTerminal(p, e.t, e)}
    BY DEF RouteItemCompleted
  <1> HIDE DEF r, q
  <1>3. Settles(r, Faulted(r))
    BY <1>1, FaultedSettles
  <1>4. Usable(r, e.t) => Settles(r, DispatchTerminal(p, e.t, e)) /\ Settles(r, InvalidateRoute(r, e.t))
    <2> SUFFICES ASSUME Usable(r, e.t)
                 PROVE  Settles(r, DispatchTerminal(p, e.t, e)) /\ Settles(r, InvalidateRoute(r, e.t))
      OBVIOUS
    <2>1. r.routes[e.t] # NoRoute /\ IsRoute(r.routes[e.t])
      BY <1>1 DEF Usable, Fine
    <2>2. IsRoute(x) /\ x.pend = r.routes[e.t].pend /\ x.defer = r.routes[e.t].defer
      BY <2>1, ItemsChange
    <2>3. p = [r EXCEPT !.routes[e.t] = x]
      OBVIOUS
    <2> HIDE DEF x, p
    <2> QED
      BY <2>3, <1>1, <2>1, <2>2, ChangedThenSent, InvalidateSettles
  <1> HIDE DEF p
  <1> QED
    BY <1>1, <1>2, <1>3, <1>4, SettlesTrans DEF q

LEMMA TurnCompletedSettles ==
    ASSUME NEW r0, Fine(r0), NEW e, e.t \in Threads
    PROVE  Settles(r0, RouteTurnCompleted(r0, e))
  <1> DEFINE r == WithRoute(r0, e.t)
             route == r.routes[e.t]
             kept == IF Len(route.outcomes) >= OutcomeCap
                     THEN Tail(route.outcomes) ELSE route.outcomes
             x == [r.routes[e.t] EXCEPT !.usage = @ \ {e.c}, !.started = @ \ {e.c},
                          !.active = @ \ {e.c},
                          !.items = {i \in @ : i.c # e.c},
                          !.outcomes = Append(kept, e)]
             p == [r EXCEPT !.routes[e.t] = x]
             q == RouteTurnCompleted(r0, e)
  <1>1. Settles(r0, r) /\ Fine(r)
    BY WithRouteSettles DEF Settles
  <1>2. \/ q = r \/ q = Faulted(r)
        \/ Usable(r, e.t) /\ q \in {InvalidateRoute(r, e.t), DispatchTerminal(p, e.t, e)}
    <2> DEFINE same == OutcomeOf(route, e.c)
    <2>1. q = IF ~Usable(r, e.t) THEN Faulted(r)
              ELSE IF same # {}
              THEN IF \E i \in same : route.outcomes[i].v # e.v THEN InvalidateRoute(r, e.t) ELSE r
              ELSE DispatchTerminal(p, e.t, e)
      BY DEF RouteTurnCompleted
    <2> HIDE DEF r, p, q, same, route
    <2> QED
      BY <2>1
  <1> HIDE DEF r, q
  <1>3. Settles(r, Faulted(r))
    BY <1>1, FaultedSettles
  <1>4. Usable(r, e.t) => Settles(r, DispatchTerminal(p, e.t, e)) /\ Settles(r, InvalidateRoute(r, e.t))
    <2> SUFFICES ASSUME Usable(r, e.t)
                 PROVE  Settles(r, DispatchTerminal(p, e.t, e)) /\ Settles(r, InvalidateRoute(r, e.t))
      OBVIOUS
    <2>1. r.routes[e.t] # NoRoute /\ IsRoute(r.routes[e.t])
      BY <1>1 DEF Usable, Fine
    <2>2. IsRoute(x) /\ x.pend = r.routes[e.t].pend /\ x.defer = r.routes[e.t].defer
      <3> DEFINE y == r.routes[e.t]
                 v1 == y.usage \ {e.c}
                 v2 == y.started \ {e.c}
                 v3 == y.active \ {e.c}
                 v4 == {i \in y.items : i.c # e.c}
                 v5 == Append(kept, e)
                 x1 == [y EXCEPT !.usage = v1]
                 x2 == [x1 EXCEPT !.started = v2]
                 x3 == [x2 EXCEPT !.active = v3]
                 x4 == [x3 EXCEPT !.items = v4]
                 x5 == [x4 EXCEPT !.outcomes = v5]
      <3>0. IsRoute(y)
        BY <2>1
      <3>1. x = x5
        OBVIOUS
      <3> HIDE DEF kept, x, y, v1, v2, v3, v4, v5
      <3>2. IsRoute(x1) /\ x1.pend = y.pend /\ x1.defer = y.defer
        BY <3>0, UsageChange
      <3> HIDE DEF x1
      <3>3. IsRoute(x2) /\ x2.pend = y.pend /\ x2.defer = y.defer
        BY <3>2, StartedChange
      <3> HIDE DEF x2
      <3>4. IsRoute(x3) /\ x3.pend = y.pend /\ x3.defer = y.defer
        BY <3>3, ActiveChange
      <3> HIDE DEF x3
      <3>5. IsRoute(x4) /\ x4.pend = y.pend /\ x4.defer = y.defer
        BY <3>4, ItemsChange
      <3> HIDE DEF x4
      <3>6. IsRoute(x5) /\ x5.pend = y.pend /\ x5.defer = y.defer
        BY <3>5, OutcomesChange
      <3> QED
        BY <3>1, <3>6 DEF y
    <2>3. p = [r EXCEPT !.routes[e.t] = x]
      OBVIOUS
    <2> HIDE DEF x, p
    <2> QED
      BY <2>3, <1>1, <2>1, <2>2, ChangedThenSent, InvalidateSettles
  <1> HIDE DEF p
  <1> QED
    BY <1>1, <1>2, <1>3, <1>4, SettlesTrans DEF q

LEMMA RouteNowSettles ==
    ASSUME NEW r, Fine(r), NEW e \in NoteSet
    PROVE  Settles(r, RouteNow(r, e))
  <1>1. e.t \in Threads /\ e.k \in {"started", "delta", "usage", "item", "completed"}
    BY DEF NoteSet
  <1>2. RouteNow(r, e) \in {RouteTurnStarted(r, e), r, DispatchLossy(r, e.t, e), RouteUsage(r, e),
                            RouteItemCompleted(r, e), RouteTurnCompleted(r, e)}
    BY <1>1 DEF RouteNow
  <1> QED
    BY <1>1, <1>2, SettlesSame, TurnStartedSettles, LossySettles, UsageSettles, ItemSettles,
       TurnCompletedSettles

\* One deferred report is routed, up to a fault.
Step(x, e) == IF x.fault THEN x ELSE RouteNow(x, e)

LEMMA StepSettles == ASSUME NEW x, Fine(x), NEW e \in NoteSet PROVE Settles(x, Step(x, e))
  BY RouteNowSettles, SettlesSame DEF Step

\* h solves the equation by which the library's FoldLeft is defined; a solution exists, as
\* one for the sets of at most n places extends to those of n + 1; so the fold is one.
Solves(b, d, h) ==
  h = [s \in SUBSET DOMAIN d |-> IF s = {} THEN b ELSE Step(h[s \ {Max(s)}], d[Max(s)])]
Folded(b, d) == FoldLeft(LAMBDA x, e : IF x.fault THEN x ELSE RouteNow(x, e), b, d)

LEMMA FoldUnfolds ==
    ASSUME NEW b, NEW d, NEW g, Solves(b, d, g)
    PROVE  \E h : Solves(b, d, h) /\ Folded(b, d) = h[DOMAIN d]
  <1> DEFINE iter == CHOOSE h : Solves(b, d, h)
  <1>1. Solves(b, d, iter)
    BY Zenon
  <1>2. Folded(b, d) = iter[DOMAIN d]
    BY Zenon DEF Folded, FoldLeft, MapThenFoldSet, Solves, Step
  <1> HIDE DEF iter
  <1> QED
    BY <1>1, <1>2

LEMMA LeastIn ==
    ASSUME NEW T, T \in SUBSET Nat, T # {}
    PROVE  \E n \in T : \A m \in T : n <= m
  <1>1. PICK n \in T : \A m \in T : ~ (<<m, n>> \in OpToRel(<, Nat))
    BY NatLessThanWellFounded, WFMin, Zenon
  <1>2. \A m \in T : ~ (m < n)
    BY <1>1 DEF OpToRel
  <1> QED
    BY <1>2

\* The places of a sequence, and the last one of some of them.
LEMMA LastPlace ==
    ASSUME NEW d \in Seq(NoteSet), NEW s \in SUBSET DOMAIN d
    PROVE  /\ IsFiniteSet(s) /\ Cardinality(s) \in Nat
           /\ s # {} => /\ Max(s) \in s /\ d[Max(s)] \in NoteSet /\ s \ {Max(s)} \in SUBSET DOMAIN d
                        /\ Cardinality(s \ {Max(s)}) = Cardinality(s) - 1
  <1>1. DOMAIN d = 1 .. Len(d) /\ Len(d) \in Nat
    OBVIOUS
  <1>2. IsFiniteSet(s) /\ Cardinality(s) \in Nat
    <2> DEFINE n == Len(d)
    <2> HIDE DEF n
    <2>1. IsFiniteSet(1 .. n)
      BY <1>1, FS_Interval DEF n
    <2>2. IsFiniteSet(s)
      BY <1>1, <2>1, FS_Subset DEF n
    <2> QED
      BY <2>2, FS_CardinalityType
  <1>3. ASSUME s # {} PROVE Max(s) \in s
    <2> DEFINE T == {Len(d) - x : x \in s}
    <2>1. T \in SUBSET Nat /\ T # {}
      BY <1>1, <1>3
    <2>2. PICK n \in T : \A m \in T : n <= m
      BY <2>1, LeastIn
    <2>3. PICK x \in s : n = Len(d) - x
      OBVIOUS
    <2>4. \A y \in s : x >= y
      <3> SUFFICES ASSUME NEW y \in s PROVE x >= y
        OBVIOUS
      <3>1. Len(d) - y \in T
        OBVIOUS
      <3> HIDE DEF T
      <3>2. n <= Len(d) - y
        BY <2>2, <3>1
      <3>3. x \in Int /\ y \in Int /\ Len(d) \in Int
        BY <1>1
      <3> QED
        BY <2>3, <3>2, <3>3
    <2> QED
      BY <2>4 DEF Max
  <1>4. ASSUME s # {} PROVE d[Max(s)] \in NoteSet /\ s \ {Max(s)} \in SUBSET DOMAIN d
    BY <1>3, <1>4
  <1>5. ASSUME s # {} PROVE Cardinality(s \ {Max(s)}) = Cardinality(s) - 1
    BY <1>2, <1>3, <1>5, FS_RemoveElement
  <1> QED
    BY <1>2, <1>3, <1>4, <1>5

LEMMA FoldSolvable ==
    ASSUME NEW b, NEW d \in Seq(NoteSet)
    PROVE  \E h : Solves(b, d, h)
  <1> DEFINE S == SUBSET DOMAIN d
             Rhs(h, s) == IF s = {} THEN b ELSE Step(h[s \ {Max(s)}], d[Max(s)])
             Part(n, h) == \A s \in S : Cardinality(s) <= n => h[s] = Rhs(h, s)
             Bad == {n \in Nat : \A h : ~ Part(n, h)}
  <1>1. \A s \in S : /\ Cardinality(s) \in Nat /\ IsFiniteSet(s)
                     /\ s # {} => /\ s \ {Max(s)} \in S
                                  /\ Cardinality(s \ {Max(s)}) = Cardinality(s) - 1
    BY LastPlace
  <1>2. ASSUME NEW n \in Nat, NEW h, Part(n, h) PROVE \E g : Part(n + 1, g)
    <2> DEFINE g == [s \in S |-> IF Cardinality(s) <= n THEN h[s] ELSE Rhs(h, s)]
    <2> SUFFICES ASSUME NEW s \in S, Cardinality(s) <= n + 1 PROVE g[s] = Rhs(g, s)
      OBVIOUS
    <2>1. g[s] = Rhs(h, s)
      BY <1>2
    <2>2. s # {} => g[s \ {Max(s)}] = h[s \ {Max(s)}]
      <3> SUFFICES ASSUME s # {} PROVE g[s \ {Max(s)}] = h[s \ {Max(s)}]
        OBVIOUS
      <3>0. /\ s \ {Max(s)} \in S /\ Cardinality(s \ {Max(s)}) = Cardinality(s) - 1
            /\ Cardinality(s) \in Nat
        <4> HIDE DEF S
        <4> QED BY <1>1
      <3>1. s \ {Max(s)} \in S /\ Cardinality(s \ {Max(s)}) <= n
        <4> DEFINE k == Cardinality(s)
                   l == Cardinality(s \ {Max(s)})
        <4>1. k \in Nat /\ l = k - 1 /\ k <= n + 1
          BY <3>0
        <4> HIDE DEF k, l
        <4>2. l <= n
          BY <4>1
        <4> QED
          BY <3>0, <4>2 DEF l
      <3> HIDE DEF S, Rhs
      <3> QED
        BY <3>1
    <2> HIDE DEF g
    <2> QED
      BY <2>1, <2>2
  <1>3. \E h : Part(0, h)
    <2> DEFINE h == [s \in S |-> b]
    <2>1. Part(0, h)
      <3> SUFFICES ASSUME NEW s \in S, Cardinality(s) <= 0 PROVE h[s] = Rhs(h, s)
        OBVIOUS
      <3>0. Cardinality(s) \in Nat /\ IsFiniteSet(s)
        <4> HIDE DEF S
        <4> QED BY <1>1
      <3>2. Cardinality(s) = 0
        BY <3>0
      <3>1. s = {}
        BY <3>0, <3>2, FS_EmptySet
      <3> QED
        BY <3>1
    <2> QED
      BY <2>1
  <1>4. Bad = {}
    <2> SUFFICES ASSUME Bad # {} PROVE FALSE
      OBVIOUS
    <2>0. Bad \in SUBSET Nat
      OBVIOUS
    <2>1. PICK n \in Bad : \A m \in Bad : n <= m
      <3> HIDE DEF Bad
      <3> QED BY <2>0, LeastIn
    <2>2. n \in Nat /\ n # 0
      BY <1>3
    <2>3. n - 1 \in Nat /\ n - 1 \notin Bad
      <3> HIDE DEF Bad
      <3> QED BY <2>1, <2>2
    <2> HIDE DEF Part
    <2>4. PICK h : Part(n - 1, h)
      BY <2>3
    <2>5. \E g : Part((n - 1) + 1, g)
      BY <1>2, <2>3, <2>4
    <2>6. (n - 1) + 1 = n
      BY <2>2
    <2> QED
      BY <2>1, <2>5, <2>6
  <1>5. PICK n \in Nat : n = Cardinality(DOMAIN d) /\ \A s \in S : Cardinality(s) <= n
    <2>1. DOMAIN d \in S
      OBVIOUS
    <2>2. \A s \in S : Cardinality(s) <= Cardinality(DOMAIN d)
      BY <1>1, <2>1, FS_Subset
    <2> QED
      BY <1>1, <2>1, <2>2
  <1>6. PICK h : Part(n, h)
    BY <1>4
  <1> DEFINE g == [s \in S |-> h[s]]
  <1>7. \A s \in S : h[s] = Rhs(g, s)
    <2> SUFFICES ASSUME NEW s \in S PROVE h[s] = Rhs(g, s)
      OBVIOUS
    <2>1. h[s] = Rhs(h, s)
      BY <1>5, <1>6
    <2>2. s # {} => g[s \ {Max(s)}] = h[s \ {Max(s)}]
      BY <1>1
    <2> HIDE DEF g
    <2> QED
      BY <2>1, <2>2
  <1>8. g = [s \in S |-> Rhs(g, s)]
    <2> DEFINE f(s) == Rhs(g, s)
    <2>1. \A s \in S : h[s] = f(s)
      BY <1>7
    <2> HIDE DEF f, S
    <2>2. [s \in S |-> h[s]] = [s \in S |-> f(s)]
      BY <2>1, Zenon
    <2> QED
      BY <2>2 DEF f
  <1>9. Solves(b, d, g)
    <2> HIDE DEF g
    <2> QED BY <1>8, Zenon DEF Solves
  <1> QED
    BY <1>9

\* Routing the deferred reports one after the other starts no deferral and no start.
LEMMA FoldSettles ==
    ASSUME NEW b, Fine(b), NEW d \in Seq(NoteSet)
    PROVE  Settles(b, Folded(b, d))
  <1>1. PICK h : Solves(b, d, h) /\ Folded(b, d) = h[DOMAIN d]
    BY FoldSolvable, FoldUnfolds
  <1> DEFINE S == SUBSET DOMAIN d
             T == {n \in Nat : \E s \in S : Cardinality(s) = n /\ ~ Settles(b, h[s])}
  <1>2. \A s \in S : h[s] = IF s = {} THEN b ELSE Step(h[s \ {Max(s)}], d[Max(s)])
    BY <1>1 DEF Solves
  <1>3. T = {}
    <2> SUFFICES ASSUME T # {} PROVE FALSE
      OBVIOUS
    <2>1. PICK n \in T : \A m \in T : n <= m
      BY LeastIn
    <2>2. PICK s \in S : Cardinality(s) = n /\ ~ Settles(b, h[s])
      OBVIOUS
    <2>3. s # {}
      BY <1>2, <2>2, SettlesSame
    <2> DEFINE r == s \ {Max(s)}
    <2>4. r \in S /\ Cardinality(r) = n - 1 /\ n \in Nat /\ Cardinality(r) \in Nat
          /\ d[Max(s)] \in NoteSet
      BY <2>2, <2>3, LastPlace
    <2>5. h[s] = Step(h[r], d[Max(s)])
      BY <1>2, <2>3
    <2> HIDE DEF r
    <2>6. Settles(b, h[r])
      BY <2>1, <2>4
    <2>7. Settles(h[r], h[s])
      BY <2>4, <2>5, <2>6, StepSettles DEF Settles
    <2> QED
      BY <2>2, <2>6, <2>7, SettlesTrans
  <1>4. DOMAIN d \in S /\ Cardinality(DOMAIN d) \in Nat
    BY LastPlace
  <1> QED
    BY <1>1, <1>3, <1>4

\* A route whose start, deferral or deferred reports change.
LEMMA StartChanges ==
    ASSUME NEW x, IsRoute(x), NEW v
    PROVE  /\ IsRoute([x EXCEPT !.defer = v])
           /\ [x EXCEPT !.defer = v].pend = x.pend /\ [x EXCEPT !.defer = v].defer = v
           /\ [x EXCEPT !.defer = v].deferred = x.deferred
           /\ v \in Seq(NoteSet) => IsRoute([x EXCEPT !.deferred = v])
           /\ [x EXCEPT !.deferred = v].pend = x.pend /\ [x EXCEPT !.deferred = v].defer = x.defer
           /\ v \in {None} \union {Start(c) : c \in Callers} => IsRoute([x EXCEPT !.pend = v])
           /\ [x EXCEPT !.pend = v].pend = v /\ [x EXCEPT !.pend = v].defer = x.defer
           /\ [x EXCEPT !.pend = v].deferred = x.deferred
  <1>1. /\ IsRoute([x EXCEPT !.defer = v])
        /\ [x EXCEPT !.defer = v].pend = x.pend /\ [x EXCEPT !.defer = v].defer = v
        /\ [x EXCEPT !.defer = v].deferred = x.deferred
    BY DEF IsRoute
  <1>2. /\ v \in Seq(NoteSet) => IsRoute([x EXCEPT !.deferred = v])
        /\ [x EXCEPT !.deferred = v].pend = x.pend /\ [x EXCEPT !.deferred = v].defer = x.defer
    BY DEF IsRoute
  <1>3. /\ v \in {None} \union {Start(c) : c \in Callers} => IsRoute([x EXCEPT !.pend = v])
        /\ [x EXCEPT !.pend = v].pend = v /\ [x EXCEPT !.pend = v].defer = x.defer
        /\ [x EXCEPT !.pend = v].deferred = x.deferred
    BY DEF IsRoute
  <1> QED
    BY <1>1, <1>2, <1>3

\* stop_deferring_notifications ends the deferral first and then only settles.
LEMMA StopIs ==
    ASSUME NEW r, Fine(r), NEW t \in Threads, r.routes[t] # NoRoute
    PROVE  \E x : /\ IsRoute(x) /\ x.pend = r.routes[t].pend /\ ~x.defer
                  /\ Settles(Put(r, t, x, r.box), StopDeferring(r, t))
  <1> DEFINE y == r.routes[t]
             no == FALSE
             x1 == [y EXCEPT !.defer = no]
             x == [x1 EXCEPT !.deferred = <<>>]
             p == [r EXCEPT !.routes[t].defer = FALSE, !.routes[t].deferred = <<>>]
  <1>1. IsRoute(y)
    BY DEF Fine
  <1>2. IsRoute(x1) /\ x1.pend = y.pend /\ x1.defer = no
    <2> HIDE DEF y, no
    <2> QED BY <1>1, StartChanges
  <1>3. IsRoute(x) /\ x.pend = y.pend /\ x.defer = no
    <2> DEFINE z == <<>>
    <2>1. z \in Seq(NoteSet)
      OBVIOUS
    <2>2. x = [x1 EXCEPT !.deferred = z]
      OBVIOUS
    <2> HIDE DEF x, x1, y, no, z
    <2>3. /\ IsRoute([x1 EXCEPT !.deferred = z])
          /\ [x1 EXCEPT !.deferred = z].pend = x1.pend /\ [x1 EXCEPT !.deferred = z].defer = x1.defer
      BY <1>2, <2>1, StartChanges, Zenon
    <2> QED
      BY <1>2, <2>2, <2>3, Zenon
  <1>4. p = Put(r, t, x, r.box)
    <2>1. p = [r EXCEPT !.routes[t] = x]
      <3>1. DOMAIN r.routes = Threads /\ "routes" \in DOMAIN r
        BY DEF Fine
      <3> QED
        BY <3>1
    <2> HIDE DEF p, x
    <2> QED
      BY <2>1, PutIs, Zenon
  <1>5. StopDeferring(r, t) = Folded(p, r.routes[t].deferred)
    BY Zenon DEF StopDeferring, Folded
  <1> HIDE DEF p, x
  <1>6. ~x.defer
    BY <1>3
  <1>7. Fine(p)
    BY <1>3, <1>4, <1>6, PutSettles DEF Settles
  <1>8. r.routes[t].deferred \in Seq(NoteSet)
    BY <1>1 DEF IsRoute
  <1>9. Settles(p, Folded(p, r.routes[t].deferred))
    BY <1>7, <1>8, FoldSettles
  <1> QED
    BY <1>3, <1>4, <1>5, <1>6, <1>9

LEMMA StopSettles ==
    ASSUME NEW r, Fine(r), NEW t \in Threads
    PROVE  Settles(r, StopDeferring(r, t))
  <1>1. CASE r.routes[t] = NoRoute
    <2>1. StopDeferring(r, t) = r
      BY <1>1 DEF StopDeferring
    <2> QED
      BY <2>1, SettlesSame
  <1>2. CASE r.routes[t] # NoRoute
    <2>1. PICK x : /\ IsRoute(x) /\ x.pend = r.routes[t].pend /\ ~x.defer
                   /\ Settles(Put(r, t, x, r.box), StopDeferring(r, t))
      BY <1>2, StopIs
    <2>2. Settles(r, Put(r, t, x, r.box))
      BY <1>2, <2>1, PutSettles
    <2> QED
      BY <2>1, <2>2, SettlesTrans
  <1> QED
    BY <1>1, <1>2

\* A report is routed or deferred: no start begins or ends.
LEMMA NotificationSettles ==
    ASSUME NEW r, Fine(r), NEW e \in NoteSet
    PROVE  Settles(r, RouteNotification(r, e))
  <1> DEFINE route == r.routes[e.t]
             v == Append(route.deferred, e)
             x == [route EXCEPT !.deferred = v]
             a == [r EXCEPT !.routes[e.t].deferred = Append(@, e)]
             lagged == InvalidateRoute(r, e.t)
  <1>1. e.t \in Threads
    BY DEF NoteSet
  <1>2. Settles(r, StopDeferring(RouteTurnStarted(r, e), e.t))
    <2>1. Settles(r, RouteTurnStarted(r, e)) /\ Fine(RouteTurnStarted(r, e))
      BY <1>1, TurnStartedSettles DEF Settles
    <2>2. Settles(RouteTurnStarted(r, e), StopDeferring(RouteTurnStarted(r, e), e.t))
      BY <1>1, <2>1, StopSettles
    <2> QED
      BY <2>1, <2>2, SettlesTrans
  <1>3. route # NoRoute => Settles(r, a)
    <2> SUFFICES ASSUME route # NoRoute PROVE Settles(r, a)
      OBVIOUS
    <2>1. IsRoute(route) /\ route.deferred \in Seq(NoteSet)
      BY <1>1 DEF Fine, IsRoute
    <2>2. v \in Seq(NoteSet)
      BY <2>1
    <2>3. a = [r EXCEPT !.routes[e.t] = x]
      OBVIOUS
    <2>4. IsRoute(x) /\ x.pend = route.pend /\ x.defer = route.defer
      <3> HIDE DEF route, v
      <3> QED BY <2>1, <2>2, StartChanges
    <2> HIDE DEF a, x
    <2>5. a = Put(r, e.t, x, r.box)
      BY <1>1, <2>3, PutIs, Zenon
    <2> QED
      BY <1>1, <2>4, <2>5, PutSettles
  <1>4. route # NoRoute => Settles(r, lagged) /\ Settles(r, Faulted(lagged))
    <2> SUFFICES ASSUME route # NoRoute PROVE Settles(r, lagged) /\ Settles(r, Faulted(lagged))
      OBVIOUS
    <2>1. Settles(r, lagged) /\ Fine(lagged)
      BY <1>1, InvalidateSettles DEF Settles
    <2> QED
      BY <2>1, FaultedSettles, SettlesTrans
  <1>5. Settles(r, RouteNow(r, e))
    BY RouteNowSettles
  <1>6. \/ RouteNotification(r, e) \in {StopDeferring(RouteTurnStarted(r, e), e.t), RouteNow(r, e)}
        \/ route # NoRoute /\ RouteNotification(r, e) \in {a, lagged, Faulted(lagged)}
    BY DEF RouteNotification
  <1> HIDE DEF route, a, lagged
  <1> QED
    BY <1>2, <1>3, <1>4, <1>5, <1>6

\* The start of call c is over, whether it was pending or not.
LEMMA FinishSettles ==
    ASSUME NEW r, Fine(r), NEW t \in Threads, NEW c \in Callers
    PROVE  /\ Settles(r, FinishTurnStart(r, t, c))
           /\ FinishTurnStart(r, t, c).routes[t] # NoRoute
                => FinishTurnStart(r, t, c).routes[t].pend # Start(c)
  <1> DEFINE q == FinishTurnStart(r, t, c)
             y == [r.routes[t] EXCEPT !.pend = None]
             p == [r EXCEPT !.routes[t].pend = None]
  <1>1. CASE r.routes[t] = NoRoute \/ r.routes[t].pend # Start(c)
    <2>1. q = r
      BY <1>1 DEF FinishTurnStart, Start
    <2> QED
      BY <1>1, <2>1, SettlesSame
  <1>2. CASE r.routes[t] # NoRoute /\ r.routes[t].pend = Start(c)
    <2>1. q = StopDeferring(p, t)
      BY <1>2 DEF FinishTurnStart, Start
    <2>2. IsRoute(r.routes[t])
      BY <1>2 DEF Fine
    <2>3. IsRoute(y) /\ y.pend = None
      BY <2>2, StartChanges
    <2>4. p = [r EXCEPT !.routes[t] = y]
      OBVIOUS
    <2> HIDE DEF q, p, y
    <2>5. p = Put(r, t, y, r.box)
      BY <2>4, PutIs, Zenon
    <2>6. p.routes = [r.routes EXCEPT ![t] = y] /\ p.box = r.box /\ p.fault = r.fault
      BY <2>5 DEF Put
    <2>7. DOMAIN r.routes = Threads
      BY DEF Fine
    <2>8. p.routes[t] = y /\ \A u \in Threads \ {t} : p.routes[u] = r.routes[u]
      BY <2>6, <2>7
    <2>9. Fine(p) /\ p.routes[t] # NoRoute
      <3>1. p.routes = [u \in Threads |-> p.routes[u]]
        BY <2>6, <2>7
      <3>2. p = [routes |-> p.routes, box |-> p.box, fault |-> p.fault]
        BY <2>5 DEF Put
      <3>3. \A u \in Threads : p.routes[u] = NoRoute \/ IsRoute(p.routes[u])
        BY <2>3, <2>8 DEF Fine
      <3> QED
        BY <3>1, <3>2, <3>3, <2>3, <2>8, RouteIsThere DEF Fine
    <2>10. PICK x : /\ IsRoute(x) /\ x.pend = None /\ ~x.defer
                    /\ Settles(Put(p, t, x, p.box), q)
      BY <2>1, <2>3, <2>8, <2>9, StopIs
    <2> DEFINE m == Put(p, t, x, p.box)
    <2>11. m.routes = [p.routes EXCEPT ![t] = x]
      BY DEF Put
    <2>12. DOMAIN p.routes = Threads
      BY <2>9 DEF Fine
    <2> HIDE DEF m
    <2>13. m.routes[t] = x /\ \A u \in Threads \ {t} : m.routes[u] = r.routes[u]
      BY <2>8, <2>11, <2>12
    <2>14. Quieter(r, m)
      BY <2>10, <2>13 DEF Quieter
    <2>15. Fine(q) /\ Quieter(m, q)
      BY <2>10 DEF Settles, m
    <2>16. Settles(r, q)
      BY <2>14, <2>15 DEF Settles, Quieter
    <2>17. q.routes[t] # NoRoute => q.routes[t].pend = None
      BY <2>10, <2>13, <2>15 DEF Quieter
    <2>18. None # Start(c)
      <3>1. DOMAIN None = {"k"} /\ DOMAIN Start(c) = {"k", "c"}
        BY DEF None, Start
      <3> QED
        BY <3>1
    <2> QED
      BY <2>16, <2>17, <2>18 DEF q
  <1> QED
    BY <1>1, <1>2

-----------------------------------------------------------------------------

\* The queue of commands loses its head, or gets one more.
LEMMA TailQueue ==
    ASSUME NEW q \in Seq(CommandSet), q # <<>>, NEW c, NEW K
    PROVE  /\ Tail(q) \in Seq(CommandSet) /\ Head(q) \in CommandSet
           /\ QueuedIn(Tail(q), c, K) => QueuedIn(q, c, K)
           /\ QueuedIn(q, c, K) => QueuedIn(Tail(q), c, K) \/ (Head(q).k \in K /\ Head(q).c = c)
           /\ Head(q).k \in K /\ Head(q).c = c => QueuedIn(q, c, K)
           /\ BeginsOnce(q, c) => BeginsOnce(Tail(q), c)
           /\ BeginsOnce(q, c) /\ Head(q).k = "begin" /\ Head(q).c = c
                => ~QueuedIn(Tail(q), c, {"begin"})
  <1>1. /\ Len(q) \in Nat /\ Len(q) >= 1 /\ DOMAIN q = 1 .. Len(q) /\ Head(q) = q[1]
        /\ Tail(q) \in Seq(CommandSet) /\ DOMAIN Tail(q) = 1 .. Len(q) - 1
        /\ \A i \in 1 .. Len(q) - 1 : Tail(q)[i] = q[i + 1]
    BY Z3
  <1> DEFINE p == Tail(q)
             m == Head(q)
             n == Len(q)
  <1>2. /\ n \in Nat /\ n >= 1 /\ DOMAIN q = 1 .. n /\ m = q[1]
        /\ p \in Seq(CommandSet) /\ DOMAIN p = 1 .. n - 1
        /\ \A i \in 1 .. n - 1 : p[i] = q[i + 1]
    BY <1>1
  <1>3. Head(q) \in CommandSet
    OBVIOUS
  <1> HIDE DEF p, m, n
  <1>4. QueuedIn(p, c, K) => QueuedIn(q, c, K)
    <2> SUFFICES ASSUME NEW i \in DOMAIN p, p[i].k \in K /\ p[i].c = c PROVE QueuedIn(q, c, K)
      BY DEF QueuedIn
    <2>1. i + 1 \in DOMAIN q /\ p[i] = q[i + 1]
      BY <1>2
    <2> QED
      BY <2>1 DEF QueuedIn
  <1>5. QueuedIn(q, c, K) => QueuedIn(p, c, K) \/ (m.k \in K /\ m.c = c)
    <2> SUFFICES ASSUME NEW i \in DOMAIN q, q[i].k \in K /\ q[i].c = c, i # 1
                 PROVE  QueuedIn(p, c, K)
      BY <1>2 DEF QueuedIn
    <2>1. i - 1 \in DOMAIN p /\ p[i - 1] = q[i]
      BY <1>2
    <2> QED
      BY <2>1 DEF QueuedIn
  <1>6. m.k \in K /\ m.c = c => QueuedIn(q, c, K)
    <2>1. 1 \in DOMAIN q
      BY <1>2
    <2> QED
      BY <1>2, <2>1 DEF QueuedIn
  <1>7. BeginsOnce(q, c) => BeginsOnce(p, c)
    <2> SUFFICES ASSUME BeginsOnce(q, c), NEW i \in DOMAIN p, NEW j \in DOMAIN p,
                        p[i].k = "begin" /\ p[i].c = c, p[j].k = "begin" /\ p[j].c = c
                 PROVE  i = j
      BY DEF BeginsOnce
    <2>1. i + 1 \in DOMAIN q /\ p[i] = q[i + 1] /\ j + 1 \in DOMAIN q /\ p[j] = q[j + 1]
      BY <1>2
    <2>2. i + 1 = j + 1
      BY <2>1 DEF BeginsOnce
    <2> QED
      BY <1>2, <2>2
  <1>8. BeginsOnce(q, c) /\ m.k = "begin" /\ m.c = c => ~QueuedIn(p, c, {"begin"})
    <2> SUFFICES ASSUME BeginsOnce(q, c), m.k = "begin" /\ m.c = c, NEW i \in DOMAIN p,
                        p[i].k = "begin" /\ p[i].c = c
                 PROVE  FALSE
      BY DEF QueuedIn
    <2>1. i + 1 \in DOMAIN q /\ p[i] = q[i + 1] /\ 1 \in DOMAIN q /\ i + 1 # 1
      BY <1>2
    <2> QED
      BY <1>2, <2>1 DEF BeginsOnce
  <1> QED
    BY <1>1, <1>3, <1>4, <1>5, <1>6, <1>7, <1>8 DEF p, m

LEMMA AppendQueue ==
    ASSUME NEW q \in Seq(CommandSet), NEW m \in CommandSet, NEW c, NEW K
    PROVE  /\ Append(q, m) \in Seq(CommandSet)
           /\ QueuedIn(Append(q, m), c, K) <=> QueuedIn(q, c, K) \/ (m.k \in K /\ m.c = c)
           /\ /\ BeginsOnce(q, c)
              /\ m.k = "begin" /\ m.c = c => ~QueuedIn(q, c, {"begin"})
              => BeginsOnce(Append(q, m), c)
  <1> DEFINE p == Append(q, m)
             n == Len(q)
  <1>1. /\ n \in Nat /\ DOMAIN q = 1 .. n /\ p \in Seq(CommandSet) /\ DOMAIN p = 1 .. n + 1
        /\ p[n + 1] = m /\ \A i \in 1 .. n : p[i] = q[i]
    BY Z3
  <1> HIDE DEF p, n
  <1>2. QueuedIn(p, c, K) => QueuedIn(q, c, K) \/ (m.k \in K /\ m.c = c)
    <2> SUFFICES ASSUME NEW i \in DOMAIN p, p[i].k \in K /\ p[i].c = c, i # n + 1
                 PROVE  QueuedIn(q, c, K)
      BY <1>1 DEF QueuedIn
    <2>1. i \in DOMAIN q /\ p[i] = q[i]
      BY <1>1
    <2> QED
      BY <2>1 DEF QueuedIn
  <1>3. QueuedIn(q, c, K) => QueuedIn(p, c, K)
    <2> SUFFICES ASSUME NEW i \in DOMAIN q, q[i].k \in K /\ q[i].c = c PROVE QueuedIn(p, c, K)
      BY DEF QueuedIn
    <2>1. i \in DOMAIN p /\ p[i] = q[i]
      BY <1>1
    <2> QED
      BY <2>1 DEF QueuedIn
  <1>4. m.k \in K /\ m.c = c => QueuedIn(p, c, K)
    <2>1. n + 1 \in DOMAIN p
      BY <1>1
    <2> QED
      BY <1>1, <2>1 DEF QueuedIn
  <1>5. ASSUME BeginsOnce(q, c), m.k = "begin" /\ m.c = c => ~QueuedIn(q, c, {"begin"})
        PROVE  BeginsOnce(p, c)
    <2> SUFFICES ASSUME NEW i \in DOMAIN p, NEW j \in DOMAIN p,
                        p[i].k = "begin" /\ p[i].c = c, p[j].k = "begin" /\ p[j].c = c
                 PROVE  i = j
      BY DEF BeginsOnce
    <2>1. \A k \in DOMAIN p : k = n + 1 \/ (k \in DOMAIN q /\ p[k] = q[k])
      BY <1>1
    <2>2. CASE i = n + 1 /\ j = n + 1
      BY <2>2
    <2>3. CASE i # n + 1 /\ j # n + 1
      BY <1>5, <2>1, <2>3 DEF BeginsOnce
    <2>4. CASE i = n + 1 /\ j # n + 1
      BY <1>1, <1>5, <2>1, <2>4 DEF QueuedIn
    <2>5. CASE i # n + 1 /\ j = n + 1
      BY <1>1, <1>5, <2>1, <2>5 DEF QueuedIn
    <2> QED
      BY <2>2, <2>3, <2>4, <2>5
  <1> QED
    BY <1>1, <1>2, <1>3, <1>4, <1>5 DEF p

\* No pending start appears and a deferral only ends.
Quietly ==
  \A t \in Threads : routes'[t] # NoRoute =>
    \/ routes'[t].pend = None /\ ~routes'[t].defer
    \/ /\ routes[t] # NoRoute
       /\ routes'[t].pend = routes[t].pend
       /\ routes'[t].defer => routes[t].defer

LEMMA StartIsNotNone == ASSUME NEW c PROVE None # Start(c)
  <1>1. DOMAIN None = {"k"} /\ DOMAIN Start(c) = {"k", "c"}
    BY DEF None, Start
  <1> QED
    BY <1>1

LEMMA QuietlyWaits ==
    ASSUME Quietly, NEW c, Waits(c)'
    PROVE  Waits(c)
  <1>1. PICK t \in Threads : routes'[t] # NoRoute /\ routes'[t].pend = Start(c)
    BY DEF Waits, Start
  <1> QED
    BY <1>1, StartIsNotNone DEF Quietly, Waits

\* A step that begins no start keeps the invariant if every start still has an owner.
LEMMA QuietlyOwned ==
    ASSUME RouteInv, QueueType', Quietly, UNCHANGED scene,
           \A c \in Callers : Waits(c) /\ Waits(c)' /\ Owner(c) => Owner(c)',
           \A c \in Callers : StartOf(c)'
    PROVE  RouteInv'
  <1> SUFFICES ASSUME NEW t \in Threads, routes'[t] # NoRoute
               PROVE  /\ routes'[t].defer => routes'[t].pend # None
                      /\ \A c \in Callers : routes'[t].pend = Start(c) =>
                           Thread(c) = t /\ plan[c].method = "turn/start" /\ Owner(c)'
    BY DEF RouteInv, PendInv, Thread, plan, Start
  <1>1. CASE routes'[t].pend = None /\ ~routes'[t].defer
    BY <1>1, StartIsNotNone
  <1>2. CASE /\ routes[t] # NoRoute
             /\ routes'[t].pend = routes[t].pend
             /\ routes'[t].defer => routes[t].defer
    <2>1. routes'[t].defer => routes'[t].pend # None
      BY <1>2 DEF RouteInv, PendInv
    <2>2. ASSUME NEW c \in Callers, routes'[t].pend = Start(c)
          PROVE  Thread(c) = t /\ plan[c].method = "turn/start" /\ Owner(c)'
      <3>1. Thread(c) = t /\ plan[c].method = "turn/start" /\ Owner(c)
        BY <1>2, <2>2 DEF RouteInv, PendInv
      <3>2. Waits(c) /\ Waits(c)'
        BY <1>2, <2>2 DEF Waits, Start
      <3> QED
        BY <3>1, <3>2
    <2> QED
      BY <2>1, <2>2
  <1> QED
    BY <1>1, <1>2 DEF Quietly

\* The router settles on the state r.
LEMMA BecomesQuietly ==
    ASSUME NEW r, Settles(State, r), Becomes(r)
    PROVE  Quietly /\ Fine(State)'
  <1>1. routes' = r.routes /\ box' = r.box
    BY DEF Becomes
  <1>2. Fine(r) /\ Quieter(State, r)
    BY DEF Settles
  <1>3. Quietly
    BY <1>1, <1>2 DEF Quietly, Quieter, State
  <1>4. Fine(State)'
    BY <1>1, <1>2 DEF Fine, State
  <1> QED
    BY <1>3, <1>4

\* The kinds of command the invariant is about; queue q2 has for call d what q has.
Tracked == {"begin", "abort", "turn", "thread"}
SameFor(q, q2, d) ==
  /\ \A K \in SUBSET Tracked : QueuedIn(q2, d, K) <=> QueuedIn(q, d, K)
  /\ BeginsOnce(q, d) => BeginsOnce(q2, d)

LEMMA SameForAppend ==
    ASSUME NEW q \in Seq(CommandSet), NEW m \in CommandSet, NEW d, m.k \notin Tracked \/ m.c # d
    PROVE  SameFor(q, Append(q, m), d)
  <1>1. ASSUME NEW K \in SUBSET Tracked PROVE QueuedIn(Append(q, m), d, K) <=> QueuedIn(q, d, K)
    BY AppendQueue
  <1>2. BeginsOnce(q, d) => BeginsOnce(Append(q, m), d)
    <2>1. ~(m.k = "begin" /\ m.c = d)
      BY DEF Tracked
    <2> QED
      BY <2>1, AppendQueue
  <1> QED
    BY <1>1, <1>2 DEF SameFor

LEMMA SameForTail ==
    ASSUME NEW q \in Seq(CommandSet), q # <<>>, NEW d, Head(q).k \notin Tracked \/ Head(q).c # d
    PROVE  SameFor(q, Tail(q), d)
  <1>1. ASSUME NEW K \in SUBSET Tracked PROVE QueuedIn(Tail(q), d, K) <=> QueuedIn(q, d, K)
    BY TailQueue
  <1>2. BeginsOnce(q, d) => BeginsOnce(Tail(q), d)
    BY TailQueue
  <1> QED
    BY <1>1, <1>2 DEF SameFor

LEMMA SameForSelf == ASSUME NEW q, NEW d PROVE SameFor(q, q, d)
  BY DEF SameFor

\* What holds of a call that the step is not about.
LEMMA StartKeeps ==
    ASSUME NEW d \in Callers, StartOf(d), SameFor(cmds, cmds', d), call'[d] = call[d],
           ack'[d] = ack[d], Waits(d)' => Waits(d), UNCHANGED scene
    PROVE  StartOf(d)'
  <1>1. \A K \in SUBSET Tracked : Queued(d, K)' <=> Queued(d, K)
    BY DEF SameFor, Queued
  <1>2. BeginsOnce(cmds, d) => BeginsOnce(cmds', d)
    BY DEF SameFor
  <1>3. /\ {"begin"} \in SUBSET Tracked /\ {"begin", "abort", "turn"} \in SUBSET Tracked
        /\ {"thread"} \in SUBSET Tracked
    BY DEF Tracked
  <1>4. /\ Queued(d, {"begin"})' <=> Queued(d, {"begin"})
        /\ Queued(d, {"begin", "abort", "turn"})' <=> Queued(d, {"begin", "abort", "turn"})
        /\ Queued(d, {"thread"})' <=> Queued(d, {"thread"})
    BY <1>1, <1>3
  <1> QED
    BY <1>2, <1>4 DEF StartOf, plan

LEMMA OwnerKeeps ==
    ASSUME NEW d \in Callers, Owner(d), SameFor(cmds, cmds', d),
           call'[d] = call[d] \/ call'[d] \in {"beginning", "calling", "observing"}
             \/ call[d] \notin {"beginning", "calling", "observing"},
           stop => stop', router # "run" => router' # "run"
    PROVE  Owner(d)'
  <1>1. Queued(d, {"abort", "turn"})' <=> Queued(d, {"abort", "turn"})
    <2>1. {"abort", "turn"} \in SUBSET Tracked
      BY DEF Tracked
    <2> QED
      BY <2>1 DEF SameFor, Queued
  <1> QED
    BY <1>1 DEF Owner

\* A step of call c that leaves the routes alone.
LEMMA CallStep ==
    ASSUME RouteInv, NEW c \in Callers, QueueType', UNCHANGED <<scene, routes>>,
           \A d \in Callers \ {c} : call'[d] = call[d] /\ ack'[d] = ack[d]
                                    /\ SameFor(cmds, cmds', d),
           stop => stop', router # "run" => router' # "run",
           StartOf(c)', Waits(c) /\ Owner(c) => Owner(c)'
    PROVE  RouteInv'
  <1>1. Quietly
    BY DEF Quietly
  <1>2. \A d : Waits(d)' <=> Waits(d)
    BY DEF Waits, Start
  <1>3. \A d \in Callers : StartOf(d)'
    <2> SUFFICES ASSUME NEW d \in Callers \ {c} PROVE StartOf(d)'
      OBVIOUS
    <2>1. StartOf(d)
      BY DEF RouteInv
    <2> QED
      BY <1>2, <2>1, StartKeeps
  <1>4. \A d \in Callers : Waits(d) /\ Waits(d)' /\ Owner(d) => Owner(d)'
    <2> SUFFICES ASSUME NEW d \in Callers \ {c}, Owner(d) PROVE Owner(d)'
      OBVIOUS
    <2> QED
      BY OwnerKeeps
  <1> QED
    BY <1>1, <1>3, <1>4, QuietlyOwned

\* The types after a step that changes neither the routes nor the events.
LEMMA QueuesKeep ==
    ASSUME QueueType, UNCHANGED <<routes, events, held>>, cmds' \in Seq(CommandSet),
           ack' \in [Callers -> {"none", "yes", "no"}]
    PROVE  QueueType'
  <1>1. Fine(State)'
    BY DEF QueueType, Fine, State
  <1> QED
    BY <1>1 DEF QueueType, EventSet, Messages, None, Drift, CommandSet

\* The request goes out, or is refused as the connection is dead.
LEMMA RequestIs ==
    ASSUME Inv, NEW c \in Callers, Request(c)
    PROVE  /\ \A d \in Callers \ {c} : call'[d] = call[d]
           /\ stop => stop'
           /\ \/ call'[c] = "uncertain" /\ stop'
              \/ call'[c] = "failed" /\ plan[c].method # "turn/start"
              \/ call'[c] = "calling"
  <1>1. DOMAIN call = Callers
    BY DEF Inv, StateType
  <1> QED
    BY <1>1 DEF Request, FailClosedOn, Returns, NonIdempotent

LEMMA CallOwned ==
    ASSUME Inv, RouteInv, NEW c \in Callers, Call(c)
    PROVE  RouteInv'
  <1>0. DOMAIN call = Callers /\ cmds \in Seq(CommandSet)
    BY DEF Inv, StateType, RouteInv, QueueType
  <1>1. UNCHANGED <<scene, routes, events, held, ack, router>>
    BY DEF Call
  <1>2. [k |-> "ensure", c |-> c] \in CommandSet /\ [k |-> "release", c |-> c] \in CommandSet
    BY DEF CommandSet
  <1>3. /\ \A d \in Callers \ {c} : call'[d] = call[d]
        /\ call'[c] \in {"ensuring", "releasing", "calling", "failed", "uncertain", "notApplied"}
        /\ stop => stop'
        /\ cmds' \in {cmds, Append(cmds, [k |-> "ensure", c |-> c]),
                      Append(cmds, [k |-> "release", c |-> c])}
    BY <1>0, RequestIs DEF Call, Returns, SendRouter
  <1>4. \A d : SameFor(cmds, cmds', d)
    BY <1>0, <1>2, <1>3, SameForAppend, SameForSelf DEF Tracked
  <1>5. cmds' \in Seq(CommandSet)
    BY <1>0, <1>2, <1>3, AppendQueue
  <1>6. call[c] = "idle" /\ StartOf(c)
    BY DEF Call, RouteInv
  <1>7. ~Waits(c) /\ ~Waits(c)'
    BY <1>1, <1>6 DEF StartOf, Waits, Start
  <1>8. StartOf(c)'
    <2>1. /\ {"begin"} \in SUBSET Tracked /\ {"begin", "abort", "turn"} \in SUBSET Tracked
          /\ {"thread"} \in SUBSET Tracked
      BY DEF Tracked
    <2>2. /\ Queued(c, {"begin"})' <=> Queued(c, {"begin"})
          /\ Queued(c, {"begin", "abort", "turn"})' <=> Queued(c, {"begin", "abort", "turn"})
          /\ Queued(c, {"thread"})' <=> Queued(c, {"thread"})
          /\ BeginsOnce(cmds, c) => BeginsOnce(cmds', c)
      BY <1>4, <2>1 DEF SameFor, Queued
    <2> QED
      BY <1>1, <1>3, <1>6, <1>7, <2>2 DEF StartOf, plan
  <1>9. QueueType'
    BY <1>1, <1>5, QueuesKeep DEF RouteInv, QueueType
  <1> QED
    BY <1>1, <1>3, <1>4, <1>7, <1>8, <1>9, CallStep

LEMMA SameQueue ==
    ASSUME NEW c, SameFor(cmds, cmds', c)
    PROVE  /\ Queued(c, {"begin"})' <=> Queued(c, {"begin"})
           /\ Queued(c, {"begin", "abort", "turn"})' <=> Queued(c, {"begin", "abort", "turn"})
           /\ Queued(c, {"abort", "turn"})' <=> Queued(c, {"abort", "turn"})
           /\ Queued(c, {"thread"})' <=> Queued(c, {"thread"})
           /\ BeginsOnce(cmds, c) => BeginsOnce(cmds', c)
  <1>1. /\ {"begin"} \in SUBSET Tracked /\ {"begin", "abort", "turn"} \in SUBSET Tracked
        /\ {"thread"} \in SUBSET Tracked /\ {"abort", "turn"} \in SUBSET Tracked
    BY DEF Tracked
  <1> QED
    BY <1>1 DEF SameFor, Queued

\* One more command of call c.
LEMMA MoreQueue ==
    ASSUME NEW c, cmds \in Seq(CommandSet), NEW k \in Tracked, [k |-> k, c |-> c] \in CommandSet,
           cmds' = Append(cmds, [k |-> k, c |-> c])
    PROVE  /\ cmds' \in Seq(CommandSet)
           /\ \A d : d # c => SameFor(cmds, cmds', d)
           /\ Queued(c, {"begin"})' <=> Queued(c, {"begin"}) \/ k = "begin"
           /\ Queued(c, {"begin", "abort", "turn"})'
                <=> Queued(c, {"begin", "abort", "turn"}) \/ k \in {"begin", "abort", "turn"}
           /\ Queued(c, {"abort", "turn"})' <=> Queued(c, {"abort", "turn"}) \/ k \in {"abort", "turn"}
           /\ Queued(c, {"thread"})' <=> Queued(c, {"thread"}) \/ k = "thread"
           /\ BeginsOnce(cmds, c) /\ (k = "begin" => ~Queued(c, {"begin"})) => BeginsOnce(cmds', c)
  <1> DEFINE m == [k |-> k, c |-> c]
  <1>1. m.k = k /\ m.c = c /\ m \in CommandSet /\ cmds' = Append(cmds, m)
    OBVIOUS
  <1> HIDE DEF m
  <1>2. cmds' \in Seq(CommandSet) /\ \A d : d # c => SameFor(cmds, cmds', d)
    BY <1>1, AppendQueue, SameForAppend
  <1>3. \A K : QueuedIn(cmds', c, K) <=> QueuedIn(cmds, c, K) \/ k \in K
    BY <1>1, AppendQueue
  <1>4. BeginsOnce(cmds, c) /\ (k = "begin" => ~Queued(c, {"begin"})) => BeginsOnce(cmds', c)
    BY <1>1, AppendQueue DEF Queued
  <1> QED
    BY <1>2, <1>3, <1>4 DEF Queued

LEMMA AcknowledgedOwned ==
    ASSUME Inv, RouteInv, NEW c \in Callers, Acknowledged(c)
    PROVE  RouteInv'
  <1>0. /\ DOMAIN call = Callers /\ cmds \in Seq(CommandSet) /\ StartOf(c)
        /\ ack \in [Callers -> {"none", "yes", "no"}] /\ QueueType
    BY DEF Inv, StateType, RouteInv, QueueType
  <1>1. UNCHANGED <<scene, routes, events, held, router>>
    BY DEF Acknowledged
  <1>2. ack[c] = "yes" /\ ack' = [ack EXCEPT ![c] = "none"]
    BY DEF Acknowledged
  <1>3. /\ ack'[c] = "none" /\ \A d \in Callers \ {c} : ack'[d] = ack[d]
        /\ ack' \in [Callers -> {"none", "yes", "no"}]
    BY <1>0, <1>2
  <1>4. Waits(c)' <=> Waits(c)
    BY <1>1 DEF Waits, Start
  <1>5. Waits(c) => plan[c].method = "turn/start" /\ Owner(c)
    BY DEF Waits, RouteInv, PendInv
  <1>6. CASE /\ call[c] = "ensuring" /\ plan[c].method = "turn/start"
             /\ SendRouter([k |-> "begin", c |-> c])
             /\ call' = [call EXCEPT ![c] = "beginning"]
             /\ UNCHANGED <<rpcq, stop>>
    <2>1. "begin" \in Tracked /\ [k |-> "begin", c |-> c] \in CommandSet
      BY DEF Tracked, CommandSet
    <2>2. /\ cmds' \in Seq(CommandSet)
          /\ \A d : d # c => SameFor(cmds, cmds', d)
          /\ Queued(c, {"begin"})' <=> TRUE
          /\ Queued(c, {"thread"})' <=> Queued(c, {"thread"})
          /\ BeginsOnce(cmds, c) /\ ~Queued(c, {"begin"}) => BeginsOnce(cmds', c)
      BY <1>0, <1>6, <2>1, MoreQueue DEF SendRouter
    <2>3. call'[c] = "beginning" /\ \A d \in Callers \ {c} : call'[d] = call[d]
      BY <1>0, <1>6
    <2>4. StartOf(c)'
      BY <1>0, <1>1, <1>3, <1>4, <1>6, <2>2, <2>3 DEF StartOf, plan
    <2>5. Owner(c)'
      BY <2>3 DEF Owner
    <2>6. QueueType'
      BY <1>0, <1>1, <1>3, <2>2, QueuesKeep
    <2> QED
      BY <1>1, <1>3, <1>6, <2>2, <2>3, <2>4, <2>5, <2>6, CallStep
  <1>7. CASE \/ call[c] = "ensuring" /\ Returns(c, "notApplied") /\ UNCHANGED <<cmds, stop>>
             \/ (call[c] = "ensuring" \/ call[c] = "beginning") /\ Request(c) /\ UNCHANGED cmds
             \/ /\ call[c] \in {"observing", "releasing"}
                /\ Returns(c, "ok") /\ UNCHANGED <<cmds, stop>>
    <2>1. \A d : SameFor(cmds, cmds', d)
      BY <1>7, SameForSelf
    <2>2. /\ \A d \in Callers \ {c} : call'[d] = call[d]
          /\ stop => stop'
          /\ \/ call[c] = "ensuring" /\ call'[c] \in {"notApplied", "calling", "failed", "uncertain"}
             \/ /\ call[c] = "beginning"
                /\ \/ call'[c] = "calling" \/ (call'[c] = "uncertain" /\ stop')
                   \/ call'[c] = "failed" /\ plan[c].method # "turn/start"
             \/ call[c] \in {"observing", "releasing"} /\ call'[c] = "ok"
      BY <1>0, <1>7, RequestIs DEF Returns
    <2>3. QueueType'
      BY <1>0, <1>1, <1>3, <1>7, QueuesKeep
    <2>4. StartOf(c)'
      BY <1>0, <1>1, <1>3, <1>4, <2>1, <2>2, SameQueue DEF StartOf, plan
    <2>5. Waits(c) /\ Owner(c) => Owner(c)'
      BY <1>0, <1>1, <1>2, <1>5, <2>1, <2>2, SameQueue DEF StartOf, Owner
    <2> QED
      BY <1>1, <1>3, <2>1, <2>2, <2>3, <2>4, <2>5, CallStep
  <1> QED
    BY <1>6, <1>7 DEF Acknowledged

LEMMA NotAcknowledgedOwned ==
    ASSUME Inv, RouteInv, NEW c \in Callers, NotAcknowledged(c)
    PROVE  RouteInv'
  <1>0. DOMAIN call = Callers /\ cmds \in Seq(CommandSet) /\ StartOf(c) /\ QueueType
    BY DEF Inv, StateType, RouteInv, QueueType
  <1>1. UNCHANGED <<scene, routes, events, held, router, cmds, ack>>
    BY DEF NotAcknowledged, rpcVars
  <1>2. /\ \A d \in Callers \ {c} : call'[d] = call[d]
        /\ stop => stop'
        /\ \/ call[c] = "observing" /\ call'[c] = "untracked" /\ stop'
           \/ call[c] \in {"ensuring", "beginning", "releasing"} /\ call'[c] = "notApplied"
        /\ ack[c] # "yes"
    BY <1>0 DEF NotAcknowledged, FailClosedOn, Returns
  <1>3. Waits(c)' <=> Waits(c)
    BY <1>1 DEF Waits, Start
  <1>4. \A d : SameFor(cmds, cmds', d)
    BY <1>1, SameForSelf
  <1>5. QueueType'
    BY <1>0, <1>1, QueuesKeep DEF QueueType
  <1>6. StartOf(c)'
    BY <1>0, <1>1, <1>2, <1>3, <1>4, SameQueue DEF StartOf, plan
  <1>7. Waits(c) /\ Owner(c) => Owner(c)'
    BY <1>0, <1>1, <1>2, <1>4, SameQueue DEF StartOf, Owner
  <1> QED
    BY <1>1, <1>2, <1>4, <1>5, <1>6, <1>7, CallStep

LEMMA AnsweredOwned ==
    ASSUME Inv, RouteInv, NEW c \in Callers, Answered(c)
    PROVE  RouteInv'
  <1>0. DOMAIN call = Callers /\ cmds \in Seq(CommandSet) /\ StartOf(c) /\ QueueType
    BY DEF Inv, StateType, RouteInv, QueueType
  <1>1. UNCHANGED <<scene, routes, events, held, router, ack>> /\ call[c] = "calling"
    BY DEF Answered, rpcVars
  <1>2. Waits(c)' <=> Waits(c)
    BY <1>1 DEF Waits, Start
  <1>3. Waits(c) => plan[c].method = "turn/start"
    BY DEF Waits, RouteInv, PendInv
  <1>4. CASE \/ plan[c].method # "turn/start" /\ UNCHANGED <<cmds, stop>>
             \/ stop' /\ UNCHANGED cmds
    <2>1. \A d : SameFor(cmds, cmds', d)
      BY <1>4, SameForSelf
    <2>2. /\ \A d \in Callers \ {c} : call'[d] = call[d]
          /\ call'[c] \notin {"idle", "calling", "ensuring", "beginning", "observing"}
          /\ stop => stop'
      BY <1>0, <1>4 DEF Answered, FailClosedOn, Returns, SendRouter
    <2>3. QueueType'
      BY <1>0, <1>1, <1>4, QueuesKeep DEF QueueType
    <2>4. StartOf(c)'
      BY <1>0, <1>1, <1>2, <2>1, <2>2, SameQueue DEF StartOf, plan
    <2>5. Waits(c) => Owner(c)'
      BY <1>3, <1>4, <2>2 DEF Owner
    <2> QED
      BY <1>1, <2>1, <2>2, <2>3, <2>4, <2>5, CallStep
  <1>5. ASSUME NEW k \in {"abort", "turn", "thread"}, cmds' = Append(cmds, [k |-> k, c |-> c]),
               k = "abort" => call' = [call EXCEPT ![c] = "notApplied"],
               k # "abort" => call' = [call EXCEPT ![c] = "observing"],
               k = "thread" <=> plan[c].method # "turn/start", UNCHANGED stop
        PROVE  RouteInv'
    <2>1. k \in Tracked /\ [k |-> k, c |-> c] \in CommandSet
      BY DEF Tracked, CommandSet
    <2>2. /\ cmds' \in Seq(CommandSet)
          /\ \A d : d # c => SameFor(cmds, cmds', d)
          /\ Queued(c, {"begin"})' <=> Queued(c, {"begin"}) \/ k = "begin"
          /\ Queued(c, {"begin", "abort", "turn"})'
                <=> Queued(c, {"begin", "abort", "turn"}) \/ k \in {"begin", "abort", "turn"}
          /\ Queued(c, {"abort", "turn"})' <=> Queued(c, {"abort", "turn"}) \/ k \in {"abort", "turn"}
          /\ Queued(c, {"thread"})' <=> Queued(c, {"thread"}) \/ k = "thread"
          /\ BeginsOnce(cmds, c) /\ (k = "begin" => ~Queued(c, {"begin"})) => BeginsOnce(cmds', c)
      BY <1>0, <1>5, <2>1, MoreQueue
    <2>3. /\ \A d \in Callers \ {c} : call'[d] = call[d]
          /\ k = "abort" => call'[c] = "notApplied"
          /\ k # "abort" => call'[c] = "observing"
      BY <1>0, <1>5
    <2>4. StartOf(c)'
      BY <1>0, <1>1, <1>2, <1>5, <2>2, <2>3 DEF StartOf, plan
    <2>5. Waits(c) => Owner(c)'
      BY <1>3, <1>5, <2>2, <2>3 DEF Owner
    <2>6. QueueType'
      BY <1>0, <1>1, <2>2, QueuesKeep DEF QueueType
    <2> QED
      BY <1>1, <1>5, <2>2, <2>3, <2>4, <2>5, <2>6, CallStep
  <1>6. \/ plan[c].method # "turn/start" /\ UNCHANGED <<cmds, stop>>
        \/ stop' /\ UNCHANGED cmds
        \/ \E k \in {"abort", "turn", "thread"} :
             /\ cmds' = Append(cmds, [k |-> k, c |-> c])
             /\ k = "abort" => call' = [call EXCEPT ![c] = "notApplied"]
             /\ k # "abort" => call' = [call EXCEPT ![c] = "observing"]
             /\ k = "thread" <=> plan[c].method # "turn/start"
             /\ UNCHANGED stop
    BY DEF Answered, FailClosedOn, Returns, SendRouter, NonIdempotent
  <1> QED
    BY <1>4, <1>5, <1>6

LEMMA UnansweredOwned ==
    ASSUME Inv, RouteInv, NEW c \in Callers, Unanswered(c)
    PROVE  RouteInv'
  <1>0. DOMAIN call = Callers /\ cmds \in Seq(CommandSet) /\ StartOf(c) /\ QueueType
    BY DEF Inv, StateType, RouteInv, QueueType
  <1>1. UNCHANGED <<scene, routes, events, held, router, cmds, ack>>
    BY DEF Unanswered, rpcVars
  <1>2. /\ \A d \in Callers \ {c} : call'[d] = call[d]
        /\ stop => stop'
        /\ \/ call'[c] = "uncertain" /\ stop'
           \/ call'[c] = "failed" /\ plan[c].method # "turn/start"
    BY <1>0 DEF Unanswered, FailClosedOn, Returns, NonIdempotent
  <1>3. Waits(c)' <=> Waits(c)
    BY <1>1 DEF Waits, Start
  <1>4. Waits(c) => plan[c].method = "turn/start"
    BY DEF Waits, RouteInv, PendInv
  <1>5. \A d : SameFor(cmds, cmds', d)
    BY <1>1, SameForSelf
  <1>6. QueueType'
    BY <1>0, <1>1, QueuesKeep DEF QueueType
  <1>7. StartOf(c)'
    BY <1>0, <1>1, <1>2, <1>3, <1>5, SameQueue DEF StartOf, plan
  <1>8. Waits(c) => Owner(c)'
    BY <1>2, <1>4 DEF Owner
  <1> QED
    BY <1>1, <1>2, <1>5, <1>6, <1>7, <1>8, CallStep

\* A step that changes no call, no acknowledgement and no route, and no tracked command.
LEMMA AsideOwned ==
    ASSUME RouteInv, QueueType', UNCHANGED <<scene, routes, call, ack>>,
           \A d \in Callers : SameFor(cmds, cmds', d),
           stop => stop', router # "run" => router' # "run"
    PROVE  RouteInv'
  <1>1. Quietly
    BY DEF Quietly
  <1>2. \A d : Waits(d)' <=> Waits(d)
    BY DEF Waits, Start
  <1>3. \A d \in Callers : StartOf(d)'
    BY <1>2, StartKeeps DEF RouteInv
  <1>4. \A d \in Callers : Owner(d) => Owner(d)'
    BY OwnerKeeps
  <1> QED
    BY <1>1, <1>3, <1>4, QuietlyOwned

LEMMA SubscriberOwned ==
    ASSUME RouteInv, NEW s \in Subs, Subscribe(s) \/ Unsubscribe(s) \/ Recv(s)
    PROVE  RouteInv'
  <1>1. UNCHANGED <<scene, routes, call, ack, stop, router, events, held>>
    BY DEF Subscribe, Unsubscribe, Recv, rpcVars
  <1>2. QueueType /\ cmds \in Seq(CommandSet)
    BY DEF RouteInv, QueueType
  <1>3. /\ [k |-> "subscribe", s |-> s] \in CommandSet
        /\ [k |-> "unsubscribe", s |-> s] \in CommandSet
    BY DEF CommandSet
  <1>4. cmds' \in {cmds, Append(cmds, [k |-> "subscribe", s |-> s]),
                   Append(cmds, [k |-> "unsubscribe", s |-> s])}
    BY DEF Subscribe, Unsubscribe, Recv, SendRouter
  <1>5. cmds' \in Seq(CommandSet) /\ \A d \in Callers : SameFor(cmds, cmds', d)
    <2>1. CASE cmds' = cmds
      BY <1>2, <2>1, SameForSelf
    <2>2. ASSUME NEW m \in CommandSet, m.k \notin Tracked, cmds' = Append(cmds, m)
          PROVE  cmds' \in Seq(CommandSet) /\ \A d \in Callers : SameFor(cmds, cmds', d)
      BY <1>2, <2>2, AppendQueue, SameForAppend
    <2>3. /\ [k |-> "subscribe", s |-> s].k \notin Tracked
          /\ [k |-> "unsubscribe", s |-> s].k \notin Tracked
      BY DEF Tracked
    <2> QED
      BY <1>3, <1>4, <2>1, <2>2, <2>3
  <1>6. QueueType'
    BY <1>1, <1>2, <1>5, QueuesKeep DEF QueueType
  <1> QED
    BY <1>1, <1>5, <1>6, AsideOwned

LEMMA ShutdownOwned ==
    ASSUME RouteInv, Shutdown
    PROVE  RouteInv'
  <1>1. UNCHANGED <<scene, routes, call, ack, router, events, held, cmds>> /\ stop'
    BY DEF Shutdown, rpcVars
  <1>2. QueueType'
    BY <1>1, QueuesKeep DEF RouteInv, QueueType
  <1> QED
    BY <1>1, <1>2, SameForSelf, AsideOwned

LEMMA RespondOwned ==
    ASSUME RouteInv, NEW q \in Asks, Respond(q)
    PROVE  RouteInv'
  <1>1. UNCHANGED <<scene, routes, call, ack, router, events, held, cmds, stop>>
    BY DEF Respond
  <1>2. QueueType'
    BY <1>1, QueuesKeep DEF RouteInv, QueueType
  <1> QED
    BY <1>1, <1>2, SameForSelf, AsideOwned

-----------------------------------------------------------------------------
(* The steps of the connection and of the router. *)

\* A step of the connection only adds an event, and holds at most one back.
LEMMA ConnectionOwned ==
    ASSUME RouteInv, UNCHANGED <<scene, call, clientVars>>,
           events' \in Seq(EventSet), held' \in Messages \union {None}
    PROVE  RouteInv'
  <1>1. UNCHANGED <<routes, box, cmds, ack, stop, router>>
    BY DEF clientVars
  <1>2. QueueType'
    <2>1. Fine(State)'
      BY <1>1 DEF RouteInv, QueueType, Fine, State
    <2> QED
      BY <1>1, <2>1 DEF RouteInv, QueueType, EventSet, Messages, CommandSet, None, Drift
  <1> QED
    BY <1>1, <1>2, SameForSelf, AsideOwned

LEMMA RpcOwned ==
    ASSUME Inv, RouteInv, RpcNext, UNCHANGED clientVars
    PROVE  RouteInv'
  <1>1. /\ events \in Seq(EventSet) /\ held \in Messages \union {None} /\ inbox \in Seq(Messages)
    BY DEF RouteInv, QueueType, Inv, WireType
  <1>2. UNCHANGED <<scene, call>>
    BY DEF RpcNext, Dispatch, PumpRefuses, RespondFails, HandleInbound, EmitHeld, SweepPending,
           ActorStops, ServerTakes, ServerAnswers, ServerReports, ServerErrs, ServerAsks, ServerDies
  <1>3. ASSUME Dispatch \/ PumpRefuses \/ RespondFails \/ SweepPending \/ ServerTakes
                 \/ ServerAnswers \/ ServerReports \/ ServerErrs \/ ServerAsks \/ ServerDies
        PROVE  UNCHANGED <<events, held>>
    BY <1>3 DEF Dispatch, PumpRefuses, RespondFails, SweepPending, ServerTakes, ServerAnswers,
                ServerReports, ServerErrs, ServerAsks, ServerDies
  <1>4. ASSUME Ends PROVE UNCHANGED events /\ held' = None
    BY <1>4 DEF Ends
  <1>5. ASSUME HandleInbound
        PROVE  events' \in Seq(EventSet) /\ held' \in Messages \union {None}
    <2> DEFINE m == Head(inbox)
    <2>1. m \in Messages /\ m \in EventSet /\ Drift \in EventSet
      BY <1>1, <1>5 DEF HandleInbound, EventSet
    <2>2. \/ Ends \/ UNCHANGED <<events, held>>
          \/ events' = Append(events, Drift) /\ held' = held
          \/ m.k = "ask" /\ held' = AskMessage(m.q) /\ events' = events
          \/ held' = m /\ events' = events
          \/ held' = held /\ events' = Append(events, m)
      BY <1>5 DEF HandleInbound, Correlate, TakeAsk, EmitDrift, TakeNote
    <2>3. m.k = "ask" => AskMessage(m.q) \in Messages
      <3> HIDE DEF m
      <3> QED BY <2>1 DEF Messages, AskMessage
    <2> HIDE DEF m
    <2>4. \A e \in EventSet : Append(events, e) \in Seq(EventSet)
      BY <1>1
    <2>5. CASE Ends
      BY <1>1, <1>4, <2>5
    <2>6. CASE \/ UNCHANGED <<events, held>>
               \/ events' = Append(events, Drift) /\ held' = held
               \/ held' = held /\ events' = Append(events, m)
      BY <1>1, <2>1, <2>4, <2>6
    <2>7. CASE \/ m.k = "ask" /\ held' = AskMessage(m.q) /\ events' = events
               \/ held' = m /\ events' = events
      BY <1>1, <2>1, <2>3, <2>7
    <2> QED
      BY <2>2, <2>5, <2>6, <2>7
  <1>6. ASSUME EmitHeld PROVE events' \in Seq(EventSet) /\ held' \in Messages \union {None}
    BY <1>1, <1>6 DEF EmitHeld, EventSet
  <1>7. ASSUME ActorStops PROVE events' \in Seq(EventSet) /\ held' \in Messages \union {None}
    BY <1>1, <1>4, <1>7 DEF ActorStops, Stopped
  <1>8. events' \in Seq(EventSet) /\ held' \in Messages \union {None}
    BY <1>1, <1>3, <1>5, <1>6, <1>7 DEF RpcNext
  <1> QED
    BY <1>2, <1>8, ConnectionOwned

LEMMA RouterStopsOwned ==
    ASSUME RouteInv, RouterBreaks \/ RouterCancels
    PROVE  RouteInv'
  <1>1. UNCHANGED <<scene, routes, call, ack, events, held, cmds, stop>>
    BY DEF RouterBreaks, RouterCancels, rpcVars, clientVars
  <1>2. router # "run" => router' # "run"
    BY DEF RouterBreaks, RouterCancels, clientVars
  <1>3. QueueType'
    BY <1>1, QueuesKeep DEF RouteInv, QueueType
  <1> QED
    BY <1>1, <1>2, <1>3, SameForSelf, AsideOwned

LEMMA RouterEndsOwned ==
    ASSUME RouteInv, RouterEnds
    PROVE  RouteInv'
  <1>1. /\ UNCHANGED <<scene, call, ack, held>> /\ events' = <<>> /\ cmds' = <<>>
        /\ routes' = [t \in Threads |-> NoRoute]
    BY DEF RouterEnds
  <1>2. \A t \in Threads : routes'[t] = NoRoute
    BY <1>1
  <1>3. QueueType'
    <2>1. Fine(State)'
      BY <1>1, <1>2 DEF Fine, State
    <2> QED
      BY <1>1, <2>1 DEF RouteInv, QueueType, EventSet, Messages, CommandSet, None, Drift
  <1>4. Quietly
    BY <1>2 DEF Quietly
  <1>5. \A c : ~Waits(c)'
    BY <1>2 DEF Waits, Start
  <1>6. \A c, K : ~Queued(c, K)'
    BY <1>1 DEF Queued, QueuedIn
  <1>7. \A c \in Callers : StartOf(c)'
    <2> SUFFICES ASSUME NEW c \in Callers PROVE StartOf(c)'
      OBVIOUS
    <2>1. StartOf(c)
      BY DEF RouteInv
    <2>2. BeginsOnce(cmds', c)
      BY <1>1 DEF BeginsOnce
    <2> QED
      BY <1>1, <1>5, <1>6, <2>1, <2>2 DEF StartOf
  <1> QED
    BY <1>1, <1>3, <1>4, <1>5, <1>7, QuietlyOwned

\* A report of a Messages kind is a report.
LEMMA IsReport == ASSUME NEW e \in EventSet, IsNote(e) PROVE e \in NoteSet
  BY DEF EventSet, Messages, Drift, IsNote, NoteSet

LEMMA RouteEventOwned ==
    ASSUME RouteInv, RouteEvent
    PROVE  RouteInv'
  <1>0. QueueType /\ Fine(State) /\ events \in Seq(EventSet) /\ events # <<>>
    BY DEF RouteInv, QueueType, RouteEvent
  <1>1. /\ UNCHANGED <<scene, call, ack, held, cmds, stop>> /\ events' = Tail(events)
        /\ router = "run"
    BY DEF RouteEvent
  <1>2. Head(events) \in EventSet /\ events' \in Seq(EventSet)
    BY <1>0, <1>1
  <1>3. Quietly /\ Fine(State)'
    <2>1. CASE UNCHANGED routes
      <3>1. Fine(State)'
        BY <1>0, <2>1 DEF Fine, State
      <3> QED
        BY <2>1, <3>1 DEF Quietly
    <2>2. CASE IsNote(Head(events)) /\ Becomes(RouteNotification(State, Head(events)))
      <3>1. Settles(State, RouteNotification(State, Head(events)))
        BY <1>0, <1>2, <2>2, IsReport, NotificationSettles
      <3> QED
        BY <2>2, <3>1, BecomesQuietly
    <2> QED
      BY <2>1, <2>2 DEF RouteEvent, routerVars
  <1>4. QueueType'
    BY <1>0, <1>1, <1>2, <1>3 DEF QueueType, EventSet, Messages, CommandSet, None, Drift
  <1>5. \A d \in Callers : StartOf(d)'
    BY <1>1, <1>3, StartKeeps, SameForSelf, QuietlyWaits DEF RouteInv
  <1>6. \A d \in Callers : Owner(d) => Owner(d)'
    BY <1>1, OwnerKeeps, SameForSelf
  <1> QED
    BY <1>1, <1>3, <1>4, <1>5, <1>6, QuietlyOwned

\* What the acknowledgement of call c must fit.
AckFits(c) ==
  /\ call[c] \in {"idle", "calling"} => ack'[c] = "none"
  /\ call[c] = "beginning" /\ ack'[c] # "yes" => ~Waits(c)'
  /\ call[c] = "observing" /\ ack'[c] # "none" => ~Waits(c)'

\* The router takes the first command: what is left in the queue.
LEMMA HeadStart ==
    ASSUME RouteInv, cmds # <<>>, cmds' = Tail(cmds), UNCHANGED <<call, scene>>,
           NEW d \in Callers, AckFits(d), Queued(d, {"begin"})' => ~Waits(d)',
           Waits(d)' => Waits(d) \/ call[d] = "beginning"
    PROVE  StartOf(d)'
  <1>1. cmds \in Seq(CommandSet) /\ StartOf(d)
    BY DEF RouteInv, QueueType
  <1>2. \A K : Queued(d, K)' => Queued(d, K)
    BY <1>1, TailQueue DEF Queued
  <1>3. BeginsOnce(cmds', d)
    BY <1>1, TailQueue DEF StartOf
  <1> QED
    BY <1>1, <1>2, <1>3 DEF StartOf, AckFits, plan

LEMMA HeadOwner ==
    ASSUME RouteInv, cmds # <<>>, cmds' = Tail(cmds), UNCHANGED <<call, stop>>, router = "run",
           NEW d \in Callers, Owner(d), ~(Head(cmds).k \in {"abort", "turn"} /\ Head(cmds).c = d)
    PROVE  Owner(d)'
  <1>1. cmds \in Seq(CommandSet)
    BY DEF RouteInv, QueueType
  <1>2. Queued(d, {"abort", "turn"}) => Queued(d, {"abort", "turn"})'
    BY <1>1, TailQueue DEF Queued
  <1> QED
    BY <1>2 DEF Owner

\* A command that begins no start.
LEMMA CommandOwned ==
    ASSUME RouteInv, cmds # <<>>, cmds' = Tail(cmds), UNCHANGED <<call, stop, scene, events, held>>,
           router = "run", Quietly, Fine(State)', ack' \in [Callers -> {"none", "yes", "no"}],
           \A d \in Callers : AckFits(d),
           \A d \in Callers : Head(cmds).k \in {"abort", "turn"} /\ Head(cmds).c = d => ~Waits(d)'
    PROVE  RouteInv'
  <1>1. cmds' \in Seq(CommandSet)
    <2>1. cmds \in Seq(CommandSet)
      BY DEF RouteInv, QueueType
    <2> QED
      BY <2>1, TailQueue
  <1>2. QueueType'
    BY <1>1 DEF RouteInv, QueueType, EventSet, Messages, CommandSet, None, Drift
  <1>3. \A d \in Callers : StartOf(d)'
    <2> SUFFICES ASSUME NEW d \in Callers PROVE StartOf(d)'
      OBVIOUS
    <2>1. Waits(d)' => Waits(d)
      BY QuietlyWaits
    <2>2. Queued(d, {"begin"})' => Queued(d, {"begin"})
      <3>1. cmds \in Seq(CommandSet)
        BY DEF RouteInv, QueueType
      <3> QED
        BY <3>1, TailQueue DEF Queued
    <2>3. Queued(d, {"begin"})' => ~Waits(d)'
      BY <2>1, <2>2 DEF RouteInv, StartOf
    <2> QED
      BY <2>1, <2>3, HeadStart
  <1>4. \A d \in Callers : Waits(d) /\ Waits(d)' /\ Owner(d) => Owner(d)'
    BY HeadOwner
  <1> QED
    BY <1>2, <1>3, <1>4, QuietlyOwned

\* The acknowledgement goes to a caller that still waits for it.
LEMMA AckIs ==
    ASSUME ack \in [Callers -> {"none", "yes", "no"}], NEW c \in Callers, NEW stage, NEW yes,
           Ack(c, stage, yes)
    PROVE  /\ ack' \in [Callers -> {"none", "yes", "no"}]
           /\ \A d \in Callers \ {c} : ack'[d] = ack[d]
           /\ call[c] # stage => ack'[c] = ack[c]
           /\ call[c] = stage /\ yes => ack'[c] = "yes"
  BY DEF Ack

LEMMA AckSame ==
    ASSUME RouteInv, NEW d \in Callers, ack'[d] = ack[d], Quietly
    PROVE  AckFits(d)
  BY QuietlyWaits DEF AckFits, RouteInv, StartOf

\* An acknowledgement that has to do with no start.
LEMMA AckAside ==
    ASSUME RouteInv, NEW c \in Callers, NEW stage, NEW yes, Ack(c, stage, yes), Quietly,
           stage \in {"ensuring", "releasing"}
             \/ (stage \in {"beginning", "observing"} /\ ~Waits(c)')
    PROVE  /\ ack' \in [Callers -> {"none", "yes", "no"}]
           /\ \A d \in Callers : AckFits(d)
  <1>1. ack \in [Callers -> {"none", "yes", "no"}]
    BY DEF RouteInv, QueueType
  <1>2. /\ ack' \in [Callers -> {"none", "yes", "no"}]
        /\ \A d \in Callers \ {c} : ack'[d] = ack[d]
        /\ call[c] # stage => ack'[c] = ack[c]
    BY <1>1, AckIs
  <1>3. \A d \in Callers \ {c} : AckFits(d)
    BY <1>2, AckSame
  <1>4. AckFits(c)
    <2>1. CASE call[c] # stage
      BY <1>2, <2>1, AckSame
    <2>2. CASE call[c] = stage
      BY <2>2 DEF AckFits
    <2> QED
      BY <2>1, <2>2
  <1> QED
    BY <1>2, <1>3, <1>4

\* The thread of a call is a thread.
LEMMA ThreadIs ==
    ASSUME Inv, NEW c \in Callers
    PROVE  Thread(c) \in Threads
  BY RpcAssumption DEF Inv, WireType, Thread, plan, Scenario

\* A start whose command is at the head of the queue: only its own thread can wait for it.
LEMMA OwnThread ==
    ASSUME RouteInv, Quietly, UNCHANGED scene, NEW c \in Callers,
           routes'[Thread(c)] # NoRoute => routes'[Thread(c)].pend # Start(c)
    PROVE  ~Waits(c)'
  <1> SUFFICES ASSUME NEW t \in Threads, routes'[t] # NoRoute, routes'[t].pend = Start(c)
               PROVE  FALSE
    BY DEF Waits, Start
  <1>1. routes[t] # NoRoute /\ routes[t].pend = Start(c)
    BY StartIsNotNone DEF Quietly
  <1>2. Thread(c) = t
    BY <1>1 DEF RouteInv, PendInv
  <1> QED
    BY <1>2

LEMMA AbortOwned ==
    ASSUME Inv, RouteInv, HandleRouterCommand, NEW c \in Callers, Head(cmds).c = c,
           HandleAbort(c)
    PROVE  RouteInv'
  <1>0. /\ cmds # <<>> /\ cmds' = Tail(cmds) /\ UNCHANGED <<call, stop, scene, events, held>>
        /\ router = "run"
    BY DEF HandleRouterCommand, rpcVars
  <1>1. Fine(State) /\ ack \in [Callers -> {"none", "yes", "no"}]
    BY DEF RouteInv, QueueType
  <1> DEFINE q == FinishTurnStart(State, Thread(c), c)
  <1>2. /\ Settles(State, q)
        /\ q.routes[Thread(c)] # NoRoute => q.routes[Thread(c)].pend # Start(c)
    BY <1>1, ThreadIs, FinishSettles
  <1>3. Becomes(q) /\ UNCHANGED ack
    BY DEF HandleAbort
  <1> HIDE DEF q
  <1>4. Quietly /\ Fine(State)' /\ routes' = q.routes
    BY <1>2, <1>3, BecomesQuietly DEF Becomes
  <1>5. ~Waits(c)'
    BY <1>0, <1>2, <1>4, OwnThread
  <1>6. \A d \in Callers : AckFits(d)
    BY <1>3, <1>4, AckSame
  <1> QED
    BY <1>0, <1>1, <1>3, <1>4, <1>5, <1>6, CommandOwned

LEMMA ObserveTurnOwned ==
    ASSUME Inv, RouteInv, HandleRouterCommand, NEW c \in Callers, Head(cmds).c = c,
           HandleObserveTurn(c)
    PROVE  RouteInv'
  <1>0. /\ cmds # <<>> /\ cmds' = Tail(cmds) /\ UNCHANGED <<call, stop, scene, events, held>>
        /\ router = "run"
    BY DEF HandleRouterCommand, rpcVars
  <1>1. Fine(State)
    BY DEF RouteInv, QueueType
  <1> DEFINE e == Note("started", c, 0)
             r == RouteTurnStarted(State, e)
             q == FinishTurnStart(r, Thread(c), c)
  <1>2. e.t \in Threads
    BY ThreadIs DEF Note, Thread
  <1>3. Becomes(q) /\ Ack(c, "observing", Usable(r, Thread(c)))
    BY DEF HandleObserveTurn
  <1> HIDE DEF e
  <1>4. Settles(State, r) /\ Fine(r)
    BY <1>1, <1>2, TurnStartedSettles DEF Settles
  <1> HIDE DEF r
  <1>5. /\ Settles(r, q)
        /\ q.routes[Thread(c)] # NoRoute => q.routes[Thread(c)].pend # Start(c)
    BY <1>4, ThreadIs, FinishSettles
  <1> HIDE DEF q
  <1>6. Settles(State, q)
    BY <1>4, <1>5, SettlesTrans
  <1>7. Quietly /\ Fine(State)' /\ routes' = q.routes
    BY <1>3, <1>6, BecomesQuietly DEF Becomes
  <1>8. ~Waits(c)'
    BY <1>0, <1>5, <1>7, OwnThread
  <1>9. ack' \in [Callers -> {"none", "yes", "no"}] /\ \A d \in Callers : AckFits(d)
    BY <1>3, <1>7, <1>8, AckAside
  <1> QED
    BY <1>0, <1>7, <1>8, <1>9, CommandOwned

LEMMA ObserveThreadOwned ==
    ASSUME Inv, RouteInv, HandleRouterCommand, NEW c \in Callers,
           Head(cmds).k = "thread", Head(cmds).c = c, HandleObserveThread(c)
    PROVE  RouteInv'
  <1>0. /\ cmds # <<>> /\ cmds' = Tail(cmds) /\ UNCHANGED <<call, stop, scene, events, held>>
        /\ router = "run"
    BY DEF HandleRouterCommand, rpcVars
  <1>1. Fine(State) /\ cmds \in Seq(CommandSet) /\ StartOf(c)
    BY DEF RouteInv, QueueType
  <1> DEFINE r == RouteThreadStarted(State, Thread(c))
  <1>2. Becomes(r) /\ Ack(c, "observing", Usable(r, Thread(c)))
    BY DEF HandleObserveThread
  <1>3. Settles(State, r)
    BY <1>1, ThreadIs, ThreadStartedSettles
  <1> HIDE DEF r
  <1>4. Quietly /\ Fine(State)'
    BY <1>2, <1>3, BecomesQuietly
  <1>5. plan[c].method # "turn/start"
    <2>1. Queued(c, {"thread"})
      BY <1>0, <1>1, TailQueue DEF Queued
    <2> QED
      BY <1>1, <2>1 DEF StartOf
  <1>6. ~Waits(c)
    BY <1>5 DEF Waits, RouteInv, PendInv
  <1>7. ~Waits(c)'
    BY <1>4, <1>6, QuietlyWaits
  <1>8. ack' \in [Callers -> {"none", "yes", "no"}] /\ \A d \in Callers : AckFits(d)
    BY <1>2, <1>4, <1>7, AckAside
  <1> QED
    BY <1>0, <1>4, <1>8, CommandOwned

LEMMA EnsureOwned ==
    ASSUME Inv, RouteInv, HandleRouterCommand, NEW c \in Callers,
           Head(cmds).k = "ensure", HandleEnsure(c)
    PROVE  RouteInv'
  <1>0. /\ cmds # <<>> /\ cmds' = Tail(cmds) /\ UNCHANGED <<call, stop, scene, events, held>>
        /\ router = "run"
    BY DEF HandleRouterCommand, rpcVars
  <1>1. Fine(State)
    BY DEF RouteInv, QueueType
  <1> DEFINE r == WithRoute(State, Thread(c))
  <1>2. Becomes(r) /\ Ack(c, "ensuring", Usable(r, Thread(c)))
    BY DEF HandleEnsure
  <1>3. Settles(State, r)
    BY <1>1, ThreadIs, WithRouteSettles
  <1> HIDE DEF r
  <1>4. Quietly /\ Fine(State)'
    BY <1>2, <1>3, BecomesQuietly
  <1>5. ack' \in [Callers -> {"none", "yes", "no"}] /\ \A d \in Callers : AckFits(d)
    BY <1>2, <1>4, AckAside
  <1> QED
    BY <1>0, <1>4, <1>5, CommandOwned

\* A route is dropped, or its subscribers change.
LEMMA RemoveSettles ==
    ASSUME NEW r, Fine(r), NEW t \in Threads, NEW q, q = [r EXCEPT !.routes[t] = NoRoute]
    PROVE  Settles(r, q)
  <1>1. q = [routes |-> [r.routes EXCEPT ![t] = NoRoute], box |-> r.box, fault |-> r.fault]
    BY DEF Fine
  <1>2. DOMAIN r.routes = Threads
    BY DEF Fine
  <1>3. \A u \in Threads : q.routes[u] = IF u = t THEN NoRoute ELSE r.routes[u]
    BY <1>1, <1>2
  <1>4. q.routes = [u \in Threads |-> q.routes[u]]
    BY <1>1, <1>2
  <1> QED
    BY <1>1, <1>3, <1>4 DEF Settles, Fine, Quieter

LEMMA SubsSettle ==
    ASSUME NEW r, Fine(r), NEW t \in Threads, r.routes[t] # NoRoute, NEW v
    PROVE  Settles(r, [r EXCEPT !.routes[t].subs = v])
  <1> DEFINE x == [r.routes[t] EXCEPT !.subs = v]
             q == [r EXCEPT !.routes[t].subs = v]
  <1>1. IsRoute(r.routes[t])
    BY DEF Fine
  <1>2. IsRoute(x) /\ x.pend = r.routes[t].pend /\ x.defer = r.routes[t].defer
    BY <1>1, SubsChange
  <1>3. q = [r EXCEPT !.routes[t] = x]
    OBVIOUS
  <1> HIDE DEF x, q
  <1>4. q = Put(r, t, x, r.box)
    BY <1>3, PutIs, Zenon
  <1>5. Settles(r, q)
    BY <1>2, <1>4, PutSettles
  <1> QED
    BY <1>5 DEF q

LEMMA ReleaseOwned ==
    ASSUME Inv, RouteInv, HandleRouterCommand, NEW c \in Callers,
           Head(cmds).k = "release", HandleRelease(c)
    PROVE  RouteInv'
  <1>0. /\ cmds # <<>> /\ cmds' = Tail(cmds) /\ UNCHANGED <<call, stop, scene, events, held>>
        /\ router = "run"
    BY DEF HandleRouterCommand, rpcVars
  <1>1. Fine(State) /\ Thread(c) \in Threads
    BY ThreadIs DEF RouteInv, QueueType
  <1> DEFINE r == Prune(State)
             q == [r EXCEPT !.routes[Thread(c)] = NoRoute]
  <1>2. /\ Becomes(r) \/ Becomes(q)
        /\ \E ok : Ack(c, "releasing", ok)
    BY DEF HandleRelease
  <1>3. Settles(State, r) /\ Fine(r)
    BY <1>1, PruneSettles DEF Settles
  <1> HIDE DEF r
  <1>4. Settles(r, q)
    BY <1>1, <1>3, RemoveSettles
  <1> HIDE DEF q
  <1>5. Settles(State, q)
    BY <1>3, <1>4, SettlesTrans
  <1>6. Quietly /\ Fine(State)'
    BY <1>2, <1>3, <1>5, BecomesQuietly
  <1>7. ack' \in [Callers -> {"none", "yes", "no"}] /\ \A d \in Callers : AckFits(d)
    BY <1>2, <1>6, AckAside
  <1> QED
    BY <1>0, <1>6, <1>7, CommandOwned

\* The subscriptions.
SubInv == sub \in [Subs -> [thread : Threads, state : {"none", "asking", "on", "refused", "dropped"},
                            before : SUBSET Callers]]

LEMMA UnsubscribeOwned ==
    ASSUME SubInv, RouteInv, HandleRouterCommand, NEW s \in Subs,
           Head(cmds).k = "unsubscribe", HandleUnsubscribe(s)
    PROVE  RouteInv'
  <1>0. /\ cmds # <<>> /\ cmds' = Tail(cmds) /\ UNCHANGED <<call, stop, scene, events, held>>
        /\ router = "run"
    BY DEF HandleRouterCommand, rpcVars
  <1> DEFINE t == sub[s].thread
             v == State.routes[t].subs \ {s}
             q == [State EXCEPT !.routes[t].subs = v]
  <1>1. Fine(State) /\ t \in Threads /\ ack \in [Callers -> {"none", "yes", "no"}]
    BY DEF RouteInv, QueueType, SubInv
  <1>2. UNCHANGED ack
    BY DEF HandleUnsubscribe
  <1>3. \/ Becomes(State) \/ (State.routes[t] # NoRoute /\ Becomes(q))
    <2>1. State.routes[t] = routes[t]
      BY DEF State
    <2>2. Becomes(IF routes[t] = NoRoute THEN State ELSE q)
      BY DEF HandleUnsubscribe
    <2> HIDE DEF q, t
    <2> QED
      BY <2>1, <2>2
  <1>4. State.routes[t] # NoRoute => Settles(State, q)
    <2> HIDE DEF t, v
    <2> QED BY <1>1, SubsSettle, Zenon
  <1> HIDE DEF q
  <1>5. Settles(State, State)
    BY <1>1, SettlesSame
  <1>6. Quietly /\ Fine(State)'
    BY <1>3, <1>4, <1>5, BecomesQuietly
  <1>7. \A d \in Callers : AckFits(d)
    BY <1>2, <1>6, AckSame
  <1> QED
    BY <1>0, <1>1, <1>2, <1>6, <1>7, CommandOwned

LEMMA SubscribeOwned ==
    ASSUME SubInv, RouteInv, HandleRouterCommand, NEW s \in Subs,
           Head(cmds).k = "subscribe", HandleSubscribe(s)
    PROVE  RouteInv'
  <1>0. /\ cmds # <<>> /\ cmds' = Tail(cmds) /\ UNCHANGED <<call, stop, scene, events, held>>
        /\ router = "run"
    BY DEF HandleRouterCommand, rpcVars
  <1> DEFINE t == sub[s].thread
             all == UNION {routes[u].subs : u \in {u \in Threads : routes[u] # NoRoute}}
             r == IF Cardinality(all) < SubCap THEN WithRoute(State, t) ELSE State
             f == [r EXCEPT !.box[s].q = Append(@, ThreadStarted)]
             a == [r EXCEPT !.routes[t].subs = @ \union {s}]
             b == [f EXCEPT !.routes[t].subs = @ \union {s}]
  <1>1. Fine(State) /\ t \in Threads /\ ack \in [Callers -> {"none", "yes", "no"}]
    BY DEF RouteInv, QueueType, SubInv
  <1>2. UNCHANGED ack
    BY DEF HandleSubscribe
  <1>3. Becomes(r) \/ (Usable(r, t) /\ (Becomes(a) \/ Becomes(b)))
    <2> DEFINE ok == Cardinality(all) < SubCap /\ Usable(r, t)
               first == IF ok /\ r.routes[t].known THEN f ELSE r
               d == [first EXCEPT !.routes[t].subs = @ \union {s}]
    <2>1. Becomes(IF ok THEN d ELSE r)
      BY DEF HandleSubscribe
    <2>2. d = a \/ d = b
      <3>1. first = f \/ first = r
        <4> HIDE DEF f, r, ok
        <4> QED OBVIOUS
      <3> HIDE DEF first, f, r
      <3> QED BY <3>1, Zenon
    <2>3. ok => Usable(r, t)
      OBVIOUS
    <2> HIDE DEF d, a, b, ok, r, t
    <2> QED
      BY <2>1, <2>2, <2>3
  <1>4. Settles(State, r) /\ Fine(r)
    <2> HIDE DEF t, all
    <2>1. Settles(State, WithRoute(State, t)) /\ Settles(State, State)
      BY <1>1, WithRouteSettles, SettlesSame
    <2> QED
      BY <1>1, <2>1 DEF Settles
  <1> HIDE DEF r, t
  <1>5. Settles(r, f) /\ f.routes = r.routes
    <2> DEFINE g == [r.box EXCEPT ![s].q = Append(@, ThreadStarted)]
    <2>1. f = [r EXCEPT !.box = g]
      OBVIOUS
    <2> HIDE DEF f, g
    <2>2. f = [routes |-> r.routes, box |-> g, fault |-> r.fault]
      BY <1>4, <2>1, StateExcept
    <2>3. f = [routes |-> r.routes, box |-> f.box, fault |-> f.fault]
      BY <2>2
    <2> QED
      BY <1>4, <2>2, <2>3, SameRoutes
  <1> HIDE DEF f
  <1>6. Usable(r, t) => Settles(State, a) /\ Settles(State, b)
    <2> SUFFICES ASSUME Usable(r, t) PROVE Settles(State, a) /\ Settles(State, b)
      OBVIOUS
    <2>1. r.routes[t] # NoRoute /\ f.routes[t] # NoRoute /\ Fine(f)
      BY <1>5 DEF Usable, Settles
    <2>2. Settles(r, a)
      BY <1>1, <1>4, <2>1, SubsSettle, Zenon
    <2>3. Settles(f, b)
      BY <1>1, <2>1, SubsSettle, Zenon
    <2> HIDE DEF a, b
    <2> QED
      BY <1>4, <1>5, <2>2, <2>3, SettlesTrans
  <1> HIDE DEF a, b
  <1>7. Quietly /\ Fine(State)'
    BY <1>3, <1>4, <1>6, BecomesQuietly
  <1>8. \A d \in Callers : AckFits(d)
    BY <1>2, <1>7, AckSame
  <1> QED
    BY <1>0, <1>1, <1>2, <1>7, <1>8, CommandOwned

\* The start of call c is pending at thread t, whose reports are deferred.
Begun(r, t, c) == [r EXCEPT !.routes[t].pend = Start(c), !.routes[t].defer = TRUE]

LEMMA PendChanges ==
    ASSUME NEW x, IsRoute(x), NEW c \in Callers
    PROVE  IsRoute([x EXCEPT !.pend = Start(c)]) /\ [x EXCEPT !.pend = Start(c)].pend = Start(c)
  <1> DEFINE v == Start(c)
             y == [x EXCEPT !.pend = v]
  <1>1. \E d \in Callers : v = Start(d)
    OBVIOUS
  <1> HIDE DEF v
  <1>2. /\ y = [subs |-> y.subs, pend |-> y.pend, defer |-> y.defer, deferred |-> y.deferred,
                known |-> y.known, invalid |-> y.invalid, started |-> y.started,
                active |-> y.active, items |-> y.items, usage |-> y.usage,
                outcomes |-> y.outcomes]
        /\ y.deferred = x.deferred /\ y.pend = v
    BY DEF IsRoute
  <1> HIDE DEF y
  <1>3. IsRoute(y)
    BY <1>1, <1>2 DEF IsRoute
  <1> QED
    BY <1>2, <1>3 DEF v, y

LEMMA BeginIs ==
    ASSUME NEW r, Fine(r), NEW t \in Threads, r.routes[t] # NoRoute, NEW c \in Callers
    PROVE  /\ Fine(Begun(r, t, c)) /\ Begun(r, t, c).routes[t] # NoRoute
           /\ Begun(r, t, c).routes[t].pend = Start(c)
           /\ \A u \in Threads \ {t} : Begun(r, t, c).routes[u] = r.routes[u]
  <1> DEFINE y == r.routes[t]
             v == Start(c)
             yes == TRUE
             x1 == [y EXCEPT !.pend = v]
             x == [x1 EXCEPT !.defer = yes]
             q == Begun(r, t, c)
  <1>1. IsRoute(y) /\ DOMAIN r.routes = Threads /\ "routes" \in DOMAIN r
    BY DEF Fine
  <1>2. q = [r EXCEPT !.routes[t] = x]
    BY <1>1 DEF Begun
  <1> HIDE DEF y, yes, q
  <1>4. IsRoute(x1) /\ x1.pend = v
    BY <1>1, PendChanges
  <1> HIDE DEF x1, v
  <1>5. IsRoute(x) /\ x.pend = v
    BY <1>4, StartChanges
  <1> HIDE DEF x
  <1>6. q = Put(r, t, x, r.box)
    BY <1>2, PutIs, Zenon
  <1>7. q = [routes |-> [r.routes EXCEPT ![t] = x], box |-> r.box, fault |-> r.fault]
    BY <1>6 DEF Put
  <1>71. q.routes = [r.routes EXCEPT ![t] = x]
    BY <1>7
  <1>8. q.routes[t] = x /\ \A u \in Threads \ {t} : q.routes[u] = r.routes[u]
    BY <1>1, <1>71, Zenon
  <1>9. q.routes = [u \in Threads |-> q.routes[u]]
    BY <1>1, <1>7
  <1>10. Fine(q)
    <2>1. \A u \in Threads : q.routes[u] = NoRoute \/ IsRoute(q.routes[u])
      BY <1>5, <1>8 DEF Fine
    <2>2. q = [routes |-> q.routes, box |-> q.box, fault |-> q.fault]
      BY <1>7
    <2> QED
      BY <1>9, <2>1, <2>2 DEF Fine
  <1> QED
    BY <1>5, <1>8, <1>10, RouteIsThere DEF v, q

LEMMA BeginOwned ==
    ASSUME Inv, RouteInv, HandleRouterCommand, NEW c \in Callers,
           Head(cmds).k = "begin", Head(cmds).c = c, HandleBegin(c)
    PROVE  RouteInv'
  <1>0. /\ cmds # <<>> /\ cmds' = Tail(cmds) /\ UNCHANGED <<call, stop, scene, events, held>>
        /\ router = "run"
    BY DEF HandleRouterCommand, rpcVars
  <1> DEFINE t == Thread(c)
             r == WithRoute(State, t)
             begun == [r EXCEPT !.routes[t].pend = Start(c), !.routes[t].defer = TRUE]
             ok == Usable(r, t) /\ r.routes[t].pend = None
             q == FinishTurnStart(begun, t, c)
  <1>1. /\ Fine(State) /\ t \in Threads /\ ack \in [Callers -> {"none", "yes", "no"}]
        /\ cmds \in Seq(CommandSet) /\ StartOf(c)
    BY ThreadIs DEF RouteInv, QueueType
  <1>2. Queued(c, {"begin"}) /\ Queued(c, {"begin", "abort", "turn"}) /\ ~Queued(c, {"begin"})'
    <2>1. BeginsOnce(cmds, c)
      BY <1>1 DEF StartOf
    <2> QED
      BY <1>0, <1>1, <2>1, TailQueue DEF Queued
  <1>3. ~Waits(c) /\ plan[c].method = "turn/start"
    BY <1>1, <1>2 DEF StartOf
  <1>4. /\ Becomes(IF ~ok THEN r ELSE IF call[c] # "beginning" THEN q ELSE begun)
        /\ Ack(c, "beginning", ok)
    BY DEF HandleBegin
  <1>5. Settles(State, r) /\ Fine(r)
    <2> HIDE DEF t
    <2> QED BY <1>1, WithRouteSettles DEF Settles
  <1>6. Usable(r, t) => /\ Fine(begun) /\ begun.routes[t] # NoRoute /\ begun.routes[t].pend = Start(c)
                        /\ \A u \in Threads \ {t} : begun.routes[u] = r.routes[u]
    <2> SUFFICES ASSUME Usable(r, t)
                 PROVE  /\ Fine(begun) /\ begun.routes[t] # NoRoute /\ begun.routes[t].pend = Start(c)
                        /\ \A u \in Threads \ {t} : begun.routes[u] = r.routes[u]
      OBVIOUS
    <2>1. r.routes[t] # NoRoute
      BY DEF Usable
    <2> HIDE DEF r, t
    <2>2. begun = Begun(r, t, c)
      BY DEF Begun
    <2> HIDE DEF begun
    <2> QED
      BY <1>1, <1>5, <2>1, <2>2, BeginIs
  <1>7. \A s : Ack(c, "beginning", s) /\ Quietly
          => ack' \in [Callers -> {"none", "yes", "no"}] /\ \A d \in Callers : AckFits(d)
    BY <1>3, AckAside, QuietlyWaits
  <1> HIDE DEF r, t, begun, q, ok
  <1>8. CASE ~ok
    <2>1. Becomes(r)
      BY <1>4, <1>8
    <2>2. Quietly /\ Fine(State)'
      BY <1>5, <2>1, BecomesQuietly
    <2> QED
      BY <1>0, <1>4, <1>7, <2>2, CommandOwned
  <1>9. CASE ok /\ call[c] # "beginning"
    <2>1. Becomes(q)
      BY <1>4, <1>9
    <2>2. Usable(r, t) /\ r.routes[t] # NoRoute
      BY <1>9 DEF ok, Usable
    <2>3. /\ Settles(begun, q)
          /\ q.routes[t] # NoRoute => q.routes[t].pend # Start(c)
      BY <1>1, <1>6, <2>2, FinishSettles DEF q
    <2>4. Settles(r, q)
      BY <1>6, <2>2, <2>3 DEF Settles, Quieter
    <2>5. Settles(State, q)
      BY <1>5, <2>4, SettlesTrans
    <2>6. Quietly /\ Fine(State)'
      BY <2>1, <2>5, BecomesQuietly
    <2> QED
      BY <1>0, <1>4, <1>7, <2>6, CommandOwned
  <1>10. CASE ok /\ call[c] = "beginning"
    <2>1. Becomes(begun) /\ Usable(r, t)
      BY <1>4, <1>10 DEF ok
    <2>2. routes' = begun.routes /\ box' = begun.box
      BY <2>1 DEF Becomes
    <2>3. /\ routes'[t] # NoRoute /\ routes'[t].pend = Start(c)
          /\ \A u \in Threads \ {t} : routes'[u] = r.routes[u]
      BY <1>6, <2>1, <2>2
    <2>4. \A u \in Threads \ {t} : routes'[u] # NoRoute =>
            \/ routes'[u].pend = None /\ ~routes'[u].defer
            \/ /\ routes[u] # NoRoute
               /\ routes'[u].pend = routes[u].pend
               /\ routes'[u].defer => routes[u].defer
      BY <1>5, <2>3 DEF Settles, Quieter, State
    <2>5. \A d \in Callers \ {c} : Start(d) # Start(c)
      BY DEF Start
    <2>6. \A d \in Callers \ {c} : Waits(d)' => Waits(d)
      <3> SUFFICES ASSUME NEW d \in Callers \ {c}, NEW u \in Threads,
                          routes'[u] # NoRoute, routes'[u].pend = Start(d)
                   PROVE  Waits(d)
        BY DEF Waits, Start
      <3>1. u # t
        BY <2>3, <2>5
      <3> QED
        BY <2>4, <3>1, StartIsNotNone DEF Waits
    <2>7. /\ ack' \in [Callers -> {"none", "yes", "no"}]
          /\ \A d \in Callers \ {c} : ack'[d] = ack[d]
          /\ ack'[c] = "yes"
      BY <1>1, <1>4, <1>10, AckIs
    <2>8. \A d \in Callers : StartOf(d)'
      <3>1. ASSUME NEW d \in Callers \ {c} PROVE StartOf(d)'
        <4>1. StartOf(d)
          BY DEF RouteInv
        <4>2. AckFits(d)
          BY <2>6, <2>7, <4>1 DEF AckFits, StartOf
        <4>3. Queued(d, {"begin"})' => Queued(d, {"begin"})
          BY <1>0, <1>1, TailQueue DEF Queued
        <4>4. Queued(d, {"begin"})' => ~Waits(d)'
          BY <2>6, <4>1, <4>3 DEF StartOf
        <4> QED
          BY <1>0, <2>6, <4>2, <4>4, HeadStart
      <3>2. AckFits(c)
        BY <1>10, <2>7 DEF AckFits
      <3>3. StartOf(c)'
        BY <1>0, <1>2, <1>10, <3>2, HeadStart
      <3> QED
        BY <3>1, <3>3
    <2>9. QueueType'
      <3>1. cmds' \in Seq(CommandSet)
        BY <1>0, <1>1, TailQueue
      <3>2. Fine(State)'
        <4>1. Fine(begun)
          BY <1>6, <2>1
        <4> QED
          BY <2>2, <4>1 DEF Fine, State
      <3> QED
        BY <1>0, <2>7, <3>1, <3>2 DEF RouteInv, QueueType, EventSet, Messages, CommandSet, None, Drift
    <2>10. \A d \in Callers : Owner(d) => Owner(d)'
      BY <1>0, HeadOwner
    <2>11. PendInv'
      <3> SUFFICES ASSUME NEW u \in Threads, routes'[u] # NoRoute
                   PROVE  /\ routes'[u].defer => routes'[u].pend # None
                          /\ \A d \in Callers : routes'[u].pend = Start(d) =>
                               Thread(d) = u /\ plan[d].method = "turn/start" /\ Owner(d)'
        BY <1>0 DEF PendInv, Thread, plan, Start
      <3>1. CASE u = t
        <4>1. Owner(c)'
          BY <1>0, <1>10 DEF Owner
        <4>2. \A d \in Callers : routes'[u].pend = Start(d) => d = c
          BY <2>3, <2>5, <3>1
        <4> QED
          BY <1>3, <2>3, <3>1, <4>1, <4>2, StartIsNotNone DEF t
      <3>2. CASE u # t
        <4>1. CASE routes'[u].pend = None /\ ~routes'[u].defer
          BY <4>1, StartIsNotNone
        <4>2. CASE /\ routes[u] # NoRoute
                   /\ routes'[u].pend = routes[u].pend
                   /\ routes'[u].defer => routes[u].defer
          BY <2>10, <4>2 DEF RouteInv, PendInv
        <4> QED
          BY <2>4, <3>2, <4>1, <4>2
      <3> QED
        BY <3>1, <3>2
    <2> QED
      BY <2>8, <2>9, <2>11 DEF RouteInv
  <1> QED
    BY <1>8, <1>9, <1>10

LEMMA CommandsOwned ==
    ASSUME Inv, SubInv, RouteInv, HandleRouterCommand
    PROVE  RouteInv'
  <1> DEFINE m == Head(cmds)
  <1>1. cmds \in Seq(CommandSet) /\ cmds # <<>>
    BY DEF RouteInv, QueueType, HandleRouterCommand
  <1>2. m \in CommandSet
    BY <1>1
  <1>3. \/ m.k = "subscribe" /\ HandleSubscribe(m.s)
        \/ m.k = "unsubscribe" /\ HandleUnsubscribe(m.s)
        \/ m.k = "ensure" /\ HandleEnsure(m.c)
        \/ m.k = "begin" /\ HandleBegin(m.c)
        \/ m.k = "abort" /\ HandleAbort(m.c)
        \/ m.k = "turn" /\ HandleObserveTurn(m.c)
        \/ m.k = "thread" /\ HandleObserveThread(m.c)
        \/ m.k = "release" /\ HandleRelease(m.c)
    BY DEF HandleRouterCommand
  <1>4. /\ m.k \in {"subscribe", "unsubscribe"} => m.s \in Subs
        /\ m.k \notin {"subscribe", "unsubscribe"} => m.c \in Callers
    <2> HIDE DEF m
    <2> QED BY <1>2 DEF CommandSet
  <1> QED
    BY <1>3, <1>4, SubscribeOwned, UnsubscribeOwned, EnsureOwned, BeginOwned, AbortOwned,
       ObserveTurnOwned, ObserveThreadOwned, ReleaseOwned

LEMMA SubChanges ==
    ASSUME NEW x \in [thread : Threads, state : {"none", "asking", "on", "refused", "dropped"},
                      before : SUBSET Callers], NEW st, NEW b
    PROVE  [x EXCEPT !.state = st, !.before = b] = [thread |-> x.thread, state |-> st, before |-> b]
  <1> DEFINE y == [x EXCEPT !.state = st]
             z == [x EXCEPT !.state = st, !.before = b]
  <1>1. z = [y EXCEPT !.before = b]
    OBVIOUS
  <1>2. y = [thread |-> x.thread, state |-> st, before |-> x.before]
    OBVIOUS
  <1> HIDE DEF y, z
  <1>3. z = [thread |-> x.thread, state |-> st, before |-> b]
    BY <1>1, <1>2
  <1> QED
    BY <1>3 DEF z

LEMMA SubStays ==
    ASSUME Inv, SubInv, RouteInv, [ClientNext]_vars
    PROVE  SubInv'
  <1>1. CASE UNCHANGED sub
    BY <1>1 DEF SubInv
  <1>2. ASSUME NEW s \in Subs, Subscribe(s) \/ Unsubscribe(s) PROVE SubInv'
    BY <1>2 DEF SubInv, Subscribe, Unsubscribe
  <1>3. ASSUME NEW s \in Subs, HandleSubscribe(s) PROVE SubInv'
    <2> DEFINE b == {c \in Callers : call[c] = "idle"}
    <2>1. PICK st \in {"on", "refused"} :
            sub' = [sub EXCEPT ![s] = [sub[s] EXCEPT !.state = st, !.before = b]]
      <3>1. DOMAIN sub = Subs
        BY DEF SubInv
      <3> QED
        BY <1>3, <3>1 DEF HandleSubscribe
    <2>2. b \in SUBSET Callers
      OBVIOUS
    <2> HIDE DEF b
    <2>3. [sub[s] EXCEPT !.state = st, !.before = b]
            = [thread |-> sub[s].thread, state |-> st, before |-> b]
      <3>1. sub[s] \in [thread : Threads, state : {"none", "asking", "on", "refused", "dropped"},
                        before : SUBSET Callers]
        BY DEF SubInv
      <3> QED
        BY <3>1, SubChanges, Zenon
    <2> QED
      BY <2>1, <2>2, <2>3 DEF SubInv
  <1>4. ASSUME HandleRouterCommand PROVE UNCHANGED sub \/ \E s \in Subs : HandleSubscribe(s)
    <2> DEFINE m == Head(cmds)
    <2>1. cmds \in Seq(CommandSet) /\ cmds # <<>>
      BY <1>4 DEF RouteInv, QueueType, HandleRouterCommand
    <2>2. m \in CommandSet
      BY <2>1
    <2>3. m.k = "subscribe" => m.s \in Subs
      <3> HIDE DEF m
      <3> QED BY <2>2 DEF CommandSet
    <2>4. UNCHANGED sub \/ (m.k = "subscribe" /\ HandleSubscribe(m.s))
      BY <1>4 DEF HandleRouterCommand, HandleUnsubscribe, HandleEnsure, HandleBegin, HandleAbort,
                  HandleObserveTurn, HandleObserveThread, HandleRelease
    <2> QED
      BY <2>3, <2>4
  <1>5. \/ UNCHANGED sub \/ HandleRouterCommand
        \/ \E s \in Subs : Subscribe(s) \/ Unsubscribe(s)
    BY DEF ClientNext, vars, clientVars, RouteEvent, RouterBreaks, RouterCancels, RouterEnds, Call,
           Acknowledged, NotAcknowledged, Answered, Unanswered, Recv, Respond, Shutdown
  <1> QED
    BY <1>1, <1>2, <1>3, <1>4, <1>5

LEMMA StutterOwned ==
    ASSUME RouteInv, UNCHANGED vars
    PROVE  RouteInv'
  <1>1. UNCHANGED <<scene, call, clientVars, events, held>>
    BY DEF vars, rpcVars
  <1> QED
    BY <1>1, ConnectionOwned DEF RouteInv, QueueType

LEMMA NextOwned ==
    ASSUME Inv, SubInv, RouteInv, [ClientNext]_vars
    PROVE  RouteInv'
  <1>1. CASE UNCHANGED vars
    BY <1>1, StutterOwned
  <1>2. CASE ClientNext
    BY <1>2, RpcOwned, CommandsOwned, RouteEventOwned, RouterStopsOwned, RouterEndsOwned, CallOwned,
       AcknowledgedOwned, NotAcknowledgedOwned, AnsweredOwned, UnansweredOwned, SubscriberOwned,
       RespondOwned, ShutdownOwned DEF ClientNext
  <1> QED
    BY <1>1, <1>2

LEMMA InitOwned == ClientInit => SubInv /\ RouteInv
  <1> SUFFICES ASSUME ClientInit PROVE SubInv /\ RouteInv
    OBVIOUS
  <1>1. /\ events = <<>> /\ held = None /\ cmds = <<>> /\ ack = [c \in Callers |-> "none"]
        /\ routes = [t \in Threads |-> NoRoute] /\ call = [c \in Callers |-> "idle"]
    BY DEF ClientInit, RpcInit
  <1>2. SubInv
    BY DEF ClientInit, SubInv
  <1>3. \A t \in Threads : routes[t] = NoRoute
    BY <1>1
  <1>4. QueueType
    <2>1. Fine(State)
      BY <1>1, <1>3 DEF Fine, State
    <2> QED
      BY <1>1, <2>1 DEF QueueType
  <1>5. PendInv
    BY <1>3 DEF PendInv
  <1>6. \A c \in Callers : StartOf(c)
    BY <1>1, <1>3 DEF StartOf, Waits, Queued, QueuedIn, BeginsOnce
  <1> QED
    BY <1>2, <1>4, <1>5, <1>6 DEF RouteInv

\* A thread defers its reports only for a start that is under way: whatever is lost, late,
\* refused or repeated, somebody who will end the deferral exists, or the epoch ends
\* (begin_turn_start, finish_turn_start, PendingTurnStartGuard), for every number of calls,
\* threads and subscriptions and every capacity.
THEOREM DeferralStaysOwned == Spec => []DeferralIsOwned
  <1>1. RouteInv => DeferralIsOwned
    <2> SUFFICES ASSUME RouteInv, NEW t \in Threads, routes[t] # NoRoute,
                        routes[t].defer \/ routes[t].pend # None
                 PROVE  \/ \E c \in Callers :
                             /\ routes[t].pend = Start(c)
                             /\ \/ call[c] \in {"beginning", "calling", "observing"}
                                \/ \E i \in DOMAIN cmds : cmds[i].k \in {"abort", "turn"}
                                                        /\ cmds[i].c = c
                        \/ stop \/ router # "run" \/ conn = "lost"
      BY DEF DeferralIsOwned
    <2>1. routes[t].pend # None
      BY DEF RouteInv, PendInv
    <2>2. IsRoute(routes[t])
      BY DEF RouteInv, QueueType, Fine, State
    <2>3. PICK c \in Callers : routes[t].pend = Start(c)
      BY <2>1, <2>2 DEF IsRoute
    <2>4. Owner(c)
      BY <2>3 DEF RouteInv, PendInv
    <2> QED
      BY <2>3, <2>4 DEF Owner, Queued, QueuedIn
  <1>2. ClientInit => Inv /\ SubInv /\ RouteInv
    BY InitInv, InitOwned
  <1>3. (Inv /\ SubInv /\ RouteInv) /\ [ClientNext]_vars => (Inv /\ SubInv /\ RouteInv)'
    BY NextInv, SubStays, NextOwned
  <1> QED
    BY <1>1, <1>2, <1>3, PTL DEF Spec
=============================================================================
