----------------------------- MODULE LarkSocket -----------------------------
(***************************************************************************)
(* The native inbound source (lark/transport.rs, lark/fragments.rs): one   *)
(* actor that connects, pings, reassembles fragments and runs the handler  *)
(* inline before it answers a message with its receipt.                    *)
(***************************************************************************)
EXTENDS Intake, Integers, FiniteSetsExt

CONSTANTS Pieces,      \* how many fragments a message has
          WireCap,     \* bound: frames on the wire
          MaxPartial,  \* LARK_FRAGMENT_MAX_IN_FLIGHT
          PartBytes,   \* LARK_FRAGMENT_TOTAL_BYTES, in fragments
          PingEvery, PongTimeout

ASSUME SocketBounds ==
  /\ Pieces \in [Msgs -> Nat \ {0}]
  /\ {WireCap, MaxPartial, PartBytes} \subseteq Nat \ {0}
  /\ {PingEvery, PongTimeout} \subseteq Nat

VARIABLES sock,    \* the actor: "off", "connecting", "session", "backoff", "ended"
          cap,     \* reconnect_count: -1 for no limit
          tries,   \* failures since the last connection
          linked,  \* the connection works
          watch,   \* the pong watchdog is armed
          wire,    \* frames sent and not read
          parts,   \* the fragments of each message that the reassembler holds
          aged,    \* messages whose entry is older than LARK_FRAGMENT_TTL
          bytes,   \* total_bytes of the reassembler
          quit     \* the shutdown token

sockVars == <<sock, cap, tries, linked, watch, wire, parts, aged, bytes, quit>>

\* handle_data waits for the handler inline: one call at a time.
Inline == Min(Slots)
Entries == {m \in Msgs : parts[m] # {}}

\* A fresh session: Reassembler::new, and the first ping arms the watchdog.
Opened ==
  /\ linked' = TRUE /\ watch' = TRUE
  /\ wire' = <<>> /\ parts' = [m \in Msgs |-> {}] /\ aged' = {} /\ bytes' = 0

\* connect_once and what run makes of it: a definitive answer or too many failures
\* end the transport.
SockConnect ==
  /\ sock = "connecting"
  /\ \/ /\ Calm /\ sock' = "session" /\ tries' = 0
        /\ Opened
     \/ /\ Fault
        /\ tries' = tries + 1
        /\ sock' = IF cap >= 0 /\ tries + 1 >= cap THEN "ended" ELSE "backoff"
        /\ UNCHANGED <<linked, watch, wire, parts, aged, bytes>>
     \/ /\ Fault /\ sock' = "ended"
        /\ UNCHANGED <<tries, linked, watch, wire, parts, aged, bytes>>
  /\ UNCHANGED <<kind, row, inq, held, missed, jobs, calls, told, bridge, cap, quit>>

SockBackoff ==
  /\ sock = "backoff"
  /\ sock' = IF quit THEN "ended" ELSE "connecting"
  /\ UNCHANGED <<intakeVars, cap, tries, linked, watch, wire, parts, aged, bytes, quit>>

\* The platform sends a fragment of a message it has no success for.
SockOffer(m, k) ==
  /\ sock = "session" /\ linked /\ m \notin told /\ Len(wire) < WireCap
  /\ wire' = Append(wire, [msg |-> m, seq |-> k])
  /\ UNCHANGED <<intakeVars, sock, cap, tries, linked, watch, parts, aged, bytes, quit>>

LinkLost ==
  /\ sock = "session" /\ linked /\ Fault
  /\ linked' = FALSE /\ wire' = <<>>
  /\ UNCHANGED <<kind, row, inq, held, missed, jobs, calls, told, bridge,
                 sock, cap, tries, watch, parts, aged, bytes, quit>>

\* A fragment may come too late; an entry nobody continues always grows old.
FragmentAges ==
  /\ sock = "session"
  /\ \E m \in Entries \ aged :
       /\ aged' = aged \cup {m}
       /\ IF m \in told THEN Calm ELSE Fault
  /\ UNCHANGED <<kind, row, inq, held, missed, jobs, calls, told, bridge,
                 sock, cap, tries, linked, watch, wire, parts, bytes, quit>>

\* sweep and ingest: the entries and bytes after a fragment, and whether its message
\* is complete.  A fragment that makes its message too long, or gives it another
\* number of pieces, is refused like a repeated one and is left out.
Swept == [m \in Msgs |-> IF m \in aged THEN {} ELSE parts[m]]
\* Mutant: what expires is dropped and not subtracted.
SweptBytesLeak == bytes
SweptBytes == bytes - FoldSet(LAMBDA m, n : n + Cardinality(parts[m]), 0, aged)
Accepts(f) ==
  /\ f.msg \notin aged
  /\ SweptBytes + 1 <= PartBytes
  /\ Swept[f.msg] # {} \/ Cardinality(Entries \ aged) < MaxPartial
  /\ f.seq \notin Swept[f.msg]
Completes(f) == Cardinality(Swept[f.msg]) + 1 = Pieces[f.msg]
Ingest(f) ==
  /\ aged' = {}
  /\ IF Accepts(f)
       THEN /\ parts' = [Swept EXCEPT ![f.msg] = IF Completes(f) THEN {} ELSE @ \cup {f.seq}]
            /\ bytes' = IF Completes(f) THEN SweptBytes - Cardinality(Swept[f.msg])
                                        ELSE SweptBytes + 1
       ELSE parts' = Swept /\ bytes' = SweptBytes

\* handle_frame: any frame quiets the watchdog; a complete message goes to the
\* handler, a rejected fragment to nobody, and there is no receipt for either.
SockRead ==
  /\ sock = "session" /\ At(Inline, "idle") /\ ~ quit /\ wire # <<>>
  /\ watch' = FALSE /\ wire' = Tail(wire)
  /\ LET f == Head(wire) IN
       /\ IF Pieces[f.msg] = 1
            THEN aged' = {} /\ parts' = Swept /\ bytes' = SweptBytes
            ELSE Ingest(f)
       /\ IF Pieces[f.msg] = 1 \/ (Accepts(f) /\ Completes(f))
            THEN Become(Inline, Begun(f.msg))
            ELSE UNCHANGED calls
  /\ UNCHANGED <<kind, row, inq, held, missed, jobs, told, bridge, faults,
                 sock, cap, tries, linked, quit>>

\* build_receipt: code 200 or 500, if the socket still takes it.
SockReceipt ==
  /\ sock = "session" /\ calls[Inline].at \in {"ok", "failed"}
  /\ told' = IF linked /\ At(Inline, "ok") THEN told \cup {calls[Inline].msg} ELSE told
  /\ Become(Inline, NoCall)
  /\ UNCHANGED <<kind, row, inq, held, missed, jobs, bridge, faults, sockVars>>

\* next_ping comes before the watchdog, and arms it anew.
SockPing ==
  /\ sock = "session" /\ At(Inline, "idle") /\ ~ quit /\ ~ watch
  /\ watch' = TRUE
  /\ UNCHANGED <<intakeVars, sock, cap, tries, linked, wire, parts, aged, bytes, quit>>

\* A dead connection is noticed by the watchdog - if pings are rarer than its
\* timeout - and the session starts over; an authentication error ends it.
SockLeaves ==
  /\ sock = "session" /\ At(Inline, "idle")
  /\ \/ /\ ~ linked /\ ~ quit /\ watch /\ PingEvery > PongTimeout /\ Calm
        /\ sock' = "backoff"
     \/ /\ linked /\ ~ quit /\ Fault /\ sock' = "ended"
     \/ /\ quit /\ Calm /\ sock' = "ended"
  /\ UNCHANGED <<kind, row, inq, held, missed, jobs, calls, told, bridge,
                 cap, tries, linked, watch, wire, parts, aged, bytes, quit>>

\* TransportHandle::shutdown: the task is aborted after its grace, with its handler.
SockAbort ==
  /\ quit /\ (sock = "connecting" \/ ~ At(Inline, "idle"))
  /\ sock' = "ended"
  /\ jobs' = Left(Slots) /\ calls' = Dropped(Slots)
  /\ UNCHANGED <<kind, row, inq, held, missed, told, bridge, faults,
                 cap, tries, linked, watch, wire, parts, aged, bytes, quit>>

SockStep ==
  SockConnect \/ SockBackoff \/ SockRead \/ SockReceipt \/ SockPing \/ SockLeaves \/ SockAbort

SockInit(c) ==
  /\ sock = "off" /\ cap = c /\ tries = 0 /\ linked = FALSE /\ watch = FALSE
  /\ wire = <<>> /\ parts = [m \in Msgs |-> {}] /\ aged = {} /\ bytes = 0 /\ quit = FALSE

(***************************************************************************)
(* Properties.                                                             *)
(***************************************************************************)

\* The reassembler counts exactly what it holds, within its bounds, and never holds
\* a whole message: fragments that repeat, come out of order, expire or are
\* abandoned half way leak neither bytes nor entries, which would end in a
\* reassembler that rejects every fragmented message.
FragmentsAccounted ==
  /\ bytes = FoldSet(LAMBDA m, n : n + Cardinality(parts[m]), 0, Entries)
  /\ bytes <= PartBytes
  /\ Cardinality(Entries) <= MaxPartial
  /\ \A m \in Entries : Cardinality(parts[m]) < Pieces[m]
=============================================================================
