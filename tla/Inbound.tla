------------------------------ MODULE Inbound ------------------------------
(***************************************************************************)
(* The bridge's inbound side in one process: the durable intake, behind it *)
(* the driver of app.rs, and before it one of the two sources.  The        *)
(* process can be stopped, can fail and can crash at any point, and is     *)
(* started again on the same store.                                        *)
(***************************************************************************)
EXTENDS ChannelSidecar, LarkSocket

CONSTANT Scenes   \* bounds: the source, the messages, those delivered long ago, the faults

\* The store is empty at first, so that only what is never kept was acknowledged before;
\* and the sidecar has the capacities app.rs gives it, more for frames than for events
\* (NodeSidecarConfig::default: 128 and 64).
ASSUME ScenesAssumption ==
  \A c \in Scenes :
    /\ \A m \in c.told : m \in Msgs /\ c.kind[m] = "foreign"
    /\ {c.bounds.event, c.bounds.write} \subseteq Nat /\ c.bounds.event < c.bounds.write

VARIABLE source
inVars == <<intakeVars, sideVars, sockVars, source>>

Sidecar == source = "sidecar"
Ended == IF Sidecar THEN sup = "ended" ELSE sock = "ended"

\* start_inbound, on what a former life left in the store.
Start ==
  /\ bridge = "down" /\ node = "none"
  /\ Prepared
  /\ IF Sidecar
       THEN /\ sup' = "spawn" /\ first' = TRUE /\ stop' = FALSE
            /\ UNCHANGED <<sock, tries, quit>>
       ELSE /\ sock' = "connecting" /\ tries' = 0 /\ quit' = FALSE
            /\ UNCHANGED <<sup, first, stop>>
  /\ UNCHANGED <<kind, row, held, missed, jobs, calls, told, faults, source, procVars,
                 why, writes, evq, ids, worker, bounds, cap, linked, watch, wire, parts, aged, bytes>>

\* Mutant: the bridge keeps a sender of its own, and the channel never ends.
SourceGoneAtStart == Ended /\ Sidecar /\ first
SourceGone == Ended /\ (inq = <<>> \/ (Sidecar /\ first))

\* drive_inbound ends: a shutdown signal, a router that failed, or - once the
\* source is gone and with it the last sender - the end of the channel; or the
\* source could not be started at all.
Close ==
  /\ bridge = "up"
  /\ \/ SourceGone /\ Calm
     \/ (Sidecar => ~ first) /\ Fault
  /\ bridge' = "closing"
  /\ stop' = Sidecar /\ quit' = ~ Sidecar
  /\ inq' = <<>>
  /\ UNCHANGED <<kind, row, held, missed, jobs, calls, told, source, procVars,
                 sup, why, first, writes, evq, ids, worker, bounds,
                 sock, cap, tries, linked, watch, wire, parts, aged, bytes>>

\* The router and the store are shut down after the source.
Down ==
  /\ bridge = "closing" /\ Ended /\ jobs = {}
  /\ bridge' = "down"
  /\ Forgets
  /\ UNCHANGED <<kind, row, told, faults, source, sideVars, sockVars>>

\* The process is killed.
Crash ==
  /\ bridge \in {"up", "closing"} /\ Fault
  /\ bridge' = "down"
  /\ Forgets
  /\ Orphaned
  /\ up' = <<>> /\ writes' = <<>> /\ evq' = <<>> /\ ids' = {} /\ worker' = FALSE
  /\ sup' = "ended" /\ stop' = FALSE
  /\ sock' = "off" /\ linked' = FALSE /\ wire' = <<>> /\ quit' = FALSE
  /\ parts' = [m \in Msgs |-> {}] /\ aged' = {} /\ bytes' = 0
  /\ UNCHANGED <<kind, row, told, source, why, first, bounds, cap, tries, watch>>

Driver == (Sidecar => ~ first) /\ Route

InInit ==
  /\ IntakeInit
  /\ \E c \in Scenes :
       /\ source = c.source /\ kind = c.kind /\ told = c.told /\ faults = c.faults
       /\ SideInit("ended", c.bounds) /\ SockInit(c.cap)

Quiet == UNCHANGED <<sideVars, sockVars, source>>
SideOnly == UNCHANGED <<sockVars, source>>
SockOnly == UNCHANGED <<sideVars, source>>

Serve(i) == (HandlerStep(i) \/ HandlerFault(i)) /\ Quiet
Settle == (LateRegister \/ Driver \/ Take) /\ Quiet
Drop == Miss /\ Quiet
Deliver(m, k) ==
  \/ Sidecar /\ k = 0 /\ Offer(m) /\ SideOnly
  \/ ~ Sidecar /\ SockOffer(m, k) /\ SockOnly
NodeProcess == Sidecar /\ (NodeStep \/ NodeFault \/ NodeExits) /\ SideOnly
Session ==
  Sidecar /\ (WorkerStep \/ WriterSends \/ SessionStep \/ BootTimeout \/ Abort) /\ SideOnly
Socket == ~ Sidecar /\ (SockStep \/ LinkLost \/ FragmentAges) /\ SockOnly

InNext ==
  \/ \E i \in Slots : Serve(i)
  \/ Settle \/ Drop
  \/ \E m \in Msgs : \E k \in 0..(Pieces[m] - 1) : Deliver(m, k)
  \/ NodeProcess \/ Session \/ Socket
  \/ Start \/ Close \/ Down \/ Crash

\* Tasks and processes that can run do; deadlines pass; the platform keeps offering
\* every message it has no success for, whatever else it offers between.
InFairness ==
  /\ WF_inVars(\E i \in Slots : HandlerStep(i) /\ Quiet)
  /\ WF_inVars(Settle)
  /\ \A m \in Msgs : \A k \in 0..(Pieces[m] - 1) : SF_inVars(Deliver(m, k))
  /\ WF_inVars(Sidecar /\ (NodeStep \/ NodeExits) /\ SideOnly)
  /\ WF_inVars(Sidecar /\ WorkerStep /\ SideOnly)
  /\ WF_inVars(Sidecar /\ WriterSends /\ SideOnly)
  /\ WF_inVars(Sidecar /\ SessionStep /\ SideOnly)
  /\ WF_inVars(Sidecar /\ Unannounced /\ BootTimeout /\ SideOnly)
  /\ WF_inVars(~ Sidecar /\ SockStep /\ SockOnly)
  /\ WF_inVars(~ Sidecar /\ FragmentAges /\ SockOnly)
  /\ WF_inVars(Close) /\ WF_inVars(Down)

InSpec == InInit /\ [][InNext]_inVars /\ InFairness

(***************************************************************************)
(* Properties.                                                             *)
(***************************************************************************)

\* Every place of the ledger is taken by a message whose copy was dropped.
Filled == Cardinality(Received) >= ReceivedMax /\ Received \subseteq missed

\* Whatever the platform goes on offering, and can be parsed, gets its success receipt,
\* or the bridge comes to its end, where its service manager sees it: no crash of Node,
\* no late acknowledgement, full queue, worker that has ended, dead connection, half
\* message or message that is refused for ever leaves the bridge up and deaf.  The
\* code has one way to that: dropped copies that fill the ledger.
NeverDeaf ==
  \A m \in Msgs :
    bridge = "up" /\ ~ Malformed(m) ~> m \in told \/ bridge = "down" \/ Filled
=============================================================================
