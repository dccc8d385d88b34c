----------------------------- MODULE MCInbound -----------------------------
(***************************************************************************)
(* Two messages through either source.                                     *)
(***************************************************************************)
EXTENDS Inbound, TLC

CONSTANTS m1, m2

Narrow == [event |-> 1, write |-> 2]
Wide == [event |-> 2, write |-> 3]
Scene(s, b, k1, k2, t, f, c) ==
  [source |-> s, bounds |-> b, kind |-> (m1 :> k1 @@ m2 :> k2), told |-> t,
   faults |-> f, cap |-> c]

MCPieces == (m1 :> 2 @@ m2 :> 1)

MCScenes ==
  { Scene("sidecar", Wide, "plain", "foreign", {}, 0, -1),
    Scene("sidecar", Narrow, "topic", "plain", {}, 1, -1),
    Scene("sidecar", Narrow, "plain", "malformed", {}, 1, -1),
    Scene("sidecar", Narrow, "plain", "foreign", {m2}, 2, -1),
    Scene("socket", Narrow, "plain", "malformed", {}, 1, 1),
    Scene("socket", Narrow, "plain", "plain", {}, 1, -1),
    Scene("socket", Narrow, "topic", "foreign", {m2}, 2, -1) }
=============================================================================
