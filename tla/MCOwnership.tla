---------------------------- MODULE MCOwnership ----------------------------
(***************************************************************************)
(* Adoptions on a supervisor that works, and supervisors on their own.     *)
(***************************************************************************)
EXTENDS Ownership

CONSTANTS a, b, t1, t2

Nothing == [s \in Scopes |-> NoMapping]
Silent == [s \in Scopes |-> 0]
Scene(m, o, f, ask, mis, policy, kind) ==
  [map |-> m, past |-> [s \in Scopes |-> {m[s].thread} \ {None}], open |-> o,
   faults |-> f, asked |-> ask, mishaps |-> mis, policy |-> policy, kind |-> kind]

MCScenes ==
  { Scene(Nothing, {}, 2, [Silent EXCEPT ![a] = 3], 0, "always", "sidecar"),
    Scene([Nothing EXCEPT ![b] = Mapping(t2, "bridge", 0)], {b}, 1,
          [s \in Scopes |-> 2], 0, "always", "sidecar") }
  \cup { Scene(Nothing, {}, 1, Silent, 3, policy, kind) :
           policy \in {"always", "never"}, kind \in {"native", "sidecar"} }
=============================================================================
