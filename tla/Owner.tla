------------------------------- MODULE Owner -------------------------------
(***************************************************************************)
(* What the owner of an app-server promises to those who rely on it: there *)
(* is never a second process tree beside one that may be alive, no client  *)
(* is given out while a tree is replaced, and a shutdown that succeeds     *)
(* means that nothing is left.                                             *)
(***************************************************************************)
EXTENDS Naturals

VARIABLES alive,    \* process trees that may be alive
          serving,  \* a client is given out
          verdict   \* what shutdown returned: "none", "ok", "failed"

ownerVars == <<alive, serving, verdict>>

OwnerInit == alive = 0 /\ ~ serving /\ verdict = "none"

Spawn == alive = 0 /\ ~ serving /\ verdict = "none" /\ alive' = 1 /\ UNCHANGED <<serving, verdict>>
Die == alive = 1 /\ alive' = 0 /\ UNCHANGED <<serving, verdict>>
Serve == ~ serving /\ serving' /\ verdict = "none" /\ UNCHANGED <<alive, verdict>>
Withdraw == serving /\ ~ serving' /\ UNCHANGED <<alive, verdict>>
Return ==
  /\ verdict = "none" /\ ~ serving
  /\ verdict' \in {"ok", "failed"}
  /\ verdict' = "ok" => alive = 0
  /\ UNCHANGED <<alive, serving>>

\* The bridge itself is started anew.
NewLife == alive' = 0 /\ ~ serving' /\ verdict' = "none"

OwnerNext == Spawn \/ Die \/ Serve \/ Withdraw \/ Return \/ NewLife

OwnerSpec == OwnerInit /\ [][OwnerNext]_ownerVars
=============================================================================
