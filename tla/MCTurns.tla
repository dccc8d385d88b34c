------------------------------- MODULE MCTurns -------------------------------
(***************************************************************************)
(* Instances of Turns for TLC.  m1, m2, m3 are messages; "m1b" is m1 under *)
(* a second event id.                                                      *)
(***************************************************************************)
EXTENDS Turns

Texts == {"m1", "m2"}
Repeated == {"m1", "m1b", "m2", "m3"}
Four == {"m1", "m2", "m3", "m4"}
FourAgain == Four \cup {"m1b"}

OneScope == [e \in Event |-> "a"]
TwoScopes == [e \in Event |-> IF e = "m2" THEN "b" ELSE "a"]

Own == [e \in Event |-> e]
Shared == [e \in Event |-> IF e = "m1b" THEN "m1" ELSE e]

AllText == [e \in Event |-> "text"]
TextAndCommand == [e \in Event |-> CASE e = "m2" -> "new" [] e = "m3" -> "ignored"
                                    [] OTHER -> "text"]
Mixed == [e \in Event |-> CASE e = "m2" -> "alone" [] e = "m3" -> "stop"
                           [] e = "m4" -> "media" [] OTHER -> "text"]
TextAndResume == [e \in Event |-> IF e = "m4" THEN "resume" ELSE "text"]

AllFaults == FaultKinds
LiveFaults == FaultKinds \ {"store", "sink", "lag"}
=============================================================================
