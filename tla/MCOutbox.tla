------------------------------ MODULE MCOutbox ------------------------------
(***************************************************************************)
(* Instances of Outbox for TLC.  "p" is a progress card, "u" an update of  *)
(* it, "f" the finalize of it, "g" the second part of the same answer and  *)
(* "bad" a row an older version wrote.                                     *)
(***************************************************************************)
EXTENDS Outbox

CardKeys == {"p", "u", "f"}
AnswerKeys == {"p", "f", "g"}
TableKeys == {"p", "u", "f", "bad"}
Ops5 == [p |-> "progress", u |-> "update", f |-> "finalize", g |-> "reply",
         bad |-> "undecodable"]
CardOps == [k \in Key |-> Ops5[k]]
CardAnchors == [k \in Key |-> "p"]
CardBytes == [k \in Key |-> IF k = "f" THEN 2 ELSE 1]
AnswerPair == {<<"f", "g">>}

NoPairs == {}
OneByte == [k \in Key |-> 1]
=============================================================================
