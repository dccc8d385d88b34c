------------------------------ MODULE MCMedia ------------------------------
(* Instances of Media for TLC. *)
EXTENDS Media, TLC

CONSTANTS t1, t2, a, b, d, f1, f2, w1

TwoTurns == f1 :> t1 @@ f2 :> t2
Voice1 == w1 :> f2

\* Two turns that fetch the same or different contents, and one turn with a
\* voice message.
Scenes ==
  { [want |-> f1 :> a @@ f2 :> a, voice |-> {}],
    [want |-> f1 :> b @@ f2 :> d, voice |-> {}],
    [want |-> f1 :> NoContent @@ f2 :> b, voice |-> {w1}] }
=============================================================================
