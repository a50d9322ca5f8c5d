----------------------------- MODULE MCGuiFeed -----------------------------
(* Instance of GuiFeed for TLC: the first repository is on the screen and   *)
(* pushes; the second one votes and certifies.                              *)
EXTENDS GuiFeed

CONSTANTS c1, c2

PairHome == c1 :> 1 @@ c2 :> 2

\* Threshold 0.5, with voters discovered from the log or listed.
Either == {[threshold |-> 3, members |-> {}],
           [threshold |-> 3, members |-> {1, 2}]}
=============================================================================
