---------------------------- MODULE MCPushQueue ----------------------------
(* Instances of PushQueue for TLC.                                          *)
EXTENDS PushQueue, TLC

CONSTANTS c1, c2

PairHome == c1 :> 1 @@ c2 :> 2
AloneHome == c1 :> 1

\* Thresholds in sixths: 3 is the default 0.5, 4 stands for 0.67.
Discovered == {[threshold |-> 3, members |-> {}]}
Explicit == {[threshold |-> 3, members |-> {1, 2}]}
Changing == {[threshold |-> 3, members |-> {1, 2}],
             [threshold |-> 4, members |-> {}]}
=============================================================================
