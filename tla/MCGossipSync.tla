---------------------------- MODULE MCGossipSync ----------------------------
(* Instances of GossipSync for TLC.                                         *)
EXTENDS GossipSync, TLC

CONSTANTS d1, d2, c1, c3

\* Pair: two repositories with a daemon each; the first has a command line.
PairStore == {d1, d2, c1}
PairDaemon == {d1, d2}
PairHome == d1 :> 1 @@ d2 :> 2 @@ c1 :> 1
PairPeers == 1 :> {d2} @@ 2 :> {d1}
\* Only the first daemon has the other in its peers file.
OneWayPeers == 1 :> {d2} @@ 2 :> {}

\* Hub: commands in repositories 1 and 3 sync with the daemon of 2, which
\* has no peers itself.
HubStore == {c1, d2, c3}
HubDaemon == {d2}
HubHome == c1 :> 1 @@ d2 :> 2 @@ c3 :> 3
HubPeers == 1 :> {d2} @@ 2 :> {} @@ 3 :> {d2}

\* Connections are interchangeable.
ConnSymmetry == Permutations(Conn)
=============================================================================
