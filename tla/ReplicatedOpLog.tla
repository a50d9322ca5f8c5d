-------------------------- MODULE ReplicatedOpLog --------------------------
(***************************************************************************)
(* What the gossip layer promises of the ops.log of every repository: an   *)
(* author's log only ever grows by the author's next operation, and every  *)
(* other repository holds, for each author, a prefix of what the author    *)
(* wrote.  Processes, memory, requests and summaries are not visible here. *)
(***************************************************************************)
EXTENDS OpLog

VARIABLE known   \* known[n]: the operations repository n holds durably

\* o is the next operation of its author for a repository that holds S.
Extends(S, o) ==
    /\ Addable(S, o)
    /\ \A k \in 1..(o.seq - 1) : \E x \in S : x.author = o.author /\ x.seq = k

Init == known = [n \in Node |-> {}]

Append(n) ==
    \E o \in Operation :
        /\ o.author = n
        /\ Extends(known[n], o)
        /\ known' = [known EXCEPT ![n] = @ \cup {o}]

Replicate(n, m) ==
    \E o \in known[m] :
        /\ Extends(known[n], o)
        /\ known' = [known EXCEPT ![n] = @ \cup {o}]

Next ==
    \/ \E n \in Node : Append(n)
    \/ \E n, m \in Node : Replicate(n, m)

Spec == Init /\ [][Next]_known
=============================================================================
