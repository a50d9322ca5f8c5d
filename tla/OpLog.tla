------------------------------- MODULE OpLog -------------------------------
(***************************************************************************)
(* The signed operations of package gossip and the pure functions of its  *)
(* Store on sets of them (src/gossip/store.go).                            *)
(*                                                                         *)
(* A set of operations stands for Store.ops with its two indexes: opIDs    *)
(* and authorSeqIndex are the keys of that set.  The stamp of an operation *)
(* stands for everything the author signs besides (author, seq): type,     *)
(* payload and time stamp.  Two operations signed at different moments     *)
(* have different stamps, hence different IDs.                             *)
(***************************************************************************)
EXTENDS Naturals, FiniteSets

CONSTANTS
    Node,    \* repositories, one identity each; Nat gives the order of IDs
    MaxOps,  \* BOUND: operations one identity signs
    Limit    \* operations per sync message (SyncRequest.Limit)

ASSUME NodeAssumption  == Node \subseteq Nat /\ IsFiniteSet(Node)
ASSUME BoundAssumption == MaxOps \in Nat /\ Limit \in Nat \ {0}

Operation == [author : Node, seq : 1..MaxOps, stamp : 1..MaxOps]

SummaryVector == [Node -> 0..MaxOps]

EmptySummary == [a \in Node |-> 0]

SameKey(x, y) == x.author = y.author /\ x.seq = y.seq

\* addOperationLocked takes o into S: neither o itself nor a conflicting
\* operation of the same author and sequence number is there.
Addable(S, o) == \A x \in S : ~SameKey(x, o)

\* loadOps succeeds on a log with these operations.
ConflictFree(S) == \A x, y \in S : SameKey(x, y) => x = y

SeqsOf(S, a) == {o.seq : o \in {x \in S : x.author = a}}

\* The value seqByAuthor reaches when every operation of S has been added.
Summary(S) ==
    [a \in Node |->
        IF SeqsOf(S, a) = {} THEN 0
        ELSE CHOOSE m \in SeqsOf(S, a) : \A k \in SeqsOf(S, a) : k <= m]

\* The order in which MissingFor and Ops list operations.
Precedes(x, y) ==
    \/ x.author < y.author
    \/ x.author = y.author /\ x.seq < y.seq

Newer(S, known) == {o \in S : o.seq > known[o.author]}

\* Mutants of MissingFor: the limit applied to an unsorted (here: newest
\* first) list, and an off-by-one in the comparison with the summary.
MissingForNewestFirst(S, known) ==
    {o \in Newer(S, known) :
        Cardinality({x \in Newer(S, known) : Precedes(o, x)}) < Limit}

MissingForSkipsOne(S, known) ==
    {o \in Newer(S, known) : o.seq > known[o.author] + 1}

\* The first Limit operations of S beyond the summary "known".
MissingFor(S, known) ==
    {o \in Newer(S, known) :
        Cardinality({x \in Newer(S, known) : Precedes(x, o)}) < Limit}

\* o is the next operation of a batch that is processed in listing order.
IsFirst(o, batch) == o \in batch /\ \A x \in batch : ~Precedes(x, o)

\* Every operation of S comes with all its author's earlier ones.
GapFree(S) ==
    \A o \in S : \A k \in 1..o.seq :
        \E x \in S : x.author = o.author /\ x.seq = k
=============================================================================
