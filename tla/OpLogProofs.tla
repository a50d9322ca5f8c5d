---------------------------- MODULE OpLogProofs ----------------------------
(***************************************************************************)
(* Facts about the functions of OpLog, for every set of operations.        *)
(***************************************************************************)
EXTENDS OpLog, TLAPS, WellFoundedInduction, FiniteSetTheorems

\* A nonempty set of bounded natural numbers has a greatest element: the
\* highest sequence number exists.
LEMMA GreatestExists ==
    ASSUME NEW b \in Nat, NEW T \in SUBSET (0..b), T # {}
    PROVE  \E m \in T : \A k \in T : k <= m
<1> DEFINE U == {b - k : k \in T}
<1>1. U \subseteq Nat /\ U # {}
  <2>1. \A k \in T : b - k \in Nat
    OBVIOUS
  <2>2. PICK t \in T : TRUE
    OBVIOUS
  <2>3. b - t \in U
    BY <2>2
  <2> QED
    BY <2>1, <2>3
<1>2. PICK u \in U : \A v \in U : ~(<<v, u>> \in OpToRel(<, Nat))
  BY <1>1, NatLessThanWellFounded, WFMin
<1>3. \A v \in U : ~(v < u)
  BY <1>1, <1>2 DEF OpToRel
<1>4. PICK m \in T : u = b - m
  BY <1>2
<1>5. \A k \in T : k <= m
  <2> SUFFICES ASSUME NEW k \in T PROVE k <= m
    OBVIOUS
  <2>1. b - k \in U
    OBVIOUS
  <2>2. ~(b - k < b - m)
    BY <2>1, <1>3, <1>4
  <2> QED
    BY <2>2
<1> QED
  BY <1>5

\* Authors and sequence numbers are natural numbers.
LEMMA OperationFields ==
    ASSUME NEW o \in Operation
    PROVE  /\ o.author \in Node /\ o.author \in Nat
           /\ o.seq \in 1..MaxOps /\ o.seq \in Nat
<1>1. o.author \in Node /\ o.seq \in 1..MaxOps
  BY DEF Operation
<1>2. 1..MaxOps \subseteq Nat
  BY BoundAssumption
<1> QED
  BY <1>1, <1>2, NodeAssumption

\* The summary of a set of records with author and sequence number is a
\* vector, and each entry is zero or the number of an operation in the set,
\* above which there is none.
LEMMA SummaryBounds ==
    ASSUME NEW S, \A o \in S : o.author \in Node /\ o.seq \in 1..MaxOps
    PROVE  /\ Summary(S) \in SummaryVector
           /\ \A o \in S : o.seq <= Summary(S)[o.author]
           /\ \A a \in Node : \/ Summary(S)[a] = 0
                              \/ \E o \in S : o.author = a /\ o.seq = Summary(S)[a]
<1>1. \A a \in Node : SeqsOf(S, a) \in SUBSET (0..MaxOps)
  BY BoundAssumption DEF SeqsOf
<1>2. ASSUME NEW a \in Node, SeqsOf(S, a) # {}
      PROVE  /\ Summary(S)[a] \in SeqsOf(S, a)
             /\ \A k \in SeqsOf(S, a) : k <= Summary(S)[a]
  <2>1. \E m \in SeqsOf(S, a) : \A k \in SeqsOf(S, a) : k <= m
    BY <1>1, <1>2, BoundAssumption, GreatestExists
  <2>2. Summary(S)[a] = CHOOSE m \in SeqsOf(S, a) : \A k \in SeqsOf(S, a) : k <= m
    BY <1>2 DEF Summary
  <2> QED
    BY <2>1, <2>2
<1>3. \A a \in Node : SeqsOf(S, a) = {} => Summary(S)[a] = 0
  BY DEF Summary
<1>4. Summary(S) \in SummaryVector
  <2>1. \A a \in Node : Summary(S)[a] \in 0..MaxOps
    BY <1>1, <1>2, <1>3, BoundAssumption
  <2>2. Summary(S) = [a \in Node |-> Summary(S)[a]]
    BY DEF Summary
  <2> QED
    BY <2>1, <2>2 DEF SummaryVector
<1>5. ASSUME NEW o \in S PROVE o.seq <= Summary(S)[o.author]
  <2>1. o.author \in Node /\ o.seq \in SeqsOf(S, o.author)
    BY DEF SeqsOf
  <2> QED
    BY <2>1, <1>2
<1>6. ASSUME NEW a \in Node, Summary(S)[a] # 0
      PROVE  \E o \in S : o.author = a /\ o.seq = Summary(S)[a]
  <2>1. Summary(S)[a] \in SeqsOf(S, a)
    BY <1>2, <1>3, <1>6
  <2> QED
    BY <2>1 DEF SeqsOf
<1> QED
  BY <1>4, <1>5, <1>6

\* The same for operations.
LEMMA SummaryFacts ==
    ASSUME NEW S \in SUBSET Operation
    PROVE  /\ Summary(S) \in SummaryVector
           /\ \A o \in S : o.seq <= Summary(S)[o.author]
           /\ \A a \in Node : \/ Summary(S)[a] = 0
                              \/ \E o \in S : o.author = a /\ o.seq = Summary(S)[a]
<1>1. \A o \in S : o.author \in Node /\ o.seq \in 1..MaxOps
  BY OperationFields
<1> QED
  BY <1>1, SummaryBounds

\* An answer holds operations of the store only, all beyond the summary.
LEMMA MissingForSubset ==
    ASSUME NEW S, NEW known
    PROVE  /\ MissingFor(S, known) \subseteq S
           /\ \A o \in MissingFor(S, known) : o.seq > known[o.author]
  BY DEF MissingFor, Newer

\* Where the limit cuts an answer off, it never leaves out an operation and
\* keeps a later one of the same author.
LEMMA MissingForDownClosed ==
    ASSUME NEW S \in SUBSET Operation, NEW known \in SummaryVector,
           NEW o \in MissingFor(S, known), NEW x \in S,
           x.author = o.author, x.seq < o.seq, known[x.author] < x.seq
    PROVE  x \in MissingFor(S, known)
<1> DEFINE N == Newer(S, known)
           Below(y) == {z \in N : Precedes(z, y)}
<1>1. x \in N /\ o \in N /\ N \subseteq Operation
  BY DEF MissingFor, Newer
<1>2. IsFiniteSet(Operation)
  <2>1. IsFiniteSet(1..MaxOps)
    BY FS_Interval, BoundAssumption
  <2>2. IsFiniteSet(Node \X (1..MaxOps))
    BY <2>1, NodeAssumption, FS_Product
  <2>3. IsFiniteSet((Node \X (1..MaxOps)) \X (1..MaxOps))
    BY <2>1, <2>2, FS_Product
  <2> DEFINE Pack(t) == [author |-> t[1][1], seq |-> t[1][2], stamp |-> t[2]]
             T == (Node \X (1..MaxOps)) \X (1..MaxOps)
             f == [t \in T |-> Pack(t)]
  <2>4. f \in Surjection(T, Operation)
    <3>1. f \in [T -> Operation]
      BY DEF Operation
    <3>2. ASSUME NEW y \in Operation PROVE \E t \in T : f[t] = y
      <4>1. <<<<y.author, y.seq>>, y.stamp>> \in T
        BY DEF Operation
      <4>2. f[<<<<y.author, y.seq>>, y.stamp>>] = y
        BY <4>1 DEF Operation
      <4> QED
        BY <4>1, <4>2
    <3> QED
      BY <3>1, <3>2 DEF Surjection
  <2> QED
    BY <2>3, <2>4, FS_Surjection
<1>3. IsFiniteSet(Below(o))
  BY <1>1, <1>2, FS_Subset
<1>4. Below(x) \subseteq Below(o)
  <2> SUFFICES ASSUME NEW z \in N, Precedes(z, x) PROVE Precedes(z, o)
    OBVIOUS
  <2>1. /\ z.author \in Nat /\ x.author \in Nat
        /\ z.seq \in Nat /\ x.seq \in Nat /\ o.seq \in Nat
    BY <1>1, OperationFields
  <2> QED
    BY <2>1 DEF Precedes
<1>5. /\ Cardinality(Below(x)) \in Nat /\ Cardinality(Below(o)) \in Nat
      /\ Cardinality(Below(x)) <= Cardinality(Below(o))
  <2>1. IsFiniteSet(Below(x))
    BY <1>3, <1>4, FS_Subset
  <2> QED
    BY <1>3, <1>4, <2>1, FS_Subset, FS_CardinalityType
<1>6. Cardinality(Below(o)) < Limit
  BY DEF MissingFor
<1>7. Cardinality(Below(x)) < Limit
  BY <1>5, <1>6, BoundAssumption
<1> QED
  BY <1>1, <1>7 DEF MissingFor

\* Whatever is left to process, one operation comes first in listing order.
LEMMA FirstExists ==
    ASSUME NEW batch \in SUBSET Operation, batch # {}
    PROVE  \E o \in batch : IsFirst(o, batch)
<1> DEFINE Least(U) == \E u \in U : \A v \in U : ~(v < u)
<1>1. ASSUME NEW U \in SUBSET Nat, U # {} PROVE Least(U)
  <2>1. PICK u \in U : \A v \in U : ~(<<v, u>> \in OpToRel(<, Nat))
    BY <1>1, NatLessThanWellFounded, WFMin
  <2>2. \A v \in U : ~(v < u)
    BY <2>1 DEF OpToRel
  <2> QED
    BY <2>2
<1> DEFINE authors == {x.author : x \in batch}
<1>2. authors \in SUBSET Nat /\ authors # {}
  BY OperationFields
<1>3. PICK a \in authors : \A v \in authors : ~(v < a)
  BY <1>1, <1>2
<1> DEFINE seqs == {x.seq : x \in {y \in batch : y.author = a}}
<1>4. seqs \in SUBSET Nat /\ seqs # {}
  BY <1>3, OperationFields
<1>5. PICK k \in seqs : \A v \in seqs : ~(v < k)
  BY <1>1, <1>4
<1>6. PICK o \in batch : o.author = a /\ o.seq = k
  BY <1>5
<1>7. ASSUME NEW x \in batch PROVE ~Precedes(x, o)
  <2>1. ~(x.author < a)
    BY <1>3
  <2>2. x.author = a => ~(x.seq < k)
    BY <1>5
  <2> QED
    BY <1>6, <2>1, <2>2 DEF Precedes
<1> QED
  BY <1>6, <1>7 DEF IsFirst

\* However small the limit, an answer is empty only if there is nothing the
\* summary does not cover.
LEMMA MissingForNonempty ==
    ASSUME NEW S \in SUBSET Operation, NEW known, Newer(S, known) # {}
    PROVE  MissingFor(S, known) # {}
<1>1. Newer(S, known) \in SUBSET Operation
  BY DEF Newer
<1>2. PICK o \in Newer(S, known) : IsFirst(o, Newer(S, known))
  BY <1>1, FirstExists
<1>3. {x \in Newer(S, known) : Precedes(x, o)} = {}
  BY <1>2 DEF IsFirst
<1>4. Cardinality({x \in Newer(S, known) : Precedes(x, o)}) < Limit
  BY <1>3, FS_EmptySet, BoundAssumption
<1> QED
  BY <1>4 DEF MissingFor
=============================================================================
