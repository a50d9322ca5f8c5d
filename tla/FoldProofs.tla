----------------------------- MODULE FoldProofs -----------------------------
(***************************************************************************)
(* The loops of the front end over lines, characters and operations are    *)
(* folds.  FoldLeft is defined by a recursive function on the sets of      *)
(* indices; here is what turns it into a run, the value after each element *)
(* of the sequence, that one can do an induction over.                     *)
(***************************************************************************)
EXTENDS Integers, SequencesExt, TLAPS, WellFoundedInduction

-----------------------------------------------------------------------------
(* Induction over the numbers up to n, for a set of good numbers.          *)

LEMMA InductUpTo ==
    ASSUME NEW n \in Nat, NEW good, 0 \in good,
           \A i \in 1..n : i - 1 \in good => i \in good
    PROVE  0..n \subseteq good
<1> DEFINE bad == (0..n) \ good
<1> SUFFICES ASSUME bad # {} PROVE FALSE
  OBVIOUS
<1>1. bad \subseteq Nat
  OBVIOUS
<1>2. PICK u \in bad : \A v \in bad : ~(<<v, u>> \in OpToRel(<, Nat))
  BY <1>1, NatLessThanWellFounded, WFMin
<1>3. \A v \in bad : ~(v < u)
  BY <1>1, <1>2 DEF OpToRel
<1>4. u \in 1..n /\ u - 1 \in 0..n /\ u - 1 < u
  OBVIOUS
<1>5. u - 1 \notin bad
  BY <1>3, <1>4
<1>6. u - 1 \in good
  BY <1>4, <1>5
<1> QED
  BY <1>4, <1>6

\* A nonempty set of numbers up to n has a greatest element.
LEMMA MaxUpTo ==
    ASSUME NEW n \in Nat, NEW t \in SUBSET (1..n), t # {}
    PROVE  /\ Max(t) \in t
           /\ \A k \in t : k <= Max(t)
<1> DEFINE good == {i \in Nat : \A u \in SUBSET (1..i) :
                        u # {} => \E m \in u : \A k \in u : k <= m}
<1>1. 0 \in good
  <2>1. \A u : u \subseteq 1..0 => u = {}
    OBVIOUS
  <2> QED
    BY <2>1
<1>2. ASSUME NEW i \in 1..n, i - 1 \in good PROVE i \in good
  <2>1. ASSUME NEW u \in SUBSET (1..i), u # {}
        PROVE  \E m \in u : \A k \in u : k <= m
    <3>1. CASE i \in u
      BY <3>1
    <3>2. CASE i \notin u
      <4>1. u \in SUBSET (1..(i - 1))
        BY <3>2
      <4> QED
        BY <1>2, <2>1, <4>1
    <3> QED
      BY <3>1, <3>2
  <2> QED
    BY <2>1
<1> HIDE DEF good
<1>3. n \in good
  BY <1>1, <1>2, InductUpTo
<1>4. \E m \in t : \A k \in t : m >= k
  <2>1. PICK m \in t : \A k \in t : k <= m
    BY <1>3 DEF good
  <2>2. \A k \in t : m >= k
    BY <2>1
  <2> QED
    BY <2>2
<1>5. Max(t) \in t /\ \A k \in t : Max(t) >= k
  BY <1>4 DEF Max
<1> QED
  BY <1>5

LEMMA MaxIs ==
    ASSUME NEW n \in Nat, NEW t \in SUBSET (1..n), NEW m \in t, \A k \in t : k <= m
    PROVE  Max(t) = m
<1>1. Max(t) \in t /\ m <= Max(t)
  BY MaxUpTo
<1>2. Max(t) <= m
  BY <1>1
<1>3. Max(t) \in 1..n /\ m \in 1..n
  BY <1>1
<1> QED
  BY <1>1, <1>2, <1>3

-----------------------------------------------------------------------------
(* The recursive function behind a fold.                                   *)

\* Two functions on sets of indices that obey the same recursion agree.
LEMMA FoldsAgree ==
    ASSUME NEW n \in Nat, NEW f, NEW g, f[{}] = g[{}],
           \A t \in SUBSET (1..n) :
               t # {} /\ f[t \ {Max(t)}] = g[t \ {Max(t)}] => f[t] = g[t]
    PROVE  f[1..n] = g[1..n]
<1> DEFINE good == {i \in Nat : \A t \in SUBSET (1..n) : t \subseteq 1..i => f[t] = g[t]}
<1>1. 0 \in good
  <2>1. \A t : t \subseteq 1..0 => t = {}
    OBVIOUS
  <2> QED
    BY <2>1
<1>2. ASSUME NEW i \in 1..n, i - 1 \in good PROVE i \in good
  <2>1. ASSUME NEW t \in SUBSET (1..n), t \subseteq 1..i, t # {} PROVE f[t] = g[t]
    <3>1. Max(t) \in t /\ \A k \in t : k <= Max(t)
      BY <2>1, MaxUpTo
    <3> HIDE DEF good
    <3>2. \A k \in t \ {Max(t)} : k \in 1..(i - 1)
      <4> SUFFICES ASSUME NEW k \in t, k # Max(t) PROVE k \in 1..(i - 1)
        OBVIOUS
      <4>1. k \in 1..i /\ Max(t) \in 1..i /\ k <= Max(t)
        BY <2>1, <3>1
      <4> QED
        BY <4>1
    <3>3. f[t \ {Max(t)}] = g[t \ {Max(t)}]
      BY <1>2, <3>2 DEF good
    <3> QED
      BY <2>1, <3>3
  <2> QED
    BY <2>1
<1> HIDE DEF good
<1>3. n \in good
  BY <1>1, <1>2, InductUpTo
<1> QED
  BY <1>3 DEF good

\* The recursion, for a step given as a function that stays in D.
Recursion(f, D, base, s, step) ==
    /\ f \in [SUBSET (DOMAIN s) -> D]
    /\ f[{}] = base
    /\ \A t \in SUBSET (DOMAIN s) :
          t # {} => f[t] = step[<<f[t \ {Max(t)}], s[Max(t)]>>]

\* The values after each element of s, the last one as f has it.
RunOver(r, f, D, base, s, step) ==
    /\ r \in [0..Len(s) -> D]
    /\ r[0] = base
    /\ \A i \in 1..Len(s) : r[i] = step[<<r[i - 1], s[i]>>]
    /\ r[Len(s)] = f[DOMAIN s]

LEMMA FoldExists ==
    ASSUME NEW D, NEW E, NEW base \in D, NEW s \in Seq(E), NEW step \in [D \X E -> D]
    PROVE  \E f : Recursion(f, D, base, s, step)
<1> DEFINE Obeys(f, i) ==
               /\ f[{}] = base
               /\ \A t \in SUBSET (1..i) :
                     t # {} => f[t] = step[<<f[t \ {Max(t)}], s[Max(t)]>>]
           good == {i \in Nat : \E f \in [SUBSET (1..i) -> D] : Obeys(f, i)}
<1>0. Len(s) \in Nat /\ DOMAIN s = 1..Len(s)
  OBVIOUS
<1>1. 0 \in good
  <2> DEFINE f == [t \in SUBSET (1..0) |-> base]
  <2>1. f \in [SUBSET (1..0) -> D] /\ f[{}] = base
    OBVIOUS
  <2>2. \A t \in SUBSET (1..0) : t = {}
    OBVIOUS
  <2>3. Obeys(f, 0)
    BY <2>1, <2>2
  <2> QED
    BY <2>1, <2>3
<1>2. ASSUME NEW i \in 1..Len(s), i - 1 \in good PROVE i \in good
  <2>1. PICK f \in [SUBSET (1..(i - 1)) -> D] : Obeys(f, i - 1)
    BY <1>2
  <2> DEFINE g == [t \in SUBSET (1..i) |->
                      IF i \in t THEN step[<<f[t \ {i}], s[i]>>] ELSE f[t]]
  <2>2. \A t \in SUBSET (1..i) : t \ {i} \in SUBSET (1..(i - 1))
    OBVIOUS
  <2>3. \A t \in SUBSET (1..i) : i \notin t => t \in SUBSET (1..(i - 1))
    OBVIOUS
  <2>4. s[i] \in E
    OBVIOUS
  <2>5. g \in [SUBSET (1..i) -> D]
    <3>1. \A t \in SUBSET (1..i) : f[t \ {i}] \in D
      BY <2>2
    <3>2. \A t \in SUBSET (1..i) : step[<<f[t \ {i}], s[i]>>] \in D
      BY <2>4, <3>1
    <3> QED
      BY <2>3, <3>2
  <2>6. g[{}] = base
    BY <2>1
  <2>7. ASSUME NEW t \in SUBSET (1..i), t # {}
        PROVE  g[t] = step[<<g[t \ {Max(t)}], s[Max(t)]>>]
    <3>1. CASE i \in t
      <4>1. Max(t) = i
        <5>1. i \in Nat /\ \A k \in t : k <= i
          OBVIOUS
        <5> QED
          BY <3>1, <5>1, MaxIs
      <4>2. g[t \ {i}] = f[t \ {i}]
        BY <2>2
      <4> QED
        BY <3>1, <4>1, <4>2
    <3>2. CASE i \notin t
      <4>1. g[t] = f[t] /\ g[t \ {Max(t)}] = f[t \ {Max(t)}]
        BY <3>2
      <4>2. t \in SUBSET (1..(i - 1))
        BY <2>3, <3>2
      <4> QED
        BY <2>1, <2>7, <4>1, <4>2
    <3> QED
      BY <3>1, <3>2
  <2>8. Obeys(g, i)
    <3> HIDE DEF g
    <3> QED
      BY <2>6, <2>7
  <2> HIDE DEF g, Obeys
  <2>9. i \in Nat
    OBVIOUS
  <2> QED
    BY <2>5, <2>8, <2>9
<1> HIDE DEF good
<1>3. Len(s) \in good
  <2>1. 0..Len(s) \subseteq good
    BY <1>0, <1>1, <1>2, InductUpTo
  <2> QED
    BY <1>0, <2>1
<1>4. PICK f \in [SUBSET (DOMAIN s) -> D] : Obeys(f, Len(s))
  BY <1>0, <1>3 DEF good
<1>5. Recursion(f, D, base, s, step)
  BY <1>0, <1>4 DEF Recursion
<1> QED
  BY <1>5

\* The values such a recursion has on the first elements are a run.
LEMMA FoldRuns ==
    ASSUME NEW D, NEW E, NEW base \in D, NEW s \in Seq(E), NEW step \in [D \X E -> D],
           NEW f, Recursion(f, D, base, s, step)
    PROVE  \E r : RunOver(r, f, D, base, s, step)
<1> USE DEF Recursion
<1> DEFINE r == [i \in 0..Len(s) |-> f[1..i]]
<1>0. Len(s) \in Nat /\ DOMAIN s = 1..Len(s)
  OBVIOUS
<1>1. \A i \in 0..Len(s) : 1..i \in SUBSET (DOMAIN s)
  BY <1>0
<1>2. r \in [0..Len(s) -> D]
  BY <1>1
<1>3. r[0] = base
  <2>1. 1..0 = {}
    OBVIOUS
  <2> QED
    BY <1>0, <2>1
<1>4. ASSUME NEW i \in 1..Len(s) PROVE r[i] = step[<<r[i - 1], s[i]>>]
  <2>0. i \in Nat /\ i \in 1..i /\ \A k \in 1..i : k <= i
    OBVIOUS
  <2>1. Max(1..i) = i
    BY <2>0, MaxIs
  <2>2. (1..i) \ {i} = 1..(i - 1)
    <3>1. \A k : k \in (1..i) \ {i} <=> k \in 1..(i - 1)
      BY <2>0
    <3> QED
      BY <3>1
  <2>3. i - 1 \in 0..Len(s) /\ i \in 0..Len(s)
    BY <1>0
  <2>4. r[i] = f[1..i] /\ r[i - 1] = f[1..(i - 1)]
    BY <2>3
  <2>5. 1..i \in SUBSET (DOMAIN s) /\ 1..i # {}
    BY <1>1, <2>0, <2>3
  <2> HIDE DEF r
  <2>6. f[1..i] = step[<<f[(1..i) \ {i}], s[i]>>]
    BY <2>1, <2>5
  <2> QED
    BY <2>2, <2>4, <2>6
<1>5. r[Len(s)] = f[DOMAIN s]
  BY <1>0
<1> HIDE DEF r
<1>6. RunOver(r, f, D, base, s, step)
  BY <1>2, <1>3, <1>4, <1>5 DEF RunOver
<1> QED
  BY <1>6

-----------------------------------------------------------------------------
(* A run over a sequence and where it ends.                                *)

\* The values the run takes, step being a function on pairs.
Steps(r, D, step, base, s) ==
    /\ r \in [0..Len(s) -> D]
    /\ r[0] = base
    /\ \A i \in 1..Len(s) : r[i] = step[<<r[i - 1], s[i]>>]

EndsIn(D, step, base, s, end) == \E r : Steps(r, D, step, base, s) /\ r[Len(s)] = end

\* A fold ends where its run ends; g is the recursive function FoldLeft
\* chooses, which agrees with step where that is defined.
LEMMA FoldEnds ==
    ASSUME NEW D, NEW E, NEW base \in D, NEW s \in Seq(E), NEW step \in [D \X E -> D],
           NEW g, g[{}] = base,
           \A t \in SUBSET (DOMAIN s) :
               t # {} /\ g[t \ {Max(t)}] \in D =>
                   g[t] = step[<<g[t \ {Max(t)}], s[Max(t)]>>]
    PROVE  EndsIn(D, step, base, s, g[DOMAIN s])
<1>0. Len(s) \in Nat /\ DOMAIN s = 1..Len(s)
  OBVIOUS
<1>1. PICK f : Recursion(f, D, base, s, step)
  BY FoldExists
<1>2. PICK r : RunOver(r, f, D, base, s, step)
  BY <1>1, FoldRuns
<1>3. f[{}] = g[{}]
  BY <1>1 DEF Recursion
<1>4. ASSUME NEW t \in SUBSET (1..Len(s)), t # {}, f[t \ {Max(t)}] = g[t \ {Max(t)}]
      PROVE  f[t] = g[t]
  <2>1. f[t \ {Max(t)}] \in D
    BY <1>0, <1>1 DEF Recursion
  <2>2. f[t] = step[<<f[t \ {Max(t)}], s[Max(t)]>>]
    BY <1>0, <1>1, <1>4 DEF Recursion
  <2> QED
    BY <1>0, <1>4, <2>1, <2>2
<1>5. f[1..Len(s)] = g[1..Len(s)]
  BY <1>0, <1>3, <1>4, FoldsAgree
<1>6. Steps(r, D, step, base, s) /\ r[Len(s)] = f[DOMAIN s]
  BY <1>2 DEF RunOver, Steps
<1> QED
  BY <1>0, <1>5, <1>6 DEF EndsIn

\* A run ends in one place.
LEMMA EndsOnce ==
    ASSUME NEW D, NEW E, NEW base, NEW s \in Seq(E), NEW step,
           NEW v, EndsIn(D, step, base, s, v), NEW w, EndsIn(D, step, base, s, w)
    PROVE  v = w /\ v \in D
<1>1. PICK q : Steps(q, D, step, base, s) /\ q[Len(s)] = v
  BY DEF EndsIn
<1>2. PICK r : Steps(r, D, step, base, s) /\ r[Len(s)] = w
  BY DEF EndsIn
<1> DEFINE good == {i \in 0..Len(s) : q[i] = r[i]}
<1>3. Len(s) \in Nat
  OBVIOUS
<1>4. 0 \in good
  BY <1>1, <1>2, <1>3 DEF Steps
<1>5. ASSUME NEW i \in 1..Len(s), i - 1 \in good PROVE i \in good
  <2>1. q[i] = step[<<q[i - 1], s[i]>>] /\ r[i] = step[<<r[i - 1], s[i]>>]
    BY <1>1, <1>2 DEF Steps
  <2>2. i \in 0..Len(s) /\ q[i - 1] = r[i - 1]
    BY <1>3, <1>5
  <2> QED
    BY <2>1, <2>2
<1> HIDE DEF good
<1>6. 0..Len(s) \subseteq good
  BY <1>3, <1>4, <1>5, InductUpTo
<1>7. Len(s) \in good
  BY <1>3, <1>6
<1> QED
  BY <1>1, <1>2, <1>7 DEF good, Steps

LEMMA EndsWithout ==
    ASSUME NEW D, NEW step, NEW base \in D
    PROVE  EndsIn(D, step, base, <<>>, base)
<1> DEFINE r == [i \in {0} |-> base]
<1>1. r \in [0..Len(<<>>) -> D] /\ r[0] = base /\ r[Len(<<>>)] = base
  OBVIOUS
<1>2. \A i : i \notin 1..Len(<<>>)
  OBVIOUS
<1>3. Steps(r, D, step, base, <<>>)
  BY <1>1, <1>2 DEF Steps
<1> QED
  BY <1>1, <1>3 DEF EndsIn

\* One more element is one more step.
LEMMA EndsAfter ==
    ASSUME NEW D, NEW E, NEW base, NEW s \in Seq(E), NEW step \in [D \X E -> D],
           NEW v, EndsIn(D, step, base, s, v), NEW e \in E
    PROVE  EndsIn(D, step, base, Append(s, e), step[<<v, e>>])
<1>1. PICK q : Steps(q, D, step, base, s) /\ q[Len(s)] = v
  BY DEF EndsIn
<1> DEFINE n == Len(s)
           t == Append(s, e)
           end == step[<<v, e>>]
           r == [i \in 0..(n + 1) |-> IF i = n + 1 THEN end ELSE q[i]]
<1>2. n \in Nat /\ Len(t) = n + 1 /\ t[n + 1] = e /\ \A i \in 1..n : t[i] = s[i]
  OBVIOUS
<1>3. v \in D /\ end \in D
  BY <1>1, <1>2 DEF Steps
<1> HIDE DEF end, t, n
<1>4. r \in [0..(n + 1) -> D]
  BY <1>1, <1>2, <1>3 DEF Steps, n
<1>5. r[0] = base /\ r[n + 1] = end
  BY <1>1, <1>2 DEF Steps
<1>6. ASSUME NEW i \in 1..(n + 1) PROVE r[i] = step[<<r[i - 1], t[i]>>]
  <2>1. CASE i = n + 1
    <3>1. i - 1 = n /\ r[i - 1] = q[n] /\ r[i] = end
      BY <1>2, <2>1
    <3> QED
      BY <1>1, <1>2, <2>1, <3>1 DEF end, n
  <2>2. CASE i # n + 1
    <3>1. i \in 1..n /\ r[i] = q[i] /\ r[i - 1] = q[i - 1]
      BY <1>2, <2>2
    <3> QED
      BY <1>1, <1>2, <3>1 DEF Steps, n
  <2> QED
    BY <2>1, <2>2
<1>7. Steps(r, D, step, base, t)
  BY <1>2, <1>4, <1>5, <1>6 DEF Steps
<1> QED
  BY <1>2, <1>5, <1>7 DEF EndsIn, t, end

\* A run over two sequences goes on from where it ends after the first.
LEMMA EndsThen ==
    ASSUME NEW D, NEW E, NEW base, NEW s \in Seq(E), NEW t \in Seq(E),
           NEW step \in [D \X E -> D],
           NEW v, EndsIn(D, step, base, s, v), NEW w, EndsIn(D, step, v, t, w)
    PROVE  EndsIn(D, step, base, s \o t, w)
<1>1. PICK q : Steps(q, D, step, base, s) /\ q[Len(s)] = v
  BY DEF EndsIn
<1>2. PICK r : Steps(r, D, step, v, t) /\ r[Len(t)] = w
  BY DEF EndsIn
<1> DEFINE n == Len(s)
           m == Len(t)
           u == s \o t
           p == [i \in 0..(n + m) |-> IF i <= n THEN q[i] ELSE r[i - n]]
<1>3. /\ n \in Nat /\ m \in Nat /\ Len(u) = n + m
      /\ \A i \in 1..n : u[i] = s[i]
      /\ \A i \in (n + 1)..(n + m) : u[i] = t[i - n]
  OBVIOUS
<1>4. /\ \A i \in 0..n : q[i] \in D
      /\ \A i \in 0..m : r[i] \in D
      /\ q[0] = base /\ q[n] = r[0]
  BY <1>1, <1>2 DEF Steps
<1>q. \A i \in 1..n : q[i] = step[<<q[i - 1], s[i]>>]
  BY <1>1 DEF Steps
<1>r. \A i \in 1..m : r[i] = step[<<r[i - 1], t[i]>>]
  BY <1>2 DEF Steps
<1> HIDE DEF n, m, u
<1>5. p \in [0..(n + m) -> D]
  BY <1>3, <1>4
<1>6. p[0] = base /\ p[n + m] = r[m]
  BY <1>3, <1>4
<1>7. ASSUME NEW i \in 1..(n + m) PROVE p[i] = step[<<p[i - 1], u[i]>>]
  <2>1. CASE i <= n
    <3>1. i \in 1..n /\ p[i] = q[i] /\ p[i - 1] = q[i - 1]
      BY <1>3, <2>1
    <3> QED
      BY <1>3, <1>q, <3>1
  <2>2. CASE i > n
    <3>1. i \in (n + 1)..(n + m) /\ i - n \in 1..m /\ (i - 1) - n = (i - n) - 1
      BY <1>3, <2>2
    <3>2. p[i] = r[i - n]
      BY <1>3, <2>2
    <3>3. p[i - 1] = r[(i - 1) - n]
      <4>1. i - 1 \in 0..(n + m)
        BY <1>3
      <4>2. CASE i - 1 = n
        BY <1>3, <1>4, <4>1, <4>2
      <4>3. CASE i - 1 > n
        BY <1>3, <4>1, <4>3
      <4> QED
        BY <1>3, <2>2, <4>2, <4>3
    <3> QED
      BY <1>3, <1>r, <3>1, <3>2, <3>3
  <2> QED
    BY <1>3, <2>1, <2>2
<1>8. Steps(p, D, step, base, u)
  BY <1>3, <1>5, <1>6, <1>7 DEF Steps
<1> QED
  BY <1>2, <1>3, <1>6, <1>8 DEF EndsIn, u, m

-----------------------------------------------------------------------------
(* Sequences, element by element.                                          *)

\* Induction over the sequences of a set, for a set of good ones.
LEMMA InductSeq ==
    ASSUME NEW E, NEW good, <<>> \in good,
           \A s \in Seq(E), e \in E : s \in good => Append(s, e) \in good
    PROVE  Seq(E) \subseteq good
<1> SUFFICES ASSUME NEW s \in Seq(E) PROVE s \in good
  OBVIOUS
<1> DEFINE upTo == {i \in 0..Len(s) : SubSeq(s, 1, i) \in good}
<1>1. Len(s) \in Nat
  OBVIOUS
<1>2. 0 \in upTo
  <2>1. SubSeq(s, 1, 0) = <<>>
    OBVIOUS
  <2>2. 0 \in 0..Len(s)
    BY <1>1
  <2> QED
    BY <2>1, <2>2, Zenon
<1>3. ASSUME NEW i \in 1..Len(s), i - 1 \in upTo PROVE i \in upTo
  <2> DEFINE before == SubSeq(s, 1, i - 1)
  <2>1. before \in Seq(E) /\ s[i] \in E /\ before \in good
    BY <1>3
  <2>2. SubSeq(s, 1, i) = Append(before, s[i])
    OBVIOUS
  <2>3. Append(before, s[i]) \in good
    BY <2>1
  <2>4. i \in 0..Len(s)
    BY <1>1
  <2> QED
    BY <2>2, <2>3, <2>4, Zenon
<1> HIDE DEF upTo
<1>4. 0..Len(s) \subseteq upTo
  BY <1>1, <1>2, <1>3, InductUpTo
<1>5. Len(s) \in upTo
  BY <1>1, <1>4
<1>6. SubSeq(s, 1, Len(s)) = s
  OBVIOUS
<1> QED
  BY <1>5, <1>6 DEF upTo

Joining(T) == [x \in Seq(T) \X Seq(T) |-> x[1] \o x[2]]

LEMMA JoiningType ==
    ASSUME NEW T
    PROVE  /\ Joining(T) \in [Seq(T) \X Seq(T) -> Seq(T)]
           /\ \A s, t \in Seq(T) : Joining(T)[<<s, t>>] = s \o t
<1>1. \A s, t \in Seq(T) : s \o t \in Seq(T)
  OBVIOUS
<1>2. \A x \in Seq(T) \X Seq(T) : x[1] \in Seq(T) /\ x[2] \in Seq(T)
  OBVIOUS
<1>3. Joining(T) \in [Seq(T) \X Seq(T) -> Seq(T)]
  BY <1>1, <1>2, Zenon DEF Joining
<1>4. ASSUME NEW s \in Seq(T), NEW t \in Seq(T) PROVE Joining(T)[<<s, t>>] = s \o t
  <2>1. <<s, t>> \in Seq(T) \X Seq(T) /\ <<s, t>>[1] = s /\ <<s, t>>[2] = t
    OBVIOUS
  <2> QED
    BY <2>1, Zenon DEF Joining
<1> QED
  BY <1>3, <1>4

\* A sequence before which there is nothing.
LEMMA AfterNothing ==
    ASSUME NEW T, NEW s \in Seq(T)
    PROVE  <<>> \o s = s
  OBVIOUS

LEMMA FlattenEnds ==
    ASSUME NEW T, NEW s \in Seq(Seq(T))
    PROVE  EndsIn(Seq(T), Joining(T), <<>>, s, FlattenSeq(s))
<1> DEFINE n == Len(s)
           step == Joining(T)
           Obeys(f) == f = [i \in 1..n |-> IF i = 1 THEN s[i] ELSE f[i - 1] \o s[i]]
           flatten == CHOOSE f : Obeys(f)
<1>0. n \in Nat /\ DOMAIN s = 1..n /\ \A i \in 1..n : s[i] \in Seq(T)
  OBVIOUS
<1>a. <<>> \in Seq(T)
  OBVIOUS
<1>1. step \in [Seq(T) \X Seq(T) -> Seq(T)] /\ <<>> \in Seq(T)
  BY <1>a, JoiningType, Zenon
<1>2. PICK f : Recursion(f, Seq(T), <<>>, s, step)
  BY <1>1, FoldExists
<1>3. PICK r : RunOver(r, f, Seq(T), <<>>, s, step)
  BY <1>1, <1>2, FoldRuns
<1>4. /\ r \in [0..n -> Seq(T)] /\ r[0] = <<>>
      /\ \A i \in 1..n : r[i] = r[i - 1] \o s[i]
  <2>1. r \in [0..n -> Seq(T)] /\ r[0] = <<>>
    BY <1>3 DEF RunOver
  <2>2. ASSUME NEW i \in 1..n PROVE r[i] = r[i - 1] \o s[i]
    <3>a. i - 1 \in 0..n
      BY <1>0
    <3>1. r[i - 1] \in Seq(T) /\ s[i] \in Seq(T)
      BY <1>0, <2>1, <3>a
    <3>2. r[i] = step[<<r[i - 1], s[i]>>]
      BY <1>3 DEF RunOver
    <3> QED
      BY <3>1, <3>2, JoiningType
  <2> QED
    BY <2>1, <2>2
<1>4a. ASSUME 1 \in 1..n PROVE r[1] = s[1]
  <2>1. ASSUME NEW i \in 1..n, i = 1 PROVE r[i] = r[0] \o s[i]
    <3>1. i - 1 = 0
      BY <2>1
    <3>2. r[i] = r[i - 1] \o s[i]
      BY <1>4
    <3> QED
      BY <3>1, <3>2, Zenon
  <2>2. r[1] = <<>> \o s[1]
    BY <1>4, <1>4a, <2>1
  <2> QED
    BY <1>0, <1>4a, <2>2, AfterNothing
<1> HIDE DEF step
<1>5. Obeys([i \in 1..n |-> r[i]])
  <2> DEFINE g == [i \in 1..n |-> r[i]]
  <2>1. ASSUME NEW i \in 1..n
        PROVE  g[i] = IF i = 1 THEN s[i] ELSE g[i - 1] \o s[i]
    <3>1. CASE i = 1
      BY <1>4a, <3>1
    <3>2. CASE i # 1
      <4>1. i - 1 \in 1..n
        BY <1>0, <3>2
      <4> QED
        BY <1>4, <3>2, <4>1
    <3> QED
      BY <3>1, <3>2
  <2> QED
    BY <2>1
<1>6. Obeys(flatten)
  BY <1>5
<1> HIDE DEF flatten
<1> DEFINE good == {i \in 0..n : i # 0 => flatten[i] = r[i]}
<1>7. 0..n \subseteq good
  <2>1. 0 \in good
    BY <1>0
  <2>2. ASSUME NEW i \in 1..n, i - 1 \in good PROVE i \in good
    <3>1. flatten[i] = IF i = 1 THEN s[i] ELSE flatten[i - 1] \o s[i]
      BY <1>6
    <3>0. i \in 0..n
      BY <1>0
    <3>2. CASE i = 1
      BY <1>4a, <3>0, <3>1, <3>2
    <3>3. CASE i # 1
      <4>1. flatten[i - 1] = r[i - 1]
        BY <2>2, <3>3
      <4> QED
        BY <1>0, <1>4, <3>0, <3>1, <3>3, <4>1
    <3> QED
      BY <3>2, <3>3
  <2> HIDE DEF good
  <2> QED
    BY <1>0, <2>1, <2>2, InductUpTo
<1>8. FlattenSeq(s) = r[n]
  <2>1. CASE n = 0
    <3>1. FlattenSeq(s) = s /\ s = <<>>
      BY <2>1 DEF FlattenSeq
    <3> QED
      BY <1>4, <2>1, <3>1
  <2>2. CASE n # 0
    <3>1. FlattenSeq(s) = flatten[n]
      BY <2>2 DEF FlattenSeq, flatten
    <3>2. n \in good
      BY <1>0, <1>7
    <3> QED
      BY <2>2, <3>1, <3>2
  <2> QED
    BY <2>1, <2>2
<1>9. Steps(r, Seq(T), step, <<>>, s)
  BY <1>3 DEF RunOver, Steps
<1> QED
  BY <1>8, <1>9 DEF EndsIn, step

\* FlattenSeq has no other elements than its sequences, and one sequence
\* more is put at the end.
LEMMA FlattenType ==
    ASSUME NEW T, NEW s \in Seq(Seq(T))
    PROVE  FlattenSeq(s) \in Seq(T)
  BY FlattenEnds, EndsOnce

LEMMA FlattenNothing == FlattenSeq(<<>>) = <<>>
  BY DEF FlattenSeq

LEMMA FlattenAppend ==
    ASSUME NEW T, NEW s \in Seq(Seq(T)), NEW e \in Seq(T)
    PROVE  FlattenSeq(Append(s, e)) = FlattenSeq(s) \o e
<1>1. FlattenSeq(s) \in Seq(T) /\ Append(s, e) \in Seq(Seq(T))
  BY FlattenType
<1>2. EndsIn(Seq(T), Joining(T), <<>>, Append(s, e), Joining(T)[<<FlattenSeq(s), e>>])
  BY FlattenEnds, EndsAfter, JoiningType
<1>3. EndsIn(Seq(T), Joining(T), <<>>, Append(s, e), FlattenSeq(s) \o e)
  BY <1>1, <1>2, JoiningType
<1> QED
  BY <1>1, <1>3, FlattenEnds, EndsOnce

\* What all elements have, all elements of the parts have.
LEMMA FlattenParts ==
    ASSUME NEW T, NEW P
    PROVE  \A s \in Seq(Seq(T)) :
               FlattenSeq(s) \in Seq(P) => \A i \in DOMAIN s : s[i] \in Seq(P)
<1> DEFINE good == {s \in Seq(Seq(T)) :
                FlattenSeq(s) \in Seq(P) => \A i \in DOMAIN s : s[i] \in Seq(P)}
<1>1. <<>> \in good
  <2>1. <<>> \in Seq(Seq(T)) /\ \A i : i \notin DOMAIN <<>>
    OBVIOUS
  <2> QED
    BY <2>1
<1>2. ASSUME NEW s \in Seq(Seq(T)), NEW e \in Seq(T), s \in good
      PROVE  Append(s, e) \in good
  <2> DEFINE u == Append(s, e)
             f == FlattenSeq(s)
  <2>1. /\ u \in Seq(Seq(T)) /\ DOMAIN u = 1..(Len(s) + 1) /\ Len(s) \in Nat
        /\ u[Len(s) + 1] = e /\ \A i \in 1..Len(s) : u[i] = s[i] /\ i \in DOMAIN s
    OBVIOUS
  <2>2. FlattenSeq(u) = f \o e /\ f \in Seq(T)
    BY FlattenAppend, FlattenType
  <2> HIDE DEF u, f
  <2> SUFFICES ASSUME FlattenSeq(u) \in Seq(P), NEW i \in DOMAIN u
               PROVE  u[i] \in Seq(P)
    BY <2>1 DEF u
  <2>3. f \in Seq(P) /\ e \in Seq(P)
    <3> DEFINE c == f \o e
    <3>1. /\ Len(f) \in Nat /\ Len(e) \in Nat /\ Len(c) = Len(f) + Len(e)
          /\ \A k \in 1..Len(f) : c[k] = f[k]
          /\ \A k \in 1..Len(e) : c[Len(f) + k] = e[k]
      BY <2>2
    <3>2. \A k \in 1..Len(c) : c[k] \in P
      BY <2>2
    <3> HIDE DEF c
    <3>3. \A k \in 1..Len(f) : f[k] \in P
      BY <3>1, <3>2
    <3>4. ASSUME NEW k \in 1..Len(e) PROVE e[k] \in P
      <4>1. Len(f) + k \in 1..Len(c)
        BY <3>1
      <4> QED
        BY <3>1, <3>2, <4>1
    <3>5. f \in Seq(P)
      BY <2>2, <3>3
    <3>6. e \in Seq(P)
      BY <2>2, <3>4
    <3> QED
      BY <3>5, <3>6
  <2>4. CASE i = Len(s) + 1
    BY <2>1, <2>3, <2>4
  <2>5. CASE i \in 1..Len(s)
    BY <1>2, <2>1, <2>3, <2>5 DEF f
  <2> QED
    BY <2>1, <2>4, <2>5
<1> HIDE DEF good
<1>3. Seq(Seq(T)) \subseteq good
  BY <1>1, <1>2, InductSeq
<1> QED
  BY <1>3 DEF good
=============================================================================
