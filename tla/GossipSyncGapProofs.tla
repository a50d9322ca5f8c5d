------------------------ MODULE GossipSyncGapProofs ------------------------
(***************************************************************************)
(* What holds as long as writes to ops.log succeed: logs and memories have *)
(* no gaps, summaries stand for what is on disk, the logs behave like the  *)
(* replicated log of ReplicatedOpLog.  And a sync that stops because there *)
(* was nothing left to do leaves the peer with the same summary.           *)
(***************************************************************************)
EXTENDS GossipSyncProofs

\* No write to ops.log has failed so far.
WritesSucceed == writeErrors = 0

-----------------------------------------------------------------------------
(* The inductive invariant behind NoGaps and SummaryDurable.               *)

\* S holds everything that the summary f stands for.
Covers(S, f) ==
    \A a \in Node : \A k \in 1..f[a] : \E o \in S : o.author = a /\ o.seq = k

\* Added to S in listing order, the operations of the batch leave no gap.
Fits(S, batch) ==
    \A o \in batch : \A k \in 1..o.seq :
        \E x \in S \cup batch : x.author = o.author /\ x.seq = k

\* What the store s holds, or will hold when it is opened.
Held(s) == IF s \in open THEN ops[s] ELSE log[Home[s]]

Stored ==
    /\ \A s \in Store : ops[s] \subseteq log[Home[s]]
    /\ \A s \in Store : Covers(ops[s], seqByAuthor[s])

\* What a SyncPeer call is about to send fits the peer, what it has received
\* fits its store, and the peer has what it claimed.
SessionFits(s) ==
    /\ session[s].st \in {"ask", "wait", "apply"} => session[s].peer \in Daemon
    /\ session[s].st = "ask" => Fits(Held(session[s].peer), session[s].batch)
    /\ session[s].st = "apply" =>
          /\ Fits(Held(s), session[s].batch)
          /\ Covers(Held(session[s].peer), session[s].theirs)

\* The same for a request in progress and its answer.
RequestFits(c) ==
    /\ conn[c].st = "add" => Fits(Held(conn[c].server), conn[c].batch)
    /\ conn[c].st \in {"summed", "reply"} =>
          Covers(Held(conn[c].server), conn[c].theirs)
    /\ conn[c].client # None =>
          /\ Covers(Held(conn[c].client), conn[c].known)
          /\ conn[c].st = "reply" => Fits(Held(conn[c].client), conn[c].batch)

\* A request that has a client is the only one of a call that waits for it.
Linked(c) ==
    conn[c].client # None =>
        /\ session[conn[c].client].st = "wait"
        /\ session[conn[c].client].peer = conn[c].server
        /\ \A d \in Conn : conn[d].client = conn[c].client => d = c

GapParts ==
    /\ ClosedEmpty
    /\ Gapless
    /\ Stored
    /\ \A s \in Store : SessionFits(s)
    /\ \A c \in Conn : RequestFits(c)
    /\ \A c \in Conn : Linked(c)

GapState == TypeOK /\ GapParts

GapInv == TypeOK /\ (WritesSucceed => GapParts)

-----------------------------------------------------------------------------
(* Facts about sets of operations.                                         *)

\* Holding more loses nothing that was covered and breaks no fit.
LEMMA MoreIsHeld ==
    ASSUME NEW S, NEW T, S \subseteq T
    PROVE  /\ \A f : Covers(S, f) => Covers(T, f)
           /\ \A b : Fits(S, b) => Fits(T, b)
  BY DEF Covers, Fits

\* Nothing is covered and nothing left out by empty things.
LEMMA NothingFits ==
    /\ \A S : Covers(S, EmptySummary)
    /\ \A S : Fits(S, {})
<1>1. \A a \in Node : EmptySummary[a] = 0
  BY DEF EmptySummary
<1>2. 1..0 = {}
  OBVIOUS
<1> QED
  BY <1>1, <1>2 DEF Covers, Fits

\* The summary computed from a set without gaps is covered by that set.
LEMMA SummaryCovered ==
    ASSUME NEW S \in SUBSET Operation, GapFree(S)
    PROVE  Covers(S, Summary(S))
<1> SUFFICES ASSUME NEW a \in Node, NEW k \in 1..Summary(S)[a]
             PROVE  \E o \in S : o.author = a /\ o.seq = k
  BY DEF Covers
<1>1. Summary(S)[a] # 0
  OBVIOUS
<1>2. PICK o \in S : o.author = a /\ o.seq = Summary(S)[a]
  BY <1>1, SummaryFacts
<1> QED
  BY <1>2 DEF GapFree

\* What MissingFor selects for someone who has all that "known" stands for
\* fits what that one has: the limit never cuts before an earlier operation.
LEMMA MissingForFits ==
    ASSUME NEW S \in SUBSET Operation, NEW known \in SummaryVector, GapFree(S),
           NEW T, Covers(T, known)
    PROVE  Fits(T, MissingFor(S, known))
<1> SUFFICES ASSUME NEW o \in MissingFor(S, known), NEW k \in 1..o.seq
             PROVE  \E x \in T \cup MissingFor(S, known) :
                        x.author = o.author /\ x.seq = k
  BY DEF Fits
<1>1. o \in S /\ o \in Operation
  BY MissingForSubset
<1>2. PICK x \in S : x.author = o.author /\ x.seq = k
  BY <1>1 DEF GapFree
<1>3. o.author \in Node /\ o.seq \in Nat /\ k \in Nat /\ k <= o.seq /\ k >= 1
  BY <1>1, OperationFields
<1>4. known[o.author] \in Nat
  BY <1>3, BoundAssumption DEF SummaryVector
<1>5. CASE k <= known[o.author]
  BY <1>3, <1>4, <1>5 DEF Covers
<1>6. CASE k > known[o.author] /\ k = o.seq
  BY <1>6
<1>7. CASE k > known[o.author] /\ k # o.seq
  <2>1. x.author = o.author /\ x.seq < o.seq /\ known[x.author] < x.seq
    BY <1>2, <1>3, <1>4, <1>7
  <2>2. x \in MissingFor(S, known)
    BY <1>1, <2>1, MissingForDownClosed
  <2> QED
    BY <1>2, <2>2
<1> QED
  BY <1>3, <1>4, <1>5, <1>6, <1>7

\* Adding o to S leaves no gap below o.
Prepared(S, o) ==
    \A k \in 1..o.seq : \E x \in S \cup {o} : x.author = o.author /\ x.seq = k

\* The first operation of a batch that fits can be added.
LEMMA FirstIsPrepared ==
    ASSUME NEW S, NEW batch \in SUBSET Operation, NEW o, Fits(S, batch),
           IsFirst(o, batch)
    PROVE  Prepared(S, o)
<1> SUFFICES ASSUME NEW k \in 1..o.seq
             PROVE  \E x \in S \cup {o} : x.author = o.author /\ x.seq = k
  BY DEF Prepared
<1>1. o \in batch /\ o \in Operation
  BY DEF IsFirst
<1>2. PICK x \in S \cup batch : x.author = o.author /\ x.seq = k
  BY <1>1 DEF Fits
<1>3. CASE x \in batch
  <2>1. ~Precedes(x, o)
    BY <1>3 DEF IsFirst
  <2>2. ~(k < o.seq)
    BY <1>2, <2>1 DEF Precedes
  <2>3. k = o.seq
    BY <1>1, <2>2, OperationFields
  <2> QED
    BY <2>3
<1> QED
  BY <1>2, <1>3

\* Adding an operation that leaves no gap keeps a set free of gaps.
LEMMA AddKeepsGapFree ==
    ASSUME NEW S, GapFree(S), NEW o, Prepared(S, o)
    PROVE  GapFree(S \cup {o})
  BY DEF GapFree, Prepared

\* The number after the last that is covered leaves no gap.
LEMMA OwnIsPrepared ==
    ASSUME NEW S, NEW f, Covers(S, f), NEW o, o.author \in Node,
           f[o.author] \in Nat, o.seq = f[o.author] + 1
    PROVE  Prepared(S, o)
<1> SUFFICES ASSUME NEW k \in 1..o.seq
             PROVE  \E x \in S \cup {o} : x.author = o.author /\ x.seq = k
  BY DEF Prepared
<1>1. CASE k = o.seq
  BY <1>1
<1>2. CASE k # o.seq
  <2>1. k \in 1..f[o.author]
    BY <1>2
  <2> QED
    BY <2>1 DEF Covers
<1> QED
  BY <1>1, <1>2

\* What is left of a batch fits when its first operation, or one with the
\* same key, is there.
LEMMA RestFits ==
    ASSUME NEW S, NEW T, S \subseteq T, NEW batch, Fits(S, batch), NEW o,
           NEW x \in T, SameKey(x, o)
    PROVE  Fits(T, batch \ {o})
  BY DEF Fits, SameKey

-----------------------------------------------------------------------------
(* Steps.                                                                  *)

\* What a store holds is kept when it is closed and opened again.
HeldGrows == \A s \in Store : Held(s) \subseteq Held(s)'

\* A store takes in an operation that leaves no gap: nothing else is
\* disturbed, and the operation or one with its key is there afterwards.
LEMMA AddStep ==
    ASSUME WritesSucceed', TypeOK, ClosedEmpty, Gapless, Stored,
           NEW s \in open, NEW o \in Operation, NEW added \in BOOLEAN,
           AddOperation(s, o, added), open' = open, Prepared(ops[s], o)
    PROVE  /\ Gapless' /\ Stored' /\ HeldGrows
           /\ \E x \in Held(s)' : SameKey(x, o)
           /\ \A t \in Store \ open : ops'[t] = ops[t]
<1>1. /\ log \in [Node -> SUBSET Operation] /\ ops \in [Store -> SUBSET Operation]
      /\ seqByAuthor \in [Store -> SummaryVector]
      /\ s \in Store /\ Home[s] \in Node
  BY StoreAssumption DEF TypeOK
<1>2. CASE ~Addable(ops[s], o)
  <2>1. UNCHANGED storeVars
    BY <1>2 DEF AddOperation
  <2>2. \E x \in ops[s] : SameKey(x, o)
    BY <1>2 DEF Addable
  <2> QED
    BY <2>1, <2>2 DEF storeVars, Gapless, Stored, HeldGrows, Held, Covers
<1>3. CASE Addable(ops[s], o)
  <2> DEFINE h == Home[s]
             top == seqByAuthor[s][o.author]
  <2>1. writeErrors \in Nat /\ writeErrors' = 0
    BY LimitAssumption DEF TypeOK, WritesSucceed
  <2>2. /\ ops' = [ops EXCEPT ![s] = @ \cup {o}]
        /\ log' = [log EXCEPT ![h] = @ \cup {o}]
        /\ seqByAuthor' = [seqByAuthor EXCEPT ![s][o.author] =
                              IF o.seq > @ THEN o.seq ELSE @]
    BY <1>3, <2>1 DEF AddOperation
  <2>3. /\ ops'[s] = ops[s] \cup {o} /\ \A t \in Store : t # s => ops'[t] = ops[t]
        /\ log'[h] = log[h] \cup {o} /\ \A n \in Node : n # h => log'[n] = log[n]
        /\ \A t \in Store : t # s => seqByAuthor'[t] = seqByAuthor[t]
    BY <1>1, <2>2
  <2>4. \A t \in Store : Home[t] \in Node
    BY StoreAssumption
  <2>5. Gapless'
    <3>1. Prepared(log[h], o)
      BY <1>1 DEF Stored, Prepared
    <3>2. GapFree(ops[s] \cup {o}) /\ GapFree(log[h] \cup {o})
      BY <1>1, <3>1, AddKeepsGapFree DEF Gapless
    <3> QED
      BY <2>3, <3>2 DEF Gapless
  <2>6. Covers(ops'[s], seqByAuthor'[s])
    <3>1. o.author \in Node /\ o.seq \in Nat
      BY OperationFields
    <3>2. seqByAuthor'[s] = [seqByAuthor[s] EXCEPT ![o.author] =
                                IF o.seq > top THEN o.seq ELSE top]
      BY <1>1, <2>2
    <3>3. \A a \in Node : seqByAuthor'[s][a] \in {seqByAuthor[s][a]} \/
                          (a = o.author /\ seqByAuthor'[s][a] = o.seq)
      BY <1>1, <3>1, <3>2 DEF SummaryVector
    <3> SUFFICES ASSUME NEW a \in Node, NEW k \in 1..seqByAuthor'[s][a]
                 PROVE  \E x \in ops'[s] : x.author = a /\ x.seq = k
      BY DEF Covers
    <3>4. CASE seqByAuthor'[s][a] = seqByAuthor[s][a]
      BY <1>1, <2>3, <3>4 DEF Stored, Covers
    <3>5. CASE a = o.author /\ seqByAuthor'[s][a] = o.seq
      BY <2>3, <3>5 DEF Prepared
    <3> QED
      BY <3>3, <3>4, <3>5
  <2>7. Stored'
    <3>1. \A t \in Store : Covers(ops'[t], seqByAuthor'[t])
      BY <2>3, <2>6 DEF Stored
    <3>2. \A t \in Store : ops'[t] \subseteq log'[Home[t]]
      BY <2>3, <2>4 DEF Stored
    <3> QED
      BY <3>1, <3>2 DEF Stored
  <2>8. HeldGrows
    BY <2>3, <2>4 DEF HeldGrows, Held
  <2>9. o \in Held(s)' /\ SameKey(o, o)
    BY <2>3 DEF Held, SameKey
  <2> QED
    BY <2>3, <2>5, <2>7, <2>8, <2>9
<1> QED
  BY <1>2, <1>3

\* So what fits or is covered before a step fits or is covered after it.
LEMMA HeldKeeps ==
    ASSUME HeldGrows
    PROVE  \A s \in Store :
              /\ \A f : Covers(Held(s), f) => Covers(Held(s)', f)
              /\ \A b : Fits(Held(s), b) => Fits(Held(s)', b)
<1> SUFFICES ASSUME NEW s \in Store
             PROVE  /\ \A f : Covers(Held(s), f) => Covers(Held(s)', f)
                    /\ \A b : Fits(Held(s), b) => Fits(Held(s)', b)
  OBVIOUS
<1>1. Held(s) \subseteq Held(s)'
  BY DEF HeldGrows
<1> QED
  BY <1>1, MoreIsHeld

\* A SyncPeer call is not disturbed by what others do.
LEMMA SessionKept ==
    ASSUME HeldGrows, NEW s \in Store, SessionFits(s), session'[s] = session[s]
    PROVE  SessionFits(s)'
<1>1. \A d \in Daemon : d \in Store
  BY StoreAssumption
<1> QED
  BY <1>1, HeldKeeps DEF SessionFits, Held

\* Nor is a request, whatever is left of it.
LEMMA RequestKept ==
    ASSUME TypeOK, HeldGrows, NEW c \in Conn, RequestFits(c),
           conn'[c] \in {conn[c], Abandon(conn[c]), Free}
    PROVE  RequestFits(c)'
<1>1. /\ conn[c] \in Connection
      /\ conn[c].st # "free" => conn[c].server \in Store
      /\ conn[c].client # None => conn[c].client \in Store
  BY DEF TypeOK, Connection
<1>2. CASE conn'[c] = conn[c]
  BY <1>1, <1>2, HeldKeeps DEF RequestFits, Held
<1>3. CASE conn'[c] = Free
  BY <1>3 DEF RequestFits, Free
<1>4. CASE conn'[c] = [conn[c] EXCEPT !.client = None]
  <2>1. /\ conn'[c].client = None /\ conn'[c].st = conn[c].st
        /\ conn'[c].server = conn[c].server /\ conn'[c].batch = conn[c].batch
        /\ conn'[c].theirs = conn[c].theirs
    BY <1>1, <1>4 DEF Connection
  <2> QED
    BY <1>1, <2>1, HeldKeeps DEF RequestFits, Held
<1> QED
  BY <1>2, <1>3, <1>4 DEF Abandon

\* A step that leaves the stores alone.
LEMMA StoresUntouched ==
    ASSUME Gapless, Stored, UNCHANGED <<log, ops, open, seqByAuthor>>
    PROVE  Gapless' /\ Stored' /\ HeldGrows
  BY DEF Gapless, Stored, HeldGrows, Held, Covers

\* Requests that keep their client and server stay linked while the call of
\* that client keeps waiting.
LEMMA LinksKept ==
    ASSUME \A c \in Conn : Linked(c),
           \A c \in Conn : conn'[c].client # None =>
              /\ conn'[c].client = conn[c].client
              /\ conn'[c].server = conn[c].server
              /\ session[conn[c].client].st = "wait" =>
                    /\ session'[conn[c].client].st = "wait"
                    /\ session'[conn[c].client].peer = session[conn[c].client].peer
    PROVE  \A c \in Conn : Linked(c)'
  BY DEF Linked

\* A store is opened: what it holds is what was in the log, and its summary
\* is computed from that.
LEMMA OpenKeeps ==
    ASSUME GapState, NEW s \in Store, OpenStore(s)
    PROVE  GapParts'
<1>0. TypeOK /\ GapParts
  BY DEF GapState
<1>1. /\ s \notin open /\ open' = open \cup {s} /\ UNCHANGED <<log, session, conn>>
      /\ ops'[s] = log[Home[s]] /\ \A t \in Store : t # s => ops'[t] = ops[t]
      /\ seqByAuthor'[s] = Summary(log[Home[s]])
      /\ \A t \in Store : t # s => seqByAuthor'[t] = seqByAuthor[t]
  BY <1>0 DEF OpenStore, TypeOK
<1>2. log[Home[s]] \in SUBSET Operation /\ GapFree(log[Home[s]])
  BY <1>0, StoreAssumption DEF TypeOK, GapParts, Gapless
<1>3. ClosedEmpty'
  BY <1>0, <1>1 DEF GapParts, ClosedEmpty
<1>4. Gapless'
  BY <1>0, <1>1, <1>2 DEF GapParts, Gapless
<1>5. Stored'
  <2>1. Covers(ops'[s], seqByAuthor'[s])
    BY <1>1, <1>2, SummaryCovered
  <2> QED
    BY <1>0, <1>1, <2>1 DEF GapParts, Stored
<1>6. HeldGrows
  BY <1>1 DEF HeldGrows, Held
<1>7. \A t \in Store : SessionFits(t)'
  BY <1>0, <1>1, <1>6, SessionKept DEF GapParts
<1>8. \A c \in Conn : RequestFits(c)'
  BY <1>0, <1>1, <1>6, RequestKept DEF GapParts
<1>9. \A c \in Conn : Linked(c)'
  BY <1>0, <1>1, LinksKept DEF GapParts
<1> QED
  BY <1>3, <1>4, <1>5, <1>7, <1>8, <1>9 DEF GapParts

\* A process ends: what it held is in the log, and whoever talked to it or
\* was served by it is let go.
LEMMA CloseKeeps ==
    ASSUME GapState, NEW s \in Store, CloseStore(s)
    PROVE  GapParts'
<1>0. TypeOK /\ GapParts
  BY DEF GapState
<1>1. /\ s \in open /\ open' = open \ {s} /\ log' = log
      /\ ops'[s] = {} /\ \A t \in Store : t # s => ops'[t] = ops[t]
      /\ seqByAuthor'[s] = EmptySummary
      /\ \A t \in Store : t # s => seqByAuthor'[t] = seqByAuthor[t]
      /\ session'[s] = Idle /\ \A t \in Store : t # s => session'[t] = session[t]
  BY <1>0 DEF CloseStore, TypeOK
<1>2. Idle.st = "idle" /\ Free.client = None
  BY DEF Idle, Free
<1>3. ASSUME NEW c \in Conn
      PROVE  /\ conn'[c] \in {conn[c], Abandon(conn[c]), Free}
             /\ conn'[c].client # None => conn'[c] = conn[c] /\ conn[c].client # s
  <2>1. conn'[c] = IF conn[c].server = s THEN Free
                   ELSE IF conn[c].client = s THEN Abandon(conn[c]) ELSE conn[c]
    BY <1>1 DEF CloseStore
  <2>2. Abandon(conn[c]).client = None
    BY <1>0, <1>2 DEF Abandon, TypeOK, Connection
  <2> QED
    BY <1>2, <2>1, <2>2
<1>4. ClosedEmpty'
  BY <1>0, <1>1, <1>2 DEF GapParts, ClosedEmpty
<1>5. Gapless'
  <2>1. GapFree({})
    BY DEF GapFree
  <2> QED
    BY <1>0, <1>1, <2>1 DEF GapParts, Gapless
<1>6. Stored'
  BY <1>0, <1>1, NothingFits DEF GapParts, Stored
<1>7. HeldGrows
  BY <1>0, <1>1 DEF GapParts, Stored, HeldGrows, Held
<1>8. \A t \in Store : SessionFits(t)'
  <2>1. SessionFits(s)'
    BY <1>1, <1>2 DEF SessionFits
  <2>2. \A t \in Store : t # s => SessionFits(t)'
    BY <1>0, <1>1, <1>7, SessionKept DEF GapParts
  <2> QED
    BY <2>1, <2>2
<1>9. \A c \in Conn : RequestFits(c)'
  BY <1>0, <1>3, <1>7, RequestKept DEF GapParts
<1>10. \A c \in Conn : Linked(c)'
  <2>1. \A c \in Conn : conn[c].client # None => conn[c].client \in Store
    BY <1>0 DEF TypeOK, Connection
  <2> QED
    BY <1>0, <1>1, <1>3, <2>1, LinksKept DEF GapParts
<1> QED
  BY <1>4, <1>5, <1>6, <1>8, <1>9, <1>10 DEF GapParts

\* A command appends: its summary covers all numbers below the new one.
LEMMA AppendKeeps ==
    ASSUME WritesSucceed', GapState, NEW s \in Store, AppendLocalOp(s)
    PROVE  GapParts'
<1>0. TypeOK /\ GapParts
  BY DEF GapState
<1> DEFINE o == OwnOp(s)
<1>1. PICK added \in BOOLEAN : AddOperation(s, o, added)
  BY DEF AppendLocalOp
<1>2. /\ s \in open /\ session[s].st \in {"idle", "author"}
      /\ UNCHANGED <<open, conn>>
      /\ session' = [session EXCEPT ![s].st = "author"]
  BY DEF AppendLocalOp
<1>3. /\ session'[s].st = "author"
      /\ \A t \in Store : t # s => session'[t] = session[t]
  BY <1>0, <1>2 DEF TypeOK, Session
<1>4. o \in Operation
  BY <1>0, OwnOpType
<1>5. Prepared(ops[s], o)
  <2>1. /\ o.author = Home[s] /\ o.seq = seqByAuthor[s][Home[s]] + 1
        /\ Home[s] \in Node /\ seqByAuthor[s][Home[s]] \in Nat
    BY <1>0, StoreAssumption, BoundAssumption DEF OwnOp, TypeOK, SummaryVector
  <2>2. Covers(ops[s], seqByAuthor[s])
    BY <1>0 DEF GapParts, Stored
  <2> HIDE DEF o
  <2> QED
    BY <2>1, <2>2, OwnIsPrepared
<1> HIDE DEF o
<1>6. Gapless' /\ Stored' /\ HeldGrows /\ \A t \in Store \ open : ops'[t] = ops[t]
  BY <1>0, <1>1, <1>2, <1>4, <1>5, AddStep DEF GapParts
<1>7. ClosedEmpty'
  BY <1>0, <1>2, <1>3, <1>6 DEF GapParts, ClosedEmpty
<1>8. \A t \in Store : SessionFits(t)'
  <2>1. SessionFits(s)'
    BY <1>3 DEF SessionFits
  <2>2. \A t \in Store : t # s => SessionFits(t)'
    BY <1>0, <1>3, <1>6, SessionKept DEF GapParts
  <2> QED
    BY <2>1, <2>2
<1>9. \A c \in Conn : RequestFits(c)'
  BY <1>0, <1>2, <1>6, RequestKept DEF GapParts
<1>10. \A c \in Conn : Linked(c)'
  <2>1. \A c \in Conn : conn[c].client # None => conn[c].client \in Store
    BY <1>0 DEF TypeOK, Connection
  <2> QED
    BY <1>0, <1>2, <1>3, <2>1, LinksKept DEF GapParts
<1> QED
  BY <1>6, <1>7, <1>8, <1>9, <1>10 DEF GapParts

\* A step of the client s and of at most one request, which touches no store:
\* what is left to show is that s and that request still fit and are linked.
LEMMA TalkKeeps ==
    ASSUME GapState, UNCHANGED <<log, ops, open, seqByAuthor>>,
           NEW s \in Store, \A t \in Store : t # s => session'[t] = session[t],
           session[s].st = "idle" => s \in open, SessionFits(s)',
           \A c \in Conn : \/ RequestFits(c)'
                           \/ conn'[c] \in {conn[c], Abandon(conn[c]), Free},
           \A c \in Conn : Linked(c)'
    PROVE  GapParts'
<1>0. TypeOK /\ GapParts
  BY DEF GapState
<1>1. Gapless' /\ Stored' /\ HeldGrows
  BY <1>0, StoresUntouched DEF GapParts
<1>2. ClosedEmpty'
  BY <1>0 DEF GapParts, ClosedEmpty
<1>3. \A t \in Store : SessionFits(t)'
  <2>1. \A t \in Store : t # s => SessionFits(t)'
    BY <1>0, <1>1, SessionKept DEF GapParts
  <2> QED
    BY <2>1
<1>4. \A c \in Conn : RequestFits(c)'
  BY <1>0, <1>1, RequestKept DEF GapParts
<1> QED
  BY <1>1, <1>2, <1>3, <1>4 DEF GapParts

\* The steps of SyncPeer that touch no store.
LEMMA ClientKeeps ==
    ASSUME GapState, NEW s \in Store,
           \/ \E d \in Daemon : StartSync(s, d)
           \/ \E c \in Conn : SendRequest(s, c) \/ ReceiveResponse(s, c)
           \/ CallFails(s) \/ FinishRound(s)
    PROVE  GapParts'
<1>0. TypeOK /\ GapParts
  BY DEF GapState
<1>a. /\ \A c \in Conn : conn[c] \in Connection
      /\ \A c \in Conn : conn[c].client # None => conn[c].client \in Store
      /\ \A c \in Conn : conn[c].client = s => s # None
      /\ \A c \in Conn : Linked(c) /\ RequestFits(c)
      /\ SessionFits(s)
  BY <1>0, StoreAssumption DEF TypeOK, Connection, GapParts
<1>b. Idle.st = "idle" /\ Idle.batch = {} /\ Free.client = None /\ Free.st = "free"
  BY DEF Idle, Free
<1>c. session[s].st # "idle" => s \in open
  BY <1>0 DEF GapParts, ClosedEmpty
<1>1. ASSUME NEW d \in Daemon, StartSync(s, d) PROVE GapParts'
  <2>1. /\ s \in open /\ session[s].st = "idle"
        /\ session'[s].st = "ask" /\ session'[s].peer = d /\ session'[s].batch = {}
        /\ \A t \in Store : t # s => session'[t] = session[t]
        /\ UNCHANGED <<log, ops, open, seqByAuthor, conn>>
    BY <1>0, <1>1 DEF StartSync, Idle, TypeOK
  <2>2. SessionFits(s)'
    BY <2>1, NothingFits DEF SessionFits
  <2>3. \A c \in Conn : Linked(c)'
    BY <1>a, <2>1, LinksKept
  <2> QED
    BY <2>1, <2>2, <2>3, TalkKeeps
<1>2. ASSUME NEW c \in Conn, SendRequest(s, c) PROVE GapParts'
  <2>1. /\ session[s].st = "ask" /\ conn[c] = Free
        /\ session'[s].st = "wait" /\ session'[s].peer = session[s].peer
        /\ \A t \in Store : t # s => session'[t] = session[t]
        /\ conn'[c] = [st |-> "add", client |-> s, server |-> session[s].peer,
                       batch |-> session[s].batch, known |-> seqByAuthor[s],
                       theirs |-> EmptySummary]
        /\ \A k \in Conn : k # c => conn'[k] = conn[k]
        /\ UNCHANGED <<log, ops, open, seqByAuthor>>
    BY <1>0, <1>2 DEF SendRequest, TypeOK, Session
  <2>2. SessionFits(s)'
    BY <1>a, <2>1 DEF SessionFits
  <2>3. RequestFits(c)'
    <3>1. Fits(Held(session[s].peer), session[s].batch)
      BY <1>a, <2>1 DEF SessionFits
    <3>2. Covers(Held(s), seqByAuthor[s])
      BY <1>0, <1>c, <2>1 DEF GapParts, Stored, Held
    <3> QED
      BY <2>1, <3>1, <3>2 DEF RequestFits, Held
  <2>4. \A k \in Conn : Linked(k)'
    <3>1. \A k \in Conn : conn[k].client # s
      BY <1>a, <2>1 DEF Linked
    <3> QED
      BY <1>a, <2>1, <3>1 DEF Linked
  <2> QED
    BY <1>c, <2>1, <2>2, <2>3, <2>4, TalkKeeps
<1>3. ASSUME NEW c \in Conn, ReceiveResponse(s, c) PROVE GapParts'
  <2>1. /\ session[s].st = "wait" /\ conn[c].client = s /\ conn[c].st = "reply"
        /\ session'[s].st = "apply" /\ session'[s].peer = session[s].peer
        /\ session'[s].batch = conn[c].batch /\ session'[s].theirs = conn[c].theirs
        /\ \A t \in Store : t # s => session'[t] = session[t]
        /\ conn'[c] = Free /\ \A k \in Conn : k # c => conn'[k] = conn[k]
        /\ UNCHANGED <<log, ops, open, seqByAuthor>>
    <3> DEFINE got == [session[s] EXCEPT !.st = "apply", !.batch = conn[c].batch,
                                         !.theirs = conn[c].theirs]
    <3>1. session \in [Store -> Session] /\ conn \in [Conn -> Connection]
      BY <1>0 DEF TypeOK
    <3>2. session' = [session EXCEPT ![s] = got] /\ conn' = [conn EXCEPT ![c] = Free]
      BY <1>3 DEF ReceiveResponse
    <3>3. /\ got.st = "apply" /\ got.peer = session[s].peer
          /\ got.batch = conn[c].batch /\ got.theirs = conn[c].theirs
      BY <3>1 DEF Session
    <3> HIDE DEF got
    <3> QED
      BY <1>3, <3>1, <3>2, <3>3 DEF ReceiveResponse
  <2>2. session[s].peer = conn[c].server /\ \A k \in Conn : conn[k].client = s => k = c
    BY <1>a, <2>1 DEF Linked
  <2>3. SessionFits(s)'
    BY <1>a, <2>1, <2>2 DEF SessionFits, RequestFits, Held
  <2>4. \A k \in Conn : Linked(k)'
    BY <1>a, <1>b, <2>1, <2>2, LinksKept
  <2> QED
    BY <1>c, <2>1, <2>3, <2>4, TalkKeeps
<1>4. ASSUME CallFails(s) PROVE GapParts'
  <2>1. /\ session[s].st \in {"ask", "wait"} /\ session'[s] = Idle
        /\ \A t \in Store : t # s => session'[t] = session[t]
        /\ UNCHANGED <<log, ops, open, seqByAuthor>>
    BY <1>0, <1>4 DEF CallFails, TypeOK
  <2>2. ASSUME NEW k \in Conn
        PROVE  /\ conn'[k] \in {conn[k], Abandon(conn[k]), Free}
               /\ conn'[k].client # None => conn'[k] = conn[k] /\ conn[k].client # s
    <3>1. Abandon(conn[k]).client = None
      BY <1>a, <1>b DEF Abandon, Connection
    <3>2. CASE conn' = conn /\ \A c \in Conn : conn[c].client # s
      BY <3>2
    <3>3. CASE conn' = conn /\ session[s].st = "ask"
      BY <1>a, <3>3 DEF Linked
    <3>4. ASSUME NEW c \in Conn, conn[c].client = s, session[s].st = "wait",
                 conn' = [conn EXCEPT ![c] = Abandon(@)]
          PROVE  /\ conn'[k] \in {conn[k], Abandon(conn[k]), Free}
                 /\ conn'[k].client # None => conn'[k] = conn[k] /\ conn[k].client # s
      <4>1. conn[k].client = s => k = c
        BY <1>a, <3>4 DEF Linked
      <4>2. conn'[k] = IF k = c THEN Abandon(conn[k]) ELSE conn[k]
        BY <1>0, <3>4 DEF TypeOK
      <4> QED
        BY <3>1, <4>1, <4>2
    <3> QED
      BY <1>4, <3>2, <3>3, <3>4 DEF CallFails
  <2>3. SessionFits(s)'
    BY <1>b, <2>1 DEF SessionFits
  <2>4. \A k \in Conn : Linked(k)'
    BY <1>a, <2>1, <2>2, LinksKept
  <2> QED
    BY <2>1, <2>2, <2>3, <2>4, TalkKeeps
<1>5. ASSUME FinishRound(s) PROVE GapParts'
  <2> DEFINE toSend == MissingFor(ops[s], session[s].theirs)
             next   == [Idle EXCEPT !.st = "ask", !.peer = session[s].peer,
                                    !.round = session[s].round + 1, !.batch = toSend]
  <2>1. /\ session[s].st = "apply" /\ session'[s] \in {Idle, next}
        /\ \A t \in Store : t # s => session'[t] = session[t]
        /\ UNCHANGED <<log, ops, open, seqByAuthor, conn>>
    BY <1>0, <1>5 DEF FinishRound, TypeOK
  <2>2. next.st = "ask" /\ next.peer = session[s].peer /\ next.batch = toSend
    BY DEF Idle
  <2>3. session[s].peer \in Daemon /\ Fits(Held(session[s].peer), toSend)
    <3>1. /\ ops[s] \in SUBSET Operation /\ session[s].theirs \in SummaryVector
          /\ GapFree(ops[s])
      BY <1>0 DEF TypeOK, Session, GapParts, Gapless
    <3>2. session[s].peer \in Daemon /\ Covers(Held(session[s].peer), session[s].theirs)
      BY <1>a, <2>1 DEF SessionFits
    <3> QED
      BY <3>1, <3>2, MissingForFits
  <2> HIDE DEF toSend, next
  <2>4. SessionFits(s)'
    BY <1>b, <2>1, <2>2, <2>3 DEF SessionFits, Held
  <2>5. \A c \in Conn : Linked(c)'
    BY <1>a, <2>1, LinksKept
  <2> QED
    BY <1>c, <2>1, <2>4, <2>5, TalkKeeps
<1> QED
  BY <1>1, <1>2, <1>3, <1>4, <1>5

\* A client adds the next operation of an answer.
LEMMA ApplyKeeps ==
    ASSUME WritesSucceed', GapState, NEW s \in Store, ApplyOp(s)
    PROVE  GapParts'
<1>0. TypeOK /\ GapParts
  BY DEF GapState
<1>1. PICK o \in session[s].batch, added \in BOOLEAN :
          /\ IsFirst(o, session[s].batch)
          /\ AddOperation(s, o, added)
          /\ session' = [session EXCEPT ![s].batch = @ \ {o},
                                        ![s].pulled = @ \/ added]
  BY DEF ApplyOp
<1>2. /\ session[s].st = "apply" /\ UNCHANGED <<open, conn>>
      /\ session[s].batch \in SUBSET Operation /\ o \in Operation
  BY <1>0 DEF ApplyOp, TypeOK, Session
<1>3. s \in open
  BY <1>0, <1>2 DEF GapParts, ClosedEmpty
<1>4. /\ session'[s].st = "apply" /\ session'[s].peer = session[s].peer
      /\ session'[s].theirs = session[s].theirs
      /\ session'[s].batch = session[s].batch \ {o}
      /\ \A t \in Store : t # s => session'[t] = session[t]
  BY <1>0, <1>1, <1>2 DEF TypeOK, Session
<1>5. /\ session[s].peer \in Daemon
      /\ Fits(ops[s], session[s].batch)
      /\ Covers(Held(session[s].peer), session[s].theirs)
  BY <1>0, <1>2, <1>3 DEF GapParts, SessionFits, Held
<1>6. Prepared(ops[s], o)
  BY <1>1, <1>2, <1>5, FirstIsPrepared
<1>7. /\ Gapless' /\ Stored' /\ HeldGrows
      /\ \E x \in Held(s)' : SameKey(x, o)
      /\ \A t \in Store \ open : ops'[t] = ops[t]
  BY <1>0, <1>1, <1>2, <1>3, <1>6, AddStep DEF GapParts
<1>8. ClosedEmpty'
  BY <1>0, <1>2, <1>3, <1>4, <1>7 DEF GapParts, ClosedEmpty
<1>9. \A t \in Store : SessionFits(t)'
  <2>1. Fits(Held(s)', session[s].batch \ {o})
    <3>1. Held(s) = ops[s] /\ Held(s) \subseteq Held(s)'
      BY <1>3, <1>7 DEF Held, HeldGrows
    <3> QED
      BY <1>5, <1>7, <3>1, RestFits
  <2>2. SessionFits(s)'
    <3>1. \A d \in Daemon : Covers(Held(d), session[s].theirs) =>
                                Covers(Held(d)', session[s].theirs)
      BY <1>7, HeldKeeps, StoreAssumption
    <3> QED
      BY <1>4, <1>5, <2>1, <3>1 DEF SessionFits, Held
  <2>3. \A t \in Store : t # s => SessionFits(t)'
    BY <1>0, <1>4, <1>7, SessionKept DEF GapParts
  <2> QED
    BY <2>2, <2>3
<1>10. \A c \in Conn : RequestFits(c)'
  BY <1>0, <1>2, <1>7, RequestKept DEF GapParts
<1>11. \A c \in Conn : Linked(c)'
  <2>1. \A c \in Conn : conn[c].client # None => conn[c].client \in Store
    BY <1>0 DEF TypeOK, Connection
  <2> QED
    BY <1>0, <1>2, <1>4, <2>1, LinksKept DEF GapParts
<1> QED
  BY <1>7, <1>8, <1>9, <1>10, <1>11 DEF GapParts

\* A handler adds the next operation of a request.
LEMMA HandleOpKeeps ==
    ASSUME WritesSucceed', GapState, NEW c \in Conn, HandleOp(c)
    PROVE  GapParts'
<1>0. TypeOK /\ GapParts
  BY DEF GapState
<1> DEFINE s == conn[c].server
<1>1. PICK o \in conn[c].batch, added \in BOOLEAN :
          /\ IsFirst(o, conn[c].batch)
          /\ AddOperation(s, o, added)
          /\ conn' = [conn EXCEPT ![c].batch = @ \ {o}]
  BY DEF HandleOp
<1>2. /\ conn[c].st = "add" /\ UNCHANGED <<open, session>>
      /\ conn[c].batch \in SUBSET Operation /\ o \in Operation
      /\ s \in open /\ s \in Store
  BY <1>0 DEF HandleOp, TypeOK, Connection
<1>3. /\ conn'[c].st = "add" /\ conn'[c].client = conn[c].client
      /\ conn'[c].server = s /\ conn'[c].known = conn[c].known
      /\ conn'[c].batch = conn[c].batch \ {o}
      /\ \A k \in Conn : k # c => conn'[k] = conn[k]
      /\ conn[c].client # None => conn[c].client \in Store
  BY <1>0, <1>1, <1>2 DEF TypeOK, Connection
<1>4. /\ Fits(ops[s], conn[c].batch)
      /\ conn[c].client # None => Covers(Held(conn[c].client), conn[c].known)
  BY <1>0, <1>2 DEF GapParts, RequestFits, Held
<1>5. Prepared(ops[s], o)
  BY <1>1, <1>2, <1>4, FirstIsPrepared
<1> HIDE DEF s
<1>6. /\ Gapless' /\ Stored' /\ HeldGrows
      /\ \A t \in Store \ open : ops'[t] = ops[t]
  BY <1>0, <1>1, <1>2, <1>5, AddStep DEF GapParts
<1>7. ClosedEmpty'
  BY <1>0, <1>2, <1>6 DEF GapParts, ClosedEmpty
<1>8. \A t \in Store : SessionFits(t)'
  BY <1>0, <1>2, <1>6, SessionKept DEF GapParts
<1>9. \A k \in Conn : RequestFits(k)'
  <2>1. \A d \in open : d = s => \E x \in Held(d)' : SameKey(x, o)
    BY <1>0, <1>1, <1>2, <1>5, AddStep DEF GapParts
  <2>2. \A d \in open : d = s => Fits(Held(d)', conn[c].batch \ {o})
    <3> SUFFICES ASSUME NEW d \in open, d = s
                 PROVE  Fits(Held(d)', conn[c].batch \ {o})
      OBVIOUS
    <3>1. Held(d) = ops[s] /\ Held(d) \subseteq Held(d)'
      BY <1>2, <1>6 DEF Held, HeldGrows
    <3> QED
      BY <1>4, <2>1, <3>1, RestFits
  <2>3. RequestFits(c)'
    BY <1>2, <1>3, <1>4, <1>6, <2>2, HeldKeeps DEF RequestFits, Held
  <2>4. \A k \in Conn : k # c => RequestFits(k)'
    BY <1>0, <1>3, <1>6, RequestKept DEF GapParts
  <2> QED
    BY <2>3, <2>4
<1>10. \A k \in Conn : Linked(k)'
  BY <1>0, <1>2, <1>3, LinksKept DEF GapParts, s
<1> QED
  BY <1>6, <1>7, <1>8, <1>9, <1>10 DEF GapParts

\* A handler reads the summary, or selects the answer.
LEMMA HandlerKeeps ==
    ASSUME GapState, NEW c \in Conn, HandleSummary(c) \/ HandleReply(c)
    PROVE  GapParts'
<1>0. TypeOK /\ GapParts
  BY DEF GapState
<1>1. /\ conn[c].st # "free" /\ UNCHANGED <<log, ops, open, seqByAuthor, session>>
      /\ \A k \in Conn : k # c => conn'[k] = conn[k]
      /\ conn[c] \in Connection /\ conn[c].server \in open /\ conn[c].server \in Store
  BY <1>0 DEF HandleSummary, HandleReply, TypeOK
<1>2. /\ RequestFits(c) /\ Covers(ops[conn[c].server], seqByAuthor[conn[c].server])
      /\ GapFree(ops[conn[c].server]) /\ ops[conn[c].server] \in SUBSET Operation
  BY <1>0, <1>1 DEF GapParts, Gapless, Stored, TypeOK
<1>3. RequestFits(c)' /\ (conn'[c].client # None => /\ conn'[c].client = conn[c].client
                                                   /\ conn'[c].server = conn[c].server)
  <2>1. CASE HandleSummary(c)
    <3>1. conn'[c] = [conn[c] EXCEPT !.st = "summed",
                                     !.theirs = seqByAuthor[conn[c].server]]
      BY <2>1, <1>0 DEF HandleSummary, TypeOK
    <3>2. /\ conn'[c].st = "summed" /\ conn'[c].client = conn[c].client
          /\ conn'[c].server = conn[c].server /\ conn'[c].known = conn[c].known
          /\ conn'[c].theirs = seqByAuthor[conn[c].server]
      BY <1>1, <3>1 DEF Connection
    <3> QED
      BY <1>1, <1>2, <3>2 DEF RequestFits, Held
  <2>2. CASE HandleReply(c)
    <3> DEFINE answer == MissingFor(ops[conn[c].server], conn[c].known)
    <3>1. conn[c].st = "summed" /\ conn[c].known \in SummaryVector
      BY <2>2, <1>1 DEF HandleReply, Connection
    <3>2. conn'[c] = IF conn[c].client = None THEN Free
                     ELSE [conn[c] EXCEPT !.st = "reply", !.batch = answer,
                                          !.known = EmptySummary]
      BY <2>2, <1>0 DEF HandleReply, TypeOK
    <3>3. conn[c].client # None => Fits(Held(conn[c].client), answer)
      BY <1>2, <3>1, MissingForFits DEF RequestFits
    <3> HIDE DEF answer
    <3>4. CASE conn[c].client = None
      BY <3>2, <3>4 DEF RequestFits, Free
    <3>5. CASE conn[c].client # None
      <4>1. /\ conn'[c].st = "reply" /\ conn'[c].client = conn[c].client
            /\ conn'[c].server = conn[c].server /\ conn'[c].known = EmptySummary
            /\ conn'[c].batch = answer /\ conn'[c].theirs = conn[c].theirs
        BY <1>1, <3>2, <3>5 DEF Connection
      <4> QED
        BY <1>1, <1>2, <3>1, <3>3, <3>5, <4>1, NothingFits DEF RequestFits, Held
    <3> QED
      BY <3>4, <3>5
  <2> QED
    BY <2>1, <2>2
<1>4. Gapless' /\ Stored' /\ HeldGrows
  BY <1>0, <1>1, StoresUntouched DEF GapParts
<1>5. ClosedEmpty'
  BY <1>0, <1>1 DEF GapParts, ClosedEmpty
<1>6. \A t \in Store : SessionFits(t)'
  BY <1>0, <1>1, <1>4, SessionKept DEF GapParts
<1>7. \A k \in Conn : RequestFits(k)'
  BY <1>0, <1>1, <1>3, <1>4, RequestKept DEF GapParts
<1>8. \A k \in Conn : Linked(k)'
  BY <1>0, <1>1, <1>3, LinksKept DEF GapParts
<1> QED
  BY <1>4, <1>5, <1>6, <1>7, <1>8 DEF GapParts

\* A write that failed is never undone.
LEMMA ErrorsStay ==
    ASSUME TypeOK, [Next]_vars, WritesSucceed'
    PROVE  WritesSucceed
<1>0. writeErrors \in Nat
  BY LimitAssumption DEF TypeOK
<1>1. ASSUME NEW s \in Store, NEW o, NEW added, AddOperation(s, o, added)
      PROVE  writeErrors' = writeErrors \/ writeErrors' = writeErrors + 1
  BY <1>1 DEF AddOperation, storeVars
<1>2. writeErrors' = writeErrors \/ writeErrors' = writeErrors + 1
  <2>1. \A d \in Daemon : d \in Store
    BY StoreAssumption
  <2>2. ASSUME NEW s \in Store, AppendLocalOp(s) \/ ApplyOp(s)
        PROVE  writeErrors' = writeErrors \/ writeErrors' = writeErrors + 1
    BY <1>1, <2>2 DEF AppendLocalOp, ApplyOp
  <2>3. ASSUME NEW c \in Conn, HandleOp(c)
        PROVE  writeErrors' = writeErrors \/ writeErrors' = writeErrors + 1
    <3>1. PICK o \in conn[c].batch, added \in BOOLEAN :
              AddOperation(conn[c].server, o, added)
      BY <2>3 DEF HandleOp
    <3> QED
      BY <3>1 DEF AddOperation, storeVars
  <2>4. CASE UNCHANGED vars
    BY <2>4 DEF vars
  <2>5. ASSUME NEW s \in Store, StoreNext(s), ~AppendLocalOp(s), ~ApplyOp(s)
        PROVE  writeErrors' = writeErrors
    BY <2>5 DEF StoreNext, OpenStore, CloseStore, StartSync, SendRequest, CallFails,
                ReceiveResponse, FinishRound
  <2>6. ASSUME NEW c \in Conn, HandlerNext(c), ~HandleOp(c)
        PROVE  writeErrors' = writeErrors
    BY <2>6 DEF HandlerNext, HandleSummary, HandleReply
  <2> QED
    BY <2>2, <2>3, <2>4, <2>5, <2>6 DEF Next
<1> QED
  BY <1>0, <1>2 DEF WritesSucceed

\* Every step keeps the invariant.
LEMMA GapStep ==
    ASSUME GapInv, [Next]_vars
    PROVE  GapInv'
<1>1. TypeOK'
  BY TypeStep DEF GapInv
<1>2. ASSUME WritesSucceed' PROVE GapParts'
  <2>0. GapState
    BY <1>2, ErrorsStay DEF GapInv, GapState
  <2>1. CASE UNCHANGED vars
    BY <2>0, <2>1 DEF GapState, GapParts, vars, ClosedEmpty, Gapless, Stored, SessionFits,
                RequestFits, Linked, Held, Covers
  <2>2. CASE Next
    BY <1>2, <2>0, <2>2, OpenKeeps, CloseKeeps, AppendKeeps, ClientKeeps,
       ApplyKeeps, HandleOpKeeps, HandlerKeeps DEF Next, StoreNext, HandlerNext
  <2> QED
    BY <2>1, <2>2
<1> QED
  BY <1>1, <1>2 DEF GapInv

\* In the initial state nothing is held and nothing is going on.
LEMMA GapInit == Init => GapInv
<1> SUFFICES ASSUME Init PROVE GapInv
  OBVIOUS
<1>1. /\ Idle.st = "idle" /\ Free.st = "free" /\ Free.client = None
      /\ \A n \in Node : log[n] = {}
      /\ \A s \in Store : /\ ops[s] = {} /\ seqByAuthor[s] = EmptySummary
                          /\ session[s] = Idle
      /\ \A c \in Conn : conn[c] = Free
  BY DEF Idle, Free, Init
<1>2. ClosedEmpty /\ Gapless /\ Stored
  BY <1>1, NothingFits DEF ClosedEmpty, Gapless, GapFree, Stored
<1>3. /\ \A s \in Store : SessionFits(s)
      /\ \A c \in Conn : RequestFits(c) /\ Linked(c)
  BY <1>1 DEF SessionFits, RequestFits, Linked
<1> QED
  BY <1>2, <1>3, TypeInit DEF GapInv, GapParts

-----------------------------------------------------------------------------
(* Theorems.                                                               *)

\* Until a write to ops.log fails, no log and no memory ever holds an
\* operation without all earlier ones of its author: neither the batch limit
\* nor restarts, late handlers, lost answers or several writers make a gap.
THEOREM NoGapsHolds == Spec => []NoGaps
<1>1. GapInv /\ [Next]_vars => GapInv'
  BY GapStep
<1>2. GapInv => NoGaps
  BY DEF GapInv, GapParts, WritesSucceed, NoGaps
<1> QED
  BY <1>1, <1>2, GapInit, PTL DEF Spec

\* Until a write to ops.log fails, what a store claims to have is on its
\* disk, so peers never leave out an operation that a crash could lose.
THEOREM SummaryDurableHolds == Spec => []SummaryDurable
<1>1. GapInv /\ [Next]_vars => GapInv'
  BY GapStep
<1>2. GapInv => SummaryDurable
  BY DEF GapInv, GapParts, WritesSucceed, TypeOK, Stored, Covers, SummaryDurable
<1> QED
  BY <1>1, <1>2, GapInit, PTL DEF Spec

-----------------------------------------------------------------------------
(* The inductive invariant behind QuietEndMeansSynced.                     *)

\* No store holds an operation beyond its summary: the summary is exact.
Bounded == \A s \in Store : \A o \in ops[s] : o.seq <= seqByAuthor[s][o.author]

\* For someone who has what f stands for, the batch is all news, and it is
\* empty only if the other side, which has what "theirs" stands for, has none.
News(f, theirs, batch) ==
    /\ \A o \in batch : o.seq > f[o.author]
    /\ (\E a \in Node : theirs[a] > f[a]) => batch # {}

\* While a command waits, its memory is what its request says it is.
Asked(c) ==
    conn[c].client \in Cli =>
        /\ conn[c].st \in {"add", "summed"} =>
              conn[c].known = seqByAuthor[conn[c].client]
        /\ conn[c].st = "reply" =>
              News(seqByAuthor[conn[c].client], conn[c].theirs, conn[c].batch)

\* A command that has pulled nothing in this round has all the news before it.
Answered(s) ==
    session[s].st = "apply" /\ ~session[s].pulled =>
        News(seqByAuthor[s], session[s].theirs, session[s].batch)

Exchange == (\A c \in Conn : Asked(c)) /\ (\A s \in Cli : Answered(s))

QuietInv == GapInv /\ Bounded /\ (WritesSucceed => Exchange)

-----------------------------------------------------------------------------
(* Exact summaries.                                                        *)

\* Adding an operation raises the summary with the memory, of one store only,
\* whether it can be written or not.
LEMMA AddBounded ==
    ASSUME TypeOK, Bounded, NEW s \in Store, NEW o \in Operation, NEW added,
           AddOperation(s, o, added)
    PROVE  /\ Bounded'
           /\ \A t \in Store : t # s => seqByAuthor'[t] = seqByAuthor[t]
<1>1. /\ ops \in [Store -> SUBSET Operation] /\ seqByAuthor \in [Store -> SummaryVector]
      /\ o.author \in Node /\ o.seq \in Nat
  BY OperationFields DEF TypeOK
<1>2. CASE ~Addable(ops[s], o)
  BY <1>2 DEF AddOperation, storeVars, Bounded
<1>3. CASE Addable(ops[s], o)
  <2> DEFINE top == seqByAuthor[s][o.author]
             row == [seqByAuthor[s] EXCEPT ![o.author] = IF o.seq > top THEN o.seq ELSE top]
  <2>1. ops' = [ops EXCEPT ![s] = @ \cup {o}]
    BY <1>3 DEF AddOperation
  <2>2. seqByAuthor' = [seqByAuthor EXCEPT ![s] = row]
    BY <1>3 DEF AddOperation
  <2>3. /\ ops'[s] = ops[s] \cup {o} /\ seqByAuthor'[s] = row
        /\ \A t \in Store : t # s => ops'[t] = ops[t] /\ seqByAuthor'[t] = seqByAuthor[t]
    BY <1>1, <2>1, <2>2
  <2>4. ASSUME NEW x \in ops'[s] PROVE x.seq <= row[x.author]
    <3>1. x \in Operation /\ (x \in ops[s] \/ x = o)
      BY <1>1, <2>3
    <3>2. /\ x.author \in Node /\ x.seq \in Nat /\ top \in Nat
          /\ seqByAuthor[s][x.author] \in Nat
      BY <1>1, <3>1, OperationFields, BoundAssumption DEF SummaryVector
    <3>3. x \in ops[s] => x.seq <= seqByAuthor[s][x.author]
      BY DEF Bounded
    <3>4. row[x.author] = IF x.author = o.author
                          THEN (IF o.seq > top THEN o.seq ELSE top)
                          ELSE seqByAuthor[s][x.author]
      BY <1>1, <3>2 DEF SummaryVector
    <3> HIDE DEF row
    <3>5. CASE x = o
      BY <1>1, <3>2, <3>4, <3>5
    <3>6. CASE x \in ops[s]
      BY <1>1, <3>2, <3>3, <3>4, <3>6
    <3> QED
      BY <3>1, <3>5, <3>6
  <2> QED
    BY <2>3, <2>4 DEF Bounded
<1> QED
  BY <1>2, <1>3

\* Every step keeps summaries exact.
LEMMA BoundedStep ==
    ASSUME TypeOK, Bounded, [Next]_vars
    PROVE  Bounded'
<1>1. CASE UNCHANGED <<ops, seqByAuthor>>
  BY <1>1 DEF Bounded
<1>2. ASSUME NEW s \in Store, OpenStore(s) PROVE Bounded'
  <2>1. log[Home[s]] \in SUBSET Operation
    BY StoreAssumption DEF TypeOK
  <2>2. /\ ops'[s] = log[Home[s]] /\ seqByAuthor'[s] = Summary(log[Home[s]])
        /\ \A t \in Store : t # s => ops'[t] = ops[t] /\ seqByAuthor'[t] = seqByAuthor[t]
    BY <1>2 DEF OpenStore, TypeOK
  <2>3. \A o \in ops'[s] : o.seq <= seqByAuthor'[s][o.author]
    BY <2>1, <2>2, SummaryFacts
  <2> QED
    BY <2>2, <2>3 DEF Bounded
<1>3. ASSUME NEW s \in Store, CloseStore(s) PROVE Bounded'
  BY <1>3 DEF CloseStore, TypeOK, Bounded
<1>4. ASSUME NEW s \in Store, AppendLocalOp(s) PROVE Bounded'
  <2>1. OwnOp(s) \in Operation
    BY <1>4, OwnOpType
  <2> QED
    BY <1>4, <2>1, AddBounded DEF AppendLocalOp
<1>5. ASSUME NEW s \in Store, ApplyOp(s) PROVE Bounded'
  <2>1. session[s].batch \in SUBSET Operation
    BY DEF TypeOK, Session
  <2> QED
    BY <1>5, <2>1, AddBounded DEF ApplyOp
<1>6. ASSUME NEW c \in Conn, HandleOp(c) PROVE Bounded'
  <2>1. conn[c].batch \in SUBSET Operation /\ conn[c].server \in Store
    BY <1>6 DEF HandleOp, TypeOK, Connection
  <2> QED
    BY <1>6, <2>1, AddBounded DEF HandleOp
<1> QED
  BY <1>1, <1>2, <1>3, <1>4, <1>5, <1>6
  DEF Next, StoreNext, HandlerNext, vars, StartSync, SendRequest, CallFails,
      ReceiveResponse, FinishRound, HandleSummary, HandleReply

-----------------------------------------------------------------------------
(* Steps.                                                                  *)

\* An answer computed for f, from a store that still has all it claimed when
\* its summary was read, is news for whoever has f.
LEMMA AnswerIsNews ==
    ASSUME NEW S \in SUBSET Operation, NEW f \in SummaryVector,
           NEW theirs \in SummaryVector, Covers(S, theirs)
    PROVE  News(f, theirs, MissingFor(S, f))
<1>1. ASSUME NEW a \in Node, theirs[a] > f[a] PROVE Newer(S, f) # {}
  <2>1. theirs[a] \in Nat /\ f[a] \in Nat /\ theirs[a] \in 1..theirs[a]
    BY <1>1, BoundAssumption DEF SummaryVector
  <2>2. PICK o \in S : o.author = a /\ o.seq = theirs[a]
    BY <2>1 DEF Covers
  <2> QED
    BY <1>1, <2>2 DEF Newer
<1> QED
  BY <1>1, MissingForSubset, MissingForNonempty DEF News

\* The first operation of news is taken into a memory whose summary is exact.
LEMMA NewsIsAddable ==
    ASSUME NEW S \in SUBSET Operation, NEW f \in SummaryVector,
           \A x \in S : x.seq <= f[x.author],
           NEW o \in Operation, o.seq > f[o.author]
    PROVE  Addable(S, o)
<1> SUFFICES ASSUME NEW x \in S, SameKey(x, o) PROVE FALSE
  BY DEF Addable
<1>1. x.author = o.author /\ x.seq = o.seq /\ x.seq <= f[o.author]
  BY DEF SameKey
<1>2. o.seq \in Nat /\ f[o.author] \in Nat
  BY OperationFields, BoundAssumption DEF SummaryVector
<1> QED
  BY <1>1, <1>2

\* A request that keeps its client, or loses it, when that client's memory
\* stays as it is.
LEMMA AskedKept ==
    ASSUME TypeOK, NEW c \in Conn, Asked(c),
           conn'[c] \in {conn[c], Abandon(conn[c]), Free},
           conn'[c] = conn[c] /\ conn[c].client \in Cli =>
              seqByAuthor'[conn[c].client] = seqByAuthor[conn[c].client]
    PROVE  Asked(c)'
<1>1. Free.client = None /\ None \notin Cli
  BY StoreAssumption DEF Free, Cli
<1>2. Abandon(conn[c]).client = None
  BY <1>1 DEF Abandon, TypeOK, Connection
<1>3. CASE conn'[c] = conn[c]
  BY <1>3 DEF Asked
<1>4. CASE conn'[c].client = None
  BY <1>1, <1>4 DEF Asked, Cli
<1> QED
  BY <1>1, <1>2, <1>3, <1>4

\* A step of a process s: the request it waits for is the only one whose
\* client's memory it may change, and then it no longer waits.
LEMMA ProcessKeeps ==
    ASSUME TypeOK, GapParts, Exchange, NEW s \in Store,
           \A t \in Store : t # s =>
              session'[t] = session[t] /\ seqByAuthor'[t] = seqByAuthor[t],
           \A c \in Conn : conn'[c] \in {conn[c], Abandon(conn[c]), Free},
           \A c \in Conn : conn'[c] = conn[c] /\ conn[c].client = s =>
              seqByAuthor'[s] = seqByAuthor[s],
           s \in Cli => Answered(s)'
    PROVE  Exchange'
<1>1. Cli \subseteq Store
  BY DEF Cli
<1>2. \A c \in Conn : Asked(c)'
  BY <1>1, AskedKept DEF Exchange
<1>3. \A t \in Cli : t # s => Answered(t)'
  BY <1>1 DEF Exchange, Answered
<1>4. \A t \in Cli : Answered(t)'
  BY <1>3
<1> QED
  BY <1>2, <1>4 DEF Exchange, Cli

\* Processes start, stop, append and call without disturbing an exchange.
LEMMA OutsideKeeps ==
    ASSUME TypeOK, GapParts, Exchange, NEW s \in Store,
           \/ OpenStore(s) \/ CloseStore(s) \/ AppendLocalOp(s)
           \/ CallFails(s) \/ FinishRound(s) \/ \E d \in Daemon : StartSync(s, d)
    PROVE  Exchange'
<1>1. /\ Idle.st = "idle" /\ Free.client = None
      /\ \A c \in Conn : conn[c].client # None => session[conn[c].client].st = "wait"
      /\ s \notin open => session[s].st = "idle"
      /\ s # None
  BY StoreAssumption DEF Idle, Free, GapParts, Linked, ClosedEmpty
<1>2. CASE OpenStore(s)
  <2>1. /\ session' = session /\ conn' = conn /\ session[s].st = "idle"
        /\ \A t \in Store : t # s => seqByAuthor'[t] = seqByAuthor[t]
    BY <1>1, <1>2 DEF OpenStore, TypeOK
  <2> QED
    BY <1>1, <2>1, ProcessKeeps DEF Answered
<1>3. CASE CloseStore(s)
  <2>1. /\ session'[s] = Idle
        /\ \A t \in Store : t # s => session'[t] = session[t] /\ seqByAuthor'[t] = seqByAuthor[t]
    BY <1>3 DEF CloseStore, TypeOK
  <2>2. \A c \in Conn : conn'[c] = IF conn[c].server = s THEN Free
                                   ELSE IF conn[c].client = s THEN Abandon(conn[c])
                                   ELSE conn[c]
    BY <1>3 DEF CloseStore
  <2>3. \A c \in Conn : Abandon(conn[c]).client = None
    BY <1>1 DEF Abandon, TypeOK, Connection
  <2>4. Answered(s)'
    BY <1>1, <2>1 DEF Answered
  <2>5. \A c \in Conn : ~(conn'[c] = conn[c] /\ conn[c].client = s)
    BY <1>1, <2>2, <2>3
  <2> QED
    BY <2>1, <2>2, <2>4, <2>5, ProcessKeeps
<1>4. CASE AppendLocalOp(s)
  <2>1. /\ session[s].st \in {"idle", "author"} /\ conn' = conn
        /\ session' = [session EXCEPT ![s].st = "author"]
    BY <1>4 DEF AppendLocalOp
  <2>2. /\ session'[s].st = "author"
        /\ \A t \in Store : t # s => session'[t] = session[t]
    BY <2>1 DEF TypeOK, Session
  <2>3. \A t \in Store : t # s => seqByAuthor'[t] = seqByAuthor[t]
    BY <1>4 DEF AppendLocalOp, AddOperation, storeVars, TypeOK
  <2> QED
    BY <1>1, <2>1, <2>2, <2>3, ProcessKeeps DEF Answered
<1>5. CASE CallFails(s) \/ FinishRound(s) \/ \E d \in Daemon : StartSync(s, d)
  <2>1. /\ seqByAuthor' = seqByAuthor
        /\ \A t \in Store : t # s => session'[t] = session[t]
    BY <1>5 DEF CallFails, FinishRound, StartSync, TypeOK
  <2>2. \A c \in Conn : conn'[c] \in {conn[c], Abandon(conn[c])}
    BY <1>5 DEF CallFails, FinishRound, StartSync, TypeOK
  <2>3. session'[s].st # "apply"
    <3>1. CASE CallFails(s)
      BY <1>1, <3>1 DEF CallFails, TypeOK
    <3>2. CASE FinishRound(s)
      <4> DEFINE next == [Idle EXCEPT !.st = "ask", !.peer = session[s].peer,
                                      !.round = session[s].round + 1,
                                      !.batch = MissingFor(ops[s], session[s].theirs)]
      <4>1. session'[s] \in {Idle, next}
        BY <3>2 DEF FinishRound, TypeOK
      <4>2. next.st = "ask"
        BY DEF Idle
      <4> QED
        BY <1>1, <4>1, <4>2
    <3>3. CASE \E d \in Daemon : StartSync(s, d)
      BY <3>3 DEF StartSync, TypeOK, Idle
    <3> QED
      BY <1>5, <3>1, <3>2, <3>3
  <2> QED
    BY <2>1, <2>2, <2>3, ProcessKeeps DEF Answered
<1> QED
  BY <1>2, <1>3, <1>4, <1>5

\* The request carries the summary of that moment, and its answer comes back
\* before that summary is out of date.
LEMMA TalkIsExchange ==
    ASSUME TypeOK, GapParts, Exchange, NEW s \in Store, NEW c \in Conn,
           SendRequest(s, c) \/ ReceiveResponse(s, c)
    PROVE  Exchange'
<1>1. /\ session[s].st # "apply" /\ seqByAuthor' = seqByAuthor
      /\ \A t \in Store : t # s => session'[t] = session[t]
      /\ \A k \in Conn : k # c => conn'[k] = conn[k]
      /\ Free.client = None /\ None \notin Cli
  BY StoreAssumption DEF SendRequest, ReceiveResponse, TypeOK, Cli, Free
<1>2. \A k \in Conn : k # c => Asked(k)'
  BY <1>1 DEF Exchange, Asked
<1>3. \A t \in Cli : t # s => Answered(t)'
  BY <1>1 DEF Exchange, Answered, Cli
<1>4. CASE SendRequest(s, c)
  <2>1. /\ conn'[c] = [st |-> "add", client |-> s, server |-> session[s].peer,
                       batch |-> session[s].batch, known |-> seqByAuthor[s],
                       theirs |-> EmptySummary]
        /\ session'[s].st = "wait"
    BY <1>4 DEF SendRequest, TypeOK, Session
  <2>2. Asked(c)' /\ Answered(s)'
    BY <1>1, <2>1 DEF Asked, Answered
  <2>3. \A t \in Cli : Answered(t)'
    BY <1>3, <2>2
  <2> QED
    BY <1>2, <2>2, <2>3 DEF Exchange
<1>5. CASE ReceiveResponse(s, c)
  <2>1. /\ conn[c].client = s /\ conn[c].st = "reply" /\ conn'[c] = Free
        /\ session'[s].batch = conn[c].batch /\ session'[s].theirs = conn[c].theirs
    BY <1>5 DEF ReceiveResponse, TypeOK, Session
  <2>2. Asked(c)'
    BY <1>1, <2>1 DEF Asked
  <2>3. s \in Cli => Answered(s)'
    BY <1>1, <2>1 DEF Exchange, Asked, Answered
  <2>4. \A t \in Cli : Answered(t)'
    BY <1>3, <2>3
  <2> QED
    BY <1>2, <2>2, <2>4 DEF Exchange
<1> QED
  BY <1>4, <1>5

\* A command adds the first of the news: it counts as pulled.
LEMMA ApplyIsExchange ==
    ASSUME WritesSucceed', TypeOK, GapParts, Bounded, Exchange, NEW s \in Store,
           ApplyOp(s)
    PROVE  Exchange'
<1>1. PICK o \in session[s].batch, added \in BOOLEAN :
          /\ IsFirst(o, session[s].batch)
          /\ AddOperation(s, o, added)
          /\ session' = [session EXCEPT ![s].batch = @ \ {o},
                                        ![s].pulled = @ \/ added]
  BY DEF ApplyOp
<1>2. /\ session[s].st = "apply" /\ conn' = conn
      /\ session[s] \in Session /\ o \in Operation
      /\ ops[s] \in SUBSET Operation /\ seqByAuthor[s] \in SummaryVector
  BY DEF ApplyOp, TypeOK, Session
<1>3. /\ \A t \in Store : t # s => session'[t] = session[t]
      /\ \A t \in Store : t # s => seqByAuthor'[t] = seqByAuthor[t]
      /\ session'[s].pulled = (session[s].pulled \/ added)
  BY <1>1, <1>2, AddBounded DEF TypeOK, Session
<1>4. ASSUME s \in Cli PROVE Answered(s)'
  <2>1. CASE session[s].pulled
    BY <1>3, <2>1 DEF Answered
  <2>2. CASE ~session[s].pulled
    <3>1. o.seq > seqByAuthor[s][o.author]
      BY <1>2, <1>4, <2>2 DEF Exchange, Answered, News
    <3>2. Addable(ops[s], o)
      BY <1>2, <3>1, NewsIsAddable DEF Bounded
    <3>3. writeErrors \in Nat /\ writeErrors' = 0
      BY LimitAssumption DEF TypeOK, WritesSucceed
    <3>4. added
      BY <1>1, <3>2, <3>3 DEF AddOperation
    <3> QED
      BY <1>3, <3>4 DEF Answered
  <2> QED
    BY <2>1, <2>2
<1>5. \A c \in Conn : conn[c].client # s
  BY <1>2, StoreAssumption DEF GapParts, Linked
<1> QED
  BY <1>2, <1>3, <1>4, <1>5, ProcessKeeps

\* A handler works on the store of a daemon; its answer is news for a client
\* that has not moved since it asked.
LEMMA HandlerIsExchange ==
    ASSUME TypeOK, GapParts, Bounded, Exchange, NEW c \in Conn, HandlerNext(c)
    PROVE  Exchange'
<1>1. /\ conn[c].st # "free" /\ conn[c] \in Connection /\ conn[c].server \in open
      /\ conn[c].server \in Store \ Cli /\ session' = session
      /\ \A k \in Conn : k # c => conn'[k] = conn[k]
      /\ ops[conn[c].server] \in SUBSET Operation
  <2>1. /\ conn[c].st # "free" /\ session' = session
        /\ \A k \in Conn : k # c => conn'[k] = conn[k]
    BY DEF HandlerNext, HandleOp, HandleSummary, HandleReply, TypeOK
  <2>2. conn[c].server \in open /\ conn[c].server \in Daemon
    BY <2>1, StoreAssumption DEF TypeOK, Connection
  <2> QED
    BY <2>1, <2>2, StoreAssumption DEF TypeOK, Cli
<1>2. \A t \in Cli : seqByAuthor'[t] = seqByAuthor[t]
  <2>1. CASE HandleOp(c)
    <3>1. PICK o \in conn[c].batch, added \in BOOLEAN : AddOperation(conn[c].server, o, added)
      BY <2>1 DEF HandleOp
    <3>2. o \in Operation
      BY <1>1 DEF Connection
    <3>3. \A t \in Store : t # conn[c].server => seqByAuthor'[t] = seqByAuthor[t]
      BY <1>1, <3>1, <3>2, AddBounded
    <3> QED
      BY <1>1, <3>3 DEF Cli
  <2> QED
    BY <2>1 DEF HandlerNext, HandleSummary, HandleReply
<1>3. \A t \in Cli : Answered(t)'
  BY <1>1, <1>2 DEF Exchange, Answered
<1>4. \A k \in Conn : k # c => Asked(k)'
  BY <1>1, <1>2 DEF Exchange, Asked
<1>5. Asked(c)'
  <2>1. CASE HandleOp(c)
    <3>1. /\ conn[c].st = "add" /\ conn'[c].st = "add"
          /\ conn'[c].client = conn[c].client /\ conn'[c].known = conn[c].known
      BY <2>1, <1>1 DEF HandleOp, TypeOK, Connection
    <3> QED
      BY <1>2, <3>1 DEF Exchange, Asked
  <2>2. CASE HandleSummary(c)
    <3>1. /\ conn[c].st = "add" /\ conn'[c].st = "summed"
          /\ conn'[c].client = conn[c].client /\ conn'[c].known = conn[c].known
      BY <2>2, <1>1 DEF HandleSummary, TypeOK, Connection
    <3> QED
      BY <1>2, <3>1 DEF Exchange, Asked
  <2>3. CASE HandleReply(c)
    <3> DEFINE answer == MissingFor(ops[conn[c].server], conn[c].known)
    <3>1. /\ conn[c].st = "summed" /\ conn[c].known \in SummaryVector
          /\ conn[c].theirs \in SummaryVector
      BY <2>3, <1>1 DEF HandleReply, Connection
    <3>2. conn'[c] = IF conn[c].client = None THEN Free
                     ELSE [conn[c] EXCEPT !.st = "reply", !.batch = answer,
                                          !.known = EmptySummary]
      BY <2>3 DEF HandleReply, TypeOK
    <3>3. Covers(ops[conn[c].server], conn[c].theirs)
      BY <1>1, <3>1 DEF GapParts, RequestFits, Held
    <3>4. News(conn[c].known, conn[c].theirs, answer)
      BY <1>1, <3>1, <3>3, AnswerIsNews
    <3> HIDE DEF answer
    <3>5. CASE conn[c].client = None
      BY <3>2, <3>5, StoreAssumption DEF Asked, Free, Cli
    <3>6. CASE conn[c].client # None
      <4>1. /\ conn'[c].st = "reply" /\ conn'[c].client = conn[c].client
            /\ conn'[c].batch = answer /\ conn'[c].theirs = conn[c].theirs
        BY <1>1, <3>2, <3>6 DEF Connection
      <4> QED
        BY <1>2, <3>1, <3>4, <4>1 DEF Exchange, Asked
    <3> QED
      BY <3>5, <3>6
  <2> QED
    BY <2>1, <2>2, <2>3 DEF HandlerNext
<1>6. \A k \in Conn : Asked(k)'
  BY <1>4, <1>5
<1> QED
  BY <1>3, <1>6 DEF Exchange

\* Every step keeps the invariant.
LEMMA QuietKept == QuietInv /\ [Next]_vars => QuietInv'
<1> SUFFICES ASSUME QuietInv, [Next]_vars PROVE QuietInv'
  OBVIOUS
<1>1. TypeOK /\ GapInv' /\ Bounded'
  BY GapStep, BoundedStep DEF QuietInv, GapInv
<1>2. ASSUME WritesSucceed' PROVE Exchange'
  <2>1. GapParts /\ Bounded /\ Exchange
    BY <1>1, <1>2, ErrorsStay DEF QuietInv, GapInv
  <2>2. CASE UNCHANGED vars
    BY <2>1, <2>2 DEF vars, Exchange, Asked, Answered
  <2>3. CASE Next
    BY <1>1, <1>2, <2>1, <2>3, OutsideKeeps, TalkIsExchange, ApplyIsExchange,
       HandlerIsExchange DEF Next, StoreNext
  <2> QED
    BY <2>2, <2>3
<1> QED
  BY <1>1, <1>2 DEF QuietInv

\* In the initial state nobody holds or waits for anything.
LEMMA QuietInit == Init => QuietInv
<1> SUFFICES ASSUME Init PROVE QuietInv
  OBVIOUS
<1>1. Free.client = None /\ None \notin Cli /\ Idle.st = "idle"
  BY StoreAssumption DEF Free, Cli, Idle
<1>2. Bounded /\ Exchange
  BY <1>1 DEF Init, Bounded, Exchange, Asked, Answered, Cli
<1> QED
  BY <1>2, GapInit DEF QuietInv

\* A command's SyncPeer call that stops before its last round, with all writes
\* done, leaves its store with exactly what the peer said it had: the call
\* gives up neither while the peer has more, however small the limit, nor
\* while the peer lacks something, whatever other commands and late handlers
\* do to the peer's store meanwhile.
THEOREM QuietEndMeansSyncedHolds == Spec => QuietEndMeansSynced
<1>1. QuietInv /\ [Next]_vars =>
          [\A s \in Cli : QuietEnd(s) => seqByAuthor[s] = session[s].theirs]_vars
  <2> SUFFICES ASSUME QuietInv, Next, NEW s \in Cli, QuietEnd(s)
               PROVE  seqByAuthor[s] = session[s].theirs
    OBVIOUS
  <2>1. /\ TypeOK /\ GapParts /\ Exchange /\ s \in Store
        /\ session[s].st = "apply" /\ session'[s] = Idle /\ Idle.st = "idle"
    BY DEF QuietInv, GapInv, WritesSucceed, QuietEnd, Cli, Idle
  <2>2. FinishRound(s)
    <3>1. ASSUME NEW t \in Store, StoreNext(t), t # s PROVE session'[s] = session[s]
      BY <2>1, <3>1 DEF StoreNext, OpenStore, CloseStore, AppendLocalOp, StartSync,
         SendRequest, CallFails, ReceiveResponse, ApplyOp, FinishRound, TypeOK
    <3>2. ASSUME NEW c \in Conn, HandlerNext(c) PROVE session' = session
      BY <3>2 DEF HandlerNext, HandleOp, HandleSummary, HandleReply
    <3>3. ~CloseStore(s)
      BY DEF CloseStore, QuietEnd
    <3>4. ASSUME ApplyOp(s) PROVE FALSE
      <4>1. PICK o \in session[s].batch, added \in BOOLEAN :
                session' = [session EXCEPT ![s].batch = @ \ {o},
                                           ![s].pulled = @ \/ added]
        BY <3>4 DEF ApplyOp
      <4>2. session'[s].st = session[s].st
        BY <2>1, <4>1 DEF TypeOK, Session
      <4> QED
        BY <2>1, <4>2
    <3>5. ~OpenStore(s) /\ ~AppendLocalOp(s) /\ ~CallFails(s)
      BY <2>1 DEF OpenStore, AppendLocalOp, CallFails
    <3>6. /\ \A d \in Daemon : ~StartSync(s, d)
          /\ \A c \in Conn : ~SendRequest(s, c) /\ ~ReceiveResponse(s, c)
      BY <2>1 DEF StartSync, SendRequest, ReceiveResponse
    <3>7. session'[s] # session[s]
      BY <2>1
    <3>8. \E t \in Store : StoreNext(t)
      BY <3>2, <3>7 DEF Next
    <3>9. StoreNext(s)
      BY <3>1, <3>7, <3>8
    <3> QED
      BY <3>3, <3>4, <3>5, <3>6, <3>9 DEF StoreNext
  <2> DEFINE f      == seqByAuthor[s]
             theirs == session[s].theirs
             toSend == MissingFor(ops[s], theirs)
             next   == [Idle EXCEPT !.st = "ask", !.peer = session[s].peer,
                                    !.round = session[s].round + 1, !.batch = toSend]
  <2>3. ops[s] \in SUBSET Operation /\ f \in SummaryVector /\ theirs \in SummaryVector
    BY <2>1 DEF TypeOK, Session
  <2>4. session[s].batch = {} /\ ~session[s].pulled /\ toSend = {}
    <3>1. session[s].batch = {}
      BY <2>2 DEF FinishRound
    <3>2. session'[s] = IF \/ ~session[s].pulled /\ toSend = {}
                           \/ session[s].round + 1 = MaxRounds
                        THEN Idle ELSE next
      BY <2>1, <2>2 DEF FinishRound, TypeOK
    <3>3. next.st = "ask"
      BY DEF Idle
    <3>4. session[s].round + 1 # MaxRounds
      BY <2>1, LimitAssumption DEF QuietEnd, TypeOK, Session
    <3> HIDE DEF next, toSend
    <3> QED
      BY <2>1, <3>1, <3>2, <3>3, <3>4
  <2>5. \A a \in Node : ~(theirs[a] > f[a])
    BY <2>1, <2>4 DEF Exchange, Answered, News
  <2>6. \A a \in Node : ~(f[a] > theirs[a])
    <3> SUFFICES ASSUME NEW a \in Node, f[a] > theirs[a] PROVE FALSE
      OBVIOUS
    <3>1. f[a] \in Nat /\ theirs[a] \in Nat
      BY <2>3, BoundAssumption DEF SummaryVector
    <3>2. f[a] \in 1..f[a]
      BY <3>1
    <3>3. PICK o \in ops[s] : o.author = a /\ o.seq = f[a]
      BY <2>1, <3>2 DEF GapParts, Stored, Covers
    <3>4. o \in Newer(ops[s], theirs)
      BY <3>3 DEF Newer
    <3> QED
      BY <2>3, <2>4, <3>4, MissingForNonempty
  <2>7. \A a \in Node : f[a] = theirs[a]
    BY <2>3, <2>5, <2>6, BoundAssumption DEF SummaryVector
  <2> HIDE DEF f, theirs
  <2>8. f = theirs
    BY <2>3, <2>7 DEF SummaryVector
  <2> QED
    BY <2>8 DEF f, theirs
<1> QED
  BY <1>1, QuietInit, QuietKept, PTL DEF Spec, QuietEndMeansSynced

-----------------------------------------------------------------------------
(* The logs on disk implement the replicated log of ReplicatedOpLog, with   *)
(* one writing command per repository and while writes succeed.            *)


\* Every write to ops.log succeeds.
NoWriteErrors == MaxWriteErrors = 0

\* Both invariants together.
RefInv == ForkInv /\ GapState

\* A step that the replicated log allows.
LogMove == [Replicated!Next]_log

\* What is written to a log next is either there already or extends it.
LEMMA WriteExtends ==
    ASSUME TypeOK, Stored, NEW s \in Store, NEW o \in Operation,
           NEW added \in BOOLEAN, AddOperation(s, o, added), Prepared(ops[s], o)
    PROVE  /\ \/ log' = log
              \/ log' = [log EXCEPT ![Home[s]] = @ \cup {o}] /\ Addable(ops[s], o)
           /\ Addable(log[Home[s]], o) => Replicated!Extends(log[Home[s]], o)
<1>1. \/ log' = log
      \/ log' = [log EXCEPT ![Home[s]] = @ \cup {o}] /\ Addable(ops[s], o)
  BY DEF AddOperation, storeVars
<1>2. ASSUME NEW k \in 1..(o.seq - 1)
      PROVE  \E x \in log[Home[s]] : x.author = o.author /\ x.seq = k
  <2>1. o.seq \in Nat
    BY OperationFields
  <2>2. k \in 1..o.seq /\ k # o.seq
    BY <2>1
  <2>3. PICK x \in ops[s] \cup {o} : x.author = o.author /\ x.seq = k
    BY <2>2 DEF Prepared
  <2> QED
    BY <2>2, <2>3 DEF Stored
<1> QED
  BY <1>1, <1>2 DEF Replicated!Extends, Replicated!Addable, Addable, SameKey,
                    Replicated!SameKey

\* A store writes an operation that is in its author's log: a repository
\* copies it, or has it already through another process.
LEMMA CopyMoves ==
    ASSUME OneWriter, RefInv, NEW s \in Store, NEW o \in Operation,
           NEW added \in BOOLEAN, AddOperation(s, o, added), Prepared(ops[s], o),
           o \in log[o.author]
    PROVE  LogMove
<1>0. TypeOK /\ Stored /\ ForkInv
  BY DEF RefInv, ForkInv, GapState, GapParts
<1> DEFINE n == Home[s]
<1>1. n \in Node /\ o.author \in Node /\ log \in [Node -> SUBSET Operation]
  BY <1>0, StoreAssumption, OperationFields DEF TypeOK
<1>2. CASE log' = log
  BY <1>2 DEF LogMove
<1>3. CASE log' # log
  <2>1. log' = [log EXCEPT ![n] = @ \cup {o}] /\ o \notin log[n]
    BY <1>0, <1>1, <1>3, WriteExtends
  <2>2. NoFork
    BY <1>0, ForkInvNoFork
  <2>3. Addable(log[n], o)
    <3> SUFFICES ASSUME NEW x \in log[n], SameKey(x, o) PROVE FALSE
      BY DEF Addable
    <3>1. x \in Everywhere /\ o \in Everywhere
      BY <1>1 DEF Everywhere
    <3> QED
      BY <2>1, <2>2, <3>1 DEF NoFork, ConflictFree
  <2>4. Replicated!Extends(log[n], o)
    BY <1>0, <2>3, WriteExtends
  <2>5. Replicated!Replicate(n, o.author)
    BY <2>1, <2>4 DEF Replicated!Replicate
  <2> QED
    BY <1>1, <2>5 DEF LogMove, Replicated!Next
<1> QED
  BY <1>2, <1>3

\* A command writes what it has just signed: its store knows all of its own
\* log, so the operation extends that log.
LEMMA SignedMoves ==
    ASSUME OneWriter, RefInv, NEW s \in Store, AppendLocalOp(s)
    PROVE  LogMove
<1>0. /\ TypeOK /\ Stored /\ WriterSeesOwn /\ Covers(ops[s], seqByAuthor[s])
      /\ s \in Cli \cap open
  BY DEF RefInv, ForkInv, ForkParts, GapState, GapParts, Stored, AppendLocalOp
<1> DEFINE o == OwnOp(s)
           n == Home[s]
<1>1. PICK added \in BOOLEAN : AddOperation(s, o, added)
  BY DEF AppendLocalOp
<1>2. /\ o \in Operation /\ o.author = n /\ n \in Node
      /\ o.seq = seqByAuthor[s][n] + 1 /\ seqByAuthor[s][n] \in Nat
  BY <1>0, OwnOpType, StoreAssumption, BoundAssumption DEF OwnOp, TypeOK, SummaryVector
<1> HIDE DEF o
<1>3. Prepared(ops[s], o)
  BY <1>0, <1>2, OwnIsPrepared
<1>4. CASE log' = log
  BY <1>4 DEF LogMove
<1>5. CASE log' # log
  <2>1. log' = [log EXCEPT ![n] = @ \cup {o}] /\ Addable(ops[s], o)
    BY <1>0, <1>1, <1>2, <1>3, <1>5, WriteExtends
  <2>2. Addable(log[n], o)
    <3> SUFFICES ASSUME NEW x \in log[n], SameKey(x, o) PROVE FALSE
      BY DEF Addable
    <3>1. x \in ops[s]
      BY <1>0, <1>2 DEF WriterSeesOwn, SameKey
    <3> QED
      BY <2>1, <3>1 DEF Addable
  <2>3. Replicated!Extends(log[n], o)
    BY <1>0, <1>1, <1>2, <1>3, <2>2, WriteExtends
  <2>4. Replicated!Append(n)
    BY <1>2, <2>1, <2>3 DEF Replicated!Append, Replicated!Operation, Operation
  <2> QED
    BY <1>2, <2>4 DEF LogMove, Replicated!Next
<1> QED
  BY <1>4, <1>5

\* Every step moves the logs as the replicated log may move, or not at all.
LEMMA StepMoves ==
    ASSUME OneWriter, RefInv, [Next]_vars
    PROVE  LogMove
<1>0. TypeOK /\ ForkParts /\ GapParts
  BY DEF RefInv, ForkInv, GapState
<1>1. CASE UNCHANGED log
  BY <1>1 DEF LogMove
<1>2. ASSUME NEW s \in Store, ApplyOp(s) PROVE LogMove
  <2>1. PICK o \in session[s].batch, added \in BOOLEAN :
            IsFirst(o, session[s].batch) /\ AddOperation(s, o, added)
    BY <1>2 DEF ApplyOp
  <2>2. /\ session[s].st = "apply" /\ session[s].batch \in SUBSET Operation
        /\ o \in Operation /\ o \in log[o.author]
    BY <1>0, <1>2, HeldIsLogged DEF ApplyOp, TypeOK, Session
  <2>3. Fits(ops[s], session[s].batch)
    BY <1>0, <2>2 DEF GapParts, ClosedEmpty, SessionFits, Held
  <2>4. Prepared(ops[s], o)
    BY <2>1, <2>2, <2>3, FirstIsPrepared
  <2> QED
    BY <2>1, <2>2, <2>4, CopyMoves
<1>3. ASSUME NEW c \in Conn, HandleOp(c) PROVE LogMove
  <2>1. PICK o \in conn[c].batch, added \in BOOLEAN :
            IsFirst(o, conn[c].batch) /\ AddOperation(conn[c].server, o, added)
    BY <1>3 DEF HandleOp
  <2>2. /\ conn[c].st = "add" /\ conn[c].batch \in SUBSET Operation
        /\ conn[c].server \in open /\ conn[c].server \in Store
        /\ o \in Operation /\ o \in log[o.author]
    BY <1>0, <1>3, HeldIsLogged DEF HandleOp, TypeOK, Connection
  <2>3. Fits(ops[conn[c].server], conn[c].batch)
    BY <1>0, <2>2 DEF GapParts, RequestFits, Held
  <2>4. Prepared(ops[conn[c].server], o)
    BY <2>1, <2>2, <2>3, FirstIsPrepared
  <2> QED
    BY <2>1, <2>2, <2>4, CopyMoves
<1>4. ASSUME NEW s \in Store, StoreNext(s), ~AppendLocalOp(s), ~ApplyOp(s)
      PROVE  UNCHANGED log
  BY <1>4 DEF StoreNext, OpenStore, CloseStore, StartSync, SendRequest, CallFails,
              ReceiveResponse, FinishRound
<1>5. ASSUME NEW c \in Conn, HandlerNext(c), ~HandleOp(c) PROVE UNCHANGED log
  BY <1>5 DEF HandlerNext, HandleSummary, HandleReply
<1>6. CASE UNCHANGED vars
  BY <1>1, <1>6 DEF vars
<1> QED
  BY <1>1, <1>2, <1>3, <1>4, <1>5, <1>6, SignedMoves DEF Next

\* With one store per repository that appends and while writes succeed, the
\* logs on disk, behind all processes, requests, restarts and lost answers,
\* behave like the replicated log: an author appends its next operation, and
\* another repository copies the next operation of an author it lacks.
THEOREM ReplicatedLogImplemented ==
    OneWriter /\ NoWriteErrors => (Spec => ImplementsReplicatedOpLog)
<1> SUFFICES ASSUME OneWriter, NoWriteErrors PROVE Spec => ImplementsReplicatedOpLog
  OBVIOUS
<1>0. (TypeOK => WritesSucceed) /\ (TypeOK' => WritesSucceed')
  BY DEF NoWriteErrors, TypeOK, WritesSucceed
<1>1. Init => RefInv /\ Replicated!Init
  BY <1>0, ForkInit, GapInit DEF RefInv, GapState, GapInv, Init, Replicated!Init
<1>2. RefInv /\ [Next]_vars => RefInv'
  BY <1>0, ForkStep, TypeStep, GapStep DEF RefInv, ForkInv, GapState, GapInv
<1>3. RefInv /\ [Next]_vars => [Replicated!Next]_log
  BY StepMoves DEF LogMove
<1> QED
  BY <1>1, <1>2, <1>3, PTL DEF Spec, ImplementsReplicatedOpLog, Replicated!Spec
=============================================================================
