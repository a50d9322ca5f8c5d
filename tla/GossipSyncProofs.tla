-------------------------- MODULE GossipSyncProofs --------------------------
(***************************************************************************)
(* Theorems about GossipSync, for every set of repositories, stores and    *)
(* requests and every bound.                                               *)
(***************************************************************************)
EXTENDS GossipSync, OpLogProofs

-----------------------------------------------------------------------------
(* The inductive invariant behind NoFork.                                  *)

\* A closed store holds nothing and does nothing.
ClosedEmpty == \A s \in Store \ open : ops[s] = {} /\ session[s].st = "idle"

\* An operation that a command has signed but could not write.
Unsaved(s, o) ==
    s \in Cli /\ o.author = Home[s] /\ session[s].st = "author"

\* Whatever circulates is in the log of its author.
Logged ==
    /\ \A n \in Node : \A o \in log[n] : o \in log[o.author]
    /\ \A s \in Store : \A o \in ops[s] : o \in log[o.author] \/ Unsaved(s, o)
    /\ \A s \in Store : \A o \in session[s].batch : o \in log[o.author]
    /\ \A c \in Conn : \A o \in conn[c].batch : o \in log[o.author]

\* The store of a command knows all its identity has written.
WriterSeesOwn ==
    \A s \in Cli \cap open : \A o \in log[Home[s]] :
        o.author = Home[s] => o \in ops[s]

\* One author's log, and one memory, is free of conflicts.
Sound ==
    /\ \A n \in Node : \A x, y \in log[n] :
          x.author = n /\ SameKey(x, y) => x = y
    /\ \A s \in Store : ConflictFree(ops[s])

ForkParts == ClosedEmpty /\ Logged /\ WriterSeesOwn /\ Sound

ForkInv == TypeOK /\ ForkParts

-----------------------------------------------------------------------------
(* Types.                                                                  *)

\* Adding an operation to a store keeps the store's variables in their types.
LEMMA AddOperationType ==
    ASSUME TypeOK, NEW s \in Store, NEW o \in Operation, NEW added \in BOOLEAN,
           AddOperation(s, o, added)
    PROVE  /\ log' \in [Node -> SUBSET Operation]
           /\ ops' \in [Store -> SUBSET Operation]
           /\ seqByAuthor' \in [Store -> SummaryVector]
           /\ writeErrors' \in 0..MaxWriteErrors
<1>1. CASE UNCHANGED storeVars
  BY <1>1 DEF TypeOK, storeVars
<1>2. CASE Addable(ops[s], o)
  <2>1. ops' = [ops EXCEPT ![s] = @ \cup {o}]
    BY <1>2 DEF AddOperation
  <2> DEFINE top == seqByAuthor[s][o.author]
             row == [seqByAuthor[s] EXCEPT ![o.author] =
                        IF o.seq > top THEN o.seq ELSE top]
  <2>2. seqByAuthor' = [seqByAuthor EXCEPT ![s] = row]
    BY <1>2 DEF AddOperation
  <2>3. \/ log' = [log EXCEPT ![Home[s]] = @ \cup {o}] /\ UNCHANGED writeErrors
        \/ /\ writeErrors < MaxWriteErrors /\ writeErrors' = writeErrors + 1
           /\ UNCHANGED log
    BY <1>2 DEF AddOperation
  <2>0. ops \in [Store -> SUBSET Operation] /\ log \in [Node -> SUBSET Operation]
    BY DEF TypeOK
  <2>4. ops' \in [Store -> SUBSET Operation]
    BY <2>1, <2>0
  <2>5. log' \in [Node -> SUBSET Operation] /\ writeErrors' \in 0..MaxWriteErrors
    BY <2>3, StoreAssumption, LimitAssumption DEF TypeOK
  <2>6. seqByAuthor' \in [Store -> SummaryVector]
    <3>1. o.author \in Node /\ o.seq \in 0..MaxOps
      BY OperationFields, BoundAssumption
    <3>2. seqByAuthor \in [Store -> SummaryVector]
      BY DEF TypeOK
    <3>3. row \in SummaryVector
      BY <3>1, <3>2 DEF SummaryVector
    <3> QED
      BY <2>2, <3>2, <3>3
  <2> QED
    BY <2>4, <2>5, <2>6
<1> QED
  BY <1>1, <1>2 DEF AddOperation

\* The canonical records have the type of their variable.
LEMMA RecordTypes == Idle \in Session /\ Free \in Connection
<1>1. EmptySummary \in SummaryVector
  BY BoundAssumption DEF EmptySummary, SummaryVector
<1>2. 0 \in 0..(MaxRounds - 1)
  BY LimitAssumption
<1> QED
  BY <1>1, <1>2 DEF Idle, Session, Free, Connection

\* Abandoning a request keeps its type, its server and, if it is not freed,
\* its progress.
LEMMA AbandonType ==
    ASSUME NEW c \in Connection
    PROVE  /\ Abandon(c) \in Connection
           /\ Abandon(c).batch \subseteq c.batch
           /\ Abandon(c).st # "free" =>
                 c.st # "free" /\ Abandon(c).server = c.server
<1>1. CASE c.st = "reply"
  BY <1>1, RecordTypes DEF Abandon, Free
<1>2. CASE c.st # "reply"
  <2>1. Abandon(c) = [c EXCEPT !.client = None]
    BY <1>2 DEF Abandon
  <2> QED
    BY <2>1 DEF Connection
<1> QED
  BY <1>1, <1>2

\* What AppendLocalOp signs is an operation within the bounds.
LEMMA OwnOpType ==
    ASSUME TypeOK, NEW s \in Store, AppendLocalOp(s)
    PROVE  OwnOp(s) \in Operation
<1>1. Home[s] \in Node
  BY StoreAssumption
<1>2. signed[Home[s]] \in 0..MaxOps /\ seqByAuthor[s][Home[s]] \in 0..MaxOps
  <2>1. signed \in [Node -> 0..MaxOps] /\ seqByAuthor[s] \in SummaryVector
    BY DEF TypeOK
  <2> QED
    BY <1>1, <2>1 DEF SummaryVector
<1>3. signed[Home[s]] < MaxOps /\ seqByAuthor[s][Home[s]] < MaxOps
  BY DEF AppendLocalOp
<1>4. signed[Home[s]] + 1 \in 1..MaxOps /\ seqByAuthor[s][Home[s]] + 1 \in 1..MaxOps
  BY <1>2, <1>3, BoundAssumption
<1> QED
  BY <1>1, <1>4 DEF OwnOp, Operation

\* Every step keeps every variable in its type and keeps requests at open
\* daemons.
LEMMA TypeStep == TypeOK /\ [Next]_vars => TypeOK'
<1> SUFFICES ASSUME TypeOK, [Next]_vars PROVE TypeOK'
  OBVIOUS
<1> USE RecordTypes
<1>1. ASSUME NEW s \in Store, OpenStore(s) PROVE TypeOK'
  <2>1. log[Home[s]] \in SUBSET Operation
    BY StoreAssumption DEF TypeOK
  <2>2. Summary(log[Home[s]]) \in SummaryVector
    BY <2>1, SummaryFacts
  <2> QED
    BY <1>1, <2>1, <2>2 DEF OpenStore, TypeOK
<1>2. ASSUME NEW s \in Store, CloseStore(s) PROVE TypeOK'
  <2>1. EmptySummary \in SummaryVector
    BY BoundAssumption DEF EmptySummary, SummaryVector
  <2>2. ASSUME NEW c \in Conn
        PROVE  conn'[c] \in Connection /\ (conn'[c].st # "free" => conn'[c].server \in open')
    <3>1. /\ conn[c] \in Connection
          /\ conn[c].st # "free" => conn[c].server \in open
      BY DEF TypeOK
    <3>2. conn'[c] = IF conn[c].server = s THEN Free
                     ELSE IF conn[c].client = s THEN Abandon(conn[c]) ELSE conn[c]
      BY <1>2 DEF CloseStore
    <3>3. open' = open \ {s}
      BY <1>2 DEF CloseStore
    <3>4. Free.st = "free"
      BY DEF Free
    <3> QED
      BY <3>1, <3>2, <3>3, <3>4, AbandonType
  <2>3. conn' \in [Conn -> Connection]
    <3>1. conn' = [c \in Conn |-> conn'[c]]
      BY <1>2 DEF CloseStore
    <3> QED
      BY <2>2, <3>1
  <2>4. /\ ops' \in [Store -> SUBSET Operation] /\ open' \in SUBSET Store
        /\ seqByAuthor' \in [Store -> SummaryVector] /\ session' \in [Store -> Session]
    BY <1>2, <2>1 DEF CloseStore, TypeOK
  <2> QED
    BY <1>2, <2>2, <2>3, <2>4 DEF CloseStore, TypeOK
<1>3. ASSUME NEW s \in Store, AppendLocalOp(s) PROVE TypeOK'
  <2>1. PICK added \in BOOLEAN : AddOperation(s, OwnOp(s), added)
    BY <1>3 DEF AppendLocalOp
  <2>2. OwnOp(s) \in Operation
    BY <1>3, OwnOpType
  <2>3. signed[Home[s]] \in 0..MaxOps /\ signed[Home[s]] < MaxOps
    BY <1>3, StoreAssumption DEF AppendLocalOp, TypeOK
  <2>4. signed[Home[s]] + 1 \in 0..MaxOps
    BY <2>3, BoundAssumption
  <2>5. signed' \in [Node -> 0..MaxOps]
    BY <1>3, <2>4 DEF AppendLocalOp, TypeOK
  <2>6. session' \in [Store -> Session]
    <3>1. session \in [Store -> Session]
      BY DEF TypeOK
    <3>3. session' = [session EXCEPT ![s] = [session[s] EXCEPT !.st = "author"]]
      BY <1>3 DEF AppendLocalOp
    <3>2. [session[s] EXCEPT !.st = "author"] \in Session
      BY <3>1 DEF Session
    <3> QED
      BY <3>1, <3>2, <3>3
  <2>7. UNCHANGED <<open, conn, lost>>
    BY <1>3 DEF AppendLocalOp
  <2> QED
    BY <2>1, <2>2, <2>5, <2>6, <2>7, AddOperationType DEF TypeOK
<1>4. ASSUME NEW s \in Store, NEW d \in Daemon, StartSync(s, d) PROVE TypeOK'
  <2>1. [Idle EXCEPT !.st = "ask", !.peer = d] \in Session
    BY DEF Session
  <2> QED
    BY <1>4, <2>1 DEF StartSync, TypeOK
<1>5. ASSUME NEW s \in Store, NEW c \in Conn, SendRequest(s, c) PROVE TypeOK'
  <2>1. EmptySummary \in SummaryVector
    BY BoundAssumption DEF EmptySummary, SummaryVector
  <2> DEFINE asked == [session[s] EXCEPT !.st = "wait", !.batch = {},
                                         !.theirs = EmptySummary, !.pulled = FALSE]
             request == [st |-> "add", client |-> s, server |-> session[s].peer,
                         batch |-> session[s].batch, known |-> seqByAuthor[s],
                         theirs |-> EmptySummary]
  <2>5. session[s] \in Session /\ session[s].peer \in open
    BY <1>5 DEF SendRequest, TypeOK
  <2>6. asked \in Session
    BY <2>1, <2>5 DEF Session
  <2>2. session' \in [Store -> Session]
    <3>1. session' = [session EXCEPT ![s] = asked]
      BY <1>5 DEF SendRequest
    <3> QED
      BY <2>6, <3>1 DEF TypeOK
  <2>3. conn' \in [Conn -> Connection]
    <3>1. session[s].peer \in Daemon \cup {None} /\ seqByAuthor[s] \in SummaryVector
      BY <2>5 DEF Session, TypeOK
    <3>2. request \in Connection
      BY <2>1, <2>5, <3>1 DEF Connection, Session
    <3>3. conn' = [conn EXCEPT ![c] = request]
      BY <1>5 DEF SendRequest
    <3> QED
      BY <3>2, <3>3 DEF TypeOK
  <2>4. \A k \in Conn : conn'[k].st # "free" => conn'[k].server \in open'
    BY <1>5 DEF SendRequest, TypeOK
  <2> QED
    BY <1>5, <2>2, <2>3, <2>4 DEF SendRequest, TypeOK
<1>6. ASSUME NEW s \in Store, CallFails(s) PROVE TypeOK'
  <2>1. session' \in [Store -> Session]
    BY <1>6 DEF CallFails, TypeOK
  <2>2. lost' \in 0..MaxLost
    BY <1>6, LimitAssumption DEF CallFails, TypeOK
  <2>3. /\ conn' \in [Conn -> Connection]
        /\ \A k \in Conn : conn'[k].st # "free" => conn'[k].server \in open
    <3>1. CASE UNCHANGED conn
      BY <3>1 DEF TypeOK
    <3>2. ASSUME NEW c \in Conn, conn' = [conn EXCEPT ![c] = Abandon(@)]
          PROVE  /\ conn' \in [Conn -> Connection]
                 /\ \A k \in Conn : conn'[k].st # "free" => conn'[k].server \in open
      <4>1. conn[c] \in Connection
        BY DEF TypeOK
      <4>2. Abandon(conn[c]) \in Connection
        BY <4>1 DEF Abandon, Connection
      <4>3. Abandon(conn[c]).st # "free" =>
               conn[c].st # "free" /\ Abandon(conn[c]).server = conn[c].server
        BY <4>1 DEF Abandon, Connection, Free
      <4> QED
        BY <3>2, <4>2, <4>3 DEF TypeOK
    <3> QED
      BY <1>6, <3>1, <3>2 DEF CallFails
  <2> QED
    BY <1>6, <2>1, <2>2, <2>3 DEF CallFails, TypeOK
<1>7. ASSUME NEW s \in Store, NEW c \in Conn, ReceiveResponse(s, c) PROVE TypeOK'
  <2>1. session[s] \in Session /\ conn[c] \in Connection
    BY DEF TypeOK
  <2>2. [session[s] EXCEPT !.st = "apply", !.batch = conn[c].batch,
                           !.theirs = conn[c].theirs] \in Session
    BY <2>1 DEF Session, Connection
  <2>3. session' \in [Store -> Session]
    BY <1>7, <2>2 DEF ReceiveResponse, TypeOK
  <2>4. /\ conn' \in [Conn -> Connection]
        /\ \A k \in Conn : conn'[k].st # "free" => conn'[k].server \in open
    <3>1. Free.st = "free" /\ conn' = [conn EXCEPT ![c] = Free]
      BY <1>7 DEF Free, ReceiveResponse
    <3> QED
      BY <3>1 DEF TypeOK
  <2> QED
    BY <1>7, <2>3, <2>4 DEF ReceiveResponse, TypeOK
<1>8. ASSUME NEW s \in Store, ApplyOp(s) PROVE TypeOK'
  <2>1. PICK o \in session[s].batch, added \in BOOLEAN :
            /\ AddOperation(s, o, added)
            /\ session' = [session EXCEPT ![s].batch = @ \ {o},
                                          ![s].pulled = @ \/ added]
    BY <1>8 DEF ApplyOp
  <2>2. o \in Operation
    BY DEF TypeOK, Session
  <2>3. session' \in [Store -> Session]
    <3> DEFINE rest == [session[s] EXCEPT !.batch = @ \ {o}, !.pulled = @ \/ added]
    <3>1. session \in [Store -> Session]
      BY DEF TypeOK
    <3>2. rest \in Session
      BY <3>1 DEF Session
    <3>3. session' = [session EXCEPT ![s] = rest]
      BY <2>1
    <3> HIDE DEF rest
    <3> QED
      BY <3>1, <3>2, <3>3
  <2> QED
    BY <1>8, <2>1, <2>2, <2>3, AddOperationType DEF ApplyOp, TypeOK
<1>9. ASSUME NEW s \in Store, FinishRound(s) PROVE TypeOK'
  <2> DEFINE toSend == MissingFor(ops[s], session[s].theirs)
             next == [Idle EXCEPT !.st = "ask", !.peer = session[s].peer,
                                  !.round = session[s].round + 1, !.batch = toSend]
  <2>1. session[s] \in Session /\ toSend \in SUBSET Operation
    BY MissingForSubset DEF TypeOK
  <2>2. \/ session' = [session EXCEPT ![s] = Idle]
        \/ session[s].round + 1 # MaxRounds /\ session' = [session EXCEPT ![s] = next]
    BY <1>9 DEF FinishRound
  <2>3. session[s].round + 1 # MaxRounds => next \in Session
    <3>0. session[s].round \in 0..(MaxRounds - 1)
      BY <2>1 DEF Session
    <3>1. session[s].round + 1 # MaxRounds => session[s].round + 1 \in 0..(MaxRounds - 1)
      BY <3>0, LimitAssumption
    <3> HIDE DEF toSend
    <3> QED
      BY <2>1, <3>1 DEF Session
  <2>4. session' \in [Store -> Session]
    BY <2>2, <2>3 DEF TypeOK
  <2> QED
    BY <1>9, <2>4 DEF FinishRound, TypeOK
<1>10. ASSUME NEW c \in Conn, HandleOp(c) PROVE TypeOK'
  <2>1. PICK o \in conn[c].batch, added \in BOOLEAN :
            /\ AddOperation(conn[c].server, o, added)
            /\ conn' = [conn EXCEPT ![c].batch = @ \ {o}]
    BY <1>10 DEF HandleOp
  <2>2. /\ conn[c] \in Connection /\ conn[c].server \in Store
        /\ o \in Operation
    BY <1>10 DEF HandleOp, TypeOK, Connection
  <2>3. [conn[c] EXCEPT !.batch = @ \ {o}] \in Connection
    BY <2>2 DEF Connection
  <2>4. /\ conn' \in [Conn -> Connection]
        /\ \A k \in Conn : conn'[k].st # "free" => conn'[k].server \in open
    BY <2>1, <2>2, <2>3 DEF TypeOK, Connection
  <2> QED
    BY <1>10, <2>1, <2>2, <2>4, AddOperationType DEF HandleOp, TypeOK
<1>11. ASSUME NEW c \in Conn, HandleSummary(c) PROVE TypeOK'
  <2>1. conn[c] \in Connection /\ seqByAuthor[conn[c].server] \in SummaryVector
    BY <1>11 DEF HandleSummary, TypeOK
  <2>2. [conn[c] EXCEPT !.st = "summed", !.theirs = seqByAuthor[conn[c].server]]
            \in Connection
    BY <2>1 DEF Connection
  <2>3. /\ conn' \in [Conn -> Connection]
        /\ \A k \in Conn : conn'[k].st # "free" => conn'[k].server \in open
    BY <1>11, <2>1, <2>2 DEF HandleSummary, TypeOK, Connection
  <2> QED
    BY <1>11, <2>3 DEF HandleSummary, TypeOK
<1>12. ASSUME NEW c \in Conn, HandleReply(c) PROVE TypeOK'
  <2> DEFINE answer == MissingFor(ops[conn[c].server], conn[c].known)
             reply == [conn[c] EXCEPT !.st = "reply", !.batch = answer,
                                      !.known = EmptySummary]
  <2>1. /\ conn[c] \in Connection
        /\ conn[c].st = "summed" /\ conn[c].server \in open
    BY <1>12 DEF HandleReply, TypeOK
  <2>2. answer \in SUBSET Operation
    BY <2>1, MissingForSubset DEF TypeOK
  <2>3. EmptySummary \in SummaryVector
    BY BoundAssumption DEF EmptySummary, SummaryVector
  <2>4. reply \in Connection /\ reply.server = conn[c].server
    <3> HIDE DEF answer
    <3> QED
      BY <2>1, <2>2, <2>3 DEF Connection
  <2>5. conn' = [conn EXCEPT ![c] = Free] \/ conn' = [conn EXCEPT ![c] = reply]
    BY <1>12 DEF HandleReply
  <2>6. Free.st = "free"
    BY DEF Free
  <2>7. /\ conn' \in [Conn -> Connection]
        /\ \A k \in Conn : conn'[k].st # "free" => conn'[k].server \in open
    <3> HIDE DEF reply
    <3> QED
      BY <2>1, <2>4, <2>5, <2>6 DEF TypeOK
  <2> QED
    BY <1>12, <2>7 DEF HandleReply, TypeOK
<1>13. CASE UNCHANGED vars
  BY <1>13 DEF vars, TypeOK
<1> QED
  BY <1>1, <1>2, <1>3, <1>4, <1>5, <1>6, <1>7, <1>8, <1>9, <1>10, <1>11,
     <1>12, <1>13 DEF Next, StoreNext, HandlerNext

\* In the initial state every variable has its type.
LEMMA TypeInit == Init => TypeOK
<1> SUFFICES ASSUME Init PROVE TypeOK
  OBVIOUS
<1>1. EmptySummary \in SummaryVector
  BY BoundAssumption DEF EmptySummary, SummaryVector
<1>2. Free.st = "free"
  BY DEF Free
<1> QED
  BY <1>1, <1>2, RecordTypes, BoundAssumption, LimitAssumption DEF Init, TypeOK

\* Every variable stays in its type in every behaviour, with any number of
\* stores, writers, failed writes and lost answers; and a request always has
\* an open daemon behind it, across crashes and abandoned calls.
THEOREM TypeCorrect == Spec => []TypeOK
<1>1. Init => TypeOK
  BY TypeInit
<1>2. TypeOK /\ [Next]_vars => TypeOK'
  BY TypeStep
<1> QED
  BY <1>1, <1>2, PTL DEF Spec

-----------------------------------------------------------------------------
(* No fork.                                                                *)

\* What AddOperation may change: one log and one memory, by one operation.
LEMMA AddOperationFacts ==
    ASSUME TypeOK, NEW s \in Store, NEW o, NEW added, AddOperation(s, o, added)
    PROVE  /\ \A n \in Node : log[n] \subseteq log'[n] /\ log'[n] \subseteq log[n] \cup {o}
           /\ \A n \in Node : n # Home[s] => log'[n] = log[n]
           /\ \A t \in Store : t # s => ops'[t] = ops[t]
           /\ ops[s] \subseteq ops'[s] /\ ops'[s] \subseteq ops[s] \cup {o}
           /\ \/ log' = log /\ ops' = ops
              \/ Addable(ops[s], o) /\ o \in ops'[s]
           /\ added => o \in log'[Home[s]]
<1>1. /\ log \in [Node -> SUBSET Operation] /\ ops \in [Store -> SUBSET Operation]
      /\ Home[s] \in Node
  BY StoreAssumption DEF TypeOK
<1>2. CASE ~Addable(ops[s], o)
  BY <1>2 DEF AddOperation, storeVars
<1>3. CASE Addable(ops[s], o)
  <2>1. ops' = [ops EXCEPT ![s] = @ \cup {o}]
    BY <1>3 DEF AddOperation
  <2>2. \/ log' = [log EXCEPT ![Home[s]] = @ \cup {o}]
        \/ log' = log /\ ~added
    BY <1>3 DEF AddOperation
  <2> QED
    BY <1>1, <1>3, <2>1, <2>2
<1> QED
  BY <1>2, <1>3

\* A step that moves operations between sessions and requests only.
LEMMA QuietStep ==
    ASSUME ForkParts, UNCHANGED <<log, ops, open>>,
           \A t \in Store : session[t].st = "author" => session'[t].st = "author",
           \A t \in Store \ open : session[t].st = "idle" => session'[t].st = "idle",
           \A t \in Store : \A o \in session'[t].batch : o \in log[o.author],
           \A c \in Conn : \A o \in conn'[c].batch : o \in log[o.author]
    PROVE  ForkParts'
  BY DEF ForkParts, ClosedEmpty, Logged, Unsaved, WriterSeesOwn, Sound, ConflictFree

\* A store takes in an operation that is in its author's log.
LEMMA RemoteStep ==
    ASSUME TypeOK, ForkParts, NEW s \in open, NEW o \in Operation, NEW added,
           o \in log[o.author], AddOperation(s, o, added), open' = open,
           \A t \in Store : session'[t].st = session[t].st,
           \A t \in Store : session'[t].batch \subseteq session[t].batch,
           \A c \in Conn : conn'[c].batch \subseteq conn[c].batch
    PROVE  ForkParts'
<1>1. s \in Store /\ o.author \in Node
  BY OperationFields DEF TypeOK
<1>2. /\ \A n \in Node : log[n] \subseteq log'[n] /\ log'[n] \subseteq log[n] \cup {o}
      /\ \A t \in Store : t # s => ops'[t] = ops[t]
      /\ ops[s] \subseteq ops'[s] /\ ops'[s] \subseteq ops[s] \cup {o}
      /\ \/ log' = log /\ ops' = ops
         \/ Addable(ops[s], o) /\ o \in ops'[s]
  BY <1>1, AddOperationFacts
<1>3. ClosedEmpty'
  BY <1>2 DEF ForkParts, ClosedEmpty
<1>4. \A n \in Node : \A x \in log[n] : x.author \in Node
  BY OperationFields DEF TypeOK
<1>5. \A t \in Store : \A x \in ops[t] : x.author \in Node
  BY OperationFields DEF TypeOK
<1>6. Logged'
  <2>1. \A n \in Node : \A x \in log'[n] : x \in log'[x.author]
    BY <1>1, <1>2, <1>4 DEF ForkParts, Logged
  <2>2. \A t \in Store : \A x \in ops'[t] : x \in log'[x.author] \/ Unsaved(t, x)'
    <3> SUFFICES ASSUME NEW t \in Store, NEW x \in ops'[t]
                 PROVE  x \in log'[x.author] \/ Unsaved(t, x)'
      OBVIOUS
    <3>1. CASE x \in ops[t]
      <4>1. x \in log[x.author] \/ Unsaved(t, x)
        BY <3>1 DEF ForkParts, Logged
      <4> QED
        BY <3>1, <4>1, <1>2, <1>5 DEF Unsaved
    <3>2. CASE x = o
      BY <3>2, <1>1, <1>2
    <3> QED
      BY <3>1, <3>2, <1>2
  <2>3. \A t \in Store : \A x \in session'[t].batch : x \in log'[x.author]
    <3>1. \A t \in Store : \A x \in session[t].batch : x \in log[x.author] /\ x.author \in Node
      BY OperationFields DEF ForkParts, Logged, TypeOK, Session
    <3> QED
      BY <3>1, <1>2
  <2>4. \A c \in Conn : \A x \in conn'[c].batch : x \in log'[x.author]
    <3>1. \A c \in Conn : \A x \in conn[c].batch : x \in log[x.author] /\ x.author \in Node
      BY OperationFields DEF ForkParts, Logged, TypeOK, Connection
    <3> QED
      BY <3>1, <1>2
  <2> QED
    BY <2>1, <2>2, <2>3, <2>4 DEF Logged
<1>7. WriterSeesOwn'
  <2> SUFFICES ASSUME NEW t \in Cli \cap open, NEW x \in log'[Home[t]], x.author = Home[t]
               PROVE  x \in ops'[t]
    BY DEF WriterSeesOwn
  <2>1. t \in Store /\ Home[t] \in Node
    BY StoreAssumption DEF Cli
  <2>2. x \in log[Home[t]]
    BY <2>1, <1>2
  <2>3. x \in ops[t]
    BY <2>2 DEF ForkParts, WriterSeesOwn
  <2> QED
    BY <2>1, <2>3, <1>2
<1>8. Sound'
  <2>1. ASSUME NEW n \in Node, NEW x \in log'[n], NEW y \in log'[n],
               x.author = n, SameKey(x, y)
        PROVE  x = y
    <3>1. x \in log[n] /\ y \in log[n]
      BY <2>1, <1>2 DEF SameKey
    <3> QED
      BY <2>1, <3>1 DEF ForkParts, Sound
  <2>2. ASSUME NEW t \in Store PROVE ConflictFree(ops'[t])
    <3>1. ConflictFree(ops[t])
      BY DEF ForkParts, Sound
    <3> QED
      BY <3>1, <1>2 DEF ConflictFree, Addable, SameKey
  <2> QED
    BY <2>1, <2>2 DEF Sound
<1> QED
  BY <1>3, <1>6, <1>7, <1>8 DEF ForkParts

\* A command appends: here, and only here, one writer per repository counts.
LEMMA AppendStep ==
    ASSUME OneWriter, TypeOK, ForkParts, NEW s \in Store, AppendLocalOp(s)
    PROVE  ForkParts'
<1> DEFINE o == OwnOp(s)
           h == Home[s]
<1>1. PICK added \in BOOLEAN : AddOperation(s, o, added)
  BY DEF AppendLocalOp
<1>2. /\ s \in Cli /\ s \in open /\ h \in Node /\ o.author = h
      /\ open' = open /\ conn' = conn
      /\ session' = [session EXCEPT ![s].st = "author"]
  BY StoreAssumption DEF AppendLocalOp, OwnOp
<1>3. /\ \A n \in Node : log[n] \subseteq log'[n] /\ log'[n] \subseteq log[n] \cup {o}
      /\ \A n \in Node : n # h => log'[n] = log[n]
      /\ \A t \in Store : t # s => ops'[t] = ops[t]
      /\ ops[s] \subseteq ops'[s] /\ ops'[s] \subseteq ops[s] \cup {o}
      /\ \/ log' = log /\ ops' = ops
         \/ Addable(ops[s], o) /\ o \in ops'[s]
  <2> HIDE DEF o
  <2> QED
    BY <1>1, AddOperationFacts
<1>4. /\ session'[s].st = "author"
      /\ \A t \in Store : t # s => session'[t].st = session[t].st
      /\ \A t \in Store : session'[t].batch = session[t].batch
  BY <1>2 DEF TypeOK, Session
<1> HIDE DEF o
<1>5. ClosedEmpty'
  BY <1>2, <1>3, <1>4 DEF ForkParts, ClosedEmpty
<1>6. Logged'
  <2>1. ASSUME NEW n \in Node, NEW x \in log'[n] PROVE x \in log'[x.author]
    <3>1. CASE x \in log[n]
      <4>1. x \in log[x.author] /\ x.author \in Node
        BY <3>1, OperationFields DEF ForkParts, Logged, TypeOK
      <4> QED
        BY <4>1, <1>3
    <3>2. CASE x \notin log[n]
      BY <3>2, <2>1, <1>2, <1>3
    <3> QED
      BY <3>1, <3>2
  <2>2. ASSUME NEW t \in Store, NEW x \in ops'[t]
        PROVE  x \in log'[x.author] \/ Unsaved(t, x)'
    <3>1. CASE x \in ops[t]
      <4>1. x \in log[x.author] \/ Unsaved(t, x)
        BY <3>1 DEF ForkParts, Logged
      <4>2. x.author \in Node
        BY <3>1, OperationFields DEF TypeOK
      <4> QED
        BY <4>1, <4>2, <1>3, <1>4 DEF Unsaved
    <3>2. CASE x \notin ops[t]
      <4>1. t = s /\ x = o
        BY <3>2, <2>2, <1>3
      <4> QED
        BY <4>1, <1>2, <1>4 DEF Unsaved
    <3> QED
      BY <3>1, <3>2
  <2>3. ASSUME NEW t \in Store, NEW x \in session'[t].batch PROVE x \in log'[x.author]
    <3>1. x \in session[t].batch
      BY <2>3, <1>4
    <3>2. x \in log[x.author] /\ x.author \in Node
      BY <3>1, OperationFields DEF ForkParts, Logged, TypeOK, Session
    <3> QED
      BY <3>2, <1>3
  <2>4. ASSUME NEW c \in Conn, NEW x \in conn'[c].batch PROVE x \in log'[x.author]
    <3>1. x \in conn[c].batch
      BY <2>4, <1>2
    <3>2. x \in log[x.author] /\ x.author \in Node
      BY <3>1, OperationFields DEF ForkParts, Logged, TypeOK, Connection
    <3> QED
      BY <3>2, <1>3
  <2> QED
    BY <2>1, <2>2, <2>3, <2>4 DEF Logged
<1>7. WriterSeesOwn'
  <2> SUFFICES ASSUME NEW t \in Cli \cap open, NEW x \in log'[Home[t]], x.author = Home[t]
               PROVE  x \in ops'[t]
    BY <1>2 DEF WriterSeesOwn
  <2>1. t \in Store /\ Home[t] \in Node
    BY StoreAssumption DEF Cli
  <2>2. CASE x \in log[Home[t]]
    <3>1. x \in ops[t]
      BY <2>2 DEF ForkParts, WriterSeesOwn
    <3> QED
      BY <2>1, <3>1, <1>3
  <2>3. CASE x \notin log[Home[t]]
    <3>1. x = o /\ Home[t] = h /\ o \in ops'[s]
      BY <2>1, <2>3, <1>3
    <3>2. t = s
      BY <3>1, <1>2 DEF OneWriter
    <3> QED
      BY <3>1, <3>2
  <2> QED
    BY <2>2, <2>3
<1>8. Sound'
  <2>1. ASSUME NEW n \in Node, NEW x \in log'[n], NEW y \in log'[n],
               x.author = n, SameKey(x, y)
        PROVE  x = y
    <3>1. CASE log'[n] = log[n]
      BY <2>1, <3>1 DEF ForkParts, Sound
    <3>2. CASE log'[n] # log[n]
      <4>1. n = h /\ Addable(ops[s], o)
        BY <3>2, <1>3
      <4>2. \A z \in log[h] : z.author = h => z \in ops[s]
        BY <1>2 DEF ForkParts, WriterSeesOwn
      <4>3. \A z \in log[h] : z.author = h => ~SameKey(z, o)
        BY <4>1, <4>2 DEF Addable
      <4>4. x.author = h /\ y.author = h /\ SameKey(y, x)
        BY <2>1, <4>1 DEF SameKey
      <4> QED
        BY <2>1, <4>1, <4>3, <4>4, <1>2, <1>3 DEF ForkParts, Sound
    <3> QED
      BY <3>1, <3>2
  <2>2. ASSUME NEW t \in Store PROVE ConflictFree(ops'[t])
    <3>1. ConflictFree(ops[t])
      BY DEF ForkParts, Sound
    <3> QED
      BY <3>1, <1>3 DEF ConflictFree, Addable, SameKey
  <2> QED
    BY <2>1, <2>2 DEF Sound
<1> QED
  BY <1>5, <1>6, <1>7, <1>8 DEF ForkParts

\* What a session or a request holds, and what a store holds that has not
\* appended, is in the logs of the authors.
LEMMA HeldIsLogged ==
    ASSUME ForkParts
    PROVE  /\ \A s \in Store : \A o \in session[s].batch : o \in log[o.author]
           /\ \A c \in Conn : \A o \in conn[c].batch : o \in log[o.author]
           /\ \A s \in Store : s \in Daemon \/ session[s].st # "author" =>
                 \A o \in ops[s] : o \in log[o.author]
  BY DEF ForkParts, Logged, Unsaved, Cli

\* Every step keeps the invariant if each repository has one writer.
LEMMA ForkStep ==
    ASSUME OneWriter, ForkInv, [Next]_vars
    PROVE  ForkParts'
<1>0. TypeOK /\ ForkParts
  BY DEF ForkInv
<1> USE <1>0
<1>1. ASSUME NEW s \in Store, OpenStore(s) PROVE ForkParts'
  <2>1. /\ open' = open \cup {s} /\ UNCHANGED <<log, session, conn>>
        /\ ConflictFree(log[Home[s]])
        /\ ops'[s] = log[Home[s]] /\ \A t \in Store : t # s => ops'[t] = ops[t]
        /\ Home[s] \in Node
    BY <1>1, StoreAssumption DEF OpenStore, TypeOK
  <2>2. ClosedEmpty'
    BY <2>1 DEF ForkParts, ClosedEmpty
  <2>3. Logged'
    BY <2>1 DEF ForkParts, Logged, Unsaved
  <2>4. WriterSeesOwn'
    BY <2>1 DEF ForkParts, WriterSeesOwn, Cli
  <2>5. Sound'
    BY <2>1 DEF ForkParts, Sound
  <2> QED
    BY <2>2, <2>3, <2>4, <2>5 DEF ForkParts
<1>2. ASSUME NEW s \in Store, CloseStore(s) PROVE ForkParts'
  <2>1. /\ open' = open \ {s} /\ log' = log
        /\ ops'[s] = {} /\ \A t \in Store : t # s => ops'[t] = ops[t]
        /\ session'[s] = Idle /\ \A t \in Store : t # s => session'[t] = session[t]
    BY <1>2 DEF CloseStore, TypeOK
  <2>2. Idle.st = "idle" /\ Idle.batch = {} /\ Free.batch = {}
    BY DEF Idle, Free
  <2>3. \A c \in Conn : conn'[c].batch \subseteq conn[c].batch
    <3> SUFFICES ASSUME NEW c \in Conn PROVE conn'[c].batch \subseteq conn[c].batch
      OBVIOUS
    <3>1. conn'[c] \in {Free, Abandon(conn[c]), conn[c]} /\ conn[c] \in Connection
      BY <1>2 DEF CloseStore, TypeOK
    <3> QED
      BY <2>2, <3>1, AbandonType
  <2>4. ClosedEmpty'
    BY <2>1, <2>2 DEF ForkParts, ClosedEmpty
  <2>5. Logged'
    BY <2>1, <2>2, <2>3 DEF ForkParts, Logged, Unsaved
  <2>6. WriterSeesOwn'
    BY <2>1 DEF ForkParts, WriterSeesOwn, Cli
  <2>7. Sound'
    BY <2>1 DEF ForkParts, Sound, ConflictFree
  <2> QED
    BY <2>4, <2>5, <2>6, <2>7 DEF ForkParts
<1>3. ASSUME NEW s \in Store, AppendLocalOp(s) PROVE ForkParts'
  BY <1>3, AppendStep
<1>4. ASSUME NEW s \in Store, NEW d \in Daemon, StartSync(s, d) PROVE ForkParts'
  <2>1. /\ s \in open /\ session[s].st = "idle" /\ session'[s].batch = {}
        /\ \A t \in Store : t # s => session'[t] = session[t]
        /\ UNCHANGED <<log, ops, open, conn>>
    BY <1>4 DEF StartSync, Idle, TypeOK
  <2> QED
    BY <2>1, HeldIsLogged, QuietStep
<1>5. ASSUME NEW s \in Store, NEW c \in Conn, SendRequest(s, c) PROVE ForkParts'
  <2>1. /\ session[s].st = "ask" /\ session'[s].batch = {}
        /\ \A t \in Store : t # s => session'[t] = session[t]
        /\ conn'[c].batch = session[s].batch
        /\ \A k \in Conn : k # c => conn'[k] = conn[k]
        /\ UNCHANGED <<log, ops, open>>
    BY <1>5 DEF SendRequest, TypeOK, Session
  <2> QED
    BY <2>1, HeldIsLogged, QuietStep
<1>6. ASSUME NEW s \in Store, CallFails(s) PROVE ForkParts'
  <2>1. /\ session[s].st # "author"
        /\ session'[s].st = "idle" /\ session'[s].batch = {}
        /\ \A t \in Store : t # s => session'[t] = session[t]
        /\ UNCHANGED <<log, ops, open>>
    BY <1>6 DEF CallFails, Idle, TypeOK
  <2>2. \A k \in Conn : conn'[k].batch \subseteq conn[k].batch
    <3>1. \A k \in Conn : Abandon(conn[k]).batch \subseteq conn[k].batch
      BY AbandonType DEF TypeOK
    <3> QED
      BY <1>6, <3>1 DEF CallFails, TypeOK
  <2> QED
    BY <2>1, <2>2, HeldIsLogged, QuietStep
<1>7. ASSUME NEW s \in Store, NEW c \in Conn, ReceiveResponse(s, c) PROVE ForkParts'
  <2>1. /\ session[s].st = "wait" /\ session'[s].batch = conn[c].batch
        /\ \A t \in Store : t # s => session'[t] = session[t]
        /\ conn'[c].batch = {} /\ \A k \in Conn : k # c => conn'[k] = conn[k]
        /\ UNCHANGED <<log, ops, open>>
    BY <1>7 DEF ReceiveResponse, TypeOK, Session, Free
  <2> QED
    BY <2>1, HeldIsLogged, QuietStep
<1>8. ASSUME NEW s \in Store, ApplyOp(s) PROVE ForkParts'
  <2>1. PICK o \in session[s].batch, added \in BOOLEAN :
            /\ AddOperation(s, o, added)
            /\ session' = [session EXCEPT ![s].batch = @ \ {o},
                                          ![s].pulled = @ \/ added]
    BY <1>8 DEF ApplyOp
  <2>2. o \in Operation /\ o \in log[o.author]
    BY HeldIsLogged DEF TypeOK, Session
  <2>3. s \in open /\ open' = open /\ conn' = conn
    BY <1>8 DEF ApplyOp, ForkParts, ClosedEmpty
  <2>4. \A t \in Store : /\ session'[t].st = session[t].st
                        /\ session'[t].batch \subseteq session[t].batch
    BY <2>1 DEF TypeOK, Session
  <2> QED
    BY <2>1, <2>2, <2>3, <2>4, RemoteStep
<1>9. ASSUME NEW s \in Store, FinishRound(s) PROVE ForkParts'
  <2> DEFINE toSend == MissingFor(ops[s], session[s].theirs)
  <2>1. /\ session[s].st = "apply"
        /\ session'[s].batch \in {{}, toSend}
        /\ \A t \in Store : t # s => session'[t] = session[t]
        /\ UNCHANGED <<log, ops, open, conn>>
    BY <1>9 DEF FinishRound, Idle, TypeOK
  <2>2. toSend \subseteq ops[s]
    BY MissingForSubset
  <2>3. s \in open
    BY <2>1 DEF ForkParts, ClosedEmpty
  <2> HIDE DEF toSend
  <2> QED
    BY <2>1, <2>2, <2>3, HeldIsLogged, QuietStep
<1>10. ASSUME NEW c \in Conn, HandleOp(c) PROVE ForkParts'
  <2>1. PICK o \in conn[c].batch, added \in BOOLEAN :
            /\ AddOperation(conn[c].server, o, added)
            /\ conn' = [conn EXCEPT ![c].batch = @ \ {o}]
    BY <1>10 DEF HandleOp
  <2>2. /\ o \in Operation /\ o \in log[o.author]
        /\ conn[c].server \in open
    BY <1>10, HeldIsLogged DEF HandleOp, TypeOK, Connection
  <2>3. open' = open /\ session' = session
    BY <1>10 DEF HandleOp
  <2>4. \A k \in Conn : conn'[k].batch \subseteq conn[k].batch
    BY <2>1 DEF TypeOK, Connection
  <2> QED
    BY <2>1, <2>2, <2>3, <2>4, RemoteStep
<1>11. ASSUME NEW c \in Conn, HandleSummary(c) PROVE ForkParts'
  <2>1. /\ UNCHANGED <<log, ops, open, session>>
        /\ \A k \in Conn : conn'[k].batch = conn[k].batch
    BY <1>11 DEF HandleSummary, TypeOK, Connection
  <2> QED
    BY <2>1, HeldIsLogged, QuietStep
<1>12. ASSUME NEW c \in Conn, HandleReply(c) PROVE ForkParts'
  <2> DEFINE answer == MissingFor(ops[conn[c].server], conn[c].known)
  <2>1. conn[c].server \in Daemon
    BY <1>12, StoreAssumption DEF HandleReply, TypeOK, Connection
  <2>2. answer \subseteq ops[conn[c].server]
    BY MissingForSubset
  <2>3. /\ UNCHANGED <<log, ops, open, session>>
        /\ conn'[c].batch \in {{}, answer}
        /\ \A k \in Conn : k # c => conn'[k] = conn[k]
    <3> HIDE DEF answer
    <3>1. conn' = [conn EXCEPT ![c] = Free] \/
          conn' = [conn EXCEPT ![c] = [conn[c] EXCEPT !.st = "reply", !.batch = answer,
                                                      !.known = EmptySummary]]
      BY <1>12 DEF HandleReply, answer
    <3>2. conn \in [Conn -> Connection] /\ Free.batch = {}
      BY DEF TypeOK, Free
    <3>3. \A k \in Conn : k # c => conn'[k] = conn[k]
      BY <3>1, <3>2
    <3>4. \/ conn'[c] = Free
          \/ conn'[c] = [conn[c] EXCEPT !.st = "reply", !.batch = answer,
                                        !.known = EmptySummary]
      BY <3>1, <3>2
    <3>5. conn'[c].batch \in {{}, answer}
      BY <3>2, <3>4 DEF Connection
    <3> QED
      BY <1>12, <3>3, <3>5 DEF HandleReply
  <2>4. conn[c].server \in Store
    BY <2>1, StoreAssumption
  <2> HIDE DEF answer
  <2> QED
    BY <2>1, <2>2, <2>3, <2>4, HeldIsLogged, QuietStep
<1>13. CASE UNCHANGED vars
  BY <1>13 DEF vars, ForkParts, ClosedEmpty, Logged, Unsaved, WriterSeesOwn, Sound,
               ConflictFree
<1> QED
  BY <1>1, <1>2, <1>3, <1>4, <1>5, <1>6, <1>7, <1>8, <1>9, <1>10, <1>11,
     <1>12, <1>13 DEF ForkInv, Next, StoreNext, HandlerNext

\* The invariant rules out forks: two operations with one key are both in
\* the author's log, or one of them waits in the memory of the only writer.
LEMMA ForkInvNoFork ==
    ASSUME OneWriter, ForkInv
    PROVE  NoFork
<1> SUFFICES ASSUME NEW x \in Everywhere, NEW y \in Everywhere, SameKey(x, y)
             PROVE  x = y
  BY DEF NoFork, ConflictFree
<1>1. ASSUME NEW z \in Everywhere
      PROVE  z.author \in Node /\ (z \in log[z.author] \/
               \E s \in Cli \cap open : Home[s] = z.author /\ z \in ops[s])
  <2>1. CASE \E n \in Node : z \in log[n]
    BY <2>1, OperationFields DEF ForkInv, ForkParts, Logged, TypeOK
  <2>2. ASSUME NEW s \in Store, z \in ops[s]
        PROVE  z.author \in Node /\ (z \in log[z.author] \/
                 \E t \in Cli \cap open : Home[t] = z.author /\ z \in ops[t])
    <3>1. z.author \in Node
      BY <2>2, OperationFields DEF ForkInv, TypeOK
    <3>2. s \in open
      BY <2>2 DEF ForkInv, ForkParts, ClosedEmpty
    <3>3. z \in log[z.author] \/ Unsaved(s, z)
      BY <2>2 DEF ForkInv, ForkParts, Logged
    <3> QED
      BY <2>2, <3>1, <3>2, <3>3 DEF Unsaved
  <2> QED
    BY <2>1, <2>2 DEF Everywhere
<1>2. x.author = y.author /\ SameKey(y, x)
  BY DEF SameKey
<1>3. CASE x \in log[x.author] /\ y \in log[y.author]
  BY <1>1, <1>2, <1>3 DEF ForkInv, ForkParts, Sound
<1>4. ASSUME NEW s \in Cli \cap open, Home[s] = x.author, x \in ops[s] \/ y \in ops[s]
      PROVE  x = y
  <2>1. \A z \in log[x.author] : z.author = x.author => z \in ops[s]
    BY <1>4 DEF ForkInv, ForkParts, WriterSeesOwn
  <2>2. \A t \in Cli : Home[t] = x.author => t = s
    BY <1>4 DEF OneWriter
  <2>3. x \in ops[s] /\ y \in ops[s]
    BY <1>1, <1>2, <2>1, <2>2
  <2> QED
    BY <2>3 DEF ForkInv, ForkParts, Sound, ConflictFree, Cli
<1> QED
  BY <1>1, <1>2, <1>3, <1>4

\* In the initial state nothing circulates.
LEMMA ForkInit == Init => ForkInv
<1> SUFFICES ASSUME Init PROVE ForkInv
  OBVIOUS
<1>1. Idle.st = "idle" /\ Idle.batch = {} /\ Free.batch = {}
  BY DEF Idle, Free
<1> QED
  BY <1>1, TypeInit DEF Init, ForkInv, ForkParts, ClosedEmpty, Logged, WriterSeesOwn,
                        Sound, ConflictFree

\* With one store per repository that appends, no identity ever signs one
\* sequence number twice: not across restarts, failed writes, late handlers
\* or a daemon running beside the command.
THEOREM NoForkHolds == OneWriter => (Spec => []NoFork)
<1> SUFFICES ASSUME OneWriter PROVE Spec => []NoFork
  OBVIOUS
<1>1. Init => ForkInv
  BY ForkInit
<1>2. ForkInv /\ [Next]_vars => ForkInv'
  BY ForkStep, TypeStep DEF ForkInv
<1>3. ForkInv => NoFork
  BY ForkInvNoFork
<1> QED
  BY <1>1, <1>2, <1>3, PTL DEF Spec
=============================================================================
