----------------------------- MODULE GossipSync -----------------------------
(***************************************************************************)
(* Open stores, the operation log they share, and anti-entropy sync        *)
(* (src/gossip/store.go, sync.go, daemon.go).                              *)
(*                                                                         *)
(* A "store" is one value returned by OpenStore: the store of a running    *)
(* daemon, or the store of one invocation of the vcs command.  Each keeps  *)
(* its own copy of the log in memory, read when it was opened; all stores  *)
(* of a repository append to the same ops.log.  Nothing but convention     *)
(* keeps two of them from being open at once.                              *)
(***************************************************************************)
EXTENDS OpLog

CONSTANTS
    Store,           \* the stores that may be open at some time
    Daemon,          \* those that belong to "vcs daemon"
    Home,            \* Home[s] is the repository of store s
    Peers,           \* Peers[n] is the set of daemons in n's peers file
    Conn,            \* BOUND: sync requests that exist at one time
    None,            \* no store
    MaxRounds,       \* rounds of one SyncPeer call
    MaxWriteErrors,  \* BOUND: failing writes to ops.log
    MaxLost          \* BOUND: requests whose answer never arrives

ASSUME StoreAssumption ==
    /\ Daemon \subseteq Store
    /\ Home \in [Store -> Node]
    /\ Peers \in [Node -> SUBSET Daemon]
    /\ None \notin Store
ASSUME LimitAssumption ==
    /\ MaxRounds \in Nat \ {0}
    /\ MaxWriteErrors \in Nat
    /\ MaxLost \in Nat

VARIABLES
    log,          \* log[n]: the operations in ops.log of repository n
    signed,       \* signed[n]: how many operations identity n has signed
    open,         \* the stores that are open
    ops,          \* ops[s]: Store.ops of s
    seqByAuthor,  \* seqByAuthor[s]: Store.seqByAuthor of s
    session,      \* session[s]: what the owner of s is doing with it
    conn,         \* conn[c]: a /v1/sync request and its handler
    writeErrors,  \* failing writes so far
    lost          \* answers lost so far

storeVars == <<log, ops, seqByAuthor, writeErrors>>
vars == <<log, signed, open, ops, seqByAuthor, session, conn, writeErrors, lost>>

Cli == Store \ Daemon

-----------------------------------------------------------------------------
(* The state of a SyncPeer call and of a request.                          *)

\* st: "idle"; "ask" is about to send a round, with batch = toSend; "wait"
\* for the answer; "apply" adds the operations of the answer, batch;
\* "author" has appended and syncs no more (no command does).
Session ==
    [st     : {"idle", "ask", "wait", "apply", "author"},
     peer   : Daemon \cup {None},
     round  : 0..(MaxRounds - 1),
     batch  : SUBSET Operation,
     theirs : SummaryVector,
     pulled : BOOLEAN]

Idle == [st |-> "idle", peer |-> None, round |-> 0, batch |-> {},
         theirs |-> EmptySummary, pulled |-> FALSE]

\* st: "add" adds the operations of the request, batch; "summed" has read
\* the summary; "reply" holds the answer with its operations, batch.
\* A client that gave up is None; the handler runs on without it.
Connection ==
    [st     : {"free", "add", "summed", "reply"},
     client : Store \cup {None},
     server : Daemon \cup {None},
     batch  : SUBSET Operation,
     known  : SummaryVector,
     theirs : SummaryVector]

Free == [st |-> "free", client |-> None, server |-> None, batch |-> {},
         known |-> EmptySummary, theirs |-> EmptySummary]

Abandon(c) == IF c.st = "reply" THEN Free ELSE [c EXCEPT !.client = None]

-----------------------------------------------------------------------------
(* Operations of a store.                                                  *)

\* Mutant of AddOperation: an operation is kept in memory only, as loadOps
\* does (persist = false).
AddOperationInMemory(s, o, added) ==
    /\ added = Addable(ops[s], o)
    /\ ops' = [ops EXCEPT ![s] = IF added THEN @ \cup {o} ELSE @]
    /\ seqByAuthor' = [seqByAuthor EXCEPT ![s][o.author] =
                          IF added /\ o.seq > @ THEN o.seq ELSE @]
    /\ UNCHANGED <<log, writeErrors>>

\* addOperationLocked(o, TRUE) on store s, with its first result.  Memory
\* changes before the log is written and keeps o when the write fails.
AddOperation(s, o, added) ==
    \/ /\ Addable(ops[s], o)
       /\ ops' = [ops EXCEPT ![s] = @ \cup {o}]
       /\ seqByAuthor' = [seqByAuthor EXCEPT ![s][o.author] =
                             IF o.seq > @ THEN o.seq ELSE @]
       /\ \/ /\ added
             /\ log' = [log EXCEPT ![Home[s]] = @ \cup {o}]
             /\ UNCHANGED writeErrors
          \/ /\ ~added
             /\ writeErrors < MaxWriteErrors
             /\ writeErrors' = writeErrors + 1
             /\ UNCHANGED log
    \/ /\ ~Addable(ops[s], o)
       /\ ~added
       /\ UNCHANGED storeVars

\* Mutant of OpenStore: the operations of the own identity are not loaded.
OpenStoreSkipsOwn(s) ==
    LET loaded == {o \in log[Home[s]] : o.author # Home[s]} IN
    /\ s \notin open
    /\ ConflictFree(log[Home[s]])
    /\ open' = open \cup {s}
    /\ ops' = [ops EXCEPT ![s] = loaded]
    /\ seqByAuthor' = [seqByAuthor EXCEPT ![s] = Summary(loaded)]
    /\ UNCHANGED <<log, signed, session, conn, writeErrors, lost>>

\* loadOps fails on conflicting operations, and then no store is opened.
OpenStore(s) ==
    /\ s \notin open
    /\ ConflictFree(log[Home[s]])
    /\ open' = open \cup {s}
    /\ ops' = [ops EXCEPT ![s] = log[Home[s]]]
    /\ seqByAuthor' = [seqByAuthor EXCEPT ![s] = Summary(log[Home[s]])]
    /\ UNCHANGED <<log, signed, session, conn, writeErrors, lost>>

\* Mutant of CloseStore: the requests a daemon serves outlive it.
CloseStoreKeepsRequests(s) ==
    /\ s \in open
    /\ open' = open \ {s}
    /\ ops' = [ops EXCEPT ![s] = {}]
    /\ seqByAuthor' = [seqByAuthor EXCEPT ![s] = EmptySummary]
    /\ session' = [session EXCEPT ![s] = Idle]
    /\ UNCHANGED <<log, signed, conn, writeErrors, lost>>

\* The process ends, in any state: exit, kill or crash.  Its requests are
\* abandoned, and the requests it was serving are cut.
CloseStore(s) ==
    /\ s \in open
    /\ open' = open \ {s}
    /\ ops' = [ops EXCEPT ![s] = {}]
    /\ seqByAuthor' = [seqByAuthor EXCEPT ![s] = EmptySummary]
    /\ session' = [session EXCEPT ![s] = Idle]
    /\ conn' = [c \in Conn |->
                  IF conn[c].server = s THEN Free
                  ELSE IF conn[c].client = s THEN Abandon(conn[c])
                  ELSE conn[c]]
    /\ UNCHANGED <<log, signed, writeErrors, lost>>

\* The operation AppendLocalOp signs with the identity of store s.
OwnOp(s) == [author |-> Home[s], seq |-> seqByAuthor[s][Home[s]] + 1,
             stamp |-> signed[Home[s]] + 1]

\* Mutant of AppendLocalOp: a command that has appended, or failed to, syncs.
AppendThenSync(s) ==
    /\ s \in open \cap Cli
    /\ session[s].st = "idle"
    /\ signed[Home[s]] < MaxOps
    /\ seqByAuthor[s][Home[s]] < MaxOps
    /\ signed' = [signed EXCEPT ![Home[s]] = @ + 1]
    /\ \E added \in BOOLEAN : AddOperation(s, OwnOp(s), added)
    /\ UNCHANGED <<open, session, conn, lost>>

\* Commands append, the daemon never does; what a command appends comes
\* after its syncing.
AppendLocalOp(s) ==
    /\ s \in open \cap Cli
    /\ session[s].st \in {"idle", "author"}
    /\ signed[Home[s]] < MaxOps
    /\ seqByAuthor[s][Home[s]] < MaxOps
    /\ signed' = [signed EXCEPT ![Home[s]] = @ + 1]
    /\ \E added \in BOOLEAN : AddOperation(s, OwnOp(s), added)
    /\ session' = [session EXCEPT ![s].st = "author"]
    /\ UNCHANGED <<open, conn, lost>>

-----------------------------------------------------------------------------
(* SyncPeer: the client.                                                   *)

\* The gossip loop of a daemon, or vcs sync, turns to one of its peers.
StartSync(s, d) ==
    /\ s \in open
    /\ session[s].st = "idle"
    /\ d \in Peers[Home[s]]
    /\ session' = [session EXCEPT ![s] = [Idle EXCEPT !.st = "ask", !.peer = d]]
    /\ UNCHANGED <<log, signed, open, ops, seqByAuthor, conn, writeErrors, lost>>

\* Mutant of SendRequest: the request carries the summary only.
SendSummaryOnly(s, c) ==
    /\ session[s].st = "ask"
    /\ session[s].peer \in open
    /\ conn[c] = Free
    /\ conn' = [conn EXCEPT ![c] = [Free EXCEPT !.st = "add", !.client = s,
                    !.server = session[s].peer, !.known = seqByAuthor[s]]]
    /\ session' = [session EXCEPT ![s].st = "wait", ![s].batch = {}]
    /\ UNCHANGED <<log, signed, open, ops, seqByAuthor, writeErrors, lost>>

\* Send summary and toSend to a daemon that answers the connection.
SendRequest(s, c) ==
    /\ session[s].st = "ask"
    /\ session[s].peer \in open
    /\ conn[c] = Free
    /\ conn' = [conn EXCEPT ![c] =
                  [st |-> "add", client |-> s, server |-> session[s].peer,
                   batch |-> session[s].batch, known |-> seqByAuthor[s],
                   theirs |-> EmptySummary]]
    /\ session' = [session EXCEPT ![s].st = "wait", ![s].batch = {},
                                  ![s].theirs = EmptySummary, ![s].pulled = FALSE]
    /\ UNCHANGED <<log, signed, open, ops, seqByAuthor, writeErrors, lost>>

\* callSync returns an error and SyncPeer with it: connection refused, the
\* server gone, or no answer before the time-out while the handler goes on.
CallFails(s) ==
    /\ \/ /\ session[s].st = "ask"
          /\ \/ session[s].peer \notin open /\ UNCHANGED lost
             \/ lost < MaxLost /\ lost' = lost + 1
          /\ UNCHANGED conn
       \/ /\ session[s].st = "wait"
          /\ \A c \in Conn : conn[c].client # s
          /\ UNCHANGED <<conn, lost>>
       \/ /\ session[s].st = "wait"
          /\ \E c \in Conn :
                /\ conn[c].client = s
                /\ conn' = [conn EXCEPT ![c] = Abandon(@)]
          /\ lost < MaxLost
          /\ lost' = lost + 1
    /\ session' = [session EXCEPT ![s] = Idle]
    /\ UNCHANGED <<log, signed, open, ops, seqByAuthor, writeErrors>>

ReceiveResponse(s, c) ==
    /\ session[s].st = "wait"
    /\ conn[c].client = s
    /\ conn[c].st = "reply"
    /\ session' = [session EXCEPT ![s].st = "apply",
                                  ![s].batch = conn[c].batch,
                                  ![s].theirs = conn[c].theirs]
    /\ conn' = [conn EXCEPT ![c] = Free]
    /\ UNCHANGED <<log, signed, open, ops, seqByAuthor, writeErrors, lost>>

ApplyOp(s) ==
    /\ session[s].st = "apply"
    /\ \E o \in session[s].batch, added \in BOOLEAN :
          /\ IsFirst(o, session[s].batch)
          /\ AddOperation(s, o, added)
          /\ session' = [session EXCEPT ![s].batch = @ \ {o},
                                        ![s].pulled = @ \/ added]
    /\ UNCHANGED <<signed, open, conn, lost>>

\* Mutant of FinishRound: a round that pulls nothing is the last.
FinishWhenNothingPulled(s) ==
    /\ session[s].st = "apply"
    /\ session[s].batch = {}
    /\ session' = [session EXCEPT ![s] =
          IF ~session[s].pulled \/ session[s].round + 1 = MaxRounds THEN Idle
          ELSE [Idle EXCEPT !.st = "ask", !.peer = session[s].peer,
                            !.round = session[s].round + 1,
                            !.batch = MissingFor(ops[s], session[s].theirs)]]
    /\ UNCHANGED <<log, signed, open, ops, seqByAuthor, conn, writeErrors, lost>>

\* Nothing pulled and nothing to send ends the call; so does the last round,
\* and then what MissingFor returned is not sent.
FinishRound(s) ==
    /\ session[s].st = "apply"
    /\ session[s].batch = {}
    /\ LET toSend == MissingFor(ops[s], session[s].theirs)
           done   == \/ ~session[s].pulled /\ toSend = {}
                     \/ session[s].round + 1 = MaxRounds
       IN  session' = [session EXCEPT ![s] =
                         IF done THEN Idle
                         ELSE [Idle EXCEPT !.st = "ask", !.peer = session[s].peer,
                                           !.round = session[s].round + 1,
                                           !.batch = toSend]]
    /\ UNCHANGED <<log, signed, open, ops, seqByAuthor, conn, writeErrors, lost>>

-----------------------------------------------------------------------------
(* The /v1/sync handler: it takes the store's lock once per operation, once *)
(* for the summary and once for the answer's operations.                    *)

HandleOp(c) ==
    /\ conn[c].st = "add"
    /\ \E o \in conn[c].batch, added \in BOOLEAN :
          /\ IsFirst(o, conn[c].batch)
          /\ AddOperation(conn[c].server, o, added)
          /\ conn' = [conn EXCEPT ![c].batch = @ \ {o}]
    /\ UNCHANGED <<signed, open, session, lost>>

HandleSummary(c) ==
    /\ conn[c].st = "add"
    /\ conn[c].batch = {}
    /\ conn' = [conn EXCEPT ![c].st = "summed",
                            ![c].theirs = seqByAuthor[conn[c].server]]
    /\ UNCHANGED <<log, signed, open, ops, seqByAuthor, session, writeErrors, lost>>

\* Mutant of HandleReply: the answer is computed from the server's summary.
HandleReplyOwnSummary(c) ==
    /\ conn[c].st = "summed"
    /\ LET answer == MissingFor(ops[conn[c].server], conn[c].theirs)
       IN  conn' = [conn EXCEPT ![c] =
                      IF conn[c].client = None THEN Free
                      ELSE [conn[c] EXCEPT !.st = "reply", !.batch = answer,
                                           !.known = EmptySummary]]
    /\ UNCHANGED <<log, signed, open, ops, seqByAuthor, session, writeErrors, lost>>

HandleReply(c) ==
    /\ conn[c].st = "summed"
    /\ LET answer == MissingFor(ops[conn[c].server], conn[c].known)
       IN  conn' = [conn EXCEPT ![c] =
                      IF conn[c].client = None THEN Free
                      ELSE [conn[c] EXCEPT !.st = "reply", !.batch = answer,
                                           !.known = EmptySummary]]
    /\ UNCHANGED <<log, signed, open, ops, seqByAuthor, session, writeErrors, lost>>

-----------------------------------------------------------------------------
Init ==
    /\ log = [n \in Node |-> {}]
    /\ signed = [n \in Node |-> 0]
    /\ open = {}
    /\ ops = [s \in Store |-> {}]
    /\ seqByAuthor = [s \in Store |-> EmptySummary]
    /\ session = [s \in Store |-> Idle]
    /\ conn = [c \in Conn |-> Free]
    /\ writeErrors = 0
    /\ lost = 0

StoreNext(s) ==
    \/ OpenStore(s)
    \/ CloseStore(s)
    \/ AppendLocalOp(s)
    \/ \E d \in Daemon : StartSync(s, d)
    \/ \E c \in Conn : SendRequest(s, c)
    \/ CallFails(s)
    \/ \E c \in Conn : ReceiveResponse(s, c)
    \/ ApplyOp(s)
    \/ FinishRound(s)

HandlerNext(c) ==
    \/ HandleOp(c)
    \/ HandleSummary(c)
    \/ HandleReply(c)

Next ==
    \/ \E s \in Store : StoreNext(s)
    \/ \E c \in Conn : HandlerNext(c)

Spec == Init /\ [][Next]_vars

\* What a running process does by itself: a SyncPeer call goes on, handlers
\* run, and a daemon's ticker takes its loop to every peer again and again.
\* Starting and stopping processes and entering commands is up to people.
Fairness ==
    /\ \A s \in Store :
          /\ \A c \in Conn : SF_vars(SendRequest(s, c))
          /\ \A c \in Conn : WF_vars(ReceiveResponse(s, c))
          /\ WF_vars(CallFails(s))
          /\ WF_vars(ApplyOp(s))
          /\ WF_vars(FinishRound(s))
    /\ \A d, e \in Daemon : SF_vars(StartSync(d, e))
    /\ \A c \in Conn : WF_vars(HandlerNext(c))

FairSpec == Spec /\ Fairness

-----------------------------------------------------------------------------
(* Properties.                                                             *)

\* Every variable stays in its type; a request that exists is served by an
\* open daemon.
TypeOK ==
    /\ log \in [Node -> SUBSET Operation]
    /\ signed \in [Node -> 0..MaxOps]
    /\ open \in SUBSET Store
    /\ ops \in [Store -> SUBSET Operation]
    /\ seqByAuthor \in [Store -> SummaryVector]
    /\ session \in [Store -> Session]
    /\ conn \in [Conn -> Connection]
    /\ writeErrors \in 0..MaxWriteErrors
    /\ lost \in 0..MaxLost
    /\ \A c \in Conn : conn[c].st # "free" => conn[c].server \in open

\* The discipline nothing in the code enforces: a repository has one store
\* that appends, opened again and again.  Running one command at a time is
\* not enough for it: recordGitEvent opens a second store while its command
\* goes on with the first.
OneWriter == \A s, t \in Cli : Home[s] = Home[t] => s = t

Everywhere == (UNION {log[n] : n \in Node}) \cup (UNION {ops[s] : s \in Store})

\* No author ever has two different operations with one sequence number, in
\* whatever log or memory they are: neither a crash, a failed write, a late
\* handler nor a restart makes addOperationLocked sign a number again.
NoFork == ConflictFree(Everywhere)

\* A summary vector can stand for a log: no log and no memory ever holds an
\* operation without all earlier ones of its author, whatever the batch
\* limit cut off and however requests, restarts and rounds interleave, until
\* a write to ops.log fails.
Gapless ==
    /\ \A n \in Node : GapFree(log[n])
    /\ \A s \in Store : GapFree(ops[s])

NoGaps == writeErrors = 0 => Gapless

\* Until a write fails, what a store says it has when it asks a peer for the rest is on its disk:
\* it would survive a crash at that moment, so what peers leave out of their
\* answers need never be asked for again.
SummaryDurable == writeErrors = 0 =>
    \A s \in open : \A a \in Node : \A k \in 1..seqByAuthor[s][a] :
        \E o \in log[Home[s]] : o.author = a /\ o.seq = k

QuietEnd(s) ==
    /\ session[s].st = "apply" /\ session'[s] = Idle
    /\ s \in open'
    /\ session[s].round + 1 < MaxRounds
    /\ writeErrors = 0

\* A SyncPeer call of a command that stops before its last round has made
\* both sides equal, unless a write failed: what the peer said it had is
\* what the store has.
QuietEndMeansSynced ==
    [][\A s \in Cli : QuietEnd(s) => seqByAuthor[s] = session[s].theirs]_vars

\* What one daemon has, every daemon it gossips with gets, if both stay up.
DaemonsConverge ==
    \A d, e \in Daemon : \A o \in Operation :
        e \in Peers[Home[d]] =>
            (o \in ops[d] /\ []({d, e} \subseteq open)) ~> o \in ops[e]

\* The other direction of the same exchange: the loop of d also fetches.
DaemonsFetch ==
    \A d, e \in Daemon : \A o \in Operation :
        e \in Peers[Home[d]] =>
            (o \in ops[e] /\ []({d, e} \subseteq open)) ~> o \in ops[d]

\* What a command writes to the log of a repository reaches the peers of the
\* daemon that runs there.
PassiveReplication ==
    \A d, e \in Daemon : \A o \in Operation :
        e \in Peers[Home[d]] =>
            (o \in log[Home[d]] /\ []({d, e} \subseteq open))
                ~> o \in log[Home[e]]

\* The logs on disk, whatever processes and requests do, behave like the
\* replicated log of ReplicatedOpLog.
Replicated == INSTANCE ReplicatedOpLog WITH known <- log
ImplementsReplicatedOpLog == Replicated!Spec
=============================================================================
