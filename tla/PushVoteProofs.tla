--------------------------- MODULE PushVoteProofs ---------------------------
(***************************************************************************)
(* As long as a repository runs one command at a time, a certifier never   *)
(* counts its own withdrawn vote, and no vote shares its number with       *)
(* another operation of its author.                                        *)
(***************************************************************************)
EXTENDS PushQueueProofs

-----------------------------------------------------------------------------
(* The invariant.                                                          *)

\* A running command knows what its repository has said so far: it may miss
\* the events recordGitEvent has logged behind its back, but nothing else.
KnowsOwn(c) ==
    cmd[c].pc # "idle" =>
        /\ ConflictFree(cmd[c].mem)
        /\ \A o \in log[Home[c]] :
              o.author = Home[c] /\ o.body.kind # "event" => o \in cmd[c].mem

\* Whatever a repository has of another one is in the other one's log.
Returned == \A n \in Node : \A o \in log[n] : o \in log[o.author]

VoteInv == (\A c \in Proc : KnowsOwn(c)) /\ Returned /\ OwnVoteIsLatest

\* o is signed by n, on top of a store that holds S, in which n knows what
\* it has said.
SignedOver(n, S, o) ==
    /\ o.author = n
    /\ S \subseteq log[n]
    /\ ConflictFree(S)
    /\ \A x \in log[n] : x.author = n /\ x.body.kind # "event" => x \in S
    /\ \A x \in S : x.author = n => x.seq < o.seq
    /\ o.body.kind = "cert" /\ n \in o.body.yesVoters =>
          LatestVoteIsYes(S, o.body.prop, n)

\* At most one operation is added to the log of n: one it signs, or one that
\* is in a log.
Adds(n) ==
    \/ log' = log
    \/ \E o \in SignedOp :
          /\ log' = [log EXCEPT ![n] = @ \cup {o}]
          /\ (\E S : SignedOver(n, S, o)) \/ (\E m \in Node : o \in log[m])

-----------------------------------------------------------------------------
(* What signing and copying preserve.                                      *)

\* The newest of the yes votes that count is what the certifier said last.
LEMMA SignedCertificate ==
    ASSUME TypeOK, NEW n \in Node, NEW S, NEW o \in SignedOp, SignedOver(n, S, o),
           o.body.kind = "cert", n \in o.body.yesVoters,
           NEW v \in VoteOps(log[n], o.body.prop, n)
    PROVE  v.body.yes \/ \E w \in VoteOps(log[n], o.body.prop, n) :
                              w.seq < o.seq /\ w.seq > v.seq /\ w.body.yes
<1>1. v \in VoteOps(S, o.body.prop, n)
  BY DEF SignedOver, VoteOps
<1>2. PICK w \in VoteOps(S, o.body.prop, n) : w.body.yes /\ v.seq <= w.seq
  BY <1>1 DEF SignedOver, LatestVoteIsYes
<1>3. /\ w \in VoteOps(log[n], o.body.prop, n) /\ w.seq < o.seq
      /\ v \in S /\ w \in S /\ SameKey(v, w) <=> v.seq = w.seq
  BY <1>1, <1>2 DEF SignedOver, VoteOps, SameKey
<1>4. v.seq \in Nat /\ w.seq \in Nat
  BY <1>3, BoundAssumption DEF VoteOps, TypeOK, SignedOp
<1>5. CASE v.seq = w.seq
  BY <1>2, <1>3, <1>5 DEF SignedOver, ConflictFree
<1> QED
  BY <1>2, <1>3, <1>4, <1>5

\* Votes n signs later carry a higher number than every certificate of n, so
\* they change nothing of what its certificates say.
LEMMA AddsKeepsOwnVote ==
    ASSUME TypeOK, Returned, OwnVoteIsLatest, NEW n \in Node, Adds(n)
    PROVE  Returned' /\ OwnVoteIsLatest'
<1>1. CASE log' = log
  BY <1>1 DEF Returned, OwnVoteIsLatest
<1>2. ASSUME NEW o \in SignedOp, log' = [log EXCEPT ![n] = @ \cup {o}],
             (\E S : SignedOver(n, S, o)) \/ (\E m \in Node : o \in log[m])
      PROVE  Returned' /\ OwnVoteIsLatest'
  <2>1. /\ \A k \in Node : log[k] \subseteq log'[k] /\ log'[k] \subseteq log[k] \cup {o}
        /\ log'[n] = log[n] \cup {o} /\ \A k \in Node \ {n} : log'[k] = log[k]
        /\ o.author \in Node
    BY <1>2 DEF TypeOK, SignedOp
  <2>2. o \in log'[o.author]
    BY <1>2, <2>1 DEF Returned, SignedOver
  <2>3. Returned'
    BY <2>1, <2>2 DEF Returned, TypeOK, SignedOp
  <2> DEFINE Own(L, x) == {v \in VoteOps(L[x.author], x.body.prop, x.author) :
                               v.seq < x.seq}
             Latest(L, x) == \A v \in Own(L, x) :
                 v.body.yes \/ \E w \in Own(L, x) : w.seq > v.seq /\ w.body.yes
             Claims(x) == x.body.kind = "cert" /\ x.author \in x.body.yesVoters
  <2>4. \A k \in Node : \A x \in log[k] : Claims(x) => Latest(log, x)
    BY DEF OwnVoteIsLatest
  <2>5. SUFFICES \A k \in Node : \A x \in log'[k] : Claims(x) => Latest(log', x)
    BY <2>3 DEF OwnVoteIsLatest
  <2>6. CASE o \in log[o.author]
    <3>1. \A a \in Node : \A p : VoteOps(log'[a], p, a) = VoteOps(log[a], p, a)
      BY <2>1, <2>6 DEF VoteOps
    <3>2. \A x \in SignedOp : Latest(log', x) <=> Latest(log, x)
      BY <3>1 DEF SignedOp
    <3> QED
      BY <2>1, <2>4, <2>6, <3>2 DEF TypeOK
  <2>7. CASE o \notin log[o.author]
    <3>1. PICK S : SignedOver(n, S, o)
      BY <1>2, <2>7 DEF Returned
    <3>2. o.author = n /\ o.seq \in Nat
      BY <3>1, BoundAssumption DEF SignedOver, SignedOp
    <3>3. ASSUME NEW k \in Node, NEW x \in log[k], Claims(x)
          PROVE  Latest(log', x)
      <4>1. x \in log[x.author] /\ x.author \in Node /\ x.seq \in Nat
        BY BoundAssumption DEF Returned, TypeOK, SignedOp
      <4>2. x.author = n => x.seq < o.seq
        BY <3>1, <3>3, <4>1 DEF SignedOver
      <4>3. Own(log', x) = Own(log, x)
        BY <2>1, <3>2, <4>1, <4>2 DEF VoteOps
      <4> QED
        BY <2>4, <3>3, <4>3
    <3>4. ASSUME Claims(o) PROVE Latest(log', o)
      <4>1. VoteOps(log'[n], o.body.prop, n) = VoteOps(log[n], o.body.prop, n)
        BY <2>1, <3>4 DEF VoteOps
      <4> QED
        BY <3>1, <3>2, <3>4, <4>1, SignedCertificate
    <3> QED
      BY <2>1, <3>3, <3>4
  <2> QED
    BY <2>6, <2>7
<1> QED
  BY <1>1, <1>2 DEF Adds

\* A step that adds to the log of n keeps the invariant if the command that
\* runs in n knows of it.
LEMMA AddsKeepsVoteInv ==
    ASSUME TypeOK, VoteInv, NEW n \in Node, Adds(n),
           \A c \in Proc : IF Home[c] = n THEN KnowsOwn(c)' ELSE cmd'[c] = cmd[c]
    PROVE  VoteInv'
<1>1. \A k \in Node \ {n} : log'[k] = log[k]
  BY DEF Adds, TypeOK
<1>2. \A c \in Proc : KnowsOwn(c)'
  BY <1>1, ProcAssumption DEF VoteInv, KnowsOwn
<1> QED
  BY <1>2, AddsKeepsOwnVote DEF VoteInv

-----------------------------------------------------------------------------
(* Steps.                                                                  *)

\* What AddsKeepsVoteInv needs to know of a step of process c.
VoteStep(c) ==
    /\ Adds(Home[c])
    /\ KnowsOwn(c)'
    /\ \A d \in Proc \ {c} : cmd'[d] = cmd[d]

\* The next operation of a store is signed over what the store holds, and is
\* in conflict with none of it.
LEMMA NewOpSigned ==
    ASSUME TypeOK, NEW n \in Node, NEW S \in SUBSET log[n], ConflictFree(S),
           \A x \in log[n] : x.author = n /\ x.body.kind # "event" => x \in S,
           NEW body \in Body, Summary(S)[n] < MaxOps,
           body.kind = "cert" /\ n \in body.yesVoters => LatestVoteIsYes(S, body.prop, n)
    PROVE  /\ NewOp(n, S, body) \in SignedOp
           /\ SignedOver(n, S, NewOp(n, S, body))
           /\ ConflictFree(S \cup {NewOp(n, S, body)})
<1> DEFINE o == NewOp(n, S, body)
<1>1. S \in SUBSET SignedOp
  BY DEF TypeOK
<1>2. o \in SignedOp /\ o.author = n /\ o.body = body
  BY <1>1, NewOpFacts
<1>3. \A x \in S : x.author = n => x.seq < o.seq
  <2>1. \A x \in S : x.author \in Node /\ x.seq \in 1..MaxOps
    BY <1>1 DEF SignedOp
  <2>2. /\ Summary(S)[n] \in 0..MaxOps
        /\ \A x \in S : x.author = n => x.seq <= Summary(S)[n]
    BY <2>1, SummaryBounds DEF SummaryVector
  <2>3. o.seq = Summary(S)[n] + 1
    BY DEF NewOp
  <2> QED
    BY <2>1, <2>2, <2>3, BoundAssumption
<1> HIDE DEF o
<1>4. \A x \in S : ~SameKey(x, o) /\ ~SameKey(o, x)
  <2>1. \A x \in S : x.seq \in Nat
    BY <1>1, BoundAssumption DEF SignedOp
  <2> QED
    BY <1>2, <1>3, <2>1 DEF SameKey
<1>5. ConflictFree(S \cup {o})
  BY <1>4 DEF ConflictFree
<1>6. SignedOver(n, S, o)
  BY <1>2, <1>3 DEF SignedOver
<1> QED
  BY <1>2, <1>5, <1>6 DEF o

\* Appending with a store that has just been opened is signing.
LEMMA AppendFreshAdds ==
    ASSUME TypeOK, NEW n \in Node, NEW body \in Body, ConflictFree(log[n]),
           AppendFresh(n, body),
           body.kind = "cert" /\ n \in body.yesVoters =>
               LatestVoteIsYes(log[n], body.prop, n)
    PROVE  Adds(n)
<1>1. /\ NewOp(n, log[n], body) \in SignedOp
      /\ SignedOver(n, log[n], NewOp(n, log[n], body))
  BY NewOpSigned DEF AppendFresh
<1>2. log' = [log EXCEPT ![n] = @ \cup {NewOp(n, log[n], body)}]
  BY DEF AppendFresh, TypeOK
<1> QED
  BY <1>1, <1>2 DEF Adds

\* recordGitEvent adds an event or nothing.
LEMMA RecordAdds ==
    ASSUME TypeOK, NEW n \in Node, NEW x \in OID, RecordGitEvent(n, x)
    PROVE  /\ Adds(n)
           /\ \A o \in log'[n] : o \in log[n] \/ o.body.kind = "event"
<1> DEFINE body == [kind |-> "event", oid |-> x]
<1>1. body \in Body /\ body.kind = "event"
  BY DEF Body, EventBody
<1>2. CASE ConflictFree(log[n])
  <2>1. AppendFresh(n, body)
    BY <1>2 DEF RecordGitEvent
  <2>2. Adds(n)
    BY <1>1, <1>2, <2>1, AppendFreshAdds
  <2>3. log' = [log EXCEPT ![n] = @ \cup {NewOp(n, log[n], body)}]
    BY <2>1 DEF AppendFresh, TypeOK
  <2>4. NewOp(n, log[n], body).body.kind = "event"
    BY DEF NewOp
  <2> QED
    BY <2>2, <2>3, <2>4 DEF TypeOK
<1>3. CASE ~ConflictFree(log[n])
  BY <1>3 DEF RecordGitEvent, Adds
<1> QED
  BY <1>2, <1>3

\* A step of a running command that appends knows what it appends.
LEMMA AppendAndGotoVote ==
    ASSUME TypeOK, MemLogged, NEW c \in Proc, KnowsOwn(c), cmd[c].pc # "idle",
           NEW body \in Body, NEW pc, NEW p, AppendAndGoto(c, body, pc, p),
           body.kind = "cert" /\ Home[c] \in body.yesVoters =>
               LatestVoteIsYes(cmd[c].mem, body.prop, Home[c])
    PROVE  VoteStep(c)
<1> DEFINE n == Home[c]
           S == cmd[c].mem
           o == NewOp(n, S, body)
<1>1. /\ n \in Node /\ S \in SUBSET log[n] /\ cmd[c] \in Command
      /\ \A x \in S : x.author \in Node /\ x.seq \in 1..MaxOps
  BY ProcAssumption DEF MemLogged, TypeOK, Command, SignedOp
<1>2. Summary(S)[n] < MaxOps
  <2>1. Summary(S)[n] \in 0..MaxOps
    BY <1>1, SummaryBounds DEF SummaryVector
  <2>2. Summary(S)[n] + 1 <= MaxOps
    BY DEF AppendAndGoto, NewOp
  <2> QED
    BY <2>1, <2>2, BoundAssumption
<1>3. ConflictFree(S) /\ \A x \in log[n] : x.author = n /\ x.body.kind # "event" => x \in S
  BY DEF KnowsOwn
<1>4. o \in SignedOp /\ SignedOver(n, S, o) /\ ConflictFree(S \cup {o})
  BY <1>1, <1>2, <1>3, NewOpSigned
<1>5. /\ log' = [log EXCEPT ![n] = @ \cup {o}]
      /\ cmd' = [cmd EXCEPT ![c].pc = pc, ![c].mem = @ \cup {o}, ![c].cur = p]
  BY DEF AppendAndGoto
<1> HIDE DEF o
<1>6. log'[n] = log[n] \cup {o} /\ cmd'[c].mem = S \cup {o}
      /\ \A d \in Proc \ {c} : cmd'[d] = cmd[d]
  BY <1>1, <1>5 DEF TypeOK, Command
<1>7. KnowsOwn(c)'
  BY <1>3, <1>4, <1>6 DEF KnowsOwn
<1> QED
  BY <1>4, <1>5, <1>6, <1>7 DEF VoteStep, Adds

\* A certificate that lists its author rests on the vote it cast last.
LEMMA CertificateOwnVote ==
    ASSUME NEW n, NEW S, NEW p, NEW cfg, n \in Certificate(n, S, p, cfg).yesVoters
    PROVE  LatestVoteIsYes(S, p, n)
  BY DEF Certificate, YesVoters

\* A command that leaves the log alone, and its own memory or ends, knows
\* what it knew.
LEMMA QuietVote ==
    ASSUME NEW c \in Proc, KnowsOwn(c), UNCHANGED log,
           \A d \in Proc \ {c} : cmd'[d] = cmd[d],
           \/ cmd'[c].pc = "idle"
           \/ cmd[c].pc # "idle" /\ cmd'[c].mem = cmd[c].mem
    PROVE  VoteStep(c)
  BY DEF VoteStep, Adds, KnowsOwn

\* Copying an operation that comes from n itself changes nothing in n.
LEMMA CopyAdds ==
    ASSUME TypeOK, Returned, NEW n \in Node, NEW m \in Node, NEW o \in log[m],
           log' = [log EXCEPT ![n] = @ \cup {o}]
    PROVE  /\ Adds(n)
           /\ \A x \in log'[n] : x.author = n => x \in log[n]
<1>1. o \in SignedOp /\ o \in log[o.author]
  BY DEF TypeOK, Returned
<1> QED
  BY <1>1 DEF Adds, TypeOK

LEMMA ProcessVote ==
    ASSUME TypeOK, MemLogged, NEW c \in Proc, KnowsOwn(c), ProcessPendingPushes(c)
    PROVE  VoteStep(c)
<1>0. Home[c] \in Node /\ cmd[c] \in Command
  BY ProcAssumption DEF TypeOK
<1>1. ASSUME NEW p \in Proposal, CheckAndSkip(c, p) \/ CheckAndGo(c, p)
      PROVE  VoteStep(c)
  BY <1>0, <1>1, QuietVote DEF CheckAndSkip, CheckAndGo, TypeOK, Command
<1>2. CASE Certify(c)
  <2> DEFINE n == Home[c]
             cert == Certificate(n, cmd[c].mem, cmd[c].cur, config[n])
  <2>1. cmd[c].mem \in SUBSET SignedOp /\ config[n] \in ConsensusConfig
    BY <1>0 DEF TypeOK, Command
  <2>2. cmd[c].cur \in Proposal
    BY <1>2, CurInLog DEF Certify
  <2>3. cert \in Body /\ cert.prop = cmd[c].cur
    BY <1>0, <2>1, <2>2, CertificateFacts DEF Certificate
  <2>4. n \in cert.yesVoters => LatestVoteIsYes(cmd[c].mem, cert.prop, n)
    BY <2>3, CertificateOwnVote
  <2>5. CASE AppendAndGoto(c, cert, "push", cmd[c].cur)
    <3> HIDE DEF cert
    <3> QED
      BY <1>2, <2>3, <2>4, <2>5, AppendAndGotoVote DEF Certify
  <2>6. CASE NextPush(c) /\ UNCHANGED log
    BY <1>0, <1>2, <2>6, QuietVote DEF Certify, NextPush, TypeOK, Command
  <2> QED
    BY <1>2, <2>5, <2>6 DEF Certify
<1>3. CASE GitPush(c)
  BY <1>0, <1>3, QuietVote DEF GitPush, Goto, NextPush, TypeOK, Command
<1>4. CASE MarkCompleted(c)
  BY <1>0, <1>4, QuietVote DEF MarkCompleted, Goto, TypeOK, Command
<1>5. CASE RecordPush(c)
  <2> DEFINE x == ProposedOid(cmd[c].mem, cmd[c].cur)
  <2>1. cmd[c].mem \in SUBSET SignedOp /\ ProposalOps(cmd[c].mem, cmd[c].cur) # {}
    BY <1>0, <1>5 DEF RecordPush, TypeOK, Command
  <2>2. x \in OID
    BY <2>1, ProposedOidType
  <2>3. RecordGitEvent(Home[c], x)
    BY <1>5 DEF RecordPush
  <2> HIDE DEF x
  <2>4. /\ Adds(Home[c])
        /\ \A o \in log'[Home[c]] : o \in log[Home[c]] \/ o.body.kind = "event"
    BY <1>0, <2>2, <2>3, RecordAdds
  <2>5. cmd'[c].mem = cmd[c].mem /\ \A d \in Proc \ {c} : cmd'[d] = cmd[d]
    BY <1>0, <1>5 DEF RecordPush, NextPush, TypeOK, Command
  <2>6. KnowsOwn(c)'
    BY <1>5, <2>4, <2>5 DEF RecordPush, KnowsOwn
  <2> QED
    BY <2>4, <2>5, <2>6 DEF VoteStep
<1>6. CASE Finish(c)
  BY <1>0, <1>6, QuietVote DEF Finish, NoCommand, TypeOK
<1> QED
  BY <1>1, <1>2, <1>3, <1>4, <1>5, <1>6 DEF ProcessPendingPushes

LEMMA PushVote ==
    ASSUME TypeOK, MemLogged, NEW c \in Proc, KnowsOwn(c),
           StartPush(c) \/ AutoVote(c) \/ QueuePush(c)
    PROVE  VoteStep(c)
<1>0. Home[c] \in Node /\ cmd[c] \in Command
  BY ProcAssumption DEF TypeOK
<1>1. CASE StartPush(c)
  <2>1. PICK p \in Proposal :
          LET S == log[Home[c]]
              o == NewOp(Home[c], S, [kind |-> "proposal", prop |-> p,
                                      oid |-> head[Home[c]]])
          IN  /\ o.seq <= MaxOps
              /\ log' = [log EXCEPT ![Home[c]] = @ \cup {o}]
              /\ cmd' = [cmd EXCEPT ![c] = [pc |-> "vote", mem |-> S \cup {o},
                                            todo |-> {}, cur |-> p]]
    BY <1>1 DEF StartPush
  <2> DEFINE n == Home[c]
             body == [kind |-> "proposal", prop |-> p, oid |-> head[n]]
             o == NewOp(n, log[n], body)
  <2>2. body \in Body /\ body.kind = "proposal"
    BY <1>0 DEF Body, ProposalBody, TypeOK
  <2>3. Summary(log[n])[n] < MaxOps
    <3>1. \A x \in log[n] : x.author \in Node /\ x.seq \in 1..MaxOps
      BY <1>0 DEF TypeOK, SignedOp
    <3>2. Summary(log[n])[n] \in 0..MaxOps
      BY <1>0, <3>1, SummaryBounds DEF SummaryVector
    <3>3. Summary(log[n])[n] + 1 <= MaxOps
      BY <2>1 DEF NewOp
    <3> QED
      BY <3>2, <3>3, BoundAssumption
  <2>4. ConflictFree(log[n])
    BY <1>1 DEF StartPush, Starts
  <2>5. o \in SignedOp /\ SignedOver(n, log[n], o) /\ ConflictFree(log[n] \cup {o})
    <3> HIDE DEF body
    <3> QED
      BY <1>0, <2>2, <2>3, <2>4, NewOpSigned DEF body
  <2> HIDE DEF o
  <2>6. /\ log' = [log EXCEPT ![n] = @ \cup {o}]
        /\ log'[n] = log[n] \cup {o} /\ cmd'[c].mem = log[n] \cup {o}
        /\ \A d \in Proc \ {c} : cmd'[d] = cmd[d]
    BY <1>0, <2>1 DEF o, TypeOK
  <2> QED
    BY <2>5, <2>6 DEF VoteStep, Adds, KnowsOwn
<1>2. CASE AutoVote(c)
  <2> DEFINE body == [kind |-> "vote", prop |-> cmd[c].cur, yes |-> TRUE]
  <2>1. cmd[c].cur \in Proposal
    BY <1>2, CurInLog DEF AutoVote
  <2>2. body \in Body /\ body.kind # "cert"
    BY <2>1 DEF Body, VoteBody
  <2>3. CASE AppendAndGoto(c, body, "queue", cmd[c].cur)
    <3> HIDE DEF body
    <3> QED
      BY <1>2, <2>2, <2>3, AppendAndGotoVote DEF AutoVote
  <2>4. CASE cmd' = [cmd EXCEPT ![c] = NoCommand] /\ UNCHANGED log
    BY <2>4, QuietVote DEF NoCommand, TypeOK
  <2> QED
    BY <1>2, <2>3, <2>4 DEF AutoVote
<1>3. CASE QueuePush(c)
  BY <1>0, <1>3, QuietVote DEF QueuePush, TypeOK, Command
<1> QED
  BY <1>1, <1>2, <1>3

LEMMA SyncVote ==
    ASSUME TypeOK, MemLogged, Returned, NEW c \in Proc, KnowsOwn(c),
           \/ StartSync(c)
           \/ \E m \in Node : PullOp(c, m)
           \/ ListPending(c)
           \/ Crash(c)
    PROVE  VoteStep(c)
<1>0. Home[c] \in Node /\ cmd[c] \in Command
  BY ProcAssumption DEF TypeOK
<1>1. CASE StartSync(c)
  <2>1. /\ log' = log /\ cmd'[c].mem = log[Home[c]]
        /\ \A d \in Proc \ {c} : cmd'[d] = cmd[d]
    BY <1>1 DEF StartSync, TypeOK
  <2> QED
    BY <1>1, <2>1 DEF StartSync, Starts, VoteStep, Adds, KnowsOwn
<1>2. ASSUME NEW m \in Node, PullOp(c, m) PROVE VoteStep(c)
  <2>1. PICK o \in log[m] :
          /\ Addable(cmd[c].mem, o)
          /\ log' = [log EXCEPT ![Home[c]] = @ \cup {o}]
          /\ cmd' = [cmd EXCEPT ![c].mem = @ \cup {o}]
    BY <1>2 DEF PullOp
  <2>2. /\ Adds(Home[c])
        /\ \A x \in log'[Home[c]] : x.author = Home[c] => x \in log[Home[c]]
    BY <1>0, <2>1, CopyAdds
  <2>3. cmd'[c].mem = cmd[c].mem \cup {o} /\ \A d \in Proc \ {c} : cmd'[d] = cmd[d]
    BY <1>0, <2>1 DEF TypeOK, Command
  <2>4. ConflictFree(cmd[c].mem) /\ cmd[c].pc # "idle"
    BY <1>2 DEF PullOp, KnowsOwn
  <2>5. ConflictFree(cmd[c].mem \cup {o})
    BY <2>1, <2>4 DEF Addable, ConflictFree, SameKey
  <2>6. KnowsOwn(c)'
    BY <2>2, <2>3, <2>4, <2>5 DEF KnowsOwn
  <2> QED
    BY <2>2, <2>3, <2>6 DEF VoteStep
<1>3. CASE ListPending(c)
  BY <1>0, <1>3, QuietVote DEF ListPending, TypeOK, Command
<1>4. CASE Crash(c)
  BY <1>0, <1>4, QuietVote DEF Crash, NoCommand, TypeOK
<1> QED
  BY <1>1, <1>2, <1>3, <1>4

\* Commands of one step know nothing before and after it.
LEMMA OneStepVote ==
    ASSUME TypeOK, NEW c \in Proc,
           \/ \E p \in Proposal, yes \in BOOLEAN : CastVote(c, p, yes)
           \/ \E p \in Proposal, force \in BOOLEAN : CertifyProposal(c, p, force)
           \/ \E cfg \in Configs : SaveConsensusConfig(c, cfg)
           \/ Commit(c)
           \/ PushImmediate(c)
    PROVE  VoteStep(c)
<1>0. Home[c] \in Node
  BY ProcAssumption
<1>1. cmd[c].pc = "idle" /\ UNCHANGED cmd
  BY DEF CastVote, CertifyProposal, SaveConsensusConfig, Commit, PushImmediate, Starts
<1>2. SUFFICES Adds(Home[c])
  BY <1>1 DEF VoteStep, KnowsOwn
<1>3. ASSUME NEW p \in Proposal, NEW yes \in BOOLEAN, CastVote(c, p, yes)
      PROVE  Adds(Home[c])
  <2> DEFINE body == [kind |-> "vote", prop |-> p, yes |-> yes]
  <2>1. body \in Body /\ body.kind # "cert"
    BY DEF Body, VoteBody
  <2>2. AppendFresh(Home[c], body) /\ ConflictFree(log[Home[c]])
    BY <1>3 DEF CastVote, Starts
  <2> HIDE DEF body
  <2> QED
    BY <1>0, <2>1, <2>2, AppendFreshAdds
<1>4. ASSUME NEW p \in Proposal, NEW force \in BOOLEAN, CertifyProposal(c, p, force)
      PROVE  Adds(Home[c])
  <2> DEFINE n == Home[c]
             cert == Certificate(n, log[n], p, config[n])
  <2>1. log[n] \in SUBSET SignedOp /\ config[n] \in ConsensusConfig
    BY <1>0 DEF TypeOK
  <2>2. cert \in Body /\ cert.prop = p
    BY <1>0, <2>1, CertificateFacts DEF Certificate
  <2>3. n \in cert.yesVoters => LatestVoteIsYes(log[n], cert.prop, n)
    BY <2>2, CertificateOwnVote
  <2>4. AppendFresh(n, cert) /\ ConflictFree(log[n])
    BY <1>4 DEF CertifyProposal, Starts
  <2> HIDE DEF cert
  <2> QED
    BY <1>0, <2>2, <2>3, <2>4, AppendFreshAdds
<1>5. ASSUME NEW cfg \in Configs, SaveConsensusConfig(c, cfg) PROVE Adds(Home[c])
  BY <1>5 DEF SaveConsensusConfig, Adds
<1>6. CASE Commit(c)
  BY <1>0, <1>6, RecordAdds DEF Commit
<1>7. CASE PushImmediate(c)
  <2>1. head[Home[c]] \in OID
    BY <1>0 DEF TypeOK
  <2> QED
    BY <1>0, <1>7, <2>1, RecordAdds DEF PushImmediate
<1> QED
  BY <1>3, <1>4, <1>5, <1>6, <1>7

\* A daemon that adds an operation adds none the repository has signed.
LEMMA GossipVote ==
    ASSUME TypeOK, VoteInv, NEW n \in Node, NEW m \in Node, Gossip(n, m)
    PROVE  VoteInv'
<1>1. PICK o \in log[m] : log' = [log EXCEPT ![n] = @ \cup {o}]
  BY DEF Gossip
<1>2. /\ Adds(n)
      /\ \A x \in log'[n] : x.author = n => x \in log[n]
  BY <1>1, CopyAdds DEF VoteInv
<1>3. UNCHANGED cmd
  BY DEF Gossip
<1>4. \A c \in Proc : Home[c] = n => KnowsOwn(c)'
  BY <1>2, <1>3 DEF VoteInv, KnowsOwn
<1> QED
  BY <1>2, <1>3, <1>4, AddsKeepsVoteInv

LEMMA NextVoteInv ==
    ASSUME OneCommand, CertInv, VoteInv, [Next]_vars
    PROVE  VoteInv'
<1>0. TypeOK /\ MemLogged
  BY DEF CertInv
<1>1. ASSUME NEW c \in Proc, CommandNext(c) PROVE VoteInv'
  <2>1. KnowsOwn(c) /\ Returned
    BY DEF VoteInv
  <2>2. VoteStep(c)
    BY <1>0, <1>1, <2>1, PushVote, SyncVote, ProcessVote, OneStepVote DEF CommandNext
  <2>3. \A d \in Proc : IF Home[d] = Home[c] THEN KnowsOwn(d)' ELSE cmd'[d] = cmd[d]
    BY <2>2 DEF OneCommand, VoteStep
  <2> QED
    BY <1>0, <2>2, <2>3, AddsKeepsVoteInv, ProcAssumption DEF VoteStep
<1>2. ASSUME NEW p \in Proposal, Expire(p) PROVE VoteInv'
  BY <1>2 DEF Expire, VoteInv, KnowsOwn, Returned, OwnVoteIsLatest
<1>3. CASE UNCHANGED vars
  BY <1>3 DEF vars, VoteInv, KnowsOwn, Returned, OwnVoteIsLatest
<1> QED
  BY <1>0, <1>1, <1>2, <1>3, GossipVote DEF Next

\* CertifyProposal and processPendingPushes (src/gossip/consensus.go and
\* src/main.go) never sign a certificate that counts a yes vote of the
\* certifier it had taken back before, whatever order votes, pulls, pushes
\* and crashes come in, if a repository runs one command at a time.
THEOREM OwnVoteIsLatestHolds == OneCommand => (Spec => []OwnVoteIsLatest)
<1> SUFFICES ASSUME OneCommand PROVE Spec => []OwnVoteIsLatest
  OBVIOUS
<1>1. Init => VoteInv
  <2> SUFFICES ASSUME Init PROVE VoteInv
    OBVIOUS
  <2>1. \A n \in Node : log[n] = {}
    BY DEF Init
  <2>2. \A c \in Proc : cmd[c].pc = "idle"
    BY DEF Init, NoCommand
  <2> QED
    BY <2>1, <2>2 DEF VoteInv, KnowsOwn, Returned, OwnVoteIsLatest
<1>2. CertInv /\ VoteInv /\ [Next]_vars => VoteInv'
  BY NextVoteInv
<1>3. VoteInv => OwnVoteIsLatest
  BY DEF VoteInv
<1> QED
  BY <1>1, <1>2, <1>3, InitCertInv, NextCertInv, PTL DEF Spec
-----------------------------------------------------------------------------
(* Votes have numbers of their own.                                        *)

\* No vote shares its number with another operation of its author, in
\* whatever logs the two are.
VoteAlone ==
    \A n, m \in Node : \A v \in log[n], y \in log[m] :
        v.body.kind = "vote" /\ SameKey(v, y) => y = v

\* With every operation a log has one for each earlier number.
NoGap == \A n \in Node : GapFree(log[n])

\* A command that is about to vote knows all its repository has signed.
KnowsAll(c) ==
    cmd[c].pc = "vote" =>
        \A x \in log[Home[c]] : x.author = Home[c] => x \in cmd[c].mem

AloneInv == VoteAlone /\ NoGap /\ \A c \in Proc : KnowsAll(c)

\* n signs o with a store that holds S; only events may be missing there, and
\* none if o is a vote.
Signs(n, S, o) ==
    /\ o.author = n
    /\ \A x \in log[n] :
          x.author = n /\ (x.body.kind # "event" \/ o.body.kind = "vote") => x \in S

\* o takes the next number in a store of n, which signs or copies it.
Numbered(n, o) ==
    \E S \in SUBSET log[n] :
        /\ o.seq = Summary(S)[o.author] + 1
        /\ Signs(n, S, o) \/ \E m \in Node : o \in log[m]

\* At most one operation is added to the log of n.
Grows(n) ==
    \/ log' = log
    \/ \E o \in SignedOp :
          log' = [log EXCEPT ![n] = @ \cup {o}] /\ Numbered(n, o)

\* The summary of operations, as SummaryBounds has it.
LEMMA SummaryOfOps ==
    ASSUME NEW S \in SUBSET SignedOp
    PROVE  /\ \A x \in S : x.seq \in Nat /\ x.author \in Node
           /\ \A a \in Node : Summary(S)[a] \in Nat
           /\ \A x \in S : x.seq <= Summary(S)[x.author]
           /\ \A a \in Node : \/ Summary(S)[a] = 0
                              \/ \E x \in S : x.author = a /\ x.seq = Summary(S)[a]
<1>1. \A x \in S : x.author \in Node /\ x.seq \in 1..MaxOps /\ x.seq \in Nat
  BY BoundAssumption DEF SignedOp
<1>2. Summary(S) \in SummaryVector
  BY <1>1, SummaryBounds
<1>3. \A a \in Node : Summary(S)[a] \in Nat
  BY <1>2, BoundAssumption DEF SummaryVector
<1> QED
  BY <1>1, <1>3, SummaryBounds

\* What a store of n signs or copies next leaves no gap.
LEMMA NumberedNoGap ==
    ASSUME TypeOK, NEW n \in Node, GapFree(log[n]), NEW o \in SignedOp, Numbered(n, o)
    PROVE  GapFree(log[n] \cup {o})
<1>1. PICK S \in SUBSET log[n] : o.seq = Summary(S)[o.author] + 1
  BY DEF Numbered
<1>2. S \in SUBSET SignedOp /\ o.author \in Node
  BY <1>1 DEF TypeOK, SignedOp
<1>3. ASSUME NEW k \in 1..o.seq, k # o.seq
      PROVE  \E x \in log[n] : x.author = o.author /\ x.seq = k
  <2>1. Summary(S)[o.author] \in Nat
    BY <1>2, SummaryOfOps
  <2>2. k \in 1..Summary(S)[o.author] /\ Summary(S)[o.author] # 0
    BY <1>1, <1>3, <2>1
  <2>3. PICK x \in S : x.author = o.author /\ x.seq = Summary(S)[o.author]
    BY <1>2, <2>2, SummaryOfOps
  <2> QED
    BY <1>1, <2>2, <2>3 DEF GapFree
<1> QED
  BY <1>3 DEF GapFree

\* What is signed has a higher number than all its author's votes, and a
\* vote a higher one than all else.
LEMMA SignedLast ==
    ASSUME TypeOK, NEW n \in Node, NEW S \in SUBSET log[n], NEW o, Signs(n, S, o),
           o.seq = Summary(S)[n] + 1, NEW x \in log[n], x.author = n,
           x.body.kind = "vote" \/ o.body.kind = "vote"
    PROVE  x.seq < o.seq
<1>1. x \in S /\ S \in SUBSET SignedOp
  BY DEF Signs, TypeOK
<1>2. x.seq \in Nat /\ Summary(S)[n] \in Nat /\ x.seq <= Summary(S)[n]
  BY <1>1, SummaryOfOps
<1> QED
  BY <1>2

LEMMA GrowsAlone ==
    ASSUME TypeOK, Returned, VoteAlone, NoGap, NEW n \in Node, Grows(n)
    PROVE  VoteAlone' /\ NoGap'
<1>1. CASE log' = log
  BY <1>1 DEF VoteAlone, NoGap
<1>2. ASSUME NEW o \in SignedOp, log' = [log EXCEPT ![n] = @ \cup {o}], Numbered(n, o)
      PROVE  VoteAlone' /\ NoGap'
  <2>1. /\ log'[n] = log[n] \cup {o}
        /\ \A k \in Node \ {n} : log'[k] = log[k]
        /\ \A k \in Node : log'[k] \subseteq log[k] \cup {o}
    BY <1>2 DEF TypeOK
  <2>2. NoGap'
    BY <1>2, <2>1, NumberedNoGap DEF NoGap
  <2>3. ASSUME NEW k \in Node, NEW v \in log[k],
               v.body.kind = "vote" \/ o.body.kind = "vote", SameKey(v, o)
        PROVE  v = o \/ \E m \in Node : o \in log[m]
    <3> SUFFICES ASSUME ~(\E m \in Node : o \in log[m]) PROVE FALSE
      OBVIOUS
    <3>1. PICK S \in SUBSET log[n] : o.seq = Summary(S)[o.author] + 1 /\ Signs(n, S, o)
      BY <1>2 DEF Numbered
    <3>2. o.author = n /\ v.author = n /\ v \in log[n] /\ v.seq = o.seq
      BY <2>3, <3>1 DEF Signs, SameKey, Returned
    <3>3. v.seq < o.seq
      BY <2>3, <3>1, <3>2, SignedLast
    <3>4. o.seq \in Nat
      BY BoundAssumption DEF SignedOp
    <3> QED
      BY <3>2, <3>3, <3>4
  <2>4. ASSUME NEW k \in Node, NEW m \in Node, NEW v \in log'[k], NEW y \in log'[m],
               v.body.kind = "vote", SameKey(v, y)
        PROVE  y = v
    <3>1. v \in log[k] \cup {o} /\ y \in log[m] \cup {o} /\ SameKey(y, v)
      BY <2>1, <2>4 DEF SameKey
    <3>2. CASE v \in log[k] /\ y \in log[m]
      BY <2>4, <3>2 DEF VoteAlone
    <3>3. CASE v \in log[k] /\ y = o
      BY <2>3, <2>4, <3>3 DEF VoteAlone
    <3>4. CASE v = o /\ y \in log[m]
      BY <2>3, <2>4, <3>1, <3>4 DEF VoteAlone
    <3> QED
      BY <3>1, <3>2, <3>3, <3>4
  <2> QED
    BY <2>2, <2>4 DEF VoteAlone
<1> QED
  BY <1>1, <1>2 DEF Grows

\* A vote that is added to a log comes after all its author has there.
LEMMA NewVoteIsLast ==
    ASSUME TypeOK, VoteAlone, NoGap, NEW n \in Node, NEW o \in SignedOp \ log[n],
           o.body.kind = "vote", Numbered(n, o), NEW x \in log[n], x.author = o.author
    PROVE  x.seq < o.seq
<1>1. x.seq \in Nat /\ o.seq \in 1..MaxOps
  BY BoundAssumption DEF TypeOK, SignedOp
<1>2. CASE \E m \in Node : o \in log[m]
  <2> SUFFICES ASSUME ~(x.seq < o.seq) PROVE FALSE
    OBVIOUS
  <2>1. o.seq \in 1..x.seq
    BY <1>1, BoundAssumption
  <2>2. PICK y \in log[n] : y.author = o.author /\ y.seq = o.seq
    BY <2>1 DEF NoGap, GapFree
  <2>3. y = o
    BY <1>2, <2>2 DEF VoteAlone, SameKey
  <2> QED
    BY <2>2, <2>3
<1>3. ASSUME NEW S \in SUBSET log[n], o.seq = Summary(S)[o.author] + 1, Signs(n, S, o)
      PROVE  x.seq < o.seq
  <2>1. o.author = n
    BY <1>3 DEF Signs
  <2> QED
    BY <1>3, <2>1, SignedLast
<1> QED
  BY <1>2, <1>3 DEF Numbered

-----------------------------------------------------------------------------
(* Every step is one of these.                                             *)

LEMMA AppendFreshGrows ==
    ASSUME TypeOK, NEW n \in Node, NEW body \in Body, AppendFresh(n, body)
    PROVE  Grows(n)
<1> DEFINE o == NewOp(n, log[n], body)
<1>1. o \in SignedOp /\ o.author = n
  BY NewOpFacts DEF AppendFresh, TypeOK
<1>2. log' = [log EXCEPT ![n] = @ \cup {o}]
  BY DEF AppendFresh, TypeOK
<1>3. o.seq = Summary(log[n])[o.author] + 1
  BY <1>1 DEF NewOp
<1> HIDE DEF o
<1>4. Numbered(n, o)
  BY <1>1, <1>3 DEF Numbered, Signs
<1> QED
  BY <1>1, <1>2, <1>4 DEF Grows

LEMMA AppendAndGotoGrows ==
    ASSUME TypeOK, MemLogged, NEW c \in Proc, KnowsOwn(c), KnowsAll(c),
           cmd[c].pc # "idle", NEW body \in Body, body.kind = "vote" => cmd[c].pc = "vote",
           NEW pc, NEW p, AppendAndGoto(c, body, pc, p)
    PROVE  Grows(Home[c])
<1> DEFINE n == Home[c]
           S == cmd[c].mem
           o == NewOp(n, S, body)
<1>1. n \in Node /\ S \in SUBSET log[n] /\ S \in SUBSET SignedOp
  BY ProcAssumption DEF MemLogged, TypeOK, Command
<1>2. Summary(S)[n] < MaxOps
  <2>1. Summary(S)[n] \in Nat
    BY <1>1, SummaryOfOps
  <2>2. Summary(S)[n] + 1 <= MaxOps
    BY DEF AppendAndGoto, NewOp
  <2> QED
    BY <2>1, <2>2, BoundAssumption
<1>3. o \in SignedOp /\ o.author = n /\ o.body = body
  BY <1>1, <1>2, NewOpFacts
<1>4. log' = [log EXCEPT ![n] = @ \cup {o}]
  BY DEF AppendAndGoto
<1>5. o.seq = Summary(S)[o.author] + 1
  BY <1>3 DEF NewOp
<1> HIDE DEF o
<1>6. Signs(n, S, o)
  BY <1>3 DEF Signs, KnowsOwn, KnowsAll
<1>7. Numbered(n, o)
  BY <1>1, <1>5, <1>6 DEF Numbered
<1> QED
  BY <1>3, <1>4, <1>7 DEF Grows

LEMMA RecordGrows ==
    ASSUME TypeOK, NEW n \in Node, NEW x \in OID, RecordGitEvent(n, x)
    PROVE  Grows(n)
<1>1. [kind |-> "event", oid |-> x] \in Body
  BY DEF Body, EventBody
<1> QED
  BY <1>1, AppendFreshGrows DEF RecordGitEvent, Grows

\* What is copied takes the next number of the store it is copied to.
LEMMA CopyGrows ==
    ASSUME TypeOK, NEW n \in Node, NEW m \in Node, NEW o \in log[m],
           NEW S \in SUBSET log[n], o.seq = Summary(S)[o.author] + 1,
           log' = [log EXCEPT ![n] = @ \cup {o}]
    PROVE  Grows(n)
<1>1. o \in SignedOp
  BY DEF TypeOK
<1>2. Numbered(n, o)
  BY DEF Numbered
<1> QED
  BY <1>1, <1>2 DEF Grows

LEMMA PushGrows ==
    ASSUME TypeOK, MemLogged, NEW c \in Proc, KnowsOwn(c), KnowsAll(c),
           StartPush(c) \/ AutoVote(c) \/ QueuePush(c) \/ ProcessPendingPushes(c)
    PROVE  Grows(Home[c])
<1>0. Home[c] \in Node /\ cmd[c] \in Command
  BY ProcAssumption DEF TypeOK
<1>1. CASE StartPush(c)
  <2>1. PICK p \in Proposal :
          LET S == log[Home[c]]
              o == NewOp(Home[c], S, [kind |-> "proposal", prop |-> p,
                                      oid |-> head[Home[c]]])
          IN  /\ o.seq <= MaxOps
              /\ log' = [log EXCEPT ![Home[c]] = @ \cup {o}]
    BY <1>1 DEF StartPush
  <2> DEFINE n == Home[c]
             body == [kind |-> "proposal", prop |-> p, oid |-> head[n]]
  <2>2. body \in Body
    BY <1>0 DEF TypeOK, Body, ProposalBody
  <2>3. Summary(log[n])[n] < MaxOps
    <3>1. Summary(log[n])[n] \in Nat
      BY <1>0, SummaryOfOps DEF TypeOK
    <3>2. Summary(log[n])[n] + 1 <= MaxOps
      BY <2>1 DEF NewOp
    <3> QED
      BY <3>1, <3>2, BoundAssumption
  <2>4. AppendFresh(n, body)
    BY <2>1, <2>3 DEF AppendFresh, TypeOK
  <2> HIDE DEF body
  <2> QED
    BY <1>0, <2>2, <2>4, AppendFreshGrows
<1>2. CASE AutoVote(c)
  <2> DEFINE body == [kind |-> "vote", prop |-> cmd[c].cur, yes |-> TRUE]
  <2>1. cmd[c].cur \in Proposal
    BY <1>2, CurInLog DEF AutoVote
  <2>2. body \in Body
    BY <2>1 DEF Body, VoteBody
  <2>3. AppendAndGoto(c, body, "queue", cmd[c].cur) \/ log' = log
    BY <1>2 DEF AutoVote
  <2> HIDE DEF body
  <2> QED
    BY <1>2, <2>2, <2>3, AppendAndGotoGrows DEF AutoVote, Grows
<1>3. CASE Certify(c)
  <2> DEFINE cert == Certificate(Home[c], cmd[c].mem, cmd[c].cur, config[Home[c]])
  <2>1. cmd[c].mem \in SUBSET SignedOp /\ config[Home[c]] \in ConsensusConfig
    BY <1>0 DEF TypeOK, Command
  <2>2. cmd[c].cur \in Proposal
    BY <1>3, CurInLog DEF Certify
  <2>3. cert \in Body
    BY <1>0, <2>1, <2>2, CertificateFacts
  <2>4. cert.kind = "cert"
    BY DEF Certificate
  <2>5. AppendAndGoto(c, cert, "push", cmd[c].cur) \/ log' = log
    BY <1>3 DEF Certify
  <2> HIDE DEF cert
  <2> QED
    BY <1>3, <2>3, <2>4, <2>5, AppendAndGotoGrows DEF Certify, Grows
<1>4. CASE RecordPush(c)
  <2> DEFINE x == ProposedOid(cmd[c].mem, cmd[c].cur)
  <2>1. cmd[c].mem \in SUBSET SignedOp /\ ProposalOps(cmd[c].mem, cmd[c].cur) # {}
    BY <1>0, <1>4 DEF RecordPush, TypeOK, Command
  <2>2. x \in OID
    BY <2>1, ProposedOidType
  <2>3. RecordGitEvent(Home[c], x)
    BY <1>4 DEF RecordPush
  <2> HIDE DEF x
  <2> QED
    BY <1>0, <2>2, <2>3, RecordGrows
<1>5. ASSUME \/ QueuePush(c)
             \/ \E p \in Proposal : CheckAndSkip(c, p) \/ CheckAndGo(c, p)
             \/ GitPush(c) \/ MarkCompleted(c) \/ Finish(c)
      PROVE  Grows(Home[c])
  BY <1>5 DEF Grows, QueuePush, CheckAndSkip, CheckAndGo, GitPush, MarkCompleted, Finish
<1> QED
  BY <1>1, <1>2, <1>3, <1>4, <1>5 DEF ProcessPendingPushes

LEMMA OtherGrows ==
    ASSUME TypeOK, MemLogged, NEW c \in Proc,
           \/ StartSync(c)
           \/ \E m \in Node : PullOp(c, m)
           \/ ListPending(c)
           \/ Crash(c)
           \/ \E p \in Proposal, yes \in BOOLEAN : CastVote(c, p, yes)
           \/ \E p \in Proposal, force \in BOOLEAN : CertifyProposal(c, p, force)
           \/ \E cfg \in Configs : SaveConsensusConfig(c, cfg)
           \/ Commit(c)
           \/ PushImmediate(c)
    PROVE  Grows(Home[c])
<1>0. Home[c] \in Node
  BY ProcAssumption
<1>1. ASSUME NEW m \in Node, PullOp(c, m) PROVE Grows(Home[c])
  <2>1. cmd[c].mem \in SUBSET log[Home[c]]
    BY DEF MemLogged
  <2>2. PICK o \in log[m] :
          /\ o.seq = Summary(cmd[c].mem)[o.author] + 1
          /\ log' = [log EXCEPT ![Home[c]] = @ \cup {o}]
    BY <1>1 DEF PullOp
  <2> QED
    BY <1>0, <2>1, <2>2, CopyGrows
<1>2. ASSUME NEW p \in Proposal, NEW yes \in BOOLEAN, CastVote(c, p, yes)
      PROVE  Grows(Home[c])
  <2>1. [kind |-> "vote", prop |-> p, yes |-> yes] \in Body
    BY DEF Body, VoteBody
  <2> QED
    BY <1>0, <1>2, <2>1, AppendFreshGrows DEF CastVote
<1>3. ASSUME NEW p \in Proposal, NEW force \in BOOLEAN, CertifyProposal(c, p, force)
      PROVE  Grows(Home[c])
  <2>1. log[Home[c]] \in SUBSET SignedOp /\ config[Home[c]] \in ConsensusConfig
    BY <1>0 DEF TypeOK
  <2>2. Certificate(Home[c], log[Home[c]], p, config[Home[c]]) \in Body
    BY <1>0, <2>1, CertificateFacts
  <2> QED
    BY <1>0, <1>3, <2>2, AppendFreshGrows DEF CertifyProposal
<1>4. CASE Commit(c)
  BY <1>0, <1>4, RecordGrows DEF Commit
<1>5. CASE PushImmediate(c)
  <2>1. head[Home[c]] \in OID
    BY <1>0 DEF TypeOK
  <2> QED
    BY <1>0, <1>5, <2>1, RecordGrows DEF PushImmediate
<1>6. ASSUME StartSync(c) \/ ListPending(c) \/ Crash(c)
             \/ \E cfg \in Configs : SaveConsensusConfig(c, cfg)
      PROVE  Grows(Home[c])
  BY <1>6 DEF Grows, StartSync, ListPending, Crash, SaveConsensusConfig
<1> QED
  BY <1>1, <1>2, <1>3, <1>4, <1>5, <1>6

\* Every step makes at most one log grow.
LEMMA NextGrows ==
    ASSUME OneCommand, CertInv, VoteInv, AloneInv, Next
    PROVE  \E n \in Node : Grows(n)
<1>0. TypeOK /\ MemLogged
  BY DEF CertInv
<1>1. ASSUME NEW c \in Proc, CommandNext(c) PROVE Grows(Home[c])
  BY <1>0, <1>1, PushGrows, OtherGrows DEF CommandNext, VoteInv, AloneInv
<1>2. ASSUME NEW n \in Node, NEW m \in Node, Gossip(n, m) PROVE Grows(n)
  <2>1. PICK o \in log[m] :
          /\ o.seq = Summary(log[n])[o.author] + 1
          /\ log' = [log EXCEPT ![n] = @ \cup {o}]
    BY <1>2 DEF Gossip
  <2> QED
    BY <1>0, <2>1, CopyGrows
<1>3. ASSUME NEW p \in Proposal, Expire(p) PROVE \E n \in Node : Grows(n)
  BY <1>3 DEF Expire, Proposed, Grows
<1> QED
  BY <1>1, <1>2, <1>3, ProcAssumption DEF Next
\* A command comes to vote only by StartPush, which knows the whole log.
LEMMA CommandKnowsAll ==
    ASSUME TypeOK, NEW c \in Proc, KnowsAll(c), CommandNext(c)
    PROVE  KnowsAll(c)'
<1>0. Home[c] \in Node /\ cmd[c] \in Command
  BY ProcAssumption DEF TypeOK
<1>1. CASE StartPush(c)
  <2>1. PICK p \in Proposal :
          LET S == log[Home[c]]
              o == NewOp(Home[c], S, [kind |-> "proposal", prop |-> p,
                                      oid |-> head[Home[c]]])
          IN  /\ log' = [log EXCEPT ![Home[c]] = @ \cup {o}]
              /\ cmd' = [cmd EXCEPT ![c] = [pc |-> "vote", mem |-> S \cup {o},
                                            todo |-> {}, cur |-> p]]
    BY <1>1 DEF StartPush
  <2> DEFINE o == NewOp(Home[c], log[Home[c]], [kind |-> "proposal", prop |-> p,
                                                oid |-> head[Home[c]]])
  <2>2. /\ log' = [log EXCEPT ![Home[c]] = @ \cup {o}]
        /\ cmd' = [cmd EXCEPT ![c] = [pc |-> "vote", mem |-> log[Home[c]] \cup {o},
                                      todo |-> {}, cur |-> p]]
    BY <2>1
  <2> HIDE DEF o
  <2>3. log'[Home[c]] = log[Home[c]] \cup {o} /\ cmd'[c].mem = log[Home[c]] \cup {o}
    BY <1>0, <2>2 DEF TypeOK
  <2> QED
    BY <2>3 DEF KnowsAll
<1>2. CASE AutoVote(c)
  BY <1>0, <1>2 DEF AutoVote, AppendAndGoto, NoCommand, KnowsAll, TypeOK, Command
<1>3. CASE QueuePush(c) \/ StartSync(c) \/ ListPending(c) \/ Crash(c)
  BY <1>0, <1>3 DEF QueuePush, StartSync, ListPending, Crash, NoCommand, KnowsAll, TypeOK,
                    Command
<1>4. ASSUME NEW m \in Node, PullOp(c, m) PROVE KnowsAll(c)'
  BY <1>0, <1>4 DEF PullOp, KnowsAll, TypeOK, Command
<1>5. CASE ProcessPendingPushes(c)
  <2>1. ASSUME NEW p \in Proposal, CheckAndSkip(c, p) \/ CheckAndGo(c, p)
        PROVE  cmd'[c].pc # "vote"
    BY <1>0, <2>1 DEF CheckAndSkip, CheckAndGo, TypeOK, Command
  <2>2. ASSUME Certify(c) PROVE cmd'[c].pc # "vote"
    BY <1>0, <2>2 DEF Certify, AppendAndGoto, NextPush, TypeOK, Command
  <2>3. ASSUME GitPush(c) \/ MarkCompleted(c) PROVE cmd'[c].pc # "vote"
    BY <1>0, <2>3 DEF GitPush, MarkCompleted, NextPush, Goto, TypeOK, Command
  <2>4. ASSUME RecordPush(c) \/ Finish(c) PROVE cmd'[c].pc # "vote"
    BY <1>0, <2>4 DEF RecordPush, Finish, NextPush, NoCommand, TypeOK, Command
  <2> QED
    BY <1>5, <2>1, <2>2, <2>3, <2>4 DEF ProcessPendingPushes, KnowsAll
<1>6. ASSUME \/ \E p \in Proposal, yes \in BOOLEAN : CastVote(c, p, yes)
             \/ \E p \in Proposal, force \in BOOLEAN : CertifyProposal(c, p, force)
             \/ \E cfg \in Configs : SaveConsensusConfig(c, cfg)
             \/ Commit(c)
             \/ PushImmediate(c)
      PROVE  KnowsAll(c)'
  <2>1. cmd[c].pc = "idle" /\ UNCHANGED cmd
    BY <1>6 DEF CastVote, CertifyProposal, SaveConsensusConfig, Commit, PushImmediate, Starts
  <2> QED
    BY <2>1 DEF KnowsAll
<1> QED
  BY <1>1, <1>2, <1>3, <1>4, <1>5, <1>6 DEF CommandNext

LEMMA NextAlone ==
    ASSUME OneCommand, CertInv, VoteInv, AloneInv, [Next]_vars
    PROVE  AloneInv'
<1>0. TypeOK /\ MemLogged /\ Returned
  BY DEF CertInv, VoteInv
<1>1. CASE UNCHANGED vars
  BY <1>1 DEF vars, AloneInv, VoteAlone, NoGap, KnowsAll
<1>2. CASE Next
  <2>1. VoteAlone' /\ NoGap'
    BY <1>0, <1>2, NextGrows, GrowsAlone DEF AloneInv
  <2>2. ASSUME NEW c \in Proc, CommandNext(c), NEW d \in Proc PROVE KnowsAll(d)'
    <3>1. CASE d = c
      BY <1>0, <2>2, <3>1, CommandKnowsAll DEF AloneInv
    <3>2. CASE d # c
      <4>1. VoteStep(c) /\ Home[c] # Home[d] /\ Home[c] \in Node /\ Home[d] \in Node
        BY <1>0, <2>2, <3>2, PushVote, SyncVote, ProcessVote, OneStepVote, ProcAssumption
        DEF CommandNext, OneCommand, VoteInv
      <4>2. cmd'[d] = cmd[d] /\ log'[Home[d]] = log[Home[d]]
        BY <1>0, <3>2, <4>1 DEF VoteStep, Adds, TypeOK
      <4> QED
        BY <4>2 DEF AloneInv, KnowsAll
    <3> QED
      BY <3>1, <3>2
  <2>3. ASSUME NEW n \in Node, NEW m \in Node, Gossip(n, m), NEW d \in Proc
        PROVE  KnowsAll(d)'
    <3>1. PICK o \in log[m] : log' = [log EXCEPT ![n] = @ \cup {o}]
      BY <2>3 DEF Gossip
    <3>2. \A x \in log'[n] : x.author = n => x \in log[n]
      BY <1>0, <3>1, CopyAdds
    <3>3. \A k \in Node \ {n} : log'[k] = log[k]
      BY <1>0, <3>1 DEF TypeOK
    <3>4. cmd' = cmd
      BY <2>3 DEF Gossip
    <3> QED
      BY <3>2, <3>3, <3>4, ProcAssumption DEF AloneInv, KnowsAll
  <2>4. ASSUME NEW p \in Proposal, Expire(p), NEW d \in Proc PROVE KnowsAll(d)'
    BY <2>4 DEF Expire, AloneInv, KnowsAll
  <2> QED
    BY <1>2, <2>1, <2>2, <2>3, <2>4 DEF Next, AloneInv
<1> QED
  BY <1>1, <1>2

LEMMA InitVoteInv == Init => VoteInv /\ AloneInv
<1> SUFFICES ASSUME Init PROVE VoteInv /\ AloneInv
  OBVIOUS
<1>1. \A n \in Node : log[n] = {}
  BY DEF Init
<1>2. \A c \in Proc : cmd[c].pc = "idle"
  BY DEF Init, NoCommand
<1> QED
  BY <1>1, <1>2 DEF VoteInv, KnowsOwn, Returned, OwnVoteIsLatest, AloneInv, VoteAlone,
                    NoGap, GapFree, KnowsAll

\* Whatever certificates and events collide with each other, a vote (CastVote
\* of src/gossip/consensus.go) never shares its number with another operation
\* of its author in any log, if a repository runs one command at a time.
THEOREM VoteAloneHolds == OneCommand => (Spec => []VoteAlone)
<1> SUFFICES ASSUME OneCommand PROVE Spec => []VoteAlone
  OBVIOUS
<1>1. CertInv /\ VoteInv /\ [Next]_vars => VoteInv'
  BY NextVoteInv
<1>2. CertInv /\ VoteInv /\ AloneInv /\ [Next]_vars => AloneInv'
  BY NextAlone
<1>3. AloneInv => VoteAlone
  BY DEF AloneInv
<1> QED
  BY <1>1, <1>2, <1>3, InitCertInv, InitVoteInv, NextCertInv, PTL DEF Spec
=============================================================================
