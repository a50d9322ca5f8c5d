-------------------------- MODULE PushQueueProofs --------------------------
(***************************************************************************)
(* What certificates are worth, for every number of repositories, members, *)
(* proposals and commands.                                                 *)
(***************************************************************************)
EXTENDS PushQueue, OpLogProofs

-----------------------------------------------------------------------------
(* The quorum rule.                                                        *)

\* One more than the quotient is above the dividend.
LEMMA AboveQuotient ==
    ASSUME NEW a \in Nat, NEW b \in Nat \ {0}, NEW k \in Nat, k >= (a \div b) + 1
    PROVE  k * b > a
<1>1. a \div b \in Nat /\ a < ((a \div b) + 1) * b
  BY SMT
<1>2. ((a \div b) + 1) * b <= k * b
  BY <1>1, SMT
<1> QED
  BY <1>1, <1>2, SMT

\* calculateRequiredYes asks for a ratio above the threshold.
LEMMA RequiredYesExceeds ==
    ASSUME NEW count \in Nat \ {0}, NEW t \in 0..(Scale - 1), NEW k \in Nat,
           k >= RequiredYes(count, t)
    PROVE  RatioExceeds(k, count, t)
<1>0. Scale \in Nat \ {0} /\ t \in Nat /\ t < Scale /\ t * count \in Nat
  BY ConsensusAssumption, SMT
<1> DEFINE r == (t * count) \div Scale + 1
<1>1. CASE r > count
  <2>1. RequiredYes(count, t) = count
    BY <1>1 DEF RequiredYes
  <2>2. k * Scale >= count * Scale
    BY <2>1, <1>0, SMT
  <2>3. t * count < count * Scale
    BY <1>0, SMT
  <2>4. t * count \in Nat /\ k * Scale \in Nat /\ count * Scale \in Nat
    BY <1>0, SMT
  <2> QED
    BY <2>2, <2>3, <2>4 DEF RatioExceeds
<1>2. CASE ~(r > count)
  <2>1. RequiredYes(count, t) = r
    BY <1>2 DEF RequiredYes
  <2> QED
    BY <2>1, <1>0, AboveQuotient DEF RatioExceeds
<1> QED
  BY <1>1, <1>2

-----------------------------------------------------------------------------
(* What certifying and appending produce.                                  *)

\* Voters are finitely many and at least one.
LEMMA VotersFinite ==
    ASSUME NEW n \in Node, NEW S \in SUBSET SignedOp, NEW cfg \in ConsensusConfig
    PROVE  /\ Voters(n, S, cfg) \subseteq Node
           /\ IsFiniteSet(Voters(n, S, cfg))
           /\ Cardinality(Voters(n, S, cfg)) \in Nat \ {0}
<1>1. Voters(n, S, cfg) \subseteq Node /\ Voters(n, S, cfg) # {}
  BY DEF Voters, SignedOp, ConsensusConfig
<1>2. IsFiniteSet(Voters(n, S, cfg))
  BY <1>1, NodeAssumption, FS_Subset
<1>3. Cardinality(Voters(n, S, cfg)) \in Nat
  BY <1>2, FS_CardinalityType
<1>4. Cardinality(Voters(n, S, cfg)) # 0
  BY <1>1, <1>2, FS_EmptySet
<1> QED
  BY <1>1, <1>2, <1>3, <1>4

\* body, appended to a log that holds S, is no unjustified certificate.
Justified(S, body) ==
    body.kind = "cert" /\ body.certified =>
        /\ RatioExceeds(Cardinality(body.yesVoters), body.totalVoters, body.threshold)
        /\ \A m \in body.yesVoters : \E v \in VoteOps(S, body.prop, m) : v.body.yes

\* What CertifyProposal signs is a justified certificate.
LEMMA CertificateFacts ==
    ASSUME NEW n \in Node, NEW S \in SUBSET SignedOp, NEW p \in Proposal,
           NEW cfg \in ConsensusConfig
    PROVE  /\ Certificate(n, S, p, cfg) \in Body
           /\ Justified(S, Certificate(n, S, p, cfg))
<1> DEFINE V == Voters(n, S, cfg)
           Y == YesVoters(n, S, p, cfg)
           cert == Certificate(n, S, p, cfg)
<1>1. V \subseteq Node /\ IsFiniteSet(V) /\ Cardinality(V) \in Nat \ {0}
  BY VotersFinite
<1>2. Y \subseteq V /\ Y \subseteq Node
  BY <1>1 DEF YesVoters
<1>3. Cardinality(Y) \in Nat
  BY <1>1, <1>2, FS_Subset, FS_CardinalityType
<1>4. cfg.threshold \in 0..(Scale - 1)
  BY DEF ConsensusConfig
<1>5. HasQuorum(n, S, p, cfg) \in BOOLEAN
  BY DEF HasQuorum
<1>6. /\ cert.kind = "cert" /\ cert.prop = p /\ cert.threshold = cfg.threshold
      /\ cert.totalVoters = Cardinality(V) /\ cert.yesVoters = Y
      /\ cert.certified = HasQuorum(n, S, p, cfg)
  BY DEF Certificate
<1>7. cert \in CertBody
  <2> HIDE DEF V, Y
  <2>1. Certificate(n, S, p, cfg) =
          [kind |-> "cert", prop |-> p, threshold |-> cfg.threshold,
           totalVoters |-> Cardinality(V), yesVoters |-> Y,
           certified |-> HasQuorum(n, S, p, cfg)]
    BY DEF Certificate, V, Y
  <2> QED
    BY <2>1, <1>1, <1>2, <1>4, <1>5 DEF CertBody
<1>8. ASSUME HasQuorum(n, S, p, cfg)
      PROVE  RatioExceeds(Cardinality(Y), Cardinality(V), cfg.threshold)
  <2>1. Cardinality(Y) >= RequiredYes(Cardinality(V), cfg.threshold)
    BY <1>8 DEF HasQuorum
  <2> HIDE DEF V, Y
  <2> QED
    BY <2>1, <1>1, <1>3, <1>4, RequiredYesExceeds
<1>9. \A m \in Y : \E v \in VoteOps(S, p, m) : v.body.yes
  BY DEF YesVoters, LatestVoteIsYes
<1> QED
  <2> HIDE DEF V, Y, cert
  <2>1. cert \in Body
    BY <1>7 DEF Body
  <2>2. Justified(S, cert)
    BY <1>6, <1>8, <1>9 DEF Justified
  <2> QED
    BY <2>1, <2>2 DEF cert

\* The next operation of a store is well-formed.
LEMMA NewOpFacts ==
    ASSUME NEW n \in Node, NEW S \in SUBSET SignedOp, NEW body \in Body,
           Summary(S)[n] < MaxOps
    PROVE  /\ NewOp(n, S, body) \in SignedOp
           /\ NewOp(n, S, body).author = n
           /\ NewOp(n, S, body).body = body
<1>1. \A o \in S : o.author \in Node /\ o.seq \in 1..MaxOps
  BY DEF SignedOp
<1>2. Summary(S)[n] \in 0..MaxOps
  BY <1>1, SummaryBounds DEF SummaryVector
<1>3. Summary(S)[n] + 1 \in 1..MaxOps
  BY <1>2, BoundAssumption
<1> QED
  BY <1>3 DEF NewOp, SignedOp
-----------------------------------------------------------------------------
(* The invariant.                                                          *)

\* What a running command holds in memory is in the log of its repository.
MemLogged == \A c \in Proc : cmd[c].mem \subseteq log[Home[c]]

CertInv == TypeOK /\ MemLogged /\ CertBacked

\* At most one operation is added to one log: a new one of its repository,
\* justified by that log if it is a certificate, or one that is in a log.
LogStep ==
    \/ log' = log
    \/ \E n \in Node, o \in SignedOp :
          /\ log' = [log EXCEPT ![n] = @ \cup {o}]
          /\ \/ o.author = n /\ Justified(log[n], o.body)
             \/ \E m \in Node : o \in log[m]

\* What the invariant needs to know of a step.
GoodStep == TypeOK' /\ MemLogged' /\ LogStep

\* Votes that were there stay there.
LEMMA JustifiedGrows ==
    ASSUME NEW S, NEW T, S \subseteq T, NEW body, Justified(S, body)
    PROVE  Justified(T, body)
<1>1. \A p, m : VoteOps(S, p, m) \subseteq VoteOps(T, p, m)
  BY DEF VoteOps
<1> QED
  BY <1>1 DEF Justified

\* Certificates stay backed when logs grow as LogStep says.
LEMMA LogStepKeepsBacked ==
    ASSUME TypeOK, CertBacked, LogStep
    PROVE  CertBacked'
<1>1. \A n \in Node : \A o \in log[n] :
          o.author \in Node /\ Justified(log[o.author], o.body)
  BY DEF CertBacked, Justified, TypeOK, SignedOp
<1>2. SUFFICES \A n \in Node : \A o \in log'[n] : Justified(log'[o.author], o.body)
  BY DEF CertBacked, Justified
<1>3. CASE log' = log
  BY <1>1, <1>3
<1>4. ASSUME NEW n \in Node, NEW o \in SignedOp,
             log' = [log EXCEPT ![n] = @ \cup {o}],
             \/ o.author = n /\ Justified(log[n], o.body)
             \/ \E m \in Node : o \in log[m]
      PROVE  \A k \in Node : \A x \in log'[k] : Justified(log'[x.author], x.body)
  <2>1. \A k \in Node : log[k] \subseteq log'[k] /\ log'[k] \subseteq log[k] \cup {o}
    BY <1>4 DEF TypeOK
  <2>2. o.author \in Node /\ Justified(log[o.author], o.body)
    BY <1>1, <1>4
  <2> QED
    BY <1>1, <2>1, <2>2, JustifiedGrows
<1> QED
  BY <1>3, <1>4 DEF LogStep

\* A step that leaves the log alone is good if it leaves memories alone or
\* forgets them.
LEMMA QuietStep ==
    ASSUME TypeOK, MemLogged, TypeOK', UNCHANGED log,
           \A c \in Proc : cmd'[c].mem \subseteq cmd[c].mem
    PROVE  GoodStep
  BY DEF GoodStep, MemLogged, LogStep

\* AppendFresh is good when memories are left alone.
LEMMA AppendFreshStep ==
    ASSUME TypeOK, MemLogged, NEW n \in Node, NEW body \in Body,
           Justified(log[n], body), AppendFresh(n, body),
           \A c \in Proc : cmd'[c].mem = cmd[c].mem
    PROVE  log' \in [Node -> SUBSET SignedOp] /\ MemLogged' /\ LogStep
<1> DEFINE o == NewOp(n, log[n], body)
<1>1. log[n] \in SUBSET SignedOp
  BY DEF TypeOK
<1>2. o \in SignedOp /\ o.author = n /\ o.body = body
  BY <1>1, NewOpFacts DEF AppendFresh
<1> HIDE DEF o
<1>3. log' = [log EXCEPT ![n] = @ \cup {o}]
  BY DEF AppendFresh, o, TypeOK
<1>4. log' \in [Node -> SUBSET SignedOp]
  BY <1>2, <1>3 DEF TypeOK
<1>5. LogStep
  BY <1>2, <1>3 DEF LogStep
<1>6. MemLogged'
  BY <1>3, ProcAssumption DEF MemLogged, TypeOK
<1> QED
  BY <1>4, <1>5, <1>6

\* AppendAndGoto is good, and the command keeps its type.
LEMMA AppendAndGotoStep ==
    ASSUME TypeOK, MemLogged, NEW c \in Proc, NEW body \in Body,
           NEW p \in Proposal, NEW pc \in {"queue", "push"},
           Justified(log[Home[c]], body), AppendAndGoto(c, body, pc, p)
    PROVE  /\ log' \in [Node -> SUBSET SignedOp]
           /\ cmd' \in [Proc -> Command]
           /\ cmd'[c].cur = p /\ cmd[c].mem \subseteq cmd'[c].mem
           /\ \A d \in Proc \ {c} : cmd'[d] = cmd[d]
           /\ MemLogged' /\ LogStep
<1> DEFINE n == Home[c]
           o == NewOp(n, cmd[c].mem, body)
<1>1. n \in Node /\ cmd[c] \in Command /\ cmd[c].mem \in SUBSET SignedOp
  BY ProcAssumption DEF TypeOK, Command
<1>2. Summary(cmd[c].mem)[n] < MaxOps
  <2>1. \A x \in cmd[c].mem : x.author \in Node /\ x.seq \in 1..MaxOps
    BY <1>1 DEF SignedOp
  <2>2. Summary(cmd[c].mem)[n] \in 0..MaxOps
    BY <1>1, <2>1, SummaryBounds DEF SummaryVector
  <2>3. Summary(cmd[c].mem)[n] + 1 <= MaxOps
    BY DEF AppendAndGoto, NewOp
  <2> QED
    BY <2>2, <2>3, BoundAssumption
<1>3. o \in SignedOp /\ o.author = n /\ o.body = body
  BY <1>1, <1>2, NewOpFacts
<1>4. /\ log' = [log EXCEPT ![n] = @ \cup {o}]
      /\ cmd' = [cmd EXCEPT ![c].pc = pc, ![c].mem = @ \cup {o}, ![c].cur = p]
  BY DEF AppendAndGoto
<1> HIDE DEF o
<1>5. log' \in [Node -> SUBSET SignedOp]
  BY <1>1, <1>3, <1>4 DEF TypeOK
<1>6. cmd' \in [Proc -> Command]
  BY <1>1, <1>3, <1>4 DEF TypeOK, Command
<1>7. LogStep
  BY <1>1, <1>3, <1>4 DEF LogStep
<1>8. cmd'[c].cur = p /\ cmd'[c].mem = cmd[c].mem \cup {o}
      /\ \A d \in Proc \ {c} : cmd'[d] = cmd[d]
  BY <1>1, <1>4 DEF TypeOK, Command
<1>9. MemLogged'
  BY <1>1, <1>4, <1>8, ProcAssumption DEF MemLogged, TypeOK
<1> QED
  BY <1>5, <1>6, <1>7, <1>8, <1>9
-----------------------------------------------------------------------------
(* Steps.                                                                  *)

\* Whoever works on a push works on a proposal.
LEMMA CurIsProposal ==
    ASSUME TypeOK, NEW c \in Proc, ProposalOps(cmd[c].mem, cmd[c].cur) # {}
    PROVE  cmd[c].cur \in Proposal
<1>1. cmd[c].mem \subseteq SignedOp
  BY DEF TypeOK, Command
<1>2. PICK o \in cmd[c].mem : o.body.kind = "proposal" /\ o.body.prop = cmd[c].cur
  BY DEF ProposalOps
<1>3. o.body \in Body
  BY <1>1, <1>2 DEF SignedOp
<1> QED
  BY <1>2, <1>3 DEF Body, ProposalBody, VoteBody, CertBody, EventBody

\* An operation list that grows keeps its proposals.
LEMMA ProposalOpsGrow ==
    ASSUME NEW S, NEW T, S \subseteq T, NEW p
    PROVE  ProposalOps(S, p) \subseteq ProposalOps(T, p)
  BY DEF ProposalOps

\* Normalizing keeps a configuration in its type.
LEMMA NormalizeType ==
    ASSUME NEW cfg \in ConsensusConfig
    PROVE  NormalizeConfig(cfg) \in ConsensusConfig
<1>1. Scale \div 2 \in 0..(Scale - 1) \/ Scale = 1
  BY ConsensusAssumption, SMT
<1>2. Scale \div 2 \in 0..(Scale - 1)
  BY <1>1, ConsensusAssumption, SMT
<1> QED
  BY <1>2 DEF NormalizeConfig, ConsensusConfig

\* Events are no certificates; the OID of a proposal in memory is one.
LEMMA EventBodyFacts ==
    ASSUME NEW x \in OID, NEW S
    PROVE  [kind |-> "event", oid |-> x] \in Body
           /\ Justified(S, [kind |-> "event", oid |-> x])
  BY DEF Body, EventBody, Justified

LEMMA ProposedOidType ==
    ASSUME NEW S \in SUBSET SignedOp, NEW p, ProposalOps(S, p) # {}
    PROVE  ProposedOid(S, p) \in OID
<1>1. \A o \in ProposalOps(S, p) : o.body \in Body /\ o.body.kind = "proposal"
  BY DEF ProposalOps, SignedOp
<1>2. \A o \in ProposalOps(S, p) : o.body.oid \in OID
  BY <1>1 DEF Body, ProposalBody, VoteBody, CertBody, EventBody
<1>3. (CHOOSE o \in ProposalOps(S, p) : TRUE) \in ProposalOps(S, p)
  OBVIOUS
<1> QED
  BY <1>2, <1>3 DEF ProposedOid

\* recordGitEvent is good.
LEMMA RecordStep ==
    ASSUME TypeOK, MemLogged, NEW n \in Node, NEW x \in OID,
           RecordGitEvent(n, x),
           \A c \in Proc : cmd'[c].mem = cmd[c].mem
    PROVE  log' \in [Node -> SUBSET SignedOp] /\ MemLogged' /\ LogStep
<1>1. CASE UNCHANGED log
  BY <1>1 DEF MemLogged, LogStep, TypeOK
<1>2. CASE AppendFresh(n, [kind |-> "event", oid |-> x])
  BY <1>2, EventBodyFacts, AppendFreshStep
<1> QED
  BY <1>1, <1>2 DEF RecordGitEvent

\* The steps of vcs push up to the queue.
LEMMA PushSteps ==
    ASSUME TypeOK, MemLogged, NEW c \in Proc,
           StartPush(c) \/ AutoVote(c) \/ QueuePush(c)
    PROVE  GoodStep
<1>0. Home[c] \in Node /\ cmd[c] \in Command
  BY ProcAssumption DEF TypeOK
<1>1. CASE StartPush(c)
  <2>1. PICK p \in Proposal :
          LET S == log[Home[c]]
              o == NewOp(Home[c], S, [kind |-> "proposal", prop |-> p,
                                      oid |-> head[Home[c]]])
          IN  /\ o.seq <= MaxOps
              /\ log' = [log EXCEPT ![Home[c]] = @ \cup {o}]
              /\ cmd' = [cmd EXCEPT ![c] = [pc |-> "vote", mem |-> S \cup {o},
                                            todo |-> {}, cur |-> p]]
    BY <1>1 DEF StartPush
  <2> DEFINE n == Home[c]
             body == [kind |-> "proposal", prop |-> p, oid |-> head[n]]
             o == NewOp(n, log[n], body)
  <2>2. head[n] \in OID /\ log[n] \in SUBSET SignedOp
    BY <1>0 DEF TypeOK
  <2>3. body \in Body /\ Justified(log[n], body)
    BY <2>2 DEF Body, ProposalBody, Justified
  <2>4. Summary(log[n])[n] < MaxOps
    <3>1. \A x \in log[n] : x.author \in Node /\ x.seq \in 1..MaxOps
      BY <2>2 DEF SignedOp
    <3>2. Summary(log[n])[n] \in 0..MaxOps
      BY <1>0, <3>1, SummaryBounds DEF SummaryVector
    <3>3. Summary(log[n])[n] + 1 <= MaxOps
      BY <2>1 DEF NewOp
    <3> QED
      BY <3>2, <3>3, BoundAssumption
  <2>5. AppendFresh(n, body)
    BY <2>1, <2>4 DEF AppendFresh, TypeOK
  <2>6. o \in SignedOp /\ o.author = n /\ o.body = body
    BY <1>0, <2>2, <2>3, <2>4, NewOpFacts
  <2>7. /\ log' = [log EXCEPT ![n] = @ \cup {o}]
        /\ cmd' = [cmd EXCEPT ![c] = [pc |-> "vote", mem |-> log[n] \cup {o},
                                      todo |-> {}, cur |-> p]]
    BY <2>1
  <2>8. o.body.kind = "proposal" /\ o.body.prop = p
    BY <2>6
  <2> HIDE DEF o, body
  <2>9. log' \in [Node -> SUBSET SignedOp] /\ LogStep
    BY <1>0, <2>3, <2>6, <2>7 DEF TypeOK, LogStep
  <2>10. cmd' \in [Proc -> Command]
    BY <1>0, <2>2, <2>6, <2>7 DEF TypeOK, Command
  <2>11. MemLogged'
    BY <1>0, <2>7, ProcAssumption DEF MemLogged, TypeOK
  <2>12. ProposalOps(log[n] \cup {o}, p) # {}
    BY <2>8 DEF ProposalOps
  <2>13. \A d \in Proc :
           cmd'[d].pc \in {"vote", "queue", "certify", "push", "mark", "record"}
             => ProposalOps(cmd'[d].mem, cmd'[d].cur) # {}
    BY <2>7, <2>12 DEF TypeOK
  <2> QED
    BY <1>1, <2>9, <2>10, <2>11, <2>13 DEF StartPush, GoodStep, TypeOK
<1>2. CASE AutoVote(c)
  <2>1. cmd[c].pc = "vote" /\ ProposalOps(cmd[c].mem, cmd[c].cur) # {}
    BY <1>2 DEF AutoVote, TypeOK
  <2>2. cmd[c].cur \in Proposal
    BY <2>1, CurIsProposal
  <2>3. CASE cmd[c].cur \in expired
    <3>1. UNCHANGED log /\ cmd' = [cmd EXCEPT ![c] = NoCommand]
      BY <1>2, <2>3 DEF AutoVote
    <3>2. TypeOK'
      BY <1>2, <3>1 DEF AutoVote, TypeOK, NoCommand, Command
    <3>3. \A d \in Proc : cmd'[d].mem \subseteq cmd[d].mem
      BY <3>1 DEF TypeOK, NoCommand
    <3> QED
      BY <3>1, <3>2, <3>3, QuietStep
  <2>4. CASE cmd[c].cur \notin expired
    <3> DEFINE body == [kind |-> "vote", prop |-> cmd[c].cur, yes |-> TRUE]
    <3>1. AppendAndGoto(c, body, "queue", cmd[c].cur)
      BY <1>2, <2>4 DEF AutoVote
    <3>2. body \in Body /\ Justified(log[Home[c]], body)
      BY <2>2 DEF Body, VoteBody, Justified
    <3> HIDE DEF body
    <3>3. /\ log' \in [Node -> SUBSET SignedOp]
          /\ cmd' \in [Proc -> Command]
          /\ cmd'[c].cur = cmd[c].cur /\ cmd[c].mem \subseteq cmd'[c].mem
          /\ \A d \in Proc \ {c} : cmd'[d] = cmd[d]
          /\ MemLogged' /\ LogStep
      BY <2>2, <3>1, <3>2, AppendAndGotoStep
    <3>4. ProposalOps(cmd'[c].mem, cmd'[c].cur) # {}
      BY <2>1, <3>3, ProposalOpsGrow
    <3> QED
      BY <1>2, <3>3, <3>4 DEF AutoVote, GoodStep, TypeOK
  <2> QED
    BY <2>3, <2>4
<1>3. CASE QueuePush(c)
  <2>1. cmd[c].cur \in Proposal
    BY <1>3, CurIsProposal DEF QueuePush, TypeOK
  <2>2. TypeOK'
    BY <1>0, <1>3, <2>1 DEF QueuePush, Mark, TypeOK, Command, Status
  <2>3. UNCHANGED log /\ \A d \in Proc : cmd'[d].mem = cmd[d].mem
    BY <1>3 DEF QueuePush, TypeOK, Command
  <2> QED
    BY <2>2, <2>3, QuietStep
<1> QED
  BY <1>1, <1>2, <1>3

\* The steps of vcs sync up to the list of pushes.
LEMMA SyncSteps ==
    ASSUME TypeOK, MemLogged, NEW c \in Proc,
           StartSync(c) \/ (\E m \in Node : PullOp(c, m)) \/ ListPending(c)
    PROVE  GoodStep
<1>0. Home[c] \in Node /\ cmd[c] \in Command
  BY ProcAssumption DEF TypeOK
<1>1. CASE StartSync(c)
  <2> DEFINE new == [pc |-> "sync", mem |-> log[Home[c]], todo |-> {}, cur |-> 0]
  <2>1. new \in Command /\ new.pc = "sync" /\ new.mem = log[Home[c]]
    BY <1>0 DEF TypeOK, Command
  <2>2. cmd' = [cmd EXCEPT ![c] = new]
    BY <1>1 DEF StartSync
  <2> HIDE DEF new
  <2>3. TypeOK'
    BY <1>1, <2>1, <2>2 DEF StartSync, TypeOK
  <2>4. MemLogged' /\ LogStep
    BY <1>1, <2>1, <2>2 DEF StartSync, MemLogged, LogStep, TypeOK
  <2> QED
    BY <2>3, <2>4 DEF GoodStep
<1>2. ASSUME NEW m \in Node, PullOp(c, m) PROVE GoodStep
  <2>1. PICK o \in log[m] :
          /\ log' = [log EXCEPT ![Home[c]] = @ \cup {o}]
          /\ cmd' = [cmd EXCEPT ![c].mem = @ \cup {o}]
    BY <1>2 DEF PullOp
  <2>2. o \in SignedOp /\ cmd[c].pc = "sync"
    BY <1>2 DEF TypeOK, PullOp
  <2>3. log' \in [Node -> SUBSET SignedOp] /\ cmd' \in [Proc -> Command]
    <3> DEFINE more == [cmd[c] EXCEPT !.mem = @ \cup {o}]
    <3>1. more \in Command
      BY <1>0, <2>2 DEF Command
    <3>2. cmd' = [cmd EXCEPT ![c] = more]
      BY <2>1
    <3> HIDE DEF more
    <3> QED
      BY <1>0, <2>1, <2>2, <3>1, <3>2 DEF TypeOK
  <2>4. cmd'[c].pc = "sync" /\ \A d \in Proc \ {c} : cmd'[d] = cmd[d]
    BY <1>0, <2>1, <2>2 DEF TypeOK, Command
  <2>5. TypeOK'
    BY <1>2, <2>3, <2>4 DEF PullOp, TypeOK
  <2>6. LogStep
    BY <1>0, <2>1, <2>2 DEF LogStep
  <2>7. MemLogged'
    BY <1>0, <2>1, ProcAssumption DEF MemLogged, TypeOK
  <2> QED
    BY <2>5, <2>6, <2>7 DEF GoodStep
<1>3. CASE ListPending(c)
  <2> DEFINE todo == {p \in Proposal : pending[Home[c]][p] \in {"pending", "failed"}}
  <2>1. cmd' = [cmd EXCEPT ![c].pc = "process", ![c].todo = todo]
    BY <1>3 DEF ListPending
  <2>2. todo \in SUBSET Proposal
    OBVIOUS
  <2> HIDE DEF todo
  <2>3. cmd' \in [Proc -> Command]
    BY <1>0, <2>1, <2>2 DEF TypeOK, Command
  <2>4. cmd'[c].pc = "process" /\ \A d \in Proc \ {c} : cmd'[d] = cmd[d]
    BY <1>0, <2>1 DEF TypeOK, Command
  <2>5. TypeOK'
    BY <1>3, <2>3, <2>4 DEF ListPending, TypeOK
  <2>6. UNCHANGED log /\ \A d \in Proc : cmd'[d].mem = cmd[d].mem
    BY <1>3 DEF ListPending, TypeOK
  <2> QED
    BY <2>5, <2>6, QuietStep
<1> QED
  BY <1>1, <1>2, <1>3

\* A status that is saved, or fails to be, disturbs no other.
LEMMA TryMarkFacts ==
    ASSUME TypeOK, NEW n \in Node, NEW p \in Proposal, NEW status \in Status,
           TryMark(n, p, status)
    PROVE  /\ pending' \in [Node -> [Proposal -> Status]]
           /\ saveErrors' \in 0..MaxSaveErrors
           /\ pending'[n][p] \in {status, pending[n][p]}
           /\ \A q \in Proposal \ {p} : pending'[n][q] = pending[n][q]
           /\ \A m \in Node \ {n} : pending'[m] = pending[m]
<1>1. CASE Mark(n, p, status) /\ UNCHANGED saveErrors
  BY <1>1 DEF Mark, TypeOK
<1>2. CASE /\ saveErrors < MaxSaveErrors
           /\ saveErrors' = saveErrors + 1
           /\ UNCHANGED pending
  BY <1>2, ProcAssumption DEF TypeOK
<1> QED
  BY <1>1, <1>2 DEF TryMark

\* The steps of processPendingPushes.
LEMMA ProcessSteps ==
    ASSUME TypeOK, MemLogged, NEW c \in Proc, ProcessPendingPushes(c)
    PROVE  GoodStep
<1>0. Home[c] \in Node /\ cmd[c] \in Command
  BY ProcAssumption DEF TypeOK
<1>1. ASSUME NEW p \in Proposal, CheckAndSkip(c, p) PROVE GoodStep
  <2>1. /\ cmd' = [cmd EXCEPT ![c].todo = @ \ {p}] /\ cmd[c].pc = "process"
        /\ UNCHANGED <<log, config, head, remote, expired, userOps>>
    BY <1>1 DEF CheckAndSkip
  <2>2. cmd' \in [Proc -> Command]
    BY <1>0, <2>1 DEF TypeOK, Command
  <2>3. cmd'[c].pc = "process" /\ \A d \in Proc \ {c} : cmd'[d] = cmd[d]
    BY <1>0, <2>1 DEF TypeOK, Command
  <2>4. PICK status \in {"failed", "pending"} : TryMark(Home[c], p, status)
    BY <1>1 DEF CheckAndSkip
  <2>5. pending' \in [Node -> [Proposal -> Status]] /\ saveErrors' \in 0..MaxSaveErrors
    BY <1>0, <2>4, TryMarkFacts DEF Status
  <2>6. TypeOK'
    BY <2>1, <2>2, <2>3, <2>5 DEF TypeOK
  <2>7. \A d \in Proc : cmd'[d].mem = cmd[d].mem
    BY <2>1 DEF TypeOK
  <2> QED
    BY <2>1, <2>6, <2>7, QuietStep
<1>2. ASSUME NEW p \in Proposal, CheckAndGo(c, p) PROVE GoodStep
  <2>1. PICK pc \in {"push", "certify"} :
          cmd' = [cmd EXCEPT ![c].todo = @ \ {p}, ![c].cur = p, ![c].pc = pc]
    BY <1>2 DEF CheckAndGo
  <2>2. ProposalOps(cmd[c].mem, p) # {}
    BY <1>2 DEF CheckAndGo, Unknown
  <2>3. cmd' \in [Proc -> Command]
    BY <1>0, <2>1 DEF TypeOK, Command
  <2>4. /\ cmd'[c].mem = cmd[c].mem /\ cmd'[c].cur = p
        /\ \A d \in Proc \ {c} : cmd'[d] = cmd[d]
    BY <1>0, <2>1 DEF TypeOK, Command
  <2>5. TypeOK'
    BY <1>2, <2>2, <2>3, <2>4 DEF CheckAndGo, TypeOK
  <2> QED
    BY <1>2, <2>4, <2>5, QuietStep DEF CheckAndGo
<1>3. CASE Certify(c)
  <2> DEFINE p == cmd[c].cur
             n == Home[c]
             S == cmd[c].mem
  <2>1. ProposalOps(S, p) # {} /\ p \in Proposal
    BY <1>3, CurIsProposal DEF Certify, TypeOK
  <2>2. CASE p \notin expired /\ QuorumIn(c, p)
    <3>1. AppendAndGoto(c, Certificate(n, S, p, config[n]), "push", p)
      BY <1>3, <2>2 DEF Certify
    <3>2. UNCHANGED <<config, pending, head, remote, expired, userOps, saveErrors>>
      BY <1>3, <2>2 DEF Certify
    <3>3. S \in SUBSET SignedOp /\ config[n] \in ConsensusConfig /\ S \subseteq log[n]
      BY <1>0 DEF TypeOK, Command, MemLogged
    <3>4. /\ Certificate(n, S, p, config[n]) \in Body
          /\ Justified(log[n], Certificate(n, S, p, config[n]))
      BY <1>0, <2>1, <3>3, CertificateFacts, JustifiedGrows
    <3>5. /\ log' \in [Node -> SUBSET SignedOp]
          /\ cmd' \in [Proc -> Command]
          /\ cmd'[c].cur = p /\ cmd[c].mem \subseteq cmd'[c].mem
          /\ \A d \in Proc \ {c} : cmd'[d] = cmd[d]
          /\ MemLogged' /\ LogStep
      BY <2>1, <3>1, <3>4, AppendAndGotoStep
    <3>6. ProposalOps(cmd'[c].mem, cmd'[c].cur) # {}
      BY <2>1, <3>5, ProposalOpsGrow
    <3> QED
      BY <3>2, <3>5, <3>6 DEF GoodStep, TypeOK
  <2>3. CASE ~(p \notin expired /\ QuorumIn(c, p))
    <3>1. /\ TryMark(n, p, "failed") /\ NextPush(c)
          /\ UNCHANGED <<log, config, head, remote, expired, userOps>>
      BY <1>3, <2>3 DEF Certify
    <3>0. pending' \in [Node -> [Proposal -> Status]] /\ saveErrors' \in 0..MaxSaveErrors
      BY <1>0, <2>1, <3>1, TryMarkFacts DEF Status
    <3>2. TypeOK'
      BY <1>0, <3>0, <3>1 DEF NextPush, TypeOK, Command
    <3>3. \A d \in Proc : cmd'[d].mem = cmd[d].mem
      BY <3>1 DEF NextPush, TypeOK
    <3> QED
      BY <3>1, <3>2, <3>3, QuietStep
  <2> QED
    BY <2>2, <2>3
<1>4. CASE GitPush(c)
  <2>1. cmd[c].pc = "push" /\ ProposalOps(cmd[c].mem, cmd[c].cur) # {}
    BY <1>4 DEF GitPush, TypeOK
  <2>2. cmd[c].cur \in Proposal
    BY <2>1, CurIsProposal
  <2>3. CASE /\ remote' = head[Home[c]] /\ Goto(c, "mark")
             /\ UNCHANGED <<pending, saveErrors>>
    <3>1. cmd' = [cmd EXCEPT ![c].pc = "mark"]
      BY <2>3 DEF Goto
    <3>2. cmd' \in [Proc -> Command] /\ remote' \in OID
      BY <1>0, <2>3, <3>1 DEF TypeOK, Command
    <3>3. /\ cmd'[c].mem = cmd[c].mem /\ cmd'[c].cur = cmd[c].cur
          /\ \A d \in Proc \ {c} : cmd'[d] = cmd[d]
      BY <1>0, <3>1 DEF TypeOK, Command
    <3>4. TypeOK'
      BY <1>4, <2>1, <2>3, <3>2, <3>3 DEF GitPush, TypeOK
    <3> QED
      BY <1>4, <3>3, <3>4, QuietStep DEF GitPush
  <2>4. CASE TryMark(Home[c], cmd[c].cur, "failed") /\ NextPush(c) /\ UNCHANGED remote
    <3>0. pending' \in [Node -> [Proposal -> Status]] /\ saveErrors' \in 0..MaxSaveErrors
      BY <1>0, <2>2, <2>4, TryMarkFacts DEF Status
    <3>1. TypeOK'
      BY <1>0, <1>4, <2>4, <3>0 DEF GitPush, NextPush, TypeOK, Command
    <3>2. UNCHANGED log /\ \A d \in Proc : cmd'[d].mem = cmd[d].mem
      BY <1>4, <2>4 DEF GitPush, NextPush, TypeOK
    <3> QED
      BY <3>1, <3>2, QuietStep
  <2> QED
    BY <1>4, <2>3, <2>4 DEF GitPush
<1>5. CASE MarkCompleted(c)
  <2>1. cmd[c].cur \in Proposal /\ ProposalOps(cmd[c].mem, cmd[c].cur) # {}
    BY <1>5, CurIsProposal DEF MarkCompleted, TypeOK
  <2>2. cmd' = [cmd EXCEPT ![c].pc = "record"]
    BY <1>5 DEF MarkCompleted, Goto
  <2>3. /\ cmd' \in [Proc -> Command]
        /\ pending' \in [Node -> [Proposal -> Status]] /\ saveErrors' \in 0..MaxSaveErrors
    BY <1>0, <1>5, <2>1, <2>2, TryMarkFacts DEF MarkCompleted, TypeOK, Command, Status
  <2>4. /\ cmd'[c].mem = cmd[c].mem /\ cmd'[c].cur = cmd[c].cur
        /\ \A d \in Proc \ {c} : cmd'[d] = cmd[d]
    BY <1>0, <2>2 DEF TypeOK, Command
  <2>5. TypeOK'
    BY <1>5, <2>1, <2>3, <2>4 DEF MarkCompleted, TypeOK
  <2> QED
    BY <1>5, <2>4, <2>5, QuietStep DEF MarkCompleted
<1>6. CASE RecordPush(c)
  <2>1. ProposalOps(cmd[c].mem, cmd[c].cur) # {} /\ cmd[c].mem \in SUBSET SignedOp
    BY <1>0, <1>6 DEF RecordPush, TypeOK, Command
  <2>2. ProposedOid(cmd[c].mem, cmd[c].cur) \in OID
    BY <2>1, ProposedOidType
  <2>3. cmd' \in [Proc -> Command] /\ \A d \in Proc : cmd'[d].mem = cmd[d].mem
    BY <1>0, <1>6 DEF RecordPush, NextPush, TypeOK, Command
  <2>4. log' \in [Node -> SUBSET SignedOp] /\ MemLogged' /\ LogStep
    BY <1>0, <1>6, <2>2, <2>3, RecordStep DEF RecordPush
  <2>5. cmd'[c].pc = "process" /\ \A d \in Proc \ {c} : cmd'[d] = cmd[d]
    BY <1>0, <1>6 DEF RecordPush, NextPush, TypeOK, Command
  <2> QED
    BY <1>6, <2>3, <2>4, <2>5 DEF RecordPush, GoodStep, TypeOK
<1>7. CASE Finish(c)
  <2>1. TypeOK'
    BY <1>7 DEF Finish, TypeOK, NoCommand, Command
  <2>2. UNCHANGED log /\ \A d \in Proc : cmd'[d].mem \subseteq cmd[d].mem
    BY <1>7 DEF Finish, TypeOK, NoCommand
  <2> QED
    BY <2>1, <2>2, QuietStep
<1> QED
  BY <1>1, <1>2, <1>3, <1>4, <1>5, <1>6, <1>7 DEF ProcessPendingPushes
\* Commands of one step, and a process that dies.
LEMMA OneStepCommands ==
    ASSUME TypeOK, MemLogged, NEW c \in Proc,
           \/ Crash(c)
           \/ \E p \in Proposal, yes \in BOOLEAN : CastVote(c, p, yes)
           \/ \E p \in Proposal, force \in BOOLEAN : CertifyProposal(c, p, force)
           \/ \E cfg \in Configs : SaveConsensusConfig(c, cfg)
           \/ Commit(c)
           \/ PushImmediate(c)
    PROVE  GoodStep
<1>0. Home[c] \in Node /\ MaxUserOps \in Nat
  BY ProcAssumption
<1>1. ASSUME ByHand PROVE userOps' \in 0..MaxUserOps
  BY <1>0, <1>1 DEF ByHand, TypeOK
<1>2. CASE Crash(c)
  <2>1. TypeOK'
    BY <1>2 DEF Crash, TypeOK, NoCommand, Command
  <2>2. UNCHANGED log /\ \A d \in Proc : cmd'[d].mem \subseteq cmd[d].mem
    BY <1>2 DEF Crash, TypeOK, NoCommand
  <2> QED
    BY <2>1, <2>2, QuietStep
<1>3. ASSUME NEW p \in Proposal, NEW yes \in BOOLEAN, CastVote(c, p, yes)
      PROVE  GoodStep
  <2> DEFINE body == [kind |-> "vote", prop |-> p, yes |-> yes]
  <2>1. body \in Body /\ Justified(log[Home[c]], body)
    BY DEF Body, VoteBody, Justified
  <2>2. AppendFresh(Home[c], body) /\ ByHand
        /\ UNCHANGED <<config, pending, head, remote, expired, cmd, saveErrors>>
    BY <1>3 DEF CastVote
  <2> HIDE DEF body
  <2>3. log' \in [Node -> SUBSET SignedOp] /\ MemLogged' /\ LogStep
    BY <1>0, <2>1, <2>2, AppendFreshStep
  <2> QED
    BY <1>1, <2>2, <2>3 DEF GoodStep, TypeOK
<1>4. ASSUME NEW p \in Proposal, NEW force \in BOOLEAN, CertifyProposal(c, p, force)
      PROVE  GoodStep
  <2> DEFINE n == Home[c]
             body == Certificate(n, log[n], p, config[n])
  <2>1. body \in Body /\ Justified(log[n], body)
    BY <1>0, CertificateFacts DEF TypeOK
  <2>2. AppendFresh(n, body) /\ ByHand
        /\ UNCHANGED <<config, pending, head, remote, expired, cmd, saveErrors>>
    BY <1>4 DEF CertifyProposal
  <2> HIDE DEF body
  <2>3. log' \in [Node -> SUBSET SignedOp] /\ MemLogged' /\ LogStep
    BY <1>0, <2>1, <2>2, AppendFreshStep
  <2> QED
    BY <1>1, <2>2, <2>3 DEF GoodStep, TypeOK
<1>5. ASSUME NEW cfg \in Configs, SaveConsensusConfig(c, cfg) PROVE GoodStep
  <2>1. NormalizeConfig(cfg) \in ConsensusConfig
    BY ProcAssumption, NormalizeType
  <2>2. /\ config' = [config EXCEPT ![Home[c]] = NormalizeConfig(cfg)]
        /\ ByHand /\ UNCHANGED <<log, pending, head, remote, expired, cmd, saveErrors>>
    BY <1>5 DEF SaveConsensusConfig
  <2>3. TypeOK'
    BY <1>0, <1>1, <2>1, <2>2 DEF TypeOK
  <2> QED
    BY <2>2, <2>3, QuietStep
<1>6. CASE Commit(c)
  <2>1. PICK x \in OID : /\ head' = [head EXCEPT ![Home[c]] = x]
                         /\ RecordGitEvent(Home[c], x)
    BY <1>6 DEF Commit
  <2>2. UNCHANGED <<config, pending, remote, expired, cmd, userOps, saveErrors>>
    BY <1>6 DEF Commit
  <2>3. log' \in [Node -> SUBSET SignedOp] /\ MemLogged' /\ LogStep
    BY <1>0, <2>1, <2>2, RecordStep
  <2> QED
    BY <1>0, <2>1, <2>2, <2>3 DEF GoodStep, TypeOK
<1>7. CASE PushImmediate(c)
  <2>1. /\ remote' = head[Home[c]] /\ RecordGitEvent(Home[c], head[Home[c]])
        /\ ByHand /\ UNCHANGED <<config, pending, head, expired, cmd, saveErrors>>
    BY <1>7 DEF PushImmediate
  <2>2. head[Home[c]] \in OID
    BY <1>0 DEF TypeOK
  <2>3. log' \in [Node -> SUBSET SignedOp] /\ MemLogged' /\ LogStep
    BY <1>0, <2>1, <2>2, RecordStep
  <2> QED
    BY <1>1, <2>1, <2>2, <2>3 DEF GoodStep, TypeOK
<1> QED
  BY <1>2, <1>3, <1>4, <1>5, <1>6, <1>7

\* Daemons, and time.
LEMMA EnvironmentSteps ==
    ASSUME TypeOK, MemLogged,
           (\E n, m \in Node : Gossip(n, m)) \/ (\E p \in Proposal : Expire(p))
    PROVE  GoodStep
<1>1. ASSUME NEW n \in Node, NEW m \in Node, Gossip(n, m) PROVE GoodStep
  <2>1. PICK o \in log[m] : log' = [log EXCEPT ![n] = @ \cup {o}]
    BY <1>1 DEF Gossip
  <2>2. UNCHANGED <<config, pending, head, remote, expired, cmd, userOps, saveErrors>>
    BY <1>1 DEF Gossip
  <2>3. o \in SignedOp
    BY DEF TypeOK
  <2>4. TypeOK'
    BY <2>1, <2>2, <2>3 DEF TypeOK
  <2>5. MemLogged'
    BY <2>1, <2>2, ProcAssumption DEF MemLogged, TypeOK
  <2>6. LogStep
    BY <2>1, <2>3 DEF LogStep
  <2> QED
    BY <2>4, <2>5, <2>6 DEF GoodStep
<1>2. ASSUME NEW p \in Proposal, Expire(p) PROVE GoodStep
  <2>1. TypeOK'
    BY <1>2 DEF Expire, TypeOK
  <2> QED
    BY <1>2, <2>1, QuietStep DEF Expire
<1> QED
  BY <1>1, <1>2

-----------------------------------------------------------------------------
(* The theorems.                                                           *)

\* The invariant holds in the beginning.
LEMMA InitCertInv == Init => CertInv
<1> SUFFICES ASSUME Init PROVE CertInv
  OBVIOUS
<1>1. config \in [Node -> ConsensusConfig]
  BY ProcAssumption, NormalizeType DEF Init
<1>2. MaxCommits \in Nat /\ MaxUserOps \in Nat /\ MaxSaveErrors \in Nat
  BY ConsensusAssumption, ProcAssumption
<1>3. 0 \in OID /\ 0 \in 0..MaxUserOps /\ 0 \in 0..MaxSaveErrors
  BY <1>2 DEF OID
<1>4. NoCommand \in Command /\ NoCommand.pc = "idle" /\ NoCommand.mem = {}
  BY DEF NoCommand, Command
<1>5. TypeOK
  BY <1>1, <1>3, <1>4 DEF Init, TypeOK, Status
<1>6. MemLogged /\ CertBacked
  BY <1>4 DEF Init, MemLogged, CertBacked
<1> QED
  BY <1>5, <1>6 DEF CertInv

\* Every step is good.
LEMMA NextIsGood ==
    ASSUME TypeOK, MemLogged, Next
    PROVE  GoodStep
<1>1. ASSUME NEW c \in Proc, CommandNext(c) PROVE GoodStep
  BY <1>1, PushSteps, SyncSteps, ProcessSteps, OneStepCommands DEF CommandNext
<1> QED
  BY <1>1, EnvironmentSteps DEF Next

\* Every step keeps it.
LEMMA NextCertInv == CertInv /\ [Next]_vars => CertInv'
<1> SUFFICES ASSUME CertInv, [Next]_vars PROVE CertInv'
  OBVIOUS
<1>0. TypeOK /\ MemLogged /\ CertBacked
  BY DEF CertInv
<1>1. CASE Next
  BY <1>0, <1>1, NextIsGood, LogStepKeepsBacked DEF GoodStep, CertInv
<1>2. CASE UNCHANGED vars
  BY <1>0, <1>2 DEF vars, CertInv, TypeOK, MemLogged, CertBacked
<1> QED
  BY <1>1, <1>2

\* Every variable keeps its type and a command that works on a push holds
\* its proposal in memory (cmdPush and processPendingPushes of src/main.go), in every
\* state any number of commands, crashes and repositories leads to.
THEOREM PushTypeCorrect == Spec => []TypeOK
<1>1. CertInv => TypeOK
  BY DEF CertInv
<1> QED
  BY <1>1, InitCertInv, NextCertInv, PTL DEF Spec

\* A certificate in any log lists yes votes its author's log holds, and
\* enough of them for the threshold it states (CertifyProposal and
\* calculateRequiredYes of src/gossip/consensus.go).
THEOREM CertBackedHolds == Spec => []CertBacked
<1>1. CertInv => CertBacked
  BY DEF CertInv
<1> QED
  BY <1>1, InitCertInv, NextCertInv, PTL DEF Spec
-----------------------------------------------------------------------------
(* Only certified proposals are executed.                                  *)

Executing == {"push", "mark", "record"}

\* What ExecutedCertified needs to know of a step: whoever starts to execute
\* a push, and whatever becomes completed, is certified.
ExecStep ==
    /\ \A c \in Proc : cmd'[c].pc \in Executing =>
          \/ cmd[c].pc \in Executing /\ cmd'[c].cur = cmd[c].cur
          \/ IsCertified(log'[Home[c]], cmd'[c].cur)
    /\ \A n \in Node, p \in Proposal : pending'[n][p] = "completed" =>
          \/ pending[n][p] = "completed"
          \/ IsCertified(log[n], p)

\* A certificate is not forgotten.
LEMMA CertifiedGrows ==
    ASSUME NEW S, NEW T, S \subseteq T, NEW p, IsCertified(S, p)
    PROVE  IsCertified(T, p)
  BY DEF IsCertified, CertOps

LEMMA ExecStepKeeps ==
    ASSUME TypeOK, ExecutedCertified, LogStep, ExecStep
    PROVE  ExecutedCertified'
<1>1. \A n \in Node : log[n] \subseteq log'[n]
  BY DEF LogStep, TypeOK
<1>2. \A n \in Node : \A p : IsCertified(log[n], p) => IsCertified(log'[n], p)
  BY <1>1, CertifiedGrows
<1>3. ASSUME NEW c \in Proc, cmd'[c].pc \in Executing
      PROVE  IsCertified(log'[Home[c]], cmd'[c].cur)
  <2>1. Home[c] \in Node
    BY ProcAssumption
  <2> QED
    BY <1>2, <1>3, <2>1 DEF ExecStep, ExecutedCertified, Executing
<1>4. ASSUME NEW n \in Node, NEW p \in Proposal, pending'[n][p] = "completed"
      PROVE  IsCertified(log'[n], p)
  BY <1>2, <1>4 DEF ExecStep, ExecutedCertified
<1> QED
  BY <1>3, <1>4 DEF ExecutedCertified, Executing

\* Nobody starts to execute and nothing is completed.
LEMMA NoExecution ==
    ASSUME \A c \in Proc : cmd'[c].pc \in Executing => cmd'[c] = cmd[c],
           UNCHANGED pending
    PROVE  ExecStep
  BY DEF ExecStep

\* A push is marked as waiting or failed.
LEMMA MarkNotCompleted ==
    ASSUME TypeOK, NEW n \in Node, NEW p \in Proposal,
           NEW status \in {"pending", "failed"}, TryMark(n, p, status)
    PROVE  \A m \in Node, q \in Proposal :
              pending'[m][q] = "completed" => pending[m][q] = "completed"
  BY TryMarkFacts DEF Status

LEMMA ProcessExec ==
    ASSUME TypeOK, MemLogged, ExecutedCertified, NEW c \in Proc,
           ProcessPendingPushes(c)
    PROVE  ExecStep
<1>0. Home[c] \in Node /\ cmd[c] \in Command
  BY ProcAssumption DEF TypeOK
<1>1. ASSUME NEW p \in Proposal, CheckAndSkip(c, p) PROVE ExecStep
  <2>1. PICK status \in {"pending", "failed"} : TryMark(Home[c], p, status)
    BY <1>1 DEF CheckAndSkip
  <2>2. \A d \in Proc : cmd'[d].pc = cmd[d].pc /\ cmd'[d].cur = cmd[d].cur
    BY <1>1 DEF CheckAndSkip, TypeOK
  <2> QED
    BY <1>0, <2>1, <2>2, MarkNotCompleted DEF ExecStep
<1>2. ASSUME NEW p \in Proposal, CheckAndGo(c, p) PROVE ExecStep
  <2>1. UNCHANGED pending /\ log' = log /\ \A d \in Proc \ {c} : cmd'[d] = cmd[d]
    BY <1>2 DEF CheckAndGo, TypeOK
  <2>2. \/ IsCertified(cmd[c].mem, p) /\ cmd'[c].cur = p
        \/ cmd'[c].pc = "certify"
    BY <1>0, <1>2 DEF CheckAndGo, TypeOK, Command
  <2>3. IsCertified(cmd[c].mem, p) => IsCertified(log'[Home[c]], p)
    BY <2>1, CertifiedGrows DEF MemLogged
  <2> QED
    BY <2>1, <2>2, <2>3 DEF ExecStep, Executing
<1>3. CASE Certify(c)
  <2> DEFINE p == cmd[c].cur
             n == Home[c]
             cert == Certificate(n, cmd[c].mem, p, config[n])
             o == NewOp(n, cmd[c].mem, cert)
  <2>1. p \in Proposal
    BY <1>3, CurIsProposal DEF Certify, TypeOK
  <2>2. CASE QuorumIn(c, p) /\ AppendAndGoto(c, cert, "push", p) /\ UNCHANGED pending
    <3>1. cert.kind = "cert" /\ cert.prop = p /\ cert.certified
      BY <2>2 DEF Certificate, QuorumIn
    <3>2. o.body = cert
      BY DEF NewOp
    <3>3. o \in log'[n]
      BY <1>0, <2>2 DEF AppendAndGoto, TypeOK
    <3>4. cmd'[c].cur = p /\ \A d \in Proc \ {c} : cmd'[d] = cmd[d]
      BY <1>0, <2>2 DEF AppendAndGoto, TypeOK, Command
    <3> HIDE DEF cert, o
    <3>5. IsCertified(log'[n], p)
      BY <3>1, <3>2, <3>3 DEF IsCertified, CertOps
    <3> QED
      BY <2>2, <3>4, <3>5 DEF ExecStep
  <2>3. CASE TryMark(n, p, "failed") /\ NextPush(c) /\ UNCHANGED log
    <3>1. cmd'[c].pc = "process" /\ \A d \in Proc \ {c} : cmd'[d] = cmd[d]
      BY <1>0, <2>3 DEF NextPush, TypeOK, Command
    <3> QED
      BY <1>0, <2>1, <2>3, <3>1, MarkNotCompleted DEF ExecStep, Executing
  <2> QED
    BY <1>3, <2>2, <2>3 DEF Certify
<1>4. CASE GitPush(c)
  <2>1. cmd[c].cur \in Proposal /\ cmd[c].pc = "push"
    BY <1>4, CurIsProposal DEF GitPush, TypeOK
  <2>2. CASE Goto(c, "mark") /\ UNCHANGED pending
    <3>1. cmd'[c].cur = cmd[c].cur /\ \A d \in Proc \ {c} : cmd'[d] = cmd[d]
      BY <1>0, <2>2 DEF Goto, TypeOK, Command
    <3> QED
      BY <2>1, <2>2, <3>1 DEF ExecStep, Executing
  <2>3. CASE TryMark(Home[c], cmd[c].cur, "failed") /\ NextPush(c)
    <3>1. cmd'[c].pc = "process" /\ \A d \in Proc \ {c} : cmd'[d] = cmd[d]
      BY <1>0, <2>3 DEF NextPush, TypeOK, Command
    <3> QED
      BY <1>0, <2>1, <2>3, <3>1, MarkNotCompleted DEF ExecStep, Executing
  <2> QED
    BY <1>4, <2>2, <2>3 DEF GitPush
<1>5. CASE MarkCompleted(c)
  <2>1. cmd[c].pc = "mark" /\ IsCertified(log[Home[c]], cmd[c].cur)
    BY <1>5 DEF MarkCompleted, ExecutedCertified
  <2>2. cmd'[c].cur = cmd[c].cur /\ \A d \in Proc \ {c} : cmd'[d] = cmd[d]
    BY <1>0, <1>5 DEF MarkCompleted, Goto, TypeOK, Command
  <2>3. \A n \in Node, p \in Proposal : pending'[n][p] = "completed" =>
           pending[n][p] = "completed" \/ (n = Home[c] /\ p = cmd[c].cur)
    <3>1. cmd[c].cur \in Proposal
      BY <1>5, CurIsProposal DEF MarkCompleted, TypeOK
    <3>2. TryMark(Home[c], cmd[c].cur, "completed")
      BY <1>5 DEF MarkCompleted
    <3> QED
      BY <1>0, <3>1, <3>2, TryMarkFacts DEF Status
  <2> QED
    BY <2>1, <2>2, <2>3 DEF ExecStep, Executing
<1>6. CASE RecordPush(c)
  <2>1. cmd'[c].pc = "process" /\ \A d \in Proc \ {c} : cmd'[d] = cmd[d]
    BY <1>0, <1>6 DEF RecordPush, NextPush, TypeOK, Command
  <2> QED
    BY <1>6, <2>1, NoExecution DEF RecordPush, Executing
<1>7. CASE Finish(c)
  BY <1>7, NoExecution DEF Finish, TypeOK, NoCommand, Executing
<1> QED
  BY <1>1, <1>2, <1>3, <1>4, <1>5, <1>6, <1>7 DEF ProcessPendingPushes

\* Every other step leaves the executing commands alone.
LEMMA OtherExec ==
    ASSUME TypeOK, [Next]_vars,
           \A c \in Proc : ~ProcessPendingPushes(c)
    PROVE  ExecStep
<1>1. ASSUME NEW c \in Proc, CommandNext(c) PROVE ExecStep
  <2>0. Home[c] \in Node /\ cmd[c] \in Command
    BY ProcAssumption DEF TypeOK
  <2>1. CASE StartPush(c)
    <3>1. cmd'[c].pc = "vote" /\ \A d \in Proc \ {c} : cmd'[d] = cmd[d]
      BY <2>1 DEF StartPush, TypeOK
    <3> QED
      BY <2>1, <3>1, NoExecution DEF StartPush, Executing
  <2>2. CASE AutoVote(c)
    <3>1. cmd'[c].pc \in {"queue", "idle"} /\ \A d \in Proc \ {c} : cmd'[d] = cmd[d]
      BY <2>0, <2>2 DEF AutoVote, AppendAndGoto, NoCommand, TypeOK, Command
    <3> QED
      BY <2>2, <3>1, NoExecution DEF AutoVote, Executing
  <2>3. CASE QueuePush(c)
    <3>1. cmd[c].cur \in Proposal
      BY <2>3, CurIsProposal DEF QueuePush, TypeOK
    <3>2. cmd'[c].pc = "process" /\ \A d \in Proc \ {c} : cmd'[d] = cmd[d]
      BY <2>0, <2>3 DEF QueuePush, TypeOK, Command
    <3>3. TryMark(Home[c], cmd[c].cur, "pending")
      BY <2>3 DEF QueuePush, TryMark
    <3> QED
      BY <2>0, <3>1, <3>2, <3>3, MarkNotCompleted DEF ExecStep, Executing
  <2>4. CASE StartSync(c)
    <3>1. cmd'[c].pc = "sync" /\ \A d \in Proc \ {c} : cmd'[d] = cmd[d]
      BY <2>4 DEF StartSync, TypeOK
    <3> QED
      BY <2>4, <3>1, NoExecution DEF StartSync, Executing
  <2>5. ASSUME NEW m \in Node, PullOp(c, m) PROVE ExecStep
    <3>1. cmd'[c].pc = "sync" /\ \A d \in Proc \ {c} : cmd'[d] = cmd[d]
      BY <2>0, <2>5 DEF PullOp, TypeOK, Command
    <3> QED
      BY <2>5, <3>1, NoExecution DEF PullOp, Executing
  <2>6. CASE ListPending(c)
    <3>1. cmd'[c].pc = "process" /\ \A d \in Proc \ {c} : cmd'[d] = cmd[d]
      BY <2>0, <2>6 DEF ListPending, TypeOK, Command
    <3> QED
      BY <2>6, <3>1, NoExecution DEF ListPending, Executing
  <2>7. CASE Crash(c)
    BY <2>7, NoExecution DEF Crash, NoCommand, TypeOK, Executing
  <2>8. ASSUME NEW p \in Proposal, NEW yes \in BOOLEAN, CastVote(c, p, yes)
        PROVE  ExecStep
    BY <2>8, NoExecution DEF CastVote
  <2>9. ASSUME NEW p \in Proposal, NEW force \in BOOLEAN, CertifyProposal(c, p, force)
        PROVE  ExecStep
    BY <2>9, NoExecution DEF CertifyProposal
  <2>10. ASSUME NEW cfg \in Configs, SaveConsensusConfig(c, cfg) PROVE ExecStep
    BY <2>10, NoExecution DEF SaveConsensusConfig
  <2>11. CASE Commit(c) \/ PushImmediate(c)
    BY <2>11, NoExecution DEF Commit, PushImmediate
  <2> QED
    BY <1>1, <2>1, <2>2, <2>3, <2>4, <2>5, <2>6, <2>7, <2>8, <2>9, <2>10, <2>11
    DEF CommandNext
<1>2. ASSUME NEW n \in Node, NEW m \in Node, Gossip(n, m) PROVE ExecStep
  BY <1>2, NoExecution DEF Gossip
<1>3. ASSUME NEW p \in Proposal, Expire(p) PROVE ExecStep
  BY <1>3, NoExecution DEF Expire
<1>4. CASE UNCHANGED vars
  BY <1>4, NoExecution DEF vars
<1> QED
  BY <1>1, <1>2, <1>3, <1>4 DEF Next

LEMMA NextExecuted ==
    CertInv /\ ExecutedCertified /\ [Next]_vars => ExecutedCertified'
<1> SUFFICES ASSUME CertInv, ExecutedCertified, [Next]_vars PROVE ExecutedCertified'
  OBVIOUS
<1>1. TypeOK /\ MemLogged
  BY DEF CertInv
<1>2. LogStep
  <2>1. CASE UNCHANGED vars
    BY <2>1 DEF vars, LogStep
  <2>2. CASE Next
    BY <1>1, <2>2, NextIsGood DEF GoodStep
  <2> QED
    BY <2>1, <2>2
<1>3. ExecStep
  BY <1>1, ProcessExec, OtherExec
<1> QED
  BY <1>1, <1>2, <1>3, ExecStepKeeps

\* processPendingPushes (src/main.go) runs git push, and calls a push
\* completed, only when its repository's log holds a certificate for the
\* proposal, whatever crashes, failures and other repositories do.
THEOREM ExecutedCertifiedHolds == Spec => []ExecutedCertified
<1>1. Init => ExecutedCertified
  BY DEF Init, ExecutedCertified, NoCommand
<1> QED
  BY <1>1, InitCertInv, NextCertInv, NextExecuted, PTL DEF Spec
-----------------------------------------------------------------------------
(* A completed push stays completed.                                       *)

\* What process c still works on is waiting or failed.
Tidy(c) ==
    /\ \A p \in cmd[c].todo : pending[Home[c]][p] \in {"pending", "failed"}
    /\ cmd[c].cur \notin cmd[c].todo
    /\ cmd[c].pc \in {"vote", "queue", "certify", "push"} =>
          pending[Home[c]][cmd[c].cur] # "completed"
    /\ cmd[c].pc = "sync" => cmd[c].cur = 0

\* Only what has been proposed is queued.
QueuedProposed ==
    \A n \in Node, p \in Proposal :
        pending[n][p] # "none" => ProposalOps(log[n], p) # {}

QueueInv == (\A c \in Proc : Tidy(c)) /\ QueuedProposed

\* What QueueInv and CompletedStays need to know of a step of process c.
TidyStep(c) ==
    /\ \A d \in Proc \ {c} : cmd'[d] = cmd[d]
    /\ \A n \in Node \ {Home[c]} : pending'[n] = pending[n]
    /\ Tidy(c)'
    /\ \A p \in Proposal :
          /\ pending'[Home[c]][p] # "none" =>
                pending[Home[c]][p] # "none" \/ ProposalOps(log[Home[c]], p) # {}
          /\ pending[Home[c]][p] = "completed" => pending'[Home[c]][p] = "completed"

LEMMA TidyStepKeeps ==
    ASSUME OneCommand, TypeOK, QueueInv, LogStep, NEW c \in Proc, TidyStep(c)
    PROVE  /\ QueueInv'
           /\ \A n \in Node, p \in Proposal :
                 pending[n][p] = "completed" => pending'[n][p] = "completed"
<1>1. \A d \in Proc : Tidy(d)'
  BY ProcAssumption DEF OneCommand, QueueInv, TidyStep, Tidy
<1>2. \A n \in Node : log[n] \subseteq log'[n]
  BY DEF LogStep, TypeOK
<1>3. \A n \in Node, p \in Proposal : pending'[n][p] # "none" =>
         ProposalOps(log[n], p) # {}
  BY ProcAssumption DEF QueueInv, QueuedProposed, TidyStep
<1>4. QueuedProposed'
  <2>1. ASSUME NEW n \in Node, NEW p \in Proposal, pending'[n][p] # "none"
        PROVE  ProposalOps(log'[n], p) # {}
    BY <1>2, <1>3, <2>1, ProposalOpsGrow
  <2> QED
    BY <2>1 DEF QueuedProposed
<1>5. \A n \in Node, p \in Proposal :
         pending[n][p] = "completed" => pending'[n][p] = "completed"
  BY DEF TidyStep
<1> QED
  BY <1>1, <1>4, <1>5 DEF QueueInv

\* A command that leaves the queue alone and works on nothing new is tidy.
LEMMA TidyQuiet ==
    ASSUME QueueInv, NEW c \in Proc, UNCHANGED pending,
           \A d \in Proc \ {c} : cmd'[d] = cmd[d],
           \/ cmd'[c] = cmd[c]
           \/ /\ cmd'[c].todo \subseteq cmd[c].todo
              /\ cmd'[c].cur \notin cmd'[c].todo
              /\ cmd'[c].pc \in {"vote", "queue", "certify", "push"} =>
                    pending[Home[c]][cmd'[c].cur] # "completed"
              /\ cmd'[c].pc = "sync" => cmd'[c].cur = 0
    PROVE  TidyStep(c)
  BY DEF TidyStep, Tidy, QueueInv

\* Marking a proposal that is not completed, and is dropped from the work
\* to do, is tidy.
LEMMA TidyMark ==
    ASSUME TypeOK, QueueInv, NEW c \in Proc, NEW p \in Proposal,
           NEW status \in {"pending", "failed"}, TryMark(Home[c], p, status),
           p \in cmd'[c].todo => Mark(Home[c], p, status),
           pending[Home[c]][p] # "completed", ProposalOps(log[Home[c]], p) # {},
           \A d \in Proc \ {c} : cmd'[d] = cmd[d],
           cmd'[c].todo \subseteq cmd[c].todo \cup {p},
           cmd'[c].cur = 0, cmd'[c].todo \subseteq Proposal, cmd'[c].pc = "process"
    PROVE  TidyStep(c)
<1>0. Home[c] \in Node
  BY ProcAssumption
<1>1. 0 \notin Proposal
  BY DEF Proposal
<1>2. /\ pending'[Home[c]][p] \in {status, pending[Home[c]][p]}
      /\ \A q \in Proposal \ {p} : pending'[Home[c]][q] = pending[Home[c]][q]
      /\ \A n \in Node \ {Home[c]} : pending'[n] = pending[n]
  BY <1>0, TryMarkFacts DEF Status
<1>3. p \in cmd'[c].todo => pending'[Home[c]][p] = status
  BY <1>0 DEF Mark, TypeOK
<1>4. Tidy(c)'
  BY <1>1, <1>2, <1>3 DEF Tidy, QueueInv
<1> QED
  BY <1>2, <1>4 DEF TidyStep

\* The proposal a command works on is in its repository's log.
LEMMA CurInLog ==
    ASSUME TypeOK, MemLogged, NEW c \in Proc,
           cmd[c].pc \in {"vote", "queue", "certify", "push", "mark", "record"}
    PROVE  /\ cmd[c].cur \in Proposal
           /\ ProposalOps(log[Home[c]], cmd[c].cur) # {}
<1>1. ProposalOps(cmd[c].mem, cmd[c].cur) # {}
  BY DEF TypeOK
<1>2. cmd[c].mem \subseteq log[Home[c]]
  BY DEF MemLogged
<1> QED
  BY <1>1, <1>2, CurIsProposal, ProposalOpsGrow

LEMMA ProcessTidy ==
    ASSUME TypeOK, MemLogged, QueueInv, NEW c \in Proc, ProcessPendingPushes(c)
    PROVE  TidyStep(c)
<1>0. Home[c] \in Node /\ cmd[c] \in Command /\ Tidy(c)
  BY ProcAssumption DEF TypeOK, QueueInv
<1>1. ASSUME NEW p \in Proposal, CheckAndSkip(c, p) PROVE TidyStep(c)
  <2>1. PICK status \in {"pending", "failed"} : TryMark(Home[c], p, status)
    BY <1>1 DEF CheckAndSkip
  <2>2. pending[Home[c]][p] \in {"pending", "failed"}
    BY <1>0, <1>1 DEF CheckAndSkip, IsNext, Tidy
  <2>3. ProposalOps(log[Home[c]], p) # {}
    BY <1>0, <2>2 DEF QueueInv, QueuedProposed
  <2>4. /\ pending'[Home[c]][p] \in {status, pending[Home[c]][p]}
        /\ \A q \in Proposal \ {p} : pending'[Home[c]][q] = pending[Home[c]][q]
        /\ \A n \in Node \ {Home[c]} : pending'[n] = pending[n]
    BY <1>0, <2>1, TryMarkFacts DEF Status
  <2>5. /\ cmd'[c].todo = cmd[c].todo \ {p} /\ cmd'[c].cur = cmd[c].cur
        /\ cmd'[c].pc = "process" /\ cmd[c].todo \subseteq Proposal
        /\ \A d \in Proc \ {c} : cmd'[d] = cmd[d]
    BY <1>0, <1>1 DEF CheckAndSkip, TypeOK, Command
  <2>6. Tidy(c)'
    BY <1>0, <2>4, <2>5 DEF Tidy
  <2> QED
    BY <2>2, <2>3, <2>4, <2>5, <2>6 DEF TidyStep
<1>2. ASSUME NEW p \in Proposal, CheckAndGo(c, p) PROVE TidyStep(c)
  <2>1. /\ cmd'[c].todo = cmd[c].todo \ {p} /\ cmd'[c].cur = p /\ cmd'[c].pc # "sync"
        /\ \A d \in Proc \ {c} : cmd'[d] = cmd[d]
    BY <1>0, <1>2 DEF CheckAndGo, TypeOK, Command
  <2>2. pending[Home[c]][p] # "completed"
    BY <1>0, <1>2 DEF CheckAndGo, IsNext, Tidy
  <2> QED
    BY <1>2, <2>1, <2>2, TidyQuiet DEF CheckAndGo
<1>3. CASE Certify(c)
  <2> DEFINE p == cmd[c].cur
  <2>1. p \in Proposal /\ ProposalOps(log[Home[c]], p) # {}
    BY <1>3, CurInLog DEF Certify
  <2>2. pending[Home[c]][p] # "completed" /\ p \notin cmd[c].todo
    BY <1>0, <1>3 DEF Certify, Tidy
  <2>3. CASE UNCHANGED pending /\
             AppendAndGoto(c, Certificate(Home[c], cmd[c].mem, p, config[Home[c]]),
                           "push", p)
    <3>1. /\ cmd'[c].todo = cmd[c].todo /\ cmd'[c].cur = p /\ cmd'[c].pc = "push"
          /\ \A d \in Proc \ {c} : cmd'[d] = cmd[d]
      BY <1>0, <2>3 DEF AppendAndGoto, TypeOK, Command
    <3> QED
      BY <2>2, <2>3, <3>1, TidyQuiet
  <2>4. CASE TryMark(Home[c], p, "failed") /\ NextPush(c)
    <3>1. /\ cmd'[c].todo = cmd[c].todo /\ cmd'[c].cur = 0
          /\ cmd'[c].pc = "process" /\ cmd[c].todo \subseteq Proposal
          /\ \A d \in Proc \ {c} : cmd'[d] = cmd[d]
      BY <1>0, <2>4 DEF NextPush, TypeOK, Command
    <3> QED
      BY <2>1, <2>2, <2>4, <3>1, TidyMark
  <2> QED
    BY <1>3, <2>3, <2>4 DEF Certify
<1>4. CASE GitPush(c)
  <2> DEFINE p == cmd[c].cur
  <2>1. p \in Proposal /\ ProposalOps(log[Home[c]], p) # {}
    BY <1>4, CurInLog DEF GitPush
  <2>2. pending[Home[c]][p] # "completed" /\ p \notin cmd[c].todo
    BY <1>0, <1>4 DEF GitPush, Tidy
  <2>3. CASE UNCHANGED pending /\ Goto(c, "mark")
    <3>1. /\ cmd'[c].todo = cmd[c].todo /\ cmd'[c].cur = p /\ cmd'[c].pc = "mark"
          /\ \A d \in Proc \ {c} : cmd'[d] = cmd[d]
      BY <1>0, <2>3 DEF Goto, TypeOK, Command
    <3> QED
      BY <2>2, <2>3, <3>1, TidyQuiet
  <2>4. CASE TryMark(Home[c], p, "failed") /\ NextPush(c)
    <3>1. /\ cmd'[c].todo = cmd[c].todo /\ cmd'[c].cur = 0
          /\ cmd'[c].pc = "process" /\ cmd[c].todo \subseteq Proposal
          /\ \A d \in Proc \ {c} : cmd'[d] = cmd[d]
      BY <1>0, <2>4 DEF NextPush, TypeOK, Command
    <3> QED
      BY <2>1, <2>2, <2>4, <3>1, TidyMark
  <2> QED
    BY <1>4, <2>3, <2>4 DEF GitPush
<1>5. CASE MarkCompleted(c)
  <2> DEFINE p == cmd[c].cur
  <2>1. p \in Proposal /\ ProposalOps(log[Home[c]], p) # {}
    BY <1>5, CurInLog DEF MarkCompleted
  <2>2. p \notin cmd[c].todo /\ cmd[c].todo \subseteq Proposal
    BY <1>0 DEF Tidy, Command
  <2>3. /\ pending'[Home[c]][p] \in {"completed", pending[Home[c]][p]}
        /\ \A q \in Proposal \ {p} : pending'[Home[c]][q] = pending[Home[c]][q]
        /\ \A n \in Node \ {Home[c]} : pending'[n] = pending[n]
    BY <1>0, <1>5, <2>1, TryMarkFacts DEF MarkCompleted, Status
  <2>4. /\ cmd'[c].todo = cmd[c].todo /\ cmd'[c].cur = p /\ cmd'[c].pc = "record"
        /\ \A d \in Proc \ {c} : cmd'[d] = cmd[d]
    BY <1>0, <1>5 DEF MarkCompleted, Goto, TypeOK, Command
  <2>5. Tidy(c)'
    BY <1>0, <2>2, <2>3, <2>4 DEF Tidy
  <2> QED
    BY <2>1, <2>3, <2>4, <2>5 DEF TidyStep
<1>6. CASE RecordPush(c)
  <2>1. /\ cmd'[c].todo = cmd[c].todo /\ cmd'[c].cur = 0
        /\ cmd'[c].pc = "process" /\ cmd[c].todo \subseteq Proposal
        /\ \A d \in Proc \ {c} : cmd'[d] = cmd[d]
    BY <1>0, <1>6 DEF RecordPush, NextPush, TypeOK, Command
  <2>2. 0 \notin Proposal
    BY DEF Proposal
  <2> QED
    BY <1>6, <2>1, <2>2, TidyQuiet DEF RecordPush
<1>7. CASE Finish(c)
  <2>1. cmd'[c] = NoCommand /\ \A d \in Proc \ {c} : cmd'[d] = cmd[d]
    BY <1>7 DEF Finish, TypeOK
  <2> QED
    BY <1>7, <2>1, TidyQuiet DEF Finish, NoCommand
<1> QED
  BY <1>1, <1>2, <1>3, <1>4, <1>5, <1>6, <1>7 DEF ProcessPendingPushes
LEMMA CommandTidy ==
    ASSUME TypeOK, MemLogged, QueueInv, NEW c \in Proc, CommandNext(c)
    PROVE  TidyStep(c)
<1>0. Home[c] \in Node /\ cmd[c] \in Command /\ Tidy(c)
  BY ProcAssumption DEF TypeOK, QueueInv
<1>1. CASE StartPush(c)
  <2>1. PICK p \in Proposal \ Proposed : /\ cmd'[c].cur = p /\ cmd'[c].todo = {}
                                       /\ cmd'[c].pc = "vote"
    BY <1>1 DEF StartPush, TypeOK
  <2>2. \A d \in Proc \ {c} : cmd'[d] = cmd[d]
    BY <1>1 DEF StartPush, TypeOK
  <2>3. pending[Home[c]][p] = "none"
    BY <1>0, <2>1 DEF Proposed, QueueInv, QueuedProposed
  <2> QED
    BY <1>1, <2>1, <2>2, <2>3, TidyQuiet DEF StartPush
<1>2. CASE AutoVote(c)
  <2>1. pending[Home[c]][cmd[c].cur] # "completed"
    BY <1>0, <1>2 DEF AutoVote, Tidy
  <2>2. \A d \in Proc \ {c} : cmd'[d] = cmd[d]
    BY <1>2 DEF AutoVote, AppendAndGoto, TypeOK
  <2>3. \/ /\ cmd'[c].cur = cmd[c].cur /\ cmd'[c].todo = cmd[c].todo
           /\ cmd'[c].pc = "queue"
        \/ cmd'[c] = NoCommand
    BY <1>0, <1>2 DEF AutoVote, AppendAndGoto, TypeOK, Command
  <2>4. cmd[c].cur \notin cmd[c].todo
    BY <1>0 DEF Tidy
  <2> QED
    BY <1>2, <2>1, <2>2, <2>3, <2>4, TidyQuiet DEF AutoVote, NoCommand
<1>3. CASE QueuePush(c)
  <2> DEFINE p == cmd[c].cur
  <2>1. p \in Proposal /\ ProposalOps(log[Home[c]], p) # {}
    BY <1>3, CurInLog DEF QueuePush
  <2>2. /\ pending[Home[c]][p] # "completed"
        /\ Mark(Home[c], p, "pending") /\ TryMark(Home[c], p, "pending")
    BY <1>0, <1>3 DEF QueuePush, Tidy, TryMark
  <2>3. /\ cmd'[c].todo = {p} /\ cmd'[c].cur = 0 /\ cmd'[c].pc = "process"
        /\ \A d \in Proc \ {c} : cmd'[d] = cmd[d]
    BY <1>0, <1>3 DEF QueuePush, TypeOK, Command
  <2> QED
    BY <2>1, <2>2, <2>3, TidyMark
<1>4. CASE StartSync(c)
  <2>1. /\ cmd'[c].todo = {} /\ cmd'[c].pc = "sync" /\ cmd'[c].cur = 0
        /\ \A d \in Proc \ {c} : cmd'[d] = cmd[d]
    BY <1>4 DEF StartSync, TypeOK
  <2> QED
    BY <1>4, <2>1, TidyQuiet DEF StartSync
<1>5. ASSUME NEW m \in Node, PullOp(c, m) PROVE TidyStep(c)
  <2>1. /\ cmd'[c].todo = cmd[c].todo /\ cmd'[c].cur = cmd[c].cur
        /\ cmd[c].cur = 0 /\ cmd[c].cur \notin cmd[c].todo
        /\ \A d \in Proc \ {c} : cmd'[d] = cmd[d]
    BY <1>0, <1>5 DEF PullOp, TypeOK, Command, Tidy
  <2> QED
    BY <1>5, <2>1, TidyQuiet DEF PullOp
<1>6. CASE ListPending(c)
  <2>1. /\ cmd'[c].todo = {p \in Proposal : pending[Home[c]][p] \in {"pending", "failed"}}
        /\ cmd'[c].pc = "process" /\ cmd'[c].cur = cmd[c].cur
        /\ \A d \in Proc \ {c} : cmd'[d] = cmd[d]
    BY <1>0, <1>6 DEF ListPending, TypeOK, Command
  <2>2. cmd[c].cur = 0
    BY <1>0, <1>6 DEF ListPending, Tidy
  <2>3. 0 \notin Proposal
    BY DEF Proposal
  <2>4. UNCHANGED pending
    BY <1>6 DEF ListPending
  <2> QED
    BY <2>1, <2>2, <2>3, <2>4 DEF TidyStep, Tidy
<1>7. CASE ProcessPendingPushes(c)
  BY <1>7, ProcessTidy
<1>8. CASE Crash(c)
  <2>1. cmd'[c] = NoCommand /\ \A d \in Proc \ {c} : cmd'[d] = cmd[d]
    BY <1>8 DEF Crash, TypeOK
  <2> QED
    BY <1>8, <2>1, TidyQuiet DEF Crash, NoCommand
<1>9. CASE UNCHANGED <<cmd, pending>>
  BY <1>9, TidyQuiet
<1>10. ASSUME NEW p \in Proposal, NEW yes \in BOOLEAN, CastVote(c, p, yes)
       PROVE  UNCHANGED <<cmd, pending>>
  BY <1>10 DEF CastVote
<1>11. ASSUME NEW p \in Proposal, NEW force \in BOOLEAN, CertifyProposal(c, p, force)
       PROVE  UNCHANGED <<cmd, pending>>
  BY <1>11 DEF CertifyProposal
<1>12. ASSUME NEW cfg \in Configs, SaveConsensusConfig(c, cfg)
       PROVE  UNCHANGED <<cmd, pending>>
  BY <1>12 DEF SaveConsensusConfig
<1>13. ASSUME Commit(c) \/ PushImmediate(c) PROVE UNCHANGED <<cmd, pending>>
  BY <1>13 DEF Commit, PushImmediate
<1> QED
  BY <1>1, <1>2, <1>3, <1>4, <1>5, <1>6, <1>7, <1>8, <1>9, <1>10, <1>11, <1>12, <1>13
  DEF CommandNext

LEMMA NextQueue ==
    ASSUME OneCommand, CertInv, QueueInv, [Next]_vars
    PROVE  /\ QueueInv'
           /\ \A n \in Node, p \in Proposal :
                 pending[n][p] = "completed" => pending'[n][p] = "completed"
<1>0. TypeOK /\ MemLogged
  BY DEF CertInv
<1>1. CASE UNCHANGED vars
  BY <1>1 DEF vars, QueueInv, QueuedProposed, Tidy
<1>2. CASE Next
  <2>1. LogStep
    BY <1>0, <1>2, NextIsGood DEF GoodStep
  <2>2. ASSUME NEW c \in Proc, CommandNext(c) PROVE TidyStep(c)
    BY <1>0, <2>2, CommandTidy
  <2>3. CASE UNCHANGED <<cmd, pending>>
    <3>1. \A n \in Node : log[n] \subseteq log'[n]
      BY <1>0, <2>1 DEF LogStep, TypeOK
    <3>2. QueuedProposed'
      BY <2>3, <3>1, ProposalOpsGrow DEF QueueInv, QueuedProposed
    <3> QED
      BY <2>3, <3>2 DEF QueueInv, Tidy
  <2>4. (\E n, m \in Node : Gossip(n, m)) \/ (\E p \in Proposal : Expire(p))
           => UNCHANGED <<cmd, pending>>
    BY DEF Gossip, Expire
  <2> QED
    BY <1>0, <1>2, <2>1, <2>2, <2>3, <2>4, TidyStepKeeps DEF Next
<1> QED
  BY <1>1, <1>2

\* A push that processPendingPushes has completed keeps that status and is
\* not attempted again, if a repository runs one command at a time: neither
\* a crash, a failing push nor a second sync undoes it.
THEOREM CompletedStaysHolds == OneCommand => (Spec => CompletedStays)
<1> SUFFICES ASSUME OneCommand PROVE Spec => CompletedStays
  OBVIOUS
<1>1. Init => QueueInv
  BY DEF Init, QueueInv, QueuedProposed, Tidy, NoCommand
<1>2. CertInv /\ QueueInv /\ [Next]_vars => QueueInv'
  BY NextQueue
<1>3. CertInv /\ QueueInv /\ [Next]_vars =>
        [\A n \in Node, p \in Proposal :
            pending[n][p] = "completed" => pending'[n][p] = "completed"]_vars
  BY NextQueue
<1> QED
  BY <1>1, <1>2, <1>3, InitCertInv, NextCertInv, PTL DEF Spec, CompletedStays
=============================================================================
