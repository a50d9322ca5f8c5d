--------------------------- MODULE GuiFeedProofs ---------------------------
(***************************************************************************)
(* What the front end shows, for every number of repositories, commands    *)
(* and daemons: a push shown as completed is certified in what is shown    *)
(* with it, every value has its type, and the votes counted line by line   *)
(* are those ProposalStatus counts by their numbers.                       *)
(***************************************************************************)
EXTENDS GuiFeed, PushVoteProofs, FoldProofs

-----------------------------------------------------------------------------
(* One line at a time.                                                     *)

\* A command that is not at work on SyncPeer, or reads nothing new, pulls
\* no line.
LEMMA NothingPulled ==
    ASSUME NEW c \in Proc, \A d \in Proc \ {c} : cmd'[d] = cmd[d],
           cmd[c].pc # "sync" \/ cmd'[c].mem \subseteq cmd[c].mem
    PROVE  \A d \in Proc : Pulled(d) = {}
  BY DEF Pulled

\* The steps in which a command of one step leaves all commands as they are.
LEMMA OneStepPullsNothing ==
    ASSUME UNCHANGED cmd PROVE \A d \in Proc : Pulled(d) = {}
  BY DEF Pulled

\* Of the steps of a push only SyncPeer reads lines.
LEMMA ProcessPullsNothing ==
    ASSUME TypeOK, NEW c \in Proc, ProcessPendingPushes(c)
    PROVE  \A d \in Proc : Pulled(d) = {}
<1>1. cmd[c].pc # "sync"
  BY DEF ProcessPendingPushes, CheckAndSkip, CheckAndGo, Certify, GitPush,
         MarkCompleted, RecordPush, Finish
<1>2. \A d \in Proc \ {c} : cmd'[d] = cmd[d]
  BY DEF TypeOK, ProcessPendingPushes, CheckAndSkip, CheckAndGo, Certify, GitPush,
         MarkCompleted, RecordPush, Finish, AppendAndGoto, NextPush, Goto
<1> QED
  BY <1>1, <1>2, NothingPulled

LEMMA OnlySyncPulls ==
    ASSUME TypeOK, NEW c \in Proc, CommandNext(c)
    PROVE  \/ \A d \in Proc : Pulled(d) = {}
           \/ \E m \in Node : PullOp(c, m)
<1>1. CASE StartPush(c) \/ StartSync(c)
  <2>1. cmd[c].pc # "sync" /\ \A d \in Proc \ {c} : cmd'[d] = cmd[d]
    BY <1>1 DEF StartPush, StartSync, Starts, TypeOK
  <2> QED
    BY <2>1, NothingPulled
<1>2. CASE AutoVote(c) \/ QueuePush(c)
  <2>1. cmd[c].pc # "sync" /\ \A d \in Proc \ {c} : cmd'[d] = cmd[d]
    BY <1>2 DEF AutoVote, QueuePush, AppendAndGoto, TypeOK
  <2> QED
    BY <2>1, NothingPulled
<1>3. CASE ListPending(c)
  <2>1. cmd'[c].mem = cmd[c].mem /\ \A d \in Proc \ {c} : cmd'[d] = cmd[d]
    BY <1>3 DEF ListPending, TypeOK, Command
  <2> QED
    BY <2>1, NothingPulled
<1>4. CASE ProcessPendingPushes(c)
  BY <1>4, ProcessPullsNothing
<1>5. CASE Crash(c)
  <2>1. cmd'[c].mem = {} /\ \A d \in Proc \ {c} : cmd'[d] = cmd[d]
    BY <1>5 DEF Crash, NoCommand, TypeOK
  <2> QED
    BY <2>1, NothingPulled
<1>6. ASSUME \/ \E p \in Proposal, yes \in BOOLEAN : CastVote(c, p, yes)
             \/ \E p \in Proposal, force \in BOOLEAN : CertifyProposal(c, p, force)
             \/ \E cfg \in Configs : SaveConsensusConfig(c, cfg)
             \/ Commit(c)
             \/ PushImmediate(c)
      PROVE  UNCHANGED cmd
  BY <1>6 DEF CastVote, CertifyProposal, SaveConsensusConfig, Commit, PushImmediate
<1> QED
  BY <1>1, <1>2, <1>3, <1>4, <1>5, <1>6, OneStepPullsNothing DEF CommandNext

\* A step writes at most one line.
LEMMA OneLine ==
    ASSUME TypeOK, MemLogged, Next
    PROVE  \E x : NewLines \subseteq {x}
<1>1. CASE \A d \in Proc : Pulled(d) = {}
  <2>1. LogStep
    BY NextIsGood DEF GoodStep
  <2>2. \E x : log'[Watched] \ log[Watched] \subseteq {x}
    BY <2>1, WatchedAssumption DEF LogStep, TypeOK
  <2> QED
    BY <1>1, <2>2 DEF NewLines
<1>2. ASSUME NEW c \in Proc, NEW m \in Node, PullOp(c, m)
      PROVE  \E x : NewLines \subseteq {x}
  <2>1. PICK o \in log[m] : /\ log' = [log EXCEPT ![Home[c]] = @ \cup {o}]
                            /\ cmd' = [cmd EXCEPT ![c].mem = @ \cup {o}]
    BY <1>2 DEF PullOp
  <2>2. log'[Watched] \ log[Watched] \subseteq {o}
    BY <2>1, WatchedAssumption, ProcAssumption DEF TypeOK
  <2>3. \A d \in Proc : cmd'[d].mem \ cmd[d].mem \subseteq {o}
    BY <2>1 DEF TypeOK, Command
  <2>4. \A d \in Proc : Pulled(d) \subseteq {o}
    BY <2>3 DEF Pulled
  <2> QED
    BY <2>2, <2>4 DEF NewLines
<1>3. ASSUME NEW c \in Proc, CommandNext(c) PROVE \E x : NewLines \subseteq {x}
  BY <1>1, <1>2, <1>3, OnlySyncPulls
<1>4. ASSUME \/ \E n, m \in Node : Gossip(n, m)
             \/ \E p \in Proposal : Expire(p)
      PROVE  UNCHANGED cmd
  BY <1>4 DEF Gossip, Expire
<1> QED
  BY <1>1, <1>3, <1>4, OneStepPullsNothing DEF Next

-----------------------------------------------------------------------------
(* The invariant.                                                          *)

\* The lines of ops.log are the operations of the log.
Lines == file \in Seq(SignedOp) /\ ToSet(file) = log[Watched]

\* A push that was read as completed is certified in the log the refresh is
\* about to read.
ReadCertified ==
    view.pc = "pending" =>
        \A p \in Proposal : view.pending[p] = "completed" =>
            IsCertified(log[Watched], p)

FeedInv == CertInv /\ ExecutedCertified /\ Lines /\ ReadCertified

LEMMA WriteLinesKeeps ==
    ASSUME CertInv, Lines, Next, WriteLines
    PROVE  Lines'
<1>0. TypeOK /\ MemLogged /\ TypeOK' /\ MemLogged' /\ LogStep
  BY NextIsGood DEF CertInv, GoodStep
<1>1. PICK x : NewLines \subseteq {x}
  BY <1>0, OneLine
<1>2. log[Watched] \subseteq log'[Watched] /\ log'[Watched] \subseteq SignedOp
  BY <1>0, WatchedAssumption DEF LogStep, TypeOK
<1>3. NewLines \subseteq log'[Watched]
  <2>1. \A c \in Proc : Pulled(c) \subseteq log'[Watched]
    BY <1>0 DEF Pulled, MemLogged
  <2> QED
    BY <2>1 DEF NewLines
<1>4. log'[Watched] = log[Watched] \cup NewLines
  BY <1>2, <1>3 DEF NewLines
<1>5. CASE NewLines = {} /\ UNCHANGED file
  BY <1>4, <1>5 DEF Lines
<1>6. ASSUME NEW o \in NewLines, file' = Append(file, o) PROVE Lines'
  <2>1. NewLines = {o} /\ o \in SignedOp
    BY <1>1, <1>2, <1>3, <1>6
  <2>2. file' \in Seq(SignedOp)
    BY <1>6, <2>1 DEF Lines
  <2>3. ToSet(file') = ToSet(file) \cup {o}
    <3>1. /\ DOMAIN file = 1..Len(file) /\ Len(file) \in Nat
          /\ DOMAIN file' = 1..(Len(file) + 1)
          /\ file'[Len(file) + 1] = o
          /\ \A i \in 1..Len(file) : file'[i] = file[i]
      BY <1>6, <2>1 DEF Lines
    <3> QED
      BY <3>1 DEF ToSet
  <2> QED
    BY <1>4, <2>1, <2>2, <2>3 DEF Lines
<1> QED
  BY <1>5, <1>6 DEF WriteLines

LEMMA InitFeedInv == FeedInit => FeedInv
<1> SUFFICES ASSUME FeedInit PROVE FeedInv
  OBVIOUS
<1>1. CertInv /\ ExecutedCertified
  BY InitCertInv DEF FeedInit, Init, ExecutedCertified, NoCommand
<1>2. Lines
  BY WatchedAssumption DEF FeedInit, Init, Lines, ToSet
<1>3. ReadCertified
  BY DEF FeedInit, NothingShown, ReadCertified
<1> QED
  BY <1>1, <1>2, <1>3 DEF FeedInv

LEMMA NextFeedInv == FeedInv /\ [FeedNext]_feedVars => FeedInv'
<1> SUFFICES ASSUME FeedInv, [FeedNext]_feedVars PROVE FeedInv'
  OBVIOUS
<1> USE DEF FeedInv
<1>1. [Next]_vars
  BY DEF FeedNext, ReadConfig, ReadPending, ReadOps, feedVars
<1>2. CertInv' /\ ExecutedCertified'
  BY <1>1, NextCertInv, NextExecuted
<1>3. Lines'
  <2>1. CASE Next /\ WriteLines
    BY <2>1, WriteLinesKeeps
  <2>2. CASE UNCHANGED <<vars, file>>
    BY <2>2 DEF vars, Lines
  <2> QED
    BY <2>1, <2>2 DEF FeedNext, ReadConfig, ReadPending, ReadOps, feedVars
<1>4. ReadCertified'
  <2>1. log[Watched] \subseteq log'[Watched]
    <3>1. CASE Next
      BY <3>1, NextIsGood, WatchedAssumption DEF CertInv, GoodStep, LogStep, TypeOK
    <3> QED
      BY <1>1, <3>1 DEF vars
  <2>2. CASE UNCHANGED view
    BY <2>1, <2>2, CertifiedGrows DEF ReadCertified
  <2>3. CASE ReadConfig
    BY <2>3 DEF ReadConfig, NothingShown, ReadCertified
  <2>4. CASE ReadOps
    BY <2>4 DEF ReadOps, vars, ReadCertified
  <2>5. CASE ReadPending
    <3>1. log' = log /\ view'.pending = pending[Watched]
      BY <2>5 DEF ReadPending, vars
    <3> QED
      BY <3>1, WatchedAssumption DEF ReadCertified, ExecutedCertified
  <2> QED
    BY <2>2, <2>3, <2>4, <2>5 DEF FeedNext, feedVars
<1> QED
  BY <1>2, <1>3, <1>4

\* When a refresh of the front end (load_gossip_data of src/gui/src/main.rs)
\* comes to show a push as completed, the lines of ops.log it shows with it
\* contain a true certificate for its proposal, although the two files are
\* read one after the other while any number of commands and daemons write.
THEOREM ShownCompletedCertifiedHolds == FeedSpec => ShownCompletedCertified
<1>1. FeedInv /\ [FeedNext]_feedVars =>
        [Loaded => \A p \in Proposal :
            view'.pending[p] = "completed" => IsCertified(ToSet(file), p)]_feedVars
  <2> SUFFICES ASSUME FeedInv, FeedNext, Loaded, NEW p \in Proposal,
                      view'.pending[p] = "completed"
               PROVE  IsCertified(ToSet(file), p)
    OBVIOUS
  <2>1. ReadOps
    BY DEF FeedNext, Loaded, ReadConfig, ReadPending, NothingShown
  <2>2. view'.pending = view.pending
    BY <2>1 DEF ReadOps
  <2> QED
    BY <2>1, <2>2 DEF FeedInv, Lines, ReadCertified, ReadOps
<1> QED
  BY <1>1, InitFeedInv, NextFeedInv, PTL DEF FeedSpec, ShownCompletedCertified

-----------------------------------------------------------------------------
(* The loop of compute_proposal_views.                                     *)

Scan == [proposed : SUBSET Proposal,
         votes : [Proposal -> [Node -> {"none", "yes", "no"}]],
         certs : [Proposal -> BOOLEAN]]

LEMMA ScanOpType ==
    ASSUME NEW scan \in Scan, NEW o \in SignedOp
    PROVE  ScanOp(scan, o) \in Scan
<1>1. o.body \in Body /\ o.author \in Node
  BY DEF SignedOp
<1>2. CASE o.body.kind = "proposal"
  <2>1. o.body.prop \in Proposal
    BY <1>1, <1>2 DEF Body, ProposalBody, VoteBody, CertBody, EventBody
  <2>2. ScanOp(scan, o) = [scan EXCEPT !.proposed = @ \cup {o.body.prop}]
    BY <1>2 DEF ScanOp
  <2> QED
    BY <2>1, <2>2 DEF Scan
<1>3. CASE o.body.kind = "vote"
  <2>1. o.body.prop \in Proposal
    BY <1>1, <1>3 DEF Body, ProposalBody, VoteBody, CertBody, EventBody
  <2>2. ScanOp(scan, o) = [scan EXCEPT !.votes[o.body.prop][o.author] =
                               IF o.body.yes THEN "yes" ELSE "no"]
    BY <1>3 DEF ScanOp
  <2>3. (IF o.body.yes THEN "yes" ELSE "no") \in {"none", "yes", "no"}
    OBVIOUS
  <2> DEFINE answer == IF o.body.yes THEN "yes" ELSE "no"
             votes == [scan.votes EXCEPT ![o.body.prop][o.author] = answer]
  <2>4. votes \in [Proposal -> [Node -> {"none", "yes", "no"}]]
    <3> HIDE DEF answer
    <3>1. answer \in {"none", "yes", "no"}
      BY <2>3 DEF answer
    <3> QED
      BY <1>1, <2>1, <3>1 DEF Scan
  <2>5. ScanOp(scan, o) = [proposed |-> scan.proposed, votes |-> votes,
                           certs |-> scan.certs]
    BY <2>2 DEF Scan
  <2> HIDE DEF votes
  <2> QED
    BY <2>4, <2>5 DEF Scan
<1>4. CASE o.body.kind = "cert"
  <2>1. o.body.prop \in Proposal /\ o.body.certified \in BOOLEAN
    BY <1>1, <1>4 DEF Body, ProposalBody, VoteBody, CertBody, EventBody
  <2> DEFINE certs == [scan.certs EXCEPT ![o.body.prop] = o.body.certified]
  <2>2. certs \in [Proposal -> BOOLEAN]
    <3> DEFINE answer == o.body.certified
    <3>1. answer \in BOOLEAN
      BY <2>1
    <3> HIDE DEF answer
    <3> QED
      BY <3>1 DEF Scan, answer
  <2>3. ScanOp(scan, o) = [proposed |-> scan.proposed, votes |-> scan.votes,
                           certs |-> certs]
    BY <1>4 DEF ScanOp, Scan
  <2> HIDE DEF certs
  <2> QED
    BY <2>2, <2>3 DEF Scan
<1>5. CASE o.body.kind = "event"
  BY <1>5 DEF ScanOp
<1> QED
  BY <1>1, <1>2, <1>3, <1>4, <1>5 DEF Body, ProposalBody, VoteBody, CertBody, EventBody

\* What the loop has found after each line.
LEMMA ScanRun ==
    ASSUME NEW s \in Seq(SignedOp)
    PROVE  \E r \in [0..Len(s) -> Scan] :
              /\ r[0] = NoScan
              /\ \A i \in 1..Len(s) : r[i] = ScanOp(r[i - 1], s[i])
              /\ r[Len(s)] = FoldLeft(ScanOp, NoScan, s)
<1> DEFINE step == [x \in Scan \X SignedOp |-> ScanOp(x[1], x[2])]
           Obeys(f) == f = [t \in SUBSET (DOMAIN s) |->
               IF t = {} THEN NoScan ELSE ScanOp(f[t \ {Max(t)}], s[Max(t)])]
           iter == CHOOSE f : Obeys(f)
<1>0. Len(s) \in Nat /\ DOMAIN s = 1..Len(s)
  OBVIOUS
<1>1. NoScan \in Scan
  BY DEF NoScan, Scan
<1>2. step \in [Scan \X SignedOp -> Scan]
  BY ScanOpType
<1>3. \A x \in Scan, o \in SignedOp : step[<<x, o>>] = ScanOp(x, o)
  OBVIOUS
<1> HIDE DEF step
<1>4. PICK f : Recursion(f, Scan, NoScan, s, step)
  BY <1>1, <1>2, FoldExists
<1>5. /\ f[{}] = NoScan
      /\ \A t \in SUBSET (DOMAIN s) :
            t # {} => f[t] = ScanOp(f[t \ {Max(t)}], s[Max(t)])
  <2>1. f \in [SUBSET (DOMAIN s) -> Scan] /\ f[{}] = NoScan
    BY <1>4 DEF Recursion
  <2>2. ASSUME NEW t \in SUBSET (DOMAIN s), t # {}
        PROVE  f[t] = ScanOp(f[t \ {Max(t)}], s[Max(t)])
    <3>1. Max(t) \in DOMAIN s
      BY <1>0, <2>2, MaxUpTo
    <3>2. s[Max(t)] \in SignedOp /\ f[t \ {Max(t)}] \in Scan
      BY <2>1, <3>1
    <3>3. f[t] = step[<<f[t \ {Max(t)}], s[Max(t)]>>]
      BY <1>4, <2>2 DEF Recursion
    <3> QED
      BY <1>3, <3>2, <3>3
  <2> QED
    BY <2>1, <2>2
<1>6. Obeys(f)
  BY <1>4, <1>5 DEF Recursion
<1>7. Obeys(iter)
  BY <1>6
<1>8. FoldLeft(ScanOp, NoScan, s) = iter[DOMAIN s]
  BY DEF FoldLeft, MapThenFoldSet
<1> HIDE DEF iter
<1>9. iter[{}] = f[{}]
  BY <1>5, <1>7
<1>10. \A t \in SUBSET (1..Len(s)) :
          t # {} /\ iter[t \ {Max(t)}] = f[t \ {Max(t)}] => iter[t] = f[t]
  BY <1>0, <1>5, <1>7
<1>11. iter[DOMAIN s] = f[DOMAIN s]
  BY <1>0, <1>9, <1>10, FoldsAgree
<1>12. PICK r : RunOver(r, f, Scan, NoScan, s, step)
  BY <1>1, <1>2, <1>4, FoldRuns
<1>13. r \in [0..Len(s) -> Scan] /\ r[0] = NoScan /\ r[Len(s)] = f[DOMAIN s]
  BY <1>12 DEF RunOver
<1>14. ASSUME NEW i \in 1..Len(s) PROVE r[i] = ScanOp(r[i - 1], s[i])
  <2>1. r[i - 1] \in Scan /\ s[i] \in SignedOp
    BY <1>0, <1>13
  <2>2. r[i] = step[<<r[i - 1], s[i]>>]
    BY <1>12 DEF RunOver
  <2> QED
    BY <1>3, <2>1, <2>2
<1> QED
  BY <1>8, <1>11, <1>12, <1>13, <1>14

IsVoteOf(o, p, m) == o.body.kind = "vote" /\ o.body.prop = p /\ o.author = m

Answer(o) == IF o.body.yes THEN "yes" ELSE "no"

\* What the loop knows after i lines: the proposals, the vote in the last
\* line with a vote, and a certificate.
FoundProposals(s, i, scan) ==
    scan.proposed = {p \in Proposal :
        \E j \in 1..i : s[j].body.kind = "proposal" /\ s[j].body.prop = p}

FoundVotes(s, i, scan) ==
    \A p \in Proposal, m \in Node :
        \/ /\ scan.votes[p][m] = "none"
           /\ \A j \in 1..i : ~IsVoteOf(s[j], p, m)
        \/ \E j \in 1..i :
              /\ IsVoteOf(s[j], p, m)
              /\ scan.votes[p][m] = Answer(s[j])
              /\ \A k \in 1..i : IsVoteOf(s[k], p, m) => k <= j

FoundCerts(s, i, scan) ==
    \A p \in Proposal : scan.certs[p] =>
        \E j \in 1..i : s[j].body.kind = "cert" /\ s[j].body.prop = p /\ s[j].body.certified

Found(s, i, scan) ==
    FoundProposals(s, i, scan) /\ FoundVotes(s, i, scan) /\ FoundCerts(s, i, scan)

\* The fields of the scan that a line changes.
LEMMA ScanOpFields ==
    ASSUME NEW scan \in Scan, NEW o \in SignedOp
    PROVE  LET next == ScanOp(scan, o) IN
           /\ next.proposed = scan.proposed \cup
                 (IF o.body.kind = "proposal" THEN {o.body.prop} ELSE {})
           /\ \A p \in Proposal, m \in Node :
                 next.votes[p][m] = IF IsVoteOf(o, p, m) THEN Answer(o) ELSE scan.votes[p][m]
           /\ \A p \in Proposal :
                 next.certs[p] = IF o.body.kind = "cert" /\ o.body.prop = p
                                 THEN o.body.certified ELSE scan.certs[p]
<1>1. o.body \in Body /\ o.author \in Node
  BY DEF SignedOp
<1>2. CASE o.body.kind = "proposal"
  <2>1. ScanOp(scan, o) = [scan EXCEPT !.proposed = @ \cup {o.body.prop}]
    BY <1>2 DEF ScanOp
  <2> QED
    BY <1>2, <2>1 DEF Scan, IsVoteOf
<1>3. CASE o.body.kind = "vote"
  <2>1. o.body.prop \in Proposal
    BY <1>1, <1>3 DEF Body, ProposalBody, VoteBody, CertBody, EventBody
  <2>2. ScanOp(scan, o) = [scan EXCEPT !.votes[o.body.prop][o.author] = Answer(o)]
    BY <1>3 DEF ScanOp, Answer
  <2>3. /\ ScanOp(scan, o).proposed = scan.proposed
        /\ ScanOp(scan, o).certs = scan.certs
        /\ ScanOp(scan, o).votes = [scan.votes EXCEPT ![o.body.prop][o.author] = Answer(o)]
    BY <2>2 DEF Scan
  <2>4. \A p \in Proposal, m \in Node :
            ScanOp(scan, o).votes[p][m] =
                IF p = o.body.prop /\ m = o.author THEN Answer(o) ELSE scan.votes[p][m]
    BY <1>1, <2>1, <2>3 DEF Scan
  <2> QED
    BY <1>3, <2>3, <2>4 DEF IsVoteOf
<1>4. CASE o.body.kind = "cert"
  <2>1. o.body.prop \in Proposal /\ o.body.certified \in BOOLEAN
    BY <1>1, <1>4 DEF Body, ProposalBody, VoteBody, CertBody, EventBody
  <2> DEFINE answer == o.body.certified
  <2>2. ScanOp(scan, o) = [scan EXCEPT !.certs[o.body.prop] = answer]
    BY <1>4 DEF ScanOp
  <2> HIDE DEF answer
  <2>3. /\ ScanOp(scan, o).proposed = scan.proposed
        /\ ScanOp(scan, o).votes = scan.votes
        /\ ScanOp(scan, o).certs = [scan.certs EXCEPT ![o.body.prop] = answer]
    BY <2>2 DEF Scan
  <2>4. \A p \in Proposal :
            ScanOp(scan, o).certs[p] = IF p = o.body.prop THEN answer ELSE scan.certs[p]
    BY <2>1, <2>3 DEF Scan
  <2>5. answer = o.body.certified
    BY DEF answer
  <2> QED
    BY <1>4, <2>3, <2>4, <2>5 DEF IsVoteOf
<1>5. CASE o.body.kind = "event"
  BY <1>5 DEF ScanOp, IsVoteOf
<1> QED
  BY <1>1, <1>2, <1>3, <1>4, <1>5 DEF Body, ProposalBody, VoteBody, CertBody, EventBody

LEMMA FoundStep ==
    ASSUME NEW s \in Seq(SignedOp), NEW i \in 1..Len(s), NEW scan \in Scan,
           Found(s, i - 1, scan)
    PROVE  Found(s, i, ScanOp(scan, s[i]))
<1> DEFINE next == ScanOp(scan, s[i])
           o == s[i]
<1>a. o \in SignedOp
  OBVIOUS
<1>0. o \in SignedOp /\ o.body \in Body
  BY <1>a DEF SignedOp
<1>1. /\ \A j : j \in 1..i <=> j \in 1..(i - 1) \/ j = i
      /\ \A j \in 1..i : j <= i
  OBVIOUS
<1>2. /\ next.proposed = scan.proposed \cup
             (IF o.body.kind = "proposal" THEN {o.body.prop} ELSE {})
      /\ \A p \in Proposal, m \in Node :
             next.votes[p][m] = IF IsVoteOf(o, p, m) THEN Answer(o) ELSE scan.votes[p][m]
      /\ \A p \in Proposal :
             next.certs[p] = IF o.body.kind = "cert" /\ o.body.prop = p
                             THEN o.body.certified ELSE scan.certs[p]
  BY <1>0, ScanOpFields
<1>3. o.body.kind = "proposal" => o.body.prop \in Proposal
  BY <1>0 DEF Body, ProposalBody, VoteBody, CertBody, EventBody
<1> HIDE DEF next
<1>4. FoundProposals(s, i, next)
  BY <1>1, <1>2, <1>3 DEF Found, FoundProposals
<1>5. FoundVotes(s, i, next)
  <2> SUFFICES ASSUME NEW p \in Proposal, NEW m \in Node
               PROVE  \/ /\ next.votes[p][m] = "none"
                         /\ \A j \in 1..i : ~IsVoteOf(s[j], p, m)
                      \/ \E j \in 1..i :
                            /\ IsVoteOf(s[j], p, m)
                            /\ next.votes[p][m] = Answer(s[j])
                            /\ \A k \in 1..i : IsVoteOf(s[k], p, m) => k <= j
    BY DEF FoundVotes
  <2>1. CASE IsVoteOf(o, p, m)
    BY <1>1, <1>2, <2>1
  <2>2. CASE ~IsVoteOf(o, p, m)
    <3>1. next.votes[p][m] = scan.votes[p][m]
      BY <1>2, <2>2
    <3>2. CASE /\ scan.votes[p][m] = "none"
               /\ \A j \in 1..(i - 1) : ~IsVoteOf(s[j], p, m)
      BY <1>1, <2>2, <3>1, <3>2
    <3>3. ASSUME NEW j \in 1..(i - 1), IsVoteOf(s[j], p, m),
                 scan.votes[p][m] = Answer(s[j]),
                 \A k \in 1..(i - 1) : IsVoteOf(s[k], p, m) => k <= j
          PROVE  /\ j \in 1..i
                 /\ next.votes[p][m] = Answer(s[j])
                 /\ \A k \in 1..i : IsVoteOf(s[k], p, m) => k <= j
      BY <1>1, <2>2, <3>1, <3>3
    <3> QED
      BY <3>2, <3>3 DEF Found, FoundVotes
  <2> QED
    BY <2>1, <2>2
<1>6. FoundCerts(s, i, next)
  BY <1>1, <1>2 DEF Found, FoundCerts
<1> QED
  BY <1>4, <1>5, <1>6 DEF Found, next

LEMMA ScanFinds ==
    ASSUME NEW s \in Seq(SignedOp)
    PROVE  /\ FoldLeft(ScanOp, NoScan, s) \in Scan
           /\ Found(s, Len(s), FoldLeft(ScanOp, NoScan, s))
<1>1. PICK r \in [0..Len(s) -> Scan] :
          /\ r[0] = NoScan
          /\ \A i \in 1..Len(s) : r[i] = ScanOp(r[i - 1], s[i])
          /\ r[Len(s)] = FoldLeft(ScanOp, NoScan, s)
  BY ScanRun
<1>2. Len(s) \in Nat
  OBVIOUS
<1> DEFINE good == {i \in 0..Len(s) : Found(s, i, r[i])}
<1>3. 0 \in good
  <2>1. \A j : ~(j \in 1..0)
    OBVIOUS
  <2>2. Found(s, 0, NoScan)
    BY <2>1 DEF Found, FoundProposals, FoundVotes, FoundCerts, NoScan
  <2> QED
    BY <1>1, <1>2, <2>2
<1>4. ASSUME NEW i \in 1..Len(s), i - 1 \in good PROVE i \in good
  <2>1. i - 1 \in 0..Len(s) /\ i \in 0..Len(s) /\ r[i - 1] \in Scan
    BY <1>2
  <2>2. Found(s, i - 1, r[i - 1])
    BY <1>4
  <2>3. r[i] = ScanOp(r[i - 1], s[i])
    BY <1>1
  <2> QED
    BY <2>1, <2>2, <2>3, FoundStep
<1> HIDE DEF good
<1>5. Len(s) \in good
  <2>1. 0..Len(s) \subseteq good
    BY <1>2, <1>3, <1>4, InductUpTo
  <2> QED
    BY <1>2, <2>1
<1>6. Len(s) \in 0..Len(s)
  BY <1>2
<1> QED
  BY <1>1, <1>5, <1>6 DEF good

-----------------------------------------------------------------------------
(* What compute_proposal_views makes of it.                                *)

\* The members counted are the voters ProposalStatus counts, hence at least
\* one, and as many of them are required.
LEMMA SameMembers ==
    ASSUME NEW s \in Seq(SignedOp), NEW cfg \in ConsensusConfig
    PROVE  LET members == Members(s, cfg)
               voters == AtLeastOne(Cardinality(members))
               over == (cfg.threshold * voters) \div Scale + 1
           IN  /\ members = Voters(Watched, ToSet(s), cfg)
               /\ members \subseteq Node /\ IsFiniteSet(members)
               /\ voters = Cardinality(members) /\ voters \in Nat
               /\ (IF over > voters THEN voters ELSE over) = RequiredYes(voters, cfg.threshold)
               /\ RequiredYes(voters, cfg.threshold) \in Nat
<1> DEFINE members == Members(s, cfg)
           n == Cardinality(members)
           voters == AtLeastOne(n)
<1>1. members = Voters(Watched, ToSet(s), cfg)
  BY DEF Members, Voters
<1>2. ToSet(s) \in SUBSET SignedOp
  BY DEF ToSet
<1>3. members \subseteq Node /\ IsFiniteSet(members) /\ n \in Nat \ {0}
  BY <1>1, <1>2, VotersFinite, WatchedAssumption
<1> HIDE DEF members, n
<1>4. voters = n
  BY <1>3 DEF AtLeastOne
<1>5. cfg.threshold \in 0..(Scale - 1) /\ Scale \in Nat \ {0}
  BY ConsensusAssumption DEF ConsensusConfig
<1>6. (cfg.threshold * n) \div Scale \in Nat
  <2>1. ASSUME NEW x \in Nat, NEW y \in Nat PROVE x * y \in Nat
    OBVIOUS
  <2>2. ASSUME NEW x \in Nat PROVE x \div Scale \in Nat
    BY <1>5
  <2>3. cfg.threshold \in Nat /\ n \in Nat
    BY <1>3, <1>5
  <2> QED
    BY <2>1, <2>2, <2>3
<1> DEFINE over == (cfg.threshold * n) \div Scale + 1
<1>7. (IF over > n THEN n ELSE over) = RequiredYes(n, cfg.threshold)
  BY <1>3 DEF RequiredYes
<1>8. RequiredYes(n, cfg.threshold) \in Nat
  BY <1>3, <1>6, <1>7
<1> QED
  BY <1>1, <1>3, <1>4, <1>7, <1>8 DEF members, n

LEMMA ViewsTyped ==
    ASSUME NEW s \in Seq(SignedOp), NEW cfg \in ConsensusConfig
    PROVE  LET views == ComputeProposalViews(s, cfg)
               scan == FoldLeft(ScanOp, NoScan, s)
               members == Voters(Watched, ToSet(s), cfg)
               required == RequiredYes(Cardinality(members), cfg.threshold)
               Count(p, decision) == Cardinality({m \in members : scan.votes[p][m] = decision})
           IN  /\ DOMAIN views = scan.proposed
               /\ \A p \in scan.proposed :
                     /\ views[p] \in ProposalView
                     /\ views[p].yes = Count(p, "yes")
                     /\ views[p].quorum = (Count(p, "yes") >= required)
                     /\ views[p].certified = scan.certs[p]
<1> DEFINE scan == FoldLeft(ScanOp, NoScan, s)
           members == Voters(Watched, ToSet(s), cfg)
           n == Cardinality(members)
           required == RequiredYes(n, cfg.threshold)
           Count(p, decision) == Cardinality({m \in members : scan.votes[p][m] = decision})
           View1(p) == [yes |-> Count(p, "yes"), no |-> Count(p, "no"), voters |-> n,
                       required |-> required, quorum |-> Count(p, "yes") >= required,
                       certified |-> scan.certs[p], expired |-> p \in expired]
<1>1. scan \in Scan
  BY ScanFinds
<1>2. IsFiniteSet(members) /\ n \in Nat /\ required \in Nat
  BY SameMembers
<1>3. ComputeProposalViews(s, cfg) = [p \in scan.proposed |-> View1(p)]
  BY SameMembers DEF ComputeProposalViews
<1> HIDE DEF scan, members, n, required
<1>4. \A p, decision : Count(p, decision) \in Nat
  <2> SUFFICES ASSUME NEW p, NEW decision PROVE Count(p, decision) \in Nat
    OBVIOUS
  <2>1. {m \in members : scan.votes[p][m] = decision} \subseteq members
    OBVIOUS
  <2>2. IsFiniteSet({m \in members : scan.votes[p][m] = decision})
    BY <1>2, <2>1, FS_Subset
  <2> QED
    BY <2>2, FS_CardinalityType
<1>5. ASSUME NEW p \in scan.proposed PROVE View1(p) \in ProposalView
  <2>1. scan.certs[p] \in BOOLEAN
    BY <1>1 DEF Scan
  <2>2. Count(p, "yes") \in Nat /\ Count(p, "no") \in Nat
    BY <1>4
  <2>3. (Count(p, "yes") >= required) \in BOOLEAN /\ (p \in expired) \in BOOLEAN
    OBVIOUS
  <2> HIDE DEF Count
  <2> QED
    BY <1>2, <2>1, <2>2, <2>3, Zenon DEF ProposalView
<1> QED
  BY <1>3, <1>5 DEF scan, members, n, required

ViewTyped ==
    /\ view = [pc |-> view.pc, config |-> view.config, pending |-> view.pending,
               proposals |-> view.proposals]
    /\ view.pc \in {"config", "pending", "shown"}
    /\ view.config \in ConsensusConfig
    /\ view.pending \in [Proposal -> Status]
    /\ DOMAIN view.proposals \subseteq Proposal
    /\ \A p \in DOMAIN view.proposals : view.proposals[p] \in ProposalView

LEMMA NothingShownTyped ==
    /\ NothingShown.config \in ConsensusConfig
    /\ NothingShown.pending \in [Proposal -> Status]
    /\ DOMAIN NothingShown.proposals = {}
<1>1. 0 \in 0..(Scale - 1)
  BY ConsensusAssumption
<1>2. DOMAIN <<>> = {}
  OBVIOUS
<1> QED
  BY <1>1, <1>2 DEF NothingShown, ConsensusConfig, Status

\* A refresh reads what has the right type and shows proposals with counts.
LEMMA ViewTypedStep ==
    ASSUME CertInv, Lines, ViewTyped, [FeedNext]_feedVars
    PROVE  ViewTyped'
<1>0. TypeOK
  BY DEF CertInv
<1>1. CASE UNCHANGED view
  BY <1>1 DEF ViewTyped
<1>2. CASE ReadConfig
  <2>1. config[Watched] \in ConsensusConfig
    BY <1>0, WatchedAssumption DEF TypeOK
  <2>2. NormalizeConfig(config[Watched]) \in ConsensusConfig
    BY <2>1, NormalizeType
  <2>3. view' = [pc |-> "config", config |-> NormalizeConfig(config[Watched]),
                 pending |-> NothingShown.pending, proposals |-> NothingShown.proposals]
    BY <1>2 DEF ReadConfig, NothingShown
  <2> HIDE DEF NothingShown
  <2> QED
    BY <2>2, <2>3, NothingShownTyped DEF ViewTyped
<1>3. CASE ReadPending
  <2>1. pending[Watched] \in [Proposal -> Status]
    BY <1>0, WatchedAssumption DEF TypeOK
  <2>2. view' = [pc |-> "pending", config |-> view.config,
                 pending |-> pending[Watched], proposals |-> view.proposals]
    BY <1>3 DEF ReadPending, ViewTyped
  <2> QED
    BY <2>1, <2>2 DEF ViewTyped
<1>4. CASE ReadOps
  <2> DEFINE views == ComputeProposalViews(file, view.config)
  <2>1. file \in Seq(SignedOp) /\ view.config \in ConsensusConfig
    BY DEF Lines, ViewTyped
  <2>2. /\ DOMAIN views = FoldLeft(ScanOp, NoScan, file).proposed
        /\ \A p \in DOMAIN views : views[p] \in ProposalView
    BY <2>1, ViewsTyped
  <2>3. DOMAIN views \subseteq Proposal
    BY <2>1, <2>2, ScanFinds DEF Scan
  <2>4. view' = [pc |-> "shown", config |-> view.config,
                 pending |-> view.pending, proposals |-> views]
    BY <1>4 DEF ReadOps, ViewTyped
  <2> HIDE DEF views
  <2> QED
    BY <2>2, <2>3, <2>4 DEF ViewTyped
<1> QED
  BY <1>1, <1>2, <1>3, <1>4 DEF FeedNext, feedVars

LEMMA FeedInvStarts == FeedInit => FeedInv /\ ViewTyped
  BY InitFeedInv, NothingShownTyped DEF FeedInit, NothingShown, ViewTyped

LEMMA FeedInvHolds == FeedSpec => [](FeedInv /\ ViewTyped)
<1>1. FeedInv /\ ViewTyped /\ [FeedNext]_feedVars => ViewTyped'
  BY ViewTypedStep DEF FeedInv
<1> QED
  BY <1>1, FeedInvStarts, NextFeedInv, PTL DEF FeedSpec

\* The lines of ops.log are always the operations of the log, whoever writes
\* them, and load_gossip_data and compute_proposal_views of
\* src/gui/src/main.rs fill the screen with values of their types.
THEOREM FeedTypeCorrect == FeedSpec => []FeedTypeOK
<1>1. FeedInv /\ ViewTyped => FeedTypeOK
  BY DEF FeedInv, Lines, ViewTyped, FeedTypeOK, View
<1> QED
  BY <1>1, FeedInvHolds, PTL

-----------------------------------------------------------------------------
(* The order of the lines.                                                 *)

\* Unless a line is written twice, a vote comes after the lines with smaller
\* numbers of its author.
Ordered(s) ==
    \A i, j \in DOMAIN s :
        i < j /\ s[j].body.kind = "vote" /\ s[i].author = s[j].author => s[i].seq < s[j].seq

FileOrder == OnceWritten => Ordered(file)

OrderInv == FeedInv /\ ViewTyped /\ VoteInv /\ AloneInv /\ FileOrder

\* A vote is written on top of what its author has said before.
LEMMA WriteLinesOrders ==
    ASSUME OneCommand, CertInv, VoteInv, AloneInv, Lines, Lines', FileOrder,
           Next, NEW o, file' = Append(file, o)
    PROVE  FileOrder'
<1> SUFFICES ASSUME OnceWritten' PROVE Ordered(file)'
  BY DEF FileOrder
<1> DEFINE n == Len(file)
<1>0. TypeOK
  BY DEF CertInv
<1>1. /\ n \in Nat /\ DOMAIN file = 1..n /\ DOMAIN file' = 1..(n + 1)
      /\ file'[n + 1] = o
      /\ \A i \in 1..n : file'[i] = file[i] /\ i # n + 1 /\ i \in 1..(n + 1)
      /\ o \in SignedOp
  <2>1. file \in Seq(SignedOp) /\ file' \in Seq(SignedOp)
    BY DEF Lines
  <2>2. n \in Nat /\ DOMAIN file = 1..n
    BY <2>1
  <2>3. Len(file') = n + 1 /\ DOMAIN file' = 1..(n + 1) /\ file'[n + 1] = o
    BY <2>1
  <2>4. o \in SignedOp
    BY <2>1, <2>2, <2>3
  <2>5. \A i \in 1..n : file'[i] = file[i]
    BY <2>1, <2>2
  <2> QED
    BY <2>2, <2>3, <2>4, <2>5
<1> HIDE DEF n
<1>2. OnceWritten
  BY <1>1 DEF OnceWritten
<1>3. o \notin log[Watched] /\ o \in log'[Watched]
  <2>1. \A i \in 1..n : file[i] # o
    BY <1>1 DEF OnceWritten
  <2> QED
    BY <1>1, <2>1 DEF Lines, ToSet
<1>4. Numbered(Watched, o)
  <2>1. PICK k \in Node : Grows(k)
    BY NextGrows
  <2>2. PICK x \in SignedOp : log' = [log EXCEPT ![k] = @ \cup {x}] /\ Numbered(k, x)
    BY <1>3, <2>1 DEF Grows
  <2>3. k = Watched /\ x = o
    BY <1>0, <1>3, <2>2, WatchedAssumption DEF TypeOK
  <2> QED
    BY <2>2, <2>3
<1>5. ASSUME o.body.kind = "vote", NEW i \in 1..n, file[i].author = o.author
      PROVE  file[i].seq < o.seq
  <2>1. file[i] \in log[Watched]
    BY <1>1 DEF Lines, ToSet
  <2> QED
    BY <1>0, <1>1, <1>3, <1>4, <1>5, <2>1, NewVoteIsLast, WatchedAssumption DEF AloneInv
<1>6. ASSUME NEW i \in 1..(n + 1), NEW j \in 1..(n + 1), i < j,
             file'[j].body.kind = "vote", file'[i].author = file'[j].author
      PROVE  file'[i].seq < file'[j].seq
  <2>1. i \in 1..n
    BY <1>1, <1>6
  <2>2. CASE j = n + 1
    BY <1>1, <1>5, <1>6, <2>1, <2>2
  <2>3. CASE j \in 1..n
    BY <1>1, <1>2, <1>6, <2>1, <2>3 DEF FileOrder, Ordered
  <2> QED
    BY <1>1, <2>2, <2>3
<1> QED
  BY <1>1, <1>6 DEF Ordered

LEMMA NextOrderInv ==
    ASSUME OneCommand, OrderInv, [FeedNext]_feedVars
    PROVE  OrderInv'
<1> USE DEF OrderInv
<1>1. FeedInv' /\ ViewTyped'
  BY NextFeedInv, ViewTypedStep DEF FeedInv
<1>2. [Next]_vars
  BY DEF FeedNext, ReadConfig, ReadPending, ReadOps, feedVars
<1>3. VoteInv' /\ AloneInv'
  BY <1>2, NextVoteInv, NextAlone DEF FeedInv
<1>4. FileOrder'
  <2>1. CASE UNCHANGED file
    BY <2>1 DEF FileOrder, OnceWritten, Ordered
  <2>2. ASSUME NEW o, Next, file' = Append(file, o) PROVE FileOrder'
    BY <1>1, <2>2, WriteLinesOrders DEF FeedInv
  <2> QED
    BY <2>1, <2>2 DEF FeedNext, WriteLines, ReadConfig, ReadPending, ReadOps, feedVars
<1> QED
  BY <1>1, <1>3, <1>4

\* The vote in the last line with one is the vote with the greatest number.
LEMMA LastVoteIsLatest ==
    ASSUME NEW s \in Seq(SignedOp), Ordered(s), NEW scan, FoundVotes(s, Len(s), scan),
           NEW p \in Proposal, NEW m \in Node
    PROVE  scan.votes[p][m] = "yes" <=> LatestVoteIsYes(ToSet(s), p, m)
<1>1. DOMAIN s = 1..Len(s) /\ Len(s) \in Nat
  OBVIOUS
<1>2. VoteOps(ToSet(s), p, m) = {s[i] : i \in {k \in 1..Len(s) : IsVoteOf(s[k], p, m)}}
  BY <1>1 DEF VoteOps, ToSet, IsVoteOf
<1>3. CASE /\ scan.votes[p][m] = "none"
           /\ \A j \in 1..Len(s) : ~IsVoteOf(s[j], p, m)
  BY <1>2, <1>3 DEF LatestVoteIsYes
<1>4. ASSUME NEW j \in 1..Len(s), IsVoteOf(s[j], p, m), scan.votes[p][m] = Answer(s[j]),
             \A k \in 1..Len(s) : IsVoteOf(s[k], p, m) => k <= j
      PROVE  scan.votes[p][m] = "yes" <=> LatestVoteIsYes(ToSet(s), p, m)
  <2>1. s[j] \in VoteOps(ToSet(s), p, m)
    BY <1>2, <1>4
  <2>2. \A k \in 1..Len(s) : s[k].seq \in Nat
    <3>1. \A o \in SignedOp : o.seq \in Nat
      BY BoundAssumption DEF SignedOp
    <3> QED
      BY <3>1
  <2>3. ASSUME NEW k \in 1..Len(s), IsVoteOf(s[k], p, m), k # j
        PROVE  s[k].seq < s[j].seq
    <3>1. k < j
      BY <1>4, <2>3
    <3> QED
      BY <1>1, <1>4, <2>3, <3>1 DEF Ordered, IsVoteOf
  <2>4. scan.votes[p][m] = "yes" <=> s[j].body.yes
    BY <1>4 DEF Answer
  <2>5. \A x \in VoteOps(ToSet(s), p, m) : x = s[j] \/ x.seq < s[j].seq
    BY <1>2, <2>3
  <2>6. \A x \in VoteOps(ToSet(s), p, m) : x.seq \in Nat
    BY <1>2, <2>2
  <2> QED
    BY <2>1, <2>4, <2>5, <2>6 DEF LatestVoteIsYes
<1> QED
  BY <1>3, <1>4 DEF FoundVotes

\* What a refresh makes of lines in this order.
LEMMA OrderedViews ==
    ASSUME NEW s \in Seq(SignedOp), Ordered(s), NEW cfg \in ConsensusConfig
    PROVE  LET views == ComputeProposalViews(s, cfg)
               S == ToSet(s)
           IN  /\ DOMAIN views = {p \in Proposal : ProposalOps(S, p) # {}}
               /\ \A p \in DOMAIN views :
                     /\ views[p].yes = Cardinality(YesVoters(Watched, S, p, cfg))
                     /\ views[p].quorum = HasQuorum(Watched, S, p, cfg)
                     /\ views[p].certified => IsCertified(S, p)
<1> DEFINE views == ComputeProposalViews(s, cfg)
           S == ToSet(s)
           scan == FoldLeft(ScanOp, NoScan, s)
           members == Voters(Watched, S, cfg)
           Count(p) == Cardinality({m \in members : scan.votes[p][m] = "yes"})
<1>1. scan \in Scan /\ FoundProposals(s, Len(s), scan) /\ FoundVotes(s, Len(s), scan)
      /\ FoundCerts(s, Len(s), scan)
  BY ScanFinds DEF Found
<1>2. S = {s[i] : i \in 1..Len(s)}
  BY DEF ToSet
<1>3. members \subseteq Node
  BY SameMembers
<1>4. /\ DOMAIN views = scan.proposed
      /\ \A p \in scan.proposed :
            /\ views[p].yes = Count(p)
            /\ views[p].quorum =
                  (Count(p) >= RequiredYes(Cardinality(members), cfg.threshold))
            /\ views[p].certified = scan.certs[p]
  BY ViewsTyped
<1> HIDE DEF views, S, scan
<1>5. scan.proposed = {p \in Proposal : ProposalOps(S, p) # {}}
  BY <1>1, <1>2 DEF FoundProposals, ProposalOps
<1>6. ASSUME NEW p \in Proposal PROVE Count(p) = Cardinality(YesVoters(Watched, S, p, cfg))
  <2>1. \A m \in members : scan.votes[p][m] = "yes" <=> LatestVoteIsYes(S, p, m)
    BY <1>1, <1>3, LastVoteIsLatest DEF S
  <2>2. {m \in members : scan.votes[p][m] = "yes"} = YesVoters(Watched, S, p, cfg)
    BY <2>1 DEF YesVoters
  <2> QED
    BY <2>2
<1>7. ASSUME NEW p \in Proposal, scan.certs[p] PROVE IsCertified(S, p)
  BY <1>1, <1>2, <1>7 DEF FoundCerts, IsCertified, CertOps
<1>8. ASSUME NEW p \in DOMAIN views
      PROVE  /\ views[p].yes = Cardinality(YesVoters(Watched, S, p, cfg))
             /\ views[p].quorum = HasQuorum(Watched, S, p, cfg)
             /\ views[p].certified => IsCertified(S, p)
  <2>1. p \in scan.proposed /\ p \in Proposal
    BY <1>4, <1>5
  <2> QED
    BY <1>4, <1>6, <1>7, <2>1 DEF HasQuorum
<1> QED
  BY <1>4, <1>5, <1>8 DEF views, S

\* compute_proposal_views of src/gui/src/main.rs, which lets a later line
\* replace an earlier one, comes to the votes and the quorum ProposalStatus
\* of src/gossip/consensus.go computes from sequence numbers, and calls no
\* proposal certified that is not, whenever no line of ops.log is written
\* twice and a repository runs one command at a time.
THEOREM ViewAgreesHolds == OneCommand => (FeedSpec => ViewAgrees)
<1> SUFFICES ASSUME OneCommand PROVE FeedSpec => ViewAgrees
  OBVIOUS
<1>1. FeedInit => OrderInv
  <2> SUFFICES ASSUME FeedInit PROVE OrderInv
    OBVIOUS
  <2>1. FeedInv /\ ViewTyped /\ VoteInv /\ AloneInv
    BY FeedInvStarts, InitVoteInv DEF FeedInit
  <2>2. DOMAIN file = {}
    BY DEF FeedInit
  <2> QED
    BY <2>1, <2>2 DEF OrderInv, FileOrder, Ordered
<1>2. OrderInv /\ [FeedNext]_feedVars => OrderInv'
  BY NextOrderInv
<1> DEFINE Agrees ==
             LET S == ToSet(file)
                 cfg == view.config
             IN  /\ DOMAIN view'.proposals = {p \in Proposal : ProposalOps(S, p) # {}}
                 /\ \A p \in DOMAIN view'.proposals :
                       LET shown == view'.proposals[p] IN
                       /\ shown.yes = Cardinality(YesVoters(Watched, S, p, cfg))
                       /\ shown.quorum = HasQuorum(Watched, S, p, cfg)
                       /\ shown.certified => IsCertified(S, p)
<1>3. OrderInv /\ [FeedNext]_feedVars => [Loaded /\ OnceWritten => Agrees]_feedVars
  <2> SUFFICES ASSUME OrderInv, FeedNext, Loaded, OnceWritten PROVE Agrees
    OBVIOUS
  <2>1. ReadOps
    BY DEF FeedNext, Loaded, ReadConfig, ReadPending, NothingShown
  <2>2. file \in Seq(SignedOp) /\ Ordered(file) /\ view.config \in ConsensusConfig
    BY DEF OrderInv, FeedInv, Lines, ViewTyped, FileOrder
  <2>3. view'.proposals = ComputeProposalViews(file, view.config)
    BY <2>1 DEF ReadOps, OrderInv, ViewTyped
  <2> DEFINE cfg == view.config
             S == ToSet(file)
             views == ComputeProposalViews(file, cfg)
  <2>4. /\ DOMAIN views = {p \in Proposal : ProposalOps(S, p) # {}}
        /\ \A p \in DOMAIN views :
              /\ views[p].yes = Cardinality(YesVoters(Watched, S, p, cfg))
              /\ views[p].quorum = HasQuorum(Watched, S, p, cfg)
              /\ views[p].certified => IsCertified(S, p)
    BY <2>2, OrderedViews
  <2>5. view'.proposals = views
    BY <2>3
  <2> HIDE DEF views
  <2> QED
    BY <2>4, <2>5
<1> HIDE DEF Agrees
<1>4. FeedSpec => [][Loaded /\ OnceWritten => Agrees]_feedVars
  BY <1>1, <1>2, <1>3, PTL DEF FeedSpec
<1> QED
  BY <1>4, PTL DEF ViewAgrees, Agrees
=============================================================================
