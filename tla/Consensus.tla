----------------------------- MODULE Consensus -----------------------------
(***************************************************************************)
(* Proposals, votes and certificates as operations of the log, and the     *)
(* quorum rule ProposalStatus computes from them (src/gossip/consensus.go).*)
(*                                                                         *)
(* A proposal is named by its generated ID, which no other proposal has;   *)
(* all proposals are for one ref, and an oid stands for a commit.  Time    *)
(* stamps, epochs (which nothing compares) and old OIDs are left out.      *)
(***************************************************************************)
EXTENDS OpLog, Integers

CONSTANTS
    MaxProposals,  \* BOUND: proposals that are made
    MaxCommits,    \* BOUND: commits that are made
    Scale          \* thresholds are multiples of 1/Scale, without rounding

ASSUME ConsensusAssumption ==
    /\ MaxProposals \in Nat
    /\ MaxCommits \in Nat
    /\ Scale \in Nat \ {0}

Proposal == 1..MaxProposals
OID == 0..MaxCommits   \* 0 is no commit: an unborn branch

ProposalBody == [kind : {"proposal"}, prop : Proposal, oid : OID]
VoteBody == [kind : {"vote"}, prop : Proposal, yes : BOOLEAN]
CertBody == [kind : {"cert"}, prop : Proposal, threshold : 0..(Scale - 1),
             totalVoters : Nat, yesVoters : SUBSET Node, certified : BOOLEAN]
EventBody == [kind : {"event"}, oid : OID]   \* git.commit, git.push

Body == ProposalBody \cup VoteBody \cup CertBody \cup EventBody

SignedOp == [author : Node, seq : 1..MaxOps, body : Body]

\* No members: voters are discovered from the log.
ConsensusConfig == [threshold : 0..(Scale - 1), members : SUBSET Node]

\* A threshold of zero, in the file or on the command line, is taken for
\* "not set".
NormalizeConfig(cfg) ==
    IF cfg.threshold = 0 THEN [cfg EXCEPT !.threshold = Scale \div 2] ELSE cfg

-----------------------------------------------------------------------------
(* ProposalStatus for p, computed by repository n, whose store holds the   *)
(* operations S, under the configuration cfg.                              *)

ProposalOps(S, p) == {o \in S : o.body.kind = "proposal" /\ o.body.prop = p}

VoteOps(S, p, m) ==
    {o \in S : o.body.kind = "vote" /\ o.body.prop = p /\ o.author = m}

CertOps(S, p) == {o \in S : o.body.kind = "cert" /\ o.body.prop = p}

\* The author of the proposal is one of the authors in S.
Voters(n, S, cfg) ==
    IF cfg.members # {} THEN cfg.members ELSE {n} \cup {o.author : o \in S}

\* Mutant of LatestVoteIsYes: any vote counts, not the author's latest.
AnyVoteIsYes(S, p, m) == \E o \in VoteOps(S, p, m) : o.body.yes

LatestVoteIsYes(S, p, m) ==
    \E o \in VoteOps(S, p, m) :
        /\ o.body.yes
        /\ \A x \in VoteOps(S, p, m) : x.seq <= o.seq

YesVoters(n, S, p, cfg) == {m \in Voters(n, S, cfg) : LatestVoteIsYes(S, p, m)}

\* Mutant of RequiredYes: rounded up instead of one more than rounded down.
RequiredYesRoundedUp(count, threshold) ==
    (threshold * count + Scale - 1) \div Scale

\* calculateRequiredYes
RequiredYes(count, threshold) ==
    LET required == (threshold * count) \div Scale + 1
    IN  IF count = 0 THEN 1 ELSE IF required > count THEN count ELSE required

HasQuorum(n, S, p, cfg) ==
    Cardinality(YesVoters(n, S, p, cfg)) >=
        RequiredYes(Cardinality(Voters(n, S, cfg)), cfg.threshold)

IsCertified(S, p) == \E o \in CertOps(S, p) : o.body.certified

\* The snapshot CertifyProposal signs.
Certificate(n, S, p, cfg) ==
    [kind |-> "cert", prop |-> p, threshold |-> cfg.threshold,
     totalVoters |-> Cardinality(Voters(n, S, cfg)),
     yesVoters |-> YesVoters(n, S, p, cfg),
     certified |-> HasQuorum(n, S, p, cfg)]

\* The quorum rule as documented: the ratio of yes votes is strictly greater
\* than the threshold.
RatioExceeds(yes, total, threshold) == yes * Scale > threshold * total
=============================================================================
