------------------------------ MODULE GuiFeed ------------------------------
(***************************************************************************)
(* What the front end shows of one repository while commands and a daemon  *)
(* work on it (src/gui/src/main.rs).  A refresh reads consensus.json,      *)
(* pending_pushes.json and ops.log one after the other, under no lock, and *)
(* then counts the votes in the order of the lines, where ProposalStatus   *)
(* of the commands looks at sequence numbers.                              *)
(*                                                                         *)
(* Identity, peers and the text of operations are left out: they are shown *)
(* as they are read.                                                       *)
(***************************************************************************)
EXTENDS PushQueue, SequencesExt

CONSTANT Watched   \* the repository on the screen

ASSUME WatchedAssumption == Watched \in Node

VARIABLES
    file,   \* the lines of ops.log of Watched
    view    \* VcsGuiApp.data, and what the refresh in progress has read of it

feedVars == <<vars, file, view>>

\* pc: "shown", or how far the refresh in progress is.  Nobody looks at the
\* screen during a refresh, so what was shown before need not be kept.
View == [pc : {"config", "pending", "shown"}, config : ConsensusConfig,
         pending : [Proposal -> Status]]

NothingShown == [pc |-> "shown", config |-> [threshold |-> 0, members |-> {}],
                 pending |-> [p \in Proposal |-> "none"], proposals |-> <<>>]

ProposalView == [yes : Nat, no : Nat, voters : Nat, required : Nat,
                 quorum : BOOLEAN, certified : BOOLEAN, expired : BOOLEAN]

-----------------------------------------------------------------------------
(* compute_proposal_views                                                  *)

\* The three maps the loop over the operations fills.
NoScan == [proposed |-> {},
           votes |-> [p \in Proposal |-> [m \in Node |-> "none"]],
           certs |-> [p \in Proposal |-> FALSE]]

\* Mutant of ScanOp: the first vote of an author stays (or_insert).
ScanFirstVote(scan, o) ==
    CASE o.body.kind = "proposal" ->
            [scan EXCEPT !.proposed = @ \cup {o.body.prop}]
      [] o.body.kind = "vote" ->
            [scan EXCEPT !.votes[o.body.prop][o.author] =
                IF @ # "none" THEN @ ELSE IF o.body.yes THEN "yes" ELSE "no"]
      [] o.body.kind = "cert" ->
            [scan EXCEPT !.certs[o.body.prop] = o.body.certified]
      [] OTHER -> scan

\* A later line replaces what an earlier one said of the same key.
ScanOp(scan, o) ==
    CASE o.body.kind = "proposal" ->
            [scan EXCEPT !.proposed = @ \cup {o.body.prop}]
      [] o.body.kind = "vote" ->
            [scan EXCEPT !.votes[o.body.prop][o.author] =
                IF o.body.yes THEN "yes" ELSE "no"]
      [] o.body.kind = "cert" ->
            [scan EXCEPT !.certs[o.body.prop] = o.body.certified]
      [] OTHER -> scan

Members(ops, cfg) ==
    IF cfg.members = {} THEN {Watched} \cup {o.author : o \in ToSet(ops)} ELSE cfg.members

AtLeastOne(k) == IF k < 1 THEN 1 ELSE k

ComputeProposalViews(ops, cfg) ==
    LET scan == FoldLeft(ScanOp, NoScan, ops)
        members == Members(ops, cfg)
        voters == AtLeastOne(Cardinality(members))
        over == (cfg.threshold * voters) \div Scale + 1
        required == IF over > voters THEN voters ELSE over
        Count(p, decision) == Cardinality({m \in members : scan.votes[p][m] = decision})
    IN [p \in scan.proposed |->
           [yes |-> Count(p, "yes"), no |-> Count(p, "no"), voters |-> voters,
            required |-> required, quorum |-> Count(p, "yes") >= required,
            certified |-> scan.certs[p], expired |-> p \in expired]]

-----------------------------------------------------------------------------
(* load_gossip_data, as a part of refresh.                                 *)

ReadConfig ==
    /\ view.pc = "shown"
    /\ view' = [NothingShown EXCEPT !.pc = "config",
                                    !.config = NormalizeConfig(config[Watched])]
    /\ UNCHANGED <<vars, file>>

ReadPending ==
    /\ view.pc = "config"
    /\ view' = [view EXCEPT !.pc = "pending", !.pending = pending[Watched]]
    /\ UNCHANGED <<vars, file>>

\* read_ops_log, and compute_proposal_views of what was read.
ReadOps ==
    /\ view.pc = "pending"
    /\ view' = [view EXCEPT !.pc = "shown",
                            !.proposals = ComputeProposalViews(file, view.config)]
    /\ UNCHANGED <<vars, file>>

-----------------------------------------------------------------------------
(* Lines of ops.log.                                                       *)

\* What SyncPeer of command c has just written, a line it did not know that
\* another process wrote since it was started included.
Pulled(c) ==
    IF cmd[c].pc = "sync" /\ Home[c] = Watched THEN cmd'[c].mem \ cmd[c].mem ELSE {}

\* Mutant of NewLines: an operation of the repository's own is indexed in
\* memory and not written.
NewLinesPulled == UNION {Pulled(c) : c \in Proc}

NewLines == (log'[Watched] \ log[Watched]) \cup UNION {Pulled(c) : c \in Proc}

WriteLines ==
    \/ NewLines = {} /\ UNCHANGED file
    \/ \E o \in NewLines : file' = Append(file, o)

FeedInit ==
    /\ Init
    /\ file = <<>>
    /\ view = NothingShown

FeedNext ==
    \/ Next /\ WriteLines /\ UNCHANGED view
    \/ ReadConfig
    \/ ReadPending
    \/ ReadOps

FeedSpec == FeedInit /\ [][FeedNext]_feedVars

-----------------------------------------------------------------------------
(* Properties.                                                             *)

\* The lines of ops.log are the operations of the log, and the screen shows
\* proposals with counts.
FeedTypeOK ==
    /\ file \in Seq(SignedOp)
    /\ ToSet(file) = log[Watched]
    /\ [f \in {"pc", "config", "pending"} |-> view[f]] \in View
    /\ DOMAIN view.proposals \subseteq Proposal
    /\ \A p \in DOMAIN view.proposals : view.proposals[p] \in ProposalView

Loaded == view.pc = "pending" /\ view'.pc = "shown"

\* When the front end comes to show a push as completed, a true certificate
\* for it is among the operations it shows, whatever commands and daemons
\* wrote between reading one file and the next.
ShownCompletedCertified ==
    [][Loaded => \A p \in Proposal :
          view'.pending[p] = "completed" => IsCertified(ToSet(file), p)]_feedVars

\* No line of ops.log is written twice.
OnceWritten == \A i, j \in DOMAIN file : file[i] = file[j] => i = j

\* The front end, which counts in the order of the lines, comes to the votes
\* and the quorum that ProposalStatus computes from the same operations by
\* their numbers, and never calls a proposal certified that is not.
ViewAgrees ==
    [][Loaded /\ OnceWritten =>
          LET S == ToSet(file)
              cfg == view.config
          IN  /\ DOMAIN view'.proposals = {p \in Proposal : ProposalOps(S, p) # {}}
              /\ \A p \in DOMAIN view'.proposals :
                    LET shown == view'.proposals[p] IN
                    /\ shown.yes = Cardinality(YesVoters(Watched, S, p, cfg))
                    /\ shown.quorum = HasQuorum(Watched, S, p, cfg)
                    /\ shown.certified => IsCertified(S, p)]_feedVars
=============================================================================
