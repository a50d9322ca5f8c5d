---------------------------- MODULE GuiCommands ----------------------------
(***************************************************************************)
(* The command lines the front end builds from its forms                   *)
(* (src/gui/src/main.rs), and how vcs takes them apart (src/main.go).      *)
(*                                                                         *)
(* An argument is a string, and what people type is any string, flags and  *)
(* numbers that are none included.  "" is a field left blank.              *)
(***************************************************************************)
EXTENDS SequencesExt

CONSTANTS
    Dashed,   \* the texts that begin with a dash and have one more character
    Values    \* Values[f]: the numbers, or times, that the flag f can be set to

\* A form that is incomplete gives no command line, only a message.
Rejected == <<>>

\* A flag that is only there under a condition.
When(condition, args) == IF condition THEN args ELSE <<>>

-----------------------------------------------------------------------------
(* vcs commands.                                                           *)

PathActionArgs(command, path) == IF path = "" THEN Rejected ELSE <<command, path>>

CommitArgs(message, all) ==
    IF message = "" THEN Rejected
    ELSE <<"commit">> \o When(all, <<"-a">>) \o <<"-m", message>>

AmendArgs(message) ==
    IF message = "" THEN <<"amend", "--no-edit">> ELSE <<"amend", "-m", message>>

CheckoutArgs(target) == IF target = "" THEN Rejected ELSE <<"checkout", target>>

\* Mutant of RevertArgs: the flag comes after the commit.
RevertArgsFlagLast(target, noCommit) ==
    IF target = "" THEN Rejected
    ELSE <<"revert", target>> \o When(noCommit, <<"--no-commit">>)

RevertArgs(target, noCommit) ==
    IF target = "" THEN Rejected
    ELSE <<"revert">> \o When(noCommit, <<"--no-commit">>) \o <<target>>

PushArgs(immediate) == <<"push">> \o When(immediate, <<"--no-auto-proposal">>)

SquashArgs(last, from, message, allowDirty) ==
    IF message = "" \/ (last = "") = (from = "") THEN Rejected
    ELSE <<"squash">> \o (IF last # "" THEN <<"--last", last>> ELSE <<"--from", from>>)
            \o When(allowDirty, <<"--allow-dirty">>) \o <<"-m", message>>

ConsensusConfigArgs(threshold, members, clear) ==
    IF threshold = "" THEN Rejected
    ELSE <<"consensus", "config", "--threshold", threshold>>
            \o When(clear, <<"--clear-members">>)
            \o When(~clear /\ members # "", <<"--members", members>>)

AddPeerArgs(url) == IF url = "" THEN Rejected ELSE <<"peer", "add", url>>

ProposeArgs(reference, new, old, epoch, ttl) ==
    <<"consensus", "propose", "--ref", reference, "--new", new>>
        \o When(old # "", <<"--old", old>>)
        \o When(epoch # "", <<"--epoch", epoch>>)
        \o When(ttl # "", <<"--ttl", ttl \o "h">>)

VoteArgs(proposal, yes) ==
    <<"consensus", "vote", "--proposal", proposal, IF yes THEN "--yes" ELSE "--no">>

CertifyArgs(proposal) == <<"consensus", "certify", "--proposal", proposal>>

ConsensusStatusArgs(proposal) == <<"consensus", "status", "--proposal", proposal>>

-----------------------------------------------------------------------------
(* git commands.                                                           *)

MergeStartArgs(target) == IF target = "" THEN Rejected ELSE <<"merge", target>>

ConflictResolutionArgs(strategy, path) ==
    IF path = "" THEN Rejected ELSE <<"checkout", strategy, "--", path>>

GitAddPathArgs(path) == IF path = "" THEN Rejected ELSE <<"add", "--", path>>

MergeCommitArgs(message) == IF message = "" THEN Rejected ELSE <<"commit", "-m", message>>

RebaseArgs(onto, autosquash, autostash, merges) ==
    IF onto = "" THEN Rejected
    ELSE <<"rebase">> \o When(autosquash, <<"--autosquash">>)
            \o When(autostash, <<"--autostash">>)
            \o When(merges, <<"--rebase-merges">>) \o <<onto>>

InteractiveRebaseArgs(onto, autosquash, autostash, merges) ==
    LET args == RebaseArgs(onto, autosquash, autostash, merges)
    IN  IF args = Rejected THEN Rejected ELSE InsertAt(args, 2, "-i")

CherryPickArgs(refs, noCommit) ==
    IF refs = <<>> THEN Rejected
    ELSE <<"cherry-pick">> \o When(noCommit, <<"--no-commit">>) \o refs

ResetArgs(target, mode, confirmed) ==
    IF target = "" \/ (mode = "--hard" /\ ~confirmed) THEN Rejected
    ELSE <<"reset", mode, target>>

-----------------------------------------------------------------------------
(* How vcs reads its arguments: the flag sets of the commands.             *)

HistoryFlags ==
    [commit |-> [switches |-> {"-a", "--allow-empty"}, valued |-> {"-m"}],
     amend |-> [switches |-> {"--no-edit", "--all", "--allow-empty"}, valued |-> {"-m"}],
     revert |-> [switches |-> {"--no-commit"}, valued |-> {}]]

SquashFlags ==
    [squash |-> [switches |-> {"--allow-dirty"}, valued |-> {"--last", "--from", "-m"}]]

SyncFlags == [sync |-> [switches |-> {}, valued |-> {"--peer", "--limit", "--rounds"}]]

ConsensusFlags ==
    [propose |-> [switches |-> {},
                  valued |-> {"--ref", "--old", "--new", "--epoch", "--ttl", "--id"}],
     vote |-> [switches |-> {"--yes", "--no"}, valued |-> {"--proposal"}],
     certify |-> [switches |-> {"--force"}, valued |-> {"--proposal"}],
     status |-> [switches |-> {}, valued |-> {"--proposal"}],
     config |-> [switches |-> {"--clear-members"}, valued |-> {"--threshold", "--members"}]]

WithFlags ==
    DOMAIN HistoryFlags \cup DOMAIN SquashFlags \cup DOMAIN SyncFlags
        \cup DOMAIN ConsensusFlags

FlagSet(name) ==
    CASE name \in DOMAIN HistoryFlags -> HistoryFlags[name]
      [] name \in DOMAIN SquashFlags -> SquashFlags[name]
      [] name \in DOMAIN SyncFlags -> SyncFlags[name]
      [] name \in DOMAIN ConsensusFlags -> ConsensusFlags[name]

ASSUME FlagAssumption ==
    /\ \A name \in WithFlags : FlagSet(name).switches \cup FlagSet(name).valued \subseteq Dashed
    /\ DOMAIN Values = {"--last", "--limit", "--rounds", "--epoch", "--ttl", "--threshold"}

\* Other flags take every text.
Parses(flag, value) == flag \in DOMAIN Values => value \in Values[flag]

\* A flag that is given again has its last value; one that does not parse is
\* not forgotten.
SetFlag(set, flag, value) ==
    {p \in set : p[1] # flag \/ ~Parses(p[1], p[2])} \cup {<<flag, value>>}

\* Package flag stops at the first argument that is none.  A text with a dash
\* that is not in the flag set is kept as an argument here: see Fails.
ReadFlag(s, arg, flags) ==
    IF s.flag # "" THEN [s EXCEPT !.set = SetFlag(@, s.flag, arg), !.flag = ""]
    ELSE IF s.rest # <<>> \/ arg \notin flags.switches \cup flags.valued
         THEN [s EXCEPT !.rest = Append(@, arg)]
    ELSE IF arg \in flags.valued THEN [s EXCEPT !.flag = arg]
    ELSE [s EXCEPT !.set = SetFlag(@, arg, "true")]

\* Which flags are set to what, what is left, and the flag without a value.
ReadFlags(args, flags) ==
    LET Step(s, arg) == ReadFlag(s, arg, flags)
    IN  FoldLeft(Step, [set |-> {}, rest |-> <<>>, flag |-> ""], args)

PushFlags == {"--process-pending", "--list-pending", "--no-auto-proposal"}

\* consumeExactFlag finds the flags of push anywhere, and takes them out.
Without(args, flags) ==
    FlattenSeq([i \in DOMAIN args |-> IF args[i] \in flags THEN <<>> ELSE <<args[i]>>])

CommandName(args) == IF args[1] = "consensus" THEN args[2] ELSE args[1]

Understand(args) ==
    LET name == CommandName(args)
        rest == SubSeq(args, IF args[1] = "consensus" THEN 3 ELSE 2, Len(args))
    IN  CASE name \in WithFlags -> ReadFlags(rest, FlagSet(name))
          [] name = "push" ->
                [set |-> {<<f, "true">> : f \in ToSet(rest) \cap PushFlags},
                 rest |-> Without(rest, PushFlags), flag |-> ""]
          [] OTHER -> [set |-> {}, rest |-> rest, flag |-> ""]

\* The commands of a flag set take no arguments, only revert takes a commit.
Expected(name) == IF name = "revert" THEN 1 ELSE 0

\* What vcs, called with args, reports as an error before it does anything,
\* having read s: a flag without a value, or with one that is no number; an
\* argument too many or too few; or one with a dash.  Package flag takes such
\* an argument for a flag, known (in another spelling) or unknown, or for the
\* end of the flags, so it is none, and revert is left without its commit.
Fails(args, s) ==
    /\ CommandName(args) \in WithFlags
    /\ \/ s.flag # ""
       \/ \E p \in s.set : ~Parses(p[1], p[2])
       \/ Len(s.rest) # Expected(CommandName(args))
       \/ s.rest # <<>> /\ s.rest[1] \in Dashed
=============================================================================
