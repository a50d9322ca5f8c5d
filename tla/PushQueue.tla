----------------------------- MODULE PushQueue -----------------------------
(***************************************************************************)
(* Pushes that wait for consensus: vcs push, vcs sync and vcs push         *)
(* --process-pending, the commands that vote, certify and configure, and   *)
(* pending_pushes.json (src/main.go, src/gossip/pending.go, consensus.go). *)
(*                                                                         *)
(* A command is a process that reads ops.log once, into mem, and writes    *)
(* through it; it may die between any two steps.  Logs replicate as        *)
(* ReplicatedOpLog says, which GossipSync implements.  git is external: a  *)
(* push sends the branch as it is then, and may be rejected.               *)
(***************************************************************************)
EXTENDS Consensus

CONSTANTS
    Proc,            \* processes that run vcs commands
    Home,            \* Home[c] is the repository of process c
    Pushers,         \* processes that push and sync; all vote, certify, configure
    Configs,         \* configurations people may ask for
    MaxUserOps,      \* BOUND: votes, certificates and configurations by hand
    MaxSaveErrors,   \* BOUND: statuses that processPendingPushes fails to save
    AllowImmediate   \* whether people use --no-auto-proposal

ASSUME ProcAssumption ==
    /\ Home \in [Proc -> Node]
    /\ Pushers \subseteq Proc
    /\ Configs \subseteq ConsensusConfig
    /\ MaxUserOps \in Nat
    /\ MaxSaveErrors \in Nat
    /\ AllowImmediate \in BOOLEAN

VARIABLES
    log,      \* log[n]: the operations in ops.log of repository n
    config,   \* config[n]: consensus.json
    pending,  \* pending[n][p]: status of p in pending_pushes.json, or "none"
    head,     \* head[n]: the branch people work on
    remote,   \* the branch of the remote repository
    expired,  \* proposals whose time to live is over
    cmd,      \* cmd[c]: the command process c is running
    userOps,  \* bounded by MaxUserOps
    saveErrors  \* bounded by MaxSaveErrors

vars == <<log, config, pending, head, remote, expired, cmd, userOps, saveErrors>>

\* mem: Store.ops; todo: what is left of the list processPendingPushes made;
\* cur: the push at hand, or the proposal just made.
Command ==
    [pc   : {"idle", "vote", "queue", "sync", "process", "certify", "push",
             "mark", "record"},
     mem  : SUBSET SignedOp,
     todo : SUBSET Proposal,
     cur  : Proposal \cup {0}]

NoCommand == [pc |-> "idle", mem |-> {}, todo |-> {}, cur |-> 0]

Status == {"none", "pending", "failed", "completed"}

Goto(c, pc) == cmd' = [cmd EXCEPT ![c].pc = pc]

\* The process is done with the push at hand.
NextPush(c) == cmd' = [cmd EXCEPT ![c].pc = "process", ![c].cur = 0]

Mark(n, p, status) == pending' = [pending EXCEPT ![n][p] = status]

\* processPendingPushes goes on when updatePendingPushStatus fails.
TryMark(n, p, status) ==
    \/ /\ Mark(n, p, status)
       /\ UNCHANGED saveErrors
    \/ /\ saveErrors < MaxSaveErrors
       /\ saveErrors' = saveErrors + 1
       /\ UNCHANGED pending

\* A command that uses the log is started, and OpenStore succeeds.
Starts(c) == cmd[c].pc = "idle" /\ ConflictFree(log[Home[c]])

\* AppendLocalOp of a store of n that holds the operations S.
NewOp(n, S, body) == [author |-> n, seq |-> Summary(S)[n] + 1, body |-> body]

\* A command that only appends, with the store it has just opened.
AppendFresh(n, body) ==
    /\ Summary(log[n])[n] < MaxOps
    /\ log' = [log EXCEPT ![n] = @ \cup {NewOp(n, @, body)}]

\* A step of a running command that appends with the store it opened.
AppendAndGoto(c, body, pc, p) ==
    LET o == NewOp(Home[c], cmd[c].mem, body) IN
    /\ o.seq <= MaxOps
    /\ log' = [log EXCEPT ![Home[c]] = @ \cup {o}]
    /\ cmd' = [cmd EXCEPT ![c].pc = pc, ![c].mem = @ \cup {o}, ![c].cur = p]

\* recordGitEvent opens a store of its own and ignores every error.
RecordGitEvent(n, x) ==
    IF ConflictFree(log[n])
    THEN AppendFresh(n, [kind |-> "event", oid |-> x])
    ELSE UNCHANGED log

Proposed == {p \in Proposal : \E n \in Node : ProposalOps(log[n], p) # {}}

ProposedOid(S, p) == (CHOOSE o \in ProposalOps(S, p) : TRUE).body.oid

QuorumIn(c, p) == HasQuorum(Home[c], cmd[c].mem, p, config[Home[c]])

-----------------------------------------------------------------------------
(* vcs push: propose, vote yes, queue, and try at once.                     *)

\* resolvePushIntent and ProposeRefUpdate.  A crash right after this step
\* leaves what "vcs consensus propose" leaves.
StartPush(c) ==
    /\ c \in Pushers
    /\ Starts(c)
    /\ head[Home[c]] # 0
    /\ \E p \in Proposal \ Proposed :
          /\ \A q \in Proposal \ Proposed : p <= q
          /\ LET S == log[Home[c]]
                 o == NewOp(Home[c], S, [kind |-> "proposal", prop |-> p,
                                         oid |-> head[Home[c]]])
             IN  /\ o.seq <= MaxOps
                 /\ log' = [log EXCEPT ![Home[c]] = @ \cup {o}]
                 /\ cmd' = [cmd EXCEPT ![c] = [pc |-> "vote", mem |-> S \cup {o},
                                               todo |-> {}, cur |-> p]]
    /\ UNCHANGED <<config, pending, head, remote, expired, userOps, saveErrors>>

AutoVote(c) ==
    /\ cmd[c].pc = "vote"
    /\ \/ /\ cmd[c].cur \notin expired
          /\ AppendAndGoto(c, [kind |-> "vote", prop |-> cmd[c].cur, yes |-> TRUE],
                           "queue", cmd[c].cur)
       \/ /\ cmd[c].cur \in expired
          /\ cmd' = [cmd EXCEPT ![c] = NoCommand]
          /\ UNCHANGED log
    /\ UNCHANGED <<config, pending, head, remote, expired, userOps, saveErrors>>

\* UpsertPendingPush (when it fails the command ends, as in Crash); then
\* processPendingPushes of this one push.
QueuePush(c) ==
    /\ cmd[c].pc = "queue"
    /\ Mark(Home[c], cmd[c].cur, "pending")
    /\ cmd' = [cmd EXCEPT ![c].pc = "process", ![c].todo = {cmd[c].cur}, ![c].cur = 0]
    /\ UNCHANGED <<log, config, head, remote, expired, userOps, saveErrors>>

-----------------------------------------------------------------------------
(* vcs sync, and vcs push --process-pending, which is one that pulls none. *)

StartSync(c) ==
    /\ c \in Pushers
    /\ Starts(c)
    /\ cmd' = [cmd EXCEPT ![c] = [pc |-> "sync", mem |-> log[Home[c]],
                                  todo |-> {}, cur |-> 0]]
    /\ UNCHANGED <<log, config, pending, head, remote, expired, userOps, saveErrors>>

\* SyncPeer adds an operation it got from the repository m.
PullOp(c, m) ==
    /\ cmd[c].pc = "sync"
    /\ m # Home[c]
    /\ \E o \in log[m] :
          /\ Addable(cmd[c].mem, o)
          /\ o.seq = Summary(cmd[c].mem)[o.author] + 1
          /\ log' = [log EXCEPT ![Home[c]] = @ \cup {o}]
          /\ cmd' = [cmd EXCEPT ![c].mem = @ \cup {o}]
    /\ UNCHANGED <<config, pending, head, remote, expired, userOps, saveErrors>>

\* Mutant of ListPending: completed pushes are not skipped.
ListEverything(c) ==
    /\ cmd[c].pc = "sync"
    /\ cmd' = [cmd EXCEPT ![c].pc = "process",
                          ![c].todo = {p \in Proposal : pending[Home[c]][p] # "none"}]
    /\ UNCHANGED <<log, config, pending, head, remote, expired, userOps, saveErrors>>

\* Mutant of ListPending: failed pushes are not tried again.
ListWaiting(c) ==
    /\ cmd[c].pc = "sync"
    /\ cmd' = [cmd EXCEPT ![c].pc = "process",
                          ![c].todo = {p \in Proposal : pending[Home[c]][p] = "pending"}]
    /\ UNCHANGED <<log, config, pending, head, remote, expired, userOps, saveErrors>>

ListPending(c) ==
    /\ cmd[c].pc = "sync"
    /\ cmd' = [cmd EXCEPT ![c].pc = "process",
                          ![c].todo = {p \in Proposal :
                              pending[Home[c]][p] \in {"pending", "failed"}}]
    /\ UNCHANGED <<log, config, pending, head, remote, expired, userOps, saveErrors>>

-----------------------------------------------------------------------------
(* processPendingPushes, for the pushes of the list in creation order.     *)

IsNext(c, p) == p \in cmd[c].todo /\ \A q \in cmd[c].todo : p <= q

Unknown(c, p) == ProposalOps(cmd[c].mem, p) = {}

\* ProposalStatus fails or the proposal has expired: failed.  No certificate
\* and no quorum: pending.
CheckAndSkip(c, p) ==
    /\ cmd[c].pc = "process"
    /\ IsNext(c, p)
    /\ \/ /\ Unknown(c, p) \/ p \in expired
          /\ TryMark(Home[c], p, "failed")
       \/ /\ ~Unknown(c, p) /\ p \notin expired
          /\ ~IsCertified(cmd[c].mem, p)
          /\ ~QuorumIn(c, p)
          /\ TryMark(Home[c], p, "pending")
    /\ cmd' = [cmd EXCEPT ![c].todo = @ \ {p}]
    /\ UNCHANGED <<log, config, head, remote, expired, userOps>>

\* Mutant of CheckAndGo: the certificate is left to "vcs consensus certify".
CheckAndPush(c, p) ==
    /\ cmd[c].pc = "process"
    /\ IsNext(c, p)
    /\ ~Unknown(c, p) /\ p \notin expired
    /\ IsCertified(cmd[c].mem, p) \/ QuorumIn(c, p)
    /\ cmd' = [cmd EXCEPT ![c].todo = @ \ {p}, ![c].cur = p, ![c].pc = "push"]
    /\ UNCHANGED <<log, config, pending, head, remote, expired, userOps, saveErrors>>

CheckAndGo(c, p) ==
    /\ cmd[c].pc = "process"
    /\ IsNext(c, p)
    /\ ~Unknown(c, p) /\ p \notin expired
    /\ \/ /\ IsCertified(cmd[c].mem, p)
          /\ cmd' = [cmd EXCEPT ![c].todo = @ \ {p}, ![c].cur = p, ![c].pc = "push"]
       \/ /\ ~IsCertified(cmd[c].mem, p)
          /\ QuorumIn(c, p)
          /\ cmd' = [cmd EXCEPT ![c].todo = @ \ {p}, ![c].cur = p, ![c].pc = "certify"]
    /\ UNCHANGED <<log, config, pending, head, remote, expired, userOps, saveErrors>>

\* CertifyProposal looks at time and configuration again.
Certify(c) ==
    LET p == cmd[c].cur
        n == Home[c]
    IN
    /\ cmd[c].pc = "certify"
    /\ \/ /\ p \notin expired /\ QuorumIn(c, p)
          /\ AppendAndGoto(c, Certificate(n, cmd[c].mem, p, config[n]), "push", p)
          /\ UNCHANGED <<pending, saveErrors>>
       \/ /\ p \in expired \/ ~QuorumIn(c, p)
          /\ TryMark(n, p, "failed")
          /\ NextPush(c)
          /\ UNCHANGED log
    /\ UNCHANGED <<config, head, remote, expired, userOps>>

\* Mutant of GitPush: a rejected push gets a status the file does not know.
GitPushRejected(c) ==
    /\ cmd[c].pc = "push"
    /\ \/ /\ remote' = head[Home[c]]
          /\ Goto(c, "mark")
          /\ UNCHANGED pending
       \/ /\ Mark(Home[c], cmd[c].cur, "rejected")
          /\ NextPush(c)
          /\ UNCHANGED remote
    /\ UNCHANGED <<log, config, head, expired, userOps, saveErrors>>

\* git push with the arguments of the command that queued the push.
GitPush(c) ==
    /\ cmd[c].pc = "push"
    /\ \/ /\ remote' = head[Home[c]]
          /\ Goto(c, "mark")
          /\ UNCHANGED <<pending, saveErrors>>
       \/ /\ TryMark(Home[c], cmd[c].cur, "failed")
          /\ NextPush(c)
          /\ UNCHANGED remote
    /\ UNCHANGED <<log, config, head, expired, userOps>>

MarkCompleted(c) ==
    /\ cmd[c].pc = "mark"
    /\ TryMark(Home[c], cmd[c].cur, "completed")
    /\ Goto(c, "record")
    /\ UNCHANGED <<log, config, head, remote, expired, userOps>>

RecordPush(c) ==
    /\ cmd[c].pc = "record"
    /\ RecordGitEvent(Home[c], ProposedOid(cmd[c].mem, cmd[c].cur))
    /\ NextPush(c)
    /\ UNCHANGED <<config, pending, head, remote, expired, userOps, saveErrors>>

Finish(c) ==
    /\ cmd[c].pc = "process"
    /\ cmd[c].todo = {}
    /\ cmd' = [cmd EXCEPT ![c] = NoCommand]
    /\ UNCHANGED <<log, config, pending, head, remote, expired, userOps, saveErrors>>

Crash(c) ==
    /\ cmd[c].pc # "idle"
    /\ cmd' = [cmd EXCEPT ![c] = NoCommand]
    /\ UNCHANGED <<log, config, pending, head, remote, expired, userOps, saveErrors>>

-----------------------------------------------------------------------------
(* Commands of one step.                                                   *)

ByHand == userOps < MaxUserOps /\ userOps' = userOps + 1

CastVote(c, p, yes) ==
    /\ Starts(c)
    /\ ByHand
    /\ ProposalOps(log[Home[c]], p) # {}
    /\ p \notin expired
    /\ AppendFresh(Home[c], [kind |-> "vote", prop |-> p, yes |-> yes])
    /\ UNCHANGED <<config, pending, head, remote, expired, cmd, saveErrors>>

CertifyProposal(c, p, force) ==
    LET n == Home[c] IN
    /\ Starts(c)
    /\ ByHand
    /\ ProposalOps(log[n], p) # {}
    /\ ~IsCertified(log[n], p)
    /\ p \notin expired \/ force
    /\ HasQuorum(n, log[n], p, config[n]) \/ force
    /\ AppendFresh(n, Certificate(n, log[n], p, config[n]))
    /\ UNCHANGED <<config, pending, head, remote, expired, cmd, saveErrors>>

SaveConsensusConfig(c, cfg) ==
    /\ Starts(c)
    /\ ByHand
    /\ config' = [config EXCEPT ![Home[c]] = NormalizeConfig(cfg)]
    /\ UNCHANGED <<log, pending, head, remote, expired, cmd, saveErrors>>

\* vcs commit: the new commit is recorded after git has made it.
Commit(c) ==
    /\ cmd[c].pc = "idle"
    /\ \E x \in OID :
          /\ \A n \in Node : head[n] < x
          /\ \E n \in Node : x = head[n] + 1
          /\ head' = [head EXCEPT ![Home[c]] = x]
          /\ RecordGitEvent(Home[c], x)
    /\ UNCHANGED <<config, pending, remote, expired, cmd, userOps, saveErrors>>

\* vcs push --no-auto-proposal, accepted by the remote.
PushImmediate(c) ==
    /\ AllowImmediate
    /\ cmd[c].pc = "idle"
    /\ ByHand
    /\ head[Home[c]] # 0
    /\ remote' = head[Home[c]]
    /\ RecordGitEvent(Home[c], head[Home[c]])
    /\ UNCHANGED <<config, pending, head, expired, cmd, saveErrors>>

-----------------------------------------------------------------------------
(* What goes on without commands.                                          *)

\* A daemon of repository n adds an operation it got from repository m.
Gossip(n, m) ==
    /\ \E o \in log[m] :
          /\ Addable(log[n], o)
          /\ o.seq = Summary(log[n])[o.author] + 1
          /\ log' = [log EXCEPT ![n] = @ \cup {o}]
    /\ UNCHANGED <<config, pending, head, remote, expired, cmd, userOps, saveErrors>>

Expire(p) ==
    /\ p \in Proposed \ expired
    /\ expired' = expired \cup {p}
    /\ UNCHANGED <<log, config, pending, head, remote, cmd, userOps, saveErrors>>

Init ==
    /\ log = [n \in Node |-> {}]
    /\ config \in [Node -> {NormalizeConfig(cfg) : cfg \in Configs}]
    /\ pending = [n \in Node |-> [p \in Proposal |-> "none"]]
    /\ head = [n \in Node |-> 0]
    /\ remote = 0
    /\ expired = {}
    /\ cmd = [c \in Proc |-> NoCommand]
    /\ userOps = 0
    /\ saveErrors = 0

ProcessPendingPushes(c) ==
    \/ \E p \in Proposal : CheckAndSkip(c, p)
    \/ \E p \in Proposal : CheckAndGo(c, p)
    \/ Certify(c)
    \/ GitPush(c)
    \/ MarkCompleted(c)
    \/ RecordPush(c)
    \/ Finish(c)

CommandNext(c) ==
    \/ StartPush(c)
    \/ AutoVote(c)
    \/ QueuePush(c)
    \/ StartSync(c)
    \/ \E m \in Node : PullOp(c, m)
    \/ ListPending(c)
    \/ ProcessPendingPushes(c)
    \/ Crash(c)
    \/ \E p \in Proposal, yes \in BOOLEAN : CastVote(c, p, yes)
    \/ \E p \in Proposal, force \in BOOLEAN : CertifyProposal(c, p, force)
    \/ \E cfg \in Configs : SaveConsensusConfig(c, cfg)
    \/ Commit(c)
    \/ PushImmediate(c)

Next ==
    \/ \E c \in Proc : CommandNext(c)
    \/ \E n, m \in Node : Gossip(n, m)
    \/ \E p \in Proposal : Expire(p)

Spec == Init /\ [][Next]_vars

\* Commands that were started go on, the user runs vcs sync again and again,
\* some day processes end only by themselves (Finish, or AutoVote of an expired
\* proposal, leave what a crash leaves), and a remote that is tried again and
\* again accepts a push some day.
Retrying ==
    /\ \A c \in Pushers :
          /\ WF_vars(AutoVote(c) \/ QueuePush(c) \/ ListPending(c))
          /\ WF_vars(ProcessPendingPushes(c))
          /\ SF_vars(StartSync(c))
          /\ \A p \in Proposal : SF_vars(GitPush(c) /\ cmd[c].cur = p /\ cmd'[c].pc = "mark")
    /\ <>[][\A c \in Proc : Crash(c) => Finish(c) \/ AutoVote(c)]_vars

FairSpec == Spec /\ Retrying

-----------------------------------------------------------------------------
(* Properties.                                                             *)

\* Every variable stays in its type, and a command that works on a push has
\* the proposal in memory.
TypeOK ==
    /\ log \in [Node -> SUBSET SignedOp]
    /\ config \in [Node -> ConsensusConfig]
    /\ pending \in [Node -> [Proposal -> Status]]
    /\ head \in [Node -> OID]
    /\ remote \in OID
    /\ expired \in SUBSET Proposal
    /\ cmd \in [Proc -> Command]
    /\ userOps \in 0..MaxUserOps
    /\ saveErrors \in 0..MaxSaveErrors
    /\ \A c \in Proc :
          cmd[c].pc \in {"vote", "queue", "certify", "push", "mark", "record"}
              => ProposalOps(cmd[c].mem, cmd[c].cur) # {}

\* A certificate tells the truth wherever it is read, whatever its author
\* has gone through: the ratio of yes votes it lists is above its threshold,
\* and the author's log holds a yes vote of everyone it lists.
CertBacked ==
    \A n \in Node : \A o \in log[n] :
        o.body.kind = "cert" /\ o.body.certified =>
            /\ RatioExceeds(Cardinality(o.body.yesVoters), o.body.totalVoters,
                            o.body.threshold)
            /\ \A m \in o.body.yesVoters :
                  \E v \in VoteOps(log[o.author], o.body.prop, m) : v.body.yes

\* A push through the queue reaches git only when a certificate for its
\* proposal is in ops.log, and the queue calls a push completed only then,
\* also after a crash between any two steps.
ExecutedCertified ==
    /\ \A c \in Proc : cmd[c].pc \in {"push", "mark", "record"} =>
          IsCertified(log[Home[c]], cmd[c].cur)
    /\ \A n \in Node, p \in Proposal : pending[n][p] = "completed" =>
          IsCertified(log[n], p)

\* The discipline nothing in the code enforces: a repository runs one
\* command at a time.
OneCommand == \A c, d \in Proc : Home[c] = Home[d] => c = d

\* A completed push is never attempted again nor called anything else, as
\* long as a repository runs one command at a time.
CompletedStays ==
    [][\A n \in Node, p \in Proposal :
          pending[n][p] = "completed" => pending'[n][p] = "completed"]_vars

\* The certifier's own vote counts as what it last said: no certificate
\* lists its author if the author's latest vote before it was no.
OwnVoteIsLatest ==
    \A n \in Node : \A o \in log[n] :
        o.body.kind = "cert" /\ o.author \in o.body.yesVoters =>
            LET own == {v \in VoteOps(log[o.author], o.body.prop, o.author) :
                            v.seq < o.seq}
            IN  \A v \in own : v.body.yes \/ \E w \in own : w.seq > v.seq /\ w.body.yes

\* A queued push whose proposal is certified and stays in time is completed
\* in the end, however often git or a command failed before.
CertifiedCompletes ==
    \A n \in Node, p \in Proposal :
        (/\ pending[n][p] \in {"pending", "failed"}
         /\ IsCertified(log[n], p)
         /\ [](p \notin expired))
            ~> pending[n][p] = "completed"

\* ops.log of every repository can be read by the next command.
LogLoads == \A n \in Node : ConflictFree(log[n])

\* The branch of the remote is a commit somebody certified.
RemoteCertified ==
    remote = 0 \/ \E n \in Node, p \in Proposal :
                     /\ IsCertified(log[n], p)
                     /\ \E o \in ProposalOps(log[n], p) : o.body.oid = remote
=============================================================================
