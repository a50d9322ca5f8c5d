# DQRVCS: a verification project

`vcs` (package `main` in `src/main.go`) is a command-line front end to git whose
repositories exchange a log of signed operations by gossip (`src/gossip/`), vote
on ref updates through that log, and push to the git remote once a push is
certified. A desktop front end (`src/gui/`) runs `vcs` and git for its user and
shows what they do. This directory holds TLA+ models of that machinery, the TLC
configurations that check them on small instances, and proofs, checked by TLAPS,
of the properties that matter most, for every value of the constants.

Contents: [inventory](#inventory) - [hard behaviours](#what-is-hard-here) -
[modules](#modules) - [correspondence](#how-the-models-correspond-to-the-code) -
[runs](#what-the-runs-check) - [fairness](#fairness) - [proofs](#what-is-proved) -
[findings](#where-code-and-documentation-disagree) -
[not modelled](#what-is-not-modelled) - [plan](#plan) - [how to run](#running)

## Inventory

| part | state | operations | talks to |
|---|---|---|---|
| gossip store (`gossip/store.go`) | `ops.log` on disk; `ops`, `opIDs`, `authorSeqIndex`, `seqByAuthor` in the memory of each open `Store`; one lock per process | `OpenStore`/`loadOps`, `AppendLocalOp`, `AddRemoteOp`, `Summary`, `MissingFor`, `Ops` | every command opens a store of its own; the daemon keeps one open |
| anti-entropy client (`gossip/sync.go`) | one call: round, `toSend`, what was pulled | `SyncPeer`, `callSync` | POST `/v1/sync` of a peer's daemon |
| daemon (`gossip/daemon.go`) | an open store, HTTP requests in progress, a ticker | `handleSync`, the gossip loop, health and summary endpoints | answers clients, is a client of its own peers |
| consensus (`gossip/consensus.go`) | nothing but operations of the log, and `consensus.json` | `ProposeRefUpdate`, `CastVote`, `CertifyProposal`, `ProposalStatus`, `SaveConsensusConfig` | reads and appends to a store |
| push queue (`gossip/pending.go`) | `pending_pushes.json` | `UpsertPendingPush`, `ListPendingPushes`, `MarkPendingPush...` | written by `vcs push` and `vcs sync` |
| commands (`main.go`) | none between runs | `push` (propose, immediate, process, list), `sync`, `daemon`, `consensus ...`, `op ...`, `peer ...`, `commit`, `pull` | git, a store, `recordGitEvent` with a second store |
| peers and identity (`gossip/store.go`) | `peers.json`, `identity.json` and its two legacy places | `AddPeer`, `RemovePeer`, `loadIdentity`, `writeJSONAtomic` | read when a store is opened |
| history commands (`main.go`) | git's | `amend`, `revert`, `squash`, `stage`, ... | one or two git commands |
| GUI state (`gui/src/main.rs`) | text fields, ticks, selections, the diff, `data` (the last snapshot of git and of `.vcs/gossip`), `load_error` | `refresh` (by button, timer, and after every command), `load_repo_data`, `load_gossip_data` | reads git and the gossip files directly |
| GUI forms | none of their own | one handler per button, `build_..._args` | run `vcs` or git and wait for it, then refresh |
| GUI conflict editor | the sections of one file with a choice per line | load, choose, save; `parse_conflict_sections`, `compose_conflict_editor_output` | reads and writes a file of the working tree |
| GUI rebase todo | a text | generate, load, save, start | reads and writes git's todo file |
| GUI command line | a text | `parse_cli_tokens`, the list of allowed commands | runs `vcs` |
| GUI proposal view | `ProposalView`s | `compute_proposal_views`, a second `ProposalStatus` | fed by `load_gossip_data` |
| benchmarks (`benchmarking/`) | results | measure | runs `vcs` |

What makes each part correct:

- store: no identity signs a sequence number twice; the log has no gaps, since
  the summary, a maximum per author, stands for all operations below it; what a
  store claims to have is on disk.
- sync: what a call reports as finished is equal on both sides; daemons that stay
  up exchange everything, in both directions, from one peer entry.
- consensus: a certificate lists votes that were cast and enough of them, whoever
  reads it and whenever; a member's last vote counts.
- GUI: what is shown was true of what was read, and catches up; what people wrote
  survives refreshes; a click is about what is on the screen; a command line says
  what the form says; saving a resolved file loses no line that was chosen.
- push queue: git is run only behind a certificate; a completed push stays so;
  a certified push is executed in the end, across crashes and rejections.

## What is hard here

Several processes share the files of a repository without a lock between them:
a command reads `ops.log` once and writes through that picture; the daemon read
it when it started. Handlers of the daemon interleave per operation. Clients time
out while their handler goes on. A process may die between git and the queue
file. The GUI has one thread and no lock: it reads file after file while commands
write them, refreshes under the user's hands, and any of its reads may fail.
Votes, certificates, clocks and configurations differ between repositories.
`PROJECT.json` lists each such hazard at its line with the properties aimed at it.

## Modules

```
OpLog                    operations, summaries, MissingFor (pure)
  ReplicatedOpLog        abstract: every repository holds prefixes of each author's log
  GossipSync             stores, daemons, requests  -- implements ReplicatedOpLog
    MCGossipSync         instances for TLC
    GossipSyncProofs     types and NoFork (with OpLogProofs, lemmas on OpLog)
    GossipSyncGapProofs  NoGaps, SummaryDurable, QuietEndMeansSynced, the refinement
  Consensus              proposals, votes, certificates, the quorum rule (pure)
    PushQueue            vcs push/sync/consensus/commit, the queue, git
      MCPushQueue        instances for TLC
      PushQueueProofs    theorems (with OpLogProofs)
      PushVoteProofs     a certifier's own vote, votes' numbers (with PushQueueProofs)
      GuiFeed            the GUI's view of one repository of PushQueue
        MCGuiFeed        instance for TLC
        GuiFeedProofs    all three properties of gui_feed (with PushVoteProofs, FoldProofs)
  GuiText                git status, conflicts, the command line, todo lists (pure)
  GuiCommands            the command lines of the forms, and how vcs reads them (pure)
    GuiDesk              forms, selections, editors, commands, refresh
      MCGuiDesk          instance for TLC
      GuiDeskProofs      theorems on every safety property of gui_desk (with FoldProofs)
  FoldProofs             lemmas: folds and flattened sequences, element by element
```

GossipSync and PushQueue meet in the log. GossipSync shows how logs travel, at the
grain of the store's lock, and that the result is the replicated log of
ReplicatedOpLog. PushQueue then takes one arriving operation (`Gossip`, `PullOp`)
as one step and spends its detail on the commands. GuiFeed puts the front end next
to those commands, since the point is what it reads of their files between their
steps. GuiDesk is about the window itself; the repository there is one variable that
commands and others change.

## How the models correspond to the code

**OpLog.** A set of operations stands for `Store.ops` with its indexes. `Addable`
is the duplicate and conflict test of `addOperationLocked`, `ConflictFree` what
`loadOps` needs to succeed, `Summary` what `seqByAuthor` reaches, and `MissingFor`
the sorted, cut list of that name. In GossipSync everything an author signs
besides author and number is one `stamp`, unique per signature; in PushQueue it is
the `body`.

**GossipSync.** A *store* is one value returned by `OpenStore`, that is one
process (a daemon or a command). `log[n]` is the file, `ops[s]` and
`seqByAuthor[s]` one process's memory; `signed` counts signatures. `session[s]` is
a `SyncPeer` call between two of its steps, `conn[c]` a request and its handler.
Each action is one critical section of the store's mutex, or one message:
`AddOperation` is `addOperationLocked` with its order (memory, summary, then file)
and with a write that may fail; `SendRequest`, `HandleOp` once per operation,
`HandleSummary`, `HandleReply`, `ReceiveResponse`, `ApplyOp` once per operation and
`FinishRound` are one round. `CallFails` covers refusal, a dead server and the
time-out; after the latter the handler runs on. `CloseStore` may happen anywhere.
As in the code only commands append, and never before they sync.

**Consensus.** `Voters`, `LatestVoteIsYes`, `RequiredYes`, `HasQuorum`,
`IsCertified` are the parts of `ProposalStatus`, in its order; `Certificate` the
snapshot `CertifyProposal` signs; `NormalizeConfig` what loading and saving do to
a threshold. Thresholds are multiples of `1/Scale`, so the rounding of the
`float64` product is left out. Proposal IDs are numbers that nobody chooses twice
(the code draws a 128-bit nonce).

**PushQueue.** `cmd[c]` is the process: `pc` is the next step of the command, `mem`
its `Store.ops`, `todo` what is left of the list `processPendingPushes` made, `cur`
the push at hand. `log`, `config`, `pending`, `head` are the repository's files.
The steps of `vcs push` are `StartPush`, `AutoVote`, `QueuePush` and then, for this
one push, those of `processPendingPushes`: `CheckAndSkip` or `CheckAndGo`,
`Certify`, `GitPush`, `MarkCompleted`, `RecordPush`, `Finish`. `vcs sync` is
`StartSync`, any number of `PullOp`, `ListPending`, and the same; `vcs push
--process-pending` is one that pulls nothing. `RecordGitEvent` opens its own store
and swallows errors, as the function does; `TryMark` is a status update whose error
is ignored. Commands that are one append are one
action. Expiry is one event per proposal. git is external: `GitPush` may fail or
put what the branch is now on the remote; whether a remote accepts a push is left
open, so are non-fast-forward rejections.

**GuiFeed.** `file` is ops.log of one repository line by line, in the order its
processes wrote them. `ReadConfig`, `ReadPending`, `ReadOps` are the reads of
`load_gossip_data`, with any step of PushQueue between two of them;
`ComputeProposalViews` folds `ScanOp` over the lines as the loop does.

**GuiText, GuiCommands.** The functions of that name. A line of a file, a name, a
word are opaque strings; a character counts only as one of the four that
`parse_cli_tokens` looks at. `RunGitTrim` is what `run_git` does to the output of
`git status`, and `Rest` what a file name is without its first character.
`FlagSet` and `Understand` are the other side, the `flag` sets of `main.go` and the
rule of Go's flag package that the first argument which is no flag ends them; flags
that are set are a set of pairs of flag and value. `Fails` is what ends in an error
there: a flag without a value, or with one that does not parse (`Values`), the wrong number of arguments, or an argument that begins with a dash
(`Dashed`) and is not spelt like a flag of the command. Package flag would take
`-no-commit`, `--no-commit=false` or `--` as a flag or as the end of the flags, and
complain about `-x`; none of them is ever the commit to revert, so `vcs revert` is left
without one. `Without` is `consumeExactFlag`, which finds the flags of `push` anywhere.
`Trim` is what `run_cli_input_command` does first: it takes off blanks, also one that
was escaped.

**GuiDesk.** There is one thread. `run` is the command it waits for, `load` the
refresh it is in; people act only while both are empty (`Idle`), which `Input` says
once for all their actions. A handler of `VcsGuiApp` is an operator of the same name, a
button that has no handler one named for what it does, and `GitPanel`, `MergePanel`,
`HistoryPanel`, `CollaborationTab`, `CliPanel` list what the panels offer under the
conditions they draw them. `RunCommand` is `run_command_with_env` up to the wait,
`CommandEnds` the rest, with the refresh it ends in: `ReadStatus`, `ReadRepo` and
`FinishRefresh` are the reads that may see different states or fail on their own,
`FillBlanks` and `Keep` what is done to fields and selections. A field that a handler
clears after its command is `after`. `ChangeDisk` is everything else that touches the
repository, what a command does included, at any moment. `run.meant` and `run.typed`
are what the click and the typist meant; nothing reads them but properties. Fields
only their own click reads are inputs of that click.

## What the runs check

All finish in three minutes or less.

| run | instance | checks |
|---|---|---|
| `pair` | 2 repositories, 2 daemons, 1 command line, 3 operations, batch limit 1, 2 rounds, 1 lost answer, 1 failing write | `TypeOK`, `NoFork`, `NoGaps` and `SummaryDurable` until a write fails, `QuietEndMeansSynced` |
| `hub` | 3 repositories, two commands against the daemon of a third at once, 2 requests | `NoFork`, `NoGaps`, `QuietEndMeansSynced` with interleaved handlers |
| `converge` | two daemons, only one knows the other, 1 lost answer | `DaemonsConverge`, `DaemonsFetch`, and that the logs implement ReplicatedOpLog |
| `push_pair` | 2 repositories, two configurations to change between (1/2 of two members, 2/3 of whoever is in the log), 1 proposal, 2 commands by hand (votes, certificates, configuration) | `TypeOK`, `CertBacked`, `ExecutedCertified`, `OwnVoteIsLatest`, `CompletedStays` |
| `push_retry` | one repository pushes twice, also immediately, one command by hand, 1 status that is not saved; with fairness | `ExecutedCertified`, `CertifiedCompletes`, `CompletedStays` over a queue of two |
| `gui_feed` | PushQueue with 2 repositories, threshold 1/2 of two members or of whoever is in the log, 1 push, 1 command by hand; the pusher's repository on the screen | `FeedTypeOK`, `ShownCompletedCertified`, `ViewAgrees` |
| `gui_desk` | a repository at rest, in a merge with two conflicts, in a rebase with a missing file, without a commit, and one git cannot read; 3 actions of people, 1 change from outside, besides saves | `DeskTypeOK`, `SelectionsListed`, `EditorFollowsSelection`, `DiffFollowsScope`, `RefreshKeepsInput`, `SaveResolves`, `Understood`, `CliRunsTyped`, `ViewCatchesUp` |

Five more runs each look for one counterexample and find it; see
[findings](#where-code-and-documentation-disagree).

Why the bounds are enough to be interesting. With a batch limit of one, two
operations already need two rounds, and three exceed what a call of two rounds
moves, so cut batches, the round limit and retries all occur. Two members at
threshold 1/2 need both votes; no quorum, a quorum without a certificate and a
certificate from elsewhere then all occur, and two commands by hand allow a
changed vote, a certificate by hand for a proposal that is also queued, and a
configuration changed between vote and certificate. `MaxOps` is 20 in the push
runs and never reached: each repository votes once by itself, certifies and
records a proposal once per push, and everything else is counted by
`MaxProposals`, `MaxUserOps` and `MaxSaveErrors` (each status lost after git has run
is one more event), so TLC's state space is finite without it.
In `push_retry` only one command is entered by hand, so at most one of the two
proposals gets the votes it needs; were both certified, finding 3 could make the
log unreadable.

In `gui_desk` three actions are what it takes to select a conflict, choose and
save, to fill a field, copy into it and run the form, or to add a commit, change the
list and cherry-pick; the one change from outside falls before, between or in the
reads of any refresh, and every pair of the five states occurs. The first file of
the state at rest has its change unstaged, the conflicts have sides of different
lengths, one file has a line that looks like a marker, one command line needs all three
ways of quoting and has empty words, and one, quoted with backslashes, ends in an
escaped blank. A commit that is typed may be `-x`, and
what is typed as the number of commits to squash is no number. Every handler and every
button fires.

Deadlock is checked except in the two runs that look for an unreadable log and for a
moved branch, where a single repository may stop for good.

Symmetry is used for requests (`ConnSymmetry` of `hub`) only: they are
interchangeable, and no liveness is checked there. Node IDs are ordered and
are not symmetric.

## Fairness

`GossipSync!Fairness`: a `SyncPeer` call that is under way goes on, handlers run,
and a daemon's loop turns to each peer again (`daemon.go`, the ticker).
`StartSync` and `SendRequest` are strongly fair, since a loop that always found
the connection taken would otherwise starve. Nothing forces a process to be
started, a command to be entered or an answer to get lost; losses are bounded by
`MaxLost`, so a network that loses every answer is excluded.

`PushQueue!Retrying`: a command that was started goes on, the user runs `vcs sync`
again and again (the command's own advice, `main.go:415`), processes end only by
themselves from some day on, and a remote to which the same push is offered for ever accepts it some
day (strong fairness of a successful `GitPush` for each proposal). Without the
last two assumptions nothing could be promised. Statuses fail to be saved at most
`MaxSaveErrors` times: a disk that stayed full would have the same push executed
for ever. `CertifiedCompletes` speaks of proposals that do not expire.

`GuiDesk!DeskSpec`: the timer of `update` refreshes again and again (`auto_refresh`
starts ticked and is assumed to stay so), a refresh that began goes on, and a
command ends, by itself, with an error, or killed. A daemon is the exception: the
bottom panel lets one be started and the thread then waits for ever. People need
not do anything.

## What is proved

All proofs are checked to the last leaf, for every set of repositories, stores and
processes and every bound. They assume only the `ASSUME`s of the modules, which
TLC evaluates in the runs: finitely many repositories with ordered IDs, `Home` is a
function, bounds are numbers, thresholds lie in `[0,1)`.

- `GossipSyncProofs!TypeCorrect`: `Spec => []TypeOK`.
- `GossipSyncProofs!NoForkHolds`: `OneWriter => (Spec => []NoFork)`. *Assumption:*
  `OneWriter`, one store per repository that appends. The code does not enforce it,
  and running one command at a time does not give it: a command that processes pushes
  lets `recordGitEvent` append through a second store, which is finding 3.
  The invariant `ForkInv` adds to `NoFork` that a closed store is empty, that
  whatever circulates (in logs, memories, batches) is in the log of its author or
  is an unsaved operation of a command that no longer syncs, and that a command's
  store has all its own identity has written. `NoFork` alone is not
  inductive: the next number is computed from one memory, and only the last
  part links that memory to what others hold. `OpLogProofs` supplies what
  `Summary` and `MissingFor` return.
- `GossipSyncGapProofs!NoGapsHolds` and `SummaryDurableHolds`:
  `Spec => []NoGaps`, and the same for `SummaryDurable`. Both properties are about
  behaviours up to the first failing write (after one they are false, finding 2) and
  nothing else is assumed: any number of writers is allowed. Neither is
  inductive alone, because what is added next was selected earlier, for a peer
  whose state has changed since. `GapInv` therefore says of every batch on its way
  that it `Fits` what its receiver holds now, and of every summary on its way that
  its author still `Covers` it. `Held(s)`, the memory of an open store and the log
  of a closed one, only grows, over restarts too, and so both survive
  everything others do. `MissingForDownClosed` and `MissingForFits` are where the
  sorting of `MissingFor` before its cut comes in; `Linked` ties a request to the
  one call that waits for it.
- `GossipSyncGapProofs!QuietEndMeansSyncedHolds`: `Spec => QuietEndMeansSynced`. The
  step that ends a call compares the command's summary with one that the daemon sent
  before the command added what came with it. `QuietInv` adds to `GapInv` that no
  memory is ahead of its summary (`Bounded`) and, until a write fails, the state of
  each exchange: a command that waits is still what its request says (`Asked`), and
  a batch it got and has added nothing of is all news to it, and empty only if the
  daemon has nothing more (`Answered`). That an empty batch means so is `MissingForNonempty`: the cut of
  `MissingFor` leaves one operation at least.
- `GossipSyncGapProofs!ReplicatedLogImplemented`:
  `OneWriter /\ NoWriteErrors => (Spec => ImplementsReplicatedOpLog)`, from both
  invariants; *assumptions:* `OneWriter`, as above, and no write fails
  (`MaxWriteErrors = 0`). `ApplyOp` and `HandleOp` map to `Replicate` or, when another
  process has written the operation already, to a stutter; `AppendLocalOp` maps to `Append`.
- `PushQueueProofs!PushTypeCorrect`: `Spec => []TypeOK`.
- `PushQueueProofs!CertBackedHolds`: `Spec => []CertBacked`. No assumption on how
  many processes a repository runs. The invariant `CertInv` adds that a command's
  memory is contained in its repository's log (`MemLogged`). Every step is shown
  to be a `GoodStep`: it adds to one log one operation that is either someone's
  already or, if it is a certificate, justified by the votes in that log;
  `LogStepKeepsBacked` does the rest, and `RequiredYesExceeds` shows that
  `calculateRequiredYes` asks for strictly more than the threshold for every
  number of members.
- `PushQueueProofs!ExecutedCertifiedHolds`: `Spec => []ExecutedCertified`, from
  `CertInv` and `ExecStep`: whoever starts to execute a push, and whatever becomes
  completed, has the certificate in its log, and logs only grow.
- `PushQueueProofs!CompletedStaysHolds`: `OneCommand => (Spec => CompletedStays)`.
  *Assumption:* `OneCommand`, one command at a time per repository; two would
  overwrite each other's `pending_pushes.json`. The invariant `QueueInv` says that
  what a command still has to look at, and the push at hand until git has run, is
  not completed (`Tidy`), and that only proposals in the log are queued, so a new
  proposal is never one already completed. Each step is a `TidyStep`.
- `PushVoteProofs!OwnVoteIsLatestHolds`: `OneCommand => (Spec => []OwnVoteIsLatest)`.
  *Assumption:* `OneCommand`; two commands with stores of their own number their votes
  and certificates independently. The invariant `VoteInv` adds that a running command
  has in memory all its repository has signed, events excepted (`KnowsOwn`), without
  conflict, and that whatever circulates is in the log of its author (`Returned`).
  Events are excepted because `recordGitEvent` appends them through another store:
  the certificate that follows reuses the number of the event (finding 3), and the
  theorem says that this never hides a vote. Whatever a repository signs has a
  higher number than all its votes and certificates (`SignedOver`), so a vote never
  slips in before an older certificate.
- `PushVoteProofs!VoteAloneHolds`: `OneCommand => (Spec => []VoteAlone)`. A certificate
  may reuse the number of an event (finding 3), but nothing in any log shares author
  and number with a vote. `AloneInv` adds that logs have no gap and that a command
  about to vote has in memory all its repository has signed, events included: it is
  the first thing it signs.
- `GuiFeedProofs!ShownCompletedCertifiedHolds`: `FeedSpec =>
  ShownCompletedCertified`. Every step of GuiFeed is one of PushQueue or leaves it
  alone, so `ExecutedCertified` carries over; what a refresh has read of the queue is
  backed by the log as it is *then*, and the log only grows until it is read. The
  order of the two reads in `load_gossip_data` is what the proof rests on: the other
  way round, the property would be false.
- `GuiFeedProofs!FeedTypeCorrect`: `FeedSpec => []FeedTypeOK`, with the lines of the
  file and the log the same set.
- `GuiFeedProofs!ViewAgreesHolds`: `OneCommand => (FeedSpec => ViewAgrees)`.
  `compute_proposal_views` lets the last *line* of a voter count, `ProposalStatus` the
  highest *number*. `OrderInv` says why these are the same vote: among lines written
  once, a vote stands behind all its author has signed before (`FileOrder`), which
  needs `VoteAlone` and that logs have no gap. With two commands at a time it would
  not hold.
- `GuiDeskProofs`: `SelectionsListedHolds`, `EditorFollowsSelectionHolds`,
  `DiffFollowsScopeHolds` and `RefreshKeepsInputHolds`, each from `DeskSpec`, for any
  files, commits, texts, states of the repository and bounds. The invariant
  `DeskInv` adds to the first three properties the shape of the variables they
  speak of, that a list is a sequence, and `OneThread`: no refresh runs while a
  command does. A refresh changes the lists in `ReadRepo` and the selections only in
  `FinishRefresh`, so between the two a selection may be stale; `OneThread` is why
  nobody can click then.

- `GuiDeskProofs!DeskTypeCorrect`: `DeskSpec => []DeskTypeOK`. The invariant `TypeInv`
  adds what a refresh has read so far (`ReadsOK`). The list for cherry-pick may hold
  whatever people type, but no empty reference. The sections an editor holds are
  typed because `parse_conflict_sections` is a run of `TakeLine` over the lines.
- `GuiDeskProofs!CliRunsTypedHolds`: `DeskSpec => []CliRunsTyped`, for words of any
  length, empty ones included: what runs is what was typed without its empty words, or
  the line is refused. `QuotedReads` follows `parse_cli_tokens` over one quoted word,
  `TypedReads` over the whole line, and `TrimReads` shows that the blanks the trim takes
  off do not matter if the rest can be read at all.
- `GuiDeskProofs!SaveResolvesHolds`: `DeskSpec => SaveResolves`, for any number of
  conflicts and lines. No other file changes; that no marker is left, and that a side
  chosen everywhere is what is saved, is said of a file that is as it was loaded and
  none of whose own lines looks like a marker. `BlocksRead` says that reading the lines
  of blocks without markers of their own gives sections which, resolved to one side, are that side's
  version; `SideWritten` that a hunk whose lines all have one side writes that side,
  though `ours` and `theirs` differ in length.
- `GuiDeskProofs!UnderstoodHolds`: `DeskSpec => []Understood`, for any text: a form's
  command line is read as what the form says, or what the form says cannot be told to
  `vcs` at all (`Fails` of `run.meant`) and is refused (`NoCommitFails`). Each form
  has a lemma (`CommitMeans`, `SquashMeans`, ...) that reads its command line flag by
  flag (`SwitchRead`, `ValueRead`, `RestRead`); `Unset` is why no flag overwrites an
  earlier one. `RevertMeans` is the one that needs the flag to come before the commit.

The proofs about GuiDesk use three more `ASSUME`s. `TextAssumption`: what is read or
typed is text, and a missing file has no content. `LiteralAssumption`: so are the
markers and other literals of the code that are written in its models, which the
provers do not know. `FlagAssumption`: the flags of the code begin with a dash, and
the six flags that take a number or a time are those of the code. What people type is
any text.

`FoldLeft` and `FlattenSeq` of the community modules are recursive functions, so loops
over lines, characters, arguments and operations can be reasoned about: `FoldProofs`
turns a fold into a run, the sequence of its intermediate values (`EndsIn`), and proves
induction over the length of sequences for a *set* of good ones from the well-founded
order of the numbers, since the library's induction theorems cannot be instantiated.

Every safety property and every action property of the passing runs is now a theorem.
Only model-checked, because out of the prover's reach: `DaemonsConverge`,
`DaemonsFetch`, `CertifiedCompletes`, `ViewCatchesUp` (liveness under fairness).

## Where code and documentation disagree

1. `passive_daemon` (`store.go:703`): a running daemon never reads what a command
   appends to the same `ops.log`, so it never gossips it, although the LAN
   benchmark measures just that.
2. `write_error_gap` (`store.go:512`): after one failing write a store claims a
   number whose operation is not on disk; peers then never send it again.
3. `stale_store` (`main.go:703`): `recordGitEvent` appends through a second store
   while `processPendingPushes` goes on with the first; the certificate of the
   next push then reuses a sequence number and no later command can open the
   store.
4. `branch_moved` (`main.go:713`): what is pushed is the branch at that time, not
   the commit that was certified.
5. `gui_status_paths` (`gui/src/main.rs:3246`): the output of `git status` is
   trimmed as a whole, so the first file loses its first character when only its
   working copy has changed; "Stage file" is then about another file or none.

More points where the design may surprise, which the models follow but no
run is about: expiry is looked at before certification, so a push that was
certified in time but is processed late is given up (`main.go:681`); a certificate
counts whatever the members and threshold of the repository that signed it
(`main.go:691`, `consensus.go:422`), which is why `CertBacked` speaks of the
configuration inside the certificate; a threshold of 0 is read as the default
0.5 (`consensus.go:117`). In the GUI, `Continue` goes on with a merge or a rebase and
is greyed out in a cherry-pick (`gui/src/main.rs:1303`), although the manual speaks of
controls for all three; a threshold is offered with two decimals and saved so; and a
todo list or the tick that confirms a hard reset stays for the next time. In the bottom
panel an empty word is lost (`gui/src/main.rs:2499`, `:2513`), so `commit -m ""` reaches
`vcs` as `commit -m`; and the line is trimmed before it is read (`:806`), so one that
ends in an escaped blank is refused. The revert form lets a commit begin with a dash,
which `vcs` refuses.

## What is not modelled

- signatures and hashes: an operation in a model is one that `verifyOperation`
  accepts; JSON and HTTP;
- processes that race on one JSON file (`pending_pushes.json`, peers, identity), and
  torn writes: every file changes in one step here;
- proposals with a chosen ID, epochs, old OIDs (nothing compares them), several refs;
- the floating-point rounding of `threshold * members`;
- what git does for the history commands, how it reads its own arguments, and squash's
  two steps; only how `vcs` reads its arguments is modelled. Another spelling of a flag
  (`-no-commit`, `--no-commit=false`) typed for a commit is told apart from a commit, but
  not what it sets, since the command fails either way;
- of the GUI: layout, output texts, the branch graph, how the diff is computed, quoted
  names and renames in `git status`, diff3 conflicts,
  the repository path and the choice of the `vcs` binary, the temporary files of
  the interactive rebase;
- the benchmark harness, which keeps no state.

## Plan

1. Done: OpLog, ReplicatedOpLog, GossipSync with refinement, Consensus, PushQueue,
   GuiFeed, GuiText, GuiCommands, GuiDesk, their runs and the theorems above.
2. Next module: `StoreFiles` (peers, identity, the queue, temporary names, a torn log
   line, processes racing on one JSON file; property: no update of a finished command
   is lost, and which ones are).
3. Next proofs: the safety behind the liveness properties, that is what each of their
   steps gains (a `SyncPeer` round of a daemon never leaves the two further apart; a
   certified push stays in the queue until it is completed); properties of
   `StoreFiles`.
4. Next step inside the modules: two processes on one queue file.

## Running

`tlc -config MCPushQueue_pair.cfg MCPushQueue` and likewise for the other
configurations (`MC<module>_<run>.cfg`, without the `push_` or `gui_` of a run's
name; `gui_feed` is `MCGuiFeed_watch.cfg`); `tlapm
PushQueueProofs.tla`. The operators a mutation of the code would give stand next
to the definitions they replace, marked "Mutant of".
