------------------------------ MODULE GuiDesk ------------------------------
(***************************************************************************)
(* The front end at work (VcsGuiApp of src/gui/src/main.rs): its forms and *)
(* selections, the command it runs, the refresh that follows every command *)
(* and every few seconds, and the editors of conflicts and rebase todos.   *)
(*                                                                         *)
(* One thread draws, refreshes and waits for commands, so people can do    *)
(* nothing meanwhile.  The repository does not wait: commands, editors and *)
(* daemons change it at any moment, also between two reads of a refresh.   *)
(* What a command does to it is one such change.                           *)
(*                                                                         *)
(* Left out: the output line and other wording, colours, the graph and the *)
(* pages of tabs; the repository path and the vcs binary, taken as set;    *)
(* fields that only their owner reads are inputs of the click that uses    *)
(* them.                                                                   *)
(***************************************************************************)
EXTENDS GuiText, GuiCommands

CONSTANTS
    Commit,        \* hashes
    Disks,         \* states the repository may come to be in
    TwoDecimals,   \* a threshold as "{:.2}" writes it
    Typing,        \* Typing[f]: what people type into the text field f
    Targets,       \* what they type for a branch or commit, "" included
    Words,         \* what they type into the other fields, "" included
    Todos,         \* todo lists people write
    RefLists,      \* lists of commits and other refs they type
    CliLines,      \* commands people type into the bottom panel
    MaxInputs,     \* BOUND: what people do
    MaxChanges     \* BOUND: changes of the repository

\* The text fields that something else than the keyboard may change.
TextField == {"reference", "newOid", "onto", "threshold", "members", "peer",
              "resetTarget", "squashLast", "squashFrom"}

Doing == {"merge", "rebase", "cherry-pick"}

Block == [kind : {"plain"}, lines : Seq(STRING)]
            \cup [kind : {"conflict"}, ours : Seq(STRING), theirs : Seq(STRING)]

\* The repository as the front end can read it.  "loads" is whether git status
\* succeeds; commits has HEAD first; todo is empty if there is no todo file;
\* a file in conflict may be missing.
Gossip == [ok : BOOLEAN, threshold : DOMAIN TwoDecimals, members : STRING,
           peers : SUBSET STRING]

Disk == [loads : BOOLEAN, branch : STRING, commits : Seq(Commit),
         status : Seq(StatusLine), doing : SUBSET Doing, conflicts : Seq(File),
         content : [File -> Seq(Block)], missing : SUBSET File, todo : Seq(STRING),
         reflog : SUBSET STRING, gossip : Gossip]

\* What can be cherry-picked.
Ref == STRING \ {""}

ASSUME DeskAssumption ==
    /\ Disks \subseteq Disk
    /\ "" \notin File \cup Commit
    /\ DOMAIN Typing \subseteq TextField
    /\ MaxInputs \in Nat /\ MaxChanges \in Nat

\* What is read, typed or put together is text, and a file that is not there
\* has no content.
ASSUME TextAssumption ==
    /\ Commit \cup Targets \cup Words \subseteq STRING
    /\ Todos \subseteq Seq(STRING) /\ RefLists \subseteq Seq(Ref)
    /\ CliLines \subseteq Seq(Seq(STRING))
    /\ "0.00" \in DOMAIN TwoDecimals
    /\ \A t \in DOMAIN TwoDecimals : TwoDecimals[t] \in STRING
    /\ \A f \in DOMAIN Typing : Typing[f] \subseteq STRING
    /\ \A w \in Words : w \o "h" \in STRING
    /\ \A d \in Disks : "refs/heads/" \o d.branch \in STRING
    /\ \A d \in Disks : \A f \in d.missing : d.content[f] = <<>>

VARIABLES
    disk,
    data,      \* AppData: what was last read of disk; error: load_error is set
    text,      \* text[f]
    picks,     \* cherry_pick_refs
    todo,      \* rebase_todo_text
    sel,       \* what is selected in the lists, and what the diff panel shows
    editor,    \* ConflictEditorState
    run,       \* the command that runs
    load,      \* the refresh that runs
    inputs, changes   \* bounded by MaxInputs and MaxChanges

forms == <<text, picks, todo>>
vars == <<disk, data, forms, sel, editor, run, load, inputs, changes>>

NoGossip == [ok |-> TRUE, threshold |-> "0.00", members |-> "", peers |-> {}]

NoData == [branch |-> "", head |-> "", entries |-> <<>>, doing |-> {},
           conflicts |-> <<>>, commits |-> <<>>, reflog |-> {}, gossip |-> NoGossip,
           error |-> FALSE]

NoEditor == [file |-> "", sections |-> <<>>, error |-> FALSE]

\* meant: the flags and arguments the click stands for; line and typed: the
\* words of the bottom panel.
NoRun == [prog |-> "none", args |-> <<>>, meant |-> <<>>, line |-> <<>>,
          typed |-> <<>>, after |-> "none"]

\* after: the field to clear when the refresh is over.
NoLoad == [pc |-> "idle", branch |-> "", head |-> "", entries |-> <<>>, after |-> "none"]

Refresh(after) == load' = [NoLoad EXCEPT !.pc = "status", !.after = after]

\* The thread waits for people.
Idle == run = NoRun /\ load = NoLoad

\* What every action of people starts with.
Input == Idle /\ inputs < MaxInputs /\ inputs' = inputs + 1

-----------------------------------------------------------------------------
(* refresh                                                                 *)

\* What a handler does when the command it has run is over.
Cleared(field, texts) == [f \in TextField |-> IF f = field THEN "" ELSE texts[f]]

\* "Refresh", or the timer of update.
StartRefresh ==
    /\ Idle
    /\ Refresh("none")
    /\ UNCHANGED <<disk, data, forms, sel, editor, run, inputs, changes>>

\* Branch, HEAD and status; an error ends the refresh.
ReadStatus ==
    /\ load.pc = "status"
    /\ \/ /\ disk.loads
          /\ load' = [load EXCEPT
                !.pc = "repo",
                !.branch = disk.branch,
                !.head = IF disk.commits = <<>> THEN "" ELSE Head(disk.commits),
                !.entries = ParseStatusEntries(RunGitTrim(disk.status))]
          /\ UNCHANGED <<data, text>>
       \/ /\ ~disk.loads
          /\ load' = NoLoad
          /\ data' = [data EXCEPT !.error = TRUE]
          /\ text' = Cleared(load.after, text)
    /\ UNCHANGED <<disk, picks, todo, sel, editor, run, inputs, changes>>

\* Mutant of ReadRepo: the old commits stay if there is no HEAD.
ReadRepoKeepsCommits ==
    /\ load.pc = "repo"
    /\ data' = [data EXCEPT
          !.branch = load.branch, !.head = load.head, !.entries = load.entries,
          !.doing = disk.doing, !.conflicts = disk.conflicts,
          !.commits = IF load.head = "" THEN @ ELSE disk.commits,
          !.reflog = disk.reflog]
    /\ load' = [load EXCEPT !.pc = "gossip"]
    /\ UNCHANGED <<disk, forms, sel, editor, run, inputs, changes>>

\* The rest of load_repo_data.
ReadRepo ==
    /\ load.pc = "repo"
    /\ data' = [data EXCEPT
          !.branch = load.branch, !.head = load.head, !.entries = load.entries,
          !.doing = disk.doing, !.conflicts = disk.conflicts,
          !.commits = IF load.head = "" THEN <<>> ELSE disk.commits,
          !.reflog = disk.reflog]
    /\ load' = [load EXCEPT !.pc = "gossip"]
    /\ UNCHANGED <<disk, forms, sel, editor, run, inputs, changes>>

\* Mutant of Keep: what is selected stays.
KeepAlways(selected, list) ==
    IF selected # "" \/ list = <<>> THEN selected ELSE Head(list)

\* A selection stays if it is still listed.
Keep(selected, list) ==
    IF selected \in ToSet(list) THEN selected
    ELSE IF list = <<>> THEN "" ELSE Head(list)

\* What a refresh writes into fields that are blank.
Offered(gossip) ==
    [reference |-> IF data.branch \in {"", "HEAD"} THEN "" ELSE "refs/heads/" \o data.branch,
     newOid |-> data.head,
     onto |-> data.branch,
     threshold |-> TwoDecimals[gossip.threshold],
     members |-> gossip.members]

\* Mutant of FillBlanks: the fields always follow the repository.
FillAll(gossip) ==
    [f \in TextField |-> IF f \in DOMAIN Offered(gossip) THEN Offered(gossip)[f] ELSE text[f]]

FillBlanks(gossip) ==
    [f \in TextField |->
        IF text[f] = "" /\ f \in DOMAIN Offered(gossip) THEN Offered(gossip)[f] ELSE text[f]]

\* load_gossip_data and what refresh does with all it has read.  Without
\* gossip data the old one stays; the rest goes on.
FinishRefresh ==
    LET gossip == IF disk.gossip.ok THEN disk.gossip ELSE data.gossip
        file == Keep(sel.file, data.entries)
        conflict == Keep(sel.conflict, data.conflicts)
    IN
    /\ load.pc = "gossip"
    /\ data' = [data EXCEPT !.gossip = gossip, !.error = ~disk.gossip.ok]
    /\ sel' = [sel EXCEPT !.file = file, !.shown = <<file, sel.staged>>,
                          !.conflict = conflict,
                          !.commit = Keep(@, data.commits)]
    /\ editor' = IF conflict = "" \/ editor.file \notin {"", conflict} THEN NoEditor ELSE editor
    /\ text' = Cleared(load.after, FillBlanks(gossip))
    /\ load' = NoLoad
    /\ UNCHANGED <<disk, picks, todo, run, inputs, changes>>

-----------------------------------------------------------------------------
(* run_command_with_env                                                    *)

RunCommand(command) ==
    /\ run' = command
    /\ UNCHANGED <<disk, data, forms, sel, editor, load, changes>>

NotRejected(args) == args # Rejected

RunGit(args) ==
    NotRejected(args) /\ RunCommand([NoRun EXCEPT !.prog = "git", !.args = args])

\* set and rest are what the form says, after the field a handler clears.
RunVcsThen(args, set, rest, after) ==
    /\ NotRejected(args)
    /\ RunCommand([NoRun EXCEPT !.prog = "vcs", !.args = args, !.after = after,
                                !.meant = [set |-> set, rest |-> rest, flag |-> ""]])

RunVcs(args, set, rest) == RunVcsThen(args, set, rest, "none")

\* The command ends by itself, reports an error, cannot be started or is
\* killed.  on_add_peer takes only the second and third for a failure.
CommandEnds(outcome) ==
    /\ run # NoRun
    /\ run' = NoRun
    /\ Refresh(IF run.after = "peer" /\ outcome \in {"failed", "unstarted"}
               THEN "none" ELSE run.after)
    /\ UNCHANGED <<disk, data, forms, sel, editor, inputs, changes>>

\* A flag that was ticked, a value that was typed.
Ticked(condition, flag) == IF condition THEN {<<flag, "true">>} ELSE {}
Given(flag, value) == IF value = "" THEN {} ELSE {<<flag, value>>}

-----------------------------------------------------------------------------
(* Git Operations, on the page Staging.                                    *)

OnStageAll == RunVcs(<<"stage">>, {}, <<>>)
OnUnstageAll == RunVcs(<<"unstage">>, {}, <<>>)

\* "Stage file" and "Unstage file" are there only if files are listed.
OnStageFile(command) ==
    /\ data.entries # <<>>
    /\ RunVcs(PathActionArgs(command, sel.file), {}, <<sel.file>>)

OnCommit(message, all) ==
    RunVcs(CommitArgs(message, all), Given("-m", message) \cup Ticked(all, "-a"), <<>>)

OnAmend(message) ==
    RunVcs(AmendArgs(message),
           Given("-m", message) \cup Ticked(message = "", "--no-edit"), <<>>)

OnCheckout(target) == RunVcs(CheckoutArgs(target), {}, <<target>>)

OnRevert(target, noCommit) ==
    RunVcs(RevertArgs(target, noCommit), Ticked(noCommit, "--no-commit"), <<target>>)

OnPull == RunVcs(<<"pull">>, {}, <<>>)

OnPush(immediate) ==
    RunVcs(PushArgs(immediate), Ticked(immediate, "--no-auto-proposal"), <<>>)

OnSquash(message, allowDirty) ==
    RunVcs(SquashArgs(text["squashLast"], text["squashFrom"], message, allowDirty),
           Given("--last", text["squashLast"]) \cup Given("--from", text["squashFrom"])
               \cup Given("-m", message) \cup Ticked(allowDirty, "--allow-dirty"), <<>>)

\* refresh_diff_output
PickFile(file) ==
    /\ file \in ToSet(data.entries) \ {sel.file}
    /\ sel' = [sel EXCEPT !.file = file, !.shown = <<file, sel.staged>>]
    /\ UNCHANGED <<disk, data, forms, editor, run, load, changes>>

ShowStaged(staged) ==
    /\ staged # sel.staged
    /\ sel' = [sel EXCEPT !.staged = staged, !.shown = <<sel.file, staged>>]
    /\ UNCHANGED <<disk, data, forms, editor, run, load, changes>>

GitPanel ==
    \/ OnStageAll
    \/ OnUnstageAll
    \/ \E command \in {"stage", "unstage"} : OnStageFile(command)
    \/ \E message \in Words, all \in BOOLEAN : OnCommit(message, all)
    \/ \E message \in Words : OnAmend(message)
    \/ \E target \in Targets : OnCheckout(target)
    \/ \E target \in Targets, noCommit \in BOOLEAN : OnRevert(target, noCommit)
    \/ OnPull
    \/ \E immediate \in BOOLEAN : OnPush(immediate)
    \/ \E message \in Words, allowDirty \in BOOLEAN : OnSquash(message, allowDirty)
    \/ \E file \in ToSet(data.entries) : PickFile(file)
    \/ \E staged \in BOOLEAN : ShowStaged(staged)

-----------------------------------------------------------------------------
(* Merge + Conflict Resolution, on the page Advanced.                      *)

OnStartMerge(target) == RunGit(MergeStartArgs(target))

\* "Continue" goes on with a merge or, without one, a rebase.
Continue ==
    \/ "merge" \in data.doing /\ RunGit(<<"merge", "--continue">>)
    \/ /\ "merge" \notin data.doing /\ "rebase" \in data.doing
       /\ RunGit(<<"rebase", "--continue">>)

Abort(what) == what \in data.doing /\ RunGit(<<what, "--abort">>)

\* The rest of the conflict part is there only if conflicts are listed.
Conflicts == data.conflicts # <<>>

\* load_selected_conflict_editor for the file f.
EditorOf(f) ==
    LET parsed == ParseConflictSections(FileLines(disk.content[f]))
    IN  IF f \notin disk.missing /\ parsed.ok
        THEN [file |-> f, sections |-> parsed.sections, error |-> FALSE]
        ELSE [file |-> f, sections |-> <<>>, error |-> TRUE]

LoadEditor ==
    /\ Conflicts
    /\ sel.conflict # ""
    /\ editor' = EditorOf(sel.conflict)
    /\ UNCHANGED <<disk, data, forms, sel, run, load, changes>>

\* Mutant of PickConflict: the editor waits for "Load line editor".
PickConflictOnly(file) ==
    /\ file \in ToSet(data.conflicts) \ {sel.conflict}
    /\ sel' = [sel EXCEPT !.conflict = file]
    /\ UNCHANGED <<disk, data, forms, editor, run, load, changes>>

PickConflict(file) ==
    /\ file \in ToSet(data.conflicts) \ {sel.conflict}
    /\ sel' = [sel EXCEPT !.conflict = file]
    /\ editor' = EditorOf(file)
    /\ UNCHANGED <<disk, data, forms, run, load, changes>>

UseForAllHunks(side) ==
    /\ Conflicts
    /\ editor' = [editor EXCEPT !.sections = ApplyConflictChoiceToAllHunks(@, side)]
    /\ UNCHANGED <<disk, data, forms, sel, run, load, changes>>

\* The buttons "ours" and "theirs" of line j of section i.
Hunks(sections) == {i \in DOMAIN sections : sections[i].kind = "hunk"}

ChooseLine(i, j, side) ==
    /\ Conflicts
    /\ editor' = [editor EXCEPT !.sections[i].choices[j] = side]
    /\ UNCHANGED <<disk, data, forms, sel, run, load, changes>>

\* save_conflict_editor_to_file; a write that fails changes nothing.
SaveEditor ==
    LET f == editor.file
        lines == ComposeConflictEditorOutput(editor.sections)
    IN
    /\ Conflicts
    /\ f # "" /\ ~editor.error
    /\ disk' = [disk EXCEPT !.content[f] = <<Plain(lines)>>, !.missing = @ \ {f}]
    /\ sel' = [sel EXCEPT !.file = f, !.staged = FALSE]
    /\ Refresh("none")
    /\ UNCHANGED <<data, forms, editor, run, changes>>

OnResolveConflictWithSide(strategy) ==
    Conflicts /\ RunGit(ConflictResolutionArgs(strategy, sel.conflict))

OnMarkConflictResolvedAdd == Conflicts /\ RunGit(GitAddPathArgs(sel.conflict))

\* Mutant of LoadInDiff: the diff panel is not filled again.
LoadInDiffLater ==
    /\ Conflicts
    /\ sel.conflict # ""
    /\ sel' = [sel EXCEPT !.file = sel.conflict, !.staged = FALSE]
    /\ UNCHANGED <<disk, data, forms, editor, run, load, changes>>

LoadInDiff ==
    /\ Conflicts
    /\ sel.conflict # ""
    /\ sel' = [sel EXCEPT !.file = sel.conflict, !.staged = FALSE,
                          !.shown = <<sel.conflict, FALSE>>]
    /\ UNCHANGED <<disk, data, forms, editor, run, load, changes>>

OnCommitMerge(message) == RunGit(MergeCommitArgs(message))

MergePanel ==
    \/ \E target \in Targets : OnStartMerge(target)
    \/ Continue
    \/ \E what \in Doing : Abort(what)
    \/ LoadEditor
    \/ \E file \in ToSet(data.conflicts) : PickConflict(file)
    \/ \E side \in {"ours", "theirs"} : UseForAllHunks(side)
    \/ \E i \in Hunks(editor.sections), side \in {"ours", "theirs"} :
          \E j \in DOMAIN editor.sections[i].choices : ChooseLine(i, j, side)
    \/ SaveEditor
    \/ \E strategy \in {"--ours", "--theirs"} : OnResolveConflictWithSide(strategy)
    \/ OnMarkConflictResolvedAdd
    \/ LoadInDiff
    \/ \E message \in Words : OnCommitMerge(message)

-----------------------------------------------------------------------------
(* Advanced History.                                                       *)

PickCommit(commit) ==
    /\ commit \in ToSet(data.commits) \ {sel.commit}
    /\ sel' = [sel EXCEPT !.commit = commit]
    /\ UNCHANGED <<disk, data, forms, editor, run, load, changes>>

\* The keyboard, or a button that copies something into text fields.
Write(texts) ==
    /\ text' = texts
    /\ UNCHANGED <<disk, data, picks, todo, sel, editor, run, load, changes>>

UseForReset == Write([text EXCEPT !["resetTarget"] = sel.commit])

UseForSquash == Write([text EXCEPT !["squashFrom"] = sel.commit, !["squashLast"] = ""])

UseReflog(selector) == Write([text EXCEPT !["resetTarget"] = selector])

\* Mutant of AddToCherryPick: also without a commit.
AddToCherryPickBlank ==
    /\ picks' = Append(picks, sel.commit)
    /\ UNCHANGED <<disk, data, text, todo, sel, editor, run, load, changes>>

AddToCherryPick ==
    /\ sel.commit # ""
    /\ picks' = Append(picks, sel.commit)
    /\ UNCHANGED <<disk, data, text, todo, sel, editor, run, load, changes>>

TypeRefs(refs) ==
    /\ picks' = refs
    /\ UNCHANGED <<disk, data, text, todo, sel, editor, run, load, changes>>

OnRunRebase(autosquash, autostash, merges) ==
    RunGit(RebaseArgs(text["onto"], autosquash, autostash, merges))

\* The buttons under "Rebase" and "Cherry-pick" ask for nothing.
OnGoOnOrAbort ==
    \/ RunGit(<<"rebase", "--continue">>)
    \/ RunGit(<<"rebase", "--abort">>)
    \/ RunGit(<<"cherry-pick", "--abort">>)

SetTodo(lines) ==
    /\ todo' = lines
    /\ UNCHANGED <<disk, data, text, picks, sel, editor, run, load, changes>>

\* The last commits; none, and an error, if "Onto" is the branch itself.
GenerateRebaseTodo(count) ==
    /\ text["onto"] \notin {"", disk.branch}
    /\ disk.loads
    /\ SetTodo([i \in 1..count |-> "pick"])

LoadRebaseTodo == disk.todo # <<>> /\ SetTodo(disk.todo)

SaveRebaseTodo ==
    /\ ValidateRebaseTodo(todo)
    /\ disk.todo # <<>>
    /\ disk' = [disk EXCEPT !.todo = todo]
    /\ UNCHANGED <<data, forms, sel, editor, run, load, changes>>

\* git rebase -i, with an editor script that copies the todo list.
StartInteractiveRebase(autosquash, autostash, merges) ==
    /\ ValidateRebaseTodo(todo)
    /\ RunGit(InteractiveRebaseArgs(text["onto"], autosquash, autostash, merges))

OnRunCherryPick(noCommit) == RunGit(CherryPickArgs(picks, noCommit))

OnRunReset(mode, confirmed) == RunGit(ResetArgs(text["resetTarget"], mode, confirmed))

HistoryPanel ==
    \/ \E commit \in ToSet(data.commits) : PickCommit(commit)
    \/ UseForReset
    \/ AddToCherryPick
    \/ \E refs \in RefLists : TypeRefs(refs)
    \/ UseForSquash
    \/ \E autosquash, autostash, merges \in BOOLEAN :
          \/ OnRunRebase(autosquash, autostash, merges)
          \/ StartInteractiveRebase(autosquash, autostash, merges)
    \/ OnGoOnOrAbort
    \/ \E count \in DOMAIN disk.commits : GenerateRebaseTodo(count)
    \/ LoadRebaseTodo
    \/ \E lines \in Todos : SetTodo(lines)
    \/ SaveRebaseTodo
    \/ \E noCommit \in BOOLEAN : OnRunCherryPick(noCommit)
    \/ \E mode \in {"--soft", "--mixed", "--hard"}, confirmed \in BOOLEAN :
          OnRunReset(mode, confirmed)
    \/ \E selector \in data.reflog : UseReflog(selector)

-----------------------------------------------------------------------------
(* The page Collaboration.                                                 *)

OnApplyConsensusConfig(clear) ==
    LET members == IF clear THEN "" ELSE text["members"]
    IN  RunVcsThen(ConsensusConfigArgs(text["threshold"], members, clear),
                   Given("--threshold", text["threshold"]) \cup Given("--members", members)
                       \cup Ticked(clear, "--clear-members"),
                   <<>>, IF clear THEN "members" ELSE "none")

LoadCurrentConfig ==
    Write([text EXCEPT !["threshold"] = TwoDecimals[data.gossip.threshold],
                       !["members"] = data.gossip.members])

OnAddPeer ==
    RunVcsThen(AddPeerArgs(text["peer"]), {}, <<"add", text["peer"]>>, "peer")

OnRemovePeer(peer) == RunVcs(<<"peer", "remove", peer>>, {}, <<"remove", peer>>)

OnSyncNow == RunVcs(<<"sync">>, {}, <<>>)

OnProcessPendingPushes ==
    RunVcs(<<"push", "--process-pending">>, Ticked(TRUE, "--process-pending"), <<>>)

OnListPendingQueue ==
    RunVcs(<<"push", "--list-pending">>, Ticked(TRUE, "--list-pending"), <<>>)

\* Nothing is asked of these forms but by vcs itself.
OnPropose(old, epoch, ttl) ==
    RunVcs(ProposeArgs(text["reference"], text["newOid"], old, epoch, ttl),
           {<<"--ref", text["reference"]>>, <<"--new", text["newOid"]>>}
               \cup Given("--old", old) \cup Given("--epoch", epoch)
               \cup (IF ttl = "" THEN {} ELSE {<<"--ttl", ttl \o "h">>}), <<>>)

OnCastVote(proposal, yes) ==
    RunVcs(VoteArgs(proposal, yes),
           {<<"--proposal", proposal>>} \cup Ticked(yes, "--yes") \cup Ticked(~yes, "--no"), <<>>)

OnCertify(proposal) == RunVcs(CertifyArgs(proposal), {<<"--proposal", proposal>>}, <<>>)

OnConsensusStatus(proposal) ==
    RunVcs(ConsensusStatusArgs(proposal), {<<"--proposal", proposal>>}, <<>>)

CollaborationTab ==
    \/ \E clear \in BOOLEAN : OnApplyConsensusConfig(clear)
    \/ LoadCurrentConfig
    \/ OnAddPeer
    \/ \E peer \in data.gossip.peers : OnRemovePeer(peer)
    \/ OnSyncNow
    \/ OnProcessPendingPushes
    \/ OnListPendingQueue
    \/ \E old, epoch, ttl \in Words : OnPropose(old, epoch, ttl)
    \/ \E proposal \in Words, yes \in BOOLEAN : OnCastVote(proposal, yes)
    \/ \E proposal \in Words : OnCertify(proposal) \/ OnConsensusStatus(proposal)

-----------------------------------------------------------------------------
(* The bottom panel, and all together.                                     *)

\* run_cli_input_command; vcs in front is optional.
WithoutVcs(words) == IF Head(words) = <<"vcs">> THEN Tail(words) ELSE words

\* The commands people type, quoted in any way that can quote them, and what
\* the front end reads.
Quotings ==
    {q \in CliLines \X {Single, Double, Blank} : \A i \in DOMAIN q[1] : CanQuote(q[1][i], q[2])}

Readings ==
    {[typed |-> q[1], parsed |-> ParseCliTokens(Trim(Typed(q[1], q[2])))] : q \in Quotings}

RunCli(typed, parsed) ==
    LET line == WithoutVcs(parsed.words)
    IN
    /\ parsed.ok /\ parsed.words # <<>> /\ line # <<>>
    /\ Head(line) \in {<<command>> : command \in AllowedVcsCommands}
    /\ RunCommand([NoRun EXCEPT !.prog = "vcs", !.line = line, !.typed = typed])

CliPanel == \E reading \in Readings : RunCli(reading.typed, reading.parsed)

TypeText == \E f \in DOMAIN Typing : \E value \in Typing[f] : Write([text EXCEPT ![f] = value])

People == GitPanel \/ MergePanel \/ HistoryPanel \/ CollaborationTab \/ CliPanel \/ TypeText

\* What anything but the front end does, commands included.
ChangeDisk ==
    /\ changes < MaxChanges
    /\ changes' = changes + 1
    /\ disk' \in Disks \ {disk}
    /\ UNCHANGED <<data, forms, sel, editor, run, load, inputs>>

\* A daemon started in the bottom panel never ends.
Daemon == run.line # <<>> /\ Head(run.line) = <<"daemon">>

Refreshing == StartRefresh \/ ReadStatus \/ ReadRepo \/ FinishRefresh

CommandEnding ==
    \E outcome \in {"done", "failed", "unstarted", "killed"} : CommandEnds(outcome)

\* new_with_runner, in the middle of its refresh.
DeskInit ==
    /\ disk \in Disks
    /\ data = NoData
    /\ text = [f \in TextField |-> IF f = "squashLast" THEN "2" ELSE ""]
    /\ picks = <<>> /\ todo = <<>>
    /\ sel = [file |-> "", staged |-> FALSE, shown |-> <<"", FALSE>>, conflict |-> "",
              commit |-> ""]
    /\ editor = NoEditor
    /\ run = NoRun
    /\ load = [NoLoad EXCEPT !.pc = "status"]
    /\ inputs = 0 /\ changes = 0

DeskNext ==
    \/ Refreshing
    \/ CommandEnding
    \/ Input /\ People
    \/ ChangeDisk

\* The timer of update refreshes as long as the window is open and "Auto
\* refresh" ticked; commands but daemons end.
DeskSpec ==
    /\ DeskInit /\ [][DeskNext]_vars
    /\ WF_vars(Refreshing)
    /\ WF_vars(~Daemon /\ CommandEnding)

-----------------------------------------------------------------------------
(* Properties.                                                             *)

Section == [kind : {"plain"}, lines : Seq(STRING)]
              \cup [kind : {"hunk"}, ours : Seq(STRING), theirs : Seq(STRING),
                    choices : Seq({"ours", "theirs"})]

\* The types of the variables; in particular no button adds a blank to the
\* list for cherry-pick, and the hunks of the editor have a side chosen for
\* every line.
DeskTypeOK ==
    /\ disk \in Disk
    /\ data.branch \in STRING /\ data.head \in Commit \cup {""}
    /\ data.entries \in Seq(File) /\ data.conflicts \in Seq(File)
    /\ data.doing \subseteq Doing /\ data.commits \in Seq(Commit)
    /\ data.reflog \subseteq STRING /\ data.gossip \in Gossip /\ data.error \in BOOLEAN
    /\ text \in [TextField -> STRING]
    /\ picks \in Seq(Ref) /\ todo \in Seq(STRING)
    /\ sel \in [file : File \cup {""}, staged : BOOLEAN,
                shown : (File \cup {""}) \X BOOLEAN,
                conflict : File \cup {""}, commit : Commit \cup {""}]
    /\ editor \in [file : File \cup {""}, sections : Seq(Section), error : BOOLEAN]
    /\ load.pc \in {"idle", "status", "repo", "gossip"}
    /\ load.entries \in Seq(File)
    /\ load.after \in {"none", "members", "peer"}
    /\ inputs \in 0..MaxInputs /\ changes \in 0..MaxChanges

\* Whenever people can click, the conflict file and the commit their clicks
\* are about are among those listed, or nothing is selected because nothing
\* is listed: though lists change under a selection and a refresh may fail at
\* every step.
SelectionsListed ==
    load.pc # "gossip" =>
        /\ IF data.conflicts = <<>> THEN sel.conflict = ""
           ELSE sel.conflict \in ToSet(data.conflicts)
        /\ IF data.commits = <<>> THEN sel.commit = ""
           ELSE sel.commit \in ToSet(data.commits)

\* The hunks on the screen, which "Save resolved file" writes, are those of
\* the file "Use ours", "Use theirs" and "Mark resolved" are about.
EditorFollowsSelection ==
    /\ editor.file \in {"", sel.conflict}
    /\ editor.file = "" => editor = NoEditor

\* The diff panel shows the selected file in the selected scope, whichever of
\* the pages changed them, unless an error is shown.
DiffFollowsScope ==
    load.pc = "idle" /\ ~data.error => sel.shown = <<sel.file, sel.staged>>

\* No refresh changes a text people have written, or throws away the choices
\* made in the editor while the file is in conflict; only the field of the
\* command that is over is cleared.
RefreshKeepsInput ==
    [][load # NoLoad /\ Idle' =>
        /\ \A f \in TextField : f # load.after => text[f] \in {"", text'[f]}
        /\ picks' = picks /\ todo' = todo
        /\ editor.file \in ToSet(data'.conflicts) => editor' = editor]_vars

\* Saving changes one file.  If that file has not changed since it was loaded
\* and its own lines look like no marker, then no marker is left; and if one
\* side was chosen everywhere, then the file is what that side has.
Saving == load = NoLoad /\ load'.pc = "status" /\ disk' # disk

SaveResolves ==
    [][Saving =>
        LET f == editor.file
            written == FileLines(disk'.content[f])
            All(sections, side) == ApplyConflictChoiceToAllHunks(sections, side)
            loaded == All(editor.sections, "ours") = All(EditorOf(f).sections, "ours")
        IN  /\ \A g \in File \ {f} : disk'.content[g] = disk.content[g]
            /\ loaded /\ Unambiguous(disk.content[f]) =>
                  /\ NoMarkers(written)
                  /\ \A side \in {"ours", "theirs"} :
                        editor.sections = All(editor.sections, side) =>
                            written = Version(disk.content[f], side)]_vars

\* vcs takes every command line built from a form for what the form says:
\* each flag with its value, and the rest as arguments.  Only what cannot be
\* said to vcs at all, a number that is none or a commit that begins with a
\* dash, is refused, and never taken for something else.
Understood ==
    run.prog = "vcs" /\ run.args # <<>> =>
        IF Fails(run.args, run.meant) THEN Fails(run.args, Understand(run.args))
        ELSE Understand(run.args) = run.meant

\* A command typed with any of the three ways to quote is refused, or reaches
\* vcs as the words that were meant, without the optional vcs in front and
\* without those that are empty, which are lost.
CliRunsTyped == run.typed # <<>> => run.line = WithoutVcs(NotEmpty(run.typed))

\* The view catches up with the repository once that rests, whatever failed
\* before, unless a daemon was started in the bottom panel.
RepoSeen ==
    /\ data.branch = disk.branch /\ data.doing = disk.doing
    /\ data.conflicts = disk.conflicts /\ data.commits = disk.commits
    /\ data.entries = ParseStatusEntries(RunGitTrim(disk.status))

ViewCatchesUp ==
    <>[](\/ Daemon
         \/ ~disk.loads /\ data.error
         \/ disk.loads /\ RepoSeen /\ ~disk.gossip.ok /\ data.error
         \/ disk.loads /\ RepoSeen /\ data.gossip = disk.gossip /\ ~data.error)

\* The files listed are files that git status has listed.
StatusPathsReal ==
    [][load.pc = "status" /\ load'.pc = "repo" =>
        ToSet(load'.entries) = {disk.status[i].file : i \in DOMAIN disk.status}]_vars
=============================================================================
