--------------------------- MODULE GuiDeskProofs ---------------------------
(***************************************************************************)
(* The front end for every repository, however it changes meanwhile, and   *)
(* for every text: what people click on is what they see, what they wrote  *)
(* stays, every variable has its type, a typed command is run as it was    *)
(* meant, a resolved file is saved without a marker and with the side that *)
(* was chosen, and vcs takes each command line for what the form says.     *)
(***************************************************************************)
EXTENDS GuiDesk, FoldProofs, SequenceTheorems

\* The records of GuiDesk have the fields they start with.
DataFields ==
    data = [branch |-> data.branch, head |-> data.head, entries |-> data.entries,
            doing |-> data.doing, conflicts |-> data.conflicts, commits |-> data.commits,
            reflog |-> data.reflog, gossip |-> data.gossip, error |-> data.error]

SelFields ==
    sel = [file |-> sel.file, staged |-> sel.staged, shown |-> sel.shown,
           conflict |-> sel.conflict, commit |-> sel.commit]

EditorFields ==
    editor = [file |-> editor.file, sections |-> editor.sections, error |-> editor.error]

LoadFields ==
    load = [pc |-> load.pc, branch |-> load.branch, head |-> load.head,
            entries |-> load.entries, after |-> load.after]

Fields == DataFields /\ SelFields /\ EditorFields /\ LoadFields

DiskFields ==
    disk = [loads |-> disk.loads, branch |-> disk.branch, commits |-> disk.commits,
            status |-> disk.status, doing |-> disk.doing, conflicts |-> disk.conflicts,
            content |-> disk.content, missing |-> disk.missing, todo |-> disk.todo,
            reflog |-> disk.reflog, gossip |-> disk.gossip]

\* The lists people select from hold files and commits.
ListsOK ==
    /\ DiskFields
    /\ disk.conflicts \in Seq(File)
    /\ disk.commits \in Seq(Commit)
    /\ data.conflicts \in Seq(File)
    /\ data.commits \in Seq(Commit)

\* A command and a refresh never run at once.
OneThread == run = NoRun \/ load = NoLoad

DeskInv ==
    /\ Fields /\ ListsOK /\ OneThread
    /\ SelectionsListed /\ EditorFollowsSelection /\ DiffFollowsScope

LEMMA DiskTyped ==
    ASSUME NEW d \in Disk
    PROVE  /\ d.conflicts \in Seq(File) /\ d.commits \in Seq(Commit)
           /\ d = [loads |-> d.loads, branch |-> d.branch, commits |-> d.commits,
                   status |-> d.status, doing |-> d.doing, conflicts |-> d.conflicts,
                   content |-> d.content, missing |-> d.missing, todo |-> d.todo,
                   reflog |-> d.reflog, gossip |-> d.gossip]
BY DEF Disk

LEMMA EmptyDomain == DOMAIN <<>> = {}
<1>1. <<>> \in Seq(STRING) /\ Len(<<>>) = 0
    OBVIOUS
<1> QED
    BY <1>1

\* What is on a list is no blank.
LEMMA ListedNotBlank ==
    ASSUME NEW list \in Seq(File), NEW file \in ToSet(list)
    PROVE  file # "" /\ list # <<>>
<1>1. PICK i \in DOMAIN list : file = list[i]
    BY DEF ToSet
<1>2. list[i] \in File
    BY <1>1
<1> QED
    BY <1>1, <1>2, DeskAssumption, EmptyDomain

\* A selection is kept on the list, if there is one.
LEMMA KeepListed ==
    ASSUME NEW S, NEW list \in Seq(S), NEW selected
    PROVE  /\ list = <<>> => Keep(selected, list) = ""
           /\ list # <<>> => Keep(selected, list) \in ToSet(list)
           /\ selected \in ToSet(list) => Keep(selected, list) = selected
<1>1. list # <<>> => Head(list) \in ToSet(list)
    BY DEF ToSet
<1>2. list = <<>> => ToSet(list) = {}
    BY DEF ToSet
<1> QED
    BY <1>1, <1>2 DEF Keep

\* It holds when the window opens.
LEMMA DeskInvStarts == DeskInit => DeskInv
<1> SUFFICES ASSUME DeskInit PROVE DeskInv
    OBVIOUS
<1>1. Fields
    BY DEF DeskInit, Fields, DataFields, SelFields, EditorFields, LoadFields, NoData,
           NoEditor, NoLoad
<1>2. ListsOK
  <2>1. DiskFields /\ disk.conflicts \in Seq(File) /\ disk.commits \in Seq(Commit)
    BY DeskAssumption, DiskTyped DEF DeskInit, DiskFields
  <2>2. data.conflicts = <<>> /\ data.commits = <<>>
    BY DEF DeskInit, NoData
  <2> QED
    BY <2>1, <2>2 DEF ListsOK
<1>3. OneThread
    BY DEF DeskInit, OneThread
<1>4. load.pc = "status"
    BY DEF DeskInit, NoLoad
<1> QED
    BY <1>1, <1>2, <1>3, <1>4
    DEF DeskInit, DeskInv, SelectionsListed, EditorFollowsSelection, DiffFollowsScope, NoData,
        NoEditor, NoLoad

-----------------------------------------------------------------------------
(* Clicks that start a command or write into a field.                      *)

NoneChanged == UNCHANGED <<disk, data, sel, editor, load>>

LEMMA CommandsChangeNothing ==
    ASSUME NEW args, NEW set, NEW rest, NEW after
    PROVE  /\ RunGit(args) => NoneChanged
           /\ RunVcs(args, set, rest) => NoneChanged
           /\ RunVcsThen(args, set, rest, after) => NoneChanged
BY DEF RunGit, RunVcs, RunVcsThen, RunCommand, NoneChanged

LEMMA WritingChangesNothing ==
    ASSUME NEW texts, NEW lines
    PROVE  (Write(texts) => NoneChanged) /\ (SetTodo(lines) => NoneChanged)
BY DEF Write, SetTodo, NoneChanged

LEMMA GitPanelSteps ==
    GitPanel => \/ NoneChanged
                \/ \E file \in ToSet(data.entries) : PickFile(file)
                \/ \E staged \in BOOLEAN : ShowStaged(staged)
BY CommandsChangeNothing
DEF GitPanel, OnStageAll, OnUnstageAll, OnStageFile, OnCommit, OnAmend, OnCheckout, OnRevert,
    OnPull, OnPush, OnSquash

LEMMA MergePanelSteps ==
    MergePanel => \/ NoneChanged
                  \/ LoadEditor
                  \/ \E file \in ToSet(data.conflicts) : PickConflict(file)
                  \/ \E side \in {"ours", "theirs"} : UseForAllHunks(side)
                  \/ \E i \in Hunks(editor.sections), side \in {"ours", "theirs"} :
                        \E j \in DOMAIN editor.sections[i].choices : ChooseLine(i, j, side)
                  \/ SaveEditor
                  \/ LoadInDiff
BY CommandsChangeNothing
DEF MergePanel, OnStartMerge, Continue, Abort, OnResolveConflictWithSide,
    OnMarkConflictResolvedAdd, OnCommitMerge

LEMMA HistoryPanelSteps ==
    HistoryPanel => \/ NoneChanged
                    \/ \E commit \in ToSet(data.commits) : PickCommit(commit)
                    \/ SaveRebaseTodo
<1>1. AddToCherryPick \/ (\E refs \in RefLists : TypeRefs(refs)) => NoneChanged
    BY DEF AddToCherryPick, TypeRefs, NoneChanged
<1> QED
    BY <1>1, CommandsChangeNothing, WritingChangesNothing
    DEF HistoryPanel, UseForReset, UseForSquash, UseReflog, OnRunRebase, OnGoOnOrAbort,
        GenerateRebaseTodo, LoadRebaseTodo, StartInteractiveRebase, OnRunCherryPick, OnRunReset

LEMMA CollaborationTabSteps == CollaborationTab => NoneChanged
BY CommandsChangeNothing, WritingChangesNothing
DEF CollaborationTab, OnApplyConsensusConfig, LoadCurrentConfig, OnAddPeer, OnRemovePeer,
    OnSyncNow, OnProcessPendingPushes, OnListPendingQueue, OnPropose, OnCastVote, OnCertify,
    OnConsensusStatus

LEMMA TypingSteps == CliPanel \/ TypeText => NoneChanged
<1>1. CliPanel => NoneChanged
    BY DEF CliPanel, RunCli, RunCommand, NoneChanged
<1>2. TypeText => NoneChanged
    BY WritingChangesNothing DEF TypeText
<1> QED
    BY <1>1, <1>2

\* While people may click, such a step keeps the invariant.
LEMMA NoneChangedKeeps ==
    ASSUME DeskInv, Idle, NoneChanged
    PROVE  DeskInv'
BY DEF DeskInv, Fields, DataFields, SelFields, EditorFields, LoadFields, ListsOK,
       DiskFields, OneThread, SelectionsListed, EditorFollowsSelection, DiffFollowsScope, Idle, NoneChanged

-----------------------------------------------------------------------------
(* Clicks that change a selection or the editor.                           *)

\* The diff panel is filled again with every new file or scope.
LEMMA DiffClicksKeep ==
    ASSUME DeskInv, Idle,
           \/ \E file \in ToSet(data.entries) : PickFile(file)
           \/ \E staged \in BOOLEAN : ShowStaged(staged)
           \/ LoadInDiff
    PROVE  DeskInv'
<1>1. UNCHANGED <<disk, data, editor, run, load>>
    BY DEF PickFile, ShowStaged, LoadInDiff
<1>2. /\ SelFields' /\ sel'.conflict = sel.conflict /\ sel'.commit = sel.commit
      /\ sel'.shown = <<sel'.file, sel'.staged>>
    BY DEF DeskInv, Fields, SelFields, PickFile, ShowStaged, LoadInDiff
<1> QED
    BY <1>1, <1>2
    DEF DeskInv, Fields, DataFields, EditorFields, LoadFields, ListsOK, DiskFields,
        OneThread, SelectionsListed, EditorFollowsSelection, DiffFollowsScope

LEMMA PickCommitKeeps ==
    ASSUME DeskInv, Idle, NEW commit \in ToSet(data.commits), PickCommit(commit)
    PROVE  DeskInv'
<1>1. UNCHANGED <<disk, data, editor, run, load>>
    BY DEF PickCommit
<1>2. /\ SelFields' /\ sel'.conflict = sel.conflict /\ sel'.commit = commit
      /\ sel'.file = sel.file /\ sel'.staged = sel.staged /\ sel'.shown = sel.shown
    BY DEF DeskInv, Fields, SelFields, PickCommit
<1>3. data.commits # <<>>
    BY DEF ToSet
<1> QED
    BY <1>1, <1>2, <1>3
    DEF DeskInv, Fields, DataFields, EditorFields, LoadFields, ListsOK, DiskFields,
        OneThread, SelectionsListed, EditorFollowsSelection, DiffFollowsScope

LEMMA EditorOfFields ==
    ASSUME NEW f
    PROVE  /\ EditorOf(f).file = f
           /\ EditorOf(f) = [file |-> EditorOf(f).file, sections |-> EditorOf(f).sections,
                             error |-> EditorOf(f).error]
BY DEF EditorOf

\* The editor is loaded for the file that is selected.
LEMMA LoadingKeeps ==
    ASSUME DeskInv, Idle,
           \/ LoadEditor
           \/ \E file \in ToSet(data.conflicts) : PickConflict(file)
    PROVE  DeskInv'
<1>1. UNCHANGED <<disk, data, run, load>>
    BY DEF LoadEditor, PickConflict
<1>2. /\ SelFields' /\ sel'.commit = sel.commit
      /\ sel'.file = sel.file /\ sel'.staged = sel.staged /\ sel'.shown = sel.shown
      /\ sel'.conflict # sel.conflict => sel'.conflict \in ToSet(data.conflicts)
      /\ editor' = EditorOf(sel'.conflict)
    BY DEF DeskInv, Fields, SelFields, LoadEditor, PickConflict
<1>3. data.conflicts # <<>>
  <2>1. LoadEditor => data.conflicts # <<>>
      BY DEF LoadEditor, Conflicts
  <2>2. ASSUME NEW file \in ToSet(data.conflicts) PROVE data.conflicts # <<>>
      BY ListedNotBlank DEF DeskInv, ListsOK
  <2> QED
      BY <2>1, <2>2
<1>4. sel'.conflict # ""
  <2>1. sel'.conflict \in ToSet(data.conflicts)
      BY <1>2, <1>3 DEF DeskInv, SelectionsListed, Idle, NoLoad
  <2> QED
      BY <2>1, ListedNotBlank DEF DeskInv, ListsOK
<1>5. EditorFields' /\ EditorFollowsSelection'
    BY <1>2, <1>4, EditorOfFields DEF EditorFields, EditorFollowsSelection
<1> QED
    BY <1>1, <1>2, <1>3, <1>5
    DEF DeskInv, Fields, DataFields, LoadFields, ListsOK, DiskFields,
        OneThread, SelectionsListed, DiffFollowsScope

LEMMA NoHunks ==
    ASSUME NEW side
    PROVE  ApplyConflictChoiceToAllHunks(<<>>, side) = <<>> /\ Hunks(<<>>) = {}
<1>1. ApplyConflictChoiceToAllHunks(<<>>, side) = <<>>
    BY EmptyDomain DEF ApplyConflictChoiceToAllHunks
<1>2. Hunks(<<>>) = {}
    BY EmptyDomain DEF Hunks
<1> QED
    BY <1>1, <1>2

\* Choosing sides leaves the file of the editor as it is.
LEMMA ChoosingKeeps ==
    ASSUME DeskInv, Idle,
           \/ \E side \in {"ours", "theirs"} : UseForAllHunks(side)
           \/ \E i \in Hunks(editor.sections), side \in {"ours", "theirs"} :
                 \E j \in DOMAIN editor.sections[i].choices : ChooseLine(i, j, side)
    PROVE  DeskInv'
<1>1. UNCHANGED <<disk, data, sel, run, load>>
    BY DEF UseForAllHunks, ChooseLine
<1>2. EditorFields' /\ editor'.file = editor.file
    BY DEF DeskInv, Fields, EditorFields, UseForAllHunks, ChooseLine
<1>3. editor.file = "" => editor' = NoEditor
  <2> SUFFICES ASSUME editor.file = "" PROVE editor' = NoEditor
      OBVIOUS
  <2>1. editor = NoEditor
      BY DEF DeskInv, EditorFollowsSelection
  <2>2. CASE \E side \in {"ours", "theirs"} : UseForAllHunks(side)
    <3>1. PICK side \in {"ours", "theirs"} :
            editor' = [editor EXCEPT !.sections = ApplyConflictChoiceToAllHunks(@, side)]
        BY <2>2 DEF UseForAllHunks
    <3> QED
        BY <2>1, <3>1, NoHunks DEF NoEditor
  <2>3. editor.sections = <<>>
      BY <2>1 DEF NoEditor
  <2> QED
      BY <2>2, <2>3, NoHunks
<1> QED
    BY <1>1, <1>2, <1>3
    DEF DeskInv, Fields, DataFields, SelFields, LoadFields, ListsOK, DiskFields,
        OneThread, SelectionsListed, EditorFollowsSelection, DiffFollowsScope

\* Saving refreshes, and changes no list.
LEMMA SavingKeeps ==
    ASSUME DeskInv, Idle, SaveEditor \/ SaveRebaseTodo
    PROVE  DeskInv'
<1>1. UNCHANGED <<data, editor, run>>
    BY DEF SaveEditor, SaveRebaseTodo
<1>2. DiskFields' /\ disk'.conflicts = disk.conflicts /\ disk'.commits = disk.commits
    BY DEF DeskInv, ListsOK, DiskFields, SaveEditor, SaveRebaseTodo
<1>3. /\ SelFields' /\ sel'.conflict = sel.conflict /\ sel'.commit = sel.commit
      /\ LoadFields' /\ load'.pc # "gossip"
      /\ load'.pc = "idle" => sel' = sel
    BY DEF DeskInv, Fields, SelFields, LoadFields, Idle, SaveEditor, SaveRebaseTodo, Refresh,
           NoLoad
<1>4. OneThread'
    BY <1>1 DEF Idle, OneThread
<1>5. load.pc = "idle"
    BY DEF Idle, NoLoad
<1> QED
    BY <1>1, <1>2, <1>3, <1>4, <1>5
    DEF DeskInv, Fields, DataFields, EditorFields, ListsOK,
        SelectionsListed, EditorFollowsSelection, DiffFollowsScope

-----------------------------------------------------------------------------
(* The refresh, the end of a command and the world outside.                *)

LEMMA OneAtATime ==
    ASSUME DeskInv
    PROVE  run = NoRun \/ load.pc = "idle"
<1>1. NoLoad.pc = "idle"
    BY DEF NoLoad
<1> QED
    BY <1>1 DEF DeskInv, OneThread

LEMMA ReadingKeeps ==
    ASSUME DeskInv, StartRefresh \/ ReadStatus \/ ReadRepo
    PROVE  DeskInv'
<1>1. CASE StartRefresh
  <2>1. UNCHANGED <<disk, data, sel, editor, run>> /\ LoadFields' /\ load'.pc = "status"
      BY <1>1 DEF StartRefresh, Refresh, LoadFields, NoLoad
  <2>2. run = NoRun /\ load.pc = "idle"
      BY <1>1 DEF StartRefresh, Idle, NoLoad
  <2> QED
      BY <2>1, <2>2
      DEF DeskInv, Fields, DataFields, SelFields, EditorFields, ListsOK, DiskFields,
          OneThread, SelectionsListed, EditorFollowsSelection, DiffFollowsScope
<1>2. CASE ReadStatus
  <2>1. run = NoRun /\ load.pc = "status"
      BY <1>2, OneAtATime DEF ReadStatus
  <2>2. /\ UNCHANGED <<disk, sel, editor, run>>
        /\ DataFields' /\ data'.conflicts = data.conflicts /\ data'.commits = data.commits
        /\ LoadFields' /\ load'.pc \in {"repo", "idle"}
        /\ load'.pc = "idle" => data'.error
    <3>1. CASE disk.loads
        BY <1>2, <3>1 DEF DeskInv, Fields, DataFields, LoadFields, ReadStatus
    <3>2. CASE ~disk.loads
      <4>1. /\ UNCHANGED <<disk, sel, editor, run>> /\ load' = NoLoad
            /\ data' = [data EXCEPT !.error = TRUE]
          BY <1>2, <3>2 DEF ReadStatus
      <4>2. DataFields' /\ data'.conflicts = data.conflicts /\ data'.commits = data.commits
            /\ data'.error
          BY <4>1 DEF DeskInv, Fields, DataFields
      <4>3. LoadFields' /\ load'.pc = "idle"
          BY <4>1 DEF LoadFields, NoLoad
      <4> QED
          BY <4>1, <4>2, <4>3
    <3> QED
        BY <3>1, <3>2
  <2> QED
      BY <2>1, <2>2
      DEF DeskInv, Fields, SelFields, EditorFields, ListsOK, DiskFields,
          OneThread, SelectionsListed, EditorFollowsSelection, DiffFollowsScope
<1>3. CASE ReadRepo
  <2>1. run = NoRun
      BY <1>3, OneAtATime DEF ReadRepo
  <2>2. /\ UNCHANGED <<disk, sel, editor, run>>
        /\ DataFields' /\ data'.conflicts = disk.conflicts
        /\ data'.commits \in {<<>>, disk.commits}
        /\ LoadFields' /\ load'.pc = "gossip"
      BY <1>3 DEF DeskInv, Fields, DataFields, LoadFields, ReadRepo
  <2>3. DiskFields'
      BY <2>2 DEF DeskInv, ListsOK, DiskFields
  <2>4. data'.conflicts \in Seq(File) /\ data'.commits \in Seq(Commit)
    <3>1. <<>> \in Seq(Commit)
        OBVIOUS
    <3>2. data'.conflicts = disk.conflicts /\ data'.commits \in {<<>>, disk.commits}
        BY <2>2
    <3>3. disk.conflicts \in Seq(File) /\ disk.commits \in Seq(Commit)
        BY DEF DeskInv, ListsOK
    <3> QED
        BY <3>1, <3>2, <3>3
  <2>5. ListsOK'
      BY <2>2, <2>3, <2>4 DEF DeskInv, ListsOK
  <2> QED
      BY <2>1, <2>2, <2>5
      DEF DeskInv, Fields, SelFields, EditorFields,
          OneThread, SelectionsListed, EditorFollowsSelection, DiffFollowsScope
<1> QED
    BY <1>1, <1>2, <1>3

\* What the last step of a refresh does to the selections and the editor.
LEMMA Finishing ==
    ASSUME DeskInv, FinishRefresh
    PROVE  /\ UNCHANGED <<disk, run>> /\ run = NoRun
           /\ DataFields' /\ data'.conflicts = data.conflicts /\ data'.commits = data.commits
           /\ SelFields' /\ sel'.shown = <<sel'.file, sel'.staged>>
           /\ sel'.conflict = Keep(sel.conflict, data.conflicts)
           /\ sel'.commit = Keep(sel.commit, data.commits)
           /\ editor' = IF sel'.conflict = "" \/ editor.file \notin {"", sel'.conflict}
                        THEN NoEditor ELSE editor
           /\ load' = NoLoad /\ LoadFields'
<1>1. UNCHANGED <<disk, run>> /\ load' = NoLoad /\ LoadFields'
    BY DEF FinishRefresh, LoadFields, NoLoad
<1>2. run = NoRun
    BY OneAtATime DEF FinishRefresh
<1>3. DataFields' /\ data'.conflicts = data.conflicts /\ data'.commits = data.commits
    BY DEF DeskInv, Fields, DataFields, FinishRefresh
<1>4. /\ SelFields' /\ sel'.shown = <<sel'.file, sel'.staged>>
      /\ sel'.conflict = Keep(sel.conflict, data.conflicts)
      /\ sel'.commit = Keep(sel.commit, data.commits)
    BY DEF DeskInv, Fields, SelFields, FinishRefresh
<1>5. editor' = IF sel'.conflict = "" \/ editor.file \notin {"", sel'.conflict}
                THEN NoEditor ELSE editor
    BY <1>4 DEF FinishRefresh
<1> QED
    BY <1>1, <1>2, <1>3, <1>4, <1>5

LEMMA FinishingKeeps ==
    ASSUME DeskInv, FinishRefresh
    PROVE  DeskInv'
<1>1. SelectionsListed'
  <2>1. /\ data.conflicts = <<>> => Keep(sel.conflict, data.conflicts) = ""
        /\ data.conflicts # <<>> =>
              Keep(sel.conflict, data.conflicts) \in ToSet(data.conflicts)
    <3>1. data.conflicts \in Seq(File)
        BY DEF DeskInv, ListsOK
    <3> QED
        BY <3>1, KeepListed, Zenon
  <2>2. /\ data.commits = <<>> => Keep(sel.commit, data.commits) = ""
        /\ data.commits # <<>> => Keep(sel.commit, data.commits) \in ToSet(data.commits)
    <3>1. data.commits \in Seq(Commit)
        BY DEF DeskInv, ListsOK
    <3> QED
        BY <3>1, KeepListed, Zenon
  <2>3. /\ data'.conflicts = data.conflicts /\ data'.commits = data.commits
        /\ sel'.conflict = Keep(sel.conflict, data.conflicts)
        /\ sel'.commit = Keep(sel.commit, data.commits)
      BY Finishing
  <2> QED
      BY <2>1, <2>2, <2>3 DEF SelectionsListed
<1>2. EditorFields' /\ EditorFollowsSelection'
  <2>1. CASE sel'.conflict = "" \/ editor.file \notin {"", sel'.conflict}
    <3>1. editor' = NoEditor
        BY <2>1, Finishing
    <3> QED
        BY <3>1 DEF EditorFields, EditorFollowsSelection, NoEditor
  <2>2. CASE ~(sel'.conflict = "" \/ editor.file \notin {"", sel'.conflict})
    <3>1. editor' = editor
        BY <2>2, Finishing
    <3> QED
        BY <2>2, <3>1 DEF DeskInv, Fields, EditorFields, EditorFollowsSelection
  <2> QED
      BY <2>1, <2>2
<1>3. DiffFollowsScope'
    BY Finishing DEF DiffFollowsScope
<1>4. ListsOK' /\ OneThread'
    BY Finishing DEF DeskInv, ListsOK, DiskFields, OneThread
<1> QED
    BY <1>1, <1>2, <1>3, <1>4, Finishing DEF DeskInv, Fields

LEMMA EndingKeeps ==
    ASSUME DeskInv, NEW outcome, CommandEnds(outcome)
    PROVE  DeskInv'
<1>1. /\ UNCHANGED <<disk, data, sel, editor>>
      /\ run' = NoRun /\ LoadFields' /\ load'.pc = "status"
    BY DEF CommandEnds, Refresh, LoadFields, NoLoad
<1>2. load.pc = "idle"
    BY OneAtATime DEF CommandEnds
<1> QED
    BY <1>1, <1>2
    DEF DeskInv, Fields, DataFields, SelFields, EditorFields, ListsOK, DiskFields,
        OneThread, SelectionsListed, EditorFollowsSelection, DiffFollowsScope

LEMMA ChangesKeep ==
    ASSUME DeskInv, ChangeDisk \/ UNCHANGED vars
    PROVE  DeskInv'
<1>1. UNCHANGED <<data, sel, editor, run, load>>
    BY DEF ChangeDisk, vars
<1>2. DiskFields' /\ disk'.conflicts \in Seq(File) /\ disk'.commits \in Seq(Commit)
  <2>1. CASE ChangeDisk
      BY <2>1, DeskAssumption, DiskTyped DEF ChangeDisk, DiskFields
  <2>2. CASE UNCHANGED vars
      BY <2>2 DEF vars, DeskInv, ListsOK, DiskFields
  <2> QED
      BY <2>1, <2>2
<1> QED
    BY <1>1, <1>2
    DEF DeskInv, Fields, DataFields, SelFields, EditorFields, LoadFields, ListsOK,
        OneThread, SelectionsListed, EditorFollowsSelection, DiffFollowsScope

\* The invariant of the front end, step by step.
LEMMA PeopleKeep ==
    ASSUME DeskInv, Input, People
    PROVE  DeskInv'
<1>1. Idle
    BY DEF Input
<1>2. CASE GitPanel
    BY <1>1, <1>2, GitPanelSteps, NoneChangedKeeps, DiffClicksKeep
<1>3. CASE MergePanel
    BY <1>1, <1>3, MergePanelSteps, NoneChangedKeeps, DiffClicksKeep, LoadingKeeps,
       ChoosingKeeps, SavingKeeps
<1>4. CASE HistoryPanel
    BY <1>1, <1>4, HistoryPanelSteps, NoneChangedKeeps, PickCommitKeeps, SavingKeeps
<1>5. CASE CollaborationTab \/ CliPanel \/ TypeText
    BY <1>1, <1>5, CollaborationTabSteps, TypingSteps, NoneChangedKeeps
<1> QED
    BY <1>2, <1>3, <1>4, <1>5 DEF People

LEMMA DeskInvHolds == DeskSpec => []DeskInv
<1>1. DeskInv /\ [DeskNext]_vars => DeskInv'
  <2> SUFFICES ASSUME DeskInv, [DeskNext]_vars PROVE DeskInv'
      OBVIOUS
  <2>1. CASE Refreshing
      BY <2>1, ReadingKeeps, FinishingKeeps DEF Refreshing
  <2>2. CASE CommandEnding
      BY <2>2, EndingKeeps DEF CommandEnding
  <2>3. CASE Input /\ People
      BY <2>3, PeopleKeep
  <2>4. CASE ChangeDisk \/ UNCHANGED vars
      BY <2>4, ChangesKeep
  <2> QED
      BY <2>1, <2>2, <2>3, <2>4 DEF DeskNext
<1> QED
    BY <1>1, DeskInvStarts, PTL DEF DeskSpec

-----------------------------------------------------------------------------
(* The theorems.                                                           *)

\* What clicks in the lists of conflicts and commits are about is listed
\* (refresh and the boxes "Conflict file" and "Recent commit").
THEOREM SelectionsListedHolds == DeskSpec => []SelectionsListed
<1>1. DeskInv => SelectionsListed
    BY DEF DeskInv
<1> QED
    BY <1>1, DeskInvHolds, PTL

\* "Save resolved file" writes the file that is selected (refresh,
\* load_selected_conflict_editor and save_conflict_editor_to_file).
THEOREM EditorFollowsSelectionHolds == DeskSpec => []EditorFollowsSelection
<1>1. DeskInv => EditorFollowsSelection
    BY DEF DeskInv
<1> QED
    BY <1>1, DeskInvHolds, PTL

\* The diff panel shows the selected file unless an error is shown (refresh,
\* refresh_diff_output and save_conflict_editor_to_file).
THEOREM DiffFollowsScopeHolds == DeskSpec => []DiffFollowsScope
<1>1. DeskInv => DiffFollowsScope
    BY DEF DeskInv
<1> QED
    BY <1>1, DeskInvHolds, PTL

\* One step of a refresh throws away nothing that people have written.
LEMMA StepKeepsInput ==
    ASSUME DeskInv, [DeskNext]_vars, load # NoLoad, Idle'
    PROVE  /\ \A f \in TextField : f # load.after => text[f] \in {"", text'[f]}
           /\ picks' = picks /\ todo' = todo
           /\ editor.file \in ToSet(data'.conflicts) => editor' = editor
<1>1. CASE ReadStatus
  <2>1. ~disk.loads /\ text' = Cleared(load.after, text)
    <3>1. disk.loads => load'.pc = "repo"
        BY <1>1 DEF ReadStatus, DeskInv, Fields, LoadFields
    <3>2. load'.pc = "idle"
        BY DEF Idle, NoLoad
    <3> QED
        BY <1>1, <3>1, <3>2 DEF ReadStatus
  <2>2. \A f \in TextField : f # load.after => text'[f] = text[f]
      BY <2>1 DEF Cleared
  <2> QED
      BY <1>1, <2>2 DEF ReadStatus
<1>2. CASE FinishRefresh
  <2>1. \A f \in TextField : f # load.after => text[f] \in {"", text'[f]}
    <3>1. PICK gossip : text' = Cleared(load.after, FillBlanks(gossip))
        BY <1>2 DEF FinishRefresh
    <3>2. \A f \in TextField : FillBlanks(gossip)[f] = text[f] \/ text[f] = ""
        BY DEF FillBlanks
    <3>3. \A f \in TextField : f # load.after => text'[f] = FillBlanks(gossip)[f]
        BY <3>1 DEF Cleared
    <3> QED
        BY <3>2, <3>3
  <2>2. picks' = picks /\ todo' = todo
      BY <1>2 DEF FinishRefresh
  <2>3. editor.file \in ToSet(data'.conflicts) => editor' = editor
    <3> SUFFICES ASSUME editor.file \in ToSet(data'.conflicts) PROVE editor' = editor
        OBVIOUS
    <3>1. data.conflicts \in Seq(File) /\ editor.file \in ToSet(data.conflicts)
        BY <1>2, Finishing DEF DeskInv, ListsOK
    <3>2. editor.file # ""
        BY <3>1, ListedNotBlank
    <3>3. sel.conflict = editor.file
        BY <3>2 DEF DeskInv, EditorFollowsSelection
    <3>4. Keep(sel.conflict, data.conflicts) = editor.file
        BY <3>1, <3>3 DEF Keep
    <3> QED
        BY <1>2, <3>2, <3>4, Finishing
  <2> QED
      BY <2>1, <2>2, <2>3
<1>3. load' = NoLoad /\ load'.pc = "idle"
    BY DEF Idle, NoLoad
<1>4. ~(StartRefresh \/ (Input /\ People) \/ ChangeDisk \/ UNCHANGED vars)
    BY <1>3 DEF StartRefresh, Input, Idle, ChangeDisk, vars
<1>5. ~ReadRepo
    BY <1>3 DEF ReadRepo, DeskInv, Fields, LoadFields
<1>6. ~CommandEnding
    BY <1>3 DEF CommandEnding, CommandEnds, Refresh, NoLoad
<1> QED
    BY <1>1, <1>2, <1>4, <1>5, <1>6 DEF DeskNext, Refreshing

\* No refresh throws away what people have written (refresh).
THEOREM RefreshKeepsInputHolds == DeskSpec => RefreshKeepsInput
<1>1. DeskInv /\ [DeskNext]_vars =>
        [load # NoLoad /\ Idle' =>
            /\ \A f \in TextField : f # load.after => text[f] \in {"", text'[f]}
            /\ picks' = picks /\ todo' = todo
            /\ editor.file \in ToSet(data'.conflicts) => editor' = editor]_vars
    BY StepKeepsInput
<1> QED
    BY <1>1, DeskInvHolds, PTL DEF DeskSpec, RefreshKeepsInput

-----------------------------------------------------------------------------
(* The loops of parse_conflict_sections.                                   *)

Lines == Seq(STRING)

Reader == [in : {"plain", "ours", "theirs"}, done : Seq(Section), plain : Lines,
           ours : Lines, theirs : Lines]

ReaderStarts == [in |-> "plain", done |-> <<>>, plain |-> <<>>, ours |-> <<>>, theirs |-> <<>>]

Reading == [x \in Reader \X STRING |-> TakeLine(x[1], x[2])]

LEMMA LineFacts ==
    /\ <<>> \in Lines
    /\ \A ch \in STRING : <<ch>> \in Lines
    /\ \A ch, other \in STRING : <<ch, other>> = <<ch>> \o <<other>> /\ <<ch, other>> \in Lines
    /\ \A line, other \in Lines : line \o other \in Lines
    /\ \A line \in Lines, ch \in STRING : Append(line, ch) \in Lines
<1>1. \A T : <<>> \in Seq(T)
  OBVIOUS
<1>2. \A T : \A t \in T : <<t>> \in Seq(T)
  OBVIOUS
<1>3. ASSUME NEW T, NEW t \in T, NEW u \in T PROVE <<t, u>> = <<t>> \o <<u>>
  <2>1. <<t, u>> = Append(<<t>>, u)
    OBVIOUS
  <2>2. <<t>> \in Seq(T)
    OBVIOUS
  <2>3. \A s \in Seq(T) : Append(s, u) = s \o <<u>>
    OBVIOUS
  <2> QED
    BY <2>1, <2>2, <2>3, Zenon
<1>4. \A T : \A s, u \in Seq(T) : s \o u \in Seq(T)
  OBVIOUS
<1>5. \A T : \A s \in Seq(T), t \in T : Append(s, t) \in Seq(T)
  OBVIOUS
<1>6. \A T : \A t, u \in T : <<t, u>> \in Seq(T)
  BY <1>2, <1>3, <1>4
<1> QED
  BY <1>1, <1>2, <1>3, <1>4, <1>5, <1>6, Zenon DEF Lines

\* The sequence r is s and one element more.
OneLonger(r, s, e) ==
    /\ Len(s) \in Nat /\ DOMAIN s = 1..Len(s)
    /\ Len(r) = Len(s) + 1 /\ DOMAIN r = 1..(Len(s) + 1)
    /\ \A i \in 1..Len(s) : r[i] = s[i]
    /\ r[Len(s) + 1] = e
    /\ r = [i \in 1..(Len(s) + 1) |-> r[i]]
    /\ r = s \o <<e>>

LEMMA AppendFacts ==
    ASSUME NEW T, NEW s \in Seq(T), NEW e \in T
    PROVE  OneLonger(Append(s, e), s, e)
<1> DEFINE r == Append(s, e)
<1>1. /\ Len(s) \in Nat /\ DOMAIN s = 1..Len(s)
      /\ r \in Seq(T) /\ Len(r) = Len(s) + 1 /\ DOMAIN r = 1..(Len(s) + 1)
      /\ \A i \in 1..Len(s) : r[i] = s[i]
      /\ r[Len(s) + 1] = e
  OBVIOUS
<1>2. r = s \o <<e>>
  OBVIOUS
<1> HIDE DEF r
<1>3. r = [i \in 1..(Len(s) + 1) |-> r[i]]
  BY <1>1
<1>4. OneLonger(r, s, e)
  BY <1>1, <1>2, <1>3 DEF OneLonger
<1> QED
  BY <1>4 DEF r

\* The sections with lines from a set.
SectionOf(T) ==
    [kind : {"plain"}, lines : Seq(T)]
        \cup [kind : {"hunk"}, ours : Seq(T), theirs : Seq(T), choices : Seq({"ours", "theirs"})]

LEMMA SectionIs == Section = SectionOf(STRING) /\ Lines = Seq(STRING)
  BY DEF Section, SectionOf, Lines

LEMMA HunkType ==
    ASSUME NEW T, NEW ours \in Seq(T), NEW theirs \in Seq(T)
    PROVE  /\ Hunk(ours, theirs) \in SectionOf(T)
           /\ Hunk(ours, theirs).kind = "hunk"
           /\ Hunk(ours, theirs).ours = ours /\ Hunk(ours, theirs).theirs = theirs
           /\ Len(ours) <= Len(Hunk(ours, theirs).choices)
           /\ Len(theirs) <= Len(Hunk(ours, theirs).choices)
<1> DEFINE lines == IF Len(ours) > Len(theirs) THEN Len(ours) ELSE Len(theirs)
           choices == [i \in 1..lines |-> IF i <= Len(ours) THEN "ours" ELSE "theirs"]
<1>1. Len(ours) \in Nat /\ Len(theirs) \in Nat
  OBVIOUS
<1>2. lines \in Nat /\ Len(ours) <= lines /\ Len(theirs) <= lines
  BY <1>1
<1> HIDE DEF lines
<1>3. choices \in Seq({"ours", "theirs"}) /\ Len(choices) = lines
  BY <1>2
<1>4. Hunk(ours, theirs) = [kind |-> "hunk", ours |-> ours, theirs |-> theirs,
                            choices |-> choices]
  BY DEF Hunk, lines
<1> HIDE DEF choices
<1> QED
  BY <1>2, <1>3, <1>4 DEF SectionOf

LEMMA FlushType ==
    ASSUME NEW T, NEW plain \in Seq(T)
    PROVE  Flush(plain) \in Seq(SectionOf(T))
<1>1. Plain(plain) \in SectionOf(T)
  BY DEF Plain, SectionOf
<1> QED
  BY <1>1 DEF Flush

\* The fields of the reader after a line.
LEMMA TakeLineFields ==
    ASSUME NEW s \in Reader, NEW line \in STRING
    PROVE  LET next == TakeLine(s, line) IN
           /\ next \in Reader
           /\ s.in = "plain" /\ line # Start =>
                 next = [s EXCEPT !.plain = Append(s.plain, line)]
           /\ s.in = "plain" /\ line = Start =>
                 next = [in |-> "ours", done |-> s.done \o Flush(s.plain), plain |-> <<>>,
                         ours |-> <<>>, theirs |-> <<>>]
           /\ s.in = "ours" /\ line # Middle =>
                 next = [s EXCEPT !.ours = Append(s.ours, line)]
           /\ s.in = "ours" /\ line = Middle => next = [s EXCEPT !.in = "theirs"]
           /\ s.in = "theirs" /\ line # End =>
                 next = [s EXCEPT !.theirs = Append(s.theirs, line)]
           /\ s.in = "theirs" /\ line = End =>
                 next = [s EXCEPT !.in = "plain",
                                  !.done = Append(s.done, Hunk(s.ours, s.theirs))]
<1>0. /\ s.in \in {"plain", "ours", "theirs"}
      /\ s.done \in Seq(Section) /\ s.plain \in Lines /\ s.ours \in Lines
      /\ s.theirs \in Lines
      /\ s = [in |-> s.in, done |-> s.done, plain |-> s.plain, ours |-> s.ours,
              theirs |-> s.theirs]
  BY DEF Reader
<1>1. CASE s.in = "plain" /\ line # Start
  <2>1. TakeLine(s, line) = [s EXCEPT !["plain"] = Append(s.plain, line)]
    BY <1>0, <1>1 DEF TakeLine
  <2>2. Append(s.plain, line) \in Lines
    BY <1>0 DEF Lines
  <2> QED
    BY <1>0, <1>1, <2>1, <2>2 DEF Reader
<1>2. CASE s.in = "plain" /\ line = Start
  <2>1. TakeLine(s, line) = [in |-> "ours", done |-> s.done \o Flush(s.plain), plain |-> <<>>,
                             ours |-> <<>>, theirs |-> <<>>]
    BY <1>2 DEF TakeLine
  <2>2. s.done \o Flush(s.plain) \in Seq(Section) /\ <<>> \in Lines
    BY <1>0, FlushType, SectionIs, LineFacts
  <2> QED
    BY <1>2, <2>1, <2>2 DEF Reader
<1>3. CASE s.in = "ours" /\ line # Middle
  <2>1. TakeLine(s, line) = [s EXCEPT !["ours"] = Append(s.ours, line)]
    BY <1>0, <1>3 DEF TakeLine
  <2>2. Append(s.ours, line) \in Lines
    BY <1>0 DEF Lines
  <2> QED
    BY <1>0, <1>3, <2>1, <2>2 DEF Reader
<1>4. CASE s.in = "ours" /\ line = Middle
  <2>1. TakeLine(s, line) = [s EXCEPT !.in = "theirs"]
    BY <1>4 DEF TakeLine
  <2> QED
    BY <1>0, <1>4, <2>1 DEF Reader
<1>5. CASE s.in = "theirs" /\ line # End
  <2>1. TakeLine(s, line) = [s EXCEPT !["theirs"] = Append(s.theirs, line)]
    BY <1>0, <1>5 DEF TakeLine
  <2>2. Append(s.theirs, line) \in Lines
    BY <1>0 DEF Lines
  <2> QED
    BY <1>0, <1>5, <2>1, <2>2 DEF Reader
<1>6. CASE s.in = "theirs" /\ line = End
  <2>1. TakeLine(s, line) = [s EXCEPT !.in = "plain",
                                      !.done = Append(s.done, Hunk(s.ours, s.theirs))]
    BY <1>6 DEF TakeLine
  <2>2. Append(s.done, Hunk(s.ours, s.theirs)) \in Seq(Section)
    BY <1>0, HunkType, SectionIs
  <2> QED
    BY <1>0, <1>6, <2>1, <2>2 DEF Reader
<1> QED
  BY <1>0, <1>1, <1>2, <1>3, <1>4, <1>5, <1>6

LEMMA ReadingType ==
    /\ Reading \in [Reader \X STRING -> Reader]
    /\ \A s \in Reader, line \in STRING : Reading[<<s, line>>] = TakeLine(s, line)
    /\ ReaderStarts \in Reader
<1>1. \A s \in Reader, line \in STRING : TakeLine(s, line) \in Reader
  BY TakeLineFields
<1>2. ReaderStarts \in Reader
  BY DEF ReaderStarts, Reader, Lines
<1> QED
  BY <1>1, <1>2 DEF Reading

LEMMA ReadingEnds ==
    ASSUME NEW s \in Lines
    PROVE  EndsIn(Reader, Reading, ReaderStarts, s, FoldLeft(TakeLine, ReaderStarts, s))
<1> DEFINE Obeys(f) == f = [t \in SUBSET (DOMAIN s) |->
               IF t = {} THEN ReaderStarts ELSE TakeLine(f[t \ {Max(t)}], s[Max(t)])]
           iter == CHOOSE f : Obeys(f)
<1>0. s \in Seq(STRING) /\ Len(s) \in Nat /\ DOMAIN s = 1..Len(s)
  BY DEF Lines
<1>1. PICK f : Recursion(f, Reader, ReaderStarts, s, Reading)
  BY <1>0, ReadingType, FoldExists
<1>2. f \in [SUBSET (DOMAIN s) -> Reader] /\ f[{}] = ReaderStarts
  BY <1>1 DEF Recursion
<1>3. ASSUME NEW t \in SUBSET (DOMAIN s), t # {} PROVE s[Max(t)] \in STRING
  <2>1. Max(t) \in DOMAIN s
    BY <1>0, <1>3, MaxUpTo
  <2> QED
    BY <1>0, <2>1
<1>4. \A t \in SUBSET (DOMAIN s) : t # {} => f[t] = TakeLine(f[t \ {Max(t)}], s[Max(t)])
  BY <1>1, <1>2, <1>3, ReadingType DEF Recursion
<1>5. Obeys(f)
  BY <1>2, <1>4
<1>6. Obeys(iter)
  BY <1>5
<1>7. FoldLeft(TakeLine, ReaderStarts, s) = iter[DOMAIN s]
  BY DEF FoldLeft, MapThenFoldSet
<1> HIDE DEF iter
<1>8. iter[{}] = ReaderStarts
  BY <1>6
<1>9. \A t \in SUBSET (DOMAIN s) :
          t # {} /\ iter[t \ {Max(t)}] \in Reader =>
              iter[t] = Reading[<<iter[t \ {Max(t)}], s[Max(t)]>>]
  BY <1>3, <1>6, ReadingType
<1>10. EndsIn(Reader, Reading, ReaderStarts, s, iter[DOMAIN s])
  BY <1>0, <1>8, <1>9, ReadingType, FoldEnds
<1> QED
  BY <1>7, <1>10

-----------------------------------------------------------------------------
(* The types of what is taken apart and put together.                      *)

LEMMA ParsedType ==
    ASSUME NEW lines \in Lines
    PROVE  /\ ParseConflictSections(lines).sections \in Seq(Section)
           /\ ParseConflictSections(lines).ok \in BOOLEAN
<1> DEFINE s == FoldLeft(TakeLine, ReaderStarts, lines)
<1>1. s \in Reader
  BY ReadingEnds, EndsOnce DEF Lines
<1>2. ParseConflictSections(lines) = [ok |-> s.in = "plain", sections |-> s.done \o Flush(s.plain)]
  BY DEF ParseConflictSections, ReaderStarts
<1> HIDE DEF s
<1>3. s.done \in Seq(Section) /\ Flush(s.plain) \in Seq(Section)
  BY <1>1, FlushType, SectionIs DEF Reader
<1> QED
  BY <1>2, <1>3

LEMMA MarkersText == Start \in STRING /\ Middle \in STRING /\ End \in STRING
  BY LiteralAssumption

LEMMA FileLinesType ==
    ASSUME NEW blocks \in Seq(Block)
    PROVE  FileLines(blocks) \in Lines
<1> DEFINE parts == [i \in DOMAIN blocks |-> BlockLines(blocks[i])]
<1>1. <<Start>> \in Lines /\ <<Middle>> \in Lines /\ <<End>> \in Lines
  <2>1. \A T : \A t \in T : <<t>> \in Seq(T)
    OBVIOUS
  <2> QED
    BY <2>1, MarkersText, Zenon DEF Lines
<1>2. ASSUME NEW b \in Block PROVE BlockLines(b) \in Lines
  <2>1. CASE b.kind = "plain"
    BY <2>1 DEF Block, BlockLines, Lines
  <2>2. CASE b.kind # "plain"
    <3>1. b.ours \in Lines /\ b.theirs \in Lines
      BY <2>2 DEF Block, Lines
    <3>2. \A x, y \in Lines : x \o y \in Lines
      BY DEF Lines
    <3> QED
      BY <1>1, <2>2, <3>1, <3>2, Zenon DEF BlockLines
  <2> QED
    BY <2>1, <2>2
<1>3. parts \in Seq(Lines)
  BY <1>2
<1> HIDE DEF parts
<1>4. FlattenSeq(parts) \in Lines
  BY <1>3, FlattenType DEF Lines
<1> QED
  BY <1>4 DEF FileLines, parts

\* The two sides of a hunk, and its choices.
LEMMA HunkFields ==
    ASSUME NEW T, NEW hunk \in SectionOf(T), hunk.kind # "plain"
    PROVE  /\ hunk.kind = "hunk"
           /\ hunk.ours \in Seq(T) /\ hunk.theirs \in Seq(T)
           /\ \A side \in {"ours", "theirs"} : hunk[side] \in Seq(T)
           /\ hunk.choices \in Seq({"ours", "theirs"})
           /\ hunk = [kind |-> "hunk", ours |-> hunk.ours, theirs |-> hunk.theirs,
                      choices |-> hunk.choices]
<1>1. /\ hunk.kind = "hunk"
      /\ hunk.ours \in Seq(T) /\ hunk.theirs \in Seq(T)
      /\ hunk.choices \in Seq({"ours", "theirs"})
      /\ hunk = [kind |-> "hunk", ours |-> hunk.ours, theirs |-> hunk.theirs,
                 choices |-> hunk.choices]
  BY DEF SectionOf
<1>2. hunk["ours"] = hunk.ours /\ hunk["theirs"] = hunk.theirs
  OBVIOUS
<1> QED
  BY <1>1, <1>2

\* The line with number i of a side, if there is one.
LineOf(side, i) == IF i \in DOMAIN side THEN <<side[i]>> ELSE <<>>

LEMMA LineOfType ==
    ASSUME NEW T, NEW side \in Seq(T), NEW i
    PROVE  LineOf(side, i) \in Seq(T)
<1>1. \A t \in T : <<t>> \in Seq(T)
  OBVIOUS
<1>2. i \in DOMAIN side => side[i] \in T
  OBVIOUS
<1>3. <<>> \in Seq(T)
  OBVIOUS
<1> QED
  BY <1>1, <1>2, <1>3, Zenon DEF LineOf

LEMMA ChosenType ==
    ASSUME NEW T, NEW hunk \in SectionOf(T), hunk.kind # "plain"
    PROVE  /\ Chosen(hunk) = FlattenSeq([i \in DOMAIN hunk.choices |->
                                            LineOf(hunk[hunk.choices[i]], i)])
           /\ Chosen(hunk) \in Seq(T)
<1> DEFINE parts == [i \in DOMAIN hunk.choices |-> LineOf(hunk[hunk.choices[i]], i)]
<1>1. Chosen(hunk) = FlattenSeq(parts)
  BY DEF Chosen, LineOf
<1>2. ASSUME NEW i \in DOMAIN hunk.choices
      PROVE  LineOf(hunk[hunk.choices[i]], i) \in Seq(T)
  <2>1. hunk.choices[i] \in {"ours", "theirs"}
    BY HunkFields
  <2>2. hunk[hunk.choices[i]] \in Seq(T)
    BY <2>1, HunkFields
  <2> QED
    BY <2>2, LineOfType
<1>3. parts \in Seq(Seq(T))
  BY <1>2, HunkFields
<1> HIDE DEF parts
<1> QED
  BY <1>1, <1>3, FlattenType DEF parts

OutputOf(section) == IF section.kind = "plain" THEN section.lines ELSE Chosen(section)

LEMMA ComposedType ==
    ASSUME NEW T, NEW sections \in Seq(SectionOf(T))
    PROVE  /\ ComposeConflictEditorOutput(sections) =
                 FlattenSeq([i \in DOMAIN sections |-> OutputOf(sections[i])])
           /\ [i \in DOMAIN sections |-> OutputOf(sections[i])] \in Seq(Seq(T))
           /\ ComposeConflictEditorOutput(sections) \in Seq(T)
<1> DEFINE parts == [i \in DOMAIN sections |-> OutputOf(sections[i])]
<1>1. ComposeConflictEditorOutput(sections) = FlattenSeq(parts)
  BY DEF ComposeConflictEditorOutput, OutputOf
<1>2. ASSUME NEW s \in SectionOf(T) PROVE OutputOf(s) \in Seq(T)
  <2>1. CASE s.kind = "plain"
    BY <2>1 DEF OutputOf, SectionOf
  <2>2. CASE s.kind # "plain"
    BY <2>2, ChosenType DEF OutputOf
  <2> QED
    BY <2>1, <2>2
<1>3. parts \in Seq(Seq(T))
  <2>1. /\ Len(sections) \in Nat /\ DOMAIN sections = 1..Len(sections)
        /\ \A i \in 1..Len(sections) : sections[i] \in SectionOf(T)
    OBVIOUS
  <2>2. parts \in [1..Len(sections) -> Seq(T)]
    BY <1>2, <2>1
  <2> HIDE DEF parts
  <2> QED
    BY <2>1, <2>2
<1> HIDE DEF parts
<1> QED
  BY <1>1, <1>3, FlattenType DEF parts

\* What a section says with one side chosen for every line.
ChosenSide(section, side) ==
    IF section.kind = "plain" THEN section
    ELSE [section EXCEPT !.choices = [j \in DOMAIN section.choices |-> side]]

LEMMA ChosenSideFields ==
    ASSUME NEW T, NEW section \in SectionOf(T), NEW side \in {"ours", "theirs"}
    PROVE  /\ ChosenSide(section, side) \in SectionOf(T)
           /\ ChosenSide(section, side).kind = section.kind
           /\ section.kind = "plain" => ChosenSide(section, side) = section
           /\ section.kind # "plain" => ChosenSide(section, side) =
                 [kind |-> "hunk", ours |-> section.ours, theirs |-> section.theirs,
                  choices |-> [j \in DOMAIN section.choices |-> side]]
<1>1. CASE section.kind = "plain"
  BY <1>1 DEF ChosenSide
<1>2. CASE section.kind # "plain"
  <2> DEFINE choices == [j \in DOMAIN section.choices |-> side]
  <2>1. choices \in Seq({"ours", "theirs"})
    BY <1>2, HunkFields
  <2> HIDE DEF choices
  <2>2. ChosenSide(section, side) =
            [kind |-> "hunk", ours |-> section.ours, theirs |-> section.theirs,
             choices |-> choices]
    BY <1>2, HunkFields DEF ChosenSide, choices
  <2> QED
    BY <1>2, <2>1, <2>2, HunkFields DEF SectionOf, choices
<1> QED
  BY <1>1, <1>2

LEMMA AppliedType ==
    ASSUME NEW T, NEW sections \in Seq(SectionOf(T)), NEW side \in {"ours", "theirs"}
    PROVE  /\ ApplyConflictChoiceToAllHunks(sections, side) =
                 [i \in DOMAIN sections |-> ChosenSide(sections[i], side)]
           /\ ApplyConflictChoiceToAllHunks(sections, side) \in Seq(SectionOf(T))
<1>1. ApplyConflictChoiceToAllHunks(sections, side) =
          [i \in DOMAIN sections |-> ChosenSide(sections[i], side)]
  BY DEF ApplyConflictChoiceToAllHunks, ChosenSide
<1>2. \A i \in DOMAIN sections : ChosenSide(sections[i], side) \in SectionOf(T)
  BY ChosenSideFields
<1> QED
  BY <1>1, <1>2

\* "ours" or "theirs" of one line.
LEMMA LineChosenType ==
    ASSUME NEW sections \in Seq(Section), NEW i \in Hunks(sections),
           NEW j \in DOMAIN sections[i].choices, NEW side \in {"ours", "theirs"}
    PROVE  [sections EXCEPT ![i].choices[j] = side] \in Seq(Section)
<1> DEFINE choices == [sections[i].choices EXCEPT ![j] = side]
           hunk == [sections[i] EXCEPT !.choices = choices]
<1>1. sections[i] \in Section /\ sections[i].kind = "hunk" /\ i \in DOMAIN sections
  BY DEF Hunks
<1>2. choices \in Seq({"ours", "theirs"})
  BY <1>1, HunkFields, SectionIs
<1>3. hunk \in Section
  <2>1. hunk = [kind |-> "hunk", ours |-> sections[i].ours, theirs |-> sections[i].theirs,
                choices |-> choices]
    <3>1. sections[i] = [kind |-> "hunk", ours |-> sections[i].ours,
                         theirs |-> sections[i].theirs, choices |-> sections[i].choices]
      BY <1>1, HunkFields, SectionIs
    <3> HIDE DEF choices
    <3> QED
      BY <3>1
  <2> HIDE DEF hunk, choices
  <2> QED
    BY <1>1, <1>2, <2>1, HunkFields, SectionIs DEF SectionOf
<1>4. [sections EXCEPT ![i].choices[j] = side] = [sections EXCEPT ![i] = hunk]
  OBVIOUS
<1> HIDE DEF hunk
<1> QED
  BY <1>1, <1>3, <1>4

\* The files parse_status_entries lists have names.
LEMMA EntriesType ==
    ASSUME NEW status \in Seq(StatusLine)
    PROVE  ParseStatusEntries(RunGitTrim(status)) \in Seq(File)
<1> DEFINE Listed == [x : STRING, y : STRING, file : File \cup {""}]
           lines == RunGitTrim(status)
           parts == [i \in DOMAIN lines |->
                        IF lines[i].file = "" THEN <<>> ELSE <<lines[i].file>>]
<1>1. \A l \in StatusLine : l \in Listed
  BY DEF StatusLine
<1>2. \A l \in Listed : l.file \in File \cup {""}
  OBVIOUS
<1>3. ASSUME NEW l \in StatusLine
      PROVE  [x |-> l.y, y |-> " ", file |-> Rest[l.file]] \in Listed
  <2>1. l.y \in STRING /\ l.file \in File
    BY DEF StatusLine
  <2>2. Rest[l.file] \in File \cup {""}
    BY <2>1, RestAssumption
  <2>3. \A y, z \in STRING, f \in File \cup {""} : [x |-> y, y |-> z, file |-> f] \in Listed
    OBVIOUS
  <2>4. " " \in STRING
    BY LiteralAssumption DEF Blank
  <2> HIDE DEF Listed
  <2> QED
    BY <2>1, <2>2, <2>3, <2>4, Zenon
<1> HIDE DEF Listed
<1>4. lines \in Seq(Listed)
  <2>1. status \in Seq(Listed)
    BY <1>1
  <2>2. CASE status # <<>> /\ Head(status).x = " "
    <3> DEFINE l == Head(status)
               first == [x |-> l.y, y |-> " ", file |-> Rest[l.file]]
    <3>1. l \in StatusLine /\ Tail(status) \in Seq(Listed)
      <4>1. \A T : \A s \in Seq(T) : s # <<>> => Head(s) \in T /\ Tail(s) \in Seq(T)
        OBVIOUS
      <4> QED
        BY <2>1, <2>2, <4>1, Zenon
    <3>2. first \in Listed
      BY <1>3, <3>1
    <3>3. lines = <<first>> \o Tail(status)
      BY <2>2 DEF RunGitTrim
    <3> HIDE DEF first
    <3>4. <<first>> \in Seq(Listed)
      BY <3>2
    <3>5. <<first>> \o Tail(status) \in Seq(Listed)
      BY <3>1, <3>4
    <3> QED
      BY <3>3, <3>5
  <2>3. CASE ~(status # <<>> /\ Head(status).x = " ")
    BY <2>1, <2>3 DEF RunGitTrim
  <2> QED
    BY <2>2, <2>3
<1> HIDE DEF lines
<1>5. \A f \in File \cup {""} : (IF f = "" THEN <<>> ELSE <<f>>) \in Seq(File)
  <2>1. \A f \in File : <<f>> \in Seq(File)
    OBVIOUS
  <2>2. <<>> \in Seq(File)
    OBVIOUS
  <2> QED
    BY <2>1, <2>2, Zenon
<1>6. ASSUME NEW i \in DOMAIN lines
      PROVE  (IF lines[i].file = "" THEN <<>> ELSE <<lines[i].file>>) \in Seq(File)
  <2>1. lines[i] \in Listed
    BY <1>4
  <2>2. lines[i].file \in File \cup {""}
    BY <1>2, <2>1
  <2> QED
    BY <1>5, <2>2, Zenon
<1>7. parts \in Seq(Seq(File))
  <2>1. DOMAIN lines = 1..Len(lines) /\ Len(lines) \in Nat
    BY <1>4
  <2>2. parts \in [1..Len(lines) -> Seq(File)]
    BY <1>6, <2>1, Zenon
  <2> HIDE DEF parts
  <2> QED
    BY <2>1, <2>2
<1>8. ParseStatusEntries(lines) = FlattenSeq(parts)
  BY DEF ParseStatusEntries
<1> HIDE DEF parts
<1> QED
  BY <1>7, <1>8, FlattenType DEF lines

-----------------------------------------------------------------------------
(* The types of the variables.                                             *)

DataTyped ==
    /\ data.branch \in STRING /\ data.head \in Commit \cup {""}
    /\ data.entries \in Seq(File) /\ data.conflicts \in Seq(File)
    /\ data.doing \subseteq Doing /\ data.commits \in Seq(Commit)
    /\ data.reflog \subseteq STRING /\ data.gossip \in Gossip /\ data.error \in BOOLEAN

FormsTyped ==
    text \in [TextField -> STRING] /\ picks \in Seq(Ref) /\ todo \in Seq(STRING)

SelTyped ==
    sel \in [file : File \cup {""}, staged : BOOLEAN, shown : (File \cup {""}) \X BOOLEAN,
             conflict : File \cup {""}, commit : Commit \cup {""}]

EditorTyped ==
    editor \in [file : File \cup {""}, sections : Seq(Section), error : BOOLEAN]

LoadTyped ==
    /\ load.pc \in {"idle", "status", "repo", "gossip"}
    /\ load.entries \in Seq(File)
    /\ load.after \in {"none", "members", "peer"}

CountsTyped == inputs \in 0..MaxInputs /\ changes \in 0..MaxChanges

LEMMA TypedParts ==
    /\ DeskTypeOK <=> /\ disk \in Disk /\ DataTyped /\ FormsTyped /\ SelTyped
                      /\ EditorTyped /\ LoadTyped /\ CountsTyped
    /\ DeskTypeOK' <=> /\ disk' \in Disk /\ DataTyped' /\ FormsTyped' /\ SelTyped'
                       /\ EditorTyped' /\ LoadTyped' /\ CountsTyped'
  BY DEF DeskTypeOK, DataTyped, FormsTyped, SelTyped, EditorTyped, LoadTyped, CountsTyped

\* What a refresh has read so far, and what is done after a command.
Branches == {d.branch : d \in Disks}

ReadsOK ==
    /\ disk.branch \in Branches
    /\ load.branch \in Branches \cup {""} /\ data.branch \in Branches \cup {""}
    /\ load.head \in Commit \cup {""}
    /\ run.after \in {"none", "members", "peer"}

TypeInv == DeskInv /\ DeskTypeOK /\ ReadsOK

LEMMA NothingTyped ==
    /\ <<>> \in Seq(File) /\ <<>> \in Seq(Commit) /\ <<>> \in Seq(STRING) /\ <<>> \in Seq(Ref)
    /\ <<>> \in Seq(Section)
    /\ "" \in STRING /\ "2" \in STRING /\ "pick" \in STRING
<1>1. \A T : <<>> \in Seq(T)
  OBVIOUS
<1> QED
  BY <1>1, LiteralAssumption

LEMMA BranchText ==
    /\ Branches \cup {""} \subseteq STRING
    /\ \A branch \in Branches : "refs/heads/" \o branch \in STRING
<1>1. \A d \in Disks : d.branch \in STRING
  BY DeskAssumption DEF Disk
<1> QED
  BY <1>1, NothingTyped, TextAssumption DEF Branches

LEMMA TypeInvStarts == DeskInit => TypeInv
<1> SUFFICES ASSUME DeskInit PROVE TypeInv
  OBVIOUS
<1>1. disk \in Disk
  BY DeskAssumption DEF DeskInit
<1>2. DataTyped
  <2>1. NoGossip \in Gossip
    BY NothingTyped, TextAssumption DEF NoGossip, Gossip
  <2> QED
    BY <2>1, NothingTyped DEF DeskInit, NoData, DataTyped
<1>3. FormsTyped
  BY NothingTyped DEF DeskInit, FormsTyped
<1>4. SelTyped /\ EditorTyped
  BY NothingTyped DEF DeskInit, SelTyped, EditorTyped, NoEditor
<1>5. LoadTyped
  BY NothingTyped DEF DeskInit, NoLoad, LoadTyped
<1>6. CountsTyped
  <2>1. MaxInputs \in Nat /\ MaxChanges \in Nat /\ inputs = 0 /\ changes = 0
    BY DeskAssumption DEF DeskInit
  <2> QED
    BY <2>1 DEF CountsTyped
<1>7. ReadsOK
  BY DEF DeskInit, ReadsOK, Branches, NoLoad, NoData, NoRun
<1> QED
  BY <1>1, <1>2, <1>3, <1>4, <1>5, <1>6, <1>7, DeskInvStarts, TypedParts DEF TypeInv

-----------------------------------------------------------------------------
(* What clicks write into the fields.                                      *)

LEMMA CommandsKeepForms ==
    ASSUME NEW args, NEW set, NEW rest, NEW after
    PROVE  /\ RunGit(args) => UNCHANGED forms
           /\ RunVcs(args, set, rest) => UNCHANGED forms
           /\ RunVcsThen(args, set, rest, after) => UNCHANGED forms
BY DEF RunGit, RunVcs, RunVcsThen, RunCommand, forms

LEMMA GitPanelForms == GitPanel => UNCHANGED forms
BY CommandsKeepForms
DEF GitPanel, OnStageAll, OnUnstageAll, OnStageFile, OnCommit, OnAmend, OnCheckout, OnRevert,
    OnPull, OnPush, OnSquash, PickFile, ShowStaged, forms

LEMMA MergePanelForms == MergePanel => UNCHANGED forms
BY CommandsKeepForms
DEF MergePanel, OnStartMerge, Continue, Abort, OnResolveConflictWithSide, LoadEditor,
    PickConflict, UseForAllHunks, ChooseLine, SaveEditor, LoadInDiff,
    OnMarkConflictResolvedAdd, OnCommitMerge, forms

LEMMA HistoryPanelForms ==
    HistoryPanel =>
        \/ UNCHANGED forms
        \/ UseForReset \/ UseForSquash \/ AddToCherryPick \/ LoadRebaseTodo
        \/ \E selector \in data.reflog : UseReflog(selector)
        \/ \E count \in DOMAIN disk.commits : GenerateRebaseTodo(count)
        \/ \E lines \in Todos : SetTodo(lines)
        \/ \E refs \in RefLists : TypeRefs(refs)
BY CommandsKeepForms
DEF HistoryPanel, PickCommit, OnRunRebase, OnGoOnOrAbort, SaveRebaseTodo,
    StartInteractiveRebase, OnRunCherryPick, OnRunReset, forms

LEMMA CollaborationTabForms == CollaborationTab => UNCHANGED forms \/ LoadCurrentConfig
BY CommandsKeepForms
DEF CollaborationTab, OnApplyConsensusConfig, OnAddPeer, OnRemovePeer,
    OnSyncNow, OnProcessPendingPushes, OnListPendingQueue, OnPropose, OnCastVote, OnCertify,
    OnConsensusStatus

LEMMA WritingKeepsTypes ==
    ASSUME FormsTyped, NEW texts \in [TextField -> STRING], Write(texts)
    PROVE  FormsTyped'
BY DEF FormsTyped, Write

LEMMA SettingKeepsTypes ==
    ASSUME FormsTyped, NEW lines \in Seq(STRING), SetTodo(lines)
    PROVE  FormsTyped'
BY DEF FormsTyped, SetTodo

LEMMA TextWith ==
    ASSUME FormsTyped, NEW f, NEW value \in STRING
    PROVE  [text EXCEPT ![f] = value] \in [TextField -> STRING]
BY DEF FormsTyped

LEMMA HistoryWrites ==
    ASSUME TypeInv, HistoryPanel
    PROVE  FormsTyped'
<1>0. FormsTyped /\ DataTyped /\ SelTyped /\ disk \in Disk
  BY TypedParts DEF TypeInv
<1>1. sel.commit \in STRING /\ (sel.commit # "" => sel.commit \in Commit)
  BY <1>0, NothingTyped, TextAssumption DEF SelTyped
<1>2. CASE UNCHANGED forms
  BY <1>0, <1>2 DEF FormsTyped, forms
<1>3. CASE UseForReset
  <2>1. [text EXCEPT !["resetTarget"] = sel.commit] \in [TextField -> STRING]
    BY <1>0, <1>1, TextWith
  <2> QED
    BY <1>0, <1>3, <2>1, WritingKeepsTypes DEF UseForReset
<1>4. CASE UseForSquash
  <2> DEFINE texts == [text EXCEPT !["squashFrom"] = sel.commit, !["squashLast"] = ""]
  <2>1. texts \in [TextField -> STRING]
    BY <1>0, <1>1, NothingTyped DEF FormsTyped
  <2>2. Write(texts)
    BY <1>4 DEF UseForSquash
  <2> HIDE DEF texts
  <2> QED
    BY <1>0, <2>1, <2>2, WritingKeepsTypes
<1>5. CASE AddToCherryPick
  <2>1. picks' = Append(picks, sel.commit) /\ sel.commit \in Commit /\ UNCHANGED <<text, todo>>
    BY <1>1, <1>5 DEF AddToCherryPick
  <2>2. sel.commit \in Ref
    BY <2>1, DeskAssumption, TextAssumption DEF Ref
  <2> QED
    BY <1>0, <2>1, <2>2 DEF FormsTyped
<1>6. CASE LoadRebaseTodo
  <2>1. disk.todo \in Seq(STRING)
    BY <1>0 DEF Disk
  <2> QED
    BY <1>0, <1>6, <2>1, SettingKeepsTypes DEF LoadRebaseTodo
<1>7. ASSUME NEW selector \in data.reflog, UseReflog(selector) PROVE FormsTyped'
  <2>1. selector \in STRING
    BY <1>0, <1>7 DEF DataTyped
  <2>2. [text EXCEPT !["resetTarget"] = selector] \in [TextField -> STRING]
    BY <1>0, <2>1, TextWith
  <2> QED
    BY <1>0, <1>7, <2>2, WritingKeepsTypes DEF UseReflog
<1>8. ASSUME NEW count \in DOMAIN disk.commits, GenerateRebaseTodo(count) PROVE FormsTyped'
  <2>1. count \in Nat
    BY <1>0 DEF Disk
  <2>2. [i \in 1..count |-> "pick"] \in Seq(STRING)
    <3>1. \A T : \A t \in T : [i \in 1..count |-> t] \in Seq(T)
      BY <2>1
    <3> QED
      BY <3>1, NothingTyped, Zenon
  <2> QED
    BY <1>0, <1>8, <2>2, SettingKeepsTypes DEF GenerateRebaseTodo
<1>9. ASSUME NEW lines \in Todos, SetTodo(lines) PROVE FormsTyped'
  <2>1. lines \in Seq(STRING)
    BY TextAssumption
  <2> QED
    BY <1>0, <1>9, <2>1, SettingKeepsTypes
<1>10. ASSUME NEW refs \in RefLists, TypeRefs(refs) PROVE FormsTyped'
  <2>1. refs \in Seq(Ref)
    BY TextAssumption
  <2> QED
    BY <1>0, <1>10, <2>1 DEF FormsTyped, TypeRefs
<1> QED
  BY <1>2, <1>3, <1>4, <1>5, <1>6, <1>7, <1>8, <1>9, <1>10, HistoryPanelForms

\* What people have written are texts, refs and lines.
LEMMA PeopleWrite ==
    ASSUME TypeInv, People
    PROVE  FormsTyped'
<1>0. FormsTyped /\ DataTyped
  BY TypedParts DEF TypeInv
<1>1. CASE UNCHANGED forms
  BY <1>0, <1>1 DEF FormsTyped, forms
<1>2. CASE LoadCurrentConfig
  <2> DEFINE texts == [text EXCEPT !["threshold"] = TwoDecimals[data.gossip.threshold],
                                   !["members"] = data.gossip.members]
  <2>1. data.gossip.members \in STRING /\ data.gossip.threshold \in DOMAIN TwoDecimals
    BY <1>0 DEF DataTyped, Gossip
  <2>2. TwoDecimals[data.gossip.threshold] \in STRING
    BY <2>1, TextAssumption
  <2>3. texts \in [TextField -> STRING]
    BY <1>0, <2>1, <2>2 DEF FormsTyped
  <2>4. Write(texts)
    BY <1>2 DEF LoadCurrentConfig
  <2> HIDE DEF texts
  <2> QED
    BY <1>0, <2>3, <2>4, WritingKeepsTypes
<1>3. CASE TypeText
  <2>1. PICK f \in DOMAIN Typing : \E value \in Typing[f] : Write([text EXCEPT ![f] = value])
    BY <1>3 DEF TypeText
  <2>2. PICK value \in Typing[f] : Write([text EXCEPT ![f] = value])
    BY <2>1
  <2>3. value \in STRING
    BY TextAssumption
  <2>4. [text EXCEPT ![f] = value] \in [TextField -> STRING]
    BY <1>0, <2>3, TextWith
  <2> QED
    BY <1>0, <2>2, <2>4, WritingKeepsTypes
<1>4. CliPanel => UNCHANGED forms
  BY DEF CliPanel, RunCli, RunCommand, forms
<1> QED
  BY <1>1, <1>2, <1>3, <1>4, GitPanelForms, MergePanelForms, HistoryWrites,
     CollaborationTabForms DEF People

-----------------------------------------------------------------------------
(* What clicks select, choose and save.                                    *)

LEMMA HeadTail ==
    ASSUME NEW T, NEW s \in Seq(T), s # <<>>
    PROVE  Head(s) \in T /\ Tail(s) \in Seq(T)
  OBVIOUS

LEMMA ListedFile ==
    ASSUME NEW T, NEW list \in Seq(T), NEW element \in ToSet(list)
    PROVE  element \in T
BY DEF ToSet

LEMMA SelectingKeepsTypes ==
    ASSUME TypeInv,
           \/ \E file \in ToSet(data.entries) : PickFile(file)
           \/ \E staged \in BOOLEAN : ShowStaged(staged)
           \/ \E commit \in ToSet(data.commits) : PickCommit(commit)
           \/ LoadInDiff
    PROVE  SelTyped' /\ UNCHANGED <<disk, data, editor, load>>
<1>0. SelTyped /\ DataTyped
  BY TypedParts DEF TypeInv
<1>1. ASSUME NEW file \in ToSet(data.entries), PickFile(file)
      PROVE  SelTyped' /\ UNCHANGED <<disk, data, editor, load>>
  <2>1. file \in File
    BY <1>0, ListedFile DEF DataTyped
  <2> QED
    BY <1>0, <1>1, <2>1 DEF PickFile, SelTyped
<1>2. ASSUME NEW staged \in BOOLEAN, ShowStaged(staged)
      PROVE  SelTyped' /\ UNCHANGED <<disk, data, editor, load>>
  BY <1>0, <1>2 DEF ShowStaged, SelTyped
<1>3. ASSUME NEW commit \in ToSet(data.commits), PickCommit(commit)
      PROVE  SelTyped' /\ UNCHANGED <<disk, data, editor, load>>
  <2>1. commit \in Commit
    BY <1>0, ListedFile DEF DataTyped
  <2> QED
    BY <1>0, <1>3, <2>1 DEF PickCommit, SelTyped
<1>4. CASE LoadInDiff
  <2>1. sel.conflict \in File \cup {""}
    BY <1>0 DEF SelTyped
  <2>2. <<sel.conflict, FALSE>> \in (File \cup {""}) \X BOOLEAN
    BY <2>1
  <2> QED
    BY <1>0, <1>4, <2>1, <2>2 DEF LoadInDiff, SelTyped
<1> QED
  BY <1>1, <1>2, <1>3, <1>4

LEMMA EditorOfTyped ==
    ASSUME disk \in Disk, NEW f \in File
    PROVE  /\ EditorOf(f).sections \in Seq(Section)
           /\ EditorOf(f) \in [file : File \cup {""}, sections : Seq(Section), error : BOOLEAN]
<1> DEFINE lines == FileLines(disk.content[f])
           parsed == ParseConflictSections(lines)
<1>1. disk.content[f] \in Seq(Block)
  BY DEF Disk
<1>2. lines \in Lines
  BY <1>1, FileLinesType
<1>3. parsed.sections \in Seq(Section)
  BY <1>2, ParsedType
<1>4. EditorOf(f) = IF f \notin disk.missing /\ parsed.ok
                    THEN [file |-> f, sections |-> parsed.sections, error |-> FALSE]
                    ELSE [file |-> f, sections |-> <<>>, error |-> TRUE]
  BY DEF EditorOf
<1> HIDE DEF parsed
<1>5. EditorOf(f) \in [file : File \cup {""}, sections : Seq(Section), error : BOOLEAN]
  <2> DEFINE Editor(sections, error) ==
                 [file |-> f, sections |-> sections, error |-> error]
  <2>1. \A sections \in Seq(Section), error \in BOOLEAN :
            Editor(sections, error)
                \in [file : File \cup {""}, sections : Seq(Section), error : BOOLEAN]
    OBVIOUS
  <2>2. EditorOf(f) = Editor(parsed.sections, FALSE) \/ EditorOf(f) = Editor(<<>>, TRUE)
    BY <1>4
  <2> HIDE DEF Editor
  <2>3. FALSE \in BOOLEAN /\ TRUE \in BOOLEAN /\ <<>> \in Seq(Section)
    BY NothingTyped
  <2> QED
    BY <1>3, <2>1, <2>2, <2>3, Zenon
<1> HIDE DEF lines
<1> QED
  BY <1>5

LEMMA EditingKeepsTypes ==
    ASSUME TypeInv, Idle,
           \/ LoadEditor
           \/ \E file \in ToSet(data.conflicts) : PickConflict(file)
           \/ \E side \in {"ours", "theirs"} : UseForAllHunks(side)
           \/ \E i \in Hunks(editor.sections), side \in {"ours", "theirs"} :
                 \E j \in DOMAIN editor.sections[i].choices : ChooseLine(i, j, side)
    PROVE  SelTyped' /\ EditorTyped' /\ UNCHANGED <<disk, data, load>>
<1>0. disk \in Disk /\ SelTyped /\ EditorTyped /\ DataTyped
  BY TypedParts DEF TypeInv
<1>1. CASE LoadEditor
  <2>1. sel.conflict \in File
    BY <1>0, <1>1 DEF SelTyped, LoadEditor
  <2> QED
    BY <1>0, <1>1, <2>1, EditorOfTyped DEF LoadEditor, EditorTyped, SelTyped
<1>2. ASSUME NEW file \in ToSet(data.conflicts), PickConflict(file)
      PROVE  SelTyped' /\ EditorTyped' /\ UNCHANGED <<disk, data, load>>
  <2>1. file \in File
    BY <1>0, ListedFile DEF DataTyped
  <2>2. editor' = EditorOf(file) /\ sel' = [sel EXCEPT !.conflict = file]
        /\ UNCHANGED <<disk, data, load>>
    BY <1>2 DEF PickConflict
  <2>3. EditorTyped'
    BY <1>0, <2>1, <2>2, EditorOfTyped DEF EditorTyped
  <2> QED
    BY <1>0, <2>1, <2>2, <2>3 DEF SelTyped
<1>3. ASSUME NEW side \in {"ours", "theirs"}, UseForAllHunks(side)
      PROVE  SelTyped' /\ EditorTyped' /\ UNCHANGED <<disk, data, load>>
  <2> DEFINE sections == ApplyConflictChoiceToAllHunks(editor.sections, side)
  <2>1. editor.sections \in Seq(Section)
    BY <1>0 DEF EditorTyped
  <2>2. sections \in Seq(Section)
    BY <2>1, AppliedType, SectionIs
  <2>3. editor' = [editor EXCEPT !.sections = sections] /\ UNCHANGED <<disk, data, sel, load>>
    BY <1>3 DEF UseForAllHunks
  <2> HIDE DEF sections
  <2> QED
    BY <1>0, <2>2, <2>3 DEF EditorTyped, SelTyped
<1>4. ASSUME NEW i \in Hunks(editor.sections), NEW side \in {"ours", "theirs"},
             NEW j \in DOMAIN editor.sections[i].choices, ChooseLine(i, j, side)
      PROVE  SelTyped' /\ EditorTyped' /\ UNCHANGED <<disk, data, load>>
  <2> DEFINE sections == [editor.sections EXCEPT ![i].choices[j] = side]
  <2>1. editor.sections \in Seq(Section)
    BY <1>0 DEF EditorTyped
  <2>2. sections \in Seq(Section)
    BY <2>1, LineChosenType
  <2>3. editor' = [editor EXCEPT !.sections = sections] /\ UNCHANGED <<disk, data, sel, load>>
    BY <1>4 DEF ChooseLine
  <2> HIDE DEF sections
  <2> QED
    BY <1>0, <2>2, <2>3 DEF EditorTyped, SelTyped
<1> QED
  BY <1>1, <1>2, <1>3, <1>4

LEMMA RefreshTyped ==
    ASSUME NEW after \in {"none", "members", "peer"}, Refresh(after)
    PROVE  /\ load' = [pc |-> "status", branch |-> "", head |-> "", entries |-> <<>>,
                       after |-> after]
           /\ LoadTyped'
<1>1. load' = [pc |-> "status", branch |-> "", head |-> "", entries |-> <<>>, after |-> after]
  BY DEF Refresh, NoLoad
<1> QED
  BY <1>1, NothingTyped DEF LoadTyped

LEMMA SavingKeepsTypes ==
    ASSUME TypeInv, Idle, SaveEditor \/ SaveRebaseTodo
    PROVE  /\ disk' \in Disk /\ disk'.branch = disk.branch
           /\ SelTyped' /\ LoadTyped' /\ load'.branch \in {"", load.branch}
           /\ load'.head \in {"", load.head}
           /\ UNCHANGED <<data, editor>>
<1>0. disk \in Disk /\ SelTyped /\ EditorTyped /\ LoadTyped /\ FormsTyped
  BY TypedParts DEF TypeInv
<1>1. CASE SaveEditor
  <2> DEFINE f == editor.file
             lines == ComposeConflictEditorOutput(editor.sections)
             content == [disk.content EXCEPT ![f] = <<Plain(lines)>>]
  <2>1. f \in File /\ editor.sections \in Seq(Section)
    BY <1>0, <1>1 DEF EditorTyped, SaveEditor
  <2>2. lines \in Lines
    BY <2>1, ComposedType, SectionIs
  <2>3. disk' = [disk EXCEPT !.content = content, !.missing = disk.missing \ {f}]
    BY <1>1 DEF SaveEditor
  <2>4. sel' = [sel EXCEPT !.file = f, !.staged = FALSE] /\ Refresh("none")
        /\ UNCHANGED <<data, editor>>
    BY <1>1 DEF SaveEditor
  <2> HIDE DEF lines, f
  <2>5. <<Plain(lines)>> \in Seq(Block)
    <3>1. Plain(lines) \in Block
      BY <2>2 DEF Plain, Block, Lines
    <3> QED
      BY <3>1
  <2>6. content \in [File -> Seq(Block)] /\ disk.missing \ {f} \in SUBSET File
    BY <1>0, <2>5 DEF Disk
  <2> HIDE DEF content
  <2>7. disk' \in Disk /\ disk'.branch = disk.branch
    BY <1>0, <2>3, <2>6 DEF Disk
  <2>8. SelTyped'
    BY <1>0, <2>1, <2>4 DEF SelTyped
  <2>9. LoadTyped' /\ load'.branch = "" /\ load'.head = ""
    <3>1. "none" \in {"none", "members", "peer"}
      OBVIOUS
    <3>2. load' = [pc |-> "status", branch |-> "", head |-> "", entries |-> <<>>,
                   after |-> "none"]
      BY <2>4, <3>1, RefreshTyped, Zenon
    <3>3. LoadTyped'
      BY <2>4, <3>1, RefreshTyped, Zenon
    <3> QED
      BY <3>2, <3>3
  <2> QED
    BY <2>4, <2>7, <2>8, <2>9
<1>2. CASE SaveRebaseTodo
  <2>1. disk' = [disk EXCEPT !.todo = todo] /\ UNCHANGED <<data, sel, editor, load>>
    BY <1>2 DEF SaveRebaseTodo
  <2>2. disk' \in Disk /\ disk'.branch = disk.branch
    BY <1>0, <2>1 DEF Disk, FormsTyped
  <2> QED
    BY <1>0, <2>1, <2>2 DEF SelTyped, LoadTyped
<1> QED
  BY <1>1, <1>2

-----------------------------------------------------------------------------
(* The command a click starts.                                             *)

\* A command built from a form, and the field that is cleared after it.
Commands(after) == run'.after = after /\ run'.typed = <<>>

LEMMA CommandsAfter ==
    ASSUME NEW args, NEW set, NEW rest, NEW after
    PROVE  /\ RunGit(args) => Commands("none")
           /\ RunVcs(args, set, rest) => Commands("none")
           /\ RunVcsThen(args, set, rest, after) => Commands(after)
BY DEF RunGit, RunVcs, RunVcsThen, RunCommand, NoRun, Commands

Afterwards == {"none", "members", "peer"}

LEMMA PeopleRun ==
    ASSUME People
    PROVE  UNCHANGED run \/ CliPanel \/ \E after \in Afterwards : Commands(after)
<1>1. GitPanel => UNCHANGED run \/ Commands("none")
  BY CommandsAfter
  DEF GitPanel, OnStageAll, OnUnstageAll, OnStageFile, OnCommit, OnAmend, OnCheckout,
      OnRevert, OnPull, OnPush, OnSquash, PickFile, ShowStaged
<1>2. MergePanel => UNCHANGED run \/ Commands("none")
  BY CommandsAfter
  DEF MergePanel, OnStartMerge, Continue, Abort, OnResolveConflictWithSide, LoadEditor,
      PickConflict, UseForAllHunks, ChooseLine, SaveEditor, LoadInDiff,
      OnMarkConflictResolvedAdd, OnCommitMerge
<1>3. HistoryPanel => UNCHANGED run \/ Commands("none")
  <2>1. /\ \A texts : Write(texts) => UNCHANGED run
        /\ \A lines : SetTodo(lines) => UNCHANGED run
    BY DEF Write, SetTodo
  <2> QED
    BY <2>1, CommandsAfter
    DEF HistoryPanel, PickCommit, UseForReset, UseForSquash, AddToCherryPick, TypeRefs, UseReflog,
        GenerateRebaseTodo, LoadRebaseTodo, SaveRebaseTodo, OnRunRebase, OnGoOnOrAbort,
        StartInteractiveRebase, OnRunCherryPick, OnRunReset
<1>4. CollaborationTab => UNCHANGED run \/ \E after \in Afterwards : Commands(after)
  <2>0. {"none", "members", "peer"} \subseteq Afterwards
    BY DEF Afterwards
  <2>1. LoadCurrentConfig => UNCHANGED run
    BY DEF LoadCurrentConfig, Write
  <2>2. ASSUME NEW clear \in BOOLEAN, OnApplyConsensusConfig(clear)
        PROVE  Commands("members") \/ Commands("none")
    <3>1. Commands(IF clear THEN "members" ELSE "none")
      BY <2>2, CommandsAfter DEF OnApplyConsensusConfig
    <3> QED
      BY <3>1
  <2>3. OnAddPeer => Commands("peer")
    BY CommandsAfter DEF OnAddPeer
  <2>4. CollaborationTab =>
            UNCHANGED run \/ Commands("none") \/ Commands("members") \/ Commands("peer")
    BY <2>1, <2>2, <2>3, CommandsAfter
    DEF CollaborationTab, OnRemovePeer, OnSyncNow, OnProcessPendingPushes,
        OnListPendingQueue, OnPropose, OnCastVote, OnCertify, OnConsensusStatus
  <2> QED
    BY <2>0, <2>4
<1>5. TypeText => UNCHANGED run
  BY DEF TypeText, Write
<1> QED
  BY <1>1, <1>2, <1>3, <1>4, <1>5 DEF People, Afterwards

LEMMA PeopleAfter ==
    ASSUME ReadsOK, People
    PROVE  run'.after \in Afterwards
<1>1. CliPanel => run'.after = "none"
  BY DEF CliPanel, RunCli, RunCommand, NoRun
<1> QED
  BY <1>1, PeopleRun DEF ReadsOK, Afterwards, Commands

-----------------------------------------------------------------------------
(* The types are kept, step by step.                                       *)

LEMMA PeopleKeepTypes ==
    ASSUME TypeInv, Input, People
    PROVE  TypeInv'
<1>0. /\ Idle /\ DeskInv /\ ReadsOK /\ inputs' = inputs + 1 /\ inputs < MaxInputs
      /\ disk \in Disk /\ DataTyped /\ FormsTyped /\ SelTyped /\ EditorTyped /\ LoadTyped
      /\ CountsTyped
  BY TypedParts DEF TypeInv, Input
<1>1. DeskInv' /\ FormsTyped' /\ run'.after \in Afterwards
  BY <1>0, PeopleKeep, PeopleWrite, PeopleAfter
<1>2. CountsTyped'
  <2>1. changes' = changes
    <3>1. /\ \A args : RunGit(args) => changes' = changes
          /\ \A args, set, rest : RunVcs(args, set, rest) => changes' = changes
          /\ \A args, set, rest, after :
                RunVcsThen(args, set, rest, after) => changes' = changes
          /\ \A texts : Write(texts) => changes' = changes
          /\ \A lines : SetTodo(lines) => changes' = changes
      BY DEF RunGit, RunVcs, RunVcsThen, RunCommand, Write, SetTodo
    <3>2. GitPanel => changes' = changes
      BY <3>1
      DEF GitPanel, OnStageAll, OnUnstageAll, OnStageFile, OnCommit, OnAmend, OnCheckout,
          OnRevert, OnPull, OnPush, OnSquash, PickFile, ShowStaged
    <3>3. MergePanel => changes' = changes
      BY <3>1
      DEF MergePanel, OnStartMerge, Continue, Abort, OnResolveConflictWithSide, LoadEditor,
          PickConflict, UseForAllHunks, ChooseLine, SaveEditor, LoadInDiff,
          OnMarkConflictResolvedAdd, OnCommitMerge
    <3>4. HistoryPanel => changes' = changes
      BY <3>1
      DEF HistoryPanel, PickCommit, UseForReset, UseForSquash, AddToCherryPick, TypeRefs, UseReflog,
          GenerateRebaseTodo, LoadRebaseTodo, SaveRebaseTodo, OnRunRebase, OnGoOnOrAbort,
          StartInteractiveRebase, OnRunCherryPick, OnRunReset
    <3>5. CollaborationTab => changes' = changes
      BY <3>1
      DEF CollaborationTab, OnApplyConsensusConfig, LoadCurrentConfig, OnAddPeer,
          OnRemovePeer, OnSyncNow, OnProcessPendingPushes, OnListPendingQueue, OnPropose,
          OnCastVote, OnCertify, OnConsensusStatus
    <3>6. CliPanel \/ TypeText => changes' = changes
      BY <3>1 DEF CliPanel, RunCli, RunCommand, TypeText
    <3> QED
      BY <3>2, <3>3, <3>4, <3>5, <3>6 DEF People
  <2>2. MaxInputs \in Nat
    BY DeskAssumption
  <2> QED
    BY <1>0, <2>1, <2>2 DEF CountsTyped
<1>3. /\ disk' \in Disk /\ disk'.branch = disk.branch
      /\ DataTyped' /\ data'.branch = data.branch
      /\ SelTyped' /\ EditorTyped' /\ LoadTyped'
      /\ load'.branch \in {"", load.branch} /\ load'.head \in {"", load.head}
  <2>1. CASE NoneChanged
    <3>1. UNCHANGED <<disk, data, sel, editor, load>>
      BY <2>1 DEF NoneChanged
    <3>2. DataTyped' /\ SelTyped'
      BY <1>0, <3>1 DEF DataTyped, SelTyped
    <3>3. EditorTyped' /\ LoadTyped'
      BY <1>0, <3>1 DEF EditorTyped, LoadTyped
    <3> QED
      BY <1>0, <3>1, <3>2, <3>3
  <2>2. CASE \/ \E file \in ToSet(data.entries) : PickFile(file)
             \/ \E staged \in BOOLEAN : ShowStaged(staged)
             \/ \E commit \in ToSet(data.commits) : PickCommit(commit)
             \/ LoadInDiff
    <3>1. SelTyped' /\ UNCHANGED <<disk, data, editor, load>>
      BY <2>2, SelectingKeepsTypes
    <3> QED
      BY <1>0, <3>1 DEF DataTyped, EditorTyped, LoadTyped
  <2>3. CASE \/ LoadEditor
             \/ \E file \in ToSet(data.conflicts) : PickConflict(file)
             \/ \E side \in {"ours", "theirs"} : UseForAllHunks(side)
             \/ \E i \in Hunks(editor.sections), side \in {"ours", "theirs"} :
                   \E j \in DOMAIN editor.sections[i].choices : ChooseLine(i, j, side)
    <3>1. SelTyped' /\ EditorTyped' /\ UNCHANGED <<disk, data, load>>
      BY <1>0, <2>3, EditingKeepsTypes
    <3> QED
      BY <1>0, <3>1 DEF DataTyped, LoadTyped
  <2>4. CASE SaveEditor \/ SaveRebaseTodo
    <3>1. /\ disk' \in Disk /\ disk'.branch = disk.branch
          /\ SelTyped' /\ LoadTyped' /\ load'.branch \in {"", load.branch}
          /\ load'.head \in {"", load.head}
          /\ UNCHANGED <<data, editor>>
      BY <1>0, <2>4, SavingKeepsTypes
    <3> QED
      BY <1>0, <3>1 DEF DataTyped, EditorTyped
  <2> QED
    BY <2>1, <2>2, <2>3, <2>4, GitPanelSteps, MergePanelSteps, HistoryPanelSteps,
       CollaborationTabSteps, TypingSteps DEF People
<1>4. ReadsOK'
  BY <1>0, <1>1, <1>3 DEF ReadsOK, Afterwards
<1> QED
  BY <1>1, <1>2, <1>3, <1>4, TypedParts DEF TypeInv

LEMMA StatusKeepsTypes ==
    ASSUME TypeInv, ReadStatus
    PROVE  TypeInv'
<1>0. /\ disk \in Disk /\ DataTyped /\ FormsTyped /\ SelTyped /\ EditorTyped /\ LoadTyped
      /\ CountsTyped /\ ReadsOK /\ DeskInv
  BY TypedParts DEF TypeInv
<1>1. DeskInv'
  BY <1>0, ReadingKeeps
<1>2. UNCHANGED <<disk, picks, todo, sel, editor, run, inputs, changes>>
  BY DEF ReadStatus
<1>3. SelTyped' /\ EditorTyped' /\ CountsTyped' /\ disk' \in Disk
  BY <1>0, <1>2 DEF SelTyped, EditorTyped, CountsTyped
<1>4. CASE disk.loads
  <2> DEFINE head == IF disk.commits = <<>> THEN "" ELSE Head(disk.commits)
             entries == ParseStatusEntries(RunGitTrim(disk.status))
  <2>1. /\ load' = [load EXCEPT !.pc = "repo", !.branch = disk.branch, !.head = head,
                                !.entries = entries]
        /\ UNCHANGED <<data, text>>
    BY <1>4 DEF ReadStatus
  <2>2. disk.commits \in Seq(Commit) /\ disk.status \in Seq(StatusLine)
    BY <1>0 DEF Disk
  <2>3. head \in Commit \cup {""}
    BY <2>2, HeadTail, Zenon
  <2>4. entries \in Seq(File)
    BY <2>2, EntriesType
  <2> HIDE DEF head, entries
  <2>5. /\ load'.pc = "repo" /\ load'.branch = disk.branch /\ load'.head = head
        /\ load'.entries = entries /\ load'.after = load.after
    BY <1>0, <2>1 DEF DeskInv, Fields, LoadFields
  <2>6. LoadTyped'
    BY <1>0, <2>4, <2>5 DEF LoadTyped
  <2>7. DataTyped' /\ FormsTyped'
    BY <1>0, <1>2, <2>1 DEF DataTyped, FormsTyped
  <2>8. ReadsOK'
    BY <1>0, <1>2, <2>1, <2>3, <2>5 DEF ReadsOK
  <2> QED
    BY <1>1, <1>3, <2>6, <2>7, <2>8, TypedParts DEF TypeInv
<1>5. CASE ~disk.loads
  <2>1. /\ load' = NoLoad /\ data' = [data EXCEPT !.error = TRUE]
        /\ text' = Cleared(load.after, text)
    BY <1>5 DEF ReadStatus
  <2>2. LoadTyped' /\ load'.branch = "" /\ load'.head = ""
    BY <2>1, NothingTyped DEF LoadTyped, NoLoad
  <2>3. data'.branch = data.branch /\ data'.head = data.head /\ data'.entries = data.entries
        /\ data'.doing = data.doing /\ data'.conflicts = data.conflicts
        /\ data'.commits = data.commits /\ data'.reflog = data.reflog
        /\ data'.gossip = data.gossip /\ data'.error = TRUE
    BY <1>0, <2>1 DEF DeskInv, Fields, DataFields
  <2>4. DataTyped'
    BY <1>0, <2>3 DEF DataTyped
  <2>5. FormsTyped'
    BY <1>0, <1>2, <2>1, NothingTyped DEF FormsTyped, Cleared
  <2>6. ReadsOK'
    BY <1>0, <1>2, <2>2, <2>3 DEF ReadsOK
  <2> QED
    BY <1>1, <1>3, <2>2, <2>4, <2>5, <2>6, TypedParts DEF TypeInv
<1> QED
  BY <1>4, <1>5

LEMMA RepoKeepsTypes ==
    ASSUME TypeInv, ReadRepo
    PROVE  TypeInv'
<1>0. /\ disk \in Disk /\ DataTyped /\ FormsTyped /\ SelTyped /\ EditorTyped /\ LoadTyped
      /\ CountsTyped /\ ReadsOK /\ DeskInv
  BY TypedParts DEF TypeInv
<1>1. DeskInv'
  BY <1>0, ReadingKeeps
<1>2. UNCHANGED <<disk, forms, sel, editor, run, inputs, changes>>
  BY DEF ReadRepo
<1>3. SelTyped' /\ EditorTyped' /\ CountsTyped' /\ FormsTyped' /\ disk' \in Disk
  BY <1>0, <1>2 DEF SelTyped, EditorTyped, CountsTyped, FormsTyped, forms
<1>4. /\ data'.branch = load.branch /\ data'.head = load.head /\ data'.entries = load.entries
      /\ data'.doing = disk.doing /\ data'.conflicts = disk.conflicts
      /\ data'.commits \in {<<>>, disk.commits} /\ data'.reflog = disk.reflog
      /\ data'.gossip = data.gossip /\ data'.error = data.error
  BY <1>0 DEF DeskInv, Fields, DataFields, ReadRepo
<1>5. /\ load'.pc = "gossip" /\ load'.branch = load.branch /\ load'.head = load.head
      /\ load'.entries = load.entries /\ load'.after = load.after
  BY <1>0 DEF DeskInv, Fields, LoadFields, ReadRepo
<1>6. DataTyped'
  <2>1. /\ disk.doing \subseteq Doing /\ disk.conflicts \in Seq(File)
        /\ disk.commits \in Seq(Commit) /\ disk.reflog \subseteq STRING
    BY <1>0 DEF Disk
  <2>2. load.branch \in STRING /\ load.head \in Commit \cup {""} /\ load.entries \in Seq(File)
    BY <1>0, BranchText DEF ReadsOK, LoadTyped
  <2>3. data'.commits \in Seq(Commit)
    BY <1>4, <2>1, NothingTyped
  <2>4. data.gossip \in Gossip /\ data.error \in BOOLEAN
    BY <1>0 DEF DataTyped
  <2> QED
    BY <1>4, <2>1, <2>2, <2>3, <2>4 DEF DataTyped
<1>7. LoadTyped'
  BY <1>0, <1>5 DEF LoadTyped
<1>8. ReadsOK'
  BY <1>0, <1>2, <1>4, <1>5 DEF ReadsOK
<1> QED
  BY <1>1, <1>3, <1>6, <1>7, <1>8, TypedParts DEF TypeInv

\* What a refresh offers for a blank field is text.
LEMMA OfferedText ==
    ASSUME TypeInv, NEW gossip \in Gossip, NEW f \in DOMAIN Offered(gossip)
    PROVE  Offered(gossip)[f] \in STRING
<1>0. DataTyped /\ ReadsOK
  BY TypedParts DEF TypeInv
<1> DEFINE reference == IF data.branch \in {"", "HEAD"} THEN ""
                        ELSE "refs/heads/" \o data.branch
<1>1. Offered(gossip) =
          [reference |-> reference, newOid |-> data.head, onto |-> data.branch,
           threshold |-> TwoDecimals[gossip.threshold], members |-> gossip.members]
  BY DEF Offered
<1>2. reference \in STRING
  <2>1. CASE data.branch \in {"", "HEAD"}
    BY <2>1, NothingTyped
  <2>2. CASE data.branch \notin {"", "HEAD"}
    <3>1. data.branch \in Branches
      BY <1>0, <2>2 DEF ReadsOK
    <3>2. "refs/heads/" \o data.branch \in STRING
      BY <3>1, BranchText, Zenon
    <3>3. reference = "refs/heads/" \o data.branch
      BY <2>2, Zenon
    <3> HIDE DEF reference
    <3> QED
      BY <3>2, <3>3, Zenon
  <2> QED
    BY <2>1, <2>2
<1> HIDE DEF reference
<1>3. /\ data.head \in STRING /\ data.branch \in STRING /\ gossip.members \in STRING
      /\ gossip.threshold \in DOMAIN TwoDecimals
  BY <1>0, NothingTyped, TextAssumption DEF DataTyped, Gossip
<1>4. TwoDecimals[gossip.threshold] \in STRING
  BY <1>3, TextAssumption
<1>5. f \in {"reference", "newOid", "onto", "threshold", "members"}
  BY <1>1
<1> QED
  BY <1>1, <1>2, <1>3, <1>4, <1>5

LEMMA FinishKeepsTypes ==
    ASSUME TypeInv, FinishRefresh
    PROVE  TypeInv'
<1>0. /\ disk \in Disk /\ DataTyped /\ FormsTyped /\ SelTyped /\ EditorTyped /\ LoadTyped
      /\ CountsTyped /\ ReadsOK /\ DeskInv
  BY TypedParts DEF TypeInv
<1>1. DeskInv'
  BY <1>0, FinishingKeeps
<1>2. UNCHANGED <<disk, picks, todo, run, inputs, changes>>
  BY DEF FinishRefresh
<1> DEFINE gossip == IF disk.gossip.ok THEN disk.gossip ELSE data.gossip
           file == Keep(sel.file, data.entries)
           conflict == Keep(sel.conflict, data.conflicts)
           commit == Keep(sel.commit, data.commits)
<1>3. gossip \in Gossip
  BY <1>0 DEF Disk, DataTyped
<1>4. disk.gossip.ok \in BOOLEAN
  BY <1>0 DEF Disk, Gossip
<1>5. /\ data' = [data EXCEPT !.gossip = gossip, !.error = ~disk.gossip.ok]
      /\ sel' = [sel EXCEPT !.file = file, !.shown = <<file, sel.staged>>,
                            !.conflict = conflict, !.commit = commit]
      /\ editor' \in {NoEditor, editor}
      /\ text' = Cleared(load.after, FillBlanks(gossip))
      /\ load' = NoLoad
  BY DEF FinishRefresh
<1>6. ASSUME NEW T, NEW list \in Seq(T), NEW selected \in T \cup {""}
      PROVE  Keep(selected, list) \in T \cup {""}
  <2>1. list # <<>> => Head(list) \in T
    BY HeadTail
  <2> QED
    BY <2>1 DEF Keep
<1>7. file \in File \cup {""} /\ conflict \in File \cup {""} /\ commit \in Commit \cup {""}
      /\ sel.staged \in BOOLEAN
  BY <1>0, <1>6 DEF SelTyped, DataTyped
<1> HIDE DEF gossip, file, conflict, commit
<1>8. SelTyped'
  <2>1. <<file, sel.staged>> \in (File \cup {""}) \X BOOLEAN
    BY <1>7
  <2> QED
    BY <1>0, <1>5, <1>7, <2>1 DEF SelTyped
<1>9. DataTyped' /\ data'.branch = data.branch
  <2>1. data'.branch = data.branch /\ data'.head = data.head /\ data'.entries = data.entries
        /\ data'.doing = data.doing /\ data'.conflicts = data.conflicts
        /\ data'.commits = data.commits /\ data'.reflog = data.reflog
        /\ data'.gossip = gossip /\ data'.error = ~disk.gossip.ok
    BY <1>0, <1>5 DEF DeskInv, Fields, DataFields
  <2> QED
    BY <1>0, <1>3, <1>4, <2>1 DEF DataTyped
<1>10. EditorTyped'
  <2>1. NoEditor \in [file : File \cup {""}, sections : Seq(Section), error : BOOLEAN]
    BY NothingTyped DEF NoEditor
  <2> QED
    BY <1>0, <1>5, <2>1 DEF EditorTyped
<1>11. FormsTyped'
  <2>1. ASSUME NEW f \in TextField PROVE FillBlanks(gossip)[f] \in STRING
    <3>1. f \in DOMAIN Offered(gossip) => Offered(gossip)[f] \in STRING
      BY <1>3, OfferedText
    <3>2. text[f] \in STRING
      BY <1>0 DEF FormsTyped
    <3>3. FillBlanks(gossip)[f] \in {text[f]} \cup
              (IF f \in DOMAIN Offered(gossip) THEN {Offered(gossip)[f]} ELSE {})
      BY DEF FillBlanks
    <3> QED
      BY <3>1, <3>2, <3>3
  <2>2. \A f \in TextField :
            (IF f = load.after THEN "" ELSE FillBlanks(gossip)[f]) \in STRING
    BY <2>1, NothingTyped
  <2>3. text' \in [TextField -> STRING]
    BY <1>5, <2>2, Zenon DEF Cleared
  <2> QED
    BY <1>0, <1>2, <2>3 DEF FormsTyped
<1>12. LoadTyped' /\ load'.branch = "" /\ load'.head = ""
  BY <1>5, NothingTyped DEF LoadTyped, NoLoad
<1>13. CountsTyped' /\ disk' \in Disk
  BY <1>0, <1>2 DEF CountsTyped
<1>14. ReadsOK'
  BY <1>0, <1>2, <1>9, <1>12 DEF ReadsOK
<1> QED
  BY <1>1, <1>8, <1>9, <1>10, <1>11, <1>12, <1>13, <1>14, TypedParts DEF TypeInv

\* A refresh begins by itself or after a command.
LEMMA StartKeepsTypes ==
    ASSUME TypeInv, StartRefresh \/ CommandEnding
    PROVE  TypeInv'
<1>0. /\ disk \in Disk /\ DataTyped /\ FormsTyped /\ SelTyped /\ EditorTyped /\ LoadTyped
      /\ CountsTyped /\ ReadsOK /\ DeskInv
  BY TypedParts DEF TypeInv
<1>1. DeskInv'
  BY <1>0, ReadingKeeps, EndingKeeps DEF CommandEnding
<1>2. UNCHANGED <<disk, data, forms, sel, editor, inputs, changes>>
  BY DEF StartRefresh, CommandEnding, CommandEnds
<1>3. run' \in {run, NoRun}
  BY DEF StartRefresh, CommandEnding, CommandEnds
<1>4. PICK after \in {"none", "members", "peer"} : Refresh(after)
  <2>1. CASE StartRefresh
    BY <2>1 DEF StartRefresh
  <2>2. CASE CommandEnding
    <3>1. PICK outcome : CommandEnds(outcome)
      BY <2>2 DEF CommandEnding
    <3>2. Refresh("none") \/ Refresh(run.after)
      BY <3>1 DEF CommandEnds
    <3> QED
      BY <1>0, <3>2 DEF ReadsOK
  <2> QED
    BY <2>1, <2>2
<1>5. LoadTyped' /\ load'.branch = "" /\ load'.head = ""
  <2>1. load' = [pc |-> "status", branch |-> "", head |-> "", entries |-> <<>>, after |-> after]
    BY <1>4, RefreshTyped, Zenon
  <2>2. LoadTyped'
    BY <1>4, RefreshTyped, Zenon
  <2> QED
    BY <2>1, <2>2
<1>6. DataTyped' /\ FormsTyped' /\ SelTyped' /\ disk' \in Disk
  BY <1>0, <1>2 DEF DataTyped, FormsTyped, SelTyped, forms
<1>7. EditorTyped' /\ CountsTyped'
  BY <1>0, <1>2 DEF EditorTyped, CountsTyped
<1>8. ReadsOK'
  <2>1. NoRun.after = "none"
    BY DEF NoRun
  <2> QED
    BY <1>0, <1>2, <1>3, <1>5, <2>1 DEF ReadsOK
<1> QED
  BY <1>1, <1>5, <1>6, <1>7, <1>8, TypedParts DEF TypeInv

LEMMA ChangesKeepTypes ==
    ASSUME TypeInv, ChangeDisk \/ UNCHANGED vars
    PROVE  TypeInv'
<1>0. /\ disk \in Disk /\ DataTyped /\ FormsTyped /\ SelTyped /\ EditorTyped /\ LoadTyped
      /\ CountsTyped /\ ReadsOK /\ DeskInv
  BY TypedParts DEF TypeInv
<1>1. DeskInv'
  BY <1>0, ChangesKeep
<1>2. UNCHANGED <<data, forms, sel, editor, run, load, inputs>>
  BY DEF ChangeDisk, vars
<1>3. disk' \in Disk /\ disk'.branch \in Branches
  BY <1>0, DeskAssumption DEF ChangeDisk, vars, ReadsOK, Branches
<1>4. CountsTyped'
  <2>1. MaxChanges \in Nat
    BY DeskAssumption
  <2>2. changes' = changes \/ (changes < MaxChanges /\ changes' = changes + 1)
    BY DEF ChangeDisk, vars
  <2> QED
    BY <1>0, <1>2, <2>1, <2>2 DEF CountsTyped
<1>5. DataTyped' /\ FormsTyped' /\ SelTyped'
  BY <1>0, <1>2 DEF DataTyped, FormsTyped, SelTyped, forms
<1>6. EditorTyped' /\ LoadTyped'
  BY <1>0, <1>2 DEF EditorTyped, LoadTyped
<1>7. ReadsOK'
  BY <1>0, <1>2, <1>3 DEF ReadsOK
<1> QED
  BY <1>1, <1>3, <1>4, <1>5, <1>6, <1>7, TypedParts DEF TypeInv

LEMMA TypeInvHolds == DeskSpec => []TypeInv
<1>1. TypeInv /\ [DeskNext]_vars => TypeInv'
  <2> SUFFICES ASSUME TypeInv, [DeskNext]_vars PROVE TypeInv'
    OBVIOUS
  <2>1. CASE Refreshing
    BY <2>1, StartKeepsTypes, StatusKeepsTypes, RepoKeepsTypes, FinishKeepsTypes
    DEF Refreshing
  <2>2. CASE CommandEnding
    BY <2>2, StartKeepsTypes
  <2>3. CASE Input /\ People
    BY <2>3, PeopleKeepTypes
  <2>4. CASE ChangeDisk \/ UNCHANGED vars
    BY <2>4, ChangesKeepTypes
  <2> QED
    BY <2>1, <2>2, <2>3, <2>4 DEF DeskNext
<1> QED
  BY <1>1, TypeInvStarts, PTL DEF DeskSpec

\* The fields, lists and hunks of the front end are well formed: no button adds
\* a blank to the list for cherry-pick ("Add to cherry-pick"), and the hunks of
\* the editor have a side for every line (parse_conflict_sections).
THEOREM DeskTypeCorrect == DeskSpec => []DeskTypeOK
<1>1. TypeInv => DeskTypeOK
  BY DEF TypeInv
<1> QED
  BY <1>1, TypeInvHolds, PTL

-----------------------------------------------------------------------------
(* Sequences that are put together part by part.                           *)

Mapped(g, s) == [i \in DOMAIN s |-> g[s[i]]]

\* The part of one element more comes last.
MappedOn(g, s, e) == Mapped(g, Append(s, e)) = Append(Mapped(g, s), g[e])

LEMMA MappedAppend ==
    ASSUME NEW E, NEW V, NEW g \in [E -> V], NEW s \in Seq(E), NEW e \in E
    PROVE  Mapped(g, s) \in Seq(V) /\ MappedOn(g, s, e)
<1> DEFINE more == Append(s, e)
           m == Mapped(g, s)
           both == Append(m, g[e])
           n == Len(s)
<1>1. OneLonger(more, s, e)
  BY AppendFacts
<1>2. /\ n \in Nat /\ DOMAIN s = 1..n /\ \A i \in 1..n : s[i] \in E /\ g[s[i]] \in V
      /\ g[e] \in V
  OBVIOUS
<1>3. m = [i \in 1..n |-> g[s[i]]]
  BY <1>2 DEF Mapped
<1>4. m \in Seq(V) /\ Len(m) = n
  BY <1>2, <1>3
<1>5. OneLonger(both, m, g[e])
  BY <1>2, <1>4, AppendFacts
<1> HIDE DEF more, m, both, n
<1>6. /\ DOMAIN more = 1..(n + 1) /\ more[n + 1] = e /\ \A i \in 1..n : more[i] = s[i]
  BY <1>1 DEF OneLonger, n
<1>7. /\ both = [i \in 1..(n + 1) |-> both[i]] /\ both[n + 1] = g[e]
      /\ \A i \in 1..n : both[i] = g[s[i]]
  BY <1>3, <1>4, <1>5 DEF OneLonger
<1>8. ASSUME NEW i \in 1..(n + 1) PROVE g[more[i]] = both[i]
  <2>1. CASE i = n + 1
    BY <1>6, <1>7, <2>1
  <2>2. CASE i \in 1..n
    BY <1>6, <1>7, <2>2
  <2> QED
    BY <1>2, <2>1, <2>2
<1>9. Mapped(g, more) = [i \in 1..(n + 1) |-> g[more[i]]]
  BY <1>6 DEF Mapped
<1> QED
  BY <1>4, <1>7, <1>8, <1>9 DEF m, more, both, MappedOn

JoinedOn(g, s, e) ==
    FlattenSeq(Mapped(g, Append(s, e))) = FlattenSeq(Mapped(g, s)) \o g[e]

LEMMA MappedJoined ==
    ASSUME NEW E, NEW T, NEW g \in [E -> Seq(T)], NEW s \in Seq(E), NEW e \in E
    PROVE  FlattenSeq(Mapped(g, s)) \in Seq(T) /\ JoinedOn(g, s, e)
<1> DEFINE m == Mapped(g, s)
<1>1. m \in Seq(Seq(T)) /\ g[e] \in Seq(T)
  BY MappedAppend
<1>2. MappedOn(g, s, e)
  BY MappedAppend
<1> HIDE DEF m
<1>3. FlattenSeq(m) \in Seq(T) /\ FlattenSeq(Append(m, g[e])) = FlattenSeq(m) \o g[e]
  BY <1>1, FlattenAppend, FlattenType
<1> QED
  BY <1>2, <1>3 DEF m, MappedOn, JoinedOn

LEMMA MappedNothing == ASSUME NEW g PROVE FlattenSeq(Mapped(g, <<>>)) = <<>>
<1>1. Mapped(g, <<>>) = <<>>
  BY EmptyDomain DEF Mapped
<1> QED
  BY <1>1, FlattenNothing

\* Putting sequences together in another order.
AppendLater(s, u, e) == Append(s \o u, e) = s \o Append(u, e)

LEMMA JoinFacts ==
    ASSUME NEW T, NEW s \in Seq(T), NEW u \in Seq(T)
    PROVE  /\ \A v \in Seq(T) : (s \o u) \o v = s \o (u \o v)
           /\ \A e \in T : AppendLater(s, u, e)
           /\ s \o <<>> = s /\ <<>> \o s = s
<1>1. \A v \in Seq(T) : (s \o u) \o v = s \o (u \o v)
  OBVIOUS
<1>2. s \o <<>> = s /\ <<>> \o s = s
  OBVIOUS
<1>3. ASSUME NEW e \in T PROVE AppendLater(s, u, e)
  <2>1. \A w \in Seq(T) : Append(w, e) = w \o <<e>>
    OBVIOUS
  <2>2. s \o u \in Seq(T) /\ <<e>> \in Seq(T)
    OBVIOUS
  <2>3. Append(s \o u, e) = (s \o u) \o <<e>> /\ Append(u, e) = u \o <<e>>
    BY <2>1, <2>2, Zenon
  <2>4. (s \o u) \o <<e>> = s \o (u \o <<e>>)
    BY <1>1, <2>2, Zenon
  <2> QED
    BY <2>3, <2>4, Zenon DEF AppendLater
<1> QED
  BY <1>1, <1>2, <1>3

-----------------------------------------------------------------------------
(* The loop of parse_cli_tokens.                                           *)

CliReader == [done : Seq(Lines), word : Lines, quote : {Blank, Single, Double},
              escape : BOOLEAN]

CliReaderIs(done, word, quote, escape) ==
    [done |-> done, word |-> word, quote |-> quote, escape |-> escape]

CliReaderStarts == CliReaderIs(<<>>, <<>>, Blank, FALSE)

Taking == [x \in CliReader \X STRING |-> TakeCharacter(x[1], x[2])]

\* The words that were read.
WordsOf(done, word) == IF word = <<>> THEN done ELSE Append(done, word)

LEMMA Characters ==
    /\ {Blank, Single, Double, Escape} \subseteq STRING
    /\ Blank # Single /\ Blank # Double /\ Blank # Escape
    /\ Single # Double /\ Single # Escape /\ Double # Escape
<1>1. {Blank, Single, Double, Escape} \subseteq STRING
  BY LiteralAssumption
<1>2. /\ Blank # Single /\ Blank # Double /\ Blank # Escape
      /\ Single # Double /\ Single # Escape /\ Double # Escape
  BY DEF Blank, Single, Double, Escape
<1> QED
  BY <1>1, <1>2

LEMMA CliReaderType ==
    ASSUME NEW done \in Seq(Lines), NEW word \in Lines,
           NEW quote \in {Blank, Single, Double}, NEW escape \in BOOLEAN
    PROVE  CliReaderIs(done, word, quote, escape) \in CliReader
  BY DEF CliReader, CliReaderIs

\* What each character does.
LEMMA TakeCharacterSteps ==
    ASSUME NEW done \in Seq(Lines), NEW word \in Lines,
           NEW quote \in {Blank, Single, Double}, NEW ch \in STRING
    PROVE  LET s == CliReaderIs(done, word, quote, FALSE) IN
           /\ TakeCharacter(CliReaderIs(done, word, quote, TRUE), ch) =
                 CliReaderIs(done, Append(word, ch), quote, FALSE)
           /\ ch = Escape /\ quote # Single =>
                 TakeCharacter(s, ch) = CliReaderIs(done, word, quote, TRUE)
           /\ ch = Single /\ quote # Double =>
                 TakeCharacter(s, ch) =
                     CliReaderIs(done, word, IF quote = Single THEN Blank ELSE Single, FALSE)
           /\ ch = Double /\ quote # Single =>
                 TakeCharacter(s, ch) =
                     CliReaderIs(done, word, IF quote = Double THEN Blank ELSE Double, FALSE)
           /\ ch = Blank /\ quote = Blank =>
                 TakeCharacter(s, ch) = CliReaderIs(WordsOf(done, word), <<>>, Blank, FALSE)
           /\ /\ ~(ch = Escape /\ quote # Single) /\ ~(ch = Single /\ quote # Double)
              /\ ~(ch = Double /\ quote # Single) /\ ~(ch = Blank /\ quote = Blank)
              => TakeCharacter(s, ch) = CliReaderIs(done, Append(word, ch), quote, FALSE)
<1> DEFINE s == CliReaderIs(done, word, quote, FALSE)
           e == CliReaderIs(done, word, quote, TRUE)
<1>1. /\ s.done = done /\ s.word = word /\ s.quote = quote /\ s.escape = FALSE
      /\ e.done = done /\ e.word = word /\ e.quote = quote /\ e.escape = TRUE
  BY DEF CliReaderIs
<1>2. TakeCharacter(e, ch) = CliReaderIs(done, Append(word, ch), quote, FALSE)
  <2>1. TakeCharacter(e, ch) = [e EXCEPT !.word = Append(e.word, ch), !.escape = FALSE]
    BY <1>1 DEF TakeCharacter
  <2> QED
    BY <1>1, <2>1 DEF CliReaderIs
<1>3. ASSUME ch = Escape, quote # Single
      PROVE  TakeCharacter(s, ch) = CliReaderIs(done, word, quote, TRUE)
  <2>1. TakeCharacter(s, ch) = [s EXCEPT !.escape = TRUE]
    BY <1>1, <1>3, Characters DEF TakeCharacter
  <2> QED
    BY <1>1, <2>1 DEF CliReaderIs
<1>4. ASSUME ch = Single, quote # Double
      PROVE  TakeCharacter(s, ch) =
                 CliReaderIs(done, word, IF quote = Single THEN Blank ELSE Single, FALSE)
  <2>1. TakeCharacter(s, ch) = [s EXCEPT !.quote = IF s.quote = Single THEN Blank ELSE Single]
    BY <1>1, <1>4, Characters DEF TakeCharacter
  <2> QED
    BY <1>1, <2>1 DEF CliReaderIs
<1>5. ASSUME ch = Double, quote # Single
      PROVE  TakeCharacter(s, ch) =
                 CliReaderIs(done, word, IF quote = Double THEN Blank ELSE Double, FALSE)
  <2>1. TakeCharacter(s, ch) = [s EXCEPT !.quote = IF s.quote = Double THEN Blank ELSE Double]
    BY <1>1, <1>5, Characters DEF TakeCharacter
  <2> QED
    BY <1>1, <2>1 DEF CliReaderIs
<1>6. ASSUME ch = Blank, quote = Blank
      PROVE  TakeCharacter(s, ch) = CliReaderIs(WordsOf(done, word), <<>>, Blank, FALSE)
  <2>1. TakeCharacter(s, ch) = [s EXCEPT !.word = <<>>,
            !.done = IF s.word = <<>> THEN s.done ELSE Append(s.done, s.word)]
    BY <1>1, <1>6, Characters DEF TakeCharacter
  <2> QED
    BY <1>1, <1>6, <2>1 DEF CliReaderIs, WordsOf
<1>7. ASSUME ~(ch = Escape /\ quote # Single), ~(ch = Single /\ quote # Double),
             ~(ch = Double /\ quote # Single), ~(ch = Blank /\ quote = Blank)
      PROVE  TakeCharacter(s, ch) = CliReaderIs(done, Append(word, ch), quote, FALSE)
  <2>1. TakeCharacter(s, ch) = [s EXCEPT !.word = Append(s.word, ch)]
    BY <1>1, <1>7 DEF TakeCharacter
  <2> QED
    BY <1>1, <2>1 DEF CliReaderIs
<1> QED
  BY <1>2, <1>3, <1>4, <1>5, <1>6, <1>7

LEMMA TakingType ==
    /\ Taking \in [CliReader \X STRING -> CliReader]
    /\ \A s \in CliReader, ch \in STRING : Taking[<<s, ch>>] = TakeCharacter(s, ch)
    /\ CliReaderStarts \in CliReader
<1>0. ASSUME NEW done \in Seq(Lines), NEW word \in Lines, NEW ch \in STRING
      PROVE  Append(word, ch) \in Lines /\ WordsOf(done, word) \in Seq(Lines) /\ <<>> \in Lines
  <2>0. \A T : <<>> \in Seq(T) /\ \A s \in Seq(T), e \in T : Append(s, e) \in Seq(T)
    OBVIOUS
  <2>1. Append(word, ch) \in Lines /\ <<>> \in Lines
    BY <2>0, Zenon DEF Lines
  <2>2. Append(done, word) \in Seq(Lines)
    OBVIOUS
  <2> QED
    BY <2>1, <2>2 DEF WordsOf
<1>1. ASSUME NEW s \in CliReader, NEW ch \in STRING PROVE TakeCharacter(s, ch) \in CliReader
  <2> DEFINE done == s.done
             word == s.word
             quote == s.quote
  <2>1. /\ done \in Seq(Lines) /\ word \in Lines /\ quote \in {Blank, Single, Double}
        /\ s.escape \in BOOLEAN
        /\ s = CliReaderIs(done, word, quote, s.escape)
    BY DEF CliReader, CliReaderIs
  <2> HIDE DEF done, word, quote
  <2>2. /\ Append(word, ch) \in Lines /\ WordsOf(done, word) \in Seq(Lines) /\ <<>> \in Lines
    BY <1>0, <2>1
  <2>3. /\ CliReaderIs(done, Append(word, ch), quote, FALSE) \in CliReader
        /\ CliReaderIs(done, word, quote, TRUE) \in CliReader
        /\ CliReaderIs(WordsOf(done, word), <<>>, Blank, FALSE) \in CliReader
        /\ \A q \in {Blank, Single, Double} :
              CliReaderIs(done, word, q, FALSE) \in CliReader
    BY <2>1, <2>2, CliReaderType
  <2>4. CASE s.escape
    <3>1. s = CliReaderIs(done, word, quote, TRUE)
      BY <2>1, <2>4
    <3>2. TakeCharacter(CliReaderIs(done, word, quote, TRUE), ch) =
              CliReaderIs(done, Append(word, ch), quote, FALSE)
      BY <2>1, TakeCharacterSteps
    <3> QED
      BY <2>3, <3>1, <3>2, Zenon
  <2>5. CASE ~s.escape
    <3>1. s = CliReaderIs(done, word, quote, FALSE)
      BY <2>1, <2>5
    <3> DEFINE next == TakeCharacter(CliReaderIs(done, word, quote, FALSE), ch)
    <3>2. /\ ch = Escape /\ quote # Single => next = CliReaderIs(done, word, quote, TRUE)
          /\ ch = Single /\ quote # Double =>
                next = CliReaderIs(done, word, IF quote = Single THEN Blank ELSE Single, FALSE)
          /\ ch = Double /\ quote # Single =>
                next = CliReaderIs(done, word, IF quote = Double THEN Blank ELSE Double, FALSE)
          /\ ch = Blank /\ quote = Blank =>
                next = CliReaderIs(WordsOf(done, word), <<>>, Blank, FALSE)
          /\ /\ ~(ch = Escape /\ quote # Single) /\ ~(ch = Single /\ quote # Double)
             /\ ~(ch = Double /\ quote # Single) /\ ~(ch = Blank /\ quote = Blank)
             => next = CliReaderIs(done, Append(word, ch), quote, FALSE)
      BY <2>1, TakeCharacterSteps
    <3> HIDE DEF next
    <3>4. next \in CliReader
      BY <2>3, <3>2
    <3>3. TakeCharacter(CliReaderIs(done, word, quote, FALSE), ch) \in CliReader
      BY <3>4 DEF next
    <3> QED
      BY <3>1, <3>3, Zenon
  <2> QED
    BY <2>1, <2>4, <2>5
<1>2. CliReaderStarts \in CliReader
  <2>1. <<>> \in Seq(Lines) /\ <<>> \in Lines
    BY DEF Lines
  <2> QED
    BY <2>1, CliReaderType DEF CliReaderStarts
<1> QED
  BY <1>1, <1>2 DEF Taking

LEMMA TakingEnds ==
    ASSUME NEW s \in Lines
    PROVE  EndsIn(CliReader, Taking, CliReaderStarts, s,
                  FoldLeft(TakeCharacter, CliReaderStarts, s))
<1> DEFINE Obeys(f) == f = [t \in SUBSET (DOMAIN s) |->
               IF t = {} THEN CliReaderStarts ELSE TakeCharacter(f[t \ {Max(t)}], s[Max(t)])]
           iter == CHOOSE f : Obeys(f)
<1>0. s \in Seq(STRING) /\ Len(s) \in Nat /\ DOMAIN s = 1..Len(s)
  BY DEF Lines
<1>1. PICK f : Recursion(f, CliReader, CliReaderStarts, s, Taking)
  BY <1>0, TakingType, FoldExists
<1>2. f \in [SUBSET (DOMAIN s) -> CliReader] /\ f[{}] = CliReaderStarts
  BY <1>1 DEF Recursion
<1>3. ASSUME NEW t \in SUBSET (DOMAIN s), t # {} PROVE s[Max(t)] \in STRING
  <2>1. Max(t) \in DOMAIN s
    BY <1>0, <1>3, MaxUpTo
  <2> QED
    BY <1>0, <2>1
<1>4. \A t \in SUBSET (DOMAIN s) : t # {} => f[t] = TakeCharacter(f[t \ {Max(t)}], s[Max(t)])
  BY <1>1, <1>2, <1>3, TakingType DEF Recursion
<1>5. Obeys(f)
  BY <1>2, <1>4
<1>6. Obeys(iter)
  BY <1>5
<1>7. FoldLeft(TakeCharacter, CliReaderStarts, s) = iter[DOMAIN s]
  BY DEF FoldLeft, MapThenFoldSet
<1> HIDE DEF iter
<1>8. iter[{}] = CliReaderStarts
  BY <1>6
<1>9. \A t \in SUBSET (DOMAIN s) :
          t # {} /\ iter[t \ {Max(t)}] \in CliReader =>
              iter[t] = Taking[<<iter[t \ {Max(t)}], s[Max(t)]>>]
  BY <1>3, <1>6, TakingType
<1>10. EndsIn(CliReader, Taking, CliReaderStarts, s, iter[DOMAIN s])
  BY <1>0, <1>8, <1>9, TakingType, FoldEnds
<1> QED
  BY <1>7, <1>10

-----------------------------------------------------------------------------
(* What is quoted is read as it was meant.                                 *)

CliReads(from, read, to) == EndsIn(CliReader, Taking, from, read, to)

LEMMA OneTaken ==
    ASSUME NEW s \in CliReader, NEW ch \in STRING
    PROVE  CliReads(s, <<ch>>, TakeCharacter(s, ch))
<1>1. EndsIn(CliReader, Taking, s, <<>>, s)
  BY EndsWithout
<1>2. <<>> \in Seq(STRING) /\ Append(<<>>, ch) = <<ch>>
  OBVIOUS
<1>3. EndsIn(CliReader, Taking, s, Append(<<>>, ch), Taking[<<s, ch>>])
  BY <1>1, <1>2, TakingType, EndsAfter
<1>4. Taking[<<s, ch>>] = TakeCharacter(s, ch)
  BY TakingType
<1> QED
  BY <1>2, <1>3, <1>4 DEF CliReads

LEMMA CliReadsOn ==
    ASSUME NEW from \in CliReader, NEW read \in Lines, NEW more \in Lines, NEW via, NEW to,
           CliReads(from, read, via), CliReads(via, more, to)
    PROVE  CliReads(from, read \o more, to)
  BY EndsThen, TakingType DEF CliReads, Lines

\* A character, after a backslash if it must be.
Escaping(ch, chars) == IF ch \in chars THEN <<Escape, ch>> ELSE <<ch>>

Escaped(word, chars) == [i \in DOMAIN word |-> Escaping(word[i], chars)]

LEMMA EscapedParts ==
    ASSUME NEW chars, NEW word \in Lines, NEW ch \in STRING
    PROVE  /\ Escaping(ch, chars) \in Lines
           /\ Escaped(word, chars) \in Seq(Lines)
           /\ Escaped(Append(word, ch), chars) =
                  Append(Escaped(word, chars), Escaping(ch, chars))
<1>1. \A c \in STRING : Escaping(c, chars) \in Lines
  BY LineFacts, Characters DEF Escaping
<1>2. word \in Seq(STRING) /\ Len(word) \in Nat /\ DOMAIN word = 1..Len(word)
      /\ \A i \in DOMAIN word : word[i] \in STRING
  BY DEF Lines
<1>3. Escaped(word, chars) \in Seq(Lines) /\ Len(Escaped(word, chars)) = Len(word)
  <2>1. \A i \in 1..Len(word) : Escaping(word[i], chars) \in Lines
    BY <1>1, <1>2
  <2>2. Escaped(word, chars) = [i \in 1..Len(word) |-> Escaping(word[i], chars)]
    BY <1>2 DEF Escaped
  <2>3. Escaped(word, chars) \in [1..Len(word) -> Lines]
    BY <2>1, <2>2, Zenon
  <2> QED
    BY <1>2, <2>3
<1> DEFINE longer == Append(word, ch)
<1>o. OneLonger(longer, word, ch)
  BY <1>2, AppendFacts
<1> HIDE DEF longer
<1>4. /\ DOMAIN longer = 1..(Len(word) + 1) /\ longer[Len(word) + 1] = ch
      /\ \A i \in 1..Len(word) : longer[i] = word[i]
  BY <1>o DEF OneLonger
<1>5. Escaped(longer, chars) = Append(Escaped(word, chars), Escaping(ch, chars))
  <2> DEFINE e == Escaped(word, chars)
             last == Escaping(ch, chars)
  <2>1. DOMAIN e = 1..Len(word) /\ \A i \in 1..Len(word) : e[i] = Escaping(word[i], chars)
    BY <1>2 DEF Escaped
  <2>a. e \in Seq(Lines) /\ Len(e) = Len(word) /\ last \in Lines
    BY <1>1, <1>3
  <2> HIDE DEF e, last
  <2> DEFINE both == Append(e, last)
  <2>b. OneLonger(both, e, last)
    BY <2>a, AppendFacts
  <2> HIDE DEF both
  <2>2. /\ DOMAIN both = 1..(Len(word) + 1) /\ both[Len(word) + 1] = last
        /\ \A i \in 1..Len(word) : both[i] = e[i]
        /\ both = [i \in 1..(Len(word) + 1) |-> both[i]]
    BY <2>a, <2>b DEF OneLonger
  <2>3. \A i \in 1..(Len(word) + 1) : Escaping(longer[i], chars) = both[i]
    <3> SUFFICES ASSUME NEW i \in 1..(Len(word) + 1)
                 PROVE  Escaping(longer[i], chars) = both[i]
      OBVIOUS
    <3>1. CASE i = Len(word) + 1
      <4>1. longer[i] = ch /\ both[i] = last
        BY <1>4, <2>2, <3>1
      <4> QED
        BY <4>1 DEF last
    <3>2. CASE i \in 1..Len(word)
      BY <1>4, <2>1, <2>2, <3>2
    <3> QED
      BY <1>2, <3>1, <3>2
  <2>4. Escaped(longer, chars) = [i \in 1..(Len(word) + 1) |-> Escaping(longer[i], chars)]
    BY <1>4 DEF Escaped
  <2> QED
    BY <2>2, <2>3, <2>4 DEF e, last, both
<1> QED
  BY <1>1, <1>3, <1>5 DEF longer

\* The characters that need a backslash.
MustEscape(quote) ==
    IF quote = Blank THEN {Blank, Single, Double, Escape} ELSE {Double, Escape}

LEMMA EscapedReads ==
    ASSUME NEW done \in Seq(Lines), NEW quote \in {Blank, Double}
    PROVE  \A word \in Lines :
               CliReads(CliReaderIs(done, <<>>, quote, FALSE),
                        FlattenSeq(Escaped(word, MustEscape(quote))),
                        CliReaderIs(done, word, quote, FALSE))
<1> DEFINE chars == MustEscape(quote)
           base == CliReaderIs(done, <<>>, quote, FALSE)
           written(word) == FlattenSeq(Escaped(word, chars))
           good == {word \in Lines :
                       CliReads(base, written(word), CliReaderIs(done, word, quote, FALSE))}
<1>0. quote \in {Blank, Single, Double} /\ quote # Single /\ base \in CliReader
  BY Characters, LineFacts, CliReaderType
<1>1. <<>> \in good
  <2>1. Escaped(<<>>, chars) = <<>>
    BY EmptyDomain DEF Escaped
  <2>2. written(<<>>) = <<>>
    BY <2>1, FlattenNothing
  <2>3. CliReads(base, <<>>, base)
    BY <1>0, EndsWithout DEF CliReads
  <2> HIDE DEF written
  <2> QED
    BY <2>2, <2>3, LineFacts
<1>2. ASSUME NEW word \in Lines, NEW ch \in STRING, word \in good
      PROVE  Append(word, ch) \in good
  <2> DEFINE s == CliReaderIs(done, word, quote, FALSE)
             escaped == CliReaderIs(done, word, quote, TRUE)
             next == CliReaderIs(done, Append(word, ch), quote, FALSE)
  <2>1. s \in CliReader /\ escaped \in CliReader
    BY <1>0, CliReaderType
  <2>2. written(Append(word, ch)) = written(word) \o Escaping(ch, chars)
    BY EscapedParts, FlattenAppend DEF Lines
  <2>3. written(word) \in Lines /\ Escaping(ch, chars) \in Lines
    BY EscapedParts, FlattenType DEF Lines
  <2>4. CliReads(base, written(word), s)
    BY <1>2
  <2>5. CliReads(s, Escaping(ch, chars), next)
    <3>1. CASE ch \in chars
      <4>1. TakeCharacter(s, Escape) = escaped
        BY <1>0, Characters, TakeCharacterSteps
      <4>2. TakeCharacter(escaped, ch) = next
        BY <1>0, TakeCharacterSteps
      <4> HIDE DEF s, escaped, next
      <4>3. CliReads(s, <<Escape>>, escaped)
        BY <2>1, <4>1, Characters, OneTaken
      <4>4. CliReads(escaped, <<ch>>, next)
        BY <2>1, <4>2, OneTaken
      <4>5. Escaping(ch, chars) = <<Escape>> \o <<ch>> /\ <<Escape>> \in Lines /\ <<ch>> \in Lines
        BY <3>1, LineFacts, Characters DEF Escaping
      <4> QED
        BY <2>1, <4>3, <4>4, <4>5, CliReadsOn
    <3>2. CASE ch \notin chars
      <4>1. /\ ~(ch = Escape /\ quote # Single) /\ ~(ch = Single /\ quote # Double)
            /\ ~(ch = Double /\ quote # Single) /\ ~(ch = Blank /\ quote = Blank)
        BY <1>0, <3>2 DEF MustEscape
      <4>2. TakeCharacter(s, ch) = next
        BY <1>0, <4>1, TakeCharacterSteps
      <4> HIDE DEF s, next
      <4>3. CliReads(s, <<ch>>, next)
        BY <2>1, <4>2, OneTaken
      <4> QED
        BY <3>2, <4>3 DEF Escaping
    <3> QED
      BY <3>1, <3>2
  <2> HIDE DEF written, base, chars, s, next
  <2>6. CliReads(base, written(Append(word, ch)), next)
    BY <1>0, <2>2, <2>3, <2>4, <2>5, CliReadsOn
  <2>7. Append(word, ch) \in Lines
    BY LineFacts
  <2> QED
    BY <2>6, <2>7 DEF next
<1> HIDE DEF good
<1>3. Lines \subseteq good
  BY <1>1, <1>2, InductSeq DEF Lines
<1> QED
  BY <1>3 DEF good

\* Between single quotes every character stands for itself.
LEMMA SingleReads ==
    ASSUME NEW done \in Seq(Lines)
    PROVE  \A word \in Lines :
               (\A i \in DOMAIN word : word[i] # Single) =>
                   CliReads(CliReaderIs(done, <<>>, Single, FALSE), word,
                            CliReaderIs(done, word, Single, FALSE))
<1> DEFINE base == CliReaderIs(done, <<>>, Single, FALSE)
           Good(word) == (\A i \in DOMAIN word : word[i] # Single) =>
                             CliReads(base, word, CliReaderIs(done, word, Single, FALSE))
           good == {word \in Lines : Good(word)}
<1>0. base \in CliReader /\ Single # Double /\ Single # Blank
  BY Characters, LineFacts, CliReaderType
<1>1. <<>> \in good
  <2>1. CliReads(base, <<>>, base)
    BY <1>0, EndsWithout DEF CliReads
  <2> QED
    BY <2>1, LineFacts
<1>2. ASSUME NEW word \in Lines, NEW ch \in STRING, word \in good
      PROVE  Append(word, ch) \in good
  <2> DEFINE s == CliReaderIs(done, word, Single, FALSE)
             next == CliReaderIs(done, Append(word, ch), Single, FALSE)
             longer == Append(word, ch)
  <2>1. longer \in Lines /\ longer = word \o <<ch>> /\ <<ch>> \in Lines /\ s \in CliReader
    <3>1. \A T : \A w \in Seq(T), t \in T : Append(w, t) = w \o <<t>>
      OBVIOUS
    <3>2. longer = word \o <<ch>>
      BY <3>1, Zenon DEF Lines
    <3> QED
      BY <3>2, LineFacts, CliReaderType
  <2>2. ASSUME \A i \in DOMAIN longer : longer[i] # Single
        PROVE  CliReads(base, longer, next)
    <3>1. (\A i \in DOMAIN word : word[i] # Single) /\ ch # Single
      <4>1. OneLonger(longer, word, ch)
        BY AppendFacts DEF Lines
      <4> HIDE DEF longer
      <4>2. /\ Len(word) \in Nat /\ DOMAIN word = 1..Len(word)
            /\ DOMAIN longer = 1..(Len(word) + 1) /\ longer[Len(word) + 1] = ch
            /\ \A i \in 1..Len(word) : longer[i] = word[i]
        BY <4>1 DEF OneLonger
      <4>3. \A i \in 1..(Len(word) + 1) : longer[i] # Single
        BY <2>2, <4>2
      <4>4. Len(word) + 1 \in 1..(Len(word) + 1) /\ 1..Len(word) \subseteq 1..(Len(word) + 1)
        BY <4>2
      <4> QED
        BY <4>2, <4>3, <4>4
    <3>2. CliReads(base, word, s)
      BY <1>2, <3>1
    <3>3. TakeCharacter(s, ch) = next
      BY <1>0, <3>1, TakeCharacterSteps
    <3> HIDE DEF s, next, longer
    <3>4. CliReads(s, <<ch>>, next)
      BY <2>1, <3>3, OneTaken
    <3> HIDE DEF base
    <3> QED
      BY <1>0, <2>1, <3>2, <3>4, CliReadsOn
  <2> QED
    BY <2>1, <2>2
<1> HIDE DEF good
<1>3. Lines \subseteq good
  BY <1>1, <1>2, InductSeq DEF Lines
<1> QED
  BY <1>3 DEF good

\* One word, in quotation marks or with backslashes.
LEMMA QuotedReads ==
    ASSUME NEW done \in Seq(Lines), NEW word \in Lines,
           NEW quote \in {Blank, Single, Double}, CanQuote(word, quote)
    PROVE  /\ Quoted(word, quote) \in Lines
           /\ CliReads(CliReaderIs(done, <<>>, Blank, FALSE), Quoted(word, quote),
                       CliReaderIs(done, word, Blank, FALSE))
<1> DEFINE from == CliReaderIs(done, <<>>, Blank, FALSE)
           to == CliReaderIs(done, word, Blank, FALSE)
           open(mark) == CliReaderIs(done, <<>>, mark, FALSE)
           full(mark) == CliReaderIs(done, word, mark, FALSE)
           parts(mark) == Escaped(word, MustEscape(mark))
<1>0. /\ <<>> \in Lines /\ from \in CliReader /\ to \in CliReader
      /\ \A mark \in {Blank, Single, Double} :
            open(mark) \in CliReader /\ full(mark) \in CliReader
      /\ Single \in STRING /\ Double \in STRING
      /\ <<Single>> \in Lines /\ <<Double>> \in Lines
  BY LineFacts, CliReaderType, Characters
<1>1. \A mark \in {Blank, Double} :
          /\ FlattenSeq(parts(mark)) \in Lines
          /\ CliReads(open(mark), FlattenSeq(parts(mark)), full(mark))
  <2>1. \A chars : Escaped(word, chars) \in Seq(Lines)
    BY EscapedParts, Characters
  <2> QED
    BY <2>1, EscapedReads, FlattenType DEF Lines
<1>2. \A mark \in {Single, Double} :
          CliReads(from, <<mark>>, open(mark)) /\ CliReads(full(mark), <<mark>>, to)
  <2>1. /\ TakeCharacter(from, Single) = open(Single)
        /\ TakeCharacter(from, Double) = open(Double)
        /\ TakeCharacter(full(Single), Single) = to
        /\ TakeCharacter(full(Double), Double) = to
    BY <1>0, Characters, TakeCharacterSteps
  <2> HIDE DEF from, to, open, full
  <2>2. CliReads(from, <<Single>>, open(Single)) /\ CliReads(full(Single), <<Single>>, to)
    BY <1>0, <2>1, OneTaken
  <2>3. CliReads(from, <<Double>>, open(Double)) /\ CliReads(full(Double), <<Double>>, to)
    BY <1>0, <2>1, OneTaken
  <2> QED
    BY <2>2, <2>3
<1>3. ASSUME NEW mark \in {Single, Double}, NEW inside \in Lines,
             CliReads(open(mark), inside, full(mark))
      PROVE  /\ <<mark>> \o inside \o <<mark>> \in Lines
             /\ CliReads(from, <<mark>> \o inside \o <<mark>>, to)
  <2>1. /\ <<mark>> \in Lines /\ open(mark) \in CliReader /\ full(mark) \in CliReader
        /\ from \in CliReader
    BY <1>0
  <2>2. CliReads(from, <<mark>>, open(mark)) /\ CliReads(full(mark), <<mark>>, to)
    BY <1>2
  <2> HIDE DEF from, to, open, full
  <2>3. <<mark>> \o inside \in Lines /\ CliReads(from, <<mark>> \o inside, full(mark))
    BY <1>3, <2>1, <2>2, LineFacts, CliReadsOn
  <2> QED
    BY <2>1, <2>2, <2>3, LineFacts, CliReadsOn
<1>4. CASE quote = Single
  <2>1. Quoted(word, quote) = <<Single>> \o word \o <<Single>>
    BY <1>4, Characters DEF Quoted
  <2>2. CliReads(open(Single), word, full(Single))
    BY <1>4, SingleReads DEF CanQuote
  <2> HIDE DEF from, to, open, full
  <2> QED
    BY <1>3, <2>1, <2>2 DEF from, to
<1>5. CASE quote = Double
  <2>1. Quoted(word, quote) = <<Double>> \o FlattenSeq(parts(Double)) \o <<Double>>
    <3>1. MustEscape(Double) = {Double, Escape}
      BY Characters DEF MustEscape
    <3>2. parts(Double) = [i \in DOMAIN word |->
              IF word[i] \in {Double, Escape} THEN <<Escape, word[i]>> ELSE <<word[i]>>]
      BY <3>1 DEF Escaped, Escaping
    <3>3. quote # Single /\ quote # Blank
      BY <1>5, Characters
    <3> HIDE DEF parts
    <3> QED
      BY <1>5, <3>2, <3>3 DEF Quoted
  <2> HIDE DEF from, to, open, full, parts
  <2> QED
    BY <1>1, <1>3, <2>1 DEF from, to
<1>6. CASE quote = Blank
  <2>1. Quoted(word, quote) = FlattenSeq(parts(Blank))
    BY <1>6, Characters DEF Quoted, Escaped, Escaping, MustEscape
  <2> QED
    BY <1>1, <2>1
<1> QED
  BY <1>4, <1>5, <1>6

\* One word more.
LEMMA NotEmptyAppend ==
    ASSUME NEW words \in Seq(Lines), NEW word \in Lines
    PROVE  /\ NotEmpty(words) \in Seq(Lines)
           /\ NotEmpty(Append(words, word)) = WordsOf(NotEmpty(words), word)
<1> DEFINE g == [w \in Lines |-> IF w = <<>> THEN <<>> ELSE <<w>>]
<1>1. g \in [Lines -> Seq(Lines)]
  <2>1. \A T : <<>> \in Seq(T) /\ \A t \in T : <<t>> \in Seq(T)
    OBVIOUS
  <2>2. \A w \in Lines : (IF w = <<>> THEN <<>> ELSE <<w>>) \in Seq(Lines)
    BY <2>1, Zenon
  <2> QED
    BY <2>2
<1>2. g[word] = IF word = <<>> THEN <<>> ELSE <<word>>
  OBVIOUS
<1>3. \A ws \in Seq(Lines) : NotEmpty(ws) = FlattenSeq(Mapped(g, ws))
  <2> SUFFICES ASSUME NEW ws \in Seq(Lines) PROVE NotEmpty(ws) = FlattenSeq(Mapped(g, ws))
    OBVIOUS
  <2>1. \A i \in DOMAIN ws : ws[i] \in Lines
    OBVIOUS
  <2>2. \A i \in DOMAIN ws : g[ws[i]] = IF ws[i] = <<>> THEN <<>> ELSE <<ws[i]>>
    BY <2>1
  <2> HIDE DEF g
  <2>3. Mapped(g, ws) = [i \in DOMAIN ws |-> IF ws[i] = <<>> THEN <<>> ELSE <<ws[i]>>]
    BY <2>2 DEF Mapped
  <2> QED
    BY <2>3 DEF NotEmpty
<1> HIDE DEF g
<1>4. FlattenSeq(Mapped(g, words)) \in Seq(Lines) /\ JoinedOn(g, words, word)
  BY <1>1, MappedJoined
<1> DEFINE kept == NotEmpty(words)
<1>5. kept \in Seq(Lines) /\ NotEmpty(Append(words, word)) = kept \o g[word]
  <2>1. Append(words, word) \in Seq(Lines)
    OBVIOUS
  <2> QED
    BY <1>3, <1>4, <2>1 DEF JoinedOn
<1> HIDE DEF kept
<1>6. kept \o g[word] = WordsOf(kept, word)
  <2>1. \A T : \A u \in Seq(T) : u \o <<>> = u
    OBVIOUS
  <2>2. \A T : \A u \in Seq(T), t \in T : u \o <<t>> = Append(u, t)
    OBVIOUS
  <2>3. kept \o <<>> = kept /\ kept \o <<word>> = Append(kept, word)
    BY <1>5, <2>1, <2>2, Zenon
  <2> QED
    BY <1>2, <2>3 DEF WordsOf
<1> QED
  BY <1>5, <1>6 DEF kept

\* All words, each after a blank.
LEMMA TypedReads ==
    ASSUME NEW quote \in {Blank, Single, Double}
    PROVE  \A words \in Seq(Lines) :
               (\A i \in DOMAIN words : CanQuote(words[i], quote)) =>
                   /\ Typed(words, quote) \in Lines
                   /\ \E done \in Seq(Lines), word \in Lines :
                         /\ WordsOf(done, word) = NotEmpty(words)
                         /\ CliReads(CliReaderStarts, Typed(words, quote),
                                     CliReaderIs(done, word, Blank, FALSE))
<1> DEFINE Part(word) == <<Blank>> \o Quoted(word, quote)
           Parts(words) == [i \in DOMAIN words |-> Part(words[i])]
           Quotable(words) == \A i \in DOMAIN words : CanQuote(words[i], quote)
           Ends(words, done, word) ==
               /\ WordsOf(done, word) = NotEmpty(words)
               /\ CliReads(CliReaderStarts, FlattenSeq(Parts(words)),
                           CliReaderIs(done, word, Blank, FALSE))
           Read(words) ==
               /\ Parts(words) \in Seq(Lines)
               /\ \E done \in Seq(Lines), word \in Lines : Ends(words, done, word)
           good == {words \in Seq(Lines) : Quotable(words) => Read(words)}
<1>0. Blank \in {Blank, Single, Double} /\ <<>> \in Lines /\ <<Blank>> \in Lines
      /\ Blank \in STRING /\ <<>> \in Seq(Lines)
  <2>1. \A T : <<>> \in Seq(T)
    OBVIOUS
  <2> QED
    BY <2>1, Characters, LineFacts
<1>1. <<>> \in good
  <2>1. Parts(<<>>) = <<>>
    BY EmptyDomain
  <2>2. FlattenSeq(Parts(<<>>)) = <<>>
    BY <2>1, FlattenNothing
  <2>3. CliReads(CliReaderStarts, <<>>, CliReaderIs(<<>>, <<>>, Blank, FALSE))
    BY TakingType, EndsWithout DEF CliReads, CliReaderStarts
  <2>4. WordsOf(<<>>, <<>>) = NotEmpty(<<>>)
    <3>1. NotEmpty(<<>>) = <<>>
      BY EmptyDomain, FlattenNothing DEF NotEmpty
    <3> QED
      BY <3>1 DEF WordsOf
  <2> HIDE DEF Parts
  <2>5. Ends(<<>>, <<>>, <<>>)
    BY <2>2, <2>3, <2>4
  <2> HIDE DEF Ends
  <2>6. Read(<<>>)
    BY <1>0, <2>1, <2>5
  <2> HIDE DEF Read
  <2> QED
    BY <1>0, <2>6
<1>2. ASSUME NEW words \in Seq(Lines), NEW word \in Lines, words \in good
      PROVE  Append(words, word) \in good
  <2> DEFINE more == Append(words, word)
  <2>1. OneLonger(more, words, word) /\ more \in Seq(Lines)
    BY AppendFacts
  <2> HIDE DEF more
  <2>2. ASSUME Quotable(more) PROVE Read(more)
    <3>1. /\ \A i \in 1..Len(words) : more[i] = words[i] /\ i \in DOMAIN more
          /\ Len(words) + 1 \in DOMAIN more /\ more[Len(words) + 1] = word
          /\ DOMAIN words = 1..Len(words) /\ DOMAIN more = 1..(Len(words) + 1)
          /\ Len(words) \in Nat
      BY <2>1 DEF OneLonger
    <3>2. Quotable(words) /\ CanQuote(word, quote)
      BY <2>2, <3>1
    <3>3. Read(words)
      BY <1>2, <3>2
    <3>4. PICK done \in Seq(Lines), last \in Lines : Ends(words, done, last)
      BY <3>3
    <3>5. Quoted(word, quote) \in Lines
      BY <3>2, QuotedReads, <1>0
    <3>6. Part(word) \in Lines
      BY <1>0, <3>5, LineFacts
    <3>7. Parts(more) = Append(Parts(words), Part(word))
      <4> HIDE DEF Part
      <4> DEFINE p == Parts(words)
                 both == Append(p, Part(word))
      <4>1. DOMAIN p = DOMAIN words /\ Len(p) = Len(words) /\ p \in Seq(Lines)
            /\ \A i \in DOMAIN words : p[i] = Part(words[i])
        BY <3>1, <3>3
      <4> HIDE DEF p
      <4>2. OneLonger(both, p, Part(word))
        BY <3>6, <4>1, AppendFacts
      <4> HIDE DEF both
      <4>3. /\ both = [i \in 1..(Len(words) + 1) |-> both[i]]
            /\ both[Len(words) + 1] = Part(word)
            /\ \A i \in 1..Len(words) : both[i] = Part(words[i])
        BY <3>1, <4>1, <4>2 DEF OneLonger
      <4>4. ASSUME NEW i \in 1..(Len(words) + 1) PROVE Part(more[i]) = both[i]
        <5>1. CASE i = Len(words) + 1
          BY <3>1, <4>3, <5>1
        <5>2. CASE i \in 1..Len(words)
          BY <3>1, <4>3, <5>2
        <5> QED
          BY <3>1, <5>1, <5>2
      <4>5. Parts(more) = [i \in 1..(Len(words) + 1) |-> Part(more[i])]
        BY <3>1
      <4> QED
        BY <4>3, <4>4, <4>5 DEF both, p
    <3>8. Parts(more) \in Seq(Lines)
      <4> HIDE DEF Parts, Part
      <4> QED
        BY <3>3, <3>6, <3>7
    <3>9. FlattenSeq(Parts(more)) = FlattenSeq(Parts(words)) \o Part(word)
          /\ FlattenSeq(Parts(words)) \in Lines
      <4> HIDE DEF Parts, Part
      <4> QED
        BY <3>3, <3>6, <3>7, FlattenAppend, FlattenType DEF Lines
    <3> DEFINE kept == NotEmpty(words)
               via == CliReaderIs(kept, <<>>, Blank, FALSE)
               to == CliReaderIs(kept, word, Blank, FALSE)
               from == CliReaderIs(done, last, Blank, FALSE)
    <3>a. kept \in Seq(Lines) /\ NotEmpty(more) = WordsOf(kept, word)
      BY NotEmptyAppend DEF more
    <3> HIDE DEF kept
    <3>10. from \in CliReader /\ via \in CliReader /\ to \in CliReader
           /\ CliReaderStarts \in CliReader
      BY <1>0, <3>a, CliReaderType, TakingType
    <3>11. CliReads(from, <<Blank>>, via)
      <4>1. WordsOf(done, last) = kept
        BY <3>4 DEF kept
      <4>2. TakeCharacter(from, Blank) = CliReaderIs(WordsOf(done, last), <<>>, Blank, FALSE)
        BY <1>0, TakeCharacterSteps
      <4> QED
        BY <1>0, <3>10, <4>1, <4>2, OneTaken
    <3>12. CliReads(via, Quoted(word, quote), to)
      BY <3>2, <3>a, QuotedReads
    <3>13. CliReads(CliReaderStarts, FlattenSeq(Parts(words)), from)
      BY <3>4
    <3> HIDE DEF from, via, to
    <3>14. CliReads(from, Part(word), to)
      BY <1>0, <3>5, <3>10, <3>11, <3>12, CliReadsOn
    <3> HIDE DEF Parts, Part
    <3>15. CliReads(CliReaderStarts, FlattenSeq(Parts(more)), to)
      BY <3>6, <3>9, <3>10, <3>13, <3>14, CliReadsOn
    <3>16. Ends(more, kept, word)
      BY <3>15, <3>a DEF to
    <3> HIDE DEF Ends
    <3> QED
      BY <3>8, <3>16, <3>a
  <2> HIDE DEF Read, Quotable
  <2> QED
    BY <2>1, <2>2 DEF more
<1>3. ASSUME NEW words \in Seq(Lines), Quotable(words)
      PROVE  /\ Typed(words, quote) \in Lines
             /\ \E done \in Seq(Lines), word \in Lines :
                   /\ WordsOf(done, word) = NotEmpty(words)
                   /\ CliReads(CliReaderStarts, Typed(words, quote),
                               CliReaderIs(done, word, Blank, FALSE))
  <2> HIDE DEF good
  <2>1. Seq(Lines) \subseteq good
    BY <1>1, <1>2, InductSeq
  <2>2. Read(words)
    BY <1>3, <2>1 DEF good
  <2>3. Typed(words, quote) = FlattenSeq(Parts(words))
    BY DEF Typed
  <2>4. Typed(words, quote) \in Lines
    <3> HIDE DEF Parts
    <3> QED
      BY <2>2, <2>3, FlattenType DEF Lines
  <2> QED
    BY <2>2, <2>3, <2>4
<1> QED
  BY <1>3

-----------------------------------------------------------------------------
(* What is trimmed makes no difference, or is missed.                      *)

\* What parse_cli_tokens makes of the end of a command line.
Finished(s) == ~s.escape /\ s.quote = Blank

LEMMA ParseReads ==
    ASSUME NEW read \in Lines
    PROVE  \E s \in CliReader :
               /\ CliReads(CliReaderStarts, read, s)
               /\ ParseCliTokens(read) =
                     [ok |-> Finished(s), words |-> WordsOf(s.done, s.word)]
<1> DEFINE s == FoldLeft(TakeCharacter, CliReaderStarts, read)
<1>1. ParseCliTokens(read) = [ok |-> Finished(s), words |-> WordsOf(s.done, s.word)]
  BY DEF ParseCliTokens, CliReaderStarts, CliReaderIs, Finished, WordsOf
<1>2. EndsIn(CliReader, Taking, CliReaderStarts, read, s)
  BY TakingEnds
<1> HIDE DEF s
<1>3. s \in CliReader
  BY <1>2, EndsOnce DEF Lines
<1> QED
  BY <1>1, <1>2, <1>3 DEF CliReads

Blanks == Seq({Blank})

LEMMA BlanksAreLines == Blanks \subseteq Lines
  BY Characters DEF Blanks, Lines

\* A blank between words ends the word before it.
LEMMA BlankTaken ==
    ASSUME NEW s \in CliReader, Finished(s)
    PROVE  TakeCharacter(s, Blank) = CliReaderIs(WordsOf(s.done, s.word), <<>>, Blank, FALSE)
<1> DEFINE done == s.done
           word == s.word
<1>1. /\ done \in Seq(Lines) /\ word \in Lines
      /\ s = CliReaderIs(done, word, Blank, FALSE)
  BY DEF CliReader, CliReaderIs, Finished
<1> HIDE DEF done, word
<1>2. TakeCharacter(CliReaderIs(done, word, Blank, FALSE), Blank) =
          CliReaderIs(WordsOf(done, word), <<>>, Blank, FALSE)
  BY <1>1, Characters, TakeCharacterSteps
<1> QED
  BY <1>1, <1>2 DEF done, word

\* Blanks after the end of a command change nothing.
SameEnd(s, u) ==
    Finished(s) => Finished(u) /\ WordsOf(u.done, u.word) = WordsOf(s.done, s.word)

LEMMA BlanksAfter ==
    ASSUME NEW s \in CliReader
    PROVE  \A b \in Blanks : \E u \in CliReader : CliReads(s, b, u) /\ SameEnd(s, u)
<1> DEFINE Ends(b) == \E u \in CliReader : CliReads(s, b, u) /\ SameEnd(s, u)
           good == {b \in Blanks : Ends(b)}
<1>1. <<>> \in good
  <2>1. CliReads(s, <<>>, s) /\ SameEnd(s, s)
    BY EndsWithout DEF CliReads, SameEnd
  <2>2. <<>> \in Blanks
    BY DEF Blanks
  <2> QED
    BY <2>1, <2>2
<1>2. ASSUME NEW b \in Blanks, NEW ch \in {Blank}, b \in good PROVE Append(b, ch) \in good
  <2>1. PICK u \in CliReader : CliReads(s, b, u) /\ SameEnd(s, u)
    BY <1>2
  <2> DEFINE v == TakeCharacter(u, Blank)
  <2>2. v \in CliReader
    BY Characters, TakingType
  <2>3. SameEnd(s, v)
    <3> SUFFICES ASSUME Finished(s)
                 PROVE  Finished(v) /\ WordsOf(v.done, v.word) = WordsOf(s.done, s.word)
      BY DEF SameEnd
    <3>1. Finished(u) /\ WordsOf(u.done, u.word) = WordsOf(s.done, s.word)
      BY <2>1 DEF SameEnd
    <3>2. v = CliReaderIs(WordsOf(u.done, u.word), <<>>, Blank, FALSE)
      BY <3>1, BlankTaken
    <3> HIDE DEF v
    <3>3. /\ v.done = WordsOf(s.done, s.word) /\ v.word = <<>> /\ v.quote = Blank
          /\ v.escape = FALSE
      BY <3>1, <3>2 DEF CliReaderIs
    <3> QED
      BY <3>3 DEF Finished, WordsOf
  <2> HIDE DEF v
  <2>4. CliReads(u, <<Blank>>, v)
    BY Characters, OneTaken DEF v
  <2>5. b \in Lines /\ <<Blank>> \in Lines
    BY BlanksAreLines, LineFacts, Characters
  <2>6. CliReads(s, b \o <<Blank>>, v)
    BY <2>1, <2>4, <2>5, CliReadsOn
  <2>7. Append(b, ch) = b \o <<Blank>> /\ Append(b, ch) \in Blanks
    BY DEF Blanks
  <2> QED
    BY <2>2, <2>3, <2>6, <2>7
<1> HIDE DEF good
<1>3. Blanks \subseteq good
  BY <1>1, <1>2, InductSeq DEF Blanks
<1> QED
  BY <1>3 DEF good

\* Blanks before the first word are skipped.
LEMMA BlanksBefore == \A b \in Blanks : CliReads(CliReaderStarts, b, CliReaderStarts)
<1> DEFINE good == {b \in Blanks : CliReads(CliReaderStarts, b, CliReaderStarts)}
<1>0. CliReaderStarts \in CliReader
  BY TakingType
<1>1. <<>> \in good
  <2>1. CliReads(CliReaderStarts, <<>>, CliReaderStarts)
    BY <1>0, EndsWithout DEF CliReads
  <2>2. <<>> \in Blanks
    BY DEF Blanks
  <2> QED
    BY <2>1, <2>2
<1>2. ASSUME NEW b \in Blanks, NEW ch \in {Blank}, b \in good PROVE Append(b, ch) \in good
  <2>1. TakeCharacter(CliReaderStarts, Blank) = CliReaderStarts
    <3>1. /\ Finished(CliReaderStarts)
          /\ WordsOf(CliReaderStarts.done, CliReaderStarts.word) = <<>>
      BY DEF CliReaderStarts, CliReaderIs, Finished, WordsOf
    <3>2. TakeCharacter(CliReaderStarts, Blank) = CliReaderIs(<<>>, <<>>, Blank, FALSE)
      BY <1>0, <3>1, BlankTaken
    <3> QED
      BY <3>2 DEF CliReaderStarts
  <2>2. CliReads(CliReaderStarts, <<Blank>>, CliReaderStarts)
    BY <1>0, <2>1, Characters, OneTaken
  <2>3. b \in Lines /\ <<Blank>> \in Lines
    BY BlanksAreLines, LineFacts, Characters
  <2>4. CliReads(CliReaderStarts, b \o <<Blank>>, CliReaderStarts)
    BY <1>0, <1>2, <2>2, <2>3, CliReadsOn
  <2>5. Append(b, ch) = b \o <<Blank>> /\ Append(b, ch) \in Blanks
    BY DEF Blanks
  <2> QED
    BY <2>4, <2>5
<1> HIDE DEF good
<1>3. Blanks \subseteq good
  BY <1>1, <1>2, InductSeq DEF Blanks
<1> QED
  BY <1>3 DEF good

LEMMA MinUpTo ==
    ASSUME NEW n \in Nat, NEW t \in SUBSET (1..n), t # {}
    PROVE  Min(t) \in t /\ \A k \in t : Min(t) <= k
<1> DEFINE mirrored == {n + 1 - k : k \in t}
           last == Max(mirrored)
<1>1. mirrored \in SUBSET (1..n) /\ mirrored # {}
  <2>1. \A k \in t : n + 1 - k \in 1..n
    OBVIOUS
  <2>2. PICK k \in t : TRUE
    OBVIOUS
  <2>3. n + 1 - k \in mirrored
    BY <2>2
  <2>4. mirrored \subseteq 1..n
    BY <2>1
  <2> QED
    BY <2>3, <2>4
<1>2. last \in mirrored /\ \A k \in mirrored : k <= last
  BY <1>1, MaxUpTo
<1> HIDE DEF last
<1>3. PICK m \in t : last = n + 1 - m
  BY <1>2
<1>4. \A k \in t : m <= k
  <2> SUFFICES ASSUME NEW k \in t PROVE m <= k
    OBVIOUS
  <2>1. n + 1 - k \in mirrored
    OBVIOUS
  <2>2. n + 1 - k <= n + 1 - m
    BY <1>2, <1>3, <2>1
  <2>3. k \in Int /\ m \in Int
    OBVIOUS
  <2> QED
    BY <2>2, <2>3
<1> QED
  BY <1>4 DEF Min

\* A text is what is trimmed, between blanks.
LEMMA TrimParts ==
    ASSUME NEW read \in Lines
    PROVE  /\ Trim(read) \in Lines
           /\ \E before \in Blanks, after \in Blanks : read = (before \o Trim(read)) \o after
<1> DEFINE n == Len(read)
           inner == {i \in DOMAIN read : read[i] # Blank}
<1>0. n \in Nat /\ DOMAIN read = 1..n /\ read \in Seq(STRING)
  BY DEF Lines
<1>1. CASE inner = {}
  <2>1. Trim(read) = <<>>
    BY <1>1 DEF Trim
  <2>2. \A i \in DOMAIN read : read[i] = Blank
    BY <1>1
  <2>3. read \in Blanks
    BY <1>0, <2>2 DEF Blanks
  <2>4. \A T : <<>> \in Seq(T) /\ \A s \in Seq(T) : s = (s \o <<>>) \o <<>>
    OBVIOUS
  <2>5. <<>> \in Blanks /\ <<>> \in Lines /\ read = (read \o <<>>) \o <<>>
    BY <1>0, <2>4, Zenon DEF Blanks, Lines
  <2> QED
    BY <2>1, <2>3, <2>5
<1>2. CASE inner # {}
  <2> DEFINE low == Min(inner)
             high == Max(inner)
             before == SubSeq(read, 1, low - 1)
             middle == SubSeq(read, low, high)
             after == SubSeq(read, high + 1, n)
  <2>1. Trim(read) = middle
    BY <1>2 DEF Trim
  <2>2. inner \in SUBSET (1..n)
    BY <1>0
  <2>3. /\ low \in 1..n /\ high \in 1..n /\ low <= high
        /\ \A i \in 1..n : i < low \/ high < i => read[i] = Blank
    <3>1. low \in inner /\ \A k \in inner : low <= k
      BY <1>0, <1>2, <2>2, MinUpTo
    <3>2. high \in inner /\ \A k \in inner : k <= high
      BY <1>0, <1>2, <2>2, MaxUpTo
    <3> HIDE DEF low, high
    <3>3. \A i \in 1..n : read[i] # Blank => i \in inner
      BY <1>0
    <3> HIDE DEF inner
    <3> QED
      BY <1>0, <2>2, <3>1, <3>2, <3>3
  <2> HIDE DEF low, high, inner
  <2>4. /\ Len(before) = low - 1 /\ \A i \in 1..(low - 1) : before[i] = Blank
        /\ before \in Seq(STRING)
    BY <1>0, <2>3
  <2>5. /\ Len(after) = n - high /\ \A i \in 1..(n - high) : after[i] = Blank
        /\ after \in Seq(STRING)
    <3>1. \A i \in (high + 1)..n : read[i] \in STRING
      BY <1>0, <2>3
    <3>2. /\ after \in Seq(STRING)
          /\ Len(after) = IF high + 1 <= n THEN n - (high + 1) + 1 ELSE 0
          /\ \A i \in 1..(n - (high + 1) + 1) : after[i] = read[high + 1 + i - 1]
      BY <1>0, <2>3, <3>1, SubSeqProperties
    <3> HIDE DEF after
    <3> HIDE DEF n
    <3>3. n - (high + 1) + 1 = n - high /\ (high + 1 <= n \/ n - high = 0)
      BY <1>0, <2>3
    <3>4. \A i \in 1..(n - high) :
              high + 1 + i - 1 = high + i /\ high + i \in 1..n /\ high < high + i
      BY <1>0, <2>3
    <3>5. \A i \in 1..(n - high) : after[i] = Blank
      BY <2>3, <3>2, <3>3, <3>4
    <3>6. Len(after) = n - high
      BY <1>0, <2>3, <3>2, <3>3
    <3> QED
      BY <3>2, <3>5, <3>6
  <2>6. middle \in Seq(STRING) /\ Len(middle) = high - low + 1
    BY <1>0, <2>3
  <2>7. read = (before \o middle) \o after
    <3>1. /\ low - 1 \in 0..n /\ 1 <= low - 1 + 1 /\ low - 1 + 1 = low
          /\ low - 1 <= high /\ 1 \in 1..(n + 1) /\ low - 1 \in 0..high
      BY <1>0, <2>3
    <3>2. before \o middle = SubSeq(read, 1, high)
      BY <1>0, <2>3, <3>1, ConcatAdjacentSubSeq
    <3>3. SubSeq(read, 1, high) \o after = SubSeq(read, 1, n)
      <4>1. 1 \in 1..(n + 1) /\ high \in (1 - 1)..n /\ n \in high..n
        <5> HIDE DEF n
        <5> QED
          BY <1>0, <2>3
      <4> QED
        BY <1>0, <4>1, ConcatAdjacentSubSeq, Zenon
    <3>4. SubSeq(read, 1, n) = read
      BY <1>0, SubSeqFull
    <3> QED
      BY <3>2, <3>3, <3>4
  <2> HIDE DEF before, middle, after
  <2>8. before \in Blanks /\ after \in Blanks
    BY <1>0, <2>3, <2>4, <2>5 DEF Blanks
  <2> QED
    BY <2>1, <2>6, <2>7, <2>8 DEF Lines
<1> QED
  BY <1>1, <1>2

\* If what is left can be read at all, then as before.
LEMMA TrimReads ==
    ASSUME NEW read \in Lines, NEW end \in CliReader, CliReads(CliReaderStarts, read, end),
           ParseCliTokens(Trim(read)).ok
    PROVE  ParseCliTokens(Trim(read)).words = WordsOf(end.done, end.word)
<1> DEFINE middle == Trim(read)
<1>1. middle \in Lines
  BY TrimParts
<1>2. PICK before \in Blanks, after \in Blanks : read = (before \o middle) \o after
  BY TrimParts
<1> HIDE DEF middle
<1>3. PICK s \in CliReader :
          /\ CliReads(CliReaderStarts, middle, s)
          /\ ParseCliTokens(middle) = [ok |-> Finished(s), words |-> WordsOf(s.done, s.word)]
  BY <1>1, ParseReads
<1>4. PICK u \in CliReader : CliReads(s, after, u) /\ SameEnd(s, u)
  BY BlanksAfter
<1>5. CliReads(CliReaderStarts, before, CliReaderStarts)
  BY BlanksBefore
<1>6. before \in Lines /\ after \in Lines /\ before \o middle \in Lines
      /\ CliReaderStarts \in CliReader
  BY <1>1, BlanksAreLines, LineFacts, TakingType
<1>7. CliReads(CliReaderStarts, before \o middle, s)
  BY <1>1, <1>3, <1>5, <1>6, CliReadsOn
<1>8. CliReads(CliReaderStarts, read, u)
  BY <1>2, <1>4, <1>6, <1>7, CliReadsOn
<1>9. u = end
  BY <1>8, EndsOnce DEF CliReads, Lines
<1>10. Finished(s)
  BY <1>3 DEF middle
<1> QED
  BY <1>3, <1>4, <1>9, <1>10 DEF SameEnd, middle

\* A command that was typed is run as it was meant.
LEMMA CliStep ==
    ASSUME CliPanel
    PROVE  run'.line = WithoutVcs(NotEmpty(run'.typed))
<1>1. PICK reading \in Readings : RunCli(reading.typed, reading.parsed)
  BY DEF CliPanel
<1>2. PICK q \in Quotings :
          reading = [typed |-> q[1], parsed |-> ParseCliTokens(Trim(Typed(q[1], q[2])))]
  BY DEF Readings
<1> DEFINE words == q[1]
           quote == q[2]
           read == Typed(words, quote)
           parsed == ParseCliTokens(Trim(read))
<1>3. /\ words \in Seq(Lines) /\ quote \in {Blank, Single, Double}
      /\ \A i \in DOMAIN words : CanQuote(words[i], quote)
  <2>1. words \in CliLines /\ quote \in {Single, Double, Blank}
        /\ \A i \in DOMAIN words : CanQuote(words[i], quote)
    BY DEF Quotings
  <2> QED
    BY <2>1, TextAssumption DEF Lines
<1>4. reading.typed = words /\ reading.parsed = parsed
  BY <1>2
<1> HIDE DEF words, quote, parsed
<1>5. parsed.ok
      /\ run' = [NoRun EXCEPT !.prog = "vcs", !.line = WithoutVcs(parsed.words), !.typed = words]
  BY <1>1, <1>4 DEF RunCli, RunCommand
<1>6. PICK done \in Seq(Lines), word \in Lines :
          /\ WordsOf(done, word) = NotEmpty(words)
          /\ CliReads(CliReaderStarts, read, CliReaderIs(done, word, Blank, FALSE))
  BY <1>3, TypedReads
<1> DEFINE end == CliReaderIs(done, word, Blank, FALSE)
<1>7. read \in Lines /\ end \in CliReader
  BY <1>3, TypedReads, CliReaderType
<1>8. end.done = done /\ end.word = word
  BY DEF CliReaderIs
<1> HIDE DEF read, end
<1>9. parsed.words = WordsOf(done, word)
  BY <1>5, <1>6, <1>7, <1>8, TrimReads DEF parsed, end
<1> QED
  BY <1>5, <1>6, <1>9 DEF NoRun

\* vcs is given the words that were meant, whatever quotes, blanks and
\* backslashes are in them, but those that are empty; or the command is refused
\* (run_cli_input_command and parse_cli_tokens).
THEOREM CliRunsTypedHolds == DeskSpec => []CliRunsTyped
<1>1. DeskInit => CliRunsTyped
  <2>1. NoRun.typed = <<>>
    BY DEF NoRun
  <2>2. DeskInit => run = NoRun
    BY DEF DeskInit
  <2> QED
    BY <2>1, <2>2 DEF CliRunsTyped
<1>2. CliRunsTyped /\ [DeskNext]_vars => CliRunsTyped'
  <2> SUFFICES ASSUME CliRunsTyped, [DeskNext]_vars PROVE CliRunsTyped'
    OBVIOUS
  <2>1. CASE run' \in {run, NoRun}
    BY <2>1 DEF CliRunsTyped, NoRun
  <2>2. CASE People
    <3>1. CASE UNCHANGED run
      BY <2>1, <3>1
    <3>2. CASE CliPanel
      BY <3>2, CliStep DEF CliRunsTyped
    <3>3. ASSUME NEW after \in Afterwards, Commands(after) PROVE CliRunsTyped'
      BY <3>3 DEF Commands, CliRunsTyped
    <3> QED
      BY <2>2, <3>1, <3>2, <3>3, PeopleRun
  <2>3. Refreshing \/ CommandEnding \/ ChangeDisk \/ UNCHANGED vars => run' \in {run, NoRun}
    BY DEF Refreshing, StartRefresh, ReadStatus, ReadRepo, FinishRefresh, CommandEnding,
           CommandEnds, ChangeDisk, vars
  <2> QED
    BY <2>1, <2>2, <2>3 DEF DeskNext
<1> QED
  BY <1>1, <1>2, PTL DEF DeskSpec

-----------------------------------------------------------------------------
(* What git leaves in a file, and how it is read.                          *)

\* The lines that look like no marker.
Texts == STRING \ {Start, Middle, End}

\* The blocks with lines from a set.
BlockOf(T) ==
    [kind : {"plain"}, lines : Seq(T)]
        \cup [kind : {"conflict"}, ours : Seq(T), theirs : Seq(T)]

\* What a side has of a block.
SideOf(b, side) ==
    IF b.kind = "plain" THEN b.lines ELSE IF side = "ours" THEN b.ours ELSE b.theirs

Sided(T, side) == [b \in BlockOf(T) |-> SideOf(b, side)]

Written(T) == [b \in BlockOf(T) |-> BlockLines(b)]

LEMMA BlockFields ==
    ASSUME NEW T, NEW b \in BlockOf(T)
    PROVE  /\ b.kind = "plain" => b.lines \in Seq(T) /\ b = [kind |-> "plain", lines |-> b.lines]
           /\ b.kind # "plain" =>
                 /\ b.ours \in Seq(T) /\ b.theirs \in Seq(T)
                 /\ b = [kind |-> "conflict", ours |-> b.ours, theirs |-> b.theirs]
           /\ \A side : SideOf(b, side) \in Seq(T)
<1>1. CASE b.kind = "plain"
  BY <1>1 DEF BlockOf, SideOf
<1>2. CASE b.kind # "plain"
  BY <1>2 DEF BlockOf, SideOf
<1> QED
  BY <1>1, <1>2

LEMMA TextsAreText ==
    /\ Texts \subseteq STRING /\ Seq(Texts) \subseteq Lines
    /\ Seq(BlockOf(Texts)) \subseteq Seq(BlockOf(STRING)) /\ BlockOf(STRING) = Block
<1>1. ASSUME NEW S, NEW T, S \subseteq T PROVE Seq(S) \subseteq Seq(T)
  BY <1>1
<1>2. Texts \subseteq STRING
  BY DEF Texts
<1>3. Seq(Texts) \subseteq Seq(STRING)
  BY <1>1, <1>2
<1>4. BlockOf(Texts) \subseteq BlockOf(STRING)
  BY <1>3 DEF BlockOf
<1>5. BlockOf(STRING) = Block
  BY DEF BlockOf, Block
<1> HIDE DEF Texts, BlockOf
<1> QED
  BY <1>1, <1>2, <1>3, <1>4, <1>5 DEF Lines

LEMMA VersionIs ==
    ASSUME NEW T, NEW side, NEW c \in Seq(BlockOf(T))
    PROVE  /\ Sided(T, side) \in [BlockOf(T) -> Seq(T)]
           /\ Version(c, side) = FlattenSeq(Mapped(Sided(T, side), c))
           /\ Version(c, side) \in Seq(T)
<1>1. Sided(T, side) \in [BlockOf(T) -> Seq(T)]
  BY BlockFields DEF Sided
<1>2. \A i \in DOMAIN c : c[i] \in BlockOf(T)
  OBVIOUS
<1>3. \A i \in DOMAIN c : Sided(T, side)[c[i]] = SideOf(c[i], side)
  BY <1>2 DEF Sided
<1>4. Mapped(Sided(T, side), c) = [i \in DOMAIN c |-> SideOf(c[i], side)]
  BY <1>3 DEF Mapped
<1>5. Version(c, side) = FlattenSeq([i \in DOMAIN c |-> SideOf(c[i], side)])
  BY DEF Version, SideOf
<1>6. Mapped(Sided(T, side), c) \in Seq(Seq(T))
  <2>1. \A i \in DOMAIN c : SideOf(c[i], side) \in Seq(T)
    BY <1>2, BlockFields
  <2>2. [i \in DOMAIN c |-> SideOf(c[i], side)] \in Seq(Seq(T))
    BY <2>1
  <2> QED
    BY <1>4, <2>2
<1> QED
  BY <1>1, <1>4, <1>5, <1>6, FlattenType

LEMMA FileLinesIs ==
    ASSUME NEW c \in Seq(BlockOf(STRING))
    PROVE  /\ Written(STRING) \in [BlockOf(STRING) -> Seq(STRING)]
           /\ FileLines(c) = FlattenSeq(Mapped(Written(STRING), c))
           /\ FileLines(c) \in Lines
<1>1. ASSUME NEW b \in BlockOf(STRING) PROVE BlockLines(b) \in Seq(STRING)
  <2>1. CASE b.kind = "plain"
    BY <2>1, BlockFields DEF BlockLines
  <2>2. CASE b.kind # "plain"
    <3>1. b.ours \in Lines /\ b.theirs \in Lines
      BY <2>2, BlockFields DEF Lines
    <3>2. <<Start>> \in Lines /\ <<Middle>> \in Lines /\ <<End>> \in Lines
      BY LineFacts, MarkersText
    <3> QED
      BY <2>2, <3>1, <3>2, LineFacts, Zenon DEF BlockLines, Lines
  <2> QED
    BY <2>1, <2>2
<1>2. \A i \in DOMAIN c : c[i] \in BlockOf(STRING)
  OBVIOUS
<1>3. Mapped(Written(STRING), c) = [i \in DOMAIN c |-> BlockLines(c[i])]
  <2>1. \A i \in DOMAIN c : Written(STRING)[c[i]] = BlockLines(c[i])
    BY <1>2 DEF Written
  <2> QED
    BY <2>1 DEF Mapped
<1>4. Written(STRING) \in [BlockOf(STRING) -> Seq(STRING)]
  BY <1>1 DEF Written
<1>5. FileLines(c) \in Lines
  BY FileLinesType, TextsAreText
<1> QED
  BY <1>3, <1>4, <1>5 DEF FileLines

\* If the lines of both sides look like no marker, no line does.
LEMMA UnambiguousBlocks ==
    ASSUME NEW c \in Seq(Block), Unambiguous(c)
    PROVE  c \in Seq(BlockOf(Texts))
<1>0. c \in Seq(BlockOf(STRING))
  BY TextsAreText
<1>1. ASSUME NEW side \in {"ours", "theirs"}, NEW i \in DOMAIN c
      PROVE  SideOf(c[i], side) \in Seq(Texts)
  <2> DEFINE v == Version(c, side)
             m == Mapped(Sided(STRING, side), c)
  <2>1. v \in Seq(STRING) /\ v = FlattenSeq(m) /\ Sided(STRING, side) \in [BlockOf(STRING) -> Seq(STRING)]
    BY <1>0, VersionIs
  <2>2. NoMarkers(v)
    BY DEF Unambiguous
  <2>3. m \in Seq(Seq(STRING))
    <3>1. c[i] \in BlockOf(STRING)
      BY <1>0
    <3> QED
      BY <1>0, <2>1, <3>1, MappedAppend
  <2>4. m[i] = SideOf(c[i], side) /\ i \in DOMAIN m
    <3>1. c[i] \in BlockOf(STRING)
      BY <1>0
    <3> QED
      BY <3>1 DEF Mapped, Sided
  <2> HIDE DEF v, m
  <2>5. \A j \in DOMAIN v : v[j] \in Texts
    BY <2>1, <2>2 DEF NoMarkers, Texts
  <2>6. v \in Seq(Texts)
    BY <2>1, <2>5
  <2> QED
    BY <2>1, <2>3, <2>4, <2>6, FlattenParts
<1>2. ASSUME NEW i \in DOMAIN c PROVE c[i] \in BlockOf(Texts)
  <2>1. c[i] \in BlockOf(STRING)
    BY <1>0
  <2>2. SideOf(c[i], "ours") \in Seq(Texts) /\ SideOf(c[i], "theirs") \in Seq(Texts)
    BY <1>1
  <2>3. CASE c[i].kind = "plain"
    <3>1. c[i].lines \in Seq(Texts)
      BY <2>2, <2>3 DEF SideOf
    <3>2. c[i] = [kind |-> "plain", lines |-> c[i].lines]
      BY <2>1, <2>3, BlockFields
    <3> QED
      BY <3>1, <3>2 DEF BlockOf
  <2>4. CASE c[i].kind # "plain"
    <3>1. c[i].ours \in Seq(Texts) /\ c[i].theirs \in Seq(Texts)
      BY <2>2, <2>4 DEF SideOf
    <3>2. c[i] = [kind |-> "conflict", ours |-> c[i].ours, theirs |-> c[i].theirs]
      BY <2>1, <2>4, BlockFields
    <3> QED
      BY <3>1, <3>2 DEF BlockOf
  <2> QED
    BY <2>3, <2>4
<1> QED
  BY <1>2

LineReads(from, read, to) == EndsIn(Reader, Reading, from, read, to)

ReaderIs(in, done, plain, ours, theirs) ==
    [in |-> in, done |-> done, plain |-> plain, ours |-> ours, theirs |-> theirs]

LEMMA ReaderType ==
    /\ \A in \in {"plain", "ours", "theirs"}, done \in Seq(Section), plain, ours, theirs \in Lines :
          ReaderIs(in, done, plain, ours, theirs) \in Reader
    /\ \A s \in Reader :
          /\ s = ReaderIs(s.in, s.done, s.plain, s.ours, s.theirs)
          /\ s.in \in {"plain", "ours", "theirs"} /\ s.done \in Seq(Section)
          /\ s.plain \in Lines /\ s.ours \in Lines /\ s.theirs \in Lines
  BY DEF Reader, ReaderIs

LEMMA OneLineRead ==
    ASSUME NEW s \in Reader, NEW line \in STRING
    PROVE  LineReads(s, <<line>>, TakeLine(s, line))
<1>1. EndsIn(Reader, Reading, s, <<>>, s)
  BY EndsWithout
<1>2. <<>> \in Seq(STRING) /\ Append(<<>>, line) = <<line>>
  OBVIOUS
<1>3. EndsIn(Reader, Reading, s, Append(<<>>, line), Reading[<<s, line>>])
  BY <1>1, <1>2, ReadingType, EndsAfter
<1>4. Reading[<<s, line>>] = TakeLine(s, line)
  BY ReadingType
<1> QED
  BY <1>2, <1>3, <1>4 DEF LineReads

LEMMA LineReadsOn ==
    ASSUME NEW from \in Reader, NEW read \in Lines, NEW more \in Lines, NEW via, NEW to,
           LineReads(from, read, via), LineReads(via, more, to)
    PROVE  LineReads(from, read \o more, to)
  BY EndsThen, ReadingType DEF LineReads, Lines

\* The reader after the lines w of the part it is in.
After(s, w) ==
    ReaderIs(s.in, s.done, IF s.in = "plain" THEN s.plain \o w ELSE s.plain,
             IF s.in = "ours" THEN s.ours \o w ELSE s.ours,
             IF s.in = "theirs" THEN s.theirs \o w ELSE s.theirs)

LEMMA AfterNone == ASSUME NEW s \in Reader PROVE After(s, <<>>) = s
<1>1. /\ s = ReaderIs(s.in, s.done, s.plain, s.ours, s.theirs)
      /\ s.plain \in Lines /\ s.ours \in Lines /\ s.theirs \in Lines
  BY ReaderType
<1>2. \A u \in Lines : u \o <<>> = u
  BY DEF Lines
<1> QED
  BY <1>1, <1>2, Zenon DEF After

\* A line that looks like no marker, and the three markers.
LEMMA LineTaken ==
    ASSUME NEW t \in Reader
    PROVE  /\ \A line \in Texts :
                 /\ t.in = "plain" => TakeLine(t, line) =
                       ReaderIs("plain", t.done, Append(t.plain, line), t.ours, t.theirs)
                 /\ t.in = "ours" => TakeLine(t, line) =
                       ReaderIs("ours", t.done, t.plain, Append(t.ours, line), t.theirs)
                 /\ t.in = "theirs" => TakeLine(t, line) =
                       ReaderIs("theirs", t.done, t.plain, t.ours, Append(t.theirs, line))
           /\ t.in = "plain" => TakeLine(t, Start) =
                 ReaderIs("ours", t.done \o Flush(t.plain), <<>>, <<>>, <<>>)
           /\ t.in = "ours" => TakeLine(t, Middle) =
                 ReaderIs("theirs", t.done, t.plain, t.ours, t.theirs)
           /\ t.in = "theirs" => TakeLine(t, End) =
                 ReaderIs("plain", Append(t.done, Hunk(t.ours, t.theirs)), t.plain, t.ours,
                          t.theirs)
<1>1. t = [in |-> t.in, done |-> t.done, plain |-> t.plain, ours |-> t.ours,
           theirs |-> t.theirs]
  BY DEF Reader
<1>2. ASSUME NEW line \in Texts
      PROVE  /\ t.in = "plain" => TakeLine(t, line) =
                   ReaderIs("plain", t.done, Append(t.plain, line), t.ours, t.theirs)
             /\ t.in = "ours" => TakeLine(t, line) =
                   ReaderIs("ours", t.done, t.plain, Append(t.ours, line), t.theirs)
             /\ t.in = "theirs" => TakeLine(t, line) =
                   ReaderIs("theirs", t.done, t.plain, t.ours, Append(t.theirs, line))
  <2>1. line \in STRING /\ line # Start /\ line # Middle /\ line # End
    BY DEF Texts
  <2>2. CASE t.in = "plain"
    <3>1. TakeLine(t, line) = [t EXCEPT !.plain = Append(t.plain, line)]
      BY <2>1, <2>2, TakeLineFields
    <3> QED
      BY <1>1, <2>2, <3>1 DEF ReaderIs
  <2>3. CASE t.in = "ours"
    <3>1. TakeLine(t, line) = [t EXCEPT !.ours = Append(t.ours, line)]
      BY <2>1, <2>3, TakeLineFields
    <3> QED
      BY <1>1, <2>3, <3>1 DEF ReaderIs
  <2>4. CASE t.in = "theirs"
    <3>1. TakeLine(t, line) = [t EXCEPT !.theirs = Append(t.theirs, line)]
      BY <2>1, <2>4, TakeLineFields
    <3> QED
      BY <1>1, <2>4, <3>1 DEF ReaderIs
  <2> QED
    BY <2>2, <2>3, <2>4
<1>3. t.in = "plain" => TakeLine(t, Start) =
          ReaderIs("ours", t.done \o Flush(t.plain), <<>>, <<>>, <<>>)
  BY TakeLineFields, MarkersText DEF ReaderIs
<1>4. t.in = "ours" => TakeLine(t, Middle) =
          ReaderIs("theirs", t.done, t.plain, t.ours, t.theirs)
  <2>1. t.in = "ours" => TakeLine(t, Middle) = [t EXCEPT !.in = "theirs"]
    BY TakeLineFields, MarkersText
  <2> QED
    BY <1>1, <2>1 DEF ReaderIs
<1>5. t.in = "theirs" => TakeLine(t, End) =
          ReaderIs("plain", Append(t.done, Hunk(t.ours, t.theirs)), t.plain, t.ours, t.theirs)
  <2>1. t.in = "theirs" => TakeLine(t, End) =
            [t EXCEPT !.in = "plain", !.done = Append(t.done, Hunk(t.ours, t.theirs))]
    BY TakeLineFields, MarkersText
  <2> QED
    BY <1>1, <2>1 DEF ReaderIs
<1> QED
  BY <1>2, <1>3, <1>4, <1>5

LEMMA AfterOneMore ==
    ASSUME NEW s \in Reader, NEW w \in Lines, NEW line \in Texts
    PROVE  /\ After(s, w) \in Reader
           /\ TakeLine(After(s, w), line) = After(s, Append(w, line))
<1> DEFINE t == After(s, w)
<1>0. /\ s.in \in {"plain", "ours", "theirs"} /\ s.done \in Seq(Section)
      /\ s.plain \in Lines /\ s.ours \in Lines /\ s.theirs \in Lines
  BY ReaderType
<1>1. t \in Reader
  BY <1>0, LineFacts, ReaderType DEF After
<1>2. \A u \in Lines : Append(u \o w, line) = u \o Append(w, line)
  <2>1. line \in STRING
    BY TextsAreText
  <2>2. \A u \in Lines : AppendLater(u, w, line)
    BY <2>1, JoinFacts DEF Lines
  <2> QED
    BY <2>2 DEF AppendLater
<1>3. /\ t.in = s.in /\ t.done = s.done
      /\ t.plain = IF s.in = "plain" THEN s.plain \o w ELSE s.plain
      /\ t.ours = IF s.in = "ours" THEN s.ours \o w ELSE s.ours
      /\ t.theirs = IF s.in = "theirs" THEN s.theirs \o w ELSE s.theirs
  BY DEF After, ReaderIs
<1> HIDE DEF t
<1>4. CASE s.in = "plain"
  <2>1. TakeLine(t, line) = ReaderIs("plain", s.done, Append(s.plain \o w, line), s.ours, s.theirs)
    BY <1>1, <1>3, <1>4, LineTaken
  <2> QED
    BY <1>0, <1>1, <1>2, <1>4, <2>1 DEF After, t
<1>5. CASE s.in = "ours"
  <2>1. TakeLine(t, line) = ReaderIs("ours", s.done, s.plain, Append(s.ours \o w, line), s.theirs)
    BY <1>1, <1>3, <1>5, LineTaken
  <2> QED
    BY <1>0, <1>1, <1>2, <1>5, <2>1 DEF After, t
<1>6. CASE s.in = "theirs"
  <2>1. TakeLine(t, line) =
            ReaderIs("theirs", s.done, s.plain, s.ours, Append(s.theirs \o w, line))
    BY <1>1, <1>3, <1>6, LineTaken
  <2> QED
    BY <1>0, <1>1, <1>2, <1>6, <2>1 DEF After, t
<1> QED
  BY <1>0, <1>4, <1>5, <1>6

\* Lines that look like no marker stay in the part they are in.
LEMMA TextRead ==
    ASSUME NEW s \in Reader
    PROVE  \A w \in Seq(Texts) : After(s, w) \in Reader /\ LineReads(s, w, After(s, w))
<1> DEFINE good == {w \in Seq(Texts) : After(s, w) \in Reader /\ LineReads(s, w, After(s, w))}
<1>1. <<>> \in good
  <2>1. LineReads(s, <<>>, s)
    BY EndsWithout DEF LineReads
  <2>2. <<>> \in Seq(Texts)
    OBVIOUS
  <2> QED
    BY <2>1, <2>2, AfterNone
<1>2. ASSUME NEW w \in Seq(Texts), NEW line \in Texts, w \in good PROVE Append(w, line) \in good
  <2>1. w \in Lines /\ line \in STRING /\ <<line>> \in Lines
    BY TextsAreText, LineFacts
  <2>2. Append(w, line) \in Seq(Texts)
    OBVIOUS
  <2>3. TakeLine(After(s, w), line) = After(s, Append(w, line)) /\ After(s, w) \in Reader
    BY <2>1, AfterOneMore
  <2>4. LineReads(After(s, w), <<line>>, After(s, Append(w, line)))
    BY <2>1, <2>3, OneLineRead
  <2>5. w \o <<line>> = Append(w, line)
    OBVIOUS
  <2>6. LineReads(s, Append(w, line), After(s, Append(w, line)))
    BY <1>2, <2>1, <2>4, <2>5, LineReadsOn
  <2>7. After(s, Append(w, line)) \in Reader
    BY <2>1, <2>2, AfterOneMore, TextsAreText
  <2> QED
    BY <2>2, <2>6, <2>7
<1> HIDE DEF good
<1>3. Seq(Texts) \subseteq good
  BY <1>1, <1>2, InductSeq
<1> QED
  BY <1>3 DEF good

-----------------------------------------------------------------------------
(* One side chosen everywhere.                                             *)

\* The first i elements.
UpTo(g, i) == [j \in 1..i |-> g[j]]

UpToOn(g, i) == UpTo(g, i) = Append(UpTo(g, i - 1), g[i])

LEMMA UpToMore ==
    ASSUME NEW V, NEW n \in Nat, NEW g \in [1..n -> V], NEW i \in 1..n
    PROVE  UpToOn(g, i) /\ UpTo(g, i - 1) \in Seq(V)
<1> DEFINE fewer == UpTo(g, i - 1)
           e == g[i]
           more == Append(fewer, e)
<1>1. i - 1 \in Nat /\ e \in V /\ \A j \in 1..(i - 1) : g[j] \in V
  OBVIOUS
<1>2. fewer = [j \in 1..(i - 1) |-> g[j]]
  BY DEF UpTo
<1>3. fewer \in Seq(V) /\ Len(fewer) = i - 1 /\ \A j \in 1..(i - 1) : fewer[j] = g[j]
  BY <1>1, <1>2
<1> HIDE DEF fewer, more, e
<1>4. OneLonger(Append(fewer, e), fewer, e)
  BY <1>1, <1>3, AppendFacts
<1>5. (i - 1) + 1 = i
  OBVIOUS
<1>6. /\ more = [j \in 1..i |-> more[j]] /\ more[i] = e
      /\ \A j \in 1..(i - 1) : more[j] = fewer[j]
  BY <1>3, <1>4, <1>5 DEF OneLonger, more
<1>7. ASSUME NEW j \in 1..i PROVE g[j] = more[j]
  <2>1. CASE j = i
    BY <1>6, <2>1 DEF e
  <2>2. CASE j \in 1..(i - 1)
    BY <1>3, <1>6, <2>2
  <2> QED
    BY <2>1, <2>2
<1>8. UpTo(g, i) = more
  BY <1>6, <1>7 DEF UpTo
<1> QED
  BY <1>3, <1>8 DEF UpToOn, more, fewer, e

\* All lines of a side, and no line beyond.
LEMMA LineOfAll ==
    ASSUME NEW T, NEW w \in Seq(T), NEW n \in Nat, Len(w) <= n
    PROVE  FlattenSeq([i \in 1..n |-> LineOf(w, i)]) = w
<1> DEFINE m == Len(w)
           g == [i \in 1..n |-> LineOf(w, i)]
           least(i) == IF i <= m THEN i ELSE m
           good == {i \in 0..n : /\ UpTo(g, i) \in Seq(Seq(T))
                                 /\ FlattenSeq(UpTo(g, i)) = UpTo(w, least(i))}
<1>1. m \in Nat /\ DOMAIN w = 1..m /\ w \in [1..m -> T] /\ w = [j \in 1..m |-> w[j]]
  OBVIOUS
<1>2. g \in [1..n -> Seq(T)] /\ \A i \in 1..n : g[i] = LineOf(w, i)
  BY LineOfType
<1> HIDE DEF g
<1>3. 0 \in good
  <2>1. \A f : UpTo(f, 0) = <<>>
    BY DEF UpTo
  <2>2. <<>> \in Seq(Seq(T)) /\ least(0) = 0 /\ 0 \in 0..n
    BY <1>1
  <2>3. UpTo(g, 0) = <<>> /\ UpTo(w, least(0)) = <<>>
    BY <2>1, <2>2
  <2> HIDE DEF least
  <2> QED
    BY <2>2, <2>3, FlattenNothing
<1>4. ASSUME NEW i \in 1..n, i - 1 \in good PROVE i \in good
  <2> DEFINE fewer == UpTo(g, i - 1)
  <2>1. fewer \in Seq(Seq(T)) /\ FlattenSeq(fewer) = UpTo(w, least(i - 1))
    BY <1>4
  <2>2. UpTo(g, i) = Append(fewer, g[i]) /\ g[i] \in Seq(T)
    BY <1>2, UpToMore DEF UpToOn
  <2> HIDE DEF fewer
  <2>3. UpTo(g, i) \in Seq(Seq(T)) /\ FlattenSeq(UpTo(g, i)) = FlattenSeq(fewer) \o g[i]
    <3>1. Append(fewer, g[i]) \in Seq(Seq(T))
      BY <2>1, <2>2
    <3> QED
      BY <2>1, <2>2, <3>1, FlattenAppend
  <2>4. CASE i <= m
    <3>1. i \in 1..m /\ least(i) = i /\ least(i - 1) = i - 1
      BY <1>1, <2>4
    <3>2. g[i] = <<w[i]>> /\ w[i] \in T
      BY <1>1, <1>2, <3>1 DEF LineOf
    <3>3. UpToOn(w, i) /\ UpTo(w, i - 1) \in Seq(T)
      BY <1>1, <3>1, UpToMore
    <3> DEFINE u == UpTo(w, i - 1)
               e == w[i]
    <3> HIDE DEF u, e
    <3>4. Append(u, e) = u \o <<e>>
      BY <3>2, <3>3 DEF u, e
    <3>5. FlattenSeq(UpTo(g, i)) = UpTo(w, i)
      BY <2>1, <2>3, <3>1, <3>2, <3>3, <3>4 DEF UpToOn, u, e
    <3> QED
      BY <2>3, <3>1, <3>5
  <2>5. CASE ~(i <= m)
    <3>1. least(i) = m /\ least(i - 1) = m
      BY <1>1, <2>5
    <3>2. g[i] = <<>>
      BY <1>1, <1>2, <2>5 DEF LineOf
    <3>3. UpTo(w, m) = w /\ w \o <<>> = w
      BY <1>1 DEF UpTo
    <3> QED
      BY <2>1, <2>3, <3>1, <3>2, <3>3
  <2> QED
    BY <2>4, <2>5
<1> HIDE DEF good
<1>5. n \in good
  BY <1>3, <1>4, InductUpTo
<1>6. least(n) = m /\ UpTo(w, m) = w /\ UpTo(g, n) = g
  BY <1>1, <1>2 DEF UpTo
<1> QED
  BY <1>5, <1>6 DEF good, g

\* What is written for a section with one side chosen for every line.
LEMMA SideWritten ==
    ASSUME NEW T, NEW side \in {"ours", "theirs"}
    PROVE  /\ \A lines \in Seq(T) : OutputOf(ChosenSide(Plain(lines), side)) = lines
           /\ \A ours, theirs \in Seq(T) :
                 OutputOf(ChosenSide(Hunk(ours, theirs), side)) =
                     IF side = "ours" THEN ours ELSE theirs
<1>1. ASSUME NEW lines \in Seq(T)
      PROVE  OutputOf(ChosenSide(Plain(lines), side)) = lines
  BY DEF OutputOf, ChosenSide, Plain
<1>2. ASSUME NEW ours \in Seq(T), NEW theirs \in Seq(T)
      PROVE  OutputOf(ChosenSide(Hunk(ours, theirs), side)) =
                 IF side = "ours" THEN ours ELSE theirs
  <2> DEFINE hunk == Hunk(ours, theirs)
             lines == IF side = "ours" THEN ours ELSE theirs
             n == Len(hunk.choices)
             chosen == ChosenSide(hunk, side)
  <2>1. /\ hunk \in SectionOf(T) /\ hunk.kind = "hunk" /\ hunk.ours = ours
        /\ hunk.theirs = theirs /\ Len(ours) <= n /\ Len(theirs) <= n
    BY HunkType
  <2> HIDE DEF hunk
  <2>2. hunk.choices \in Seq({"ours", "theirs"})
    BY <2>1, HunkFields
  <2>3. n \in Nat /\ DOMAIN hunk.choices = 1..n
    BY <2>2
  <2>4. /\ chosen \in SectionOf(T) /\ chosen.kind = "hunk"
        /\ chosen = [kind |-> "hunk", ours |-> ours, theirs |-> theirs,
                     choices |-> [j \in 1..n |-> side]]
    BY <2>1, <2>3, ChosenSideFields
  <2> HIDE DEF chosen, n
  <2>5. /\ DOMAIN chosen.choices = 1..n /\ \A i \in 1..n : chosen.choices[i] = side
        /\ chosen["ours"] = ours /\ chosen["theirs"] = theirs
    BY <2>4
  <2>6. chosen[side] = lines
    BY <2>5
  <2>7. Chosen(chosen) = FlattenSeq([i \in DOMAIN chosen.choices |->
                                        LineOf(chosen[chosen.choices[i]], i)])
    BY <2>4, ChosenType
  <2>8. [i \in DOMAIN chosen.choices |-> LineOf(chosen[chosen.choices[i]], i)] =
            [i \in 1..n |-> LineOf(lines, i)]
    <3> HIDE DEF lines
    <3>1. \A i \in 1..n : chosen[chosen.choices[i]] = lines
      BY <2>5, <2>6
    <3> QED
      BY <2>5, <3>1
  <2>9. lines \in Seq(T) /\ Len(lines) <= n
    BY <2>1 DEF n
  <2> HIDE DEF lines
  <2>10. Chosen(chosen) = lines
    BY <2>3, <2>7, <2>8, <2>9, LineOfAll
  <2> QED
    BY <2>4, <2>10 DEF OutputOf, chosen, hunk, lines
<1> QED
  BY <1>1, <1>2

\* What is written with one side chosen in all sections.
Resolved(sections, side) ==
    ComposeConflictEditorOutput(ApplyConflictChoiceToAllHunks(sections, side))

Resolving(T, side) == [x \in SectionOf(T) |-> OutputOf(ChosenSide(x, side))]

LEMMA ResolvedIs ==
    ASSUME NEW T, NEW side \in {"ours", "theirs"}, NEW sections \in Seq(SectionOf(T))
    PROVE  /\ Resolving(T, side) \in [SectionOf(T) -> Seq(T)]
           /\ Resolved(sections, side) = FlattenSeq(Mapped(Resolving(T, side), sections))
           /\ Resolved(sections, side) \in Seq(T)
<1> DEFINE all == ApplyConflictChoiceToAllHunks(sections, side)
<1>1. /\ all \in Seq(SectionOf(T))
      /\ all = [i \in DOMAIN sections |-> ChosenSide(sections[i], side)]
  BY AppliedType
<1>2. ASSUME NEW x \in SectionOf(T) PROVE OutputOf(ChosenSide(x, side)) \in Seq(T)
  <2>1. ChosenSide(x, side) \in SectionOf(T)
    BY ChosenSideFields
  <2>2. CASE ChosenSide(x, side).kind = "plain"
    BY <2>1, <2>2 DEF OutputOf, SectionOf
  <2>3. CASE ChosenSide(x, side).kind # "plain"
    BY <2>1, <2>3, ChosenType DEF OutputOf
  <2> QED
    BY <2>2, <2>3
<1>3. Resolving(T, side) \in [SectionOf(T) -> Seq(T)]
  BY <1>2 DEF Resolving
<1> HIDE DEF all
<1>4. /\ ComposeConflictEditorOutput(all) = FlattenSeq([i \in DOMAIN all |-> OutputOf(all[i])])
      /\ ComposeConflictEditorOutput(all) \in Seq(T)
  BY <1>1, ComposedType
<1>5. [i \in DOMAIN all |-> OutputOf(all[i])] = Mapped(Resolving(T, side), sections)
  <2>1. \A i \in DOMAIN sections : sections[i] \in SectionOf(T)
    OBVIOUS
  <2>2. DOMAIN all = DOMAIN sections
        /\ \A i \in DOMAIN sections : all[i] = ChosenSide(sections[i], side)
    BY <1>1
  <2>3. \A i \in DOMAIN sections : OutputOf(all[i]) = Resolving(T, side)[sections[i]]
    BY <2>1, <2>2 DEF Resolving
  <2> QED
    BY <2>2, <2>3 DEF Mapped
<1> QED
  BY <1>3, <1>4, <1>5 DEF Resolved, all

LEMMA ResolvedMore ==
    ASSUME NEW T, NEW side \in {"ours", "theirs"}, NEW sections \in Seq(SectionOf(T)),
           NEW x \in SectionOf(T)
    PROVE  /\ Append(sections, x) \in Seq(SectionOf(T))
           /\ Resolved(Append(sections, x), side) =
                  Resolved(sections, side) \o OutputOf(ChosenSide(x, side))
<1> DEFINE more == Append(sections, x)
           g == Resolving(T, side)
<1>1. more \in Seq(SectionOf(T))
  OBVIOUS
<1>2. g[x] = OutputOf(ChosenSide(x, side))
  BY DEF Resolving
<1>3. g \in [SectionOf(T) -> Seq(T)]
  BY ResolvedIs
<1> HIDE DEF g
<1>4. JoinedOn(g, sections, x)
  BY <1>3, MappedJoined
<1> HIDE DEF more
<1>5. Resolved(more, side) = FlattenSeq(Mapped(g, more))
      /\ Resolved(sections, side) = FlattenSeq(Mapped(g, sections))
  BY <1>1, ResolvedIs DEF g
<1> QED
  BY <1>1, <1>2, <1>4, <1>5 DEF more, JoinedOn

LEMMA ResolvedNone ==
    ASSUME NEW side \in {"ours", "theirs"}
    PROVE  Resolved(<<>>, side) = <<>>
<1>1. <<>> \in Seq(SectionOf(STRING))
  OBVIOUS
<1> QED
  BY <1>1, ResolvedIs, MappedNothing

\* The lines before a conflict become a section of their own, unless there are none.
LEMMA FlushedWritten ==
    ASSUME NEW T, NEW side \in {"ours", "theirs"}, NEW done \in Seq(SectionOf(T)),
           NEW plain \in Seq(T)
    PROVE  /\ done \o Flush(plain) \in Seq(SectionOf(T))
           /\ Resolved(done \o Flush(plain), side) = Resolved(done, side) \o plain
<1>1. CASE plain = <<>>
  <2>1. Flush(plain) = <<>> /\ done \o <<>> = done
    BY <1>1 DEF Flush
  <2>2. Resolved(done, side) \o <<>> = Resolved(done, side)
    BY ResolvedIs
  <2> QED
    BY <1>1, <2>1, <2>2
<1>2. CASE plain # <<>>
  <2> DEFINE x == Plain(plain)
  <2>1. Flush(plain) = <<x>>
    BY <1>2 DEF Flush
  <2>2. x \in SectionOf(T)
    BY DEF Plain, SectionOf
  <2>3. OutputOf(ChosenSide(x, side)) = plain
    BY SideWritten
  <2> HIDE DEF x
  <2>4. done \o <<x>> = Append(done, x)
    BY <2>2
  <2> QED
    BY <2>1, <2>2, <2>3, <2>4, ResolvedMore
<1> QED
  BY <1>1, <1>2

-----------------------------------------------------------------------------
(* A file with conflicts, read and resolved.                               *)

ConflictReads(s, ours, theirs) ==
    LineReads(s, <<Start>> \o ours \o <<Middle>> \o theirs \o <<End>>,
              ReaderIs("plain", Append(s.done \o Flush(s.plain), Hunk(ours, theirs)),
                       <<>>, ours, theirs))

LEMMA ConflictRead ==
    ASSUME NEW s \in Reader, s.in = "plain", NEW ours \in Seq(Texts), NEW theirs \in Seq(Texts)
    PROVE  ConflictReads(s, ours, theirs)
<1> DEFINE done == s.done \o Flush(s.plain)
           s1 == ReaderIs("ours", done, <<>>, <<>>, <<>>)
           s2 == ReaderIs("ours", done, <<>>, ours, <<>>)
           s3 == ReaderIs("theirs", done, <<>>, ours, <<>>)
           s4 == ReaderIs("theirs", done, <<>>, ours, theirs)
           s5 == ReaderIs("plain", Append(done, Hunk(ours, theirs)), <<>>, ours, theirs)
<1>1. ours \in Lines /\ theirs \in Lines /\ <<>> \in Lines
  BY TextsAreText, LineFacts
<1>2. done \in Seq(Section)
  BY ReaderType, FlushedWritten, SectionIs
<1> HIDE DEF done
<1>3. s1 \in Reader /\ s2 \in Reader /\ s3 \in Reader /\ s4 \in Reader
  BY <1>1, <1>2, ReaderType
<1>4. LineReads(s, <<Start>>, s1)
  <2>1. TakeLine(s, Start) = s1
    BY LineTaken DEF done
  <2> QED
    BY <2>1, OneLineRead, MarkersText
<1>5. LineReads(s1, ours, s2)
  <2>1. LineReads(s1, ours, After(s1, ours))
    BY <1>3, TextRead
  <2>2. <<>> \o ours = ours
    BY <1>1, AfterNothing DEF Lines
  <2>3. After(s1, ours) = s2
    BY <2>2 DEF After, ReaderIs
  <2> QED
    BY <2>1, <2>3
<1>6. LineReads(s2, <<Middle>>, s3)
  <2>1. TakeLine(s2, Middle) = s3
    <3>1. /\ s2.in = "ours" /\ s2.done = done /\ s2.plain = <<>> /\ s2.ours = ours
          /\ s2.theirs = <<>>
      BY DEF ReaderIs
    <3> HIDE DEF s2
    <3>2. TakeLine(s2, Middle) = ReaderIs("theirs", s2.done, s2.plain, s2.ours, s2.theirs)
      BY <1>3, <3>1, LineTaken
    <3> QED
      BY <3>1, <3>2
  <2> QED
    BY <1>3, <2>1, OneLineRead, MarkersText
<1>7. LineReads(s3, theirs, s4)
  <2>1. LineReads(s3, theirs, After(s3, theirs))
    BY <1>3, TextRead
  <2>2. <<>> \o theirs = theirs
    BY <1>1, AfterNothing DEF Lines
  <2>3. After(s3, theirs) = s4
    BY <2>2 DEF After, ReaderIs
  <2> QED
    BY <2>1, <2>3
<1>8. LineReads(s4, <<End>>, s5)
  <2>1. TakeLine(s4, End) = s5
    <3>1. /\ s4.in = "theirs" /\ s4.done = done /\ s4.plain = <<>> /\ s4.ours = ours
          /\ s4.theirs = theirs
      BY DEF ReaderIs
    <3> HIDE DEF s4
    <3>2. TakeLine(s4, End) =
              ReaderIs("plain", Append(s4.done, Hunk(s4.ours, s4.theirs)), s4.plain, s4.ours,
                       s4.theirs)
      BY <1>3, <3>1, LineTaken
    <3> QED
      BY <3>1, <3>2
  <2> QED
    BY <1>3, <2>1, OneLineRead, MarkersText
<1> HIDE DEF s1, s2, s3, s4, s5
<1>9. <<Start>> \in Lines /\ <<Middle>> \in Lines /\ <<End>> \in Lines
  BY LineFacts, MarkersText
<1>10. LineReads(s, <<Start>> \o ours, s2) /\ <<Start>> \o ours \in Lines
  BY <1>1, <1>4, <1>5, <1>9, LineReadsOn, LineFacts
<1>11. LineReads(s, <<Start>> \o ours \o <<Middle>>, s3) /\ <<Start>> \o ours \o <<Middle>> \in Lines
  BY <1>6, <1>9, <1>10, LineReadsOn, LineFacts
<1>12. /\ LineReads(s, <<Start>> \o ours \o <<Middle>> \o theirs, s4)
       /\ <<Start>> \o ours \o <<Middle>> \o theirs \in Lines
  BY <1>1, <1>7, <1>11, LineReadsOn, LineFacts
<1>13. LineReads(s, <<Start>> \o ours \o <<Middle>> \o theirs \o <<End>>, s5)
  BY <1>8, <1>9, <1>12, LineReadsOn
<1> QED
  BY <1>13 DEF ConflictReads, s5, done

\* The reader s is what the blocks c lead to, and its sections with one side
\* chosen everywhere are what that side has.
ReadsAs(c, s) ==
    /\ s \in Reader /\ s.in = "plain"
    /\ LineReads(ReaderStarts, FileLines(c), s)
    /\ s.done \in Seq(SectionOf(Texts)) /\ s.plain \in Seq(Texts)
    /\ \A side \in {"ours", "theirs"} : Resolved(s.done, side) \o s.plain = Version(c, side)

LEMMA BlockAppended ==
    ASSUME NEW c \in Seq(BlockOf(Texts)), NEW b \in BlockOf(Texts)
    PROVE  /\ Append(c, b) \in Seq(BlockOf(Texts))
           /\ FileLines(Append(c, b)) = FileLines(c) \o BlockLines(b)
           /\ FileLines(c) \in Lines /\ BlockLines(b) \in Lines
           /\ \A side : Version(Append(c, b), side) = Version(c, side) \o SideOf(b, side)
           /\ \A side : Version(c, side) \in Seq(Texts)
<1> DEFINE more == Append(c, b)
           g == Written(STRING)
<1>1. more \in Seq(BlockOf(Texts))
  OBVIOUS
<1> HIDE DEF more
<1>2. /\ c \in Seq(BlockOf(STRING)) /\ more \in Seq(BlockOf(STRING)) /\ b \in BlockOf(STRING)
  <2>1. <<b>> \in Seq(BlockOf(Texts))
    OBVIOUS
  <2>2. <<b>> \in Seq(BlockOf(STRING))
    BY <2>1, TextsAreText
  <2>3. \A S : <<b>> \in Seq(S) => b \in S
    OBVIOUS
  <2> QED
    BY <1>1, <2>2, <2>3, TextsAreText
<1>3. FileLines(more) = FileLines(c) \o BlockLines(b)
  <2>1. g[b] = BlockLines(b)
    BY <1>2 DEF Written
  <2>2. g \in [BlockOf(STRING) -> Seq(STRING)]
    BY <1>2, FileLinesIs
  <2> HIDE DEF g
  <2>3. JoinedOn(g, c, b)
    BY <1>2, <2>2, MappedJoined
  <2>4. FlattenSeq(Mapped(g, more)) = FileLines(more) /\ FlattenSeq(Mapped(g, c)) = FileLines(c)
    BY <1>2, FileLinesIs DEF g
  <2> QED
    BY <2>1, <2>3, <2>4 DEF JoinedOn, more
<1>4. ASSUME NEW side PROVE Version(more, side) = Version(c, side) \o SideOf(b, side)
  <2> DEFINE v == Sided(Texts, side)
  <2>1. v[b] = SideOf(b, side)
    BY DEF Sided
  <2>2. v \in [BlockOf(Texts) -> Seq(Texts)]
    BY VersionIs
  <2> HIDE DEF v
  <2>3. JoinedOn(v, c, b)
    BY <2>2, MappedJoined
  <2>4. FlattenSeq(Mapped(v, more)) = Version(more, side)
        /\ FlattenSeq(Mapped(v, c)) = Version(c, side)
    BY <1>1, VersionIs DEF v
  <2> QED
    BY <2>1, <2>3, <2>4 DEF JoinedOn, more
<1>5. FileLines(c) \in Lines /\ BlockLines(b) \in Lines
  <2>1. g \in [BlockOf(STRING) -> Seq(STRING)] /\ g[b] = BlockLines(b)
    BY <1>2, FileLinesIs DEF Written
  <2> QED
    BY <1>2, <2>1, FileLinesIs DEF Lines
<1> QED
  BY <1>1, <1>3, <1>4, <1>5, VersionIs DEF more

\* One block more.
LEMMA BlockRead ==
    ASSUME NEW c \in Seq(BlockOf(Texts)), NEW b \in BlockOf(Texts), NEW s, ReadsAs(c, s)
    PROVE  \E t : ReadsAs(Append(c, b), t)
<1> DEFINE more == Append(c, b)
<1>1. /\ more \in Seq(BlockOf(Texts)) /\ FileLines(more) = FileLines(c) \o BlockLines(b)
      /\ FileLines(c) \in Lines /\ BlockLines(b) \in Lines
      /\ \A side : Version(more, side) = Version(c, side) \o SideOf(b, side)
      /\ \A side : Version(c, side) \in Seq(Texts)
  BY BlockAppended
<1>2. /\ s \in Reader /\ s.in = "plain" /\ LineReads(ReaderStarts, FileLines(c), s)
      /\ s.done \in Seq(SectionOf(Texts)) /\ s.plain \in Seq(Texts)
      /\ \A side \in {"ours", "theirs"} :
            Resolved(s.done, side) \o s.plain = Version(c, side)
  BY DEF ReadsAs
<1> HIDE DEF more
<1>3. ASSUME NEW t, LineReads(s, BlockLines(b), t)
      PROVE  LineReads(ReaderStarts, FileLines(more), t)
  BY <1>1, <1>2, <1>3, ReadingType, LineReadsOn
<1>4. CASE b.kind = "plain"
  <2> DEFINE t == After(s, b.lines)
  <2>1. b.lines \in Seq(Texts) /\ BlockLines(b) = b.lines /\ \A side : SideOf(b, side) = b.lines
    BY <1>4, BlockFields DEF BlockLines, SideOf
  <2>2. t \in Reader /\ LineReads(s, BlockLines(b), t)
    BY <1>2, <2>1, TextRead
  <2>3. t.in = "plain" /\ t.done = s.done /\ t.plain = s.plain \o b.lines
    BY <1>2 DEF After, ReaderIs
  <2> HIDE DEF t
  <2>4. t.plain \in Seq(Texts)
    BY <1>2, <2>1, <2>3
  <2>5. ASSUME NEW side \in {"ours", "theirs"}
        PROVE  Resolved(t.done, side) \o t.plain = Version(more, side)
    <3>1. Resolved(s.done, side) \in Seq(Texts)
      BY <1>2, ResolvedIs
    <3>2. Resolved(s.done, side) \o (s.plain \o b.lines) =
              (Resolved(s.done, side) \o s.plain) \o b.lines
      <4> DEFINE r == Resolved(s.done, side)
                 u == s.plain
                 v == b.lines
      <4>1. r \in Seq(Texts) /\ u \in Seq(Texts) /\ v \in Seq(Texts)
        BY <1>2, <2>1, <3>1
      <4> HIDE DEF r, u, v
      <4>2. r \o (u \o v) = (r \o u) \o v
        BY <4>1
      <4> QED
        BY <4>2 DEF r, u, v
    <3> QED
      BY <1>1, <1>2, <2>1, <2>3, <3>2
  <2>6. ReadsAs(more, t)
    BY <1>2, <1>3, <2>2, <2>3, <2>4, <2>5 DEF ReadsAs
  <2> QED
    BY <2>6 DEF more
<1>5. CASE b.kind # "plain"
  <2> DEFINE done == s.done \o Flush(s.plain)
             hunk == Hunk(b.ours, b.theirs)
             t == ReaderIs("plain", Append(done, hunk), <<>>, b.ours, b.theirs)
  <2>1. b.ours \in Seq(Texts) /\ b.theirs \in Seq(Texts)
    BY <1>5, BlockFields
  <2>2. BlockLines(b) = <<Start>> \o b.ours \o <<Middle>> \o b.theirs \o <<End>>
    BY <1>5 DEF BlockLines
  <2>3. LineReads(s, BlockLines(b), t)
    BY <1>2, <2>1, <2>2, ConflictRead DEF ConflictReads
  <2>4. hunk \in SectionOf(Texts) /\ hunk \in Section
    BY <2>1, HunkType, SectionIs, TextsAreText
  <2>5. ASSUME NEW side \in {"ours", "theirs"}
        PROVE  /\ done \in Seq(SectionOf(Texts))
               /\ Resolved(done, side) = Version(c, side)
    BY <1>2, FlushedWritten
  <2>6. ASSUME NEW side \in {"ours", "theirs"}
        PROVE  OutputOf(ChosenSide(hunk, side)) = SideOf(b, side)
    BY <1>5, <2>1, SideWritten DEF SideOf
  <2>7. done \in Seq(Section)
    BY <1>2, ReaderType, FlushedWritten, SectionIs
  <2> HIDE DEF done, hunk
  <2>8. /\ Append(done, hunk) \in Seq(SectionOf(Texts))
        /\ \A side \in {"ours", "theirs"} :
              Resolved(Append(done, hunk), side) = Version(more, side)
    <3>1. ASSUME NEW side \in {"ours", "theirs"}
          PROVE  /\ Append(done, hunk) \in Seq(SectionOf(Texts))
                 /\ Resolved(Append(done, hunk), side) =
                        Resolved(done, side) \o OutputOf(ChosenSide(hunk, side))
      BY <2>4, <2>5, ResolvedMore
    <3> QED
      BY <1>1, <2>5, <2>6, <3>1
  <2>9. Append(done, hunk) \in Seq(Section)
    BY <2>4, <2>7
  <2>10. b.ours \in Lines /\ b.theirs \in Lines /\ <<>> \in Lines
    BY <2>1, TextsAreText, LineFacts
  <2> DEFINE all == Append(done, hunk)
  <2> HIDE DEF all
  <2>11. t \in Reader /\ t.in = "plain" /\ t.done = all /\ t.plain = <<>>
    <3>1. all \in Seq(Section) /\ t = ReaderIs("plain", all, <<>>, b.ours, b.theirs)
      BY <2>9 DEF all
    <3>2. t \in Reader
      BY <2>10, <3>1, ReaderType
    <3> HIDE DEF t
    <3> QED
      BY <3>1, <3>2 DEF ReaderIs
  <2> HIDE DEF t
  <2>12. ASSUME NEW side \in {"ours", "theirs"}
         PROVE  Resolved(t.done, side) \o t.plain = Version(more, side)
    <3>1. Resolved(all, side) = Version(more, side) /\ all \in Seq(SectionOf(Texts))
      BY <2>8 DEF all
    <3>2. Resolved(all, side) \in Seq(Texts)
      BY <3>1, ResolvedIs
    <3>3. Resolved(all, side) \o <<>> = Resolved(all, side)
      BY <3>2
    <3> QED
      BY <2>11, <3>1, <3>3
  <2>13. t.done \in Seq(SectionOf(Texts)) /\ t.plain \in Seq(Texts)
    BY <2>8, <2>11 DEF all
  <2>14. ReadsAs(more, t)
    BY <1>3, <2>3, <2>11, <2>12, <2>13 DEF ReadsAs
  <2> QED
    BY <2>14 DEF more
<1> QED
  BY <1>4, <1>5

LEMMA BlocksRead == \A c \in Seq(BlockOf(Texts)) : \E s : ReadsAs(c, s)
<1> DEFINE good == {c \in Seq(BlockOf(Texts)) : \E s : ReadsAs(c, s)}
<1>1. <<>> \in good
  <2> DEFINE s == ReaderStarts
  <2>1. s \in Reader /\ s.in = "plain" /\ s.done = <<>> /\ s.plain = <<>>
    BY ReadingType DEF ReaderStarts
  <2>2. FileLines(<<>>) = <<>>
    <3>1. [i \in DOMAIN <<>> |-> BlockLines(<<>>[i])] = <<>>
      BY EmptyDomain
    <3> QED
      BY <3>1, FlattenNothing DEF FileLines
  <2>3. LineReads(s, <<>>, s)
    BY <2>1, EndsWithout DEF LineReads
  <2>4. <<>> \in Seq(SectionOf(Texts)) /\ <<>> \in Seq(Texts) /\ <<>> \in Seq(BlockOf(Texts))
    OBVIOUS
  <2>5. ASSUME NEW side \in {"ours", "theirs"} PROVE Version(<<>>, side) = <<>>
    <3>1. Version(<<>>, side) = FlattenSeq(Mapped(Sided(Texts, side), <<>>))
      BY <2>4, VersionIs
    <3>2. FlattenSeq(Mapped(Sided(Texts, side), <<>>)) = <<>>
      BY MappedNothing
    <3> QED
      BY <3>1, <3>2, Zenon
  <2>6. <<>> \o <<>> = <<>>
    BY <2>4, AfterNothing
  <2> HIDE DEF s
  <2>7. ReadsAs(<<>>, s)
    BY <2>1, <2>2, <2>3, <2>4, <2>5, <2>6, ResolvedNone DEF ReadsAs, s
  <2> QED
    BY <2>4, <2>7
<1>2. ASSUME NEW c \in Seq(BlockOf(Texts)), NEW b \in BlockOf(Texts), c \in good
      PROVE  Append(c, b) \in good
  <2>1. PICK s : ReadsAs(c, s)
    BY <1>2
  <2>2. Append(c, b) \in Seq(BlockOf(Texts))
    OBVIOUS
  <2> QED
    BY <2>1, <2>2, BlockRead
<1> HIDE DEF good
<1>3. Seq(BlockOf(Texts)) \subseteq good
  BY <1>1, <1>2, InductSeq
<1> QED
  BY <1>3 DEF good

\* What the editor holds of such a file once it is loaded.
LEMMA LoadedResolves ==
    ASSUME NEW f, disk.content[f] \in Seq(BlockOf(Texts)),
           f \in disk.missing => disk.content[f] = <<>>
    PROVE  /\ EditorOf(f).sections \in Seq(SectionOf(Texts))
           /\ \A side \in {"ours", "theirs"} :
                 Resolved(EditorOf(f).sections, side) = Version(disk.content[f], side)
<1> DEFINE c == disk.content[f]
           parsed == ParseConflictSections(FileLines(c))
<1>1. EditorOf(f).sections = IF f \notin disk.missing /\ parsed.ok THEN parsed.sections ELSE <<>>
  BY DEF EditorOf
<1>2. CASE f \in disk.missing
  <2>1. EditorOf(f).sections = <<>> /\ c = <<>>
    BY <1>1, <1>2
  <2>2. <<>> \in Seq(SectionOf(Texts)) /\ <<>> \in Seq(BlockOf(Texts))
    OBVIOUS
  <2>3. ASSUME NEW side \in {"ours", "theirs"} PROVE Version(<<>>, side) = <<>>
    <3>1. Version(<<>>, side) = FlattenSeq(Mapped(Sided(Texts, side), <<>>))
      BY <2>2, VersionIs
    <3>2. FlattenSeq(Mapped(Sided(Texts, side), <<>>)) = <<>>
      BY MappedNothing
    <3> QED
      BY <3>1, <3>2, Zenon
  <2> QED
    BY <2>1, <2>2, <2>3, ResolvedNone
<1>3. CASE f \notin disk.missing
  <2>1. PICK s : ReadsAs(c, s)
    BY BlocksRead
  <2>2. /\ s.in = "plain" /\ EndsIn(Reader, Reading, ReaderStarts, FileLines(c), s)
        /\ s.done \in Seq(SectionOf(Texts)) /\ s.plain \in Seq(Texts)
        /\ \A side \in {"ours", "theirs"} :
              Resolved(s.done, side) \o s.plain = Version(c, side)
    BY <2>1 DEF ReadsAs, LineReads
  <2>3. FileLines(c) \in Lines
    BY FileLinesIs, TextsAreText
  <2>4. FoldLeft(TakeLine, ReaderStarts, FileLines(c)) = s
    BY <2>2, <2>3, ReadingEnds, EndsOnce DEF Lines
  <2>5. parsed = [ok |-> s.in = "plain", sections |-> s.done \o Flush(s.plain)]
    BY <2>4 DEF ParseConflictSections, ReaderStarts
  <2> DEFINE sections == s.done \o Flush(s.plain)
  <2> HIDE DEF parsed, sections
  <2>6. EditorOf(f).sections = sections
    <3>1. parsed.ok /\ parsed.sections = sections
      BY <2>2, <2>5 DEF sections
    <3> QED
      BY <1>1, <1>3, <3>1
  <2>7. ASSUME NEW side \in {"ours", "theirs"}
        PROVE  /\ sections \in Seq(SectionOf(Texts))
               /\ Resolved(sections, side) = Resolved(s.done, side) \o s.plain
    BY <2>2, FlushedWritten DEF sections
  <2> QED
    BY <2>2, <2>6, <2>7
<1> QED
  BY <1>2, <1>3

\* Two hunks that differ in their choices only.
LEMMA SameSides ==
    ASSUME NEW S, NEW T, NEW x \in SectionOf(S), NEW y \in SectionOf(T),
           ChosenSide(x, "ours") = ChosenSide(y, "ours")
    PROVE  /\ x \in SectionOf(T)
           /\ \A side \in {"ours", "theirs"} : ChosenSide(x, side) = ChosenSide(y, side)
<1>1. x.kind = y.kind
  BY ChosenSideFields
<1>2. CASE x.kind = "plain"
  BY <1>1, <1>2, ChosenSideFields
<1>3. CASE x.kind # "plain"
  <2>1. /\ ChosenSide(x, "ours") = [kind |-> "hunk", ours |-> x.ours, theirs |-> x.theirs,
                                    choices |-> [j \in DOMAIN x.choices |-> "ours"]]
        /\ ChosenSide(y, "ours") = [kind |-> "hunk", ours |-> y.ours, theirs |-> y.theirs,
                                    choices |-> [j \in DOMAIN y.choices |-> "ours"]]
    BY <1>1, <1>3, ChosenSideFields
  <2>2. /\ x.ours = y.ours /\ x.theirs = y.theirs
        /\ [j \in DOMAIN x.choices |-> "ours"] = [j \in DOMAIN y.choices |-> "ours"]
    BY <2>1
  <2>3. DOMAIN x.choices = DOMAIN y.choices
    <3>1. /\ DOMAIN [j \in DOMAIN x.choices |-> "ours"] = DOMAIN x.choices
          /\ DOMAIN [j \in DOMAIN y.choices |-> "ours"] = DOMAIN y.choices
      OBVIOUS
    <3> QED
      BY <2>2, <3>1
  <2>4. x \in SectionOf(T)
    <3>1. /\ x = [kind |-> "hunk", ours |-> x.ours, theirs |-> x.theirs, choices |-> x.choices]
          /\ x.choices \in Seq({"ours", "theirs"})
      BY <1>3, HunkFields
    <3>2. y.ours \in Seq(T) /\ y.theirs \in Seq(T)
      BY <1>1, <1>3, HunkFields
    <3> QED
      BY <2>2, <3>1, <3>2 DEF SectionOf
  <2>5. ASSUME NEW side \in {"ours", "theirs"} PROVE ChosenSide(x, side) = ChosenSide(y, side)
    <3>1. /\ ChosenSide(x, side) = [kind |-> "hunk", ours |-> x.ours, theirs |-> x.theirs,
                                    choices |-> [j \in DOMAIN x.choices |-> side]]
          /\ ChosenSide(y, side) = [kind |-> "hunk", ours |-> y.ours, theirs |-> y.theirs,
                                    choices |-> [j \in DOMAIN y.choices |-> side]]
      BY <1>1, <1>3, ChosenSideFields
    <3> QED
      BY <2>2, <2>3, <3>1
  <2> QED
    BY <2>4, <2>5
<1> QED
  BY <1>2, <1>3

LEMMA SameHunks ==
    ASSUME NEW S, NEW T, NEW x \in Seq(SectionOf(S)), NEW y \in Seq(SectionOf(T)),
           ApplyConflictChoiceToAllHunks(x, "ours") = ApplyConflictChoiceToAllHunks(y, "ours")
    PROVE  /\ x \in Seq(SectionOf(T))
           /\ \A side \in {"ours", "theirs"} :
                 ApplyConflictChoiceToAllHunks(x, side) = ApplyConflictChoiceToAllHunks(y, side)
<1> DEFINE All(s, side) == [i \in DOMAIN s |-> ChosenSide(s[i], side)]
<1>1. All(x, "ours") = All(y, "ours")
  BY AppliedType
<1>2. DOMAIN x = DOMAIN y
  <2>1. DOMAIN All(x, "ours") = DOMAIN x /\ DOMAIN All(y, "ours") = DOMAIN y
    OBVIOUS
  <2> QED
    BY <1>1, <2>1
<1>3. ASSUME NEW i \in DOMAIN x
      PROVE  /\ x[i] \in SectionOf(T)
             /\ \A side \in {"ours", "theirs"} : ChosenSide(x[i], side) = ChosenSide(y[i], side)
  <2>1. x[i] \in SectionOf(S) /\ y[i] \in SectionOf(T)
    BY <1>2
  <2>2. ChosenSide(x[i], "ours") = ChosenSide(y[i], "ours")
    <3>1. All(x, "ours")[i] = ChosenSide(x[i], "ours")
      OBVIOUS
    <3>2. All(y, "ours")[i] = ChosenSide(y[i], "ours")
      BY <1>2
    <3> QED
      BY <1>1, <3>1, <3>2
  <2> QED
    BY <2>1, <2>2, SameSides
<1>4. x \in Seq(SectionOf(T))
  BY <1>3
<1>5. ASSUME NEW side \in {"ours", "theirs"}
      PROVE  ApplyConflictChoiceToAllHunks(x, side) = ApplyConflictChoiceToAllHunks(y, side)
  <2>1. All(x, side) = All(y, side)
    BY <1>2, <1>3
  <2> QED
    BY <2>1, AppliedType
<1> QED
  BY <1>4, <1>5

\* A missing file has no content, also in repositories the editor has written to.
MissingEmpty == \A f \in disk.missing : disk.content[f] = <<>>

\* Who changes the repository: nobody else, the editor, the todo list, or the
\* world outside.
LEMMA DiskSteps ==
    ASSUME DeskInv, [DeskNext]_vars
    PROVE  \/ disk' = disk
           \/ disk' \in Disks /\ load' = load
           \/ Idle /\ SaveEditor
           \/ Idle /\ SaveRebaseTodo
<1>1. CASE Refreshing \/ CommandEnding \/ UNCHANGED vars
  BY <1>1 DEF Refreshing, StartRefresh, ReadStatus, ReadRepo, FinishRefresh, CommandEnding,
              CommandEnds, vars
<1>2. CASE ChangeDisk
  BY <1>2 DEF ChangeDisk
<1>3. CASE Input /\ People
  <2>1. Idle
    BY <1>3 DEF Input
  <2>2. NoneChanged => disk' = disk
    BY DEF NoneChanged
  <2>3. GitPanel => disk' = disk
    BY <2>2, GitPanelSteps DEF PickFile, ShowStaged
  <2>4. MergePanel => disk' = disk \/ SaveEditor
    BY <2>2, MergePanelSteps DEF LoadEditor, PickConflict, UseForAllHunks, ChooseLine, LoadInDiff
  <2>5. HistoryPanel => disk' = disk \/ SaveRebaseTodo
    BY <2>2, HistoryPanelSteps DEF PickCommit
  <2>6. CollaborationTab \/ CliPanel \/ TypeText => disk' = disk
    BY <2>2, CollaborationTabSteps, TypingSteps
  <2> QED
    BY <1>3, <2>1, <2>3, <2>4, <2>5, <2>6 DEF People
<1> QED
  BY <1>1, <1>2, <1>3 DEF DeskNext

\* What a save writes.
LEMMA SaveWrites ==
    ASSUME TypeInv, SaveEditor
    PROVE  LET f == editor.file
               lines == ComposeConflictEditorOutput(editor.sections)
           IN  /\ f \in File /\ editor.sections \in Seq(Section)
               /\ lines \in Lines
               /\ disk'.content = [disk.content EXCEPT ![f] = <<Plain(lines)>>]
               /\ disk.content \in [File -> Seq(Block)] /\ disk'.missing = disk.missing \ {f}
<1> DEFINE f == editor.file
           lines == ComposeConflictEditorOutput(editor.sections)
           content == [disk.content EXCEPT ![f] = <<Plain(lines)>>]
<1>0. disk \in Disk /\ EditorTyped
  BY TypedParts DEF TypeInv
<1>1. f \in File /\ editor.sections \in Seq(Section)
  BY <1>0 DEF EditorTyped, SaveEditor
<1>2. lines \in Lines
  BY <1>1, ComposedType, SectionIs
<1>3. disk' = [disk EXCEPT !.content = content, !.missing = disk.missing \ {f}]
  BY DEF SaveEditor
<1> HIDE DEF content, lines, f
<1>4. disk.content \in [File -> Seq(Block)]
  BY <1>0 DEF Disk
<1>5. disk'.content = content /\ disk'.missing = disk.missing \ {f}
  BY <1>0, <1>3 DEF Disk
<1> QED
  BY <1>1, <1>2, <1>4, <1>5 DEF content, lines, f

LEMMA MissingStaysEmpty ==
    ASSUME TypeInv, MissingEmpty, [DeskNext]_vars
    PROVE  MissingEmpty'
<1>0. DeskInv /\ disk \in Disk
  BY TypedParts DEF TypeInv
<1>1. CASE disk' = disk
  BY <1>1 DEF MissingEmpty
<1>2. CASE disk' \in Disks
  BY <1>2, TextAssumption DEF MissingEmpty
<1>3. CASE SaveEditor
  <2> DEFINE f == editor.file
             new == <<Plain(ComposeConflictEditorOutput(editor.sections))>>
  <2>1. /\ disk'.content = [disk.content EXCEPT ![f] = new] /\ disk'.missing = disk.missing \ {f}
        /\ disk.content \in [File -> Seq(Block)]
    BY <1>3, SaveWrites
  <2> HIDE DEF f, new
  <2>2. disk.missing \subseteq File
    BY <1>0 DEF Disk
  <2>3. \A g \in disk'.missing : disk'.content[g] = disk.content[g]
    BY <2>1, <2>2
  <2> QED
    BY <2>1, <2>3 DEF MissingEmpty
<1>4. CASE SaveRebaseTodo
  <2>1. disk'.content = disk.content /\ disk'.missing = disk.missing
    BY <1>0, <1>4 DEF SaveRebaseTodo, Disk
  <2> QED
    BY <2>1 DEF MissingEmpty
<1> QED
  BY <1>0, <1>1, <1>2, <1>3, <1>4, DiskSteps

\* A file of lines only.
LEMMA PlainFile ==
    ASSUME NEW lines \in Lines
    PROVE  FileLines(<<Plain(lines)>>) = lines
<1> DEFINE b == Plain(lines)
           parts == [i \in DOMAIN <<b>> |-> BlockLines(<<b>>[i])]
<1>1. BlockLines(b) = lines
  BY DEF BlockLines, Plain
<1> HIDE DEF b
<1>2. parts = <<lines>>
  <2>1. DOMAIN <<b>> = {1} /\ <<b>>[1] = b
    OBVIOUS
  <2>2. parts = [i \in {1} |-> lines]
    BY <1>1, <2>1
  <2> QED
    BY <2>2
<1>3. FlattenSeq(<<lines>>) = lines
  <2>1. <<>> \in Seq(Lines) /\ Append(<<>>, lines) = <<lines>>
    OBVIOUS
  <2>2. FlattenSeq(Append(<<>>, lines)) = FlattenSeq(<<>>) \o lines
    BY <2>1, FlattenAppend DEF Lines
  <2>3. <<>> \o lines = lines
    BY AfterNothing DEF Lines
  <2> QED
    BY <2>1, <2>2, <2>3, FlattenNothing
<1> QED
  BY <1>2, <1>3 DEF FileLines, b

\* The lines of the editor resolve the conflicts of the file it was loaded from.
LEMMA EditorResolves ==
    ASSUME NEW f \in File, NEW sections \in Seq(Section), disk.content[f] \in Seq(Block),
           MissingEmpty, Unambiguous(disk.content[f]),
           ApplyConflictChoiceToAllHunks(sections, "ours") =
               ApplyConflictChoiceToAllHunks(EditorOf(f).sections, "ours")
    PROVE  LET lines == ComposeConflictEditorOutput(sections) IN
           /\ NoMarkers(lines)
           /\ \A side \in {"ours", "theirs"} :
                 sections = ApplyConflictChoiceToAllHunks(sections, side) =>
                     lines = Version(disk.content[f], side)
<1> DEFINE d == EditorOf(f).sections
           c == disk.content[f]
<1>1. c \in Seq(BlockOf(Texts))
  BY UnambiguousBlocks
<1>2. d \in Seq(SectionOf(Texts))
      /\ \A side \in {"ours", "theirs"} : Resolved(d, side) = Version(c, side)
  BY <1>1, LoadedResolves DEF MissingEmpty
<1> HIDE DEF d, c
<1>3. sections \in Seq(SectionOf(Texts))
      /\ \A side \in {"ours", "theirs"} :
            ApplyConflictChoiceToAllHunks(sections, side) = ApplyConflictChoiceToAllHunks(d, side)
  BY <1>2, SameHunks, SectionIs DEF d
<1>4. ComposeConflictEditorOutput(sections) \in Seq(Texts)
  BY <1>3, ComposedType
<1>5. NoMarkers(ComposeConflictEditorOutput(sections))
  <2> DEFINE lines == ComposeConflictEditorOutput(sections)
  <2>1. \A i \in DOMAIN lines : lines[i] \in Texts
    BY <1>4
  <2> QED
    BY <2>1 DEF NoMarkers, Texts
<1>6. ASSUME NEW side \in {"ours", "theirs"},
             sections = ApplyConflictChoiceToAllHunks(sections, side)
      PROVE  ComposeConflictEditorOutput(sections) = Version(c, side)
  BY <1>2, <1>3, <1>6 DEF Resolved
<1> QED
  BY <1>5, <1>6 DEF c

\* One step that saves.
SaveIsRight ==
    LET f == editor.file
        written == FileLines(disk'.content[f])
        All(sections, side) == ApplyConflictChoiceToAllHunks(sections, side)
        loaded == All(editor.sections, "ours") = All(EditorOf(f).sections, "ours")
    IN  /\ \A g \in File \ {f} : disk'.content[g] = disk.content[g]
        /\ loaded /\ Unambiguous(disk.content[f]) =>
              /\ NoMarkers(written)
              /\ \A side \in {"ours", "theirs"} :
                    editor.sections = All(editor.sections, side) =>
                        written = Version(disk.content[f], side)

LEMMA SaveStep ==
    ASSUME TypeInv, MissingEmpty, SaveEditor
    PROVE  SaveIsRight
<1> DEFINE f == editor.file
           lines == ComposeConflictEditorOutput(editor.sections)
           written == FileLines(disk'.content[f])
<1>1. /\ f \in File /\ editor.sections \in Seq(Section) /\ lines \in Lines
      /\ disk'.content = [disk.content EXCEPT ![f] = <<Plain(lines)>>]
      /\ disk.content \in [File -> Seq(Block)]
  BY SaveWrites
<1>2. written = lines
  <2> DEFINE new == <<Plain(lines)>>
  <2>1. FileLines(new) = lines
    BY <1>1, PlainFile
  <2> HIDE DEF new
  <2>2. disk'.content[f] = new
    BY <1>1 DEF new
  <2> QED
    BY <2>1, <2>2
<1>3. \A g \in File \ {f} : disk'.content[g] = disk.content[g]
  <2> DEFINE new == <<Plain(lines)>>
  <2> HIDE DEF new
  <2>1. disk'.content = [disk.content EXCEPT ![f] = new]
    BY <1>1 DEF new
  <2> QED
    BY <1>1, <2>1
<1>4. disk.content[f] \in Seq(Block)
  BY <1>1
<1>5. ASSUME Unambiguous(disk.content[f]),
             ApplyConflictChoiceToAllHunks(editor.sections, "ours") =
                 ApplyConflictChoiceToAllHunks(EditorOf(f).sections, "ours")
      PROVE  /\ NoMarkers(lines)
             /\ \A side \in {"ours", "theirs"} :
                   editor.sections = ApplyConflictChoiceToAllHunks(editor.sections, side) =>
                       lines = Version(disk.content[f], side)
  BY <1>1, <1>4, <1>5, EditorResolves
<1> HIDE DEF lines, written
<1> QED
  BY <1>2, <1>3, <1>5 DEF SaveIsRight, written

\* What is saved has no marker left, and is what a side has that was chosen
\* everywhere (save_conflict_editor_to_file, parse_conflict_sections and
\* compose_conflict_editor_output).
THEOREM SaveResolvesHolds == DeskSpec => SaveResolves
<1>1. DeskInit => MissingEmpty
  BY TextAssumption DEF DeskInit, MissingEmpty
<1>2. TypeInv /\ MissingEmpty /\ [DeskNext]_vars => MissingEmpty'
  BY MissingStaysEmpty
<1>3. TypeInv /\ MissingEmpty /\ [DeskNext]_vars => [Saving => SaveIsRight]_vars
  <2> SUFFICES ASSUME TypeInv, MissingEmpty, [DeskNext]_vars, Saving PROVE SaveIsRight
    OBVIOUS
  <2>1. load.pc = "idle" /\ load'.pc = "status" /\ disk' # disk
    BY DEF Saving, NoLoad
  <2>2. ~SaveRebaseTodo
    BY <2>1 DEF SaveRebaseTodo
  <2>3. SaveEditor
    BY <2>1, <2>2, DiskSteps DEF TypeInv
  <2> QED
    BY <2>3, SaveStep
<1>4. DeskSpec => [][Saving => SaveIsRight]_vars
  BY <1>1, <1>2, <1>3, TypeInvHolds, PTL DEF DeskSpec
<1> QED
  BY <1>4, PTL DEF SaveResolves, SaveIsRight

-----------------------------------------------------------------------------
(* How vcs reads the flags it is given.                                    *)

\* What is said on a command line: text, and the words of the code.
Said ==
    STRING \cup {"", "true", "-a", "-m", "--no-edit", "--no-commit", "--allow-dirty", "--last",
                 "--from", "--ref", "--new", "--old", "--epoch", "--ttl", "--proposal",
                 "--yes", "--no", "--threshold", "--members", "--clear-members",
                 "--no-auto-proposal", "--process-pending", "--list-pending", "stage",
                 "unstage", "commit", "amend", "checkout", "revert", "pull", "push", "squash",
                 "peer", "add", "remove", "sync", "consensus", "config", "propose", "vote",
                 "certify", "status"}

\* Flags with their values.
Settings == SUBSET (Said \X Said)

FlagReader == [set : Settings, rest : Seq(Said), flag : Said]

\* The flags that are set and what is left.
FlagsAre(set, rest) == [set |-> set, rest |-> rest, flag |-> ""]

Flagging(flags) == [x \in FlagReader \X Said |-> ReadFlag(x[1], x[2], flags)]

FlagReads(flags, from, args, to) == EndsIn(FlagReader, Flagging(flags), from, args, to)

LEMMA SaidWords ==
    /\ "" \in Said /\ "true" \in Said /\ "-a" \in Said
    /\ "-m" \in Said /\ "--no-edit" \in Said /\ "--no-commit" \in Said
    /\ "--allow-dirty" \in Said /\ "--last" \in Said /\ "--from" \in Said
    /\ "--ref" \in Said /\ "--new" \in Said /\ "--old" \in Said
    /\ "--epoch" \in Said /\ "--ttl" \in Said /\ "--proposal" \in Said
    /\ "--yes" \in Said /\ "--no" \in Said /\ "--threshold" \in Said
    /\ "--members" \in Said /\ "--clear-members" \in Said /\ "--no-auto-proposal" \in Said
    /\ "--process-pending" \in Said /\ "--list-pending" \in Said /\ "stage" \in Said
    /\ "unstage" \in Said /\ "commit" \in Said /\ "amend" \in Said
    /\ "checkout" \in Said /\ "revert" \in Said /\ "pull" \in Said
    /\ "push" \in Said /\ "squash" \in Said /\ "peer" \in Said
    /\ "add" \in Said /\ "remove" \in Said /\ "sync" \in Said
    /\ "consensus" \in Said /\ "config" \in Said /\ "propose" \in Said
    /\ "vote" \in Said /\ "certify" \in Said /\ "status" \in Said
  BY DEF Said

LEMMA SaidFacts ==
    /\ "" \in Said /\ "true" \in Said /\ STRING \subseteq Said
    /\ \A a \in Said : <<a>> \in Seq(Said)
    /\ \A a, b \in Said : <<a, b>> = <<a>> \o <<b>> /\ <<a, b>> \in Seq(Said)
    /\ <<>> \in Seq(Said)
    /\ \A s, u \in Seq(Said) : s \o u \in Seq(Said)
<1>1. "" \in Said /\ "true" \in Said /\ STRING \subseteq Said
  BY DEF Said
<1>2. ASSUME NEW a \in Said, NEW b \in Said
      PROVE  <<a, b>> = <<a>> \o <<b>> /\ <<a, b>> \in Seq(Said)
  <2>1. <<a, b>> = Append(<<a>>, b)
    OBVIOUS
  <2>2. <<a>> \in Seq(Said)
    OBVIOUS
  <2>3. \A s \in Seq(Said) : Append(s, b) = s \o <<b>> /\ Append(s, b) \in Seq(Said)
    OBVIOUS
  <2> QED
    BY <2>1, <2>2, <2>3, Zenon
<1> HIDE DEF Said
<1>3. \A a \in Said : <<a>> \in Seq(Said)
  OBVIOUS
<1>4. <<>> \in Seq(Said)
  OBVIOUS
<1>5. \A s, u \in Seq(Said) : s \o u \in Seq(Said)
  OBVIOUS
<1> QED
  BY <1>1, <1>2, <1>3, <1>4, <1>5, Zenon

LEMMA FlaggingType ==
    ASSUME NEW flags
    PROVE  /\ Flagging(flags) \in [FlagReader \X Said -> FlagReader]
           /\ \A s \in FlagReader, arg \in Said :
                 Flagging(flags)[<<s, arg>>] = ReadFlag(s, arg, flags)
           /\ FlagsAre({}, <<>>) \in FlagReader
<1>1. ASSUME NEW s \in FlagReader, NEW arg \in Said
      PROVE  ReadFlag(s, arg, flags) \in FlagReader
  <2>1. /\ s.set \in Settings /\ s.rest \in Seq(Said) /\ s.flag \in Said
        /\ s = [set |-> s.set, rest |-> s.rest, flag |-> s.flag]
    BY DEF FlagReader
  <2>2. \A flag, value \in Said : SetFlag(s.set, flag, value) \in Settings
    BY <2>1 DEF SetFlag, Settings
  <2>3. Append(s.rest, arg) \in Seq(Said)
    BY <2>1
  <2> QED
    BY <2>1, <2>2, <2>3, SaidFacts DEF ReadFlag, FlagReader
<1>2. FlagsAre({}, <<>>) \in FlagReader
  BY SaidFacts DEF FlagsAre, FlagReader, Settings
<1> QED
  BY <1>1, <1>2 DEF Flagging

\* What is read is where the run over the arguments ends.
LEMMA ReadFlagsEnds ==
    ASSUME NEW flags, NEW s \in Seq(Said)
    PROVE  FlagReads(flags, FlagsAre({}, <<>>), s, ReadFlags(s, flags))
<1> DEFINE Step(x, arg) == ReadFlag(x, arg, flags)
           start == FlagsAre({}, <<>>)
           Obeys(f) == f = [t \in SUBSET (DOMAIN s) |->
               IF t = {} THEN start ELSE Step(f[t \ {Max(t)}], s[Max(t)])]
           iter == CHOOSE f : Obeys(f)
<1>0. Len(s) \in Nat /\ DOMAIN s = 1..Len(s)
  OBVIOUS
<1>1. PICK f : Recursion(f, FlagReader, start, s, Flagging(flags))
  BY FlaggingType, FoldExists
<1>2. f \in [SUBSET (DOMAIN s) -> FlagReader] /\ f[{}] = start
  BY <1>1 DEF Recursion
<1>3. ASSUME NEW t \in SUBSET (DOMAIN s), t # {} PROVE s[Max(t)] \in Said
  <2>1. Max(t) \in DOMAIN s
    BY <1>0, <1>3, MaxUpTo
  <2> QED
    BY <2>1
<1>4. \A t \in SUBSET (DOMAIN s) :
          t # {} => f[t] = ReadFlag(f[t \ {Max(t)}], s[Max(t)], flags)
  BY <1>1, <1>2, <1>3, FlaggingType DEF Recursion
<1>5. Obeys(f)
  BY <1>2, <1>4
<1>6. Obeys(iter)
  BY <1>5
<1>7. ReadFlags(s, flags) = iter[DOMAIN s]
  BY DEF ReadFlags, FoldLeft, MapThenFoldSet, FlagsAre
<1> HIDE DEF iter
<1>8. iter[{}] = start
  BY <1>6
<1>9. \A t \in SUBSET (DOMAIN s) :
          t # {} /\ iter[t \ {Max(t)}] \in FlagReader =>
              iter[t] = Flagging(flags)[<<iter[t \ {Max(t)}], s[Max(t)]>>]
  BY <1>3, <1>6, FlaggingType
<1>10. EndsIn(FlagReader, Flagging(flags), start, s, iter[DOMAIN s])
  BY <1>8, <1>9, FlaggingType, FoldEnds
<1> QED
  BY <1>7, <1>10 DEF FlagReads

LEMMA FlagsRead ==
    ASSUME NEW flags, NEW args \in Seq(Said), NEW set, NEW rest,
           FlagReads(flags, FlagsAre({}, <<>>), args, FlagsAre(set, rest))
    PROVE  ReadFlags(args, flags) = FlagsAre(set, rest)
  BY ReadFlagsEnds, EndsOnce DEF FlagReads

LEMMA FlagReadsOn ==
    ASSUME NEW flags, NEW from \in FlagReader, NEW args \in Seq(Said), NEW more \in Seq(Said),
           NEW via, NEW to, FlagReads(flags, from, args, via), FlagReads(flags, via, more, to)
    PROVE  FlagReads(flags, from, args \o more, to)
  BY EndsThen, FlaggingType DEF FlagReads

\* The flag was not given yet.
Unset(set, flag) == \A p \in set : p[1] # flag

LEMMA SetUnset ==
    ASSUME NEW set \in Settings, NEW flag \in Said, NEW value \in Said,
           Unset(set, flag)
    PROVE  /\ SetFlag(set, flag, value) = set \cup {<<flag, value>>}
           /\ set \cup {<<flag, value>>} \in Settings
  BY DEF SetFlag, Unset, Settings

LEMMA OneArgument ==
    ASSUME NEW flags, NEW s \in FlagReader, NEW arg \in Said
    PROVE  FlagReads(flags, s, <<arg>>, ReadFlag(s, arg, flags))
<1>1. EndsIn(FlagReader, Flagging(flags), s, <<>>, s)
  BY EndsWithout
<1>2. <<>> \in Seq(Said) /\ Append(<<>>, arg) = <<arg>>
  OBVIOUS
<1>3. EndsIn(FlagReader, Flagging(flags), s, Append(<<>>, arg), Flagging(flags)[<<s, arg>>])
  BY <1>1, <1>2, FlaggingType, EndsAfter
<1>4. Flagging(flags)[<<s, arg>>] = ReadFlag(s, arg, flags)
  BY FlaggingType
<1> QED
  BY <1>2, <1>3, <1>4 DEF FlagReads

LEMMA FlagsAreType ==
    ASSUME NEW set \in Settings, NEW rest \in Seq(Said)
    PROVE  FlagsAre(set, rest) \in FlagReader
  BY SaidFacts DEF FlagsAre, FlagReader

\* A switch, if it is given.
LEMMA SwitchRead ==
    ASSUME NEW flags, NEW set \in Settings, NEW arg \in Said, NEW given \in BOOLEAN,
           arg \in flags.switches \ flags.valued, Unset(set, arg)
    PROVE  FlagReads(flags, FlagsAre(set, <<>>), When(given, <<arg>>),
                     FlagsAre(set \cup Ticked(given, arg), <<>>))
<1> DEFINE s == FlagsAre(set, <<>>)
<1>0. s \in FlagReader
  BY SaidFacts, FlagsAreType
<1>1. CASE given
  <2>1. ReadFlag(s, arg, flags) = FlagsAre(SetFlag(set, arg, "true"), <<>>)
    BY DEF ReadFlag, FlagsAre
  <2>2. ReadFlag(s, arg, flags) = FlagsAre(set \cup {<<arg, "true">>}, <<>>)
    <3>1. SetFlag(set, arg, "true") = set \cup {<<arg, "true">>}
      BY SaidFacts, SetUnset
    <3> QED
      BY <2>1, <3>1, Zenon
  <2> HIDE DEF s
  <2>3. FlagReads(flags, s, <<arg>>, FlagsAre(set \cup {<<arg, "true">>}, <<>>))
    BY <1>0, <2>2, OneArgument
  <2> QED
    BY <1>1, <2>3 DEF When, Ticked, s
<1>2. CASE ~given
  <2>1. set \cup {} = set
    OBVIOUS
  <2>2. FlagReads(flags, s, <<>>, s)
    BY <1>0, EndsWithout DEF FlagReads
  <2> QED
    BY <1>2, <2>1, <2>2 DEF When, Ticked
<1> QED
  BY <1>1, <1>2

\* A flag with its value, if it is given.
Valued(given, flag, value) == IF given THEN {<<flag, value>>} ELSE {}

LEMMA ValueRead ==
    ASSUME NEW flags, NEW set \in Settings, NEW flag \in Said, NEW value \in Said,
           NEW given \in BOOLEAN, flag \in flags.valued, flag # "", Unset(set, flag)
    PROVE  FlagReads(flags, FlagsAre(set, <<>>), When(given, <<flag, value>>),
                     FlagsAre(set \cup Valued(given, flag, value), <<>>))
<1> DEFINE s == FlagsAre(set, <<>>)
           t == [set |-> set, rest |-> <<>>, flag |-> flag]
<1>0. s \in FlagReader /\ t \in FlagReader
  BY SaidFacts, FlagsAreType DEF FlagReader
<1>1. CASE given
  <2>1. ReadFlag(s, flag, flags) = t
    BY DEF ReadFlag, FlagsAre
  <2>2. ReadFlag(t, value, flags) = FlagsAre(set \cup {<<flag, value>>}, <<>>)
    <3>1. ReadFlag(t, value, flags) = FlagsAre(SetFlag(set, flag, value), <<>>)
      BY DEF ReadFlag, FlagsAre
    <3>2. SetFlag(set, flag, value) = set \cup {<<flag, value>>}
      BY SetUnset
    <3> QED
      BY <3>1, <3>2, Zenon
  <2> HIDE DEF s, t
  <2>3. FlagReads(flags, s, <<flag>>, t)
    BY <1>0, <2>1, OneArgument
  <2>4. FlagReads(flags, t, <<value>>, FlagsAre(set \cup {<<flag, value>>}, <<>>))
    BY <1>0, <2>2, OneArgument
  <2>5. <<flag, value>> = <<flag>> \o <<value>> /\ <<flag>> \in Seq(Said) /\ <<value>> \in Seq(Said)
    BY SaidFacts
  <2>6. FlagReads(flags, s, <<flag>> \o <<value>>, FlagsAre(set \cup {<<flag, value>>}, <<>>))
    BY <1>0, <2>3, <2>4, <2>5, FlagReadsOn
  <2> QED
    BY <1>1, <2>5, <2>6 DEF When, Valued, s
<1>2. CASE ~given
  <2>1. set \cup {} = set
    OBVIOUS
  <2>2. FlagReads(flags, s, <<>>, s)
    BY <1>0, EndsWithout DEF FlagReads
  <2> QED
    BY <1>2, <2>1, <2>2 DEF When, Valued
<1> QED
  BY <1>1, <1>2

\* The first argument that is no flag.
LEMMA RestRead ==
    ASSUME NEW flags, NEW set \in Settings, NEW arg \in Said,
           arg \notin flags.switches \cup flags.valued
    PROVE  FlagReads(flags, FlagsAre(set, <<>>), <<arg>>, FlagsAre(set, <<arg>>))
<1> DEFINE s == FlagsAre(set, <<>>)
<1>0. s \in FlagReader
  BY SaidFacts, FlagsAreType
<1>1. Append(<<>>, arg) = <<arg>>
  OBVIOUS
<1>2. ReadFlag(s, arg, flags) = FlagsAre(set, <<arg>>)
  BY <1>1 DEF ReadFlag, FlagsAre
<1> HIDE DEF s
<1> QED
  BY <1>0, <1>2, OneArgument DEF s

-----------------------------------------------------------------------------
(* How vcs takes a command line for what the form says.                    *)

\* The flags of the commands the forms start.
LEMMA FlagSets ==
    /\ WithFlags = {"commit", "amend", "revert", "squash", "sync", "propose", "vote", "certify",
                    "status", "config"}
    /\ FlagSet("commit") = [switches |-> {"-a", "--allow-empty"}, valued |-> {"-m"}]
    /\ FlagSet("amend") =
          [switches |-> {"--no-edit", "--all", "--allow-empty"}, valued |-> {"-m"}]
    /\ FlagSet("revert") = [switches |-> {"--no-commit"}, valued |-> {}]
    /\ FlagSet("squash") =
          [switches |-> {"--allow-dirty"}, valued |-> {"--last", "--from", "-m"}]
    /\ FlagSet("propose") =
          [switches |-> {}, valued |-> {"--ref", "--old", "--new", "--epoch", "--ttl", "--id"}]
    /\ FlagSet("vote") = [switches |-> {"--yes", "--no"}, valued |-> {"--proposal"}]
    /\ FlagSet("certify") = [switches |-> {"--force"}, valued |-> {"--proposal"}]
    /\ FlagSet("status") = [switches |-> {}, valued |-> {"--proposal"}]
    /\ FlagSet("config") =
          [switches |-> {"--clear-members"}, valued |-> {"--threshold", "--members"}]
<1>1. /\ DOMAIN HistoryFlags = {"commit", "amend", "revert"}
      /\ HistoryFlags["commit"] = [switches |-> {"-a", "--allow-empty"}, valued |-> {"-m"}]
      /\ HistoryFlags["amend"] =
            [switches |-> {"--no-edit", "--all", "--allow-empty"}, valued |-> {"-m"}]
      /\ HistoryFlags["revert"] = [switches |-> {"--no-commit"}, valued |-> {}]
  BY DEF HistoryFlags
<1>2. /\ DOMAIN SquashFlags = {"squash"}
      /\ SquashFlags["squash"] =
            [switches |-> {"--allow-dirty"}, valued |-> {"--last", "--from", "-m"}]
  BY DEF SquashFlags
<1>3. DOMAIN SyncFlags = {"sync"}
  BY DEF SyncFlags
<1>4. /\ DOMAIN ConsensusFlags = {"propose", "vote", "certify", "status", "config"}
      /\ ConsensusFlags["propose"] =
            [switches |-> {}, valued |-> {"--ref", "--old", "--new", "--epoch", "--ttl", "--id"}]
      /\ ConsensusFlags["vote"] = [switches |-> {"--yes", "--no"}, valued |-> {"--proposal"}]
      /\ ConsensusFlags["certify"] = [switches |-> {"--force"}, valued |-> {"--proposal"}]
      /\ ConsensusFlags["status"] = [switches |-> {}, valued |-> {"--proposal"}]
      /\ ConsensusFlags["config"] =
            [switches |-> {"--clear-members"}, valued |-> {"--threshold", "--members"}]
  BY DEF ConsensusFlags
<1>5. WithFlags = {"commit", "amend", "revert", "squash", "sync", "propose", "vote", "certify",
                   "status", "config"}
  BY <1>1, <1>2, <1>3, <1>4 DEF WithFlags
<1>6. \A name \in {"commit", "amend", "revert"} : FlagSet(name) = HistoryFlags[name]
  BY <1>1, <1>2, <1>3, <1>4 DEF FlagSet
<1>7. FlagSet("squash") = SquashFlags["squash"]
  BY <1>1, <1>2, <1>3, <1>4 DEF FlagSet
<1>8. \A name \in {"propose", "vote", "certify", "status", "config"} :
          FlagSet(name) = ConsensusFlags[name]
  BY <1>1, <1>2, <1>3, <1>4 DEF FlagSet
<1> QED
  BY <1>1, <1>2, <1>4, <1>5, <1>6, <1>7, <1>8

\* The switches of a command, and its flags with a value.
Takes(name, switches, valued) ==
    name \in WithFlags /\ FlagSet(name).switches = switches /\ FlagSet(name).valued = valued

LEMMA FlagsTaken ==
    /\ Takes("commit", {"-a", "--allow-empty"}, {"-m"})
    /\ Takes("amend", {"--no-edit", "--all", "--allow-empty"}, {"-m"})
    /\ Takes("revert", {"--no-commit"}, {})
    /\ Takes("squash", {"--allow-dirty"}, {"--last", "--from", "-m"})
    /\ Takes("propose", {}, {"--ref", "--old", "--new", "--epoch", "--ttl", "--id"})
    /\ Takes("vote", {"--yes", "--no"}, {"--proposal"})
    /\ Takes("certify", {"--force"}, {"--proposal"})
    /\ Takes("status", {}, {"--proposal"})
    /\ Takes("config", {"--clear-members"}, {"--threshold", "--members"})
<1>1. ASSUME NEW name \in WithFlags, NEW switches, NEW valued,
             FlagSet(name) = [switches |-> switches, valued |-> valued]
      PROVE  Takes(name, switches, valued)
  BY <1>1 DEF Takes
<1>2. /\ "commit" \in WithFlags /\ "amend" \in WithFlags /\ "revert" \in WithFlags
      /\ "squash" \in WithFlags /\ "propose" \in WithFlags /\ "vote" \in WithFlags
      /\ "certify" \in WithFlags /\ "status" \in WithFlags /\ "config" \in WithFlags
  BY FlagSets
<1> QED
  BY <1>1, <1>2, FlagSets, Zenon

\* The words after the name of the command.
LEMMA TailOf ==
    ASSUME NEW E, NEW name \in E, NEW rest \in Seq(E)
    PROVE  /\ (<<name>> \o rest)[1] = name
           /\ SubSeq(<<name>> \o rest, 2, Len(<<name>> \o rest)) = rest
  OBVIOUS

LEMMA TailOfTwo ==
    ASSUME NEW E, NEW first \in E, NEW name \in E, NEW rest \in Seq(E)
    PROVE  /\ (<<first, name>> \o rest)[1] = first /\ (<<first, name>> \o rest)[2] = name
           /\ SubSeq(<<first, name>> \o rest, 3, Len(<<first, name>> \o rest)) = rest
  OBVIOUS

LEMMA Understanding ==
    ASSUME NEW E, NEW name \in E, name # "consensus", NEW rest \in Seq(E)
    PROVE  /\ name \in WithFlags =>
                 Understand(<<name>> \o rest) = ReadFlags(rest, FlagSet(name))
           /\ name \notin WithFlags \cup {"push"} =>
                 Understand(<<name>> \o rest) = FlagsAre({}, rest)
           /\ name = "push" =>
                 Understand(<<name>> \o rest) =
                     FlagsAre({<<f, "true">> : f \in ToSet(rest) \cap PushFlags},
                              Without(rest, PushFlags))
<1> DEFINE args == <<name>> \o rest
<1>1. args[1] = name /\ SubSeq(args, 2, Len(args)) = rest
  BY TailOf
<1>2. "push" \notin WithFlags
  BY FlagSets
<1> HIDE DEF args
<1> QED
  BY <1>1, <1>2 DEF Understand, CommandName, FlagsAre, args

LEMMA UnderstandingConsensus ==
    ASSUME NEW E, "consensus" \in E, NEW name \in E \cap WithFlags, NEW rest \in Seq(E)
    PROVE  Understand(<<"consensus", name>> \o rest) = ReadFlags(rest, FlagSet(name))
<1> DEFINE args == <<"consensus", name>> \o rest
<1>1. args[1] = "consensus" /\ args[2] = name /\ SubSeq(args, 3, Len(args)) = rest
  BY TailOfTwo
<1> HIDE DEF args
<1>2. "push" \notin WithFlags
  BY FlagSets
<1>3. Understand(args) = ReadFlags(rest, FlagSet(name))
  BY <1>1, <1>2 DEF Understand, CommandName
<1> QED
  BY <1>3 DEF args

\* The command line args names a command and sets the flags in set, and no more.
Told(name, flags, args, set) ==
    /\ name \in Seq(Said) /\ set \in Settings
    /\ \E rest \in Seq(Said) :
          /\ args = name \o rest
          /\ FlagReads(flags, FlagsAre({}, <<>>), rest, FlagsAre(set, <<>>))

LEMMA NameTold ==
    ASSUME NEW flags, NEW name \in Seq(Said)
    PROVE  Told(name, flags, name, {})
<1>1. name = name \o <<>>
  OBVIOUS
<1>2. FlagReads(flags, FlagsAre({}, <<>>), <<>>, FlagsAre({}, <<>>))
  BY FlaggingType, EndsWithout DEF FlagReads
<1>3. {} \in Settings
  BY DEF Settings
<1> QED
  BY <1>1, <1>2, <1>3, SaidFacts DEF Told

\* More words that set more flags.
LEMMA MoreTold ==
    ASSUME NEW name, NEW flags, NEW args, NEW set, Told(name, flags, args, set),
           NEW more \in Seq(Said), NEW after \in Settings,
           FlagReads(flags, FlagsAre(set, <<>>), more, FlagsAre(after, <<>>))
    PROVE  Told(name, flags, args \o more, after)
<1>1. PICK rest \in Seq(Said) :
          /\ args = name \o rest
          /\ FlagReads(flags, FlagsAre({}, <<>>), rest, FlagsAre(set, <<>>))
  BY DEF Told
<1>2. name \in Seq(Said)
  BY DEF Told
<1>3. args \o more = name \o (rest \o more)
  BY <1>1, <1>2, JoinFacts
<1>4. FlagReads(flags, FlagsAre({}, <<>>), rest \o more, FlagsAre(after, <<>>))
  BY <1>1, FlaggingType, FlagReadsOn
<1>5. rest \o more \in Seq(Said)
  BY <1>1, SaidFacts
<1> QED
  BY <1>2, <1>3, <1>4, <1>5 DEF Told

LEMMA SwitchTold ==
    ASSUME NEW name, NEW flags, NEW args, NEW set, Told(name, flags, args, set),
           NEW arg \in Said, NEW given \in BOOLEAN,
           arg \in flags.switches \ flags.valued, Unset(set, arg)
    PROVE  Told(name, flags, args \o When(given, <<arg>>), set \cup Ticked(given, arg))
<1>1. set \in Settings
  BY DEF Told
<1>2. FlagReads(flags, FlagsAre(set, <<>>), When(given, <<arg>>),
                FlagsAre(set \cup Ticked(given, arg), <<>>))
  BY <1>1, SwitchRead
<1>3. When(given, <<arg>>) \in Seq(Said)
  BY SaidFacts DEF When
<1>4. set \cup Ticked(given, arg) \in Settings
  <2>1. set \cup {<<arg, "true">>} \in Settings
    BY <1>1, SaidFacts, SetUnset
  <2>2. set \cup {} = set
    OBVIOUS
  <2> QED
    BY <1>1, <2>1, <2>2 DEF Ticked
<1> QED
  BY <1>2, <1>3, <1>4, MoreTold

LEMMA ValueTold ==
    ASSUME NEW name, NEW flags, NEW args, NEW set, Told(name, flags, args, set),
           NEW flag \in Said, NEW value \in Said, NEW given \in BOOLEAN,
           flag \in flags.valued, flag # "", Unset(set, flag)
    PROVE  /\ Told(name, flags, args \o When(given, <<flag, value>>),
                   set \cup Valued(given, flag, value))
           /\ Told(name, flags, args \o <<flag, value>>, set \cup {<<flag, value>>})
<1>1. set \in Settings
  BY DEF Told
<1>2. ASSUME NEW c \in BOOLEAN
      PROVE  Told(name, flags, args \o When(c, <<flag, value>>), set \cup Valued(c, flag, value))
  <2>1. FlagReads(flags, FlagsAre(set, <<>>), When(c, <<flag, value>>),
                  FlagsAre(set \cup Valued(c, flag, value), <<>>))
    BY <1>1, ValueRead
  <2>2. When(c, <<flag, value>>) \in Seq(Said)
    BY SaidFacts DEF When
  <2>3. set \cup Valued(c, flag, value) \in Settings
    <3>1. set \cup {<<flag, value>>} \in Settings
      BY <1>1, SetUnset
    <3>2. set \cup {} = set
      OBVIOUS
    <3> QED
      BY <1>1, <3>1, <3>2 DEF Valued
  <2> QED
    BY <2>1, <2>2, <2>3, MoreTold
<1>3. Told(name, flags, args \o When(TRUE, <<flag, value>>), set \cup Valued(TRUE, flag, value))
  BY <1>2
<1> QED
  BY <1>2, <1>3 DEF When, Valued

\* vcs understands it.
LEMMA ToldUnderstood ==
    ASSUME NEW name \in Said \cap WithFlags, NEW args, NEW set
    PROVE  /\ Told(<<name>>, FlagSet(name), args, set) /\ name # "consensus" =>
                 Understand(args) = FlagsAre(set, <<>>)
           /\ Told(<<"consensus", name>>, FlagSet(name), args, set) =>
                 Understand(args) = FlagsAre(set, <<>>)
<1>1. ASSUME Told(<<name>>, FlagSet(name), args, set), name # "consensus"
      PROVE  Understand(args) = FlagsAre(set, <<>>)
  <2>1. PICK rest \in Seq(Said) :
            /\ args = <<name>> \o rest
            /\ FlagReads(FlagSet(name), FlagsAre({}, <<>>), rest, FlagsAre(set, <<>>))
    BY <1>1 DEF Told
  <2>2. Understand(<<name>> \o rest) = ReadFlags(rest, FlagSet(name))
    BY <1>1, Understanding
  <2>3. ReadFlags(rest, FlagSet(name)) = FlagsAre(set, <<>>)
    BY <2>1, FlagsRead
  <2> QED
    BY <2>1, <2>2, <2>3
<1>2. ASSUME Told(<<"consensus", name>>, FlagSet(name), args, set)
      PROVE  Understand(args) = FlagsAre(set, <<>>)
  <2>1. PICK rest \in Seq(Said) :
            /\ args = <<"consensus", name>> \o rest
            /\ FlagReads(FlagSet(name), FlagsAre({}, <<>>), rest, FlagsAre(set, <<>>))
    BY <1>2 DEF Told
  <2>2. "consensus" \in Said
    BY DEF Said
  <2>3. Understand(<<"consensus", name>> \o rest) = ReadFlags(rest, FlagSet(name))
    BY <2>2, UnderstandingConsensus
  <2>4. ReadFlags(rest, FlagSet(name)) = FlagsAre(set, <<>>)
    BY <2>1, FlagsRead
  <2> QED
    BY <2>1, <2>3, <2>4
<1> QED
  BY <1>1, <1>2
\* Flags that were not given yet, after another one.
LEMMA UnsetMore ==
    /\ \A flag : Unset({}, flag)
    /\ \A set, flag, other, value, given :
          Unset(set, flag) /\ other # flag =>
              /\ Unset(set \cup Ticked(given, other), flag)
              /\ Unset(set \cup Valued(given, other, value), flag)
              /\ Unset(set \cup {<<other, value>>}, flag)
  BY DEF Unset, Ticked, Valued

\* vcs commit: the message and "-a".
LEMMA CommitMeans ==
    ASSUME NEW message \in Said, message # "", NEW all \in BOOLEAN
    PROVE  Understand(CommitArgs(message, all)) =
               FlagsAre(Given("-m", message) \cup Ticked(all, "-a"), <<>>)
<1> DEFINE name == <<"commit">>
           flags == FlagSet("commit")
           one == name \o When(all, <<"-a">>)
           two == one \o <<"-m", message>>
           set == ({} \cup Ticked(all, "-a")) \cup {<<"-m", message>>}
<1>0. "commit" \in Said /\ "-a" \in Said /\ "-m" \in Said
  BY SaidWords
<1>1. /\ "commit" \in WithFlags
      /\ flags.switches = {"-a", "--allow-empty"} /\ flags.valued = {"-m"}
  BY FlagsTaken DEF Takes
<1> HIDE DEF flags
<1>2. Told(name, flags, name, {})
  BY <1>0, <1>1, SaidFacts, NameTold
<1> HIDE DEF name
<1>3. Told(name, flags, one, {} \cup Ticked(all, "-a"))
  BY <1>0, <1>1, <1>2, UnsetMore, SwitchTold
<1> HIDE DEF one
<1>4. Told(name, flags, two, set)
  BY <1>0, <1>1, <1>3, UnsetMore, ValueTold
<1> HIDE DEF two, set
<1>5. Understand(two) = FlagsAre(set, <<>>)
  BY <1>0, <1>1, <1>4, ToldUnderstood DEF name, flags
<1>6. two = CommitArgs(message, all)
  BY DEF two, one, name, CommitArgs
<1>7. set = Given("-m", message) \cup Ticked(all, "-a")
  BY DEF set, Given
<1> QED
  BY <1>5, <1>6, <1>7
\* vcs amend: the message, or "--no-edit".
LEMMA AmendMeans ==
    ASSUME NEW message \in Said
    PROVE  Understand(AmendArgs(message)) =
               FlagsAre(Given("-m", message) \cup Ticked(message = "", "--no-edit"), <<>>)
<1> DEFINE name == <<"amend">>
           flags == FlagSet("amend")
           args == AmendArgs(message)
           set == Given("-m", message) \cup Ticked(message = "", "--no-edit")
<1>0. "amend" \in Said /\ "--no-edit" \in Said /\ "-m" \in Said
  BY SaidWords
<1>1. /\ "amend" \in WithFlags
      /\ flags.switches = {"--no-edit", "--all", "--allow-empty"} /\ flags.valued = {"-m"}
  BY FlagsTaken DEF Takes
<1> HIDE DEF flags
<1>2. Told(name, flags, name, {})
  BY <1>0, <1>1, SaidFacts, NameTold
<1>3. Told(name, flags, args, set)
  <2>1. CASE message = ""
    <3> HIDE DEF name
    <3>1. Told(name, flags, name \o When(TRUE, <<"--no-edit">>), {} \cup Ticked(TRUE, "--no-edit"))
      BY <1>0, <1>1, <1>2, UnsetMore, SwitchTold
    <3>2. args = name \o When(TRUE, <<"--no-edit">>)
      BY <1>0, <1>1, <2>1, SaidFacts DEF AmendArgs, When, name
    <3>3. set = {} \cup Ticked(TRUE, "--no-edit")
      BY <2>1 DEF Given, Ticked
    <3> HIDE DEF set, args
    <3> QED
      BY <3>1, <3>2, <3>3
  <2>2. CASE message # ""
    <3> HIDE DEF name
    <3>1. Told(name, flags, name \o <<"-m", message>>, {} \cup {<<"-m", message>>})
      BY <1>0, <1>1, <1>2, UnsetMore, ValueTold
    <3>2. args = name \o <<"-m", message>>
      <4> DEFINE a == "amend"
                 m == "-m"
      <4>0. a \in Said /\ m \in Said
        BY <1>0
      <4> HIDE DEF a, m
      <4>1. <<a, m, message>> = <<a>> \o <<m, message>>
        BY <4>0
      <4> QED
        BY <2>2, <4>1 DEF AmendArgs, name, a, m
    <3>3. set = {} \cup {<<"-m", message>>}
      BY <2>2 DEF Given, Ticked
    <3> HIDE DEF set, args
    <3> QED
      BY <3>1, <3>2, <3>3
  <2> QED
    BY <2>1, <2>2
<1> HIDE DEF args, set
<1>4. Understand(args) = FlagsAre(set, <<>>)
  BY <1>0, <1>1, <1>3, ToldUnderstood DEF name, flags
<1> QED
  BY <1>4 DEF args, set

\* vcs squash: one of "--last" and "--from", "--allow-dirty" and the message.
LEMMA SquashMeans ==
    ASSUME NEW last \in Said, NEW from \in Said, NEW message \in Said, NEW dirty \in BOOLEAN,
           message # "", (last = "") # (from = "")
    PROVE  Understand(SquashArgs(last, from, message, dirty)) =
               FlagsAre(Given("--last", last) \cup Given("--from", from)
                            \cup Given("-m", message) \cup Ticked(dirty, "--allow-dirty"), <<>>)
<1> DEFINE name == <<"squash">>
           flags == FlagSet("squash")
           flag == IF last # "" THEN "--last" ELSE "--from"
           value == IF last # "" THEN last ELSE from
           one == name \o <<flag, value>>
           two == one \o When(dirty, <<"--allow-dirty">>)
           three == two \o <<"-m", message>>
           first == {} \cup {<<flag, value>>}
           second == first \cup Ticked(dirty, "--allow-dirty")
           set == second \cup {<<"-m", message>>}
<1>0. "squash" \in Said /\ "--allow-dirty" \in Said /\ "-m" \in Said
  BY SaidWords
<1>1. /\ "squash" \in WithFlags
      /\ flags.switches = {"--allow-dirty"} /\ flags.valued = {"--last", "--from", "-m"}
  BY FlagsTaken DEF Takes
<1>2. "--last" \in Said /\ "--from" \in Said
  BY SaidWords
<1> HIDE DEF flags
<1>3. /\ flag \in Said /\ flag \in flags.valued /\ flag # "" /\ flag # "-m"
      /\ flag # "--allow-dirty" /\ value \in Said
  BY <1>1, <1>2
<1>4. three = SquashArgs(last, from, message, dirty)
  BY DEF SquashArgs
<1>5. set = Given("--last", last) \cup Given("--from", from)
                \cup Given("-m", message) \cup Ticked(dirty, "--allow-dirty")
  BY DEF Given
<1>6. Told(name, flags, name, {})
  BY <1>0, <1>1, SaidFacts, NameTold
<1> HIDE DEF name, flag, value
<1>7. /\ Told(name, flags, one, first)
      /\ Unset(first, "--allow-dirty") /\ Unset(first, "-m")
  BY <1>3, <1>6, UnsetMore, ValueTold
<1> HIDE DEF one, first
<1>8. Told(name, flags, two, second) /\ Unset(second, "-m")
  BY <1>0, <1>1, <1>7, UnsetMore, SwitchTold
<1> HIDE DEF two, second
<1>9. Told(name, flags, three, set)
  BY <1>0, <1>1, <1>8, ValueTold
<1> HIDE DEF three, set
<1>10. Understand(three) = FlagsAre(set, <<>>)
  BY <1>0, <1>1, <1>9, ToldUnderstood DEF name, flags
<1> QED
  BY <1>4, <1>5, <1>10
LEMMA ConfigLine ==
    ASSUME NEW threshold \in Said
    PROVE  <<"consensus", "config", "--threshold", threshold>> =
               <<"consensus", "config">> \o <<"--threshold", threshold>>
<1> DEFINE a == "consensus"
           b == "config"
           c == "--threshold"
<1>1. a \in Said /\ b \in Said /\ c \in Said
  BY SaidWords
<1> HIDE DEF a, b, c
<1>2. <<a, b, c, threshold>> = <<a, b>> \o <<c, threshold>>
  BY <1>1
<1> QED
  BY <1>2 DEF a, b, c

\* vcs consensus config: the threshold, and the members or "--clear-members".
LEMMA ConfigMeans ==
    ASSUME NEW threshold \in Said, threshold # "", NEW members \in Said, NEW clear \in BOOLEAN,
           clear => members = ""
    PROVE  Understand(ConsensusConfigArgs(threshold, members, clear)) =
               FlagsAre(Given("--threshold", threshold) \cup Given("--members", members)
                            \cup Ticked(clear, "--clear-members"), <<>>)
<1> DEFINE name == <<"consensus", "config">>
           flags == FlagSet("config")
           one == name \o <<"--threshold", threshold>>
           two == one \o When(clear, <<"--clear-members">>)
           three == two \o When(~clear /\ members # "", <<"--members", members>>)
           first == {} \cup {<<"--threshold", threshold>>}
           second == first \cup Ticked(clear, "--clear-members")
           set == second \cup Valued(~clear /\ members # "", "--members", members)
<1>0. "consensus" \in Said /\ "config" \in Said /\ "--threshold" \in Said
      /\ "--clear-members" \in Said /\ "--members" \in Said
  BY SaidWords
<1>1. /\ "config" \in WithFlags
      /\ flags.switches = {"--clear-members"} /\ flags.valued = {"--threshold", "--members"}
  BY FlagsTaken DEF Takes
<1> HIDE DEF flags
<1>2. three = ConsensusConfigArgs(threshold, members, clear)
  BY ConfigLine DEF ConsensusConfigArgs
<1>3. set = Given("--threshold", threshold) \cup Given("--members", members)
                \cup Ticked(clear, "--clear-members")
  BY DEF Given, Valued
<1>4. Told(name, flags, name, {})
  BY <1>0, SaidFacts, NameTold
<1> HIDE DEF name
<1>5. Told(name, flags, one, first) /\ Unset(first, "--clear-members") /\ Unset(first, "--members")
  BY <1>0, <1>1, <1>4, UnsetMore, ValueTold
<1> HIDE DEF one, first
<1>6. Told(name, flags, two, second) /\ Unset(second, "--members")
  BY <1>0, <1>1, <1>5, UnsetMore, SwitchTold
<1> HIDE DEF two, second
<1>7. Told(name, flags, three, set)
  BY <1>0, <1>1, <1>6, ValueTold
<1> HIDE DEF three, set
<1>8. Understand(three) = FlagsAre(set, <<>>)
  BY <1>0, <1>1, <1>7, ToldUnderstood DEF name, flags
<1> QED
  BY <1>2, <1>3, <1>8

\* vcs consensus propose: the reference and the new value, and what was given
\* of the old value, the epoch and the hours.
Proposed(reference, new, old, epoch, ttl) ==
    {<<"--ref", reference>>, <<"--new", new>>} \cup Given("--old", old) \cup Given("--epoch", epoch)
        \cup (IF ttl = "" THEN {} ELSE {<<"--ttl", ttl \o "h">>})

LEMMA ProposeMeans ==
    ASSUME NEW reference \in Said, NEW new \in Said, NEW old \in Said, NEW epoch \in Said,
           NEW ttl \in Said, ttl \o "h" \in Said
    PROVE  Understand(ProposeArgs(reference, new, old, epoch, ttl)) =
               FlagsAre(Proposed(reference, new, old, epoch, ttl), <<>>)
<1> DEFINE name == <<"consensus", "propose">>
           flags == FlagSet("propose")
           hours == ttl \o "h"
           one == name \o <<"--ref", reference>>
           two == one \o <<"--new", new>>
           three == two \o When(old # "", <<"--old", old>>)
           four == three \o When(epoch # "", <<"--epoch", epoch>>)
           five == four \o When(ttl # "", <<"--ttl", hours>>)
           first == {} \cup {<<"--ref", reference>>}
           second == first \cup {<<"--new", new>>}
           third == second \cup Valued(old # "", "--old", old)
           fourth == third \cup Valued(epoch # "", "--epoch", epoch)
           set == fourth \cup Valued(ttl # "", "--ttl", hours)
<1>0. "consensus" \in Said /\ "propose" \in Said /\ "--ref" \in Said /\ "--new" \in Said
      /\ "--old" \in Said /\ "--epoch" \in Said /\ "--ttl" \in Said
  BY SaidWords
<1>1. /\ "propose" \in WithFlags
      /\ flags.valued = {"--ref", "--old", "--new", "--epoch", "--ttl", "--id"}
  BY FlagsTaken DEF Takes
<1> HIDE DEF flags
<1>2. five = ProposeArgs(reference, new, old, epoch, ttl)
  <2> DEFINE a == "consensus"
             b == "propose"
             c == "--ref"
             d == "--new"
  <2>1. a \in Said /\ b \in Said /\ c \in Said /\ d \in Said
    BY <1>0
  <2> HIDE DEF a, b, c, d
  <2>2. <<a, b, c, reference, d, new>> = <<a, b, c, reference>> \o <<d, new>>
    BY <2>1
  <2>3. <<a, b, c, reference>> = <<a, b>> \o <<c, reference>>
    BY <2>1
  <2> QED
    BY <2>2, <2>3 DEF ProposeArgs, a, b, c, d
<1>3. set = Proposed(reference, new, old, epoch, ttl)
  BY DEF Given, Valued, Proposed
<1>4. Told(name, flags, name, {}) /\ hours \in Said
  BY <1>0, SaidFacts, NameTold
<1> HIDE DEF name, hours
<1>5. /\ Told(name, flags, one, first)
      /\ Unset(first, "--new") /\ Unset(first, "--old") /\ Unset(first, "--epoch")
      /\ Unset(first, "--ttl")
  BY <1>0, <1>1, <1>4, UnsetMore, ValueTold
<1> HIDE DEF one, first
<1>6. /\ Told(name, flags, two, second)
      /\ Unset(second, "--old") /\ Unset(second, "--epoch") /\ Unset(second, "--ttl")
  BY <1>0, <1>1, <1>5, UnsetMore, ValueTold
<1> HIDE DEF two, second
<1>7. /\ Told(name, flags, three, third)
      /\ Unset(third, "--epoch") /\ Unset(third, "--ttl")
  BY <1>0, <1>1, <1>6, UnsetMore, ValueTold
<1> HIDE DEF three, third
<1>8. Told(name, flags, four, fourth) /\ Unset(fourth, "--ttl")
  BY <1>0, <1>1, <1>7, UnsetMore, ValueTold
<1> HIDE DEF four, fourth
<1>9. Told(name, flags, five, set)
  BY <1>0, <1>1, <1>4, <1>8, ValueTold
<1> HIDE DEF five, set
<1>10. Understand(five) = FlagsAre(set, <<>>)
  BY <1>0, <1>1, <1>9, ToldUnderstood DEF name, flags
<1> QED
  BY <1>2, <1>3, <1>10

\* vcs consensus vote: the proposal, and "--yes" or "--no".
LEMMA VoteMeans ==
    ASSUME NEW proposal \in Said, NEW yes \in BOOLEAN
    PROVE  Understand(VoteArgs(proposal, yes)) =
               FlagsAre({<<"--proposal", proposal>>} \cup Ticked(yes, "--yes")
                            \cup Ticked(~yes, "--no"), <<>>)
<1> DEFINE name == <<"consensus", "vote">>
           flags == FlagSet("vote")
           answer == IF yes THEN "--yes" ELSE "--no"
           one == name \o <<"--proposal", proposal>>
           two == one \o When(TRUE, <<answer>>)
           first == {} \cup {<<"--proposal", proposal>>}
           set == first \cup Ticked(TRUE, answer)
<1>0. "consensus" \in Said /\ "vote" \in Said /\ "--proposal" \in Said
      /\ "--yes" \in Said /\ "--no" \in Said
  BY SaidWords
<1>1. /\ "vote" \in WithFlags
      /\ flags.switches = {"--yes", "--no"} /\ flags.valued = {"--proposal"}
  BY FlagsTaken DEF Takes
<1> HIDE DEF flags
<1>2. answer \in Said /\ answer \in flags.switches \ flags.valued /\ answer # "--proposal"
  BY <1>0, <1>1
<1>3. two = VoteArgs(proposal, yes)
  <2> DEFINE a == "consensus"
             b == "vote"
             c == "--proposal"
  <2>1. a \in Said /\ b \in Said /\ c \in Said
    BY <1>0
  <2> HIDE DEF a, b, c, answer
  <2>2. <<a, b, c, proposal, answer>> = <<a, b, c, proposal>> \o <<answer>>
    BY <1>2, <2>1
  <2>3. <<a, b, c, proposal>> = <<a, b>> \o <<c, proposal>>
    BY <2>1
  <2> QED
    BY <2>2, <2>3 DEF VoteArgs, When, a, b, c, answer
<1>4. set = {<<"--proposal", proposal>>} \cup Ticked(yes, "--yes") \cup Ticked(~yes, "--no")
  BY DEF Ticked
<1>5. Told(name, flags, name, {})
  BY <1>0, SaidFacts, NameTold
<1> HIDE DEF name, answer
<1>6. Told(name, flags, one, first) /\ Unset(first, answer)
  BY <1>0, <1>1, <1>2, <1>5, UnsetMore, ValueTold
<1> HIDE DEF one, first
<1>7. Told(name, flags, two, set)
  BY <1>2, <1>6, SwitchTold
<1> HIDE DEF two, set
<1>8. Understand(two) = FlagsAre(set, <<>>)
  BY <1>0, <1>1, <1>7, ToldUnderstood DEF name, flags
<1> QED
  BY <1>3, <1>4, <1>8

\* vcs consensus certify and status: the proposal.
LEMMA ProposalMeans ==
    ASSUME NEW proposal \in Said
    PROVE  /\ Understand(CertifyArgs(proposal)) = FlagsAre({<<"--proposal", proposal>>}, <<>>)
           /\ Understand(ConsensusStatusArgs(proposal)) =
                 FlagsAre({<<"--proposal", proposal>>}, <<>>)
<1>0. "consensus" \in Said /\ "certify" \in Said /\ "status" \in Said /\ "--proposal" \in Said
  BY SaidWords
<1>1. \A command \in {"certify", "status"} :
          command \in Said \cap WithFlags /\ FlagSet(command).valued = {"--proposal"}
  BY <1>0, FlagsTaken DEF Takes
<1>2. ASSUME NEW command \in {"certify", "status"}
      PROVE  Understand(<<"consensus", command, "--proposal", proposal>>) =
                 FlagsAre({<<"--proposal", proposal>>}, <<>>)
  <2> DEFINE name == <<"consensus", command>>
             flags == FlagSet(command)
             args == name \o <<"--proposal", proposal>>
             set == {} \cup {<<"--proposal", proposal>>}
  <2>1. <<"consensus", command, "--proposal", proposal>> = args
    <3> DEFINE a == "consensus"
               c == "--proposal"
    <3>1. a \in Said /\ c \in Said /\ command \in Said
      BY <1>0, <1>1
    <3> HIDE DEF a, c
    <3>2. <<a, command, c, proposal>> = <<a, command>> \o <<c, proposal>>
      BY <3>1
    <3> QED
      BY <3>2 DEF a, c
  <2>2. flags.valued = {"--proposal"} /\ command \in Said \cap WithFlags
    BY <1>1
  <2> HIDE DEF flags
  <2>3. Told(name, flags, name, {})
    BY <1>0, <2>2, SaidFacts, NameTold
  <2> HIDE DEF name
  <2>4. Told(name, flags, args, set)
    BY <1>0, <2>2, <2>3, UnsetMore, ValueTold
  <2>5. set = {<<"--proposal", proposal>>}
    OBVIOUS
  <2> HIDE DEF args, set
  <2>6. Understand(args) = FlagsAre(set, <<>>)
    BY <2>2, <2>4, ToldUnderstood DEF name, flags
  <2> QED
    BY <2>1, <2>5, <2>6
<1> QED
  BY <1>2 DEF CertifyArgs, ConsensusStatusArgs
LEMMA SaidJoined == \A s, u, v \in Seq(Said) : (s \o u) \o v = s \o (u \o v)
  BY JoinFacts

\* vcs revert: "--no-commit", and the commit after it, which is no flag.
LEMMA RevertMeans ==
    ASSUME NEW target \in Said, target # "", target # "--no-commit", NEW noCommit \in BOOLEAN
    PROVE  Understand(RevertArgs(target, noCommit)) =
               FlagsAre(Ticked(noCommit, "--no-commit"), <<target>>)
<1> DEFINE flags == FlagSet("revert")
           first == When(noCommit, <<"--no-commit">>)
           rest == first \o <<target>>
           set == {} \cup Ticked(noCommit, "--no-commit")
<1>0. "revert" \in Said /\ "--no-commit" \in Said
  BY SaidWords
<1>1. "revert" \in WithFlags /\ flags.switches = {"--no-commit"} /\ flags.valued = {}
  BY FlagsTaken DEF Takes
<1> HIDE DEF flags
<1>2. {} \in Settings /\ Unset({}, "--no-commit")
  BY DEF Settings, Unset
<1>3. FlagReads(flags, FlagsAre({}, <<>>), first, FlagsAre(set, <<>>))
  BY <1>0, <1>1, <1>2, SwitchRead
<1>4. set \in Settings
  BY <1>0, <1>2, SaidFacts, SetUnset DEF Ticked
<1>5. first \in Seq(Said) /\ <<target>> \in Seq(Said) /\ <<"revert">> \in Seq(Said)
  BY <1>0, SaidFacts DEF When
<1>6. set = Ticked(noCommit, "--no-commit")
  OBVIOUS
<1>7. RevertArgs(target, noCommit) = (<<"revert">> \o first) \o <<target>>
  BY DEF RevertArgs
<1> HIDE DEF first, set
<1>8. FlagReads(flags, FlagsAre(set, <<>>), <<target>>, FlagsAre(set, <<target>>))
  BY <1>1, <1>4, RestRead
<1>9. FlagReads(flags, FlagsAre({}, <<>>), rest, FlagsAre(set, <<target>>))
  BY <1>3, <1>5, <1>8, FlaggingType, FlagReadsOn
<1>10. RevertArgs(target, noCommit) = <<"revert">> \o rest /\ rest \in Seq(Said)
  <2>1. (<<"revert">> \o first) \o <<target>> = <<"revert">> \o (first \o <<target>>)
    BY <1>5, SaidJoined, Zenon
  <2>2. first \o <<target>> \in Seq(Said)
    BY <1>5, SaidFacts
  <2> QED
    BY <1>7, <2>1, <2>2
<1> HIDE DEF rest
<1>11. ReadFlags(rest, flags) = FlagsAre(set, <<target>>)
  BY <1>9, <1>10, FlagsRead
<1>12. Understand(<<"revert">> \o rest) = ReadFlags(rest, flags)
  BY <1>0, <1>1, <1>10, Understanding DEF flags
<1> QED
  BY <1>6, <1>10, <1>11, <1>12

\* A flag in place of the commit: vcs is left without one.
LEMMA NoCommitFails ==
    ASSUME NEW noCommit \in BOOLEAN
    PROVE  LET args == RevertArgs("--no-commit", noCommit) IN
           /\ Fails(args, FlagsAre(Ticked(noCommit, "--no-commit"), <<"--no-commit">>))
           /\ Fails(args, Understand(args))
<1> DEFINE word == "--no-commit"
           name == "revert"
           flags == FlagSet(name)
           args == RevertArgs(word, noCommit)
           first == When(noCommit, <<word>>)
           rest == first \o <<word>>
           set == Ticked(noCommit, word)
           one == FlagsAre(set, <<>>)
           two == ReadFlag(one, word, flags)
<1>0. name \in Said /\ word \in Said /\ word # "" /\ name # "consensus"
  BY SaidWords
<1>1. name \in WithFlags /\ flags.switches = {word} /\ flags.valued = {}
  BY FlagsTaken DEF Takes
<1>2. word \in Dashed /\ Expected(name) = 1
  BY <1>1, FlagAssumption DEF Expected
<1>3. args = (<<name>> \o first) \o <<word>>
  BY <1>0 DEF RevertArgs
<1> HIDE DEF word, name, flags, args
<1>4. first \in Seq(Said) /\ <<word>> \in Seq(Said) /\ <<name>> \in Seq(Said)
  BY <1>0, SaidFacts DEF When
<1>5. {} \in Settings /\ Unset({}, word) /\ set = {} \cup set
  BY DEF Settings, Unset
<1>6. FlagReads(flags, FlagsAre({}, <<>>), first, one)
  BY <1>0, <1>1, <1>5, SwitchRead
<1>7. set \in Settings
  <2>1. {} \cup {<<word, "true">>} \in Settings /\ {<<word, "true">>} = {} \cup {<<word, "true">>}
    BY <1>0, <1>5, SaidFacts, SetUnset
  <2> QED
    BY <1>5, <2>1 DEF Ticked
<1>8. one \in FlagReader
  BY <1>7, SaidFacts, FlagsAreType
<1>9. two.rest = <<>>
  BY <1>1 DEF ReadFlag, FlagsAre
<1> HIDE DEF first, set, one, two
<1>10. FlagReads(flags, one, <<word>>, two)
  BY <1>0, <1>8, OneArgument DEF two
<1>11. rest \in Seq(Said) /\ args = <<name>> \o rest
  <2>1. (<<name>> \o first) \o <<word>> = <<name>> \o (first \o <<word>>)
    BY <1>4, SaidJoined, Zenon
  <2>2. first \o <<word>> \in Seq(Said)
    BY <1>4, SaidFacts
  <2> QED
    BY <1>3, <2>1, <2>2
<1>12. FlagReads(flags, FlagsAre({}, <<>>), rest, two)
  BY <1>4, <1>6, <1>10, FlaggingType, FlagReadsOn
<1> HIDE DEF rest
<1>13. ReadFlags(rest, flags) = two
  BY <1>11, <1>12, ReadFlagsEnds, EndsOnce DEF FlagReads
<1>14. Understand(args) = two
  BY <1>0, <1>1, <1>11, <1>13, Understanding DEF flags
<1>15. CommandName(args) = name
  <2>1. args[1] = name
    BY <1>0, <1>11, TailOf
  <2> QED
    BY <1>0, <2>1 DEF CommandName
<1>16. Fails(args, Understand(args))
  <2>1. Len(<<>>) = 0
    OBVIOUS
  <2>2. Len(Understand(args).rest) # Expected(CommandName(args))
    BY <1>2, <1>9, <1>14, <1>15, <2>1
  <2> QED
    BY <1>1, <1>15, <2>2 DEF Fails
<1>17. Fails(args, FlagsAre(set, <<word>>))
  BY <1>1, <1>2, <1>15 DEF Fails, FlagsAre
<1> QED
  BY <1>16, <1>17 DEF args, set, word

\* vcs sync, without flags.
LEMMA SyncMeans == Understand(<<"sync">>) = FlagsAre({}, <<>>)
<1>1. "sync" \in Said /\ "sync" \in WithFlags
  BY SaidWords, FlagSets
<1>2. Told(<<"sync">>, FlagSet("sync"), <<"sync">>, {})
  BY <1>1, SaidFacts, NameTold
<1> QED
  BY <1>1, <1>2, ToldUnderstood

\* vcs push, with one of its flags or none.
LEMMA PushMeans ==
    ASSUME NEW flag \in PushFlags, NEW given \in BOOLEAN
    PROVE  Understand(<<"push">> \o When(given, <<flag>>)) = FlagsAre(Ticked(given, flag), <<>>)
<1> DEFINE rest == When(given, <<flag>>)
           set == {<<f, "true">> : f \in ToSet(rest) \cap PushFlags}
<1>0. "push" \in Said /\ flag \in Said
  BY SaidWords DEF PushFlags
<1>1. rest \in Seq(Said)
  BY <1>0, SaidFacts DEF When
<1>2. set = Ticked(given, flag)
  BY DEF ToSet, When, Ticked
<1>3. Without(rest, PushFlags) = <<>>
  <2> DEFINE parts == [i \in DOMAIN rest |-> IF rest[i] \in PushFlags THEN <<>> ELSE <<rest[i]>>]
  <2>1. FlattenSeq(parts) = <<>>
    <3>1. CASE given
      <4>1. parts = Append(<<>>, <<>>)
        BY <3>1 DEF When
      <4>2. <<>> \in Seq(Seq(Said)) /\ <<>> \in Seq(Said) /\ <<>> \o <<>> = <<>>
        OBVIOUS
      <4> DEFINE s == <<>>
                 e == <<>>
      <4> HIDE DEF s, e
      <4>3. FlattenSeq(Append(s, e)) = FlattenSeq(s) \o e
        BY <4>2, FlattenAppend DEF s, e
      <4> QED
        BY <4>1, <4>2, <4>3, FlattenNothing DEF s, e
    <3>2. CASE ~given
      <4>1. parts = <<>>
        BY <3>2, EmptyDomain DEF When
      <4> QED
        BY <4>1, FlattenNothing
    <3> QED
      BY <3>1, <3>2
  <2> QED
    BY <2>1 DEF Without
<1> HIDE DEF rest, set
<1>4. Understand(<<"push">> \o rest) = FlagsAre(set, Without(rest, PushFlags))
  BY <1>0, <1>1, Understanding DEF set
<1> QED
  BY <1>2, <1>3, <1>4 DEF rest

\* The commands without flags take their arguments as they are.
LEMMA PlainMeans ==
    ASSUME NEW E, NEW name \in E,
           name \in {"stage", "unstage", "checkout", "pull", "peer"}
    PROVE  /\ Understand(<<name>>) = FlagsAre({}, <<>>)
           /\ \A a \in E : Understand(<<name, a>>) = FlagsAre({}, <<a>>)
           /\ \A a, b \in E : Understand(<<name, a, b>>) = FlagsAre({}, <<a, b>>)
<1>1. name # "consensus" /\ name \notin WithFlags \cup {"push"}
  BY FlagSets
<1>2. \A rest \in Seq(E) : Understand(<<name>> \o rest) = FlagsAre({}, rest)
  BY <1>1, Understanding
<1>3. <<>> \in Seq(E) /\ <<name>> \o <<>> = <<name>>
  OBVIOUS
<1>4. ASSUME NEW a \in E PROVE Understand(<<name, a>>) = FlagsAre({}, <<a>>)
  <2>1. <<a>> \in Seq(E) /\ <<name, a>> = <<name>> \o <<a>>
    OBVIOUS
  <2> QED
    BY <1>2, <2>1
<1>5. ASSUME NEW a \in E, NEW b \in E PROVE Understand(<<name, a, b>>) = FlagsAre({}, <<a, b>>)
  <2>1. <<a, b>> \in Seq(E) /\ <<name, a, b>> = <<name>> \o <<a, b>>
    OBVIOUS
  <2> QED
    BY <1>2, <2>1
<1>6. Understand(<<name>>) = FlagsAre({}, <<>>)
  BY <1>2, <1>3
<1> QED
  BY <1>4, <1>5, <1>6
-----------------------------------------------------------------------------
(* What every click has vcs do.                                            *)

LEMMA StartsUnderstood ==
    ASSUME NEW args, NEW set, NEW rest, NEW after,
           \/ args # Rejected => Understand(args) = FlagsAre(set, rest)
           \/ Fails(args, FlagsAre(set, rest)) /\ Fails(args, Understand(args))
    PROVE  /\ RunVcs(args, set, rest) => Understood'
           /\ RunVcsThen(args, set, rest, after) => Understood'
<1>1. ASSUME NEW end, RunVcsThen(args, set, rest, end) PROVE Understood'
  <2>1. args # Rejected /\ run'.args = args /\ run'.meant = FlagsAre(set, rest)
    BY <1>1 DEF RunVcsThen, RunCommand, NoRun, NotRejected, FlagsAre
  <2> QED
    BY <2>1 DEF Understood
<1> QED
  BY <1>1 DEF RunVcs

LEMMA GitIsNotVcs == ASSUME NEW args PROVE RunGit(args) => Understood'
  BY DEF RunGit, RunCommand, NoRun, Understood

\* What is written in the forms.
LEMMA FormsSay ==
    ASSUME TypeInv
    PROVE  /\ \A f \in TextField : text[f] \in Said
           /\ Targets \cup Words \subseteq Said
           /\ \A w \in Words : w \o "h" \in Said
           /\ sel.file \in File \cup {""}
           /\ data.gossip.peers \subseteq Said
<1>1. FormsTyped /\ SelTyped /\ DataTyped
  BY TypedParts DEF TypeInv
<1> QED
  BY <1>1, SaidFacts, TextAssumption DEF FormsTyped, SelTyped, DataTyped, Gossip

LEMMA GitPanelMeans ==
    ASSUME TypeInv, GitPanel
    PROVE  UNCHANGED run \/ Understood'
<1>1. OnStageAll \/ OnUnstageAll \/ OnPull => Understood'
  <2>1. \A name \in {"stage", "unstage", "pull"} : Understand(<<name>>) = FlagsAre({}, <<>>)
    BY PlainMeans
  <2> QED
    BY <2>1, StartsUnderstood DEF OnStageAll, OnUnstageAll, OnPull
<1>2. ASSUME NEW command \in {"stage", "unstage"}, OnStageFile(command) PROVE Understood'
  <2> DEFINE file == sel.file
             args == PathActionArgs(command, file)
  <2>1. args # Rejected => Understand(args) = FlagsAre({}, <<file>>)
    <3> DEFINE E == {command, file}
    <3>1. command \in E /\ file \in E
      OBVIOUS
    <3> HIDE DEF E, file
    <3>2. Understand(<<command, file>>) = FlagsAre({}, <<file>>)
      BY <3>1, PlainMeans
    <3> QED
      BY <3>2 DEF PathActionArgs
  <2>2. RunVcs(args, {}, <<file>>)
    BY <1>2 DEF OnStageFile
  <2> QED
    BY <2>1, <2>2, StartsUnderstood
<1>3. ASSUME NEW message \in Words, NEW all \in BOOLEAN, OnCommit(message, all) PROVE Understood'
  <2>1. message \in Said
    BY FormsSay
  <2>2. CommitArgs(message, all) # Rejected => message # ""
    BY DEF CommitArgs
  <2> QED
    BY <1>3, <2>1, <2>2, CommitMeans, StartsUnderstood DEF OnCommit
<1>4. ASSUME NEW message \in Words, OnAmend(message) PROVE Understood'
  <2>1. message \in Said
    BY FormsSay
  <2> QED
    BY <1>4, <2>1, AmendMeans, StartsUnderstood DEF OnAmend
<1>5. ASSUME NEW target \in Targets, OnCheckout(target) PROVE Understood'
  <2> DEFINE E == {"checkout", target}
  <2>1. "checkout" \in E /\ target \in E
    OBVIOUS
  <2> HIDE DEF E
  <2>2. Understand(<<"checkout", target>>) = FlagsAre({}, <<target>>)
    BY <2>1, PlainMeans
  <2>3. CheckoutArgs(target) # Rejected =>
            Understand(CheckoutArgs(target)) = FlagsAre({}, <<target>>)
    BY <2>2 DEF CheckoutArgs
  <2> QED
    BY <1>5, <2>3, StartsUnderstood DEF OnCheckout
<1>6. ASSUME NEW target \in Targets, NEW noCommit \in BOOLEAN, OnRevert(target, noCommit)
      PROVE  Understood'
  <2> DEFINE args == RevertArgs(target, noCommit)
             set == Ticked(noCommit, "--no-commit")
  <2>1. target \in Said
    BY FormsSay
  <2>2. args # Rejected => target # ""
    BY DEF RevertArgs
  <2>3. RunVcs(args, set, <<target>>)
    BY <1>6 DEF OnRevert
  <2>4. CASE target # "--no-commit"
    <3>1. args # Rejected => Understand(args) = FlagsAre(set, <<target>>)
      BY <2>1, <2>2, <2>4, RevertMeans
    <3> HIDE DEF args, set
    <3> QED
      BY <2>3, <3>1, StartsUnderstood
  <2>5. CASE target = "--no-commit"
    <3>1. Fails(args, FlagsAre(set, <<target>>)) /\ Fails(args, Understand(args))
      BY <2>5, NoCommitFails
    <3> HIDE DEF args, set
    <3> QED
      BY <2>3, <3>1, StartsUnderstood
  <2> QED
    BY <2>4, <2>5
<1>7. ASSUME NEW immediate \in BOOLEAN, OnPush(immediate) PROVE Understood'
  <2>1. "--no-auto-proposal" \in PushFlags
    BY DEF PushFlags
  <2>2. Understand(PushArgs(immediate)) = FlagsAre(Ticked(immediate, "--no-auto-proposal"), <<>>)
    BY <2>1, PushMeans DEF PushArgs
  <2> QED
    BY <1>7, <2>2, StartsUnderstood DEF OnPush
<1>8. ASSUME NEW message \in Words, NEW allowDirty \in BOOLEAN, OnSquash(message, allowDirty)
      PROVE  Understood'
  <2> DEFINE last == text["squashLast"]
             from == text["squashFrom"]
  <2>1. last \in Said /\ from \in Said /\ message \in Said
    BY FormsSay DEF TextField
  <2> HIDE DEF last, from
  <2>2. SquashArgs(last, from, message, allowDirty) # Rejected =>
            message # "" /\ (last = "") # (from = "")
    BY DEF SquashArgs
  <2> QED
    BY <1>8, <2>1, <2>2, SquashMeans, StartsUnderstood DEF OnSquash, last, from
<1>9. ASSUME NEW file, PickFile(file) PROVE UNCHANGED run
  BY <1>9 DEF PickFile
<1>10. ASSUME NEW staged, ShowStaged(staged) PROVE UNCHANGED run
  BY <1>10 DEF ShowStaged
<1> QED
  BY <1>1, <1>2, <1>3, <1>4, <1>5, <1>6, <1>7, <1>8, <1>9, <1>10 DEF GitPanel

LEMMA CollaborationTabMeans ==
    ASSUME TypeInv, CollaborationTab
    PROVE  UNCHANGED run \/ Understood'
<1>1. ASSUME NEW clear \in BOOLEAN, OnApplyConsensusConfig(clear) PROVE Understood'
  <2> DEFINE threshold == text["threshold"]
             members == IF clear THEN "" ELSE text["members"]
             after == IF clear THEN "members" ELSE "none"
             args == ConsensusConfigArgs(threshold, members, clear)
             set == Given("--threshold", threshold) \cup Given("--members", members)
                        \cup Ticked(clear, "--clear-members")
  <2>1. threshold \in Said /\ members \in Said /\ (clear => members = "")
    BY FormsSay, SaidFacts DEF TextField
  <2>2. RunVcsThen(args, set, <<>>, after)
    BY <1>1 DEF OnApplyConsensusConfig
  <2> HIDE DEF threshold, members, after
  <2>3. args # Rejected => threshold # ""
    BY DEF ConsensusConfigArgs
  <2>4. args # Rejected => Understand(args) = FlagsAre(set, <<>>)
    BY <2>1, <2>3, ConfigMeans
  <2> HIDE DEF args, set
  <2> QED
    BY <2>2, <2>4, StartsUnderstood
<1>2. OnAddPeer => Understood'
  <2> DEFINE url == text["peer"]
             E == {"peer", "add", url}
  <2>1. "peer" \in E /\ "add" \in E /\ url \in E
    OBVIOUS
  <2> HIDE DEF E, url
  <2>2. Understand(<<"peer", "add", url>>) = FlagsAre({}, <<"add", url>>)
    BY <2>1, PlainMeans
  <2>3. AddPeerArgs(url) # Rejected => Understand(AddPeerArgs(url)) = FlagsAre({}, <<"add", url>>)
    BY <2>2 DEF AddPeerArgs
  <2> QED
    BY <2>3, StartsUnderstood DEF OnAddPeer, url
<1>3. ASSUME NEW peer, OnRemovePeer(peer) PROVE Understood'
  <2> DEFINE E == {"peer", "remove", peer}
  <2>1. "peer" \in E /\ "remove" \in E /\ peer \in E
    OBVIOUS
  <2> HIDE DEF E
  <2>2. Understand(<<"peer", "remove", peer>>) = FlagsAre({}, <<"remove", peer>>)
    BY <2>1, PlainMeans
  <2> QED
    BY <1>3, <2>2, StartsUnderstood DEF OnRemovePeer
<1>4. OnSyncNow => Understood'
  BY SyncMeans, StartsUnderstood DEF OnSyncNow
<1>5. OnProcessPendingPushes \/ OnListPendingQueue => Understood'
  <2>1. ASSUME NEW flag \in {"--process-pending", "--list-pending"}
        PROVE  Understand(<<"push", flag>>) = FlagsAre(Ticked(TRUE, flag), <<>>)
    <3>1. flag \in PushFlags
      BY DEF PushFlags
    <3>2. <<"push", flag>> = <<"push">> \o When(TRUE, <<flag>>)
      BY DEF When
    <3> QED
      BY <3>1, <3>2, PushMeans
  <2> QED
    BY <2>1, StartsUnderstood DEF OnProcessPendingPushes, OnListPendingQueue
<1>6. ASSUME NEW old \in Words, NEW epoch \in Words, NEW ttl \in Words, OnPropose(old, epoch, ttl)
      PROVE  Understood'
  <2> DEFINE reference == text["reference"]
             new == text["newOid"]
             args == ProposeArgs(reference, new, old, epoch, ttl)
             set == Proposed(reference, new, old, epoch, ttl)
  <2>1. /\ reference \in Said /\ new \in Said /\ old \in Said /\ epoch \in Said /\ ttl \in Said
        /\ ttl \o "h" \in Said
    BY FormsSay DEF TextField
  <2>2. RunVcs(args, set, <<>>)
    BY <1>6 DEF OnPropose, Proposed
  <2> HIDE DEF reference, new
  <2>3. Understand(args) = FlagsAre(set, <<>>)
    BY <2>1, ProposeMeans
  <2> HIDE DEF args, set
  <2> QED
    BY <2>2, <2>3, StartsUnderstood
<1>7. ASSUME NEW proposal \in Words, NEW yes \in BOOLEAN, OnCastVote(proposal, yes)
      PROVE  Understood'
  <2>1. proposal \in Said
    BY FormsSay
  <2> QED
    BY <1>7, <2>1, VoteMeans, StartsUnderstood DEF OnCastVote
<1>8. ASSUME NEW proposal \in Words, OnCertify(proposal) \/ OnConsensusStatus(proposal)
      PROVE  Understood'
  <2>1. proposal \in Said
    BY FormsSay
  <2> QED
    BY <1>8, <2>1, ProposalMeans, StartsUnderstood DEF OnCertify, OnConsensusStatus
<1>9. LoadCurrentConfig => UNCHANGED run
  BY DEF LoadCurrentConfig, Write
<1> QED
  BY <1>1, <1>2, <1>3, <1>4, <1>5, <1>6, <1>7, <1>8, <1>9 DEF CollaborationTab

LEMMA PeopleMean ==
    ASSUME TypeInv, People
    PROVE  UNCHANGED run \/ Understood'
<1>1. MergePanel => UNCHANGED run \/ Understood'
  BY GitIsNotVcs
  DEF MergePanel, OnStartMerge, Continue, Abort, OnResolveConflictWithSide, LoadEditor,
      PickConflict, UseForAllHunks, ChooseLine, SaveEditor, LoadInDiff,
      OnMarkConflictResolvedAdd, OnCommitMerge
<1>2. HistoryPanel => UNCHANGED run \/ Understood'
  <2>1. /\ \A texts : Write(texts) => UNCHANGED run
        /\ \A lines : SetTodo(lines) => UNCHANGED run
    BY DEF Write, SetTodo
  <2> QED
    BY <2>1, GitIsNotVcs
    DEF HistoryPanel, PickCommit, UseForReset, UseForSquash, AddToCherryPick, TypeRefs, UseReflog,
        GenerateRebaseTodo, LoadRebaseTodo, SaveRebaseTodo, OnRunRebase, OnGoOnOrAbort,
        StartInteractiveRebase, OnRunCherryPick, OnRunReset
<1>3. CliPanel => Understood'
  <2>1. ASSUME NEW typed, NEW parsed, RunCli(typed, parsed) PROVE run'.args = <<>>
    BY <2>1 DEF RunCli, RunCommand, NoRun
  <2> QED
    BY <2>1 DEF CliPanel, Understood
<1>4. TypeText => UNCHANGED run
  BY DEF TypeText, Write
<1> QED
  BY <1>1, <1>2, <1>3, <1>4, GitPanelMeans, CollaborationTabMeans DEF People

\* vcs takes every command line built from a form for what the form says,
\* whatever is written in it, and refuses what cannot be said to it: a number
\* that is none, a commit that begins with a dash (build_commit_args and the
\* others of the front end; cmdCommit, cmdRevert, cmdConsensus and the others of
\* src/main.go).
THEOREM UnderstoodHolds == DeskSpec => []Understood
<1>1. DeskInit => Understood
  <2>1. NoRun.prog = "none"
    BY DEF NoRun
  <2>2. DeskInit => run = NoRun
    BY DEF DeskInit
  <2> QED
    BY <2>1, <2>2 DEF Understood
<1>2. TypeInv /\ Understood /\ [DeskNext]_vars => Understood'
  <2> SUFFICES ASSUME TypeInv, Understood, [DeskNext]_vars PROVE Understood'
    OBVIOUS
  <2>1. CASE run' \in {run, NoRun}
    BY <2>1 DEF Understood, NoRun
  <2>2. CASE People
    BY <2>1, <2>2, PeopleMean
  <2>3. Refreshing \/ CommandEnding \/ ChangeDisk \/ UNCHANGED vars => run' \in {run, NoRun}
    BY DEF Refreshing, StartRefresh, ReadStatus, ReadRepo, FinishRefresh, CommandEnding,
           CommandEnds, ChangeDisk, vars
  <2> QED
    BY <2>1, <2>2, <2>3 DEF DeskNext
<1> QED
  BY <1>1, <1>2, TypeInvHolds, PTL DEF DeskSpec
=============================================================================
