------------------------------ MODULE GuiText ------------------------------
(***************************************************************************)
(* The texts the front end takes apart and puts together                   *)
(* (src/gui/src/main.rs): the lines of git status, a file with conflicts,  *)
(* the command line of the bottom panel and the todo list of a rebase.     *)
(*                                                                         *)
(* Words, file names and the lines of a file are opaque strings, "" is the *)
(* blank one, and a character is told apart only where the code looks at   *)
(* it.  Quoted names and renames in git status, and diff3 conflicts, are   *)
(* left out.                                                               *)
(***************************************************************************)
EXTENDS Integers, SequencesExt

CONSTANTS
    File,   \* names of files
    Rest    \* Rest[f]: the name f without its first character

ASSUME RestAssumption == Rest \in [File -> File \cup {""}]

-----------------------------------------------------------------------------
(* git status --short: two columns, the name in column 3.                  *)

StatusLine == [x : STRING, y : STRING, file : File]

\* run_git trims what git wrote, so the first line loses a blank column and
\* all that follows is read one column too far to the left.
RunGitTrim(lines) ==
    IF lines # <<>> /\ Head(lines).x = " "
    THEN <<[x |-> Head(lines).y, y |-> " ", file |-> Rest[Head(lines).file]]>>
             \o Tail(lines)
    ELSE lines

\* The paths of parse_status_entries, which drops a line without one.
ParseStatusEntries(lines) ==
    FlattenSeq([i \in DOMAIN lines |->
        IF lines[i].file = "" THEN <<>> ELSE <<lines[i].file>>])

-----------------------------------------------------------------------------
(* A file with conflicts.                                                  *)

\* Seven of these characters each; no other line begins with them.
Start == "<<<"
Middle == "==="
End == ">>>"

\* What git leaves in a file: lines both sides have, and conflicts.
Plain(lines) == [kind |-> "plain", lines |-> lines]
Conflict(ours, theirs) == [kind |-> "conflict", ours |-> ours, theirs |-> theirs]

BlockLines(b) ==
    IF b.kind = "plain" THEN b.lines
    ELSE <<Start>> \o b.ours \o <<Middle>> \o b.theirs \o <<End>>

FileLines(blocks) == FlattenSeq([i \in DOMAIN blocks |-> BlockLines(blocks[i])])

\* The file as one of the two sides has it.
Version(blocks, side) ==
    FlattenSeq([i \in DOMAIN blocks |->
        IF blocks[i].kind = "plain" THEN blocks[i].lines
        ELSE IF side = "ours" THEN blocks[i].ours ELSE blocks[i].theirs])

\* No line of the two sides looks like a marker.
NoMarkers(lines) == \A i \in DOMAIN lines : lines[i] \notin {Start, Middle, End}

Unambiguous(blocks) ==
    NoMarkers(Version(blocks, "ours")) /\ NoMarkers(Version(blocks, "theirs"))

\* A hunk of the editor, with a side chosen for every line: ours, as far as
\* there is one.
Hunk(ours, theirs) ==
    LET lines == IF Len(ours) > Len(theirs) THEN Len(ours) ELSE Len(theirs)
    IN  [kind |-> "hunk", ours |-> ours, theirs |-> theirs,
         choices |-> [i \in 1..lines |-> IF i <= Len(ours) THEN "ours" ELSE "theirs"]]

Flush(plain) == IF plain = <<>> THEN <<>> ELSE <<Plain(plain)>>

\* Mutant of TakeLine: the sides of a hunk are swapped.
TakeLineSwapped(s, line) ==
    CASE line = Start ->
            [in |-> "ours", done |-> s.done \o Flush(s.plain), plain |-> <<>>,
             ours |-> <<>>, theirs |-> <<>>]
      [] s.in = "ours" /\ line = Middle -> [s EXCEPT !.in = "theirs"]
      [] s.in = "theirs" /\ line = End ->
            [s EXCEPT !.in = "plain", !.done = Append(@, Hunk(s.theirs, s.ours))]
      [] OTHER -> [s EXCEPT ![s.in] = Append(@, line)]

\* One line of the loops of parse_conflict_sections.
TakeLine(s, line) ==
    CASE s.in = "plain" /\ line = Start ->
            [in |-> "ours", done |-> s.done \o Flush(s.plain), plain |-> <<>>,
             ours |-> <<>>, theirs |-> <<>>]
      [] s.in = "ours" /\ line = Middle -> [s EXCEPT !.in = "theirs"]
      [] s.in = "theirs" /\ line = End ->
            [s EXCEPT !.in = "plain", !.done = Append(@, Hunk(s.ours, s.theirs))]
      [] OTHER -> [s EXCEPT ![s.in] = Append(@, line)]

\* The sections, or an error if a marker is missing.
ParseConflictSections(lines) ==
    LET s == FoldLeft(TakeLine, [in |-> "plain", done |-> <<>>, plain |-> <<>>,
                                 ours |-> <<>>, theirs |-> <<>>], lines)
    IN  [ok |-> s.in = "plain", sections |-> s.done \o Flush(s.plain)]

\* The chosen lines of a hunk; the chosen side may have no such line.
Chosen(hunk) ==
    FlattenSeq([i \in DOMAIN hunk.choices |->
        LET side == hunk[hunk.choices[i]]
        IN  IF i \in DOMAIN side THEN <<side[i]>> ELSE <<>>])

ComposeConflictEditorOutput(sections) ==
    FlattenSeq([i \in DOMAIN sections |->
        IF sections[i].kind = "plain" THEN sections[i].lines ELSE Chosen(sections[i])])

ApplyConflictChoiceToAllHunks(sections, side) ==
    [i \in DOMAIN sections |->
        IF sections[i].kind = "plain" THEN sections[i]
        ELSE [sections[i] EXCEPT !.choices = [j \in DOMAIN @ |-> side]]]

-----------------------------------------------------------------------------
(* The command line.  A character is one of the four the code looks at, or *)
(* a run of others.                                                        *)

Blank == " "
Single == "'"
Double == "\""
Escape == "\\"

\* What is written in quotation marks is text (no prover has a rule for it).
ASSUME LiteralAssumption ==
    {"", "2", "pick", Start, Middle, End, Blank, Single, Double, Escape} \subseteq STRING

\* Mutant of TakeCharacter: a backslash escapes between single quotes, too.
TakeCharacterEscape(s, ch) ==
    CASE s.escape -> [s EXCEPT !.word = Append(@, ch), !.escape = FALSE]
      [] ~s.escape /\ ch = Escape -> [s EXCEPT !.escape = TRUE]
      [] ~s.escape /\ ch = Single /\ s.quote # Double ->
            [s EXCEPT !.quote = IF @ = Single THEN Blank ELSE Single]
      [] ~s.escape /\ ch = Double /\ s.quote # Single ->
            [s EXCEPT !.quote = IF @ = Double THEN Blank ELSE Double]
      [] ~s.escape /\ ch = Blank /\ s.quote = Blank ->
            [s EXCEPT !.word = <<>>, !.done = IF s.word = <<>> THEN @ ELSE Append(@, s.word)]
      [] OTHER -> [s EXCEPT !.word = Append(@, ch)]

\* quote is the quotation mark the character is inside of, or Blank.
TakeCharacter(s, ch) ==
    CASE s.escape -> [s EXCEPT !.word = Append(@, ch), !.escape = FALSE]
      [] ~s.escape /\ ch = Escape /\ s.quote # Single -> [s EXCEPT !.escape = TRUE]
      [] ~s.escape /\ ch = Single /\ s.quote # Double ->
            [s EXCEPT !.quote = IF @ = Single THEN Blank ELSE Single]
      [] ~s.escape /\ ch = Double /\ s.quote # Single ->
            [s EXCEPT !.quote = IF @ = Double THEN Blank ELSE Double]
      [] ~s.escape /\ ch = Blank /\ s.quote = Blank ->
            [s EXCEPT !.word = <<>>, !.done = IF s.word = <<>> THEN @ ELSE Append(@, s.word)]
      [] OTHER -> [s EXCEPT !.word = Append(@, ch)]

\* A word is the sequence of its characters.
ParseCliTokens(text) ==
    LET s == FoldLeft(TakeCharacter, [done |-> <<>>, word |-> <<>>, quote |-> Blank,
                                      escape |-> FALSE], text)
    IN  [ok |-> ~s.escape /\ s.quote = Blank,
         words |-> IF s.word = <<>> THEN s.done ELSE Append(s.done, s.word)]

\* How a person may write a word for the command line.
Quoted(word, quote) ==
    CASE quote = Single -> <<Single>> \o word \o <<Single>>
      [] quote = Double ->
            <<Double>> \o FlattenSeq([i \in DOMAIN word |->
                IF word[i] \in {Double, Escape} THEN <<Escape, word[i]>>
                ELSE <<word[i]>>]) \o <<Double>>
      [] quote = Blank ->
            FlattenSeq([i \in DOMAIN word |->
                IF word[i] \in {Blank, Single, Double, Escape} THEN <<Escape, word[i]>>
                ELSE <<word[i]>>])

\* Nothing can be said between single quotes but what it says, and nothing at
\* all without quotation marks.
CanQuote(word, quote) ==
    /\ quote = Single => \A i \in DOMAIN word : word[i] # Single
    /\ quote = Blank => word # <<>>

Typed(words, quote) ==
    FlattenSeq([i \in DOMAIN words |-> <<Blank>> \o Quoted(words[i], quote)])

\* Without the blanks around it, one that follows a backslash included.
Trim(text) ==
    LET inner == {i \in DOMAIN text : text[i] # Blank}
    IN  IF inner = {} THEN <<>> ELSE SubSeq(text, Min(inner), Max(inner))

\* The words that are not empty.
NotEmpty(words) ==
    FlattenSeq([i \in DOMAIN words |-> IF words[i] = <<>> THEN <<>> ELSE <<words[i]>>])

AllowedVcsCommands ==
    {"help", "init", "status", "log", "branch", "checkout", "stage", "unstage", "commit",
     "amend", "revert", "push", "pull", "squash", "peer", "op", "sync", "daemon",
     "consensus"}

-----------------------------------------------------------------------------
(* The todo list of an interactive rebase: the first word of every line,   *)
(* "#" for a comment.                                                      *)

TodoCommands ==
    {"pick", "reword", "edit", "squash", "fixup", "drop", "break", "exec", "label",
     "reset", "merge", "noop"}

ValidateRebaseTodo(todo) ==
    /\ \A i \in DOMAIN todo : todo[i] \in TodoCommands \cup {"", "#"}
    /\ \E i \in DOMAIN todo : todo[i] \in TodoCommands
=============================================================================
