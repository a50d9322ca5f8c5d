----------------------------- MODULE MCGuiDesk -----------------------------
(* Instance of GuiDesk for TLC: a repository at rest, one in the middle of  *)
(* a merge, one in the middle of a rebase, one without a commit and one git *)
(* cannot read.                                                             *)
EXTENDS GuiDesk

CONSTANTS Resting, Merging, Rebasing, Unborn, Broken

\* "ab" without its first character is "b".
Cut == [ab |-> "b", b |-> ""]

Decimals == ("0.666" :> "0.67") @@ ("0.00" :> "0.00")

Keys == [peer |-> {"http://p"}, squashLast |-> {"two"}, onto |-> {"dev"}, members |-> {"me"}]

Lines == {<<<<"vcs">>, <<"status">>>>,
          <<<<"log">>, <<"\\", " ", "\"", " ">>>>,
          <<<<"commit">>, <<>>, <<"-m">>, <<"it", "'", "s", " ", "\\", "!">>, <<>>>>,
          <<<<"daemon">>>>}

Picks == {<<"v1", "c1">>}

Numbers ==
    [f \in {"--last", "--limit", "--rounds", "--epoch", "--ttl", "--threshold"} |->
        CASE f = "--ttl" -> {"1h"} [] f = "--threshold" -> {"0.67", "0.00"} [] OTHER -> {"1", "2"}]

Dashes ==
    UNION {FlagSet(name).switches \cup FlagSet(name).valued : name \in WithFlags} \cup {"-x"}

Lists == {<<"drop", "#">>, <<"oops">>}

Quiet == [ok |-> TRUE, threshold |-> "0.666", members |-> "me,you", peers |-> {"http://p"}]

AtRest ==
    [loads |-> TRUE, branch |-> "main", commits |-> <<"c2", "c1">>,
     status |-> <<[x |-> " ", y |-> "M", file |-> "ab"], [x |-> "M", y |-> " ", file |-> "b"]>>,
     doing |-> {}, conflicts |-> <<>>, content |-> [f \in File |-> <<>>],
     missing |-> {}, todo |-> <<>>, reflog |-> {"HEAD@{0}"}, gossip |-> Quiet]

\* The second file has a line that looks like a marker.
InMerge ==
    [AtRest EXCEPT
        !.status = <<[x |-> "U", y |-> "U", file |-> "ab"], [x |-> "U", y |-> "U", file |-> "b"]>>,
        !.doing = {"merge"}, !.conflicts = <<"ab", "b">>,
        !.content = [ab |-> <<Plain(<<"p">>), Conflict(<<"o">>, <<"t", "u">>)>>,
                     b |-> <<Conflict(<<"o">>, <<"t">>), Plain(<<Start>>)>>]]

InRebase ==
    [AtRest EXCEPT
        !.branch = "HEAD", !.commits = <<"c1">>, !.doing = {"rebase", "cherry-pick"},
        !.status = <<[x |-> "A", y |-> "A", file |-> "b"], [x |-> "U", y |-> "D", file |-> "ab"]>>, !.conflicts = <<"b", "ab">>,
        !.content = [ab |-> <<>>, b |-> <<Conflict(<<"o", "n">>, <<"t">>)>>],
        !.missing = {"ab"},
        !.todo = <<"pick">>]

NoCommit ==
    [AtRest EXCEPT !.commits = <<>>, !.status = <<>>, !.reflog = {},
                   !.gossip = [ok |-> FALSE, threshold |-> "0.00", members |-> "", peers |-> {}]]

Unreadable == [AtRest EXCEPT !.loads = FALSE]

Worlds == (IF Resting THEN {AtRest} ELSE {}) \cup (IF Merging THEN {InMerge} ELSE {})
              \cup (IF Rebasing THEN {InRebase} ELSE {}) \cup (IF Unborn THEN {NoCommit} ELSE {})
              \cup (IF Broken THEN {Unreadable} ELSE {})
=============================================================================
