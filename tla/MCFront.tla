------------------------------ MODULE MCFront ------------------------------
(***************************************************************************)
(* What stands before and around a launch, for TLC: the command line, the  *)
(* launch's declared sources, the command its daemons run with, and the    *)
(* verbs over every sandbox of the host.  They share no state, so a        *)
(* behaviour is one of one part: focus says which, and the others rest in  *)
(* an initial state.                                                       *)
(***************************************************************************)
EXTENDS Launch, Confinement, Fleet, Grammar, TLC

VARIABLE focus

frontVars == <<focus, launchVars, confVars, fleetVars, grammarVars>>

(* Launch: two workspaces, a mount and a credential socket; links may lead *)
(* into a workspace, a session directory or above what the guest owns.     *)
ConstWorkspaces == {<<"h", "a">>, <<"h", "b">>}
ConstMounts     == {<<"h", "m">>}
ConstAgents     == {<<"h", "s">>}
ConstElsewhere  == {<<"h", "b", "c">>, <<"tmp", "x">>, <<"nix">>}
ConstSession    == {<<"tmp">>}
ConstGuest      == {<<"nix", "store">>}
\* An older build without the second workspace and the mount, which mounted
\* what is now part of a workspace.
ConstHistory    == {[shares |-> {<<"h", "a">>, <<"h", "b", "c">>}, agents |-> ConstAgents]}

\* The kinds of object worth starting from, path by path, with at most one link
\* among them: a second is one replacement away.
KindsAt(p) ==
    CASE p = <<"h", "a">> -> {"dir", "link"}
      [] p = <<"h", "b">> -> {"dir"}
      [] p = <<"h", "m">> -> {"dir", "file", "through"}
      [] p = <<"h", "s">> -> {"socket"}
      [] OTHER -> {"dir"}
LaunchStart ==
    \E a \in Objects(<<"h", "a">>), b \in Objects(<<"h", "b">>),
       m \in Objects(<<"h", "m">>), s \in Objects(<<"h", "s">>) :
        /\ fs = [p \in Paths |-> CASE p = <<"h", "a">> -> a [] p = <<"h", "b">> -> b
                                   [] p = <<"h", "m">> -> m [] p = <<"h", "s">> -> s
                                   [] OTHER -> [kind |-> "dir", to |-> p]]
        /\ \A p \in Paths : fs[p].kind \in KindsAt(p)
        /\ a.kind = "link" => m.kind = "dir"
LaunchRest == fs = [p \in Paths |-> [kind |-> "none", to |-> p]]

(* Confinement: extra arguments that repeat a fixed one or a translation,  *)
(* or look like a staging step, and names with tokens, signs and percent   *)
(* signs in every position that matters.  The ids vary with everything     *)
(* but the names and the entries, which vary with one set of ids.          *)
ConstExtras == {<<>>, <<<<"--xattr", "">>>>, <<<<"--sandbox", "none">>>>,
                <<<<"--log-level", "debug">>, <<"--rlimit-nofile", "0">>>>,
                <<<<"stage-share", "">>>>, <<<<"--cache", "never">>>>,
                <<<<"--translate-uid", [how |-> "map", from |-> 0, to |-> 1, count |-> 2]>>>>}
ConstTexts  == {<<"a", "@", "A", "@">>, <<"@", "a", "@", "A", "@">>, <<"@", "@", "A">>,
                <<"a", "%">>, <<"a", "%", "2", "5">>, <<"a", ".">>, <<"@", "A", "a", "@">>}
ConfRest ==
    /\ budget = [limit |-> 609, pool |-> 0]
    /\ ids = [flag \in TranslateFlags |-> [guest |-> 0, host |-> 0]]
    /\ share = [kind |-> "dir", readOnly |-> FALSE, cache |-> "auto", extra |-> <<>>,
                name |-> <<"a", ".">>, entry |-> {}]
    /\ setpcap = TRUE
Share(kind, readOnly, cache, extra, name, entry) ==
    [kind |-> kind, readOnly |-> readOnly, cache |-> cache, extra |-> extra,
     name |-> name, entry |-> entry]
ConfStart ==
    \E kind \in {"dir", "file", "tree"}, extra \in Extras :
        \/ /\ ids \in [TranslateFlags -> [guest : 0..IdMax, host : 0..IdMax]]
           /\ \E readOnly \in BOOLEAN, cache \in Modes :
                share = Share(kind, readOnly, cache, extra, <<"a", "%">>,
                              IF kind = "file" THEN {EncodeEntry(<<"a", "%">>)} ELSE {})
        \/ /\ ids = [flag \in TranslateFlags |-> [guest |-> 1, host |-> 0]]
           /\ \E name \in Texts, entry \in Entries :
                share = Share(kind, FALSE, "auto", extra, name, entry)

(* Fleet: two sandboxes of the library and one whose manifest is gone.     *)
ConstIndex == <<"a", "b">>
Vms(phases, charge, answers, obeys) ==
    [phase : phases, boot : {1}, charge : {charge}, answers : answers, obeys : obeys]
FleetStart ==
    vm \in [a : Vms({"running", "failed"}, Ceiling, {Questions}, BOOLEAN),
            b : Vms({"running", "absent", "starting"}, 1, {Questions, {}}, {TRUE}),
            c : Vms({"running", "built"}, Ceiling, {Questions, {"state"}}, {TRUE})]
FleetRest ==
    /\ listable = TRUE
    /\ vm = [t \in Members |-> [phase |-> "absent", boot |-> 1, charge |-> 1,
                                answers |-> Questions, obeys |-> TRUE]]

(* Grammar: for every verb the tokens that mean something to it.           *)
ConstTokens(v) == {"-q", "-h"} \cup
    CASE v = "exec" -> {"--", "--env", "-t", "-T", "word", "=v"}
      [] v = "start" -> {"--rebuild", "--no-rebuild", "--attach", "--generation", "--spec",
                            "/abs", "7", "--json"}
      [] v = "stop" -> {"--force", "-t", "0", "-1", "7", "--"}
      [] v = "volume" -> {"list", "trim", "prune", "-f", "-n", "word"}
      [] v = "generations" -> {"list", "activate", "prune", "--keep", "--older-than", "7", "7d"}
      [] v = "memory" -> {"trim", "--to", "0", "7"}
      [] v = "config" -> {"eval", "--manifest", "word"}
      [] v = "manifest" -> {"list", "show", "word"}
      [] v = "destroy" -> {"-f", "--keep-volumes", "word"}
      [] v = "update" -> {"word", "7", "--"}
      [] v = "doctor" -> {"--strict", "--online"}
      [] v = "status" -> {"-g", "--json"}
      [] OTHER -> {"word"}

FrontInit ==
    /\ focus \in {"launch", "confinement", "fleet", "grammar"}
    /\ (IF focus = "launch" THEN LaunchStart ELSE LaunchRest) /\ LaunchInit
    /\ (IF focus = "confinement" THEN ConfStart ELSE ConfRest) /\ ConfInit
    /\ (IF focus = "fleet" THEN FleetStart ELSE FleetRest) /\ FleetInit
    /\ GrammarInit /\ (focus = "grammar" \/ tty)

FrontNext ==
    \/ focus = "launch"      /\ LaunchNext  /\ UNCHANGED <<focus, confVars, fleetVars, grammarVars>>
    \/ focus = "confinement" /\ ConfNext    /\ UNCHANGED <<focus, launchVars, fleetVars, grammarVars>>
    \/ focus = "fleet"       /\ FleetNext   /\ UNCHANGED <<focus, launchVars, confVars, grammarVars>>
    \/ focus = "grammar"     /\ GrammarNext /\ UNCHANGED <<focus, launchVars, confVars, fleetVars>>

FrontSpec == FrontInit /\ [][FrontNext]_frontVars
=============================================================================
