--------------------------------- MODULE Grammar ---------------------------------
(***************************************************************************)
(* The command line (cli/grammar.rs) and what `viv` does with it (main.rs). *)
(* Parsing is two passes: lift_globals takes -q, -v, -h and --version from  *)
(* wherever they stand, and the verb's own parser reads what is left.  The  *)
(* first pass has to know which tokens the second will read as a value, and *)
(* both have to leave what follows `--` alone.                              *)
(***************************************************************************)
EXTENDS Integers, Sequences, SequencesExt, FiniteSets

CONSTANTS
  Tokens(_),   \* the tokens a user may type after a verb
  MaxTokens,   \* bound: tokens besides the verb
  Terminal     \* the values stdin_is_tty takes

VARIABLES
  argv,     \* what the user typed
  stage,    \* "lift", "verb", "decided", "exit"
  lifted,   \* Globals: the remaining tokens, the level, help, version, the verb
  opaque,   \* the separator was seen: the rest is taken as it is
  at,       \* the second pass: the next token
  opts,     \* the second pass: what the tokens said so far
  tty,      \* Streams.stdin_is_tty
  decision, \* Parsed, or a usage error
  exit      \* the handler that ran, and its exit code

grammarVars == <<argv, stage, lifted, opaque, at, opts, tty, decision, exit>>

Verbs == {"config", "manifest", "start", "status", "shell", "exec", "stop", "trim", "memory",
          "volume", "generations", "destroy", "gc", "update", "doctor"}
Globals == {"-q", "-v", "-vv", "-h", "--version"}
Nothing == "none"
FirstTokens == Verbs \cup Globals \cup {"--", "word"}

ASSUME GrammarAssumption == Terminal \subseteq BOOLEAN

Quiet == -1
Level(level, token) ==
  LET added == IF token = "-v" THEN 1 ELSE 2
  IN  CASE token = "-q" -> Quiet
        [] token \in {"-v", "-vv"} ->
             IF level < 0 THEN added ELSE IF level + added > 3 THEN 3 ELSE level + added
        [] OTHER -> level

(* takes_value: what lift_globals must not look inside *)
TakesValue(verb, flag) ==
  \/ verb = "config" /\ flag = "--manifest"
  \/ verb = "start" /\ flag \in {"--spec", "--generation"}
  \/ verb = "exec" /\ flag = "--env"
  \/ verb = "stop" /\ flag \in {"-t", "--timeout"}
  \/ verb = "generations" /\ flag \in {"--keep", "--older-than"}
  \/ verb = "memory" /\ flag = "--to"

NoOpts == [sub |-> Nothing, set |-> {}, given |-> {}, names |-> <<>>, env |-> <<>>,
           command |-> <<>>, separated |-> FALSE, pending |-> Nothing]

GrammarInit ==
  /\ argv = <<>> /\ stage = "lift" /\ at = 1 /\ opts = NoOpts /\ opaque = FALSE
  /\ lifted = [tokens |-> <<>>, level |-> 0, help |-> FALSE, version |-> FALSE,
               verb |-> Nothing, value |-> FALSE]
  /\ tty \in Terminal
  /\ decision = [kind |-> Nothing] /\ exit = [ran |-> Nothing, code |-> Nothing]
----------------------------------------------------------------------------
(* the first pass: lift_globals, one token of argv at a time *)

Keep(token) == lifted' = [lifted EXCEPT !.tokens = Append(@, token), !.value = FALSE]

\* Mutant: a global option is lifted out of the guest's command as well.
LiftPastSeparator(token) ==
  /\ IF token \in Globals /\ ~ lifted.value
       THEN lifted' = [lifted EXCEPT !.level = Level(@, token), !.help = @ \/ token = "-h",
                                     !.version = @ \/ token = "--version"]
       ELSE LET verb == IF lifted.verb = Nothing THEN token ELSE lifted.verb
            IN  lifted' = [lifted EXCEPT !.tokens = Append(@, token), !.verb = verb,
                                         !.value = ~ lifted.value /\ TakesValue(verb, token)]
  /\ UNCHANGED opaque
LiftToken(token) ==
  CASE opaque \/ lifted.value -> Keep(token) /\ UNCHANGED opaque
    [] ~ (opaque \/ lifted.value) /\ token = "--" -> Keep(token) /\ opaque' = TRUE
    [] ~ (opaque \/ lifted.value) /\ token \in Globals ->
         /\ lifted' = [lifted EXCEPT !.level = Level(@, token), !.help = @ \/ token = "-h",
                                     !.version = @ \/ token = "--version"]
         /\ UNCHANGED opaque
    [] OTHER ->
         LET verb == IF lifted.verb = Nothing THEN token ELSE lifted.verb
         IN  /\ lifted' = [lifted EXCEPT !.tokens = Append(@, token), !.verb = verb,
                                         !.value = TakesValue(verb, token)]
             /\ UNCHANGED opaque

(* the user types the verb, with a global before it or not, and then options *)
Type(token) ==
  /\ stage = "lift" /\ Len(argv) <= MaxTokens
  /\ argv' = Append(argv, token)
  /\ LiftToken(token)
  /\ UNCHANGED <<stage, at, opts, tty, decision, exit>>

Decide(kind) == stage' = "decided" /\ decision' = kind
Usage == Decide([kind |-> "usage"])

(* parse: help, then version, win over everything but a separator; the verb *)
EndOfArgv ==
  /\ stage = "lift"
  /\ CASE lifted.help -> Decide([kind |-> "help", verb |-> lifted.verb])
       [] ~ lifted.help /\ lifted.version -> Decide([kind |-> "version"])
       [] ~ lifted.help /\ ~ lifted.version /\ lifted.tokens = <<>> -> Usage
       [] OTHER -> IF Head(lifted.tokens) \in Verbs
                     THEN stage' = "verb" /\ UNCHANGED decision
                     ELSE Usage
  /\ at' = 2
  /\ UNCHANGED <<argv, lifted, opaque, opts, tty, exit>>
----------------------------------------------------------------------------
(* the second pass: the verb's parser *)

Verb == Head(lifted.tokens)

(* the long spelling of an option *)
Long(verb, token) ==
  CASE token = "-t" -> IF verb = "stop" THEN "--timeout" ELSE "--tty"
    [] token = "-T" -> "--no-tty"
    [] token = "-f" -> "--yes"
    [] token = "-n" -> "--dry-run"
    [] token = "-g" -> "--global"
    [] OTHER -> token

Subs(verb) ==
  CASE verb = "config" -> {"eval", "sources"}
    [] verb = "manifest" -> {"list", "show"}
    [] verb = "memory" -> {"trim"}
    [] verb = "volume" -> {"list", "trim", "prune"}
    [] verb = "generations" -> {"list", "activate", "rollback", "prune"}
    [] OTHER -> {}
NeedsSub == {"manifest", "memory", "volume", "generations"}

(* the options that stand alone, per verb and subcommand *)
Switches(verb, sub) ==
  CASE verb = "start" -> {"--rebuild", "--no-rebuild", "--attach", "--json"}
    [] verb = "status" -> {"--global", "--json"}
    [] verb = "shell" -> {}
    [] verb = "exec" -> {"--tty", "--no-tty"}
    [] verb = "stop" -> {"--force", "--all", "--json"}
    [] verb = "volume" /\ sub = "prune" -> {"--dry-run", "--yes", "--json"}
    [] verb = "destroy" -> {"--yes", "--keep-volumes", "--json"}
    [] verb = "doctor" -> {"--strict", "--list", "--online", "--json"}
    [] OTHER -> {"--json"}

(* the options that read the next token, and what they accept there *)
Numbers == {"0", "7"}
Accepts(verb, sub, flag, token) ==
  CASE verb = "config" /\ sub = Nothing /\ flag = "--manifest" -> TRUE
    [] verb = "start" /\ flag = "--generation" -> token \in Numbers
    [] verb = "exec" /\ flag = "--env" -> token \notin {"=v", ""}
    [] verb = "stop" /\ flag = "--timeout" -> token \in Numbers \cup {"-1"}
    [] verb = "memory" /\ sub = "trim" /\ flag = "--to" -> token \in Numbers \ {"0"}
    [] verb = "generations" /\ sub = "prune" /\ flag = "--keep" -> token \in Numbers
    [] verb = "generations" /\ sub = "prune" /\ flag = "--older-than" -> token = "7d"
    [] OTHER -> FALSE
Valued(verb, sub) ==
  CASE verb = "config" /\ sub = Nothing -> {"--manifest"}
    [] verb = "start" -> {"--generation"}
    [] verb = "exec" -> {"--env"}
    [] verb = "stop" -> {"--timeout"}
    [] verb = "memory" -> {"--to"}
    [] verb = "generations" /\ sub = "prune" -> {"--keep", "--older-than"}
    [] OTHER -> {}

(* positional names: how many, and which words may be one *)
Words == {"word", "0", "7", "7d", "=v", "/abs", ""} \cup Verbs \cup {"list", "show", "prune"}
MaxNames(verb, sub) ==
  CASE verb = "manifest" /\ sub = "show" -> 1
    [] verb = "volume" /\ sub = "trim" -> 1
    [] verb = "generations" /\ sub = "activate" -> 1
    [] verb = "update" -> MaxTokens
    [] OTHER -> 0
NameOk(verb, token) == verb = "generations" => token \in Numbers

Goes(next) == opts' = next /\ at' = at + 1 /\ UNCHANGED <<stage, decision>>
Refuses == Usage /\ UNCHANGED <<at, opts>>

(* the hidden `start --spec <absolute>` is exactly that *)
SpecForm ==
  /\ Verb = "start" /\ Len(lifted.tokens) >= 2 /\ lifted.tokens[2] = "--spec"

ParseSpec ==
  /\ stage = "verb" /\ SpecForm
  /\ IF Len(lifted.tokens) = 3 /\ lifted.tokens[3] = "/abs"
       THEN Decide([kind |-> "start-spec"])
       ELSE Usage
  /\ UNCHANGED <<argv, lifted, opaque, at, opts, tty, exit>>

IsSub(token) == at = 2 /\ token \in Subs(Verb)

ParseToken ==
  /\ stage = "verb" /\ ~ SpecForm /\ at <= Len(lifted.tokens)
  /\ LET raw == lifted.tokens[at]
         token == Long(Verb, raw)
     IN  CASE opts.pending # Nothing ->
                IF Accepts(Verb, opts.sub, opts.pending, raw)
                  THEN Goes([opts EXCEPT !.pending = Nothing,
                                         !.given = {g \in @ : g[1] # opts.pending \/ Verb = "exec"}
                                                     \cup {<<opts.pending, raw>>},
                                         !.env = IF Verb = "exec" THEN Append(@, raw) ELSE @])
                  ELSE Refuses
           [] opts.pending = Nothing /\ Verb = "exec" /\ raw = "--" ->
                /\ opts' = [opts EXCEPT !.separated = TRUE,
                              !.command = SubSeq(lifted.tokens, at + 1, Len(lifted.tokens))]
                /\ at' = Len(lifted.tokens) + 1
                /\ UNCHANGED <<stage, decision>>
           [] opts.pending = Nothing /\ IsSub(raw) -> Goes([opts EXCEPT !.sub = raw])
           [] OTHER ->
                CASE at = 2 /\ Verb \in NeedsSub -> Refuses
                  [] token \in Switches(Verb, opts.sub) ->
                       Goes([opts EXCEPT !.set = @ \cup {token}])
                  [] token \in Valued(Verb, opts.sub) -> Goes([opts EXCEPT !.pending = token])
                  [] raw \in Words /\ NameOk(Verb, raw)
                       /\ Len(opts.names) < MaxNames(Verb, opts.sub) ->
                       Goes([opts EXCEPT !.names =
                               IF Verb = "update" /\ Contains(@, raw) THEN @ ELSE Append(@, raw)])
                  [] OTHER -> Refuses
  /\ UNCHANGED <<argv, lifted, opaque, tty, exit>>

(* what the options may not say together *)
Contradicts(verb, o) ==
  CASE verb = "start" ->
         \/ {"--rebuild", "--no-rebuild"} \subseteq o.set
         \/ (o.given # {} /\ o.set \cap {"--rebuild", "--no-rebuild"} # {})
         \/ {"--attach", "--json"} \subseteq o.set
    [] verb = "exec" -> {"--tty", "--no-tty"} \subseteq o.set
    [] verb = "stop" -> "--force" \in o.set /\ \E g \in o.given : g[2] # "0"
    [] verb = "generations" -> o.sub = "prune" /\ Cardinality(o.given) # 1
    [] OTHER -> FALSE

(* what is missing: a subcommand, a value, a name, a command, a terminal *)
Lacks(verb, o, terminal) ==
  \/ o.pending # Nothing
  \/ verb \in NeedsSub /\ o.sub = Nothing
  \/ o.sub \in {"show", "activate"} /\ o.names = <<>>
  \/ verb = "exec" /\ (o.command = <<>> \/ ("--tty" \in o.set /\ ~ terminal))

(* a destructive verb is not run unconfirmed where nobody can be asked *)
Confirmed(verb, o, terminal) ==
  \/ terminal
  \/ "--yes" \in o.set
  \/ verb = "volume" /\ (o.sub # "prune" \/ "--dry-run" \in o.set)
  \/ verb \notin {"destroy", "volume"}

Conclude ==
  /\ stage = "verb" /\ ~ SpecForm /\ at > Len(lifted.tokens)
  /\ IF Contradicts(Verb, opts) \/ Lacks(Verb, opts, tty) \/ ~ Confirmed(Verb, opts, tty)
       THEN Usage
       ELSE Decide([kind |-> "run", verb |-> Verb, sub |-> opts.sub])
  /\ UNCHANGED <<argv, lifted, opaque, at, opts, tty, exit>>
----------------------------------------------------------------------------
(* main: which handler runs, and the exit code *)

Handler(d) ==
  CASE d.kind # "run" -> d.kind
    [] d.kind = "run" /\ d.verb = "doctor" -> "doctor"
    [] d.kind = "run" /\ (d.verb \in {"status", "stop", "destroy", "trim", "memory"}
                           \/ (d.verb = "volume" /\ d.sub = "trim")) -> "agent"
    [] d.kind = "run" /\ d.verb = "start" /\ "--attach" \in opts.set -> "attached"
    [] d.kind = "run" /\ d.verb \in {"exec", "shell"} -> "session"
    [] OTHER -> "run"

(* Failure::code and ExitKind: a failure of viv's own is one of these; a   *)
(* session exits as its guest process did, and an attached start as the    *)
(* signal that ended it, an interrupt excepted (signal_exit).              *)
Failures == {64, 65, 69, 70, 74, 75, 77, 78}
Codes(handler) ==
  CASE handler \in {"help", "version"} -> {0}
    [] handler = "usage" -> {64}
    [] handler = "doctor" -> {0, 1} \cup Failures
    [] handler = "session" -> {0, 1, 129, 255} \cup Failures
    [] handler = "attached" -> {0, 129} \cup Failures
    [] OTHER -> {0} \cup Failures

(* context: without roots or a working directory nothing runs *)
Dispatch(code) ==
  /\ stage = "decided" /\ stage' = "exit"
  /\ code \in Codes(Handler(decision))
  /\ exit' = [ran |-> Handler(decision), code |-> code]
  /\ UNCHANGED <<argv, lifted, opaque, at, opts, tty, decision>>

GrammarNext ==
  \/ \E token \in (IF lifted.verb = Nothing THEN FirstTokens ELSE Tokens(lifted.verb)) : Type(token)
  \/ EndOfArgv \/ ParseSpec \/ ParseToken \/ Conclude
  \/ \E code \in {0, 1, 129, 255} \cup Failures : Dispatch(code)

GrammarSpec == GrammarInit /\ [][GrammarNext]_grammarVars
----------------------------------------------------------------------------
GrammarTypeOK ==
  /\ stage \in {"lift", "verb", "decided", "exit"}
  /\ lifted.level \in -1 .. 3
  /\ ToSet(lifted.tokens) \subseteq ToSet(argv)
  /\ at \in 1 .. Len(lifted.tokens) + 2
  /\ opts.set \subseteq {"--rebuild", "--no-rebuild", "--attach", "--json", "--global", "--tty",
                         "--no-tty", "--force", "--all", "--dry-run", "--yes", "--keep-volumes",
                         "--strict", "--list", "--online"}
  /\ decision.kind \in {Nothing, "usage", "help", "version", "start-spec", "run"}
  /\ exit.ran # Nothing => exit.code \in 0 .. 255

Ran(verb) == decision.kind = "run" /\ decision.verb = verb

(* level is what the tokens add up to, one after the other *)
LevelAfter(tokens, level) ==
  \E run \in [0 .. Len(tokens) -> Quiet .. 3] :
    /\ run[0] = 0 /\ run[Len(tokens)] = level
    /\ \A k \in DOMAIN tokens : run[k] = Level(run[k - 1], tokens[k])

(* The command an `exec` runs in the guest is, token for token, what the   *)
(* user typed after a `--`, and the options typed there changed nothing of *)
(* viv's own: neither pass looks inside (lift_globals, exec).              *)
CommandIsVerbatim ==
  Ran("exec") =>
    \E i \in DOMAIN argv :
      /\ argv[i] = "--"
      /\ opts.command = SubSeq(argv, i + 1, Len(argv))
      /\ opts.env = <<>> => LevelAfter(SubSeq(argv, 1, i - 1), lifted.level)

(* A value an option was given is the token the user typed right after     *)
(* that option, even where it is spelled like a global option: what the    *)
(* first pass skips is exactly what the second reads (takes_value).        *)
ValuesStayValues ==
  decision.kind = "run" =>
    \A g \in opts.given :
      \E i \in 1 .. Len(argv) - 1 : Long(decision.verb, argv[i]) = g[1] /\ argv[i + 1] = g[2]

(* Off a terminal nothing is deleted unless the user typed the consent:    *)
(* the token, or that of a preview, stands in argv (destroy, volume prune). *)
DestructiveIsConfirmed ==
  (~ tty /\ (Ran("destroy") \/ (Ran("volume") /\ decision.sub = "prune"))) =>
    ToSet(argv) \cap {"--yes", "-f", "--dry-run", "-n"} # {}

(* A user who asks for help, anywhere but in a value or in the guest's     *)
(* command, runs nothing: no other token, known or not, changes that.      *)
HelpRunsNothing ==
  \A i \in DOMAIN argv :
    (/\ argv[i] = "-h" /\ stage = "exit" /\ "--" \notin ToSet(SubSeq(argv, 1, i - 1))
     /\ (i = 1 \/ argv[i - 1] \notin {"--manifest", "--spec", "--generation", "--env", "-t",
                                      "--timeout", "--keep", "--older-than", "--to"})) =>
      exit = [ran |-> "help", code |-> 0]

(* The promises of the command line at every state: the four above.        *)
GrammarSafe ==
  /\ GrammarTypeOK
  /\ CommandIsVerbatim /\ ValuesStayValues /\ DestructiveIsConfirmed /\ HelpRunsNothing
=============================================================================
