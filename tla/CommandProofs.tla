---------------------------- MODULE CommandProofs ----------------------------
(***************************************************************************)
(* Theorems of the two ends of a launch: what is read from the command     *)
(* line (Grammar), for command lines of any length, and the command a      *)
(* share's daemon is started with (Confinement), for every record, every   *)
(* sequence of extra arguments and file names of any length.               *)
(***************************************************************************)
EXTENDS Grammar, Confinement, SequenceTheorems, FiniteSetTheorems, WellFoundedInduction, TLAPS

\* A set of naturals that is not empty has a least one: what the proofs over
\* sequences use for induction
LEMMA Least == ASSUME NEW T \in SUBSET Nat, T # {} PROVE \E m \in T : \A n \in T : m <= n
<1> DEFINE R == OpToRel(<, Nat)
<1>1. IsWellFoundedOn(R, Nat)
  BY NatLessThanWellFounded
<1>2. \E x \in T : \A y \in T : ~(<<y, x>> \in R)
  <2> HIDE DEF R
  <2> QED BY <1>1, WFMin
<1>3. ASSUME NEW x \in T, NEW y \in T, <<y, x>> \notin R PROVE x <= y
  BY <1>3 DEF OpToRel
<1> QED BY <1>2, <1>3

----------------------------------------------------------------------------
(***************************************************************************)
(* Grammar: the two passes over the command line                           *)
(***************************************************************************)
AllSwitches == {"--rebuild", "--no-rebuild", "--attach", "--json", "--global", "--tty",
                "--no-tty", "--force", "--all", "--dry-run", "--yes", "--keep-volumes",
                "--strict", "--list", "--online"}
ValueFlags == {"--manifest", "--spec", "--generation", "--env", "-t", "--timeout", "--keep",
               "--older-than", "--to"}
OptionFlags == {"--manifest", "--generation", "--env", "--timeout", "--to", "--keep", "--older-than"}

\* What may stand in a command line
AnyToken == {Nothing} \cup FirstTokens \cup (UNION {Tokens(v) : v \in Verbs \cup {"word"}})

LiftedType == [tokens : Seq(AnyToken), level : Quiet .. 3, help : BOOLEAN, version : BOOLEAN,
               verb : Verbs \cup {"word", Nothing}, value : BOOLEAN]
OptsType == [sub : AnyToken, set : SUBSET AllSwitches, given : SUBSET (OptionFlags \X AnyToken),
             names : Seq(AnyToken), env : Seq(AnyToken), command : Seq(AnyToken),
             separated : BOOLEAN, pending : OptionFlags \cup {Nothing}]

GrammarTypes ==
    /\ argv \in Seq(AnyToken) /\ lifted \in LiftedType /\ opaque \in BOOLEAN /\ opts \in OptsType
    /\ stage \in {"lift", "verb", "decided", "exit"} /\ tty \in BOOLEAN
    /\ at \in 1 .. Len(lifted.tokens) + 2
    /\ decision.kind \in {Nothing, "usage", "help", "version", "start-spec", "run"}

\* The level is the sum of the first p tokens
RunTo(a, p, level) ==
    \E run \in [0 .. p -> Quiet .. 3] :
        /\ run[0] = 0 /\ run[p] = level
        /\ \A k \in 1 .. p : run[k] = Level(run[k - 1], a[k])

\* The first pass kept the tokens t of a: the k-th is a[org[k]]; val says which are
\* values, by the flag before them; sep is the place of the separator, if there is one.
\* A value follows its flag, and everything after the separator follows it.
Lifts(a, t, v, value, level, opq, val, org, sep) ==
    /\ org \in [1 .. Len(t) -> 1 .. Len(a)] /\ val \in [1 .. Len(t) + 1 -> BOOLEAN]
    /\ sep \in 1 .. Len(t) + 1
    /\ \A k \in 1 .. Len(t) : t[k] = a[org[k]]
    /\ ~val[1] /\ value = val[Len(t) + 1]
    /\ \A k \in 1 .. Len(t) : val[k + 1] <=> (~val[k] /\ k < sep /\ TakesValue(v, t[k]))
    /\ \A k \in 1 .. Len(t) : (k < sep /\ ~val[k]) => t[k] # "--"
    /\ opq => sep <= Len(t) /\ t[sep] = "--" /\ ~val[sep] /\ ~value
    /\ ~opq => sep = Len(t) + 1
    /\ \A k \in 1 .. Len(t) - 1 : (val[k + 1] \/ k >= sep) => org[k + 1] = org[k] + 1
    /\ (opq \/ value) => org[Len(t)] = Len(a)
    /\ (\A k \in 1 .. Len(t) + 1 : ~val[k]) =>
          RunTo(a, IF opq THEN org[sep] - 1 ELSE Len(a), level)

VerbKnown ==
    /\ lifted.tokens = <<>> => lifted.verb = Nothing
    /\ (lifted.tokens # <<>> /\ lifted.tokens[1] # "--") => lifted.verb = lifted.tokens[1]
    /\ (lifted.verb = Nothing /\ ~opaque) => lifted.tokens = <<>>

\* Help asked for was seen, and is what will be decided
HelpSeen ==
    /\ opaque => "--" \in ToSet(argv)
    /\ lifted.value => argv # <<>> /\ argv[Len(argv)] \in ValueFlags
    /\ \A i \in DOMAIN argv :
          (/\ argv[i] = "-h" /\ "--" \notin ToSet(SubSeq(argv, 1, i - 1))
           /\ (i = 1 \/ argv[i - 1] \notin ValueFlags)) => lifted.help
    /\ lifted.help => stage = "lift" \/ decision.kind = "help"
    /\ stage = "exit" =>
          exit.code \in 0 .. 255 /\ (decision.kind = "help" => exit = [ran |-> "help", code |-> 0])
    /\ stage # "exit" => exit.ran = Nothing
    /\ stage \in {"lift", "verb"} => decision.kind = Nothing

\* The second pass has read the tokens before i as the first one saw them
Reads(t, val, sep, i, o) ==
    /\ t # <<>> /\ t[1] \in Verbs /\ i \in 2 .. Len(t) + 1
    /\ ~o.separated => i <= sep /\ o.command = <<>> /\ (o.pending # Nothing <=> val[i])
    /\ o.pending # Nothing => o.pending = Long(t[1], t[i - 1])
    /\ o.separated => /\ sep <= Len(t) /\ o.command = SubSeq(t, sep + 1, Len(t))
                      /\ i = Len(t) + 1 /\ o.pending = Nothing
    /\ (t[1] = "exec" /\ o.env = <<>>) =>
          \A k \in 1 .. Len(t) + 1 : val[k] => ~o.separated /\ k >= i
    /\ \A g \in o.given :
          \E k \in 1 .. Len(t) - 1 : val[k + 1] /\ Long(t[1], t[k]) = g[1] /\ t[k + 1] = g[2]
    /\ \A s \in o.set : \E k \in 1 .. Len(t) : s = Long(t[1], t[k])

Passes(val, org, sep) ==
    /\ Lifts(argv, lifted.tokens, lifted.verb, lifted.value, lifted.level, opaque, val, org, sep)
    /\ (stage = "verb" \/ decision.kind = "run") => Reads(lifted.tokens, val, sep, at, opts)

Decided ==
    /\ stage = "lift" => opts = NoOpts
    /\ decision.kind = "run" =>
        /\ decision.verb = Verb /\ decision.sub = opts.sub
        /\ ~Lacks(Verb, opts, tty) /\ Confirmed(Verb, opts, tty)

GrammarInv ==
    /\ GrammarTypes /\ VerbKnown /\ HelpSeen /\ Decided
    /\ \E val, org, sep : Passes(val, org, sep)
----------------------------------------------------------------------------
\* A switch, a subcommand and a word take no value, and none of them is the separator
LEMMA PlainToken ==
    ASSUME NEW v, NEW sub, NEW raw,
           \/ Long(v, raw) \in Switches(v, sub)
           \/ raw \in Subs(v)
           \/ raw \in Words
    PROVE  ~TakesValue(v, raw) /\ raw # "--"
<1>1. CASE Long(v, raw) \in Switches(v, sub)
  <2>1. CASE raw \in {"-t", "-T", "-f", "-n", "-g"}
    BY <1>1, <2>1 DEF TakesValue, Long, Switches
  <2>2. CASE raw \notin {"-t", "-T", "-f", "-n", "-g"}
    <3>1. raw \in Switches(v, sub)
      BY <1>1, <2>2 DEF Long
    <3> QED BY <3>1 DEF TakesValue, Switches
  <2> QED BY <2>1, <2>2
<1>2. CASE raw \in Subs(v)
  BY <1>2 DEF TakesValue, Subs
<1>3. CASE raw \in Words
  BY <1>3 DEF TakesValue, Words, Verbs
<1> QED BY <1>1, <1>2, <1>3

\* What the second pass reads a value for, the first one skipped a value for
LEMMA ValuedToken ==
    ASSUME NEW v, NEW sub, NEW raw, Long(v, raw) \in Valued(v, sub)
    PROVE  TakesValue(v, raw) /\ raw # "--" /\ Long(v, raw) # Nothing
           /\ Long(v, raw) \in OptionFlags
<1> DEFINE long == Long(v, raw)
<1>1. /\ long \in OptionFlags
      /\ TakesValue(v, long)
  <2>1. long \in Valued(v, sub)
    OBVIOUS
  <2> HIDE DEF long
  <2> QED BY <2>1 DEF TakesValue, Valued, OptionFlags
<1>2. long = raw \/ (raw = "-t" /\ v = "stop")
  BY <1>1 DEF Long, OptionFlags
<1>3. TakesValue(v, raw) /\ raw # "--"
  BY <1>1, <1>2 DEF TakesValue, OptionFlags
<1>4. long # Nothing
  <2> HIDE DEF long
  <2> QED BY <1>1 DEF Nothing, OptionFlags
<1> QED BY <1>1, <1>3, <1>4

\* Every switch of every verb is one of those listed above
LEMMA SwitchesAll == \A v, sub : Switches(v, sub) \subseteq AllSwitches
  BY DEF Switches, AllSwitches

\* A flag that takes a value is one of those listed above, behind a verb
LEMMA TakesValueFlag == \A v, flag : TakesValue(v, flag) => flag \in ValueFlags /\ v # Nothing /\ flag # v
  BY DEF TakesValue, ValueFlags, Nothing

\* A token leaves the verbosity within its bounds, and only a global one moves it
LEMMA LevelBounds ==
    ASSUME NEW level \in Quiet .. 3, NEW token
    PROVE  Level(level, token) \in Quiet .. 3 /\ (token \notin Globals => Level(level, token) = level)
<1>1. CASE token = "-q" BY <1>1 DEF Level, Quiet, Globals
<1>2. CASE token \in {"-v", "-vv"} BY <1>2 DEF Level, Quiet, Globals
<1>3. CASE token \notin {"-q", "-v", "-vv"} BY <1>3 DEF Level, Quiet, Globals
<1> QED BY <1>1, <1>2, <1>3

\* A token more adds to the level what it says
LEMMA RunExtends ==
    ASSUME NEW a \in Seq(AnyToken), NEW token \in AnyToken, NEW level \in Quiet .. 3,
           RunTo(a, Len(a), level)
    PROVE  RunTo(Append(a, token), Len(a) + 1, Level(level, token))
<1>1. PICK run \in [0 .. Len(a) -> Quiet .. 3] :
        /\ run[0] = 0 /\ run[Len(a)] = level
        /\ \A k \in 1 .. Len(a) : run[k] = Level(run[k - 1], a[k])
  BY DEF RunTo
<1> DEFINE next == Level(level, token)
           n == Len(a)
           more == [k \in 0 .. n + 1 |-> IF k = n + 1 THEN next ELSE run[k]]
<1>2. next \in Quiet .. 3 BY LevelBounds
<1>3. n \in Nat OBVIOUS
<1>4. ASSUME NEW k \in 1 .. n + 1 PROVE more[k] = Level(more[k - 1], Append(a, token)[k])
  <2>1. CASE k = n + 1
    <3>1. Append(a, token)[k] = token BY <2>1
    <3>2. more[k - 1] = level BY <1>1, <1>3, <2>1
    <3>3. more[k] = next BY <1>3, <2>1
    <3> QED BY <3>1, <3>2, <3>3
  <2>2. CASE k \in 1 .. n
    <3>1. Append(a, token)[k] = a[k] BY <2>2
    <3>2. more[k - 1] = run[k - 1] /\ more[k] = run[k] BY <1>3, <2>2
    <3> QED BY <1>1, <2>2, <3>1, <3>2
  <2> QED BY <1>3, <2>1, <2>2
<1> HIDE DEF next
<1>5. more \in [0 .. n + 1 -> Quiet .. 3] BY <1>1, <1>2, <1>3
<1>6. more[0] = 0 /\ more[n + 1] = next BY <1>1, <1>3
<1> QED BY <1>4, <1>5, <1>6 DEF RunTo, next

\* A token more leaves what the tokens before it said
LEMMA RunKept ==
    ASSUME NEW a \in Seq(AnyToken), NEW token \in AnyToken, NEW level, NEW p \in 0 .. Len(a),
           RunTo(a, p, level)
    PROVE  RunTo(Append(a, token), p, level)
<1>1. \A k \in 1 .. Len(a) : Append(a, token)[k] = a[k] OBVIOUS
<1>2. 1 .. p \subseteq 1 .. Len(a) OBVIOUS
<1> QED BY <1>1, <1>2 DEF RunTo

\* The ways to keep a token: behind the separator, before it, or as the separator
Keeps(t, token, v2, value, value2, opq, opq2, sep, sep2) ==
    \/ opq /\ opq2 /\ sep2 = sep /\ ~value2
    \/ /\ ~opq /\ ~opq2 /\ sep2 = Len(t) + 2
       /\ value2 <=> (~value /\ TakesValue(v2, token))
       /\ ~value => token # "--" /\ token \notin Globals
    \/ ~opq /\ opq2 /\ sep2 = Len(t) + 1 /\ ~value /\ ~value2 /\ token = "--"

\* A token that the first pass keeps
LEMMA KeptToken ==
    ASSUME NEW a \in Seq(AnyToken), NEW t \in Seq(AnyToken), NEW token \in AnyToken, NEW v, NEW v2,
           NEW value \in BOOLEAN, NEW value2 \in BOOLEAN, NEW opq \in BOOLEAN, NEW opq2 \in BOOLEAN,
           NEW level \in Quiet .. 3, NEW val, NEW org, NEW sep, NEW sep2,
           Lifts(a, t, v, value, level, opq, val, org, sep),
           v2 = v \/ t = <<>>, Keeps(t, token, v2, value, value2, opq, opq2, sep, sep2)
    PROVE  \E val2, org2 :
              Lifts(Append(a, token), Append(t, token), v2, value2, level, opq2, val2, org2, sep2)
<1> DEFINE n == Len(t)
           m == Len(a)
           a2 == Append(a, token)
           t2 == Append(t, token)
           val2 == [k \in 1 .. n + 2 |-> IF k = n + 2 THEN value2 ELSE val[k]]
           org2 == [k \in 1 .. n + 1 |-> IF k = n + 1 THEN m + 1 ELSE org[k]]
<1>1. /\ n \in Nat /\ m \in Nat /\ a2 \in Seq(AnyToken) /\ t2 \in Seq(AnyToken)
      /\ Len(a2) = m + 1 /\ Len(t2) = n + 1 /\ t2[n + 1] = token /\ a2[m + 1] = token
      /\ (\A k \in 1 .. n : t2[k] = t[k]) /\ (\A k \in 1 .. m : a2[k] = a[k])
  OBVIOUS
<1>2. /\ org \in [1 .. n -> 1 .. m] /\ val \in [1 .. n + 1 -> BOOLEAN] /\ sep \in 1 .. n + 1
      /\ \A k \in 1 .. n : t[k] = a[org[k]]
      /\ ~val[1] /\ value = val[n + 1]
      /\ \A k \in 1 .. n : val[k + 1] <=> (~val[k] /\ k < sep /\ TakesValue(v, t[k]))
      /\ \A k \in 1 .. n : (k < sep /\ ~val[k]) => t[k] # "--"
      /\ opq => sep <= n /\ t[sep] = "--" /\ ~val[sep] /\ ~value
      /\ ~opq => sep = n + 1
      /\ \A k \in 1 .. n - 1 : (val[k + 1] \/ k >= sep) => org[k + 1] = org[k] + 1
      /\ (opq \/ value) => org[n] = m
  BY DEF Lifts
<1>3. (\A k \in 1 .. n + 1 : ~val[k]) => RunTo(a, IF opq THEN org[sep] - 1 ELSE m, level)
  BY DEF Lifts
<1>4. /\ \A k \in 1 .. n : org2[k] = org[k]
      /\ org2[n + 1] = m + 1 /\ org2 \in [1 .. n + 1 -> 1 .. m + 1]
  BY <1>1, <1>2
<1>5. /\ \A k \in 1 .. n + 1 : val2[k] = val[k]
      /\ val2[n + 2] = value2 /\ val2 \in [1 .. n + 2 -> BOOLEAN]
  BY <1>1, <1>2
<1>6. \A k \in 1 .. n : TakesValue(v2, t[k]) <=> TakesValue(v, t[k])
  BY <1>1
<1>c. /\ sep2 \in 1 .. n + 2
      /\ opq => opq2 /\ sep2 = sep /\ ~value2
      /\ ~opq => sep2 \in {n + 1, n + 2}
      /\ (opq2 /\ ~opq) => sep2 = n + 1 /\ ~value /\ ~value2 /\ token = "--"
      /\ ~opq2 => /\ ~opq /\ sep2 = n + 2 /\ (value2 <=> (~value /\ TakesValue(v2, token)))
                  /\ ~value => token # "--" /\ token \notin Globals
  BY <1>1, <1>2 DEF Keeps
<1> HIDE DEF n, m, a2, t2, val2, org2
<1>7. \A k \in 1 .. n + 1 : t2[k] = a2[org2[k]]
  <2> SUFFICES ASSUME NEW k \in 1 .. n + 1 PROVE t2[k] = a2[org2[k]]
    OBVIOUS
  <2>1. CASE k = n + 1 BY <1>1, <1>4, <2>1
  <2>2. CASE k \in 1 .. n
    <3>1. t2[k] = t[k] /\ org2[k] = org[k] BY <1>1, <1>4, <2>2
    <3>2. org[k] \in 1 .. m /\ t[k] = a[org[k]] BY <1>2, <2>2
    <3> QED BY <1>1, <3>1, <3>2
  <2> QED BY <1>1, <2>1, <2>2
<1>8. ~val2[1] /\ value2 = val2[n + 2]
  BY <1>1, <1>2, <1>5
<1>9. \A k \in 1 .. n + 1 : val2[k + 1] <=> (~val2[k] /\ k < sep2 /\ TakesValue(v2, t2[k]))
  <2> SUFFICES ASSUME NEW k \in 1 .. n + 1
               PROVE  val2[k + 1] <=> (~val2[k] /\ k < sep2 /\ TakesValue(v2, t2[k]))
    OBVIOUS
  <2>1. CASE k = n + 1
    BY <1>1, <1>2, <1>5, <1>c, <2>1
  <2>2. CASE k \in 1 .. n
    <3>1. val2[k + 1] = val[k + 1] /\ val2[k] = val[k] /\ t2[k] = t[k]
      BY <1>1, <1>5, <2>2
    <3>2. k < sep2 <=> k < sep BY <1>1, <1>2, <1>c, <2>2
    <3>3. val[k + 1] <=> (~val[k] /\ k < sep /\ TakesValue(v, t[k])) BY <1>2, <2>2
    <3> QED BY <1>6, <2>2, <3>1, <3>2, <3>3
  <2> QED BY <1>1, <2>1, <2>2
<1>10. \A k \in 1 .. n + 1 : (k < sep2 /\ ~val2[k]) => t2[k] # "--"
  <2> SUFFICES ASSUME NEW k \in 1 .. n + 1, k < sep2, ~val2[k] PROVE t2[k] # "--"
    OBVIOUS
  <2>1. CASE k = n + 1
    <3>1. ~opq2 BY <1>1, <1>2, <1>c, <2>1
    <3> QED BY <1>1, <1>2, <1>5, <1>c, <2>1, <3>1
  <2>2. CASE k \in 1 .. n
    <3>1. t2[k] = t[k] /\ val2[k] = val[k] BY <1>1, <1>5, <2>2
    <3>2. k < sep BY <1>1, <1>2, <1>c, <2>2
    <3> QED BY <1>2, <2>2, <3>1, <3>2
  <2> QED BY <1>1, <2>1, <2>2
<1>11. opq2 => sep2 <= n + 1 /\ t2[sep2] = "--" /\ ~val2[sep2] /\ ~value2
  <2>1. CASE opq
    <3>1. sep2 = sep /\ sep \in 1 .. n BY <1>1, <1>2, <1>c, <2>1
    <3> QED BY <1>1, <1>2, <1>5, <1>c, <2>1, <3>1
  <2>2. CASE opq2 /\ ~opq BY <1>1, <1>2, <1>5, <1>c, <2>2
  <2> QED BY <2>1, <2>2
<1>12. ~opq2 => sep2 = n + 2
  BY <1>c
<1>13. \A k \in 1 .. n : (val2[k + 1] \/ k >= sep2) => org2[k + 1] = org2[k] + 1
  <2> SUFFICES ASSUME NEW k \in 1 .. n, val2[k + 1] \/ k >= sep2 PROVE org2[k + 1] = org2[k] + 1
    OBVIOUS
  <2>1. val2[k + 1] = val[k + 1] /\ org2[k] = org[k] BY <1>1, <1>4, <1>5
  <2>2. k >= sep2 => opq /\ k >= sep BY <1>1, <1>c
  <2>3. CASE k = n
    <3>1. value \/ opq BY <1>2, <2>1, <2>2, <2>3
    <3> QED BY <1>1, <1>2, <1>4, <2>1, <2>3, <3>1
  <2>4. CASE k \in 1 .. n - 1
    <3>1. k + 1 \in 1 .. n BY <1>1, <2>4
    <3> QED BY <1>2, <1>4, <2>1, <2>2, <2>4, <3>1
  <2> QED BY <1>1, <2>3, <2>4
<1>14. (opq2 \/ value2) => org2[n + 1] = m + 1
  BY <1>4
<1>15. ASSUME \A k \in 1 .. n + 2 : ~val2[k]
       PROVE  RunTo(a2, IF opq2 THEN org2[sep2] - 1 ELSE m + 1, level)
  <2>1. (\A k \in 1 .. n + 1 : ~val[k]) /\ ~value
    <3>1. \A k \in 1 .. n + 1 : ~val[k] BY <1>1, <1>5, <1>15
    <3>2. n + 1 \in 1 .. n + 1 BY <1>1
    <3> QED BY <1>2, <3>1, <3>2
  <2>2. RunTo(a, IF opq THEN org[sep] - 1 ELSE m, level) BY <1>3, <2>1
  <2>3. CASE opq
    <3>1. sep2 = sep /\ sep \in 1 .. n /\ opq2 BY <1>1, <1>2, <1>c, <2>3
    <3>o. org[sep] \in 1 .. m BY <1>2, <3>1
    <3>p. org2[sep2] = org[sep] BY <1>4, <3>1
    <3>q. org[sep] - 1 \in 0 .. m BY <1>1, <3>o
    <3>2. org2[sep2] = org[sep] /\ org[sep] - 1 \in 0 .. m BY <3>p, <3>q
    <3>3. RunTo(a2, org[sep] - 1, level)
      BY <2>2, <2>3, <3>2, RunKept DEF a2, m
    <3> QED BY <3>1, <3>2, <3>3
  <2>4. CASE opq2 /\ ~opq
    <3>1. org2[sep2] - 1 = m BY <1>1, <1>4, <1>c, <2>4
    <3>2. m \in 0 .. m BY <1>1
    <3>3. RunTo(a2, m, level)
      BY <2>2, <2>4, <3>2, RunKept DEF a2, m
    <3> QED BY <2>4, <3>1, <3>3
  <2>5. CASE ~opq2
    <3>1. ~opq /\ token \notin Globals BY <1>c, <2>1, <2>5
    <3>2. Level(level, token) = level BY <3>1, LevelBounds
    <3>3. RunTo(a, m, level) BY <2>2, <3>1
    <3>4. RunTo(a2, m + 1, Level(level, token)) BY <3>3, RunExtends DEF a2, m
    <3> QED BY <2>5, <3>2, <3>4
  <2> QED BY <2>3, <2>4, <2>5
<1>16. Lifts(a2, t2, v2, value2, level, opq2, val2, org2, sep2)
  <2>1. sep2 \in 1 .. n + 2 BY <1>c
  <2>2. n + 1 - 1 = n /\ n + 1 + 1 = n + 2 BY <1>1
  <2>3. /\ Len(t2) = n + 1 /\ Len(t2) + 1 = n + 2 /\ Len(t2) - 1 = n /\ Len(a2) = m + 1
    BY <1>1
  <2> QED BY <1>4, <1>5, <1>7, <1>8, <1>9, <1>10, <1>11, <1>12, <1>13, <1>14, <1>15, <2>1, <2>3
          DEF Lifts
<1> QED BY <1>16 DEF a2, t2

\* A global option is taken out and adds to the level
LEMMA LiftedToken ==
    ASSUME NEW a \in Seq(AnyToken), NEW t \in Seq(AnyToken), NEW token \in AnyToken, NEW v,
           NEW level \in Quiet .. 3, NEW val, NEW org, NEW sep,
           Lifts(a, t, v, FALSE, level, FALSE, val, org, sep)
    PROVE  Lifts(Append(a, token), t, v, FALSE, Level(level, token), FALSE, val, org, sep)
<1> DEFINE a2 == Append(a, token)
<1>1. Len(a2) = Len(a) + 1 /\ (\A k \in 1 .. Len(a) : a2[k] = a[k]) /\ Len(a) \in Nat
  OBVIOUS
<1>2. (\A k \in 1 .. Len(t) + 1 : ~val[k]) => RunTo(a2, Len(a) + 1, Level(level, token))
  BY RunExtends DEF Lifts
<1> HIDE DEF a2
<1>3. org \in [1 .. Len(t) -> 1 .. Len(a2)] /\ \A k \in 1 .. Len(t) : t[k] = a2[org[k]]
  <2>1. org \in [1 .. Len(t) -> 1 .. Len(a)] /\ \A k \in 1 .. Len(t) : t[k] = a[org[k]]
    BY DEF Lifts
  <2>2. \A k \in 1 .. Len(t) : org[k] \in 1 .. Len(a)
    BY <2>1
  <2>3. 1 .. Len(a) \subseteq 1 .. Len(a2) BY <1>1
  <2>4. org \in [1 .. Len(t) -> 1 .. Len(a2)] BY <2>1, <2>3
  <2>5. \A k \in 1 .. Len(t) : t[k] = a2[org[k]] BY <1>1, <2>1, <2>2
  <2> QED BY <2>4, <2>5
<1>4. Lifts(a2, t, v, FALSE, Level(level, token), FALSE, val, org, sep)
  BY <1>1, <1>2, <1>3 DEF Lifts
<1> QED BY <1>4 DEF a2

\* The first pass: a token typed is kept or lifted
LEMMA TypeStep ==
    ASSUME GrammarInv,
           NEW token \in (IF lifted.verb = Nothing THEN FirstTokens ELSE Tokens(lifted.verb)),
           Type(token)
    PROVE  GrammarInv'
<1>1. /\ argv \in Seq(AnyToken) /\ lifted \in LiftedType /\ opaque \in BOOLEAN
      /\ stage = "lift" /\ argv' = Append(argv, token) /\ LiftToken(token)
      /\ UNCHANGED <<stage, at, opts, tty, decision, exit>>
  BY DEF GrammarInv, GrammarTypes, Type
<1>2. token \in AnyToken /\ (lifted.verb = Nothing => token \in FirstTokens)
  BY <1>1 DEF AnyToken, LiftedType
<1>3. /\ argv' \in Seq(AnyToken) /\ Len(argv') = Len(argv) + 1 /\ Len(argv) \in Nat
      /\ argv'[Len(argv')] = token /\ \A k \in 1 .. Len(argv) : argv'[k] = argv[k]
  BY <1>1, <1>2
<1>4. PICK val, org, sep :
         Lifts(argv, lifted.tokens, lifted.verb, lifted.value, lifted.level, opaque, val, org, sep)
  BY DEF GrammarInv, Passes
<1> DEFINE tokens == lifted.tokens
           value == lifted.value
<1>t. /\ tokens \in Seq(AnyToken) /\ value \in BOOLEAN /\ lifted.level \in Quiet .. 3
      /\ lifted.help \in BOOLEAN /\ lifted.version \in BOOLEAN
      /\ lifted.verb \in Verbs \cup {"word", Nothing} /\ Len(tokens) \in Nat
  BY <1>1 DEF LiftedType
\* Whatever the pass did, the rest of the invariant follows from this
<1>5. ASSUME lifted' \in LiftedType, opaque' \in BOOLEAN,
             NEW val2, NEW org2, NEW sep2,
             Lifts(argv', lifted'.tokens, lifted'.verb, lifted'.value, lifted'.level, opaque',
                   val2, org2, sep2),
             VerbKnown', Len(lifted'.tokens) >= Len(tokens),
             opaque' => opaque \/ token = "--",
             lifted'.value => token \in ValueFlags,
             lifted.help => lifted'.help,
             (token = "-h" /\ ~opaque /\ ~value) => lifted'.help
      PROVE  GrammarInv'
  <2>0. lifted'.tokens \in Seq(AnyToken) /\ Len(lifted'.tokens) \in Nat
    BY <1>5 DEF LiftedType
  <2>1. GrammarTypes'
    BY <1>1, <1>3, <1>t, <1>5, <2>0 DEF GrammarInv, GrammarTypes
  <2>2. HelpSeen'
    <3>1. opaque' => "--" \in ToSet(argv')
      <4>1. CASE opaque
        BY <1>3, <4>1 DEF GrammarInv, HelpSeen, ToSet
      <4>2. CASE token = "--"
        BY <1>3, <4>2 DEF ToSet
      <4> QED BY <1>5, <4>1, <4>2
    <3>2. lifted'.value => argv' # <<>> /\ argv'[Len(argv')] \in ValueFlags
      BY <1>3, <1>5
    <3>3. ASSUME NEW i \in DOMAIN argv', argv'[i] = "-h",
                 "--" \notin ToSet(SubSeq(argv', 1, i - 1)), i = 1 \/ argv'[i - 1] \notin ValueFlags
          PROVE  lifted'.help
      <4>0. i \in 1 .. Len(argv) + 1 BY <1>3
      <4>1. CASE i \in 1 .. Len(argv)
        <5>1. SubSeq(argv', 1, i - 1) = SubSeq(argv, 1, i - 1)
          BY <1>1, <1>2, <1>3, <4>1
        <5>2. argv[i] = "-h" /\ (i = 1 \/ argv[i - 1] \notin ValueFlags)
          BY <1>3, <3>3, <4>1
        <5>3. i \in DOMAIN argv BY <1>1, <4>1
        <5> QED BY <1>5, <3>3, <5>1, <5>2, <5>3 DEF GrammarInv, HelpSeen
      <4>2. CASE i = Len(argv) + 1
        <5>1. SubSeq(argv', 1, i - 1) = argv
          BY <1>1, <1>2, <1>3, <4>2
        <5>2. ~opaque BY <3>3, <5>1 DEF GrammarInv, HelpSeen
        <5>3. value => argv # <<>> /\ argv[Len(argv)] \in ValueFlags
          BY DEF GrammarInv, HelpSeen
        <5>4. ~value
          <6> SUFFICES ASSUME value PROVE FALSE OBVIOUS
          <6>1. Len(argv) \in 1 .. Len(argv) BY <1>1, <5>3
          <6>2. argv'[i - 1] = argv[Len(argv)] /\ i # 1 BY <1>3, <4>2, <6>1
          <6> QED BY <3>3, <5>3, <6>2
        <5> QED BY <1>3, <1>5, <3>3, <4>2, <5>2, <5>4
      <4> QED BY <1>3, <4>0, <4>1, <4>2
    <3>4. /\ lifted'.help => stage' = "lift" \/ decision'.kind = "help"
          /\ stage' # "exit" /\ exit'.ran = Nothing /\ decision'.kind = Nothing
      BY <1>1 DEF GrammarInv, HelpSeen
    <3> QED BY <3>1, <3>2, <3>3, <3>4 DEF HelpSeen
  <2>3. Decided'
    <3>1. decision'.kind = Nothing /\ opts' = NoOpts
      BY <1>1 DEF GrammarInv, HelpSeen, Decided
    <3> QED BY <3>1 DEF Decided, Nothing
  <2>4. Passes(val2, org2, sep2)'
    <3>1. ~(stage' = "verb" \/ decision'.kind = "run")
      BY <1>1 DEF GrammarInv, HelpSeen, Nothing
    <3> QED BY <1>5, <3>1 DEF Passes
  <2> QED BY <1>5, <2>1, <2>2, <2>3, <2>4 DEF GrammarInv
<1>a. /\ Append(tokens, token) \in Seq(AnyToken) /\ Append(tokens, token) # <<>>
      /\ Len(Append(tokens, token)) = Len(tokens) + 1
      /\ tokens # <<>> => Append(tokens, token)[1] = tokens[1]
      /\ tokens = <<>> => Append(tokens, token)[1] = token
  <2> HIDE DEF tokens
  <2>1. Append(tokens, token) \in Seq(AnyToken) /\ Len(Append(tokens, token)) = Len(tokens) + 1
    BY <1>2, <1>t
  <2>2. Append(tokens, token) # <<>> BY <1>t, <2>1
  <2>3. ASSUME tokens # <<>> PROVE Append(tokens, token)[1] = tokens[1]
    <3>1. 1 \in 1 .. Len(tokens) BY <1>t, <2>3
    <3> QED BY <1>2, <1>t, <3>1
  <2>4. tokens = <<>> => Append(tokens, token)[1] = token BY <1>2, <1>t
  <2> QED BY <2>1, <2>2, <2>3, <2>4
<1>v. VerbKnown BY DEF GrammarInv
<1>6. CASE opaque \/ value
  <2>1. /\ lifted' = [lifted EXCEPT !.tokens = Append(@, token), !.value = FALSE]
        /\ opaque' = opaque
    BY <1>1, <1>6 DEF LiftToken, Keep
  <2>2. /\ lifted'.tokens = Append(tokens, token) /\ lifted'.value = FALSE
        /\ lifted'.verb = lifted.verb /\ lifted'.level = lifted.level /\ lifted'.help = lifted.help
        /\ lifted' \in LiftedType
    BY <1>1, <1>a, <2>1 DEF LiftedType
  <2> DEFINE sep2 == IF opaque THEN sep ELSE Len(tokens) + 2
  <2>3. PICK val2, org2 : Lifts(argv', Append(tokens, token), lifted.verb, FALSE, lifted.level, opaque,
                                val2, org2, sep2)
    <3>1. PICK no \in BOOLEAN : no = FALSE OBVIOUS
    <3>2. Keeps(tokens, token, lifted.verb, value, no, opaque, opaque, sep, sep2)
      BY <1>6, <1>t, <3>1 DEF Keeps
    <3> HIDE DEF sep2
    <3>3. \E val2, org2 : Lifts(argv', Append(tokens, token), lifted.verb, no, lifted.level, opaque,
                                val2, org2, sep2)
      BY <1>1, <1>2, <1>4, <1>t, <3>2, KeptToken
    <3> QED BY <3>1, <3>3
  <2>4. VerbKnown'
    <3>1. tokens # <<>>
      <4> SUFFICES ASSUME tokens = <<>> PROVE FALSE OBVIOUS
      <4>1. Len(tokens) = 0 OBVIOUS
      <4> QED BY <1>4, <1>6, <4>1 DEF Lifts
    <3> QED BY <1>a, <1>v, <2>1, <2>2, <3>1 DEF VerbKnown
  <2>5. Lifts(argv', lifted'.tokens, lifted'.verb, lifted'.value, lifted'.level, opaque', val2, org2, sep2)
    BY <2>1, <2>2, <2>3
  <2>6. Len(lifted'.tokens) >= Len(tokens) BY <1>a, <1>t, <2>2
  <2> HIDE DEF sep2
  <2> QED BY <1>1, <1>5, <1>6, <2>1, <2>2, <2>4, <2>5, <2>6
<1>7. CASE ~(opaque \/ value) /\ token = "--"
  <2>1. /\ lifted' = [lifted EXCEPT !.tokens = Append(@, token), !.value = FALSE]
        /\ opaque' = TRUE
    BY <1>1, <1>7 DEF LiftToken, Keep, Globals
  <2>2. /\ lifted'.tokens = Append(tokens, token) /\ lifted'.value = FALSE
        /\ lifted'.verb = lifted.verb /\ lifted'.level = lifted.level /\ lifted'.help = lifted.help
        /\ lifted' \in LiftedType
    BY <1>1, <1>a, <2>1 DEF LiftedType
  <2>3. PICK val2, org2 : Lifts(argv', Append(tokens, token), lifted.verb, FALSE, lifted.level, TRUE,
                                val2, org2, Len(tokens) + 1)
    <3>1. PICK no \in BOOLEAN : no = FALSE OBVIOUS
    <3>y. PICK yes \in BOOLEAN : yes = TRUE OBVIOUS
    <3>2. Keeps(tokens, token, lifted.verb, value, no, opaque, yes, sep, Len(tokens) + 1)
      BY <1>7, <1>t, <3>1, <3>y DEF Keeps
    <3>3. \E val2, org2 : Lifts(argv', Append(tokens, token), lifted.verb, no, lifted.level, yes,
                                val2, org2, Len(tokens) + 1)
      BY <1>1, <1>2, <1>4, <1>t, <3>2, KeptToken
    <3> QED BY <3>1, <3>y, <3>3
  <2>4. VerbKnown'
    BY <1>7, <1>a, <1>v, <2>1, <2>2 DEF VerbKnown
  <2>5. Lifts(argv', lifted'.tokens, lifted'.verb, lifted'.value, lifted'.level, opaque', val2, org2, Len(tokens) + 1)
    BY <2>1, <2>2, <2>3
  <2>6. Len(lifted'.tokens) >= Len(tokens) BY <1>a, <1>t, <2>2
  <2> QED BY <1>1, <1>5, <1>7, <2>1, <2>2, <2>4, <2>5, <2>6
<1>8. CASE ~(opaque \/ value) /\ token # "--" /\ token \in Globals
  <2>1. /\ lifted' = [lifted EXCEPT !.level = Level(@, token), !.help = @ \/ token = "-h",
                                    !.version = @ \/ token = "--version"]
        /\ opaque' = opaque
    BY <1>1, <1>8 DEF LiftToken
  <2>2. Level(lifted.level, token) \in Quiet .. 3 BY <1>t, LevelBounds
  <2>3. /\ lifted'.tokens = tokens /\ lifted'.value = value /\ lifted'.verb = lifted.verb
        /\ lifted'.level = Level(lifted.level, token) /\ lifted'.help = (lifted.help \/ token = "-h")
        /\ lifted' \in LiftedType
    BY <1>1, <2>1, <2>2 DEF LiftedType
  <2>4. ~opaque /\ ~value /\ opaque = FALSE /\ value = FALSE BY <1>1, <1>8, <1>t
  <2>5. Lifts(argv', tokens, lifted.verb, FALSE, Level(lifted.level, token), FALSE, val, org, sep)
    <3>1. Lifts(argv, tokens, lifted.verb, FALSE, lifted.level, FALSE, val, org, sep)
      BY <1>4, <2>4
    <3> QED BY <1>1, <1>2, <1>t, <3>1, LiftedToken
  <2>6. Lifts(argv', lifted'.tokens, lifted'.verb, lifted'.value, lifted'.level, opaque', val, org, sep)
    BY <2>1, <2>3, <2>4, <2>5
  <2>7. VerbKnown' BY <1>v, <2>1, <2>3 DEF VerbKnown
  <2>8. Len(lifted'.tokens) >= Len(tokens) BY <1>t, <2>3
  <2> QED BY <1>1, <1>5, <1>8, <2>1, <2>3, <2>4, <2>6, <2>7, <2>8
<1>9. CASE ~(opaque \/ value) /\ token # "--" /\ token \notin Globals
  <2> DEFINE v2 == IF lifted.verb = Nothing THEN token ELSE lifted.verb
             value2 == TakesValue(v2, token)
  <2>1. /\ lifted' = [lifted EXCEPT !.tokens = Append(@, token), !.verb = v2, !.value = value2]
        /\ opaque' = opaque
    BY <1>1, <1>9 DEF LiftToken
  <2>2. v2 \in Verbs \cup {"word"}
    BY <1>2, <1>9, <1>t DEF FirstTokens
  <2>3. value2 \in BOOLEAN /\ (value2 => token \in ValueFlags)
    BY TakesValueFlag DEF TakesValue
  <2> HIDE DEF value2
  <2>4. /\ lifted'.tokens = Append(tokens, token) /\ lifted'.value = value2 /\ lifted'.verb = v2
        /\ lifted'.level = lifted.level /\ lifted'.help = lifted.help /\ lifted' \in LiftedType
    <3> HIDE DEF v2
    <3> QED BY <1>1, <1>a, <2>1, <2>2, <2>3 DEF LiftedType
  <2>5. ~opaque /\ ~value /\ token # "-h" BY <1>9 DEF Globals
  <2>6. v2 = lifted.verb \/ tokens = <<>> BY <1>v, <2>5 DEF VerbKnown
  <2>7. value2 <=> (~value /\ TakesValue(v2, token)) BY <2>5 DEF value2
  <2>8. VerbKnown'
    <3>1. v2 # Nothing BY <2>2 DEF Nothing, Verbs
    <3>2. tokens = <<>> => v2 = token BY <1>v DEF VerbKnown
    <3>3. tokens # <<>> => v2 = lifted.verb BY <2>6
    <3> HIDE DEF v2
    <3> QED BY <1>a, <1>v, <2>4, <3>1, <3>2, <3>3 DEF VerbKnown
  <2> HIDE DEF v2
  <2>9. PICK val2, org2 : Lifts(argv', Append(tokens, token), v2, value2, lifted.level, opaque,
                                val2, org2, Len(tokens) + 2)
    <3>1. Keeps(tokens, token, v2, value, value2, opaque, opaque, sep, Len(tokens) + 2)
      BY <1>9, <1>t, <2>5, <2>7 DEF Keeps
    <3> QED BY <1>1, <1>2, <1>4, <1>t, <2>3, <2>6, <3>1, KeptToken
  <2>10. Lifts(argv', lifted'.tokens, lifted'.verb, lifted'.value, lifted'.level, opaque', val2, org2, Len(tokens) + 2)
    BY <2>1, <2>4, <2>9
  <2>11. Len(lifted'.tokens) >= Len(tokens) BY <1>a, <1>t, <2>4
  <2> QED BY <1>1, <1>5, <2>1, <2>3, <2>4, <2>5, <2>8, <2>10, <2>11
<1> QED BY <1>6, <1>7, <1>8, <1>9

\* What the second pass needs of the first
Marks(t, val, sep) ==
    /\ t \in Seq(AnyToken) /\ val \in [1 .. Len(t) + 1 -> BOOLEAN] /\ sep \in 1 .. Len(t) + 1
    /\ \A k \in 1 .. Len(t) : val[k + 1] <=> (~val[k] /\ k < sep /\ TakesValue(t[1], t[k]))
    /\ sep <= Len(t) => t[sep] = "--" /\ ~val[sep]
    /\ \A k \in 1 .. Len(t) : (k < sep /\ ~val[k]) => t[k] # "--"

\* Once a verb is to be read, the kept tokens carry the marks and begin with it
LEMMA MarksOf ==
    ASSUME GrammarInv, NEW val, NEW org, NEW sep, Passes(val, org, sep),
           stage = "verb" \/ decision.kind = "run"
    PROVE  Marks(lifted.tokens, val, sep) /\ lifted.verb = Verb /\ Verb = lifted.tokens[1]
<1>1. /\ lifted.tokens \in Seq(AnyToken) /\ opaque \in BOOLEAN
  BY DEF GrammarInv, GrammarTypes, LiftedType
<1>2. lifted.tokens # <<>> /\ lifted.tokens[1] \in Verbs
  BY DEF Passes, Reads
<1>3. lifted.tokens[1] # "--"
  BY <1>2 DEF Verbs
<1>4. lifted.verb = lifted.tokens[1]
  BY <1>2, <1>3 DEF GrammarInv, VerbKnown
<1>5. Verb = lifted.tokens[1]
  BY <1>1, <1>2 DEF Verb
<1>6. Len(lifted.tokens) \in Nat
  BY <1>1
<1> QED BY <1>1, <1>4, <1>5, <1>6 DEF Passes, Lifts, Marks

\* The second pass reads a switch, a subcommand or a name
LEMMA ReadPlain ==
    ASSUME NEW t, NEW val, NEW sep, NEW i, NEW o, NEW o2,
           Marks(t, val, sep), Reads(t, val, sep, i, o), i <= Len(t),
           o.pending = Nothing, ~TakesValue(t[1], t[i]), t[i] # "--",
           o2.pending = Nothing, o2.separated = o.separated, o2.command = o.command,
           o2.env = o.env, o2.given = o.given, o2.set \subseteq o.set \cup {Long(t[1], t[i])}
    PROVE  Reads(t, val, sep, i + 1, o2)
<1>1. /\ t \in Seq(AnyToken) /\ Len(t) \in Nat /\ i \in 2 .. Len(t) /\ i + 1 \in 2 .. Len(t) + 1
      /\ sep \in 1 .. Len(t) + 1 /\ i \in 1 .. Len(t)
  BY DEF Marks, Reads
<1>2. ~o.separated
  BY <1>1 DEF Reads
<1>3. i <= sep /\ ~val[i] /\ o.command = <<>>
  BY <1>2 DEF Reads
<1>4. i # sep
  BY <1>1 DEF Marks
<1>5. i + 1 <= sep /\ ~val[i + 1]
  BY <1>1, <1>3, <1>4 DEF Marks
<1>6. ASSUME t[1] = "exec", o2.env = <<>>, NEW k \in 1 .. Len(t) + 1, val[k]
      PROVE  ~o2.separated /\ k >= i + 1
  <2>1. k >= i BY <1>6 DEF Reads
  <2>2. k # i BY <1>3, <1>6
  <2> QED BY <1>1, <1>2, <2>1, <2>2
<1>7. \A s \in o2.set : \E k \in 1 .. Len(t) : s = Long(t[1], t[k])
  BY <1>1 DEF Reads
<1> QED BY <1>1, <1>2, <1>3, <1>5, <1>6, <1>7 DEF Reads

\* The second pass reads an option whose value is the next token
LEMMA ReadOption ==
    ASSUME NEW t, NEW val, NEW sep, NEW i, NEW o, NEW o2,
           Marks(t, val, sep), Reads(t, val, sep, i, o), i <= Len(t),
           o.pending = Nothing, TakesValue(t[1], t[i]), t[i] # "--",
           o2.pending = Long(t[1], t[i]), o2.pending # Nothing, o2.separated = o.separated,
           o2.command = o.command, o2.env = o.env, o2.given = o.given, o2.set = o.set
    PROVE  Reads(t, val, sep, i + 1, o2)
<1>1. /\ t \in Seq(AnyToken) /\ Len(t) \in Nat /\ i \in 2 .. Len(t) /\ i + 1 \in 2 .. Len(t) + 1
      /\ sep \in 1 .. Len(t) + 1 /\ i \in 1 .. Len(t) /\ (i + 1) - 1 = i
  BY DEF Marks, Reads
<1>2. ~o.separated
  BY <1>1 DEF Reads
<1>3. i <= sep /\ ~val[i] /\ o.command = <<>>
  BY <1>2 DEF Reads
<1>4. i # sep
  BY <1>1 DEF Marks
<1>5. i + 1 <= sep /\ val[i + 1]
  <2>1. i < sep BY <1>1, <1>3, <1>4
  <2> QED BY <1>1, <1>3, <2>1 DEF Marks
<1>6. ASSUME t[1] = "exec", o2.env = <<>>, NEW k \in 1 .. Len(t) + 1, val[k]
      PROVE  ~o2.separated /\ k >= i + 1
  <2>1. k >= i BY <1>6 DEF Reads
  <2>2. k # i BY <1>3, <1>6
  <2> QED BY <1>1, <1>2, <2>1, <2>2
<1> QED BY <1>1, <1>2, <1>3, <1>5, <1>6 DEF Reads

\* The second pass reads the value of an option
LEMMA ReadValue ==
    ASSUME NEW t, NEW val, NEW sep, NEW i, NEW o, NEW o2,
           Marks(t, val, sep), Reads(t, val, sep, i, o), i <= Len(t),
           o.pending # Nothing, o2.pending = Nothing, o2.separated = o.separated,
           o2.command = o.command, t[1] = "exec" => o2.env # <<>>,
           o2.given \subseteq o.given \cup {<<o.pending, t[i]>>}, o2.set = o.set
    PROVE  Reads(t, val, sep, i + 1, o2)
<1>1. /\ t \in Seq(AnyToken) /\ Len(t) \in Nat /\ i \in 2 .. Len(t) /\ i + 1 \in 2 .. Len(t) + 1
      /\ sep \in 1 .. Len(t) + 1 /\ i \in 1 .. Len(t)
      /\ i - 1 \in 1 .. Len(t) - 1 /\ (i - 1) + 1 = i
  BY DEF Marks, Reads
<1>2. ~o.separated
  BY <1>1 DEF Reads
<1>3. i <= sep /\ val[i] /\ o.command = <<>> /\ o.pending = Long(t[1], t[i - 1])
  BY <1>2 DEF Reads
<1>4. i # sep
  BY <1>1, <1>3 DEF Marks
<1>5. i + 1 <= sep /\ ~val[i + 1]
  BY <1>1, <1>3, <1>4 DEF Marks
<1>6. ASSUME NEW g \in o2.given
      PROVE  \E k \in 1 .. Len(t) - 1 : val[k + 1] /\ Long(t[1], t[k]) = g[1] /\ t[k + 1] = g[2]
  <2>1. CASE g \in o.given BY <2>1 DEF Reads
  <2>2. CASE g = <<o.pending, t[i]>>
    BY <1>1, <1>3, <2>2
  <2> QED BY <1>6, <2>1, <2>2
<1> QED BY <1>1, <1>2, <1>3, <1>5, <1>6 DEF Reads

\* exec reads the separator, and with it everything that follows
LEMMA ReadSeparator ==
    ASSUME NEW t, NEW val, NEW sep, NEW i, NEW o, NEW o2,
           Marks(t, val, sep), Reads(t, val, sep, i, o), i <= Len(t),
           o.pending = Nothing, t[i] = "--", o2.pending = Nothing, o2.separated,
           o2.command = SubSeq(t, i + 1, Len(t)), o2.env = o.env, o2.given = o.given, o2.set = o.set
    PROVE  Reads(t, val, sep, Len(t) + 1, o2)
<1>1. /\ t \in Seq(AnyToken) /\ Len(t) \in Nat /\ i \in 2 .. Len(t) /\ Len(t) + 1 \in 2 .. Len(t) + 1
      /\ sep \in 1 .. Len(t) + 1 /\ i \in 1 .. Len(t)
  BY DEF Marks, Reads
<1>2. ~o.separated
  BY <1>1 DEF Reads
<1>3. i <= sep /\ ~val[i]
  BY <1>2 DEF Reads
<1>4. sep = i
  BY <1>1, <1>3 DEF Marks
<1>5. ASSUME t[1] = "exec", o2.env = <<>>, NEW k \in 1 .. Len(t) + 1
      PROVE  ~val[k]
  <2> SUFFICES ASSUME val[k] PROVE FALSE
    OBVIOUS
  <2>1. k >= i BY <1>5 DEF Reads
  <2>2. k # i BY <1>3
  <2>3. k - 1 \in 1 .. Len(t) /\ ~(k - 1 < sep) /\ (k - 1) + 1 = k BY <1>1, <1>4, <2>1, <2>2
  <2> QED BY <2>3 DEF Marks
<1>6. /\ \A g \in o2.given : \E k \in 1 .. Len(t) - 1 :
            val[k + 1] /\ Long(t[1], t[k]) = g[1] /\ t[k + 1] = g[2]
      /\ \A s \in o2.set : \E k \in 1 .. Len(t) : s = Long(t[1], t[k])
      /\ t # <<>> /\ t[1] \in Verbs
  BY DEF Reads
<1> QED BY <1>1, <1>4, <1>5, <1>6 DEF Reads

\* After the first pass the tokens stay what they are
LEMMA AfterLift ==
    ASSUME GrammarInv, UNCHANGED <<argv, lifted, opaque, tty>>,
           stage' \in {"verb", "decided", "exit"},
           at' \in 1 .. Len(lifted.tokens) + 2, opts' \in OptsType,
           decision'.kind \in {Nothing, "usage", "help", "version", "start-spec", "run"},
           lifted.help => decision'.kind = "help",
           stage' = "exit" => /\ exit'.code \in 0 .. 255
                              /\ decision'.kind = "help" => exit' = [ran |-> "help", code |-> 0],
           stage' # "exit" => exit'.ran = Nothing,
           stage' = "verb" => decision'.kind = Nothing,
           \E val, org, sep : Passes(val, org, sep)',
           Decided'
    PROVE  GrammarInv'
<1>1. GrammarTypes'
  BY DEF GrammarInv, GrammarTypes
<1>2. VerbKnown'
  BY DEF GrammarInv, VerbKnown
<1>3. HelpSeen'
  BY DEF GrammarInv, HelpSeen
<1> QED BY <1>1, <1>2, <1>3 DEF GrammarInv

\* The end of the first pass keeps the invariant
LEMMA EndOfArgvStep == ASSUME GrammarInv, EndOfArgv PROVE GrammarInv'
<1>1. /\ stage = "lift" /\ at' = 2 /\ UNCHANGED <<argv, lifted, opaque, opts, tty, exit>>
      /\ opts = NoOpts /\ exit.ran = Nothing /\ decision.kind = Nothing
      /\ lifted.tokens \in Seq(AnyToken) /\ opts \in OptsType
  BY DEF GrammarInv, GrammarTypes, HelpSeen, Decided, EndOfArgv, LiftedType
<1>n. Len(lifted.tokens) \in Nat /\ 2 \in 1 .. Len(lifted.tokens) + 2
  BY <1>1
<1>2. PICK val, org, sep : Passes(val, org, sep)
  BY DEF GrammarInv
<1>3. CASE /\ stage' = "decided" /\ decision'.kind \in {"usage", "help", "version"}
           /\ lifted.help => decision'.kind = "help"
  <2>1. Passes(val, org, sep)'
    BY <1>1, <1>2, <1>3 DEF Passes
  <2>2. Decided' BY <1>3 DEF Decided
  <2> QED BY <1>1, <1>n, <1>3, <2>1, <2>2, AfterLift
<1>4. CASE /\ stage' = "verb" /\ UNCHANGED decision /\ ~lifted.help
           /\ lifted.tokens # <<>> /\ Head(lifted.tokens) \in Verbs
  <2>1. /\ lifted.tokens[1] \in Verbs /\ Len(lifted.tokens) >= 1
    BY <1>1, <1>4
  <2>2. /\ ~val[1] /\ val \in [1 .. Len(lifted.tokens) + 1 -> BOOLEAN]
        /\ sep \in 1 .. Len(lifted.tokens) + 1
        /\ val[2] <=> (~val[1] /\ 1 < sep /\ TakesValue(lifted.verb, lifted.tokens[1]))
        /\ opaque => lifted.tokens[sep] = "--" /\ sep <= Len(lifted.tokens)
        /\ ~opaque => sep = Len(lifted.tokens) + 1
    BY <1>2, <1>n, <2>1 DEF Passes, Lifts
  <2>3. lifted.tokens[1] # "--" BY <2>1 DEF Verbs
  <2>4. lifted.verb = lifted.tokens[1] BY <1>4, <2>3 DEF GrammarInv, VerbKnown
  <2>5. ~val[2] BY <2>2, <2>4, TakesValueFlag
  <2>6. sep >= 2 BY <1>n, <2>1, <2>2, <2>3 DEF GrammarInv, GrammarTypes
  <2>7. Reads(lifted.tokens, val, sep, 2, NoOpts)
    <3>1. /\ NoOpts.separated = FALSE /\ NoOpts.command = <<>> /\ NoOpts.pending = Nothing
          /\ NoOpts.env = <<>> /\ NoOpts.given = {} /\ NoOpts.set = {}
      BY DEF NoOpts
    <3>2. ASSUME NEW k \in 1 .. Len(lifted.tokens) + 1, val[k] PROVE k >= 2
      BY <1>n, <2>2, <3>2
    <3>3. 2 \in 2 .. Len(lifted.tokens) + 1 BY <1>n, <2>1
    <3> QED BY <1>4, <2>1, <2>5, <2>6, <3>1, <3>2, <3>3 DEF Reads
  <2>8. Passes(val, org, sep)'
    BY <1>1, <1>2, <2>7 DEF Passes
  <2>9. Decided' BY <1>1, <1>4 DEF Decided, Nothing
  <2> QED BY <1>1, <1>n, <1>4, <2>8, <2>9, AfterLift
<1>5. \/ <1>3!1 \/ <1>4!1
  <2>1. CASE lifted.help BY <2>1 DEF EndOfArgv, Decide
  <2>2. CASE ~lifted.help /\ lifted.version BY <2>2 DEF EndOfArgv, Decide
  <2>3. CASE ~lifted.help /\ ~lifted.version /\ lifted.tokens = <<>>
    BY <2>3 DEF EndOfArgv, Decide, Usage
  <2>4. CASE ~lifted.help /\ ~lifted.version /\ lifted.tokens # <<>>
    <3>1. IF Head(lifted.tokens) \in Verbs THEN stage' = "verb" /\ UNCHANGED decision ELSE Usage
      BY <2>4 DEF EndOfArgv
    <3> QED BY <2>4, <3>1 DEF Decide, Usage
  <2> QED BY <2>1, <2>2, <2>3, <2>4
<1> QED BY <1>3, <1>4, <1>5

\* So does the hidden start --spec
LEMMA ParseSpecStep == ASSUME GrammarInv, ParseSpec PROVE GrammarInv'
<1>1. /\ stage = "verb" /\ stage' = "decided" /\ UNCHANGED <<argv, lifted, opaque, at, opts, tty, exit>>
      /\ decision'.kind \in {"start-spec", "usage"}
  BY DEF ParseSpec, Decide, Usage
<1>2. ~lifted.help /\ exit.ran = Nothing
  BY <1>1 DEF GrammarInv, HelpSeen, Nothing
<1>3. PICK val, org, sep : Passes(val, org, sep)
  BY DEF GrammarInv
<1>4. Passes(val, org, sep)'
  BY <1>1, <1>3 DEF Passes
<1>5. Decided'
  BY <1>1 DEF Decided
<1>6. at \in 1 .. Len(lifted.tokens) + 2 /\ opts \in OptsType
  BY DEF GrammarInv, GrammarTypes
<1> QED BY <1>1, <1>2, <1>4, <1>5, <1>6, AfterLift

\* So does the end of the second pass
LEMMA ConcludeStep == ASSUME GrammarInv, Conclude PROVE GrammarInv'
<1>1. /\ stage = "verb" /\ stage' = "decided" /\ UNCHANGED <<argv, lifted, opaque, at, opts, tty, exit>>
      /\ \/ decision' = [kind |-> "usage"]
         \/ /\ decision' = [kind |-> "run", verb |-> Verb, sub |-> opts.sub]
            /\ ~Lacks(Verb, opts, tty) /\ Confirmed(Verb, opts, tty)
  BY DEF Conclude, Decide, Usage
<1>2. ~lifted.help /\ exit.ran = Nothing
  BY <1>1 DEF GrammarInv, HelpSeen, Nothing
<1>3. PICK val, org, sep : Passes(val, org, sep)
  BY DEF GrammarInv
<1>4. Passes(val, org, sep)'
  BY <1>1, <1>3 DEF Passes
<1>5. Decided'
  BY <1>1 DEF Decided, Verb
<1>6. at \in 1 .. Len(lifted.tokens) + 2 /\ opts \in OptsType
  BY DEF GrammarInv, GrammarTypes
<1> QED BY <1>1, <1>2, <1>4, <1>5, <1>6, AfterLift

\* So do the handler that runs and its exit code
LEMMA DispatchStep == ASSUME GrammarInv, NEW c, Dispatch(c) PROVE GrammarInv'
<1>1. /\ stage = "decided" /\ stage' = "exit"
      /\ c \in Codes(Handler(decision)) /\ exit' = [ran |-> Handler(decision), code |-> c]
      /\ UNCHANGED <<argv, lifted, opaque, at, opts, tty, decision>>
  BY DEF Dispatch
<1>2. Codes(Handler(decision)) \subseteq 0 .. 255
  BY DEF Codes, Failures
<1>3. decision.kind = "help" => Handler(decision) = "help" /\ c = 0
  <2> SUFFICES ASSUME decision.kind = "help" PROVE Handler(decision) = "help" /\ c = 0
    OBVIOUS
  <2>1. Handler(decision) = "help" BY DEF Handler
  <2>2. Codes("help") = {0} BY DEF Codes
  <2> QED BY <1>1, <2>1, <2>2
<1>4. exit'.code \in 0 .. 255 /\ (decision'.kind = "help" => exit' = [ran |-> "help", code |-> 0])
  BY <1>1, <1>2, <1>3
<1>5. lifted.help => decision'.kind = "help"
  BY <1>1 DEF GrammarInv, HelpSeen
<1>6. PICK val, org, sep : Passes(val, org, sep)
  BY DEF GrammarInv
<1>7. Passes(val, org, sep)'
  BY <1>1, <1>6 DEF Passes
<1>8. Decided'
  BY <1>1 DEF GrammarInv, Decided, Verb
<1>9. /\ at \in 1 .. Len(lifted.tokens) + 2 /\ opts \in OptsType
      /\ decision.kind \in {Nothing, "usage", "help", "version", "start-spec", "run"}
  BY DEF GrammarInv, GrammarTypes
<1> QED BY <1>1, <1>4, <1>5, <1>7, <1>8, <1>9, AfterLift

\* So does a token of the second pass: what it reads is what stood there on the
\* command line, a value in a value's place and an option in an option's
LEMMA ParseTokenStep == ASSUME GrammarInv, ParseToken PROVE GrammarInv'
<1> DEFINE t == lifted.tokens
           raw == t[at]
           token == Long(Verb, raw)
<1>1. /\ stage = "verb" /\ at <= Len(t) /\ UNCHANGED <<argv, lifted, opaque, tty, exit>>
      /\ ~lifted.help /\ exit.ran = Nothing /\ decision.kind = Nothing
      /\ opts \in OptsType /\ at \in 1 .. Len(t) + 2 /\ t \in Seq(AnyToken)
  BY DEF GrammarInv, GrammarTypes, HelpSeen, Nothing, ParseToken, LiftedType
<1>2. PICK val, org, sep : Passes(val, org, sep)
  BY DEF GrammarInv
<1>3. Marks(t, val, sep) /\ Verb = t[1]
  BY <1>1, <1>2, MarksOf
<1>4. Reads(t, val, sep, at, opts)
  BY <1>1, <1>2 DEF Passes
<1>5. Len(t) \in Nat /\ at \in 2 .. Len(t) /\ raw \in AnyToken
  BY <1>1, <1>4 DEF Reads
<1>o. /\ opts.set \subseteq AllSwitches /\ opts.given \subseteq OptionFlags \X AnyToken
      /\ opts.names \in Seq(AnyToken) /\ opts.env \in Seq(AnyToken)
      /\ opts.command \in Seq(AnyToken) /\ opts.separated \in BOOLEAN
      /\ opts.pending \in OptionFlags \cup {Nothing}
  BY <1>1 DEF OptsType
<1>6. CASE Refuses
  <2>1. /\ stage' = "decided" /\ decision' = [kind |-> "usage"] /\ UNCHANGED <<at, opts>>
    BY <1>6 DEF Refuses, Usage, Decide
  <2>2. Passes(val, org, sep)' BY <1>1, <1>2, <2>1 DEF Passes
  <2>3. Decided' BY <2>1 DEF Decided
  <2> QED BY <1>1, <2>1, <2>2, <2>3, AfterLift
<1>7. ASSUME UNCHANGED <<stage, decision>>, opts' \in OptsType, at' \in 2 .. Len(t) + 1,
             Reads(t, val, sep, at', opts')
      PROVE  GrammarInv'
  <2>1. Passes(val, org, sep)' BY <1>1, <1>2, <1>7 DEF Passes
  <2>2. Decided' BY <1>1, <1>7 DEF Decided, Nothing
  <2>3. at' \in 1 .. Len(t) + 2 BY <1>5, <1>7
  <2> QED BY <1>1, <1>7, <2>1, <2>2, <2>3, AfterLift
<1>8. at + 1 \in 2 .. Len(t) + 1 /\ Len(t) + 1 \in 2 .. Len(t) + 1
  BY <1>5
<1>9. ASSUME NEW next \in OptsType, Goes(next), Reads(t, val, sep, at + 1, next)
      PROVE  GrammarInv'
  <2>1. opts' = next /\ at' = at + 1 /\ UNCHANGED <<stage, decision>>
    BY <1>9 DEF Goes
  <2> HIDE DEF t
  <2> QED BY <1>7, <1>8, <1>9, <2>1
\* What is read with no value due, and takes none
<1>10. ASSUME NEW next \in OptsType, Goes(next), opts.pending = Nothing,
              ~TakesValue(Verb, raw), raw # "--",
              next.pending = opts.pending, next.separated = opts.separated,
              next.command = opts.command, next.env = opts.env, next.given = opts.given,
              next.set \subseteq opts.set \cup {token}
       PROVE  GrammarInv'
  <2>1. Reads(t, val, sep, at + 1, next)
    <3>1. next.set \subseteq opts.set \cup {Long(t[1], t[at])} BY <1>3, <1>10
    <3>2. ~TakesValue(t[1], t[at]) /\ t[at] # "--" /\ next.pending = Nothing BY <1>3, <1>10
    <3> HIDE DEF t
    <3> QED BY <1>1, <1>3, <1>4, <1>10, <3>1, <3>2, ReadPlain
  <2> QED BY <1>9, <1>10, <2>1
<1>11. CASE opts.pending # Nothing
  <2> DEFINE next == [opts EXCEPT !.pending = Nothing,
                        !.given = {g \in @ : g[1] # opts.pending \/ Verb = "exec"}
                                    \cup {<<opts.pending, raw>>},
                        !.env = IF Verb = "exec" THEN Append(@, raw) ELSE @]
  <2>1. Refuses \/ Goes(next)
    BY <1>11 DEF ParseToken
  <2>2. CASE Goes(next)
    <3>1. PICK env2 : env2 = IF Verb = "exec" THEN Append(opts.env, raw) ELSE opts.env
      OBVIOUS
    <3>2. PICK given2 : given2 = {g \in opts.given : g[1] # opts.pending \/ Verb = "exec"}
                                    \cup {<<opts.pending, raw>>}
      OBVIOUS
    <3>3. env2 \in Seq(AnyToken) /\ (Verb = "exec" => env2 # <<>>)
      BY <1>5, <1>o, <3>1
    <3>4. opts.pending \in OptionFlags BY <1>11, <1>o
    <3>5. /\ given2 \subseteq opts.given \cup {<<opts.pending, raw>>}
          /\ given2 \subseteq OptionFlags \X AnyToken
      BY <1>5, <1>o, <3>2, <3>4
    <3>6. next = [opts EXCEPT !.pending = Nothing, !.given = given2, !.env = env2]
      BY <3>1, <3>2
    <3> HIDE DEF next
    <3>7. /\ next \in OptsType /\ next.pending = Nothing /\ next.given = given2 /\ next.env = env2
          /\ next.separated = opts.separated /\ next.command = opts.command /\ next.set = opts.set
      BY <1>1, <3>3, <3>5, <3>6 DEF OptsType
    <3>8. Reads(t, val, sep, at + 1, next)
      <4>1. /\ t[1] = "exec" => next.env # <<>>
            /\ next.given \subseteq opts.given \cup {<<opts.pending, t[at]>>}
        BY <1>3, <3>3, <3>5, <3>7
      <4> HIDE DEF t
      <4> QED BY <1>1, <1>3, <1>4, <1>11, <3>7, <4>1, ReadValue
    <3> QED BY <1>9, <2>2, <3>7, <3>8
  <2> HIDE DEF next
  <2> QED BY <1>6, <2>1, <2>2
<1>12. CASE opts.pending = Nothing /\ Verb = "exec" /\ raw = "--"
  <2>1. /\ opts' = [opts EXCEPT !.separated = TRUE, !.command = SubSeq(t, at + 1, Len(t))]
        /\ at' = Len(t) + 1 /\ UNCHANGED <<stage, decision>>
    BY <1>12 DEF ParseToken, IsSub, Subs
  <2>2. PICK rest : rest = SubSeq(t, at + 1, Len(t)) OBVIOUS
  <2>3. rest \in Seq(AnyToken) BY <1>1, <1>5, <2>2
  <2>4. /\ opts' \in OptsType /\ opts'.pending = Nothing /\ opts'.separated = TRUE
        /\ opts'.command = rest /\ opts'.env = opts.env /\ opts'.given = opts.given
        /\ opts'.set = opts.set
    <3> HIDE DEF t
    <3> QED BY <1>1, <1>12, <2>1, <2>2, <2>3 DEF OptsType
  <2>5. Reads(t, val, sep, Len(t) + 1, opts')
    <3>1. t[at] = "--" BY <1>12
    <3> HIDE DEF t
    <3> QED BY <1>1, <1>3, <1>4, <1>12, <2>2, <2>4, <3>1, ReadSeparator
  <2> HIDE DEF t
  <2> QED BY <1>7, <1>8, <2>1, <2>4, <2>5
<1>13. CASE opts.pending = Nothing /\ ~(Verb = "exec" /\ raw = "--") /\ IsSub(raw)
  <2> DEFINE next == [opts EXCEPT !.sub = raw]
  <2>1. Goes(next) BY <1>13 DEF ParseToken
  <2>2. ~TakesValue(Verb, raw) /\ raw # "--"
    BY <1>13, PlainToken DEF IsSub
  <2>3. /\ next \in OptsType /\ next.pending = opts.pending /\ next.given = opts.given
        /\ next.env = opts.env /\ next.separated = opts.separated /\ next.command = opts.command
        /\ next.set = opts.set
    BY <1>1, <1>5 DEF OptsType
  <2> HIDE DEF next
  <2> QED BY <1>10, <1>13, <2>1, <2>2, <2>3
<1>14. CASE opts.pending = Nothing /\ ~(Verb = "exec" /\ raw = "--") /\ ~IsSub(raw)
  <2> DEFINE over == [opts EXCEPT !.set = @ \cup {token}]
             due == [opts EXCEPT !.pending = token]
             longer == [opts EXCEPT !.names = IF Verb = "update" /\ Contains(@, raw)
                                                THEN @ ELSE Append(@, raw)]
  <2>1. \/ Refuses
        \/ token \in Switches(Verb, opts.sub) /\ Goes(over)
        \/ token \in Valued(Verb, opts.sub) /\ Goes(due)
        \/ raw \in Words /\ Goes(longer)
    <3>1. (CASE at = 2 /\ Verb \in NeedsSub -> Refuses
            [] token \in Switches(Verb, opts.sub) -> Goes(over)
            [] token \in Valued(Verb, opts.sub) -> Goes(due)
            [] raw \in Words /\ NameOk(Verb, raw) /\ Len(opts.names) < MaxNames(Verb, opts.sub) ->
                 Goes(longer)
            [] OTHER -> Refuses)
      BY <1>14 DEF ParseToken
    <3> HIDE DEF over, due, longer, token, raw, t
    <3> QED BY <3>1
  <2>2. CASE token \in Switches(Verb, opts.sub) /\ Goes(over)
    <3>1. ~TakesValue(Verb, raw) /\ raw # "--" BY <2>2, PlainToken
    <3>2. token \in AllSwitches BY <2>2, SwitchesAll
    <3> HIDE DEF token, raw, t
    <3>3. /\ over \in OptsType /\ over.pending = opts.pending /\ over.given = opts.given
          /\ over.env = opts.env /\ over.separated = opts.separated /\ over.command = opts.command
          /\ over.set = opts.set \cup {token}
      BY <1>1, <3>2 DEF OptsType
    <3> HIDE DEF over
    <3> QED BY <1>10, <1>14, <2>2, <3>1, <3>3
  <2>3. CASE token \in Valued(Verb, opts.sub) /\ Goes(due)
    <3>1. TakesValue(Verb, raw) /\ raw # "--" /\ token # Nothing /\ token \in OptionFlags
      BY <2>3, ValuedToken
    <3>2. TakesValue(t[1], t[at]) /\ t[at] # "--" /\ token = Long(t[1], t[at]) BY <1>3, <3>1
    <3> HIDE DEF token, raw, t
    <3>3. /\ due \in OptsType /\ due.pending = token /\ due.given = opts.given
          /\ due.env = opts.env /\ due.separated = opts.separated /\ due.command = opts.command
          /\ due.set = opts.set
      BY <1>1, <3>1 DEF OptsType
    <3> HIDE DEF due
    <3>4. Reads(t, val, sep, at + 1, due)
      BY <1>1, <1>3, <1>4, <1>14, <3>1, <3>2, <3>3, ReadOption
    <3> QED BY <1>9, <2>3, <3>3, <3>4
  <2>4. CASE raw \in Words /\ Goes(longer)
    <3>1. ~TakesValue(Verb, raw) /\ raw # "--" BY <2>4, PlainToken
    <3>2. PICK names2 : names2 = IF Verb = "update" /\ Contains(opts.names, raw)
                                   THEN opts.names ELSE Append(opts.names, raw)
      OBVIOUS
    <3>3. names2 \in Seq(AnyToken) BY <1>5, <1>o, <3>2
    <3>4. longer = [opts EXCEPT !.names = names2] BY <3>2
    <3> HIDE DEF token, raw, t, longer
    <3>5. /\ longer \in OptsType /\ longer.pending = opts.pending /\ longer.given = opts.given
          /\ longer.env = opts.env /\ longer.separated = opts.separated
          /\ longer.command = opts.command /\ longer.set = opts.set
      BY <1>1, <3>3, <3>4 DEF OptsType
    <3> QED BY <1>10, <1>14, <2>4, <3>1, <3>5
  <2> HIDE DEF over, due, longer, token, raw, t
  <2> QED BY <1>6, <2>1, <2>2, <2>3, <2>4
<1> HIDE DEF raw
<1> QED BY <1>11, <1>12, <1>13, <1>14

\* At the start nothing is lifted and nothing is read
LEMMA GrammarStart == GrammarInit => GrammarInv
<1> SUFFICES ASSUME GrammarInit PROVE GrammarInv
  OBVIOUS
<1>1. /\ argv = <<>> /\ stage = "lift" /\ at = 1 /\ opts = NoOpts /\ opaque = FALSE
      /\ lifted = [tokens |-> <<>>, level |-> 0, help |-> FALSE, version |-> FALSE,
                   verb |-> Nothing, value |-> FALSE]
      /\ tty \in BOOLEAN /\ decision.kind = Nothing /\ exit.ran = Nothing
  BY GrammarAssumption DEF GrammarInit
<1>2. GrammarTypes
  <2>1. <<>> \in Seq(AnyToken) /\ Len(<<>>) = 0 OBVIOUS
  <2>2. NoOpts \in OptsType
    <3>1. Nothing \in AnyToken BY DEF AnyToken
    <3>2. {} \in SUBSET AllSwitches /\ {} \in SUBSET (OptionFlags \X AnyToken) OBVIOUS
    <3> QED BY <2>1, <3>1, <3>2 DEF NoOpts, OptsType
  <2>3. lifted \in LiftedType BY <1>1, <2>1 DEF LiftedType, Quiet
  <2>4. at \in 1 .. Len(lifted.tokens) + 2 BY <1>1
  <2> QED BY <1>1, <2>1, <2>2, <2>3, <2>4 DEF GrammarTypes
<1>3. VerbKnown BY <1>1 DEF VerbKnown
<1>4. HelpSeen BY <1>1 DEF HelpSeen
<1>5. Decided BY <1>1 DEF Decided, Nothing
<1>6. \E val, org, sep : Passes(val, org, sep)
  <2> DEFINE val == [k \in 1 .. 1 |-> FALSE]
             org == [k \in 1 .. 0 |-> 1]
  <2>1. RunTo(<<>>, 0, 0)
    <3> DEFINE run == [k \in 0 .. 0 |-> 0]
    <3>1. run \in [0 .. 0 -> Quiet .. 3] /\ run[0] = 0 BY DEF Quiet
    <3>2. \A k \in 1 .. 0 : FALSE OBVIOUS
    <3> HIDE DEF run
    <3> QED BY <3>1, <3>2 DEF RunTo
  <2>2. Len(<<>>) = 0 OBVIOUS
  <2>3. org \in [1 .. 0 -> 1 .. 0] /\ val \in [1 .. 0 + 1 -> BOOLEAN] /\ val[1] = FALSE
    OBVIOUS
  <2> HIDE DEF val, org
  <2>4. Lifts(<<>>, <<>>, Nothing, FALSE, 0, FALSE, val, org, 1)
    BY <2>1, <2>2, <2>3 DEF Lifts
  <2>5. Passes(val, org, 1) BY <1>1, <2>4 DEF Passes, Nothing
  <2> QED BY <2>5
<1> QED BY <1>2, <1>3, <1>4, <1>5, <1>6 DEF GrammarInv

\* Every step keeps the invariant
LEMMA GrammarStep == GrammarInv /\ [GrammarNext]_grammarVars => GrammarInv'
<1> SUFFICES ASSUME GrammarInv, [GrammarNext]_grammarVars PROVE GrammarInv'
  OBVIOUS
<1>1. ASSUME NEW token \in (IF lifted.verb = Nothing THEN FirstTokens ELSE Tokens(lifted.verb)),
             Type(token)
      PROVE  GrammarInv'
  BY <1>1, TypeStep
<1>2. CASE EndOfArgv BY <1>2, EndOfArgvStep
<1>3. CASE ParseSpec BY <1>3, ParseSpecStep
<1>4. CASE ParseToken BY <1>4, ParseTokenStep
<1>5. CASE Conclude BY <1>5, ConcludeStep
<1>6. ASSUME NEW c, Dispatch(c) PROVE GrammarInv' BY <1>6, DispatchStep
<1>7. CASE UNCHANGED grammarVars
  <2>1. UNCHANGED <<argv, stage, lifted, opaque, at, opts, tty, decision, exit>>
    BY <1>7 DEF grammarVars
  <2>2. PICK val, org, sep : Passes(val, org, sep) BY DEF GrammarInv
  <2>3. Passes(val, org, sep)' BY <2>1, <2>2 DEF Passes
  <2>4. GrammarTypes' /\ VerbKnown' /\ HelpSeen' /\ Decided'
    BY <2>1 DEF GrammarInv, GrammarTypes, VerbKnown, HelpSeen, Decided, Verb
  <2> QED BY <2>3, <2>4 DEF GrammarInv
<1> QED BY <1>1, <1>2, <1>3, <1>4, <1>5, <1>6, <1>7 DEF GrammarNext

\* The invariant gives every promise of the grammar
LEMMA GrammarInvImplies == GrammarInv => GrammarSafe
<1> SUFFICES ASSUME GrammarInv PROVE GrammarSafe
  OBVIOUS
<1> DEFINE t == lifted.tokens
<1>1. /\ argv \in Seq(AnyToken) /\ t \in Seq(AnyToken) /\ opts \in OptsType
      /\ lifted \in LiftedType /\ Len(argv) \in Nat /\ Len(t) \in Nat
      /\ lifted.level \in Quiet .. 3 /\ tty \in BOOLEAN /\ opaque \in BOOLEAN
  BY DEF GrammarInv, GrammarTypes, LiftedType
<1>2. PICK val, org, sep : Passes(val, org, sep)
  BY DEF GrammarInv
<1>3. /\ org \in [1 .. Len(t) -> 1 .. Len(argv)]
      /\ \A k \in 1 .. Len(t) : t[k] = argv[org[k]]
      /\ \A k \in 1 .. Len(t) - 1 : (val[k + 1] \/ k >= sep) => org[k + 1] = org[k] + 1
      /\ opaque => org[Len(t)] = Len(argv)
      /\ ~opaque => sep = Len(t) + 1
      /\ (\A k \in 1 .. Len(t) + 1 : ~val[k]) =>
            RunTo(argv, IF opaque THEN org[sep] - 1 ELSE Len(argv), lifted.level)
  BY <1>2 DEF Passes, Lifts
<1>4. GrammarTypeOK
  <2>1. ToSet(t) \subseteq ToSet(argv)
    <3> SUFFICES ASSUME NEW k \in 1 .. Len(t) PROVE t[k] \in ToSet(argv)
      BY <1>1 DEF ToSet
    <3>1. t[k] = argv[org[k]] /\ org[k] \in 1 .. Len(argv) BY <1>3
    <3> QED BY <1>1, <3>1 DEF ToSet
  <2>2. exit.ran # Nothing => exit.code \in 0 .. 255
    BY DEF GrammarInv, HelpSeen
  <2>3. opts.set \subseteq AllSwitches BY <1>1 DEF OptsType
  <2>4. lifted.level \in -1 .. 3 BY <1>1 DEF Quiet
  <2> QED BY <2>1, <2>2, <2>3, <2>4 DEF GrammarInv, GrammarTypes, GrammarTypeOK, AllSwitches
<1>r. ASSUME decision.kind = "run"
      PROVE  /\ Marks(t, val, sep) /\ Verb = t[1] /\ Reads(t, val, sep, at, opts)
             /\ decision.verb = t[1] /\ decision.sub = opts.sub
             /\ ~Lacks(t[1], opts, tty) /\ Confirmed(t[1], opts, tty)
  <2>1. Marks(t, val, sep) /\ Verb = t[1] BY <1>2, <1>r, MarksOf
  <2>2. Reads(t, val, sep, at, opts) BY <1>2, <1>r DEF Passes
  <2> QED BY <1>r, <2>1, <2>2 DEF GrammarInv, Decided
<1>5. CommandIsVerbatim
  <2> SUFFICES ASSUME decision.kind = "run", decision.verb = "exec"
               PROVE  \E i \in DOMAIN argv :
                        /\ argv[i] = "--" /\ opts.command = SubSeq(argv, i + 1, Len(argv))
                        /\ opts.env = <<>> => LevelAfter(SubSeq(argv, 1, i - 1), lifted.level)
    BY DEF CommandIsVerbatim, Ran
  <2>1. t[1] = "exec" /\ opts.command # <<>> /\ Reads(t, val, sep, at, opts) /\ Marks(t, val, sep)
    BY <1>r DEF Lacks
  <2>2. opts.separated BY <1>1, <2>1 DEF Reads, OptsType
  <2>3. /\ sep \in 1 .. Len(t) /\ opts.command = SubSeq(t, sep + 1, Len(t)) /\ t[sep] = "--"
        /\ opts.env = <<>> => \A k \in 1 .. Len(t) + 1 : ~val[k]
    BY <1>1, <2>1, <2>2 DEF Reads, Marks
  <2>4. opaque /\ org[Len(t)] = Len(argv) BY <1>1, <1>3, <2>3
  <2> DEFINE i == org[sep]
  <2>5. i \in 1 .. Len(argv) /\ argv[i] = "--" BY <1>3, <2>3
  <2> HIDE DEF i, t
  \* Behind the separator the two sequences run in step
  <2>6. \A d \in Nat : sep + d <= Len(t) => org[sep + d] = i + d
    <3> DEFINE Off == {d \in Nat : sep + d <= Len(t) /\ org[sep + d] # i + d}
    <3> SUFFICES ASSUME Off # {} PROVE FALSE
      OBVIOUS
    <3>1. PICK d \in Off : \A e \in Off : d <= e
      <4>1. Off \in SUBSET Nat OBVIOUS
      <4> HIDE DEF Off
      <4> QED BY <4>1, Least
    <3>2. d \in Nat /\ sep + d <= Len(t) /\ org[sep + d] # i + d
      BY <3>1
    <3>3. d # 0 BY <1>1, <2>3, <2>5, <3>2 DEF i
    <3>4. d - 1 \in Nat /\ sep + (d - 1) <= Len(t) /\ sep + (d - 1) \in 1 .. Len(t) - 1
          /\ sep + (d - 1) >= sep /\ (sep + (d - 1)) + 1 = sep + d
      BY <1>1, <2>3, <3>2, <3>3
    <3>5. org[sep + (d - 1)] = i + (d - 1)
      <4>1. d - 1 \notin Off BY <3>1, <3>2, <3>4
      <4> QED BY <3>4, <4>1
    <3>6. org[sep + d] = org[sep + (d - 1)] + 1 BY <1>3, <3>4
    <3> QED BY <2>5, <3>2, <3>5, <3>6
  <2>7. Len(argv) = i + (Len(t) - sep)
    <3>1. Len(t) - sep \in Nat /\ sep + (Len(t) - sep) = Len(t) BY <1>1, <2>3
    <3> QED BY <2>4, <2>6, <3>1
  <2>8. SubSeq(t, sep + 1, Len(t)) = SubSeq(argv, i + 1, Len(argv))
    <3> DEFINE l == Len(t) - sep
    <3>0. l \in Nat /\ (sep + 1) - 1 = sep /\ (i + 1) - 1 = i /\ sep \in Nat /\ i \in Nat
      BY <1>1, <2>3, <2>5
    <3>1. /\ SubSeq(t, sep + 1, Len(t)) \in Seq(AnyToken)
          /\ Len(SubSeq(t, sep + 1, Len(t))) = l
          /\ \A k \in 1 .. l : SubSeq(t, sep + 1, Len(t))[k] = t[sep + k]
      <4>1. sep + 1 \in 1 .. Len(t) + 1 /\ Len(t) \in sep .. Len(t)
        BY <1>1, <2>3
      <4> QED BY <1>1, <3>0, <4>1, SubSeqProperties
    <3>2. /\ SubSeq(argv, i + 1, Len(argv)) \in Seq(AnyToken)
          /\ Len(SubSeq(argv, i + 1, Len(argv))) = l
          /\ \A k \in 1 .. l : SubSeq(argv, i + 1, Len(argv))[k] = argv[i + k]
      <4>1. i + 1 \in 1 .. Len(argv) + 1 /\ Len(argv) \in i .. Len(argv)
        BY <1>1, <2>5
      <4> QED BY <1>1, <2>7, <3>0, <4>1, SubSeqProperties
    <3>3. ASSUME NEW k \in 1 .. l PROVE t[sep + k] = argv[i + k]
      <4>1. k \in Nat /\ sep + k <= Len(t) /\ sep + k \in 1 .. Len(t) BY <1>1, <2>3, <3>0
      <4> QED BY <1>3, <2>6, <4>1
    <3> HIDE DEF l
    <3>4. PICK x, y : x = SubSeq(t, sep + 1, Len(t)) /\ y = SubSeq(argv, i + 1, Len(argv))
      OBVIOUS
    <3>5. /\ x \in Seq(AnyToken) /\ y \in Seq(AnyToken) /\ Len(x) = Len(y)
          /\ \A k \in 1 .. Len(x) : x[k] = y[k]
      BY <3>1, <3>2, <3>3, <3>4
    <3>6. x = y BY <3>5, SeqEqual
    <3> QED BY <3>4, <3>6
  <2>9. ASSUME opts.env = <<>> PROVE LevelAfter(SubSeq(argv, 1, i - 1), lifted.level)
    <3>1. RunTo(argv, i - 1, lifted.level) BY <1>3, <2>3, <2>4, <2>9 DEF i
    <3>2. /\ Len(SubSeq(argv, 1, i - 1)) = i - 1 /\ DOMAIN SubSeq(argv, 1, i - 1) = 1 .. i - 1
          /\ \A k \in 1 .. i - 1 : SubSeq(argv, 1, i - 1)[k] = argv[k]
      BY <1>1, <2>5
    <3> QED BY <3>1, <3>2 DEF RunTo, LevelAfter
  <2>10. i \in DOMAIN argv BY <1>1, <2>5
  <2> QED BY <2>3, <2>5, <2>8, <2>9, <2>10
<1>6. ValuesStayValues
  <2> SUFFICES ASSUME decision.kind = "run", NEW g \in opts.given
               PROVE  \E i \in 1 .. Len(argv) - 1 :
                        Long(decision.verb, argv[i]) = g[1] /\ argv[i + 1] = g[2]
    BY DEF ValuesStayValues
  <2>1. PICK k \in 1 .. Len(t) - 1 : val[k + 1] /\ Long(t[1], t[k]) = g[1] /\ t[k + 1] = g[2]
    BY <1>r DEF Reads
  <2>2. k \in 1 .. Len(t) /\ k + 1 \in 1 .. Len(t) BY <1>1, <2>1
  <2>3. org[k + 1] = org[k] + 1 BY <1>3, <2>1
  <2>4. org[k] \in 1 .. Len(argv) /\ org[k + 1] \in 1 .. Len(argv) BY <1>3, <2>2
  <2>5. org[k] \in 1 .. Len(argv) - 1 BY <1>1, <2>3, <2>4
  <2>6. argv[org[k]] = t[k] /\ argv[org[k] + 1] = t[k + 1] BY <1>3, <2>2, <2>3
  <2>7. decision.verb = t[1] BY <1>r
  <2> QED BY <2>1, <2>5, <2>6, <2>7
<1>7. DestructiveIsConfirmed
  <2> SUFFICES ASSUME ~tty, decision.kind = "run",
                      decision.verb = "destroy" \/ (decision.verb = "volume" /\ decision.sub = "prune")
               PROVE  ToSet(argv) \cap {"--yes", "-f", "--dry-run", "-n"} # {}
    BY DEF DestructiveIsConfirmed, Ran
  <2>1. PICK s \in opts.set : s \in {"--yes", "--dry-run"}
    BY <1>r DEF Confirmed
  <2>2. PICK k \in 1 .. Len(t) : s = Long(t[1], t[k])
    BY <1>r DEF Reads
  <2>3. t[k] \in {"--yes", "-f", "--dry-run", "-n"}
    BY <2>1, <2>2 DEF Long
  <2>4. t[k] \in ToSet(argv) BY <1>1, <1>3 DEF ToSet
  <2> QED BY <2>3, <2>4
<1>8. HelpRunsNothing
  BY DEF GrammarInv, HelpSeen, HelpRunsNothing, ValueFlags
<1> QED BY <1>4, <1>5, <1>6, <1>7, <1>8 DEF GrammarSafe

\* For any tokens and any number of them: exec's command is what was typed behind
\* the separator, a value is the token typed behind its option, help wins, and
\* nothing is deleted off a terminal without the typed consent (lift_globals, the
\* verbs' parsers, main).
THEOREM GrammarIsSafe == GrammarSpec => []GrammarSafe
<1>1. GrammarInit => GrammarInv BY GrammarStart
<1>2. GrammarInv /\ [GrammarNext]_grammarVars => GrammarInv' BY GrammarStep
<1>3. GrammarInv => GrammarSafe BY GrammarInvImplies
<1> QED BY <1>1, <1>2, <1>3, PTL DEF GrammarSpec

----------------------------------------------------------------------------
(***************************************************************************)
(* Confinement: the rendered command                                       *)
(***************************************************************************)
IsSeq(s) == \E S : s \in Seq(S)

\* Two sequences one after the other
LEMMA Joined ==
    ASSUME NEW a, NEW b, IsSeq(a), IsSeq(b)
    PROVE  /\ IsSeq(a \o b) /\ Len(a) \in Nat /\ Len(b) \in Nat /\ Len(a \o b) = Len(a) + Len(b)
           /\ DOMAIN a = 1 .. Len(a) /\ DOMAIN b = 1 .. Len(b)
           /\ DOMAIN (a \o b) = 1 .. Len(a) + Len(b)
           /\ \A i \in 1 .. Len(a) : (a \o b)[i] = a[i]
           /\ \A i \in 1 .. Len(b) : (a \o b)[Len(a) + i] = b[i]
<1>1. PICK A : a \in Seq(A) BY DEF IsSeq
<1>2. PICK B : b \in Seq(B) BY DEF IsSeq
<1>3. /\ Len(a) \in Nat /\ DOMAIN a = 1 .. Len(a) /\ a \in [1 .. Len(a) -> A]
      /\ Len(b) \in Nat /\ DOMAIN b = 1 .. Len(b) /\ b \in [1 .. Len(b) -> B]
  BY <1>1, <1>2
<1>4. PICK C : C = A \cup B OBVIOUS
<1>5. a \in [1 .. Len(a) -> C] /\ b \in [1 .. Len(b) -> C] BY <1>3, <1>4
<1>6. a \in Seq(C) /\ b \in Seq(C) BY <1>3, <1>5
<1>7. a \o b \in Seq(C) BY <1>6
<1>8. /\ Len(a \o b) = Len(a) + Len(b)
      /\ \A i \in 1 .. Len(a) : (a \o b)[i] = a[i]
      /\ \A i \in 1 .. Len(b) : (a \o b)[Len(a) + i] = b[i]
  BY <1>6
<1>9. IsSeq(a \o b) BY <1>7 DEF IsSeq
<1>10. DOMAIN (a \o b) = 1 .. Len(a \o b) BY <1>7
<1> QED BY <1>3, <1>8, <1>9, <1>10

\* w is a and then b
Joins(w, a, b) ==
    /\ IsSeq(w) /\ Len(a) \in Nat /\ Len(b) \in Nat
    /\ DOMAIN a = 1 .. Len(a) /\ DOMAIN b = 1 .. Len(b) /\ DOMAIN w = 1 .. Len(a) + Len(b)
    /\ \A i \in 1 .. Len(a) : w[i] = a[i]
    /\ \A i \in 1 .. Len(b) : w[Len(a) + i] = b[i]

\* Concatenation joins
LEMMA JoinsOf == \A a, b : IsSeq(a) /\ IsSeq(b) => Joins(a \o b, a, b)
  BY Joined DEF Joins

\* A place in the joined sequence is one in either part
LEMMA Places ==
    ASSUME NEW w, NEW a, NEW b, Joins(w, a, b), NEW i \in DOMAIN w
    PROVE  \/ i \in DOMAIN a /\ w[i] = a[i] /\ i <= Len(a)
           \/ i - Len(a) \in DOMAIN b /\ w[i] = b[i - Len(a)] /\ i > Len(a)
<1>1. Len(a) \in Nat /\ Len(b) \in Nat /\ i \in 1 .. Len(a) + Len(b)
  BY DEF Joins
<1>2. CASE i <= Len(a)
  <2>1. i \in 1 .. Len(a) BY <1>1, <1>2
  <2> QED BY <1>2, <2>1 DEF Joins
<1>3. CASE i > Len(a)
  <2>1. i - Len(a) \in 1 .. Len(b) /\ Len(a) + (i - Len(a)) = i BY <1>1, <1>3
  <2>2. w[Len(a) + (i - Len(a))] = b[i - Len(a)] BY <2>1 DEF Joins
  <2> QED BY <1>3, <2>1, <2>2 DEF Joins
<1> QED BY <1>1, <1>2, <1>3

\* A flag stands somewhere, with any value
Carries(s, f) == \E i \in DOMAIN s : s[i][1] = f

\* HasArg asks for the flag alone when it is given no value
LEMMA HasAny == \A s, f : HasArg(s, f, "") <=> Carries(s, f)
  BY Zenon DEF HasArg, Carries

\* A flag of the whole is one of either part
LEMMA CarriesJoined ==
    ASSUME NEW a, NEW b, NEW f, IsSeq(a), IsSeq(b)
    PROVE  Carries(a \o b, f) <=> (Carries(a, f) \/ Carries(b, f))
<1>0. PICK w : w = a \o b OBVIOUS
<1>j. Joins(w, a, b) BY <1>0, JoinsOf
<1>1. ASSUME Carries(w, f) PROVE Carries(a, f) \/ Carries(b, f)
  <2>1. PICK i \in DOMAIN w : w[i][1] = f BY <1>1 DEF Carries
  <2>2. CASE i \in DOMAIN a /\ w[i] = a[i] BY <2>1, <2>2 DEF Carries
  <2>3. CASE i - Len(a) \in DOMAIN b /\ w[i] = b[i - Len(a)] BY <2>1, <2>3 DEF Carries
  <2> QED BY <1>j, <2>2, <2>3, Places
<1>2. ASSUME Carries(a, f) PROVE Carries(w, f)
  <2>1. PICK i \in DOMAIN a : a[i][1] = f BY <1>2 DEF Carries
  <2>2. i \in DOMAIN w /\ w[i] = a[i] BY <1>j DEF Joins
  <2> QED BY <2>1, <2>2 DEF Carries
<1>3. ASSUME Carries(b, f) PROVE Carries(w, f)
  <2>1. PICK i \in DOMAIN b : b[i][1] = f BY <1>3 DEF Carries
  <2>2. Len(a) + i \in DOMAIN w /\ w[Len(a) + i] = b[i] BY <1>j DEF Joins
  <2> QED BY <2>1, <2>2 DEF Carries
<1> QED BY <1>0, <1>1, <1>2, <1>3

\* So is an argument
LEMMA HasJoined ==
    ASSUME NEW a, NEW b, NEW f, NEW v, IsSeq(a), IsSeq(b)
    PROVE  HasArg(a \o b, f, v) <=> (HasArg(a, f, v) \/ HasArg(b, f, v))
<1>0. PICK w : w = a \o b OBVIOUS
<1>j. Joins(w, a, b) BY <1>0, JoinsOf
<1>1. ASSUME HasArg(w, f, v) PROVE HasArg(a, f, v) \/ HasArg(b, f, v)
  <2>1. PICK i \in DOMAIN w : w[i][1] = f /\ (v = "" \/ w[i][2] = v)
    BY <1>1 DEF HasArg
  <2>2. CASE i \in DOMAIN a /\ w[i] = a[i] BY <2>1, <2>2 DEF HasArg
  <2>3. CASE i - Len(a) \in DOMAIN b /\ w[i] = b[i - Len(a)] BY <2>1, <2>3 DEF HasArg
  <2> QED BY <1>j, <2>2, <2>3, Places
<1>2. ASSUME HasArg(a, f, v) PROVE HasArg(w, f, v)
  <2>1. PICK i \in DOMAIN a : a[i][1] = f /\ (v = "" \/ a[i][2] = v) BY <1>2 DEF HasArg
  <2>2. i \in DOMAIN w /\ w[i] = a[i] BY <1>j DEF Joins
  <2> QED BY <2>1, <2>2 DEF HasArg
<1>3. ASSUME HasArg(b, f, v) PROVE HasArg(w, f, v)
  <2>1. PICK i \in DOMAIN b : b[i][1] = f /\ (v = "" \/ b[i][2] = v) BY <1>3 DEF HasArg
  <2>2. Len(a) + i \in DOMAIN w /\ w[Len(a) + i] = b[i] BY <1>j DEF Joins
  <2> QED BY <2>1, <2>2 DEF HasArg
<1> QED BY <1>0, <1>1, <1>2, <1>3

\* Where a flag stands last, and first
LastAt(s, k, f) == k \in 1 .. Len(s) /\ s[k][1] = f /\ \A j \in 1 .. Len(s) : j > k => s[j][1] # f
FirstAt(s, k, f) == k \in 1 .. Len(s) /\ s[k][1] = f /\ \A j \in 1 .. Len(s) : j < k => s[j][1] # f

\* LastOf reads the last place
LEMMA LastIs == ASSUME NEW s, NEW f, NEW k, IsSeq(s), LastAt(s, k, f) PROVE LastOf(s, f) = s[k][2]
<1> DEFINE places == {i \in DOMAIN s : s[i][1] = f}
           it == CHOOSE i \in places : \A j \in places : j <= i
<1>1. DOMAIN s = 1 .. Len(s) /\ Len(s) \in Nat BY DEF IsSeq
<1>2. places \subseteq Nat BY <1>1
<1>3. k \in places BY <1>1 DEF LastAt
<1>4. \A j \in places : j <= k BY <1>1 DEF LastAt
<1> HIDE DEF places
<1>5. it \in places /\ \A j \in places : j <= it BY <1>3, <1>4
<1> HIDE DEF it
<1>6. it = k BY <1>2, <1>3, <1>4, <1>5
<1> QED BY <1>6 DEF LastOf, places, it

\* ValueOf reads the first place
LEMMA FirstIs == ASSUME NEW s, NEW f, NEW k, IsSeq(s), FirstAt(s, k, f) PROVE ValueOf(s, f) = s[k][2]
<1> DEFINE places == {i \in DOMAIN s : s[i][1] = f}
           it == CHOOSE i \in places : \A j \in places : i <= j
<1>1. DOMAIN s = 1 .. Len(s) /\ Len(s) \in Nat BY DEF IsSeq
<1>2. places \subseteq Nat BY <1>1
<1>3. k \in places BY <1>1 DEF FirstAt
<1>4. \A j \in places : k <= j BY <1>1 DEF FirstAt
<1> HIDE DEF places
<1>5. it \in places /\ \A j \in places : it <= j BY <1>3, <1>4
<1> HIDE DEF it
<1>6. it = k BY <1>2, <1>3, <1>4, <1>5
<1> QED BY <1>6 DEF ValueOf, places, it

\* A flag that stands last in a sequence stands last in a longer one, when what
\* follows does not repeat it
LEMMA LastBefore ==
    ASSUME NEW a, NEW b, IsSeq(a), IsSeq(b), NEW k, NEW f, LastAt(a, k, f), ~Carries(b, f)
    PROVE  LastAt(a \o b, k, f)
<1>0. PICK w : w = a \o b OBVIOUS
<1>j. Joins(w, a, b) /\ Len(w) = Len(a) + Len(b) BY <1>0, JoinsOf, Joined
<1>1. /\ Len(a) \in Nat /\ Len(b) \in Nat /\ DOMAIN w = 1 .. Len(w)
      /\ k \in 1 .. Len(a) /\ k \in 1 .. Len(w) /\ DOMAIN a = 1 .. Len(a)
  BY <1>j DEF Joins, LastAt
<1>2. w[k] = a[k] BY <1>1, <1>j DEF Joins
<1>3. ASSUME NEW j \in DOMAIN w, j > k PROVE w[j][1] # f
  <2>1. CASE j \in DOMAIN a /\ w[j] = a[j] BY <1>1, <1>3, <2>1 DEF LastAt
  <2>2. CASE j - Len(a) \in DOMAIN b /\ w[j] = b[j - Len(a)] BY <2>2 DEF Carries
  <2> QED BY <1>j, <2>1, <2>2, Places
<1>4. LastAt(w, k, f) BY <1>1, <1>2, <1>3 DEF LastAt
<1> QED BY <1>0, <1>4

\* A flag that stands last in the second part stands last in the whole
LEMMA LastBehind ==
    ASSUME NEW a, NEW b, IsSeq(a), IsSeq(b), NEW k, NEW f, LastAt(b, k, f)
    PROVE  LastAt(a \o b, Len(a) + k, f) /\ (a \o b)[Len(a) + k] = b[k]
<1>0. PICK w : w = a \o b OBVIOUS
<1>j. Joins(w, a, b) /\ Len(w) = Len(a) + Len(b) BY <1>0, JoinsOf, Joined
<1>1. /\ Len(a) \in Nat /\ Len(b) \in Nat /\ DOMAIN w = 1 .. Len(w) /\ DOMAIN b = 1 .. Len(b)
      /\ k \in 1 .. Len(b) /\ Len(a) + k \in 1 .. Len(w)
  BY <1>j DEF Joins, LastAt
<1>2. w[Len(a) + k] = b[k] BY <1>1, <1>j DEF Joins
<1>3. ASSUME NEW j \in DOMAIN w, j > Len(a) + k PROVE w[j][1] # f
  <2>0. j \in Nat BY <1>1
  <2>1. CASE j <= Len(a) BY <1>1, <1>3, <2>0, <2>1
  <2>2. CASE j - Len(a) \in DOMAIN b /\ w[j] = b[j - Len(a)]
    <3>1. j - Len(a) > k BY <1>1, <1>3, <2>0
    <3> QED BY <1>1, <2>2, <3>1 DEF LastAt
  <2> QED BY <1>j, <2>1, <2>2, Places
<1>4. LastAt(w, Len(a) + k, f) BY <1>1, <1>2, <1>3 DEF LastAt
<1> QED BY <1>0, <1>2, <1>4

\* A flag that stands first in a sequence does so in a longer one
LEMMA FirstBefore ==
    ASSUME NEW a, NEW b, IsSeq(a), IsSeq(b), NEW k, NEW f, FirstAt(a, k, f)
    PROVE  FirstAt(a \o b, k, f) /\ (a \o b)[k] = a[k]
<1>0. PICK w : w = a \o b OBVIOUS
<1>j. Joins(w, a, b) /\ Len(w) = Len(a) + Len(b) BY <1>0, JoinsOf, Joined
<1>1. /\ Len(a) \in Nat /\ Len(b) \in Nat /\ DOMAIN w = 1 .. Len(w)
      /\ k \in 1 .. Len(a) /\ k \in 1 .. Len(w) /\ DOMAIN a = 1 .. Len(a)
  BY <1>j DEF Joins, FirstAt
<1>2. w[k] = a[k] BY <1>1, <1>j DEF Joins
<1>3. ASSUME NEW j \in DOMAIN w, j < k PROVE w[j][1] # f
  <2>0. j \in 1 .. Len(a) BY <1>1, <1>3
  <2>1. w[j] = a[j] BY <1>j, <2>0 DEF Joins
  <2> QED BY <1>3, <2>0, <2>1 DEF FirstAt
<1>4. FirstAt(w, k, f) BY <1>1, <1>2, <1>3 DEF FirstAt
<1> QED BY <1>0, <1>2, <1>4

\* A flag that stands first in the second part does so in the whole, when the
\* first part does not have it
LEMMA FirstBehind ==
    ASSUME NEW a, NEW b, IsSeq(a), IsSeq(b), NEW k, NEW f, FirstAt(b, k, f), ~Carries(a, f)
    PROVE  FirstAt(a \o b, Len(a) + k, f) /\ (a \o b)[Len(a) + k] = b[k]
<1>0. PICK w : w = a \o b OBVIOUS
<1>j. Joins(w, a, b) /\ Len(w) = Len(a) + Len(b) BY <1>0, JoinsOf, Joined
<1>1. /\ Len(a) \in Nat /\ Len(b) \in Nat /\ DOMAIN w = 1 .. Len(w) /\ DOMAIN b = 1 .. Len(b)
      /\ k \in 1 .. Len(b) /\ Len(a) + k \in 1 .. Len(w)
  BY <1>j DEF Joins, FirstAt
<1>2. w[Len(a) + k] = b[k] BY <1>1, <1>j DEF Joins
<1>3. ASSUME NEW j \in DOMAIN w, j < Len(a) + k PROVE w[j][1] # f
  <2>0. j \in Nat BY <1>1
  <2>1. CASE j \in DOMAIN a /\ w[j] = a[j] BY <2>1 DEF Carries
  <2>2. CASE j - Len(a) \in DOMAIN b /\ w[j] = b[j - Len(a)]
    <3>1. j - Len(a) < k BY <1>1, <1>3, <2>0
    <3> QED BY <1>1, <2>2, <3>1 DEF FirstAt
  <2> QED BY <1>j, <2>1, <2>2, Places
<1>4. FirstAt(w, Len(a) + k, f) BY <1>1, <1>2, <1>3 DEF FirstAt
<1> QED BY <1>0, <1>2, <1>4

\* The flag's last value in s is v, and its first one
Ends(s, f, v) == IsSeq(s) /\ \E k : LastAt(s, k, f) /\ s[k][2] = v
Begins(s, f, v) == IsSeq(s) /\ \E k : FirstAt(s, k, f) /\ s[k][2] = v

\* Ends is what LastOf reads
LEMMA EndsMeans == \A s, f, v : Ends(s, f, v) => LastOf(s, f) = v
  BY LastIs DEF Ends

\* Begins is what ValueOf reads
LEMMA BeginsMeans == \A s, f, v : Begins(s, f, v) => ValueOf(s, f) = v
  BY FirstIs DEF Begins

\* The last value of the whole
LEMMA EndsJoined ==
    ASSUME NEW a, NEW b, NEW f, NEW v, IsSeq(a), IsSeq(b),
           Ends(b, f, v) \/ (Ends(a, f, v) /\ ~Carries(b, f))
    PROVE  Ends(a \o b, f, v)
<1>0. IsSeq(a \o b) BY Joined
<1>1. CASE Ends(b, f, v)
  <2>1. PICK k : LastAt(b, k, f) /\ b[k][2] = v BY <1>1 DEF Ends
  <2>2. LastAt(a \o b, Len(a) + k, f) /\ (a \o b)[Len(a) + k] = b[k] BY <2>1, LastBehind
  <2> QED BY <1>0, <2>1, <2>2 DEF Ends
<1>2. CASE Ends(a, f, v) /\ ~Carries(b, f)
  <2>1. PICK k : LastAt(a, k, f) /\ a[k][2] = v BY <1>2 DEF Ends
  <2>2. LastAt(a \o b, k, f) BY <1>2, <2>1, LastBefore
  <2>3. (a \o b)[k] = a[k] BY <2>1, Joined DEF LastAt
  <2> QED BY <1>0, <2>1, <2>2, <2>3 DEF Ends
<1> QED BY <1>1, <1>2

\* The first value of the whole
LEMMA BeginsJoined ==
    ASSUME NEW a, NEW b, NEW f, NEW v, IsSeq(a), IsSeq(b),
           Begins(a, f, v) \/ (Begins(b, f, v) /\ ~Carries(a, f))
    PROVE  Begins(a \o b, f, v)
<1>0. IsSeq(a \o b) BY Joined
<1>1. CASE Begins(a, f, v)
  <2>1. PICK k : FirstAt(a, k, f) /\ a[k][2] = v BY <1>1 DEF Begins
  <2>2. FirstAt(a \o b, k, f) /\ (a \o b)[k] = a[k] BY <2>1, FirstBefore
  <2> QED BY <1>0, <2>1, <2>2 DEF Begins
<1>2. CASE Begins(b, f, v) /\ ~Carries(a, f)
  <2>1. PICK k : FirstAt(b, k, f) /\ b[k][2] = v BY <1>2 DEF Begins
  <2>2. FirstAt(a \o b, Len(a) + k, f) /\ (a \o b)[Len(a) + k] = b[k] BY <1>2, <2>1, FirstBehind
  <2> QED BY <1>0, <2>1, <2>2 DEF Begins
<1> QED BY <1>1, <1>2

----------------------------------------------------------------------------
\* The parts a command is made of; e stands for the empty value
Legs(e) == <<<<"--no-new-privs", e>>, <<"--ambient-caps", "-all">>, <<"--inh-caps", "-all">>>>
Spaces(e) == <<<<"--user", e>>, <<"--map-current-user", e>>, <<"--keep-caps", e>>,
               <<"--mount", e>>, <<"--propagation", "private">>>>
StageStep(e) == <<<<"stage-share", e>>, <<"--source", "source">>, <<"--stage", "stage">>>>
ReadOnly(r, e) == IF r THEN <<<<"--readonly", e>>>> ELSE <<>>
Bounding(b) == IF b THEN <<<<"--bounding-set", "-all">>>> ELSE <<>>
Fixed(root, pool, cache, limit) ==
    <<<<"--socket-path", "socket">>, <<"--shared-dir", root>>, <<"--sandbox", "namespace">>,
      <<"--seccomp", "kill">>, <<"--inode-file-handles", "never">>,
      <<"--thread-pool-size", pool>>, <<"--cache", cache>>, <<"--rlimit-nofile", limit>>>>

LegFlags == {"--no-new-privs", "--ambient-caps", "--inh-caps"}
SpaceFlags == {"--user", "--map-current-user", "--keep-caps", "--mount", "--propagation"}
StepFlags == {"stage-share", "--source", "--stage"}

\* The flags of setpriv
LEMMA LegsFacts ==
    ASSUME NEW e
    PROVE  IsSeq(Legs(e)) /\ \A f : Carries(Legs(e), f) <=> f \in LegFlags
<1>1. Legs(e) \in Seq({<<"--no-new-privs", e>>, <<"--ambient-caps", "-all">>, <<"--inh-caps", "-all">>})
      /\ DOMAIN Legs(e) = 1 .. 3
  BY DEF Legs
<1>2. Legs(e)[1][1] = "--no-new-privs" /\ Legs(e)[2][1] = "--ambient-caps" /\ Legs(e)[3][1] = "--inh-caps"
  BY DEF Legs
<1>3. \A f : Carries(Legs(e), f) <=> f \in LegFlags
  <2>1. \A i \in 1 .. 3 : i = 1 \/ i = 2 \/ i = 3 OBVIOUS
  <2>2. 1 \in 1 .. 3 /\ 2 \in 1 .. 3 /\ 3 \in 1 .. 3 OBVIOUS
  <2> QED BY <1>1, <1>2, <2>1, <2>2, Zenon DEF Carries, LegFlags
<1> QED BY <1>1, <1>3 DEF IsSeq

\* The flags of unshare
LEMMA SpacesFacts ==
    ASSUME NEW e
    PROVE  IsSeq(Spaces(e)) /\ \A f : Carries(Spaces(e), f) <=> f \in SpaceFlags
<1>1. Spaces(e) \in Seq({<<"--user", e>>, <<"--map-current-user", e>>, <<"--keep-caps", e>>,
                         <<"--mount", e>>, <<"--propagation", "private">>})
      /\ DOMAIN Spaces(e) = 1 .. 5
  BY DEF Spaces
<1>2. /\ Spaces(e)[1][1] = "--user" /\ Spaces(e)[2][1] = "--map-current-user"
      /\ Spaces(e)[3][1] = "--keep-caps" /\ Spaces(e)[4][1] = "--mount"
      /\ Spaces(e)[5][1] = "--propagation"
  BY DEF Spaces
<1>3. \A f : Carries(Spaces(e), f) <=> f \in SpaceFlags
  <2>1. \A i \in 1 .. 5 : i = 1 \/ i = 2 \/ i = 3 \/ i = 4 \/ i = 5 OBVIOUS
  <2>2. 1 \in 1 .. 5 /\ 2 \in 1 .. 5 /\ 3 \in 1 .. 5 /\ 4 \in 1 .. 5 /\ 5 \in 1 .. 5 OBVIOUS
  <2> QED BY <1>1, <1>2, <2>1, <2>2, Zenon DEF Carries, SpaceFlags
<1> QED BY <1>1, <1>3 DEF IsSeq

\* The flags of stage-share, and what --source and --stage begin with
LEMMA StageStepFacts ==
    ASSUME NEW e
    PROVE  /\ IsSeq(StageStep(e)) /\ \A f : Carries(StageStep(e), f) <=> f \in StepFlags
           /\ Begins(StageStep(e), "--source", "source") /\ Begins(StageStep(e), "--stage", "stage")
<1>1. StageStep(e) \in Seq({<<"stage-share", e>>, <<"--source", "source">>, <<"--stage", "stage">>})
      /\ DOMAIN StageStep(e) = 1 .. 3 /\ Len(StageStep(e)) = 3
  BY DEF StageStep
<1>2. /\ StageStep(e)[1][1] = "stage-share" /\ StageStep(e)[2][1] = "--source"
      /\ StageStep(e)[3][1] = "--stage" /\ StageStep(e)[2][2] = "source" /\ StageStep(e)[3][2] = "stage"
  BY DEF StageStep
<1>3. \A f : Carries(StageStep(e), f) <=> f \in StepFlags
  <2>1. \A i \in 1 .. 3 : i = 1 \/ i = 2 \/ i = 3 OBVIOUS
  <2>2. 1 \in 1 .. 3 /\ 2 \in 1 .. 3 /\ 3 \in 1 .. 3 OBVIOUS
  <2> QED BY <1>1, <1>2, <2>1, <2>2, Zenon DEF Carries, StepFlags
<1>4. IsSeq(StageStep(e)) BY <1>1 DEF IsSeq
<1>5. PICK s : s = StageStep(e) OBVIOUS
<1>6. FirstAt(s, 2, "--source") /\ FirstAt(s, 3, "--stage")
  <2>1. \A j \in 1 .. 3 : (j < 2 => j = 1) /\ (j < 3 => j = 1 \/ j = 2) OBVIOUS
  <2>2. Len(s) = 3 /\ s[1][1] = "stage-share" /\ s[2][1] = "--source" /\ s[3][1] = "--stage"
    BY <1>1, <1>2, <1>5
  <2>3. \A j \in 1 .. 3 : j < 2 => s[j][1] # "--source" BY <2>1, <2>2
  <2>4. \A j \in 1 .. 3 : j < 3 => s[j][1] # "--stage" BY <2>1, <2>2
  <2> QED BY <2>2, <2>3, <2>4 DEF FirstAt
<1> QED BY <1>2, <1>3, <1>4, <1>5, <1>6 DEF Begins

\* The read-only flag, where there is one
LEMMA ReadOnlyFacts ==
    ASSUME NEW r \in BOOLEAN, NEW e
    PROVE  IsSeq(ReadOnly(r, e)) /\ \A f : Carries(ReadOnly(r, e), f) <=> (r /\ f = "--readonly")
<1>1. CASE r
  <2>1. PICK s : s = <<<<"--readonly", e>>>> OBVIOUS
  <2>2. s \in Seq({<<"--readonly", e>>}) /\ DOMAIN s = 1 .. 1 /\ s[1][1] = "--readonly" BY <2>1
  <2>3. \A i \in 1 .. 1 : i = 1 OBVIOUS
  <2>4. 1 \in 1 .. 1 OBVIOUS
  <2>5. IsSeq(s) /\ \A f : Carries(s, f) <=> f = "--readonly"
    BY <2>2, <2>3, <2>4 DEF IsSeq, Carries
  <2>6. ReadOnly(r, e) = s BY <1>1, <2>1 DEF ReadOnly
  <2> QED BY <1>1, <2>5, <2>6
<1>2. CASE ~r
  <2>1. ReadOnly(r, e) = <<>> BY <1>2 DEF ReadOnly
  <2>2. <<>> \in Seq({}) /\ DOMAIN <<>> = {} OBVIOUS
  <2> QED BY <1>2, <2>1, <2>2 DEF IsSeq, Carries
<1> QED BY <1>1, <1>2

\* The bounding set, where it is dropped
LEMMA BoundingFacts ==
    ASSUME NEW b \in BOOLEAN
    PROVE  /\ IsSeq(Bounding(b)) /\ \A f : Carries(Bounding(b), f) <=> (b /\ f = "--bounding-set")
           /\ b => HasArg(Bounding(b), "--bounding-set", "-all")
<1>1. CASE b
  <2>1. PICK s : s = <<<<"--bounding-set", "-all">>>> OBVIOUS
  <2>2. /\ s \in Seq({<<"--bounding-set", "-all">>}) /\ DOMAIN s = 1 .. 1
        /\ s[1][1] = "--bounding-set" /\ s[1][2] = "-all"
    BY <2>1
  <2>3. \A i \in 1 .. 1 : i = 1 OBVIOUS
  <2>4. 1 \in 1 .. 1 OBVIOUS
  <2>5. IsSeq(s) /\ \A f : Carries(s, f) <=> f = "--bounding-set"
    BY <2>2, <2>3, <2>4 DEF IsSeq, Carries
  <2>6. HasArg(s, "--bounding-set", "-all") BY <2>2, <2>4, Zenon DEF HasArg
  <2>7. Bounding(b) = s BY <1>1, <2>1 DEF Bounding
  <2> QED BY <1>1, <2>5, <2>6, <2>7
<1>2. CASE ~b
  <2>1. Bounding(b) = <<>> BY <1>2 DEF Bounding
  <2>2. <<>> \in Seq({}) /\ DOMAIN <<>> = {} OBVIOUS
  <2> QED BY <1>2, <2>1, <2>2 DEF IsSeq, Carries
<1> QED BY <1>1, <1>2

\* The fixed arguments and the cache mode: one of each
LEMMA FixedFacts ==
    ASSUME NEW root, NEW pool, NEW cache, NEW limit, NEW s, s = Fixed(root, pool, cache, limit)
    PROVE  /\ IsSeq(s) /\ \A f : Carries(s, f) <=> f \in Flags \cup {"--cache"}
           /\ Ends(s, "--sandbox", "namespace") /\ Ends(s, "--seccomp", "kill")
           /\ Ends(s, "--inode-file-handles", "never") /\ Ends(s, "--rlimit-nofile", limit)
           /\ Ends(s, "--shared-dir", root) /\ Begins(s, "--shared-dir", root)
           /\ Ends(s, "--cache", cache)
           /\ HasArg(s, "--sandbox", "namespace") /\ HasArg(s, "--seccomp", "kill")
           /\ HasArg(s, "--inode-file-handles", "never")
<1>1. /\ s \in Seq({<<"--socket-path", "socket">>, <<"--shared-dir", root>>, <<"--sandbox", "namespace">>,
                    <<"--seccomp", "kill">>, <<"--inode-file-handles", "never">>,
                    <<"--thread-pool-size", pool>>, <<"--cache", cache>>, <<"--rlimit-nofile", limit>>})
      /\ DOMAIN s = 1 .. 8 /\ Len(s) = 8
  BY DEF Fixed
<1>2. /\ s[1][1] = "--socket-path" /\ s[2][1] = "--shared-dir" /\ s[3][1] = "--sandbox"
      /\ s[4][1] = "--seccomp" /\ s[5][1] = "--inode-file-handles" /\ s[6][1] = "--thread-pool-size"
      /\ s[7][1] = "--cache" /\ s[8][1] = "--rlimit-nofile"
      /\ s[2][2] = root /\ s[3][2] = "namespace" /\ s[4][2] = "kill" /\ s[5][2] = "never"
      /\ s[7][2] = cache /\ s[8][2] = limit
  BY DEF Fixed
<1>3. \A i \in 1 .. 8 : i = 1 \/ i = 2 \/ i = 3 \/ i = 4 \/ i = 5 \/ i = 6 \/ i = 7 \/ i = 8
  OBVIOUS
<1>4. /\ 1 \in 1 .. 8 /\ 2 \in 1 .. 8 /\ 3 \in 1 .. 8 /\ 4 \in 1 .. 8 /\ 5 \in 1 .. 8 /\ 6 \in 1 .. 8
      /\ 7 \in 1 .. 8 /\ 8 \in 1 .. 8
  OBVIOUS
<1>5. IsSeq(s) BY <1>1 DEF IsSeq
<1>6. \A f : Carries(s, f) <=> f \in Flags \cup {"--cache"}
  <2>1. ASSUME NEW f, Carries(s, f) PROVE f \in Flags \cup {"--cache"}
    <3>1. PICK i \in 1 .. 8 : s[i][1] = f BY <1>1, <2>1 DEF Carries
    <3> QED BY <1>2, <1>3, <3>1 DEF Flags
  <2>2. ASSUME NEW f \in Flags \cup {"--cache"} PROVE \E i \in 1 .. 8 : s[i][1] = f
    BY <1>2, <1>4 DEF Flags
  <2> QED BY <1>1, <2>1, <2>2 DEF Carries
<1>7. /\ LastAt(s, 2, "--shared-dir") /\ LastAt(s, 3, "--sandbox") /\ LastAt(s, 4, "--seccomp")
      /\ LastAt(s, 5, "--inode-file-handles") /\ LastAt(s, 7, "--cache")
      /\ LastAt(s, 8, "--rlimit-nofile") /\ FirstAt(s, 2, "--shared-dir")
  <2>1. \A j \in 1 .. 8 : j > 2 => s[j][1] # "--shared-dir" BY <1>2, <1>3
  <2>2. \A j \in 1 .. 8 : j > 3 => s[j][1] # "--sandbox" BY <1>2, <1>3
  <2>3. \A j \in 1 .. 8 : j > 4 => s[j][1] # "--seccomp" BY <1>2, <1>3
  <2>4. \A j \in 1 .. 8 : j > 5 => s[j][1] # "--inode-file-handles" BY <1>2, <1>3
  <2>5. \A j \in 1 .. 8 : j > 8 => s[j][1] # "--rlimit-nofile" OBVIOUS
  <2>6. \A j \in 1 .. 8 : j < 2 => s[j][1] # "--shared-dir" BY <1>2, <1>3
  <2>7. \A j \in 1 .. 8 : j > 7 => s[j][1] # "--cache" BY <1>2, <1>3
  <2> QED BY <1>1, <1>2, <2>1, <2>2, <2>3, <2>4, <2>5, <2>6, <2>7 DEF LastAt, FirstAt
<1>8. /\ HasArg(s, "--sandbox", "namespace") /\ HasArg(s, "--seccomp", "kill")
      /\ HasArg(s, "--inode-file-handles", "never")
  BY <1>1, <1>2, <1>4, Zenon DEF HasArg
<1> QED BY <1>2, <1>5, <1>6, <1>7, <1>8 DEF Ends, Begins

----------------------------------------------------------------------------
(***************************************************************************)
(* Confinement: the identity translation                                   *)
(***************************************************************************)
\* One argument decides an id; one place of a sequence does, or none
Decides(arg, flag, hows, id) == arg[1] = flag /\ arg[2].how \in hows /\ Covers(arg[2], id)
One(s, flag, hows, id) == \E k \in DOMAIN s : \A i \in DOMAIN s : Decides(s[i], flag, hows, id) <=> i = k
None(s, flag, hows, id) == \A i \in DOMAIN s : ~Decides(s[i], flag, hows, id)

\* A map of the sequence leads to the host id
MapsTo(s, flag, host) ==
    \A i \in DOMAIN s : s[i][1] = flag /\ s[i][2].how = "map" => s[i][2].to = host

\* The rules of a flag split the ids
Splits(s, flag, guest, host) ==
    /\ MapsTo(s, flag, host)
    /\ \A id \in 0 .. IdMax :
         /\ One(s, flag, {"map", "forbid"}, id)
         /\ id = guest => One(s, flag, {"map"}, id)
         /\ id # guest => None(s, flag, {"map"}, id)
         /\ id # host => One(s, flag, {"squash"}, id)
         /\ id = host => None(s, flag, {"squash"}, id)

\* A sequence without the flag decides nothing
LEMMA NoneWithout == \A s, f, hows, id : ~Carries(s, f) => None(s, f, hows, id)
  BY DEF None, Decides, Carries

\* Nor does it map anything
LEMMA MapsWithout == \A s, f, host : ~Carries(s, f) => MapsTo(s, f, host)
  BY DEF MapsTo, Carries

\* What neither part decides, the whole does not decide
LEMMA NoneJoined ==
    ASSUME NEW a, NEW b, IsSeq(a), IsSeq(b), NEW f, NEW hows, NEW id,
           None(a, f, hows, id), None(b, f, hows, id)
    PROVE  None(a \o b, f, hows, id)
<1>0. PICK w : w = a \o b OBVIOUS
<1>j. Joins(w, a, b) BY <1>0, JoinsOf
<1>1. ASSUME NEW i \in DOMAIN w PROVE ~Decides(w[i], f, hows, id)
  <2>1. CASE i \in DOMAIN a /\ w[i] = a[i] BY <2>1 DEF None
  <2>2. CASE i - Len(a) \in DOMAIN b /\ w[i] = b[i - Len(a)] BY <2>2 DEF None
  <2> QED BY <1>j, <2>1, <2>2, Places
<1> QED BY <1>0, <1>1 DEF None

\* What one part decides once and the other does not, the whole decides once
LEMMA OneJoined ==
    ASSUME NEW a, NEW b, IsSeq(a), IsSeq(b), NEW f, NEW hows, NEW id,
           \/ One(a, f, hows, id) /\ None(b, f, hows, id)
           \/ None(a, f, hows, id) /\ One(b, f, hows, id)
    PROVE  One(a \o b, f, hows, id)
<1>0. PICK w : w = a \o b OBVIOUS
<1>j. Joins(w, a, b) BY <1>0, JoinsOf
<1>n. /\ Len(a) \in Nat /\ Len(b) \in Nat
      /\ DOMAIN a = 1 .. Len(a) /\ DOMAIN b = 1 .. Len(b) /\ DOMAIN w = 1 .. Len(a) + Len(b)
  BY <1>j DEF Joins
<1>1. CASE One(a, f, hows, id) /\ None(b, f, hows, id)
  <2>1. PICK k \in DOMAIN a : \A i \in DOMAIN a : Decides(a[i], f, hows, id) <=> i = k
    BY <1>1 DEF One
  <2>2. k \in DOMAIN w /\ k <= Len(a) BY <1>n
  <2>3. ASSUME NEW i \in DOMAIN w PROVE Decides(w[i], f, hows, id) <=> i = k
    <3>1. CASE i \in DOMAIN a /\ w[i] = a[i] BY <2>1, <3>1
    <3>2. CASE i - Len(a) \in DOMAIN b /\ w[i] = b[i - Len(a)] /\ i > Len(a)
      <4>1. ~Decides(w[i], f, hows, id) BY <1>1, <3>2 DEF None
      <4>2. i # k BY <1>n, <2>2, <3>2
      <4> QED BY <4>1, <4>2
    <3> QED BY <1>j, <3>1, <3>2, Places
  <2> QED BY <1>0, <2>2, <2>3 DEF One
<1>2. CASE None(a, f, hows, id) /\ One(b, f, hows, id)
  <2>1. PICK k \in DOMAIN b : \A i \in DOMAIN b : Decides(b[i], f, hows, id) <=> i = k
    BY <1>2 DEF One
  <2>2. Len(a) + k \in DOMAIN w /\ Len(a) + k > Len(a) BY <1>n
  <2>3. ASSUME NEW i \in DOMAIN w PROVE Decides(w[i], f, hows, id) <=> i = Len(a) + k
    <3>1. CASE i \in DOMAIN a /\ w[i] = a[i] /\ i <= Len(a)
      <4>1. ~Decides(w[i], f, hows, id) BY <1>2, <3>1 DEF None
      <4>2. i # Len(a) + k BY <1>n, <2>2, <3>1
      <4> QED BY <4>1, <4>2
    <3>2. CASE i - Len(a) \in DOMAIN b /\ w[i] = b[i - Len(a)]
      <4>1. i - Len(a) = k <=> i = Len(a) + k BY <1>n
      <4>2. Decides(b[i - Len(a)], f, hows, id) <=> i - Len(a) = k BY <2>1, <3>2
      <4> QED BY <3>2, <4>1, <4>2
    <3> QED BY <1>j, <3>1, <3>2, Places
  <2> QED BY <1>0, <2>2, <2>3 DEF One
<1> QED BY <1>1, <1>2

\* The whole maps where both parts do
LEMMA MapsJoined ==
    ASSUME NEW a, NEW b, IsSeq(a), IsSeq(b), NEW f, NEW host, MapsTo(a, f, host), MapsTo(b, f, host)
    PROVE  MapsTo(a \o b, f, host)
<1>0. PICK w : w = a \o b OBVIOUS
<1>j. Joins(w, a, b) BY <1>0, JoinsOf
<1>1. ASSUME NEW i \in DOMAIN w, w[i][1] = f, w[i][2].how = "map" PROVE w[i][2].to = host
  <2>1. CASE i \in DOMAIN a /\ w[i] = a[i] BY <1>1, <2>1 DEF MapsTo
  <2>2. CASE i - Len(a) \in DOMAIN b /\ w[i] = b[i - Len(a)] BY <1>1, <2>2 DEF MapsTo
  <2> QED BY <1>j, <2>1, <2>2, Places
<1> QED BY <1>0, <1>1 DEF MapsTo

\* Arguments without the flag, before or behind, leave the split as it is
LEMMA SplitsJoined ==
    ASSUME NEW a, NEW b, IsSeq(a), IsSeq(b), NEW f, NEW guest, NEW host,
           (Splits(a, f, guest, host) /\ ~Carries(b, f)) \/ (Splits(b, f, guest, host) /\ ~Carries(a, f))
    PROVE  Splits(a \o b, f, guest, host)
<1>1. PICK w : w = a \o b OBVIOUS
<1>2. MapsTo(w, f, host) BY <1>1, MapsWithout, MapsJoined DEF Splits
<1>3. ASSUME NEW id \in 0 .. IdMax, NEW hows,
             \/ One(a, f, hows, id) /\ ~Carries(b, f)
             \/ One(b, f, hows, id) /\ ~Carries(a, f)
      PROVE  One(w, f, hows, id)
  BY <1>1, <1>3, NoneWithout, OneJoined
<1>4. ASSUME NEW id \in 0 .. IdMax, NEW hows,
             \/ None(a, f, hows, id) /\ ~Carries(b, f)
             \/ None(b, f, hows, id) /\ ~Carries(a, f)
      PROVE  None(w, f, hows, id)
  BY <1>1, <1>4, NoneWithout, NoneJoined
<1>5. Splits(w, f, guest, host) BY <1>2, <1>3, <1>4 DEF Splits
<1> QED BY <1>1, <1>5

\* What a part decides, the whole decides
LEMMA SomeJoined ==
    ASSUME NEW a, NEW b, IsSeq(a), IsSeq(b), NEW f, NEW hows, NEW id,
           ~None(a, f, hows, id) \/ ~None(b, f, hows, id)
    PROVE  ~None(a \o b, f, hows, id)
<1>0. PICK w : w = a \o b OBVIOUS
<1>j. Joins(w, a, b) BY <1>0, JoinsOf
<1>1. CASE ~None(a, f, hows, id)
  <2>1. PICK i \in DOMAIN a : Decides(a[i], f, hows, id) BY <1>1 DEF None
  <2>2. i \in DOMAIN w /\ w[i] = a[i] BY <1>j DEF Joins
  <2> QED BY <1>0, <2>1, <2>2 DEF None
<1>2. CASE ~None(b, f, hows, id)
  <2>1. PICK i \in DOMAIN b : Decides(b[i], f, hows, id) BY <1>2 DEF None
  <2>2. Len(a) + i \in DOMAIN w /\ w[Len(a) + i] = b[i] BY <1>j DEF Joins
  <2> QED BY <1>0, <2>1, <2>2 DEF None
<1> QED BY <1>1, <1>2

\* A rule that is there when its range is not empty
Maybe(flag, how, from, count) ==
    IF count > 0 THEN <<<<flag, [how |-> how, from |-> from, count |-> count]>>>> ELSE <<>>

\* A sequence decides what a rule covers
Ruled(s, f, how, from, count) ==
    /\ IsSeq(s) /\ \A g : Carries(s, g) => g = f
    /\ \A hows : \A id \in Nat : (how \in hows /\ from <= id /\ id < from + count) => One(s, f, hows, id)
    /\ \A hows : \A id \in Nat : ~(how \in hows /\ from <= id /\ id < from + count) => None(s, f, hows, id)
    /\ \A host : how # "map" => MapsTo(s, f, host)

\* A rule, where it is there, decides what it covers
LEMMA MaybeFacts ==
    ASSUME NEW f, NEW how, NEW from \in Nat, NEW count \in Nat
    PROVE  Ruled(Maybe(f, how, from, count), f, how, from, count)
<1>0. PICK s : s = Maybe(f, how, from, count) OBVIOUS
<1> SUFFICES Ruled(s, f, how, from, count) BY <1>0
<1>1. CASE count > 0
  <2>1. PICK arg : arg = <<f, [how |-> how, from |-> from, count |-> count]>> OBVIOUS
  <2>2. s = <<arg>> BY <1>0, <1>1, <2>1 DEF Maybe
  <2>3. s \in Seq({arg}) /\ DOMAIN s = 1 .. 1 /\ s[1] = arg BY <2>2
  <2>4. \A i \in DOMAIN s : i = 1 BY <2>3
  <2>5. 1 \in DOMAIN s BY <2>3
  <2>6. /\ arg[1] = f /\ arg[2].how = how
        /\ \A id : Covers(arg[2], id) <=> (from <= id /\ id < from + count)
    BY <2>1 DEF Covers
  <2>7. \A id, hows : Decides(arg, f, hows, id) <=> (how \in hows /\ from <= id /\ id < from + count)
    BY <2>6 DEF Decides
  <2>8. \A g : Carries(s, g) => g = f BY <2>3, <2>4, <2>6 DEF Carries
  <2>9. \A host : how # "map" => MapsTo(s, f, host) BY <2>3, <2>4, <2>6 DEF MapsTo
  <2>10. ASSUME NEW id, NEW hows, Decides(arg, f, hows, id) PROVE One(s, f, hows, id)
    BY <2>3, <2>4, <2>5, <2>10 DEF One
  <2>11. ASSUME NEW id, NEW hows, ~Decides(arg, f, hows, id) PROVE None(s, f, hows, id)
    BY <2>3, <2>4, <2>11 DEF None
  <2>12. IsSeq(s) BY <2>3 DEF IsSeq
  <2> QED BY <2>7, <2>8, <2>9, <2>10, <2>11, <2>12 DEF Ruled
<1>2. CASE ~(count > 0)
  <2>1. s = <<>> BY <1>0, <1>2 DEF Maybe
  <2>2. <<>> \in Seq({}) /\ DOMAIN <<>> = {} OBVIOUS
  <2>3. \A id \in Nat : ~(from <= id /\ id < from + count) BY <1>2
  <2> QED BY <2>1, <2>2, <2>3 DEF IsSeq, Carries, None, MapsTo, Ruled
<1> QED BY <1>1, <1>2

\* The one map
LEMMA MapFacts ==
    ASSUME NEW f, NEW guest \in Nat, NEW host,
           NEW s, s = <<<<f, [how |-> "map", from |-> guest, to |-> host, count |-> 1]>>>>
    PROVE  /\ IsSeq(s) /\ \A g : Carries(s, g) => g = f
           /\ \A hows : \A id \in Nat : ("map" \in hows /\ id = guest) => One(s, f, hows, id)
           /\ \A hows : \A id \in Nat : ~("map" \in hows /\ id = guest) => None(s, f, hows, id)
           /\ MapsTo(s, f, host)
<1>1. PICK arg : arg = <<f, [how |-> "map", from |-> guest, to |-> host, count |-> 1]>> OBVIOUS
<1>2. s = <<arg>> BY <1>1
<1>3. s \in Seq({arg}) /\ DOMAIN s = 1 .. 1 /\ s[1] = arg BY <1>2
<1>4. \A i \in DOMAIN s : i = 1 BY <1>3
<1>5. 1 \in DOMAIN s BY <1>3
<1>6. /\ arg[1] = f /\ arg[2].how = "map" /\ arg[2].to = host
      /\ \A id \in Nat : Covers(arg[2], id) <=> id = guest
  <2>1. arg[1] = f /\ arg[2].how = "map" /\ arg[2].to = host /\ arg[2].from = guest /\ arg[2].count = 1
    BY <1>1
  <2>2. \A id \in Nat : (guest <= id /\ id < guest + 1) <=> id = guest OBVIOUS
  <2> QED BY <2>1, <2>2 DEF Covers
<1>7. \A hows : \A id \in Nat : Decides(arg, f, hows, id) <=> ("map" \in hows /\ id = guest)
  BY <1>6 DEF Decides
<1>8. \A g : Carries(s, g) => g = f BY <1>3, <1>4, <1>6 DEF Carries
<1>9. MapsTo(s, f, host) BY <1>3, <1>4, <1>6 DEF MapsTo
<1>10. ASSUME NEW id, NEW hows, Decides(arg, f, hows, id) PROVE One(s, f, hows, id)
  BY <1>3, <1>4, <1>5, <1>10 DEF One
<1>11. ASSUME NEW id, NEW hows, ~Decides(arg, f, hows, id) PROVE None(s, f, hows, id)
  BY <1>3, <1>4, <1>11 DEF None
<1>12. IsSeq(s) BY <1>3 DEF IsSeq
<1> QED BY <1>7, <1>8, <1>9, <1>10, <1>11, <1>12

\* add_translation splits the ids, at both ends of their range too
LEMMA TranslationSplits ==
    ASSUME NEW f, NEW guest \in 0 .. IdMax, NEW host \in 0 .. IdMax,
           NEW s, s = AddTranslation(f, guest, host)
    PROVE  /\ IsSeq(s) /\ \A g : Carries(s, g) => g = f
           /\ Splits(s, f, guest, host)
<1>0. IdMax \in Nat /\ guest \in Nat /\ host \in Nat BY ConfinementAssumption
<1>1. PICK m : m = <<<<f, [how |-> "map", from |-> guest, to |-> host, count |-> 1]>>>> OBVIOUS
<1>2. PICK x : x = Maybe(f, "forbid", 0, guest) OBVIOUS
<1>3. PICK y : y = Maybe(f, "forbid", guest + 1, IdMax - guest) OBVIOUS
<1>4. PICK z : z = Maybe(f, "squash", 0, host) OBVIOUS
<1>5. PICK t : t = Maybe(f, "squash", host + 1, IdMax - host) OBVIOUS
<1>6. PICK mx : mx = m \o x OBVIOUS
<1>7. PICK mxy : mxy = mx \o y OBVIOUS
<1>8. PICK mxyz : mxyz = mxy \o z OBVIOUS
<1>a. (guest < IdMax <=> IdMax - guest > 0) /\ (host < IdMax <=> IdMax - host > 0) BY <1>0
<1>9. s = mxyz \o t
  BY <1>1, <1>2, <1>3, <1>4, <1>5, <1>6, <1>7, <1>8, <1>a, Zenon DEF AddTranslation, Maybe
<1>10. /\ IsSeq(m) /\ (\A g : Carries(m, g) => g = f) /\ MapsTo(m, f, host)
       /\ \A hows : \A id \in Nat : ("map" \in hows /\ id = guest) => One(m, f, hows, id)
       /\ \A hows : \A id \in Nat : ~("map" \in hows /\ id = guest) => None(m, f, hows, id)
  BY <1>0, <1>1, MapFacts
<1>11. /\ guest + 1 \in Nat /\ IdMax - guest \in Nat
       /\ host + 1 \in Nat /\ IdMax - host \in Nat /\ 0 \in Nat
       /\ "forbid" # "map" /\ "squash" # "map"
  BY <1>0
<1>12. /\ IsSeq(x) /\ (\A g : Carries(x, g) => g = f) /\ MapsTo(x, f, host)
       /\ \A hows : \A id \in Nat : ("forbid" \in hows /\ 0 <= id /\ id < 0 + guest) => One(x, f, hows, id)
       /\ \A hows : \A id \in Nat : ~("forbid" \in hows /\ 0 <= id /\ id < 0 + guest) => None(x, f, hows, id)
  <2>1. Ruled(x, f, "forbid", 0, guest) BY <1>0, <1>2, <1>11, MaybeFacts
  <2> QED BY <1>11, <2>1 DEF Ruled
<1>13. /\ IsSeq(y) /\ (\A g : Carries(y, g) => g = f) /\ MapsTo(y, f, host)
       /\ \A hows : \A id \in Nat : ("forbid" \in hows /\ guest + 1 <= id
                          /\ id < (guest + 1) + (IdMax - guest)) => One(y, f, hows, id)
       /\ \A hows : \A id \in Nat : ~("forbid" \in hows /\ guest + 1 <= id
                           /\ id < (guest + 1) + (IdMax - guest)) => None(y, f, hows, id)
  <2>1. Ruled(y, f, "forbid", guest + 1, IdMax - guest) BY <1>0, <1>3, <1>11, MaybeFacts
  <2> QED BY <1>11, <2>1 DEF Ruled
<1>14. /\ IsSeq(z) /\ (\A g : Carries(z, g) => g = f) /\ MapsTo(z, f, host)
       /\ \A hows : \A id \in Nat : ("squash" \in hows /\ 0 <= id /\ id < 0 + host) => One(z, f, hows, id)
       /\ \A hows : \A id \in Nat : ~("squash" \in hows /\ 0 <= id /\ id < 0 + host) => None(z, f, hows, id)
  <2>1. Ruled(z, f, "squash", 0, host) BY <1>0, <1>4, <1>11, MaybeFacts
  <2> QED BY <1>11, <2>1 DEF Ruled
<1>15. /\ IsSeq(t) /\ (\A g : Carries(t, g) => g = f) /\ MapsTo(t, f, host)
       /\ \A hows : \A id \in Nat : ("squash" \in hows /\ host + 1 <= id
                          /\ id < (host + 1) + (IdMax - host)) => One(t, f, hows, id)
       /\ \A hows : \A id \in Nat : ~("squash" \in hows /\ host + 1 <= id
                           /\ id < (host + 1) + (IdMax - host)) => None(t, f, hows, id)
  <2>1. Ruled(t, f, "squash", host + 1, IdMax - host) BY <1>0, <1>5, <1>11, MaybeFacts
  <2> QED BY <1>11, <2>1 DEF Ruled
<1>16. IsSeq(mx) /\ IsSeq(mxy) /\ IsSeq(mxyz) /\ IsSeq(s)
  BY <1>6, <1>7, <1>8, <1>9, <1>10, <1>12, <1>13, <1>14, <1>15, Joined
<1>17. \A g : Carries(s, g) => g = f
  <2>1. \A g : Carries(mx, g) => g = f BY <1>6, <1>10, <1>12, CarriesJoined
  <2>2. \A g : Carries(mxy, g) => g = f BY <1>7, <1>13, <1>16, <2>1, CarriesJoined
  <2>3. \A g : Carries(mxyz, g) => g = f BY <1>8, <1>14, <1>16, <2>2, CarriesJoined
  <2> QED BY <1>9, <1>15, <1>16, <2>3, CarriesJoined
<1>18. MapsTo(s, f, host)
  <2>1. MapsTo(mx, f, host) BY <1>6, <1>10, <1>12, MapsJoined
  <2>2. MapsTo(mxy, f, host) BY <1>7, <1>13, <1>16, <2>1, MapsJoined
  <2>3. MapsTo(mxyz, f, host) BY <1>8, <1>14, <1>16, <2>2, MapsJoined
  <2> QED BY <1>9, <1>15, <1>16, <2>3, MapsJoined
<1>19. ASSUME NEW id \in 0 .. IdMax
       PROVE  /\ One(s, f, {"map", "forbid"}, id)
              /\ id = guest => One(s, f, {"map"}, id)
              /\ id # guest => None(s, f, {"map"}, id)
              /\ id # host => One(s, f, {"squash"}, id)
              /\ id = host => None(s, f, {"squash"}, id)
  <2>0. id \in Nat BY <1>0
  <2>1. /\ (0 <= id /\ id < 0 + guest) <=> id < guest
        /\ (guest + 1 <= id /\ id < (guest + 1) + (IdMax - guest)) <=> id > guest
        /\ (0 <= id /\ id < 0 + host) <=> id < host
        /\ (host + 1 <= id /\ id < (host + 1) + (IdMax - host)) <=> id > host
        /\ id < guest => id # guest /\ ~(id > guest)
        /\ id > guest => id # guest
        /\ id < host => id # host /\ ~(id > host)
        /\ id > host => id # host
        /\ id = guest \/ id < guest \/ id > guest
        /\ id = host \/ id < host \/ id > host
    BY <1>0, <2>0
  <2>2. ASSUME NEW hows
        PROVE  /\ ("map" \in hows /\ id = guest) => One(m, f, hows, id)
               /\ ~("map" \in hows /\ id = guest) => None(m, f, hows, id)
               /\ ("forbid" \in hows /\ id < guest) => One(x, f, hows, id)
               /\ ~("forbid" \in hows /\ id < guest) => None(x, f, hows, id)
               /\ ("forbid" \in hows /\ id > guest) => One(y, f, hows, id)
               /\ ~("forbid" \in hows /\ id > guest) => None(y, f, hows, id)
               /\ ("squash" \in hows /\ id < host) => One(z, f, hows, id)
               /\ ~("squash" \in hows /\ id < host) => None(z, f, hows, id)
               /\ ("squash" \in hows /\ id > host) => One(t, f, hows, id)
               /\ ~("squash" \in hows /\ id > host) => None(t, f, hows, id)
    BY <1>10, <1>12, <1>13, <1>14, <1>15, <2>0, <2>1
  <2>3. ASSUME NEW hows
        PROVE  /\ None(m, f, hows, id) /\ None(x, f, hows, id) => None(mx, f, hows, id)
               /\ None(mx, f, hows, id) /\ None(y, f, hows, id) => None(mxy, f, hows, id)
               /\ None(mxy, f, hows, id) /\ None(z, f, hows, id) => None(mxyz, f, hows, id)
               /\ None(mxyz, f, hows, id) /\ None(t, f, hows, id) => None(s, f, hows, id)
    BY <1>6, <1>7, <1>8, <1>9, <1>10, <1>12, <1>13, <1>14, <1>15, <1>16, NoneJoined
  <2>4. ASSUME NEW hows
        PROVE  /\ (One(m, f, hows, id) /\ None(x, f, hows, id)) \/ (None(m, f, hows, id) /\ One(x, f, hows, id))
                     => One(mx, f, hows, id)
               /\ (One(mx, f, hows, id) /\ None(y, f, hows, id)) \/ (None(mx, f, hows, id) /\ One(y, f, hows, id))
                     => One(mxy, f, hows, id)
               /\ (One(mxy, f, hows, id) /\ None(z, f, hows, id)) \/ (None(mxy, f, hows, id) /\ One(z, f, hows, id))
                     => One(mxyz, f, hows, id)
               /\ (One(mxyz, f, hows, id) /\ None(t, f, hows, id)) \/ (None(mxyz, f, hows, id) /\ One(t, f, hows, id))
                     => One(s, f, hows, id)
    BY <1>6, <1>7, <1>8, <1>9, <1>10, <1>12, <1>13, <1>14, <1>15, <1>16, OneJoined
  <2>5. One(s, f, {"map", "forbid"}, id)
    <3>1. PICK hows : hows = {"map", "forbid"} OBVIOUS
    <3>2. "map" \in hows /\ "forbid" \in hows /\ "squash" \notin hows BY <3>1
    <3> QED BY <2>1, <2>2, <2>3, <2>4, <3>1, <3>2
  <2>6. (id = guest => One(s, f, {"map"}, id)) /\ (id # guest => None(s, f, {"map"}, id))
    <3>1. PICK hows : hows = {"map"} OBVIOUS
    <3>2. "map" \in hows /\ "forbid" \notin hows /\ "squash" \notin hows BY <3>1
    <3> QED BY <2>1, <2>2, <2>3, <2>4, <3>1, <3>2
  <2>7. (id # host => One(s, f, {"squash"}, id)) /\ (id = host => None(s, f, {"squash"}, id))
    <3>1. PICK hows : hows = {"squash"} OBVIOUS
    <3>2. "map" \notin hows /\ "forbid" \notin hows /\ "squash" \in hows BY <3>1
    <3> QED BY <2>1, <2>2, <2>3, <2>4, <3>1, <3>2
  <2> QED BY <2>5, <2>6, <2>7
<1> QED BY <1>16, <1>17, <1>18, <1>19 DEF Splits

\* A command that splits the ids translates each once
LEMMA SplitsMeans ==
    ASSUME NEW cmd, NEW f, NEW who, Splits(cmd, f, who.guest, who.host)
    PROVE  TranslatedOnce(cmd, f, who)
<1>1. ASSUME NEW hows, NEW id, One(cmd, f, hows, id)
      PROVE  Cardinality(Deciding(cmd, f, hows, id)) = 1 /\ Deciding(cmd, f, hows, id) # {}
  <2>1. PICK k \in DOMAIN cmd : \A i \in DOMAIN cmd : Decides(cmd[i], f, hows, id) <=> i = k
    BY <1>1 DEF One
  <2>2. Deciding(cmd, f, hows, id) = {k} BY <2>1 DEF Deciding, Decides
  <2> QED BY <2>2, FS_Singleton
<1>2. ASSUME NEW hows, NEW id, None(cmd, f, hows, id)
      PROVE  Cardinality(Deciding(cmd, f, hows, id)) = 0 /\ Deciding(cmd, f, hows, id) = {}
  <2>1. Deciding(cmd, f, hows, id) = {} BY <1>2 DEF None, Deciding, Decides
  <2> QED BY <2>1, FS_EmptySet
<1>3. ASSUME NEW id, NEW i \in Deciding(cmd, f, {"map"}, id) PROVE cmd[i][2].to = who.host
  BY <1>3 DEF Deciding, Splits, MapsTo
<1> QED BY <1>1, <1>2, <1>3 DEF Splits, TranslatedOnce

\* A command with a rule decides
LEMMA SomeMeans == \A cmd, f, hows, id : ~None(cmd, f, hows, id) => Deciding(cmd, f, hows, id) # {}
  BY DEF None, Deciding, Decides

----------------------------------------------------------------------------
\* The daemon's arguments, in the wrapper, behind the staging step
Pairs == [TranslateFlags -> [guest : 0 .. IdMax, host : 0 .. IdMax]]
BaseOf(root, pool, cache, limit, who) ==
    Fixed(root, pool, cache, limit)
    \o AddTranslation("--translate-uid", who["--translate-uid"].guest, who["--translate-uid"].host)
    \o AddTranslation("--translate-gid", who["--translate-gid"].guest, who["--translate-gid"].host)
DaemonOf(base, r, e, extra) == base \o ReadOnly(r, e) \o extra
WrappedOf(b, e, child) == Legs(e) \o Bounding(b) \o child
StagedOf(r, e, child) == Spaces(e) \o StageStep(e) \o ReadOnly(r, e) \o child

\* What a wrapped daemon guarantees
Kept(cmd, root, limit, r, b) ==
    /\ IsSeq(cmd)
    /\ Ends(cmd, "--sandbox", "namespace") /\ Ends(cmd, "--seccomp", "kill")
    /\ Ends(cmd, "--inode-file-handles", "never") /\ Ends(cmd, "--rlimit-nofile", limit)
    /\ Ends(cmd, "--shared-dir", root) /\ Begins(cmd, "--shared-dir", root)
    /\ HasArg(cmd, "--sandbox", "namespace") /\ HasArg(cmd, "--seccomp", "kill")
    /\ HasArg(cmd, "--inode-file-handles", "never")
    /\ \A f \in Flags \cup LegFlags : Carries(cmd, f)
    /\ r => Carries(cmd, "--readonly")
    /\ b => HasArg(cmd, "--bounding-set", "-all")

\* What it guarantees of the arguments an extra one may repeat
Extended(cmd, cache, who, extra) ==
    /\ Carries(extra, "--cache") \/ Ends(cmd, "--cache", cache)
    /\ \A f \in TranslateFlags :
         /\ Carries(extra, f) \/ Splits(cmd, f, who[f].guest, who[f].host)
         /\ \A id \in 0 .. IdMax : ~None(cmd, f, {"map", "forbid"}, id)

\* The flags a daemon's own arguments may be
OwnFlags == Flags \cup {"--cache"} \cup TranslateFlags

\* The fixed arguments and the two translations
LEMMA BaseFacts ==
    ASSUME NEW root, NEW pool, NEW cache, NEW limit, NEW who \in Pairs,
           NEW s, s = BaseOf(root, pool, cache, limit, who)
    PROVE  /\ IsSeq(s) /\ (\A f : Carries(s, f) => f \in OwnFlags) /\ \A f \in Flags : Carries(s, f)
           /\ Ends(s, "--sandbox", "namespace") /\ Ends(s, "--seccomp", "kill")
           /\ Ends(s, "--inode-file-handles", "never") /\ Ends(s, "--rlimit-nofile", limit)
           /\ Ends(s, "--shared-dir", root) /\ Begins(s, "--shared-dir", root)
           /\ Ends(s, "--cache", cache)
           /\ HasArg(s, "--sandbox", "namespace") /\ HasArg(s, "--seccomp", "kill")
           /\ HasArg(s, "--inode-file-handles", "never")
           /\ \A f \in TranslateFlags : Splits(s, f, who[f].guest, who[f].host)
<1>1. PICK x : x = Fixed(root, pool, cache, limit) OBVIOUS
<1>2. PICK uf : uf = "--translate-uid" OBVIOUS
<1>3. PICK gf : gf = "--translate-gid" OBVIOUS
<1>4. /\ TranslateFlags = {uf, gf} /\ uf # gf
      /\ uf \notin Flags \cup {"--cache"} /\ gf \notin Flags \cup {"--cache"}
  BY <1>2, <1>3 DEF TranslateFlags, Flags
<1>5. /\ who[uf].guest \in 0 .. IdMax /\ who[uf].host \in 0 .. IdMax
      /\ who[gf].guest \in 0 .. IdMax /\ who[gf].host \in 0 .. IdMax
  BY <1>4 DEF Pairs
<1>6. PICK u : u = AddTranslation(uf, who[uf].guest, who[uf].host) OBVIOUS
<1>7. PICK g : g = AddTranslation(gf, who[gf].guest, who[gf].host) OBVIOUS
<1>8. PICK xu : xu = x \o u OBVIOUS
<1>9. s = xu \o g BY <1>1, <1>2, <1>3, <1>6, <1>7, <1>8, Zenon DEF BaseOf
<1>10. /\ IsSeq(x) /\ \A f : Carries(x, f) <=> f \in Flags \cup {"--cache"}
       /\ Ends(x, "--sandbox", "namespace") /\ Ends(x, "--seccomp", "kill")
       /\ Ends(x, "--inode-file-handles", "never") /\ Ends(x, "--rlimit-nofile", limit)
       /\ Ends(x, "--shared-dir", root) /\ Begins(x, "--shared-dir", root)
       /\ Ends(x, "--cache", cache)
       /\ HasArg(x, "--sandbox", "namespace") /\ HasArg(x, "--seccomp", "kill")
       /\ HasArg(x, "--inode-file-handles", "never")
  BY <1>1, FixedFacts
<1>11. IsSeq(u) /\ (\A f : Carries(u, f) => f = uf) /\ Splits(u, uf, who[uf].guest, who[uf].host)
  BY <1>5, <1>6, TranslationSplits
<1>12. IsSeq(g) /\ (\A f : Carries(g, f) => f = gf) /\ Splits(g, gf, who[gf].guest, who[gf].host)
  BY <1>5, <1>7, TranslationSplits
<1>13. IsSeq(xu) /\ IsSeq(s) BY <1>8, <1>9, <1>10, <1>11, <1>12, Joined
<1>14. \A f : Carries(xu, f) <=> (Carries(x, f) \/ Carries(u, f)) BY <1>8, <1>10, <1>11, CarriesJoined
<1>15. \A f : Carries(s, f) <=> (Carries(xu, f) \/ Carries(g, f)) BY <1>9, <1>12, <1>13, CarriesJoined
<1>16. (\A f : Carries(s, f) => f \in OwnFlags) /\ \A f \in Flags : Carries(s, f)
  BY <1>4, <1>10, <1>11, <1>12, <1>14, <1>15 DEF OwnFlags
<1>17. ASSUME NEW f \in Flags \cup {"--cache"}, NEW v, Ends(x, f, v) PROVE Ends(s, f, v)
  <2>1. ~Carries(u, f) /\ ~Carries(g, f) BY <1>4, <1>11, <1>12, <1>17
  <2>2. Ends(xu, f, v) BY <1>8, <1>10, <1>11, <1>17, <2>1, EndsJoined
  <2> QED BY <1>9, <1>12, <1>13, <2>1, <2>2, EndsJoined
<1>18. Begins(s, "--shared-dir", root)
  <2>1. Begins(xu, "--shared-dir", root) BY <1>8, <1>10, <1>11, BeginsJoined
  <2> QED BY <1>9, <1>12, <1>13, <2>1, BeginsJoined
<1>19. ASSUME NEW f, NEW v, HasArg(x, f, v) PROVE HasArg(s, f, v)
  <2>1. HasArg(xu, f, v) BY <1>8, <1>10, <1>11, <1>19, HasJoined
  <2> QED BY <1>9, <1>12, <1>13, <2>1, HasJoined
<1>20. Splits(s, uf, who[uf].guest, who[uf].host)
  <2>1. ~Carries(x, uf) /\ ~Carries(g, uf) BY <1>4, <1>10, <1>12
  <2>2. Splits(xu, uf, who[uf].guest, who[uf].host) BY <1>8, <1>10, <1>11, <2>1, SplitsJoined
  <2> QED BY <1>9, <1>12, <1>13, <2>1, <2>2, SplitsJoined
<1>21. Splits(s, gf, who[gf].guest, who[gf].host)
  <2>1. ~Carries(xu, gf) BY <1>4, <1>10, <1>11, <1>14
  <2> QED BY <1>9, <1>12, <1>13, <2>1, SplitsJoined
<1>22. \A f \in TranslateFlags : Splits(s, f, who[f].guest, who[f].host) BY <1>4, <1>20, <1>21
<1>23. /\ "--sandbox" \in Flags /\ "--seccomp" \in Flags /\ "--inode-file-handles" \in Flags
       /\ "--rlimit-nofile" \in Flags /\ "--shared-dir" \in Flags
  BY DEF Flags
<1>24. /\ Ends(s, "--sandbox", "namespace") /\ Ends(s, "--seccomp", "kill")
       /\ Ends(s, "--inode-file-handles", "never") /\ Ends(s, "--rlimit-nofile", limit)
       /\ Ends(s, "--shared-dir", root) /\ Ends(s, "--cache", cache)
  BY <1>10, <1>17, <1>23
<1>25. /\ HasArg(s, "--sandbox", "namespace") /\ HasArg(s, "--seccomp", "kill")
       /\ HasArg(s, "--inode-file-handles", "never")
  BY <1>10, <1>19
<1> QED BY <1>13, <1>16, <1>18, <1>22, <1>24, <1>25

\* The wrapped daemon keeps the policy, whatever foreign arguments come last
LEMMA WrappedKeeps ==
    ASSUME NEW root, NEW pool, NEW cache, NEW limit, NEW who \in Pairs,
           NEW r \in BOOLEAN, NEW e, NEW extra, NEW b \in BOOLEAN,
           IsSeq(extra), \A f \in Flags : ~Carries(extra, f), NEW cmd,
           cmd = WrappedOf(b, e, DaemonOf(BaseOf(root, pool, cache, limit, who), r, e, extra))
    PROVE  /\ Kept(cmd, root, limit, r, b) /\ Extended(cmd, cache, who, extra)
           /\ \A f : Carries(cmd, f) =>
                 f \in LegFlags \cup OwnFlags \cup {"--bounding-set", "--readonly"} \/ Carries(extra, f)
<1>1. PICK x : x = BaseOf(root, pool, cache, limit, who) OBVIOUS
<1>2. PICK y : y = ReadOnly(r, e) OBVIOUS
<1>3. PICK l : l = Legs(e) OBVIOUS
<1>4. PICK z : z = Bounding(b) OBVIOUS
<1>5. PICK xy : xy = x \o y OBVIOUS
<1>6. PICK d : d = xy \o extra OBVIOUS
<1>7. PICK lz : lz = l \o z OBVIOUS
<1>8. cmd = lz \o d BY <1>1, <1>2, <1>3, <1>4, <1>5, <1>6, <1>7 DEF WrappedOf, DaemonOf
<1>9. /\ IsSeq(x) /\ (\A f : Carries(x, f) => f \in OwnFlags) /\ \A f \in Flags : Carries(x, f)
      /\ Ends(x, "--sandbox", "namespace") /\ Ends(x, "--seccomp", "kill")
      /\ Ends(x, "--inode-file-handles", "never") /\ Ends(x, "--rlimit-nofile", limit)
      /\ Ends(x, "--shared-dir", root) /\ Begins(x, "--shared-dir", root)
      /\ Ends(x, "--cache", cache)
      /\ HasArg(x, "--sandbox", "namespace") /\ HasArg(x, "--seccomp", "kill")
      /\ HasArg(x, "--inode-file-handles", "never")
      /\ \A f \in TranslateFlags : Splits(x, f, who[f].guest, who[f].host)
  BY <1>1, BaseFacts
<1>10. IsSeq(y) /\ \A f : Carries(y, f) <=> (r /\ f = "--readonly") BY <1>2, ReadOnlyFacts
<1>11. IsSeq(l) /\ \A f : Carries(l, f) <=> f \in LegFlags BY <1>3, LegsFacts
<1>12. /\ IsSeq(z) /\ \A f : Carries(z, f) <=> (b /\ f = "--bounding-set")
       /\ b => HasArg(z, "--bounding-set", "-all")
  BY <1>4, BoundingFacts
<1>13. IsSeq(xy) BY <1>5, <1>9, <1>10, Joined
<1>14. IsSeq(d) BY <1>6, <1>13, Joined
<1>15. IsSeq(lz) BY <1>7, <1>11, <1>12, Joined
<1>16. IsSeq(cmd) BY <1>8, <1>14, <1>15, Joined
<1>17. \A f : Carries(xy, f) <=> (Carries(x, f) \/ (r /\ f = "--readonly"))
  BY <1>5, <1>9, <1>10, CarriesJoined
<1>18. \A f : Carries(d, f) <=> (Carries(x, f) \/ (r /\ f = "--readonly") \/ Carries(extra, f))
  BY <1>6, <1>13, <1>17, CarriesJoined
<1>19. \A f : Carries(lz, f) <=> (f \in LegFlags \/ (b /\ f = "--bounding-set"))
  BY <1>7, <1>11, <1>12, CarriesJoined
<1>20. \A f : Carries(cmd, f) <=> (Carries(lz, f) \/ Carries(d, f))
  BY <1>8, <1>14, <1>15, CarriesJoined
<1>21. ASSUME NEW f \in Flags \cup {"--cache"}, NEW v, Ends(x, f, v), ~Carries(extra, f)
       PROVE  Ends(cmd, f, v)
  <2>1. ~Carries(y, f) BY <1>10, <1>21 DEF Flags
  <2>2. Ends(xy, f, v) BY <1>5, <1>9, <1>10, <1>21, <2>1, EndsJoined
  <2>3. ~Carries(extra, f) BY <1>21
  <2>4. Ends(d, f, v) BY <1>6, <1>13, <2>2, <2>3, EndsJoined
  <2> QED BY <1>8, <1>14, <1>15, <2>4, EndsJoined
<1>22. Begins(cmd, "--shared-dir", root)
  <2>1. Begins(xy, "--shared-dir", root) BY <1>5, <1>9, <1>10, BeginsJoined
  <2>2. Begins(d, "--shared-dir", root) BY <1>6, <1>13, <2>1, BeginsJoined
  <2>3. ~Carries(lz, "--shared-dir") BY <1>19 DEF LegFlags
  <2> QED BY <1>8, <1>14, <1>15, <2>2, <2>3, BeginsJoined
<1>23. ASSUME NEW f, NEW v, HasArg(x, f, v) PROVE HasArg(cmd, f, v)
  <2>1. HasArg(xy, f, v) BY <1>5, <1>9, <1>10, <1>23, HasJoined
  <2>2. HasArg(d, f, v) BY <1>6, <1>13, <2>1, HasJoined
  <2> QED BY <1>8, <1>14, <1>15, <2>2, HasJoined
<1>24. b => HasArg(cmd, "--bounding-set", "-all")
  <2> SUFFICES ASSUME b PROVE HasArg(cmd, "--bounding-set", "-all") OBVIOUS
  <2>1. HasArg(lz, "--bounding-set", "-all") BY <1>7, <1>11, <1>12, HasJoined
  <2>2. PICK v : v = "-all" OBVIOUS
  <2>3. PICK f : f = "--bounding-set" OBVIOUS
  <2>4. HasArg(lz \o d, f, v) BY <1>14, <1>15, <2>1, <2>2, <2>3, HasJoined
  <2> QED BY <1>8, <2>2, <2>3, <2>4
<1>25. /\ "--sandbox" \in Flags /\ "--seccomp" \in Flags /\ "--inode-file-handles" \in Flags
       /\ "--rlimit-nofile" \in Flags /\ "--shared-dir" \in Flags
  BY DEF Flags
<1>26. /\ \A f \in Flags \cup LegFlags : Carries(cmd, f)
       /\ r => Carries(cmd, "--readonly")
  BY <1>9, <1>18, <1>19, <1>20
<1>27. Kept(cmd, root, limit, r, b)
  <2>1. /\ Ends(cmd, "--sandbox", "namespace") /\ Ends(cmd, "--seccomp", "kill")
        /\ Ends(cmd, "--inode-file-handles", "never") /\ Ends(cmd, "--rlimit-nofile", limit)
        /\ Ends(cmd, "--shared-dir", root)
    BY <1>9, <1>21, <1>25
  <2>2. /\ HasArg(cmd, "--sandbox", "namespace") /\ HasArg(cmd, "--seccomp", "kill")
        /\ HasArg(cmd, "--inode-file-handles", "never")
    BY <1>9, <1>23
  <2> QED BY <1>16, <1>22, <1>24, <1>26, <2>1, <2>2 DEF Kept
<1>28. \A f : Carries(cmd, f) =>
          f \in LegFlags \cup OwnFlags \cup {"--bounding-set", "--readonly"} \/ Carries(extra, f)
  BY <1>9, <1>18, <1>19, <1>20
<1>29. ASSUME NEW f \in TranslateFlags
       PROVE  /\ Carries(extra, f) \/ Splits(cmd, f, who[f].guest, who[f].host)
              /\ \A id \in 0 .. IdMax : ~None(cmd, f, {"map", "forbid"}, id)
  <2>1. ~Carries(y, f) /\ ~Carries(lz, f) BY <1>10, <1>19, <1>29 DEF TranslateFlags, LegFlags
  <2>2. PICK ug : ug = who[f].guest OBVIOUS
  <2>3. PICK uh : uh = who[f].host OBVIOUS
  <2>4. Splits(xy, f, ug, uh)
    <3>1. Splits(x, f, ug, uh) BY <1>9, <1>29, <2>2, <2>3
    <3> QED BY <1>5, <1>9, <1>10, <2>1, <3>1, SplitsJoined
  <2>5. ASSUME ~Carries(extra, f) PROVE Splits(cmd, f, ug, uh)
    <3>1. Splits(d, f, ug, uh) BY <1>6, <1>13, <2>4, <2>5, SplitsJoined
    <3> QED BY <1>8, <1>14, <1>15, <2>1, <3>1, SplitsJoined
  <2>6. ASSUME NEW id \in 0 .. IdMax PROVE ~None(cmd, f, {"map", "forbid"}, id)
    <3>1. PICK hows : hows = {"map", "forbid"} OBVIOUS
    <3>2. One(xy, f, hows, id) BY <2>4, <3>1 DEF Splits
    <3>3. ~None(xy, f, hows, id) BY <3>2 DEF One, None
    <3>4. ~None(d, f, hows, id) BY <1>6, <1>13, <3>3, SomeJoined
    <3> QED BY <1>8, <1>14, <1>15, <3>1, <3>4, SomeJoined
  <2> QED BY <2>2, <2>3, <2>5, <2>6
<1>30. Carries(extra, "--cache") \/ Ends(cmd, "--cache", cache) BY <1>9, <1>21
<1>31. Extended(cmd, cache, who, extra) BY <1>29, <1>30 DEF Extended
<1> QED BY <1>27, <1>28, <1>31

\* A staging step before it takes nothing away, and agrees with it
LEMMA StagedKeeps ==
    ASSUME NEW child, NEW limit, NEW r \in BOOLEAN, NEW e, NEW b \in BOOLEAN,
           Kept(child, "stage", limit, r, b), NEW cmd, cmd = StagedOf(r, e, child),
           NEW cache, NEW who, NEW extra, Extended(child, cache, who, extra)
    PROVE  /\ Kept(cmd, "stage", limit, r, b) /\ Extended(cmd, cache, who, extra)
           /\ Begins(cmd, "--source", "source") /\ Begins(cmd, "--stage", "stage")
           /\ \A f \in SpaceFlags \cup StepFlags : Carries(cmd, f)
<1>1. PICK p : p = Spaces(e) OBVIOUS
<1>2. PICK q : q = StageStep(e) OBVIOUS
<1>3. PICK y : y = ReadOnly(r, e) OBVIOUS
<1>4. PICK pq : pq = p \o q OBVIOUS
<1>5. PICK o : o = pq \o y OBVIOUS
<1>6. cmd = o \o child BY <1>1, <1>2, <1>3, <1>4, <1>5 DEF StagedOf
<1>7. IsSeq(p) /\ \A f : Carries(p, f) <=> f \in SpaceFlags BY <1>1, SpacesFacts
<1>8. /\ IsSeq(q) /\ \A f : Carries(q, f) <=> f \in StepFlags
      /\ Begins(q, "--source", "source") /\ Begins(q, "--stage", "stage")
  BY <1>2, StageStepFacts
<1>9. IsSeq(y) /\ \A f : Carries(y, f) <=> (r /\ f = "--readonly") BY <1>3, ReadOnlyFacts
<1>10. IsSeq(pq) BY <1>4, <1>7, <1>8, Joined
<1>11. IsSeq(o) BY <1>5, <1>9, <1>10, Joined
<1>12. IsSeq(child) BY DEF Kept
<1>13. \A f : Carries(pq, f) <=> f \in SpaceFlags \cup StepFlags BY <1>4, <1>7, <1>8, CarriesJoined
<1>14. \A f : Carries(o, f) <=> (f \in SpaceFlags \cup StepFlags \/ (r /\ f = "--readonly"))
  BY <1>5, <1>9, <1>10, <1>13, CarriesJoined
<1>15. \A f : Carries(cmd, f) <=> (Carries(o, f) \/ Carries(child, f))
  BY <1>6, <1>11, <1>12, CarriesJoined
<1>16. ASSUME NEW f, NEW v, Ends(child, f, v) PROVE Ends(cmd, f, v)
  BY <1>6, <1>11, <1>12, <1>16, EndsJoined
<1>17. ASSUME NEW f, NEW v, HasArg(child, f, v) PROVE HasArg(cmd, f, v)
  BY <1>6, <1>11, <1>12, <1>17, HasJoined
<1>18. Begins(cmd, "--shared-dir", "stage")
  <2>1. ~Carries(o, "--shared-dir") BY <1>14 DEF SpaceFlags, StepFlags
  <2> QED BY <1>6, <1>11, <1>12, <2>1, BeginsJoined DEF Kept
<1>19. ASSUME NEW f \in {"--source", "--stage"}, NEW v, Begins(q, f, v) PROVE Begins(cmd, f, v)
  <2>1. ~Carries(p, f) BY <1>7, <1>19 DEF SpaceFlags
  <2>2. Begins(pq, f, v) BY <1>4, <1>7, <1>8, <1>19, <2>1, BeginsJoined
  <2>3. Begins(o, f, v) BY <1>5, <1>9, <1>10, <2>2, BeginsJoined
  <2> QED BY <1>6, <1>11, <1>12, <2>3, BeginsJoined
<1>20. Begins(cmd, "--source", "source") /\ Begins(cmd, "--stage", "stage")
  BY <1>8, <1>19
<1>21. IsSeq(cmd) BY <1>6, <1>11, <1>12, Joined
<1>22. Kept(cmd, "stage", limit, r, b)
  BY <1>15, <1>16, <1>17, <1>18, <1>21 DEF Kept
<1>23. ASSUME NEW f \in TranslateFlags
       PROVE  /\ Carries(extra, f) \/ Splits(cmd, f, who[f].guest, who[f].host)
              /\ \A id \in 0 .. IdMax : ~None(cmd, f, {"map", "forbid"}, id)
  <2>1. ~Carries(o, f) BY <1>14, <1>23 DEF TranslateFlags, SpaceFlags, StepFlags
  <2>2. PICK ug : ug = who[f].guest OBVIOUS
  <2>3. PICK uh : uh = who[f].host OBVIOUS
  <2>4. Carries(extra, f) \/ Splits(child, f, ug, uh) BY <1>23, <2>2, <2>3 DEF Extended
  <2>5. Carries(extra, f) \/ Splits(cmd, f, ug, uh) BY <1>6, <1>11, <1>12, <2>1, <2>4, SplitsJoined
  <2>6. ASSUME NEW id \in 0 .. IdMax PROVE ~None(cmd, f, {"map", "forbid"}, id)
    <3>1. PICK hows : hows = {"map", "forbid"} OBVIOUS
    <3>2. ~None(child, f, hows, id) BY <1>23, <3>1 DEF Extended
    <3> QED BY <1>6, <1>11, <1>12, <3>1, <3>2, SomeJoined
  <2> QED BY <2>2, <2>3, <2>5, <2>6
<1>24. Extended(cmd, cache, who, extra) BY <1>16, <1>23 DEF Extended
<1> QED BY <1>14, <1>15, <1>20, <1>22, <1>24

----------------------------------------------------------------------------
(***************************************************************************)
(* Confinement: validation, rendering, re-reading                          *)
(***************************************************************************)
Phases == {"given", "valid", "refused", "rendered", "spawned", "policy"}

ConfTypes ==
    /\ phase \in Phases
    /\ budget \in [limit : Limits, pool : Pools]
    /\ ids \in Pairs
    /\ share \in [kind : {"dir", "file", "tree"}, readOnly : BOOLEAN, cache : Modes,
                  extra : Extras, name : Texts, entry : Entries]
    /\ setpcap \in BOOLEAN

\* What validation leaves true of the record
Admitted ==
    /\ GuestAllowance(budget) > 0
    /\ \A i \in DOMAIN share.extra : ~FixedArgument(share.extra[i])
    /\ share.kind = "file" => \E entry \in share.entry : entry = EncodeEntry(share.name)
    /\ share.cache \in {"auto", "always", "metadata", "never"}

\* What the rendering leaves true of the command
CommandHolds ==
    /\ Kept(command, Root, ToString(budget.limit), share.readOnly, setpcap)
    /\ Extended(command, share.cache, ids, share.extra)
    /\ share.kind = "file" =>
         /\ Begins(command, "--source", "source") /\ Begins(command, "--stage", "stage")
         /\ \A f \in SpaceFlags \cup StepFlags : Carries(command, f)
    /\ share.kind # "file" /\ Carries(command, "stage-share") => Carries(share.extra, "stage-share")

\* The inductive invariant: a step knows of the earlier ones what the record and
\* the command still show
ConfInv ==
    /\ ConfTypes
    /\ phase \in {"valid", "rendered", "spawned", "policy"} => Admitted
    /\ phase \in {"rendered", "spawned", "policy"} => CommandHolds
    /\ RefusedIsForeign

\* The rendering is the parts above, one after the other
LEMMA RenderingIs ==
    ASSUME NEW e, e = ""
    PROVE  /\ Wrapped(Daemon) =
                WrappedOf(setpcap, e,
                    DaemonOf(BaseOf(Root, ToString(budget.pool), share.cache, ToString(budget.limit), ids),
                             share.readOnly, e, share.extra))
           /\ \A child : Staged(child) = StagedOf(share.readOnly, e, child)
  BY Zenon DEF Wrapped, Daemon, Setpriv, Staged, Staging, WrappedOf, DaemonOf, BaseOf, StagedOf, Legs, Spaces,
               StageStep, ReadOnly, Bounding, Fixed

\* An extra argument sequence that validate admits repeats no fixed argument
LEMMA ExtrasAreForeign ==
    ASSUME ConfTypes, Admitted
    PROVE  IsSeq(share.extra) /\ \A f \in Flags : ~Carries(share.extra, f)
<1>1. share.extra \in Extras BY DEF ConfTypes
<1>2. IsSeq(share.extra) BY <1>1, ConfinementAssumption DEF IsSeq
<1>3. \A f \in Flags : ~Carries(share.extra, f) BY DEF Admitted, FixedArgument, Carries
<1> QED BY <1>2, <1>3

\* What the rendering puts there
LEMMA RenderHolds ==
    ASSUME ConfInv, Render
    PROVE  CommandHolds'
<1>1. PICK e : e = "" OBVIOUS
<1>2. PICK extra : extra = share.extra OBVIOUS
<1>3. PICK root : root = Root OBVIOUS
<1>4. PICK limit : limit = ToString(budget.limit) OBVIOUS
<1>5. PICK pool : pool = ToString(budget.pool) OBVIOUS
<1>6. PICK r \in BOOLEAN : r = share.readOnly BY DEF ConfInv, ConfTypes
<1>7. PICK b \in BOOLEAN : b = setpcap BY DEF ConfInv, ConfTypes
<1>c. PICK cache : cache = share.cache OBVIOUS
<1>w. PICK who \in Pairs : who = ids BY DEF ConfInv, ConfTypes
<1>8. PICK child : child = WrappedOf(b, e, DaemonOf(BaseOf(root, pool, cache, limit, who), r, e, extra))
  OBVIOUS
<1>9. phase = "valid" /\ UNCHANGED <<budget, ids, share, setpcap>> BY DEF Render
<1>10. IsSeq(extra) /\ \A f \in Flags : ~Carries(extra, f)
  BY <1>2, <1>9, ExtrasAreForeign DEF ConfInv
<1>11. /\ Kept(child, root, limit, r, b) /\ Extended(child, cache, who, extra)
       /\ \A f : Carries(child, f) =>
             f \in LegFlags \cup OwnFlags \cup {"--bounding-set", "--readonly"} \/ Carries(extra, f)
  BY <1>8, <1>10, WrappedKeeps
<1>12. Wrapped(Daemon) = child
  BY <1>1, <1>2, <1>3, <1>4, <1>5, <1>6, <1>7, <1>8, <1>c, <1>w, RenderingIs
<1>13. Staged(child) = StagedOf(r, e, child) BY <1>1, <1>6, RenderingIs
<1>14. command' = IF root = "stage" THEN Staged(child) ELSE child
  BY <1>3, <1>12, Zenon DEF Render
<1>15. Root' = root /\ ToString(budget.limit)' = limit BY <1>3, <1>4, <1>9 DEF Root
<1>16. /\ share.readOnly' = r /\ setpcap' = b /\ share.kind' = share.kind /\ share.extra' = extra
       /\ share.cache' = cache /\ ids' = who
  BY <1>2, <1>6, <1>7, <1>9, <1>c, <1>w
<1>17. CASE share.kind = "file"
  <2>1. root = "stage" BY <1>3, <1>17 DEF Root
  <2>2. command' = StagedOf(r, e, child) BY <1>13, <1>14, <2>1
  <2>3. /\ Kept(command', "stage", limit, r, b) /\ Extended(command', cache, who, extra)
        /\ Begins(command', "--source", "source") /\ Begins(command', "--stage", "stage")
        /\ \A f \in SpaceFlags \cup StepFlags : Carries(command', f)
    BY <1>11, <2>1, <2>2, StagedKeeps
  <2>4. CommandHolds' <=>
          /\ Kept(command', root, limit, r, b) /\ Extended(command', cache, who, extra)
          /\ share.kind = "file" =>
               /\ Begins(command', "--source", "source") /\ Begins(command', "--stage", "stage")
               /\ \A f \in SpaceFlags \cup StepFlags : Carries(command', f)
          /\ share.kind # "file" /\ Carries(command', "stage-share") => Carries(extra, "stage-share")
    BY <1>15, <1>16 DEF CommandHolds
  <2> QED BY <1>17, <2>1, <2>3, <2>4
<1>18. CASE share.kind # "file"
  <2>1. root # "stage" BY <1>3, <1>18 DEF Root
  <2>2. command' = child BY <1>14, <2>1
  <2>3. Carries(child, "stage-share") => Carries(extra, "stage-share")
    BY <1>11 DEF LegFlags, OwnFlags, Flags, TranslateFlags
  <2>4. CommandHolds' <=>
          /\ Kept(command', root, limit, r, b) /\ Extended(command', cache, who, extra)
          /\ share.kind = "file" =>
               /\ Begins(command', "--source", "source") /\ Begins(command', "--stage", "stage")
               /\ \A f \in SpaceFlags \cup StepFlags : Carries(command', f)
          /\ share.kind # "file" /\ Carries(command', "stage-share") => Carries(extra, "stage-share")
    BY <1>15, <1>16 DEF CommandHolds
  <2> QED BY <1>11, <1>18, <2>2, <2>3, <2>4
<1> QED BY <1>17, <1>18

\* The re-read finds everything the rendering put there, so that it refuses only
\* what validate_staging takes for a staging step
LEMMA RecheckRefuses ==
    ASSUME ConfInv, Recheck, phase' = "policy"
    PROVE  share.kind # "file" /\ Carries(share.extra, "stage-share")
<1> SUFFICES ASSUME share.kind = "file" \/ ~Carries(share.extra, "stage-share") PROVE FALSE
  OBVIOUS
<1>1. PICK e : e = "" OBVIOUS
<1>2. phase = "rendered" BY DEF Recheck
<1>3. CommandHolds BY <1>2 DEF ConfInv
<1>4. Setpriv = Legs(e) /\ Staging = Spaces(e) BY <1>1, Zenon DEF Setpriv, Staging, Legs, Spaces
<1>5. \A i \in DOMAIN Setpriv : Setpriv[i][1] \in LegFlags
  BY <1>4, LegsFacts DEF Carries
<1>6. \A i \in DOMAIN Staging : Staging[i][1] \in SpaceFlags
  BY <1>4, SpacesFacts DEF Carries
<1>7. \A f \in Flags \cup LegFlags : Carries(command, f)
  BY <1>3 DEF CommandHolds, Kept
<1>8. \A i \in DOMAIN Setpriv : HasArg(command, Setpriv[i][1], "")
  <2>1. \A i \in DOMAIN Setpriv : Carries(command, Setpriv[i][1]) BY <1>5, <1>7
  <2> QED BY <2>1, HasAny, Zenon
<1>9. setpcap => HasArg(command, "--bounding-set", "-all")
  BY <1>3 DEF CommandHolds, Kept
<1>10. /\ HasArg(command, "--sandbox", "namespace") /\ HasArg(command, "--seccomp", "kill")
       /\ HasArg(command, "--inode-file-handles", "never")
  BY <1>3 DEF CommandHolds, Kept
<1>11. /\ HasArg(command, "--shared-dir", "") /\ HasArg(command, "--socket-path", "")
       /\ HasArg(command, "--rlimit-nofile", "")
  <2>1. /\ Carries(command, "--shared-dir") /\ Carries(command, "--socket-path")
        /\ Carries(command, "--rlimit-nofile")
    BY <1>7 DEF Flags
  <2> QED BY <2>1, HasAny, Zenon
<1>12. ASSUME HasArg(command, "stage-share", "")
       PROVE  /\ \A i \in DOMAIN Staging : HasArg(command, Staging[i][1], "")
              /\ HasArg(command, "--stage", "") /\ HasArg(command, "--source", "")
              /\ ValueOf(command, "--stage") = ValueOf(command, "--shared-dir")
              /\ ValueOf(command, "--stage") # ValueOf(command, "--source")
  <2>1. Carries(command, "stage-share") BY <1>12, HasAny, Zenon
  <2>2. share.kind = "file" BY <1>3, <2>1 DEF CommandHolds
  <2>3. /\ Begins(command, "--source", "source") /\ Begins(command, "--stage", "stage")
        /\ \A f \in SpaceFlags \cup StepFlags : Carries(command, f)
    BY <1>3, <2>2 DEF CommandHolds
  <2>4. Begins(command, "--shared-dir", "stage")
    BY <1>3, <2>2 DEF CommandHolds, Kept, Root
  <2>5. /\ ValueOf(command, "--source") = "source" /\ ValueOf(command, "--stage") = "stage"
        /\ ValueOf(command, "--shared-dir") = "stage"
    BY <2>3, <2>4, BeginsMeans
  <2>6. \A i \in DOMAIN Staging : Carries(command, Staging[i][1]) BY <1>6, <2>3
  <2>7. \A i \in DOMAIN Staging : HasArg(command, Staging[i][1], "") BY <2>6, HasAny, Zenon
  <2>8. Carries(command, "--stage") /\ Carries(command, "--source") BY <2>3 DEF StepFlags
  <2>9. HasArg(command, "--stage", "") /\ HasArg(command, "--source", "") BY <2>8, HasAny, Zenon
  <2>10. ValueOf(command, "--stage") # ValueOf(command, "--source") BY <2>5
  <2>11. ValueOf(command, "--stage") = ValueOf(command, "--shared-dir") BY <2>5
  <2> QED BY <2>7, <2>9, <2>10, <2>11
<1>13. phase' = "spawned"
  BY <1>8, <1>9, <1>10, <1>11, <1>12, Zenon DEF Recheck
<1>14. "spawned" # "policy" OBVIOUS
<1> QED BY <1>13, <1>14

\* The invariant holds at the start and every step keeps it
LEMMA ConfStart == ConfInit => ConfInv
  BY DEF ConfInit, ConfInv, ConfTypes, Phases, Pairs, RefusedIsForeign

\* Every step keeps the invariant
LEMMA ConfStep == ConfInv /\ [ConfNext]_confVars => ConfInv'
<1> SUFFICES ASSUME ConfInv, [ConfNext]_confVars PROVE ConfInv' OBVIOUS
<1>1. CASE Validate
  <2>1. phase = "given" /\ UNCHANGED <<budget, ids, share, setpcap, command>> BY <1>1 DEF Validate
  <2>2. phase' \in {"valid", "refused"} BY <1>1, Zenon DEF Validate
  <2>3. phase' = "valid" => Admitted
    <3>1. "refused" # "valid" OBVIOUS
    <3> QED BY <1>1, <3>1, Zenon DEF Validate, Admitted
  <2>4. Admitted' <=> Admitted BY <2>1 DEF Admitted, GuestAllowance, EffectiveWorkers, FixedArgument
  <2>5. ConfTypes' BY <2>1, <2>2 DEF ConfInv, ConfTypes, Phases
  <2> QED BY <2>2, <2>3, <2>4, <2>5 DEF ConfInv, RefusedIsForeign
<1>2. CASE Render
  <2>1. /\ phase = "valid" /\ phase' = "rendered" /\ UNCHANGED <<budget, ids, share, setpcap>>
    BY <1>2 DEF Render
  <2>2. Admitted' BY <2>1 DEF ConfInv, Admitted, GuestAllowance, EffectiveWorkers, FixedArgument
  <2>3. CommandHolds' BY <1>2, RenderHolds
  <2>4. ConfTypes' BY <2>1 DEF ConfInv, ConfTypes, Phases
  <2> QED BY <2>1, <2>2, <2>3, <2>4 DEF ConfInv, RefusedIsForeign
<1>3. CASE Recheck
  <2>1. phase = "rendered" /\ UNCHANGED <<budget, ids, share, setpcap, command>> BY <1>3 DEF Recheck
  <2>2. phase' \in {"spawned", "policy"} BY <1>3, Zenon DEF Recheck
  <2>3. Admitted' BY <2>1 DEF ConfInv, Admitted, GuestAllowance, EffectiveWorkers, FixedArgument
  <2>4. CommandHolds' BY <2>1 DEF ConfInv, CommandHolds, Root
  <2>5. ConfTypes' BY <2>1, <2>2 DEF ConfInv, ConfTypes, Phases
  <2>6. RefusedIsForeign'
    <3>1. phase' = "policy" => share.kind # "file" /\ Carries(share.extra, "stage-share")
      BY <1>3, RecheckRefuses
    <3> QED BY <2>1, <3>1 DEF RefusedIsForeign, Carries
  <2> QED BY <2>2, <2>3, <2>4, <2>5, <2>6 DEF ConfInv
<1>4. CASE UNCHANGED confVars
  BY <1>4 DEF ConfInv, confVars, ConfTypes, Admitted, GuestAllowance, EffectiveWorkers, FixedArgument,
       CommandHolds, Root, RefusedIsForeign
<1> QED BY <1>1, <1>2, <1>3, <1>4 DEF ConfNext

\* What the invariant says of a spawned daemon and of the descriptor budget
LEMMA PolicyIsKept == ConfInv => PolicyHolds
<1> SUFFICES ASSUME ConfInv, phase = "spawned" PROVE PolicyHolds BY DEF PolicyHolds
<1>1. CommandHolds BY DEF ConfInv
<1>2. /\ LastOf(command, "--sandbox") = "namespace" /\ LastOf(command, "--seccomp") = "kill"
      /\ LastOf(command, "--inode-file-handles") = "never"
      /\ LastOf(command, "--rlimit-nofile") = ToString(budget.limit)
      /\ LastOf(command, "--shared-dir") = Root
  BY <1>1, EndsMeans DEF CommandHolds, Kept
<1>3. share.readOnly => Carries(command, "--readonly") BY <1>1 DEF CommandHolds, Kept
<1>4. share.readOnly => HasArg(command, "--readonly", "") BY <1>3, HasAny, Zenon
<1>5. HasArg(share.extra, "--cache", "") \/ LastOf(command, "--cache") = share.cache
  <2>1. Carries(share.extra, "--cache") \/ Ends(command, "--cache", share.cache)
    BY <1>1 DEF CommandHolds, Extended
  <2> QED BY <2>1, EndsMeans, HasAny, Zenon
<1>6. share.cache \in {"auto", "always", "metadata", "never"} BY DEF ConfInv, Admitted
<1> QED BY <1>2, <1>4, <1>5, <1>6, Zenon DEF PolicyHolds, Root

\* The command of a spawned daemon translates each id once, or the share repeats a
\* translation and each id is still decided
LEMMA IdsAreKept == ConfInv => IdsArePartitioned
<1> SUFFICES ASSUME ConfInv, phase = "spawned", NEW flag \in TranslateFlags
             PROVE  IF HasArg(share.extra, flag, "")
                    THEN \A id \in 0..IdMax : Deciding(command, flag, {"map", "forbid"}, id) # {}
                    ELSE TranslatedOnce(command, flag, ids[flag])
  BY DEF IdsArePartitioned
<1>1. Extended(command, share.cache, ids, share.extra) BY DEF ConfInv, CommandHolds
<1>2. HasArg(share.extra, flag, "") \/ TranslatedOnce(command, flag, ids[flag])
  <2>1. Carries(share.extra, flag) \/ Splits(command, flag, ids[flag].guest, ids[flag].host)
    BY <1>1 DEF Extended
  <2> QED BY <2>1, HasAny, SplitsMeans, Zenon
<1>3. \A id \in 0..IdMax : Deciding(command, flag, {"map", "forbid"}, id) # {}
  BY <1>1, SomeMeans DEF Extended
<1> QED BY <1>2, <1>3

\* An admitted budget leaves a descriptor for the guest
LEMMA AllowanceIsKept == ConfInv => AllowanceIsPositive
<1> SUFFICES ASSUME ConfInv, phase \in {"valid", "rendered", "spawned"}
             PROVE  budget.limit > FixedReserve + (IF budget.pool > 0 THEN budget.pool ELSE 1)
  BY DEF AllowanceIsPositive
<1>1. PICK limit \in Nat : limit = budget.limit BY ConfinementAssumption DEF ConfInv, ConfTypes
<1>2. PICK pool \in Nat : pool = budget.pool BY ConfinementAssumption DEF ConfInv, ConfTypes
<1>3. Admitted BY DEF ConfInv
<1>4. limit - (FixedReserve + (IF pool = 0 THEN 1 ELSE pool)) > 0
  BY <1>1, <1>2, <1>3 DEF Admitted, GuestAllowance, EffectiveWorkers
<1>5. limit > FixedReserve + (IF pool > 0 THEN pool ELSE 1) BY <1>4, ConfinementAssumption
<1> QED BY <1>1, <1>2, <1>5

----------------------------------------------------------------------------
(***************************************************************************)
(* Confinement: contains_unresolved_token                                  *)
(***************************************************************************)
\* One call of the scan, the rest of it given as f
TokenStep(f, t) ==
    LET opens == {i \in DOMAIN t : t[i] = "@"} IN
    IF opens = {} THEN FALSE ELSE
    LET open == CHOOSE i \in opens : \A j \in opens : i <= j
        closes == {i \in opens : i > open} IN
    IF closes = {} THEN FALSE ELSE
    LET close == CHOOSE i \in closes : \A j \in closes : i <= j IN
    \/ close > open + 1 /\ \A i \in (open + 1) .. (close - 1) : t[i] \in Upper
    \/ f[SubSeq(t, close, Len(t))]

\* The first two @ of a text
FirstTwo(t, o, c) ==
    /\ o \in DOMAIN t /\ c \in DOMAIN t /\ o < c /\ t[o] = "@" /\ t[c] = "@"
    /\ \A j \in DOMAIN t : t[j] = "@" => j = o \/ c <= j

Spans(t, o, c) == c > o + 1 /\ \A i \in (o + 1) .. (c - 1) : t[i] \in Upper

\* The scan is the fixed point of its step
LEMMA TokenScan == TokenFrom = CHOOSE f : f = [t \in Seq(Chars) |-> TokenStep(f, t)]
  BY Zenon DEF TokenFrom, TokenStep

\* A text has fewer than two @, and then no token, or the call looks at the first two
LEMMA TokenShape ==
    ASSUME NEW t \in Seq(Chars)
    PROVE  \/ ~HasToken(t) /\ \A f : TokenStep(f, t) = FALSE
           \/ \E o, c : /\ FirstTwo(t, o, c)
                        /\ \A f : TokenStep(f, t) = (Spans(t, o, c) \/ f[SubSeq(t, c, Len(t))])
<1> DEFINE opens == {i \in DOMAIN t : t[i] = "@"}
           open == CHOOSE i \in opens : \A j \in opens : i <= j
           closes == {i \in opens : i > open}
           close == CHOOSE i \in closes : \A j \in closes : i <= j
<1>1. DOMAIN t = 1 .. Len(t) /\ Len(t) \in Nat OBVIOUS
<1>2. opens \in SUBSET Nat BY <1>1
<1>3. CASE opens = {}
  <2>1. ~HasToken(t) BY <1>3 DEF HasToken
  <2>2. \A f : TokenStep(f, t) = FALSE BY <1>3 DEF TokenStep
  <2> QED BY <2>1, <2>2
<1>4. CASE opens # {}
  <2>1. \E m \in opens : \A n \in opens : m <= n
    <3> HIDE DEF opens
    <3> QED BY <1>2, <1>4, Least
  <2>2. open \in opens /\ \A j \in opens : open <= j
    <3> HIDE DEF opens
    <3> QED BY <2>1
  <2>3. closes \in SUBSET Nat BY <1>2
  <2>4. CASE closes = {}
    <3>1. ~HasToken(t)
      <4> SUFFICES ASSUME HasToken(t) PROVE FALSE OBVIOUS
      <4>1. PICK i, j \in DOMAIN t : i + 1 < j /\ t[i] = "@" /\ t[j] = "@" BY DEF HasToken
      <4>2. i \in opens /\ j \in opens BY <4>1
      <4> HIDE DEF opens, open
      <4>3. open <= i BY <2>2, <4>2
      <4>4. j > open BY <1>2, <2>2, <4>1, <4>2, <4>3
      <4> QED BY <2>4, <4>2, <4>4
    <3>2. \A f : TokenStep(f, t) = FALSE BY <1>4, <2>4 DEF TokenStep
    <3> QED BY <3>1, <3>2
  <2>5. CASE closes # {}
    <3>1. \E m \in closes : \A n \in closes : m <= n
      <4> HIDE DEF closes
      <4> QED BY <2>3, <2>5, Least
    <3>2. close \in closes /\ \A j \in closes : close <= j
      <4> HIDE DEF closes
      <4> QED BY <3>1
    <3>3. \A f : TokenStep(f, t) = (Spans(t, open, close) \/ f[SubSeq(t, close, Len(t))])
      BY <1>4, <2>5 DEF TokenStep, Spans
    <3>4. PICK o : o = open OBVIOUS
    <3>5. PICK c : c = close OBVIOUS
    <3>6. /\ o \in opens /\ c \in opens /\ c > o
          /\ \A j \in opens : o <= j /\ (j > o => c <= j)
      <4> HIDE DEF opens, open, close
      <4> QED BY <2>2, <3>2, <3>4, <3>5
    <3>7. FirstTwo(t, o, c)
      <4> HIDE DEF open, closes, close
      <4> QED BY <1>1, <3>6 DEF FirstTwo
    <3> HIDE DEF open, closes, close, opens
    <3> QED BY <3>3, <3>4, <3>5, <3>7
  <2> QED BY <2>4, <2>5
<1> QED BY <1>3, <1>4

\* What is behind the second @ is shorter
LEMMA Behind ==
    ASSUME NEW t \in Seq(Chars), NEW o, NEW c, FirstTwo(t, o, c)
    PROVE  LET u == SubSeq(t, c, Len(t)) IN
           /\ u \in Seq(Chars) /\ Len(u) = Len(t) - c + 1 /\ Len(u) < Len(t)
           /\ \A i \in 1 .. Len(u) : u[i] = t[c + i - 1]
<1>1. /\ DOMAIN t = 1 .. Len(t) /\ Len(t) \in Nat /\ o \in 1 .. Len(t) /\ c \in 1 .. Len(t) /\ o < c
  BY DEF FirstTwo
<1>2. \A i \in c .. Len(t) : t[i] \in Chars BY <1>1
<1>3. PICK n \in Nat : n = Len(t) BY <1>1
<1>4. PICK u : u = SubSeq(t, c, n) OBVIOUS
<1>5. /\ u \in Seq(Chars) /\ Len(u) = (IF c <= n THEN n - c + 1 ELSE 0)
      /\ \A i \in 1 .. n - c + 1 : u[i] = t[c + i - 1]
  BY <1>1, <1>2, <1>3, <1>4, SubSeqProperties
<1>6. Len(u) = n - c + 1 /\ n - c + 1 < n BY <1>1, <1>3, <1>5
<1> QED BY <1>3, <1>4, <1>5, <1>6

\* A token of the text is the one between the first two @ or one of what is behind
LEMMA TokenMeans ==
    ASSUME NEW t \in Seq(Chars), NEW o, NEW c, FirstTwo(t, o, c)
    PROVE  HasToken(t) <=> (Spans(t, o, c) \/ HasToken(SubSeq(t, c, Len(t))))
<1>1. /\ DOMAIN t = 1 .. Len(t) /\ Len(t) \in Nat /\ o \in 1 .. Len(t) /\ c \in 1 .. Len(t) /\ o < c
      /\ t[o] = "@" /\ t[c] = "@"
  BY DEF FirstTwo
<1>2. PICK u : u = SubSeq(t, c, Len(t)) OBVIOUS
<1>3. /\ u \in Seq(Chars) /\ Len(u) = Len(t) - c + 1 /\ DOMAIN u = 1 .. Len(u)
      /\ \A i \in 1 .. Len(u) : u[i] = t[c + i - 1]
  BY <1>2, Behind
<1>4. ASSUME Spans(t, o, c) PROVE HasToken(t)
  <2>1. o + 1 < c BY <1>1, <1>4 DEF Spans
  <2> QED BY <1>1, <1>4, <2>1 DEF Spans, HasToken
<1>5. ASSUME HasToken(u) PROVE HasToken(t)
  <2>1. PICK i, j \in 1 .. Len(u) : /\ i + 1 < j /\ u[i] = "@" /\ u[j] = "@"
                                    /\ \A k \in (i + 1) .. (j - 1) : u[k] \in Upper
    BY <1>3, <1>5 DEF HasToken
  <2>2. PICK p : p = c + i - 1 OBVIOUS
  <2>3. PICK q : q = c + j - 1 OBVIOUS
  <2>4. p \in 1 .. Len(t) /\ q \in 1 .. Len(t) /\ p + 1 < q BY <1>1, <1>3, <2>1, <2>2, <2>3
  <2>5. t[p] = "@" /\ t[q] = "@" BY <1>3, <2>1, <2>2, <2>3
  <2>6. ASSUME NEW k \in (p + 1) .. (q - 1) PROVE t[k] \in Upper
    <3>1. PICK l : l = k - c + 1 OBVIOUS
    <3>2. l \in (i + 1) .. (j - 1) /\ l \in 1 .. Len(u) /\ c + l - 1 = k
      BY <1>1, <1>3, <2>1, <2>2, <2>3, <2>6, <3>1
    <3>3. u[l] = t[c + l - 1] BY <1>3, <3>2
    <3>4. u[l] \in Upper BY <2>1, <3>2
    <3> QED BY <3>2, <3>3, <3>4
  <2> QED BY <1>1, <2>4, <2>5, <2>6 DEF HasToken
<1>6. ASSUME HasToken(t), ~Spans(t, o, c) PROVE HasToken(u)
  <2>1. PICK i, j \in 1 .. Len(t) : /\ i + 1 < j /\ t[i] = "@" /\ t[j] = "@"
                                    /\ \A k \in (i + 1) .. (j - 1) : t[k] \in Upper
    BY <1>1, <1>6 DEF HasToken
  <2>2. j = o \/ c <= j BY <1>1, <2>1 DEF FirstTwo
  <2>3. i = o \/ c <= i BY <1>1, <2>1 DEF FirstTwo
  <2>4. "@" \notin Upper BY DEF Upper, Hex
  <2>5. i # o
    <3> SUFFICES ASSUME i = o PROVE FALSE OBVIOUS
    <3>1. c <= j BY <1>1, <2>1, <2>2
    <3>2. CASE c = j
      BY <1>1, <1>6, <2>1, <3>2 DEF Spans
    <3>3. CASE c < j
      <4>1. c \in (i + 1) .. (j - 1) BY <1>1, <3>3
      <4> QED BY <1>1, <2>1, <2>4, <4>1
    <3> QED BY <1>1, <3>1, <3>2, <3>3
  <2>6. c <= i BY <2>3, <2>5
  <2>7. PICK p : p = i - c + 1 OBVIOUS
  <2>8. PICK q : q = j - c + 1 OBVIOUS
  <2>9. /\ p \in 1 .. Len(u) /\ q \in 1 .. Len(u) /\ p + 1 < q /\ c + p - 1 = i /\ c + q - 1 = j
    BY <1>1, <1>3, <2>1, <2>6, <2>7, <2>8
  <2>10. u[p] = "@" /\ u[q] = "@"
    <3>1. u[p] = t[c + p - 1] /\ u[q] = t[c + q - 1] BY <1>3, <2>9
    <3> QED BY <2>1, <2>9, <3>1
  <2>11. ASSUME NEW k \in (p + 1) .. (q - 1) PROVE u[k] \in Upper
    <3>1. c + k - 1 \in (i + 1) .. (j - 1) /\ k \in 1 .. Len(u) BY <1>1, <1>3, <2>1, <2>6, <2>7, <2>8, <2>9, <2>11
    <3>2. u[k] = t[c + k - 1] BY <1>3, <3>1
    <3> QED BY <2>1, <3>1, <3>2
  <2> QED BY <1>3, <2>9, <2>10, <2>11 DEF HasToken
<1> QED BY <1>2, <1>4, <1>5, <1>6

\* What the scan is meant to find is what it finds when the rest of it does
LEMMA TokenStepMeans ==
    ASSUME NEW t \in Seq(Chars), NEW f,
           \A u \in Seq(Chars) : Len(u) < Len(t) => f[u] = HasToken(u)
    PROVE  TokenStep(f, t) = HasToken(t)
<1>1. CASE ~HasToken(t) /\ \A g : TokenStep(g, t) = FALSE
  <2>1. TokenStep(f, t) = FALSE BY <1>1
  <2> QED BY <1>1, <2>1 DEF HasToken
<1>2. ASSUME NEW o, NEW c, FirstTwo(t, o, c),
             \A g : TokenStep(g, t) = (Spans(t, o, c) \/ g[SubSeq(t, c, Len(t))])
      PROVE  TokenStep(f, t) = HasToken(t)
  <2>1. PICK u : u = SubSeq(t, c, Len(t)) OBVIOUS
  <2>2. u \in Seq(Chars) /\ Len(u) < Len(t) BY <1>2, <2>1, Behind
  <2>3. f[u] = HasToken(u) BY <2>2
  <2>4. TokenStep(f, t) = (Spans(t, o, c) \/ f[u]) BY <1>2, <2>1
  <2>5. HasToken(t) <=> (Spans(t, o, c) \/ HasToken(u)) BY <1>2, <2>1, TokenMeans
  <2> QED BY <2>3, <2>4, <2>5 DEF HasToken
<1> QED BY <1>1, <1>2, TokenShape

\* The scan finds a token where there is one, and only there
LEMMA ScanFinds == ASSUME NEW t \in Seq(Chars) PROVE TokenFrom[t] = HasToken(t)
<1> DEFINE F == [u \in Seq(Chars) |-> HasToken(u)]
<1>1. F = [u \in Seq(Chars) |-> TokenStep(F, u)]
  <2>1. \A u \in Seq(Chars) : F[u] = HasToken(u) OBVIOUS
  <2> HIDE DEF F
  <2>2. \A u \in Seq(Chars) : TokenStep(F, u) = HasToken(u) BY <2>1, TokenStepMeans
  <2>3. [u \in Seq(Chars) |-> TokenStep(F, u)] = [u \in Seq(Chars) |-> HasToken(u)] BY <2>2
  <2> QED BY <2>3 DEF F
<1>2. PICK f : f = TokenFrom OBVIOUS
<1>3. f = [u \in Seq(Chars) |-> TokenStep(f, u)]
  <2> HIDE DEF F
  <2> QED BY <1>1, <1>2, TokenScan, Zenon
<1>4. \A u \in Seq(Chars) : f[u] = TokenStep(f, u) BY <1>3
<1> DEFINE bad == {n \in Nat : \E u \in Seq(Chars) : Len(u) = n /\ f[u] # HasToken(u)}
<1>5. bad = {}
  <2> SUFFICES ASSUME bad # {} PROVE FALSE OBVIOUS
  <2>1. \E m \in bad : \A n \in bad : m <= n
    <3>1. bad \in SUBSET Nat OBVIOUS
    <3> HIDE DEF bad
    <3> QED BY <3>1, Least
  <2>2. PICK m \in bad : \A n \in bad : m <= n BY <2>1
  <2>3. PICK u \in Seq(Chars) : Len(u) = m /\ f[u] # HasToken(u) OBVIOUS
  <2>4. ASSUME NEW v \in Seq(Chars), Len(v) < Len(u) PROVE f[v] = HasToken(v)
    <3>1. Len(v) \in Nat /\ Len(u) \in Nat OBVIOUS
    <3>2. Len(v) \notin bad BY <2>2, <2>3, <2>4, <3>1
    <3> QED BY <3>1, <3>2
  <2>5. TokenStep(f, u) = HasToken(u) BY <2>4, TokenStepMeans
  <2> QED BY <1>4, <2>3, <2>5
<1>6. Len(t) \in Nat OBVIOUS
<1>7. f[t] = HasToken(t) BY <1>5, <1>6
<1> QED BY <1>2, <1>7

\* In particular in the share's name
LEMMA TokensAreKept == ConfInv => TokensAreFound
<1> SUFFICES ASSUME ConfInv PROVE TokensAreFound OBVIOUS
<1>1. share.name \in Seq(Chars) BY ConfinementAssumption DEF ConfInv, ConfTypes
<1> QED BY <1>1, ScanFinds DEF TokensAreFound, Unresolved

----------------------------------------------------------------------------
(***************************************************************************)
(* Confinement: encode_entry                                               *)
(***************************************************************************)
\* e[i] is the encoding of the first i characters
Encodes(e, t, n) ==
    /\ e \in [0 .. n -> Seq(Chars)] /\ e[0] = <<>>
    /\ \A i \in 1 .. n : e[i] = e[i - 1] \o EncodeByte(t[i])

\* What a character is written as, and that it can be read back from it
LEMMA ByteIs ==
    ASSUME NEW c \in Chars, NEW b, b = EncodeByte(c)
    PROVE  /\ b \in Seq(Chars)
           /\ \/ c \in Safe /\ c # "%" /\ Len(b) = 1 /\ b[1] = c
              \/ c = "%" /\ Len(b) = 3 /\ b[1] = "%" /\ b[2] = "2" /\ b[3] = "5"
              \/ c = "@" /\ Len(b) = 3 /\ b[1] = "%" /\ b[2] = "4" /\ b[3] = "0"
<1>1. "%" \notin Safe /\ "@" \notin Safe BY DEF Safe, Upper, Hex
<1>2. CASE c \in Safe
  <2>1. b = <<c>> BY <1>2 DEF EncodeByte
  <2>2. <<c>> \in Seq(Chars) /\ Len(<<c>>) = 1 /\ <<c>>[1] = c OBVIOUS
  <2> QED BY <1>1, <1>2, <2>1, <2>2
<1>3. CASE c = "%"
  <2>1. b = <<"%", "2", "5">> BY <1>1, <1>3 DEF EncodeByte
  <2>2. "%" \in Chars /\ "2" \in Chars /\ "5" \in Chars BY DEF Chars, Safe, Upper, Hex
  <2>3. /\ <<"%", "2", "5">> \in Seq(Chars) /\ Len(<<"%", "2", "5">>) = 3
        /\ <<"%", "2", "5">>[1] = "%" /\ <<"%", "2", "5">>[2] = "2" /\ <<"%", "2", "5">>[3] = "5"
    BY <2>2
  <2> QED BY <1>3, <2>1, <2>3
<1>4. CASE c = "@"
  <2>1. "@" # "%" OBVIOUS
  <2>2. b = <<"%", "4", "0">> BY <1>1, <1>4, <2>1 DEF EncodeByte
  <2>3. "%" \in Chars /\ "4" \in Chars /\ "0" \in Chars BY DEF Chars, Safe, Upper, Hex
  <2>4. /\ <<"%", "4", "0">> \in Seq(Chars) /\ Len(<<"%", "4", "0">>) = 3
        /\ <<"%", "4", "0">>[1] = "%" /\ <<"%", "4", "0">>[2] = "4" /\ <<"%", "4", "0">>[3] = "0"
    BY <2>3
  <2> QED BY <1>4, <2>2, <2>4
<1> QED BY <1>2, <1>3, <1>4 DEF Chars

\* A character is known from the first character of what it is written as, or the
\* first two
LEMMA ByteReadsBack ==
    ASSUME NEW c \in Chars, NEW d \in Chars, NEW a, NEW b, a = EncodeByte(c), b = EncodeByte(d),
           a[1] = b[1], Len(a) >= 2 /\ Len(b) >= 2 => a[2] = b[2]
    PROVE  c = d
<1>1. /\ Len(a) \in {1, 3}
      /\ \/ c \in Safe /\ c # "%" /\ Len(a) = 1 /\ a[1] = c
         \/ c = "%" /\ Len(a) = 3 /\ a[1] = "%" /\ a[2] = "2" /\ a[3] = "5"
         \/ c = "@" /\ Len(a) = 3 /\ a[1] = "%" /\ a[2] = "4" /\ a[3] = "0"
  BY ByteIs
<1>2. /\ Len(b) \in {1, 3}
      /\ \/ d \in Safe /\ d # "%" /\ Len(b) = 1 /\ b[1] = d
         \/ d = "%" /\ Len(b) = 3 /\ b[1] = "%" /\ b[2] = "2" /\ b[3] = "5"
         \/ d = "@" /\ Len(b) = 3 /\ b[1] = "%" /\ b[2] = "4" /\ b[3] = "0"
  BY ByteIs
<1> QED BY <1>1, <1>2

\* Every text has its encodings, prefix by prefix
LEMMA EncodesExists ==
    ASSUME NEW t \in Seq(Chars)
    PROVE  \E e : Encodes(e, t, Len(t))
<1>0. Len(t) \in Nat /\ \A i \in 1 .. Len(t) : t[i] \in Chars OBVIOUS
<1> DEFINE bad == {n \in 0 .. Len(t) : ~\E e : Encodes(e, t, n)}
<1>1. 0 \notin bad
  <2>1. PICK e : e = [i \in 0 .. 0 |-> <<>>] OBVIOUS
  <2>2. e \in [0 .. 0 -> Seq(Chars)] /\ e[0] = <<>> BY <2>1
  <2>3. Encodes(e, t, 0) BY <2>2 DEF Encodes
  <2> QED BY <2>3
<1>2. bad = {}
  <2> SUFFICES ASSUME bad # {} PROVE FALSE OBVIOUS
  <2>1. bad \in SUBSET Nat BY <1>0
  <2>2. PICK m \in bad : \A n \in bad : m <= n
    <3> HIDE DEF bad
    <3> QED BY <2>1, Least
  <2>3. m \in 1 .. Len(t) BY <1>0, <1>1
  <2>4. m - 1 \in 0 .. Len(t) /\ m - 1 \notin bad BY <1>0, <2>2, <2>3
  <2>5. PICK e : Encodes(e, t, m - 1) BY <2>4
  <2>6. PICK l : l = e[m - 1] \o EncodeByte(t[m]) OBVIOUS
  <2>7. PICK g : g = [i \in 0 .. m |-> IF i = m THEN l ELSE e[i]] OBVIOUS
  <2>8. e[m - 1] \in Seq(Chars) BY <2>3, <2>5 DEF Encodes
  <2>9. EncodeByte(t[m]) \in Seq(Chars) BY <1>0, <2>3, ByteIs
  <2>10. l \in Seq(Chars) BY <2>6, <2>8, <2>9
  <2>11. \A i \in 0 .. m - 1 : e[i] \in Seq(Chars) BY <2>5 DEF Encodes
  <2>12. g \in [0 .. m -> Seq(Chars)] BY <2>3, <2>7, <2>10, <2>11
  <2>13. g[0] = <<>> BY <2>3, <2>5, <2>7 DEF Encodes
  <2>14. ASSUME NEW i \in 1 .. m PROVE g[i] = g[i - 1] \o EncodeByte(t[i])
    <3>1. g[i - 1] = e[i - 1] BY <2>3, <2>7, <2>14
    <3>2. CASE i = m
      <4>1. g[m] = l BY <2>3, <2>7
      <4> QED BY <2>6, <3>1, <3>2, <4>1
    <3>3. CASE i # m
      <4>1. i \in 1 .. m - 1 /\ g[i] = e[i] BY <2>3, <2>7, <3>3
      <4> QED BY <2>5, <3>1, <4>1 DEF Encodes
    <3> QED BY <3>2, <3>3
  <2>15. Encodes(g, t, m) BY <2>12, <2>13, <2>14 DEF Encodes
  <2> QED BY <2>15
<1> QED BY <1>0, <1>2

\* FlattenSeq, as it is defined
FlattenStep(s, f, i) == IF i = 1 THEN s[i] ELSE f[i - 1] \o s[i]

\* FlattenSeq of a sequence that is not empty is the fixed point of its step
LEMMA FlattenIs ==
    ASSUME NEW s, Len(s) # 0
    PROVE  FlattenSeq(s) = (CHOOSE f : f = [i \in 1 .. Len(s) |-> FlattenStep(s, f, i)])[Len(s)]
  BY Zenon DEF FlattenSeq, FlattenStep

\* The encoding of a text is the last of its prefixes'
LEMMA EncodeIs ==
    ASSUME NEW t \in Seq(Chars), NEW e, Encodes(e, t, Len(t))
    PROVE  EncodeEntry(t) = e[Len(t)]
<1>0. PICK n \in Nat : n = Len(t) OBVIOUS
<1>1. DOMAIN t = 1 .. n /\ \A i \in 1 .. n : t[i] \in Chars BY <1>0
<1>2. PICK s : s = [i \in DOMAIN t |-> EncodeByte(t[i])] OBVIOUS
<1>3. \A i \in 1 .. n : s[i] = EncodeByte(t[i]) /\ s[i] \in Seq(Chars) BY <1>1, <1>2, ByteIs
<1>4. s \in [1 .. n -> Seq(Chars)] BY <1>1, <1>2, <1>3
<1>5. s \in Seq(Seq(Chars)) /\ Len(s) = n BY <1>4, IsASeq
<1>6. EncodeEntry(t) = FlattenSeq(s) BY <1>2 DEF EncodeEntry
<1>7. /\ e \in [0 .. n -> Seq(Chars)] /\ e[0] = <<>>
      /\ \A i \in 1 .. n : e[i] = e[i - 1] \o s[i]
  BY <1>0, <1>3 DEF Encodes
<1>8. CASE n = 0
  <2>1. s = <<>> BY <1>5, <1>8, EmptySeq
  <2>2. FlattenSeq(s) = s BY <1>5, <1>8, Zenon DEF FlattenSeq
  <2> QED BY <1>0, <1>6, <1>7, <1>8, <2>1, <2>2
<1>9. CASE n # 0
  <2> DEFINE F == [i \in 1 .. n |-> e[i]]
  <2>0. e[1] = s[1]
    <3>1. 1 \in 1 .. n /\ 1 - 1 = 0 BY <1>9
    <3>2. e[1] = e[0] \o s[1] BY <1>7, <3>1
    <3>3. <<>> \o s[1] = s[1] BY <1>3, <3>1, ConcatEmptySeq
    <3> QED BY <1>7, <3>2, <3>3
  <2>1. F = [i \in 1 .. n |-> FlattenStep(s, F, i)]
    <3>1. ASSUME NEW i \in 1 .. n PROVE e[i] = FlattenStep(s, F, i)
      <4>1. CASE i = 1
        <5>1. FlattenStep(s, F, i) = s[i] BY <4>1, Zenon DEF FlattenStep
        <5> QED BY <2>0, <4>1, <5>1
      <4>2. CASE i # 1
        <5>1. i - 1 \in 1 .. n BY <1>0, <4>2
        <5>2. F[i - 1] = e[i - 1] BY <5>1
        <5>3. FlattenStep(s, F, i) = F[i - 1] \o s[i] BY <4>2, Zenon DEF FlattenStep
        <5>4. e[i] = e[i - 1] \o s[i] BY <1>7
        <5> HIDE DEF F
        <5> QED BY <5>2, <5>3, <5>4
      <4> QED BY <4>1, <4>2
    <3>2. PICK g : g = F OBVIOUS
    <3>3. \A i \in 1 .. n : e[i] = FlattenStep(s, g, i)
      <4> HIDE DEF F
      <4> QED BY <3>1, <3>2
    <3>4. [i \in 1 .. n |-> e[i]] = [i \in 1 .. n |-> FlattenStep(s, g, i)] BY <3>3
    <3> QED BY <3>2, <3>4
  <2>2. PICK f : f = CHOOSE g : g = [i \in 1 .. n |-> FlattenStep(s, g, i)] OBVIOUS
  <2>3. f = [i \in 1 .. n |-> FlattenStep(s, f, i)]
    <3> HIDE DEF F
    <3> QED BY <2>1, <2>2, Zenon
  <2>4. FlattenSeq(s) = f[n]
    <3>1. Len(s) # 0 BY <1>5, <1>9
    <3> QED BY <1>5, <2>2, <3>1, FlattenIs, Zenon
  <2>5. \A i \in 1 .. n : f[i] = FlattenStep(s, f, i) BY <2>3
  <2>6. \A i \in 1 .. n : e[i] = FlattenStep(s, e, i)
    <3>1. ASSUME NEW i \in 1 .. n PROVE e[i] = FlattenStep(s, e, i)
      <4>1. CASE i = 1
        <5>1. FlattenStep(s, e, i) = s[i] BY <4>1, Zenon DEF FlattenStep
        <5> QED BY <2>0, <4>1, <5>1
      <4>2. CASE i # 1
        <5>1. e[i] = e[i - 1] \o s[i] BY <1>7
        <5>2. FlattenStep(s, e, i) = e[i - 1] \o s[i] BY <4>2, Zenon DEF FlattenStep
        <5> QED BY <5>1, <5>2
      <4> QED BY <4>1, <4>2
    <3> QED BY <3>1
  <2> DEFINE bad == {i \in 1 .. n : f[i] # e[i]}
  <2>7. bad = {}
    <3> SUFFICES ASSUME bad # {} PROVE FALSE OBVIOUS
    <3>1. bad \in SUBSET Nat OBVIOUS
    <3>2. PICK m \in bad : \A k \in bad : m <= k
      <4> HIDE DEF bad
      <4> QED BY <3>1, Least
    <3>3. m \in 1 .. n /\ f[m] # e[m] OBVIOUS
    <3>4. CASE m = 1
      <4>1. FlattenStep(s, f, m) = s[m] /\ FlattenStep(s, e, m) = s[m] BY <3>4, Zenon DEF FlattenStep
      <4> QED BY <2>5, <2>6, <3>3, <4>1
    <3>5. CASE m # 1
      <4>1. m - 1 \in 1 .. n /\ m - 1 \notin bad BY <1>0, <3>2, <3>3, <3>5
      <4>2. f[m - 1] = e[m - 1] BY <4>1
      <4>3. FlattenStep(s, f, m) = f[m - 1] \o s[m] /\ FlattenStep(s, e, m) = e[m - 1] \o s[m]
        BY <3>5, Zenon DEF FlattenStep
      <4> QED BY <2>5, <2>6, <3>3, <4>2, <4>3
    <3> QED BY <3>4, <3>5
  <2>8. n \in 1 .. n BY <1>0, <1>9
  <2>9. f[n] = e[n] BY <2>7, <2>8
  <2> QED BY <1>0, <1>6, <2>4, <2>9
<1> QED BY <1>8, <1>9

\* What e[j] begins with: the encoding of every shorter prefix, which is shorter
Begun(e, i, j) ==
    /\ Len(e[i]) + (j - i) <= Len(e[j])
    /\ \A x \in 1 .. Len(e[i]) : e[j][x] = e[i][x]

\* A prefix's encoding begins with that of every shorter prefix
LEMMA EncodesGrow ==
    ASSUME NEW t \in Seq(Chars), NEW n \in Nat, n = Len(t), NEW e, Encodes(e, t, n),
           NEW i \in 0 .. n, NEW j \in i .. n
    PROVE  Begun(e, i, j)
<1>0. \A k \in 0 .. n : e[k] \in Seq(Chars) /\ Len(e[k]) \in Nat BY DEF Encodes
<1> DEFINE bad == {k \in i .. n : ~Begun(e, i, k)}
<1>1. i \notin bad
  <2>1. Begun(e, i, i) BY <1>0 DEF Begun
  <2> QED BY <2>1
<1>2. bad = {}
  <2> SUFFICES ASSUME bad # {} PROVE FALSE OBVIOUS
  <2>1. bad \in SUBSET Nat OBVIOUS
  <2>2. PICK m \in bad : \A k \in bad : m <= k
    <3> HIDE DEF bad
    <3> QED BY <2>1, Least
  <2>3. m \in i .. n /\ ~Begun(e, i, m) OBVIOUS
  <2>4. m # i BY <1>1
  <2>5. m - 1 \in i .. n /\ m \in 1 .. n BY <2>3, <2>4
  <2>6. m - 1 \notin bad BY <2>2, <2>5
  <2>7. Begun(e, i, m - 1) BY <2>5, <2>6
  <2>8. PICK a : a = e[m - 1] OBVIOUS
  <2>9. PICK b : b = EncodeByte(t[m]) OBVIOUS
  <2>10. e[m] = a \o b BY <2>5, <2>8, <2>9 DEF Encodes
  <2>11. a \in Seq(Chars) /\ Len(a) \in Nat BY <1>0, <2>5, <2>8
  <2>12. t[m] \in Chars BY <2>5
  <2>13. b \in Seq(Chars) /\ (Len(b) = 1 \/ Len(b) = 3) BY <2>9, <2>12, ByteIs
  <2>14. /\ Len(a \o b) = Len(a) + Len(b)
         /\ \A x \in 1 .. Len(a) : (a \o b)[x] = a[x]
    BY <2>11, <2>13, ConcatProperties
  <2>15. Len(e[i]) \in Nat BY <1>0
  <2>16. Len(e[i]) + (m - 1 - i) <= Len(a) /\ \A x \in 1 .. Len(e[i]) : a[x] = e[i][x]
    BY <2>7, <2>8 DEF Begun
  <2>17. Len(e[i]) + (m - i) <= Len(a \o b)
    <3>1. PICK la \in Nat : la = Len(a) BY <2>11
    <3>2. PICK lb \in {1, 3} : lb = Len(b) BY <2>13
    <3>3. PICK li \in Nat : li = Len(e[i]) BY <2>15
    <3>4. li + (m - 1 - i) <= la BY <2>16, <3>1, <3>3
    <3>5. li + (m - i) <= la + lb BY <2>3, <3>4
    <3> QED BY <2>14, <3>1, <3>2, <3>3, <3>5
  <2>18. \A x \in 1 .. Len(e[i]) : x \in 1 .. Len(a) BY <2>3, <2>4, <2>11, <2>15, <2>16
  <2>19. \A x \in 1 .. Len(e[i]) : (a \o b)[x] = e[i][x] BY <2>14, <2>16, <2>18
  <2>20. Begun(e, i, m) BY <2>10, <2>17, <2>19 DEF Begun
  <2> QED BY <2>3, <2>20
<1> QED BY <1>2

\* Where the characters of the encoding come from
Placed(e, n, k, b) ==
    /\ e[k - 1] \in Seq(Chars) /\ b \in Seq(Chars) /\ e[n] \in Seq(Chars)
    /\ Len(e[k]) = Len(e[k - 1]) + Len(b)
    /\ Len(e[k]) <= Len(e[n])
    /\ \A x \in 1 .. Len(b) : e[n][Len(e[k - 1]) + x] = b[x]

\* A character's encoding stands in the text's behind that of what precedes it
LEMMA EncodePlaces ==
    ASSUME NEW t \in Seq(Chars), NEW n \in Nat, n = Len(t), NEW e, Encodes(e, t, n),
           NEW k \in 1 .. n, NEW b, b = EncodeByte(t[k])
    PROVE  Placed(e, n, k, b)
<1>1. /\ k - 1 \in 0 .. n /\ k \in 0 .. n /\ n \in 0 .. n /\ n \in k .. n /\ k - 1 \in Nat
  OBVIOUS
<1>2. e[k - 1] \in Seq(Chars) /\ e[k] \in Seq(Chars) /\ e[n] \in Seq(Chars) BY <1>1 DEF Encodes
<1>3. t[k] \in Chars OBVIOUS
<1>4. b \in Seq(Chars) BY <1>3, ByteIs
<1>5. PICK a : a = e[k - 1] OBVIOUS
<1>6. e[k] = a \o b BY <1>5 DEF Encodes
<1>7. /\ Len(a \o b) = Len(a) + Len(b)
      /\ \A x \in 1 .. Len(b) : (a \o b)[Len(a) + x] = b[x]
  <2>1. IsSeq(a) /\ IsSeq(b) BY <1>2, <1>4, <1>5 DEF IsSeq
  <2> QED BY <2>1, Joined
<1>8. Begun(e, k, n) BY <1>1, EncodesGrow
<1>9. Len(a) \in Nat /\ Len(b) \in Nat /\ Len(e[k]) \in Nat /\ Len(e[n]) \in Nat BY <1>2, <1>4, <1>5
<1>10. Len(e[k]) = Len(a) + Len(b) BY <1>6, <1>7
<1>11. Len(e[k]) <= Len(e[n]) BY <1>8, <1>9 DEF Begun
<1>12. ASSUME NEW x \in 1 .. Len(b) PROVE e[n][Len(a) + x] = b[x]
  <2>1. Len(a) + x \in 1 .. Len(e[k]) BY <1>9, <1>10
  <2>2. e[n][Len(a) + x] = e[k][Len(a) + x] BY <1>8, <2>1 DEF Begun
  <2> QED BY <1>6, <1>7, <2>2
<1> QED BY <1>2, <1>4, <1>5, <1>10, <1>11, <1>12 DEF Placed

\* A text can be read back from its encoding
LEMMA EncodeInjective ==
    ASSUME NEW t \in Seq(Chars), NEW u \in Seq(Chars), EncodeEntry(t) = EncodeEntry(u)
    PROVE  t = u
<1>1. PICK n \in Nat : n = Len(t) OBVIOUS
<1>2. PICK m \in Nat : m = Len(u) OBVIOUS
<1>3. PICK e : Encodes(e, t, n) BY <1>1, EncodesExists
<1>4. PICK g : Encodes(g, u, m) BY <1>2, EncodesExists
<1>5. PICK w : w = e[n] OBVIOUS
<1>6. w = g[m] BY <1>1, <1>2, <1>3, <1>4, <1>5, EncodeIs
<1> DEFINE bad == {k \in 1 .. n : k <= m /\ (e[k] # g[k] \/ t[k] # u[k])}
<1>7. bad = {}
  <2> SUFFICES ASSUME bad # {} PROVE FALSE OBVIOUS
  <2>1. bad \in SUBSET Nat OBVIOUS
  <2>2. PICK k \in bad : \A l \in bad : k <= l
    <3> HIDE DEF bad
    <3> QED BY <2>1, Least
  <2>3. k \in 1 .. n /\ k \in 1 .. m /\ (e[k] # g[k] \/ t[k] # u[k]) OBVIOUS
  <2>4. e[k - 1] = g[k - 1]
    <3>1. CASE k = 1
      <4>1. k - 1 = 0 BY <3>1
      <4> QED BY <1>3, <1>4, <4>1 DEF Encodes
    <3>2. CASE k # 1
      <4>1. k - 1 \in 1 .. n /\ k - 1 <= m /\ k - 1 \notin bad BY <2>2, <2>3, <3>2
      <4> QED BY <4>1
    <3> QED BY <3>1, <3>2
  <2> HIDE DEF bad
  <2>5. PICK a : a = EncodeByte(t[k]) OBVIOUS
  <2>6. PICK b : b = EncodeByte(u[k]) OBVIOUS
  <2>7. PICK p : p = Len(e[k - 1]) OBVIOUS
  <2>8. \A x \in 1 .. Len(a) : w[p + x] = a[x]
    <3>1. Placed(e, n, k, a) BY <1>1, <1>3, <2>3, <2>5, EncodePlaces
    <3> QED BY <1>5, <2>7, <3>1 DEF Placed
  <2>9. \A x \in 1 .. Len(b) : w[p + x] = b[x]
    <3>1. Placed(g, m, k, b) BY <1>2, <1>4, <2>3, <2>6, EncodePlaces
    <3> QED BY <1>6, <2>4, <2>7, <3>1 DEF Placed
  <2>10. t[k] \in Chars /\ u[k] \in Chars BY <1>1, <1>2, <2>3
  <2>11. (Len(a) = 1 \/ Len(a) = 3) /\ (Len(b) = 1 \/ Len(b) = 3) BY <2>5, <2>6, <2>10, ByteIs
  <2>12. 1 \in 1 .. Len(a) /\ 1 \in 1 .. Len(b)
    <3>1. \A l \in {1, 3} : 1 \in 1 .. l OBVIOUS
    <3> QED BY <2>11, <3>1
  <2>13. a[1] = b[1] BY <2>8, <2>9, <2>12
  <2>14. ASSUME Len(a) >= 2, Len(b) >= 2 PROVE a[2] = b[2]
    <3>1. 2 \in 1 .. Len(a) /\ 2 \in 1 .. Len(b) BY <2>11, <2>14
    <3> QED BY <2>8, <2>9, <3>1
  <2>15. t[k] = u[k] BY <2>5, <2>6, <2>10, <2>13, <2>14, ByteReadsBack
  <2>16. e[k] = g[k] BY <1>3, <1>4, <2>3, <2>4, <2>15 DEF Encodes
  <2> QED BY <2>3, <2>15, <2>16
<1>8. \A k \in 1 .. n : k <= m => e[k] = g[k] /\ t[k] = u[k] BY <1>7
<1>9. e[0] = g[0] BY <1>3, <1>4 DEF Encodes
<1> HIDE DEF bad
<1>10. ~(n < m)
  <2> SUFFICES ASSUME n < m PROVE FALSE OBVIOUS
  <2>1. n \in 0 .. m /\ m \in n .. m OBVIOUS
  <2>2. Begun(g, n, m) BY <1>2, <1>4, <2>1, EncodesGrow
  <2>3. e[n] = g[n] BY <1>8, <1>9
  <2>4. Len(w) \in Nat BY <1>3, <1>5 DEF Encodes
  <2>5. Len(w) + (m - n) <= Len(w) BY <1>5, <1>6, <2>2, <2>3 DEF Begun
  <2> QED BY <2>4, <2>5
<1>11. ~(m < n)
  <2> SUFFICES ASSUME m < n PROVE FALSE OBVIOUS
  <2>1. m \in 0 .. n /\ n \in m .. n OBVIOUS
  <2>2. Begun(e, m, n) BY <1>1, <1>3, <2>1, EncodesGrow
  <2>3. e[m] = g[m] BY <1>8, <1>9
  <2>4. Len(w) \in Nat BY <1>3, <1>5 DEF Encodes
  <2>5. Len(w) + (n - m) <= Len(w) BY <1>5, <1>6, <2>2, <2>3 DEF Begun
  <2> QED BY <2>4, <2>5
<1>12. n = m BY <1>10, <1>11
<1>13. \A k \in 1 .. n : t[k] = u[k] BY <1>8, <1>12
<1> QED BY <1>1, <1>2, <1>12, <1>13, SeqEqual

----------------------------------------------------------------------------
(***************************************************************************)
(* Confinement: is_encoded_entry                                           *)
(***************************************************************************)
\* One call of the reader, the rest of it given as f
EntryStep(f, t) ==
    IF t = <<>> THEN TRUE
    ELSE IF t[1] = "%" THEN /\ Len(t) >= 3 /\ t[2] \in Hex /\ t[3] \in Hex
                            /\ f[SubSeq(t, 4, Len(t))]
    ELSE t[1] \in Safe /\ f[Tail(t)]

\* P holds the places at which a call finds its text, one past the end included
Cuts(t, P) ==
    /\ P \subseteq 1 .. Len(t) + 1 /\ 1 \in P
    /\ \A p \in P : p <= Len(t) =>
         \/ t[p] = "%" /\ p + 3 \in P /\ t[p + 1] \in Hex /\ t[p + 2] \in Hex
         \/ t[p] # "%" /\ p + 1 \in P /\ t[p] \in Safe

Accept(t) == \E P : Cuts(t, P)

\* The reader is the fixed point of its step
LEMMA EntryScan == EntryFrom = CHOOSE f : f = [t \in Seq(Chars) |-> EntryStep(f, t)]
  BY Zenon DEF EntryFrom, EntryStep

\* u is t without its first d characters
Rest(t, u, d) ==
    /\ u \in Seq(Chars) /\ Len(u) = Len(t) - d
    /\ \A i \in 1 .. Len(u) : u[i] = t[i + d]

\* What can be cut can be cut behind its first cut
LEMMA RestAccepted ==
    ASSUME NEW t \in Seq(Chars), NEW u, NEW d \in Nat, Rest(t, u, d), NEW P, Cuts(t, P), d + 1 \in P
    PROVE  Accept(u)
<1>1. PICK n \in Nat : n = Len(t) OBVIOUS
<1>2. PICK m \in Nat : m = Len(u) /\ m = n - d
  <2>1. u \in Seq(Chars) /\ Len(u) = Len(t) - d BY DEF Rest
  <2>2. Len(u) \in Nat BY <2>1
  <2> QED BY <1>1, <2>1, <2>2
<1>3. PICK Q : Q = {q \in 1 .. m + 1 : q + d \in P} OBVIOUS
<1>4. 1 \in Q BY <1>2, <1>3
<1>5. ASSUME NEW q \in Q, q <= m
      PROVE  \/ u[q] = "%" /\ q + 3 \in Q /\ u[q + 1] \in Hex /\ u[q + 2] \in Hex
             \/ u[q] # "%" /\ q + 1 \in Q /\ u[q] \in Safe
  <2>1. q \in 1 .. m /\ q + d \in P BY <1>2, <1>3, <1>5
  <2>2. PICK p \in Nat : p = q + d BY <2>1
  <2>3. p \in P /\ p <= n BY <1>2, <2>1, <2>2
  <2>4. P \subseteq 1 .. n + 1 BY <1>1 DEF Cuts
  <2>5. \/ t[p] = "%" /\ p + 3 \in P /\ t[p + 1] \in Hex /\ t[p + 2] \in Hex
        \/ t[p] # "%" /\ p + 1 \in P /\ t[p] \in Safe
    BY <1>1, <2>3 DEF Cuts
  <2>6. \A i \in 1 .. m : u[i] = t[i + d] BY <1>2 DEF Rest
  <2>7. u[q] = t[p] BY <2>1, <2>2, <2>6
  <2>8. CASE t[p] = "%" /\ p + 3 \in P /\ t[p + 1] \in Hex /\ t[p + 2] \in Hex
    <3>1. p + 3 \in 1 .. n + 1 BY <2>4, <2>8
    <3>2. q + 1 \in 1 .. m /\ q + 2 \in 1 .. m /\ q + 3 \in 1 .. m + 1 /\ (q + 3) + d = p + 3
          /\ (q + 1) + d = p + 1 /\ (q + 2) + d = p + 2
      BY <1>2, <2>1, <2>2, <3>1
    <3>3. u[q + 1] = t[(q + 1) + d] /\ u[q + 2] = t[(q + 2) + d] BY <2>6, <3>2
    <3>4. u[q + 1] = t[p + 1] /\ u[q + 2] = t[p + 2] BY <3>2, <3>3
    <3>5. q + 3 \in Q BY <1>3, <2>8, <3>2
    <3> QED BY <2>7, <2>8, <3>4, <3>5
  <2>9. CASE t[p] # "%" /\ p + 1 \in P /\ t[p] \in Safe
    <3>1. q + 1 \in 1 .. m + 1 /\ (q + 1) + d = p + 1 BY <1>2, <2>1, <2>2
    <3>2. q + 1 \in Q BY <1>3, <2>9, <3>1
    <3> QED BY <2>7, <2>9, <3>2
  <2> QED BY <2>5, <2>8, <2>9
<1>6. Q \subseteq 1 .. m + 1 BY <1>3
<1>7. Cuts(u, Q) BY <1>2, <1>4, <1>5, <1>6 DEF Cuts
<1> QED BY <1>7 DEF Accept

\* What can be cut behind its first character, plain or escaped, can be cut
LEMMA WholeAccepted ==
    ASSUME NEW t \in Seq(Chars), NEW u, NEW d \in {1, 3}, Rest(t, u, d), Len(t) >= d, Accept(u),
           \/ t[1] = "%" /\ d = 3 /\ t[2] \in Hex /\ t[3] \in Hex
           \/ t[1] # "%" /\ d = 1 /\ t[1] \in Safe
    PROVE  Accept(t)
<1>1. PICK n \in Nat : n = Len(t) OBVIOUS
<1>2. PICK m \in Nat : m = Len(u) /\ m = n - d
  <2>1. u \in Seq(Chars) /\ Len(u) = Len(t) - d BY DEF Rest
  <2>2. Len(u) \in Nat BY <2>1
  <2> QED BY <1>1, <2>1, <2>2
<1>3. PICK Q : Cuts(u, Q) BY DEF Accept
<1>4. Q \subseteq 1 .. m + 1 /\ 1 \in Q BY <1>2, <1>3 DEF Cuts
<1>5. PICK P : P = {p \in 1 .. n + 1 : p = 1 \/ (p > d /\ p - d \in Q)} OBVIOUS
<1>6. 1 \in P /\ P \subseteq 1 .. n + 1 BY <1>5
<1>7. d + 1 \in P
  <2>1. d + 1 \in 1 .. n + 1 /\ d + 1 > d /\ (d + 1) - d = 1 BY <1>1, <1>2
  <2> QED BY <1>4, <1>5, <2>1
<1>8. \A i \in 1 .. m : u[i] = t[i + d] BY <1>2 DEF Rest
<1>9. ASSUME NEW p \in P, p <= n
      PROVE  \/ t[p] = "%" /\ p + 3 \in P /\ t[p + 1] \in Hex /\ t[p + 2] \in Hex
             \/ t[p] # "%" /\ p + 1 \in P /\ t[p] \in Safe
  <2>1. CASE p = 1
    BY <1>7, <2>1
  <2>2. CASE p # 1
    <3>1. p \in 1 .. n + 1 /\ p > d /\ p - d \in Q BY <1>5, <2>2
    <3>2. PICK q \in Nat : q = p - d BY <3>1
    <3>3. q \in Q /\ q \in 1 .. m /\ q <= m BY <1>2, <1>4, <1>9, <3>1, <3>2
    <3>4. \/ u[q] = "%" /\ q + 3 \in Q /\ u[q + 1] \in Hex /\ u[q + 2] \in Hex
          \/ u[q] # "%" /\ q + 1 \in Q /\ u[q] \in Safe
      BY <1>2, <1>3, <3>3 DEF Cuts
    <3>5. u[q] = t[p]
      <4>1. q + d = p BY <3>1, <3>2
      <4> QED BY <1>8, <3>3, <4>1
    <3>6. CASE u[q] = "%" /\ q + 3 \in Q /\ u[q + 1] \in Hex /\ u[q + 2] \in Hex
      <4>1. q + 3 \in 1 .. m + 1 BY <1>4, <3>6
      <4>2. /\ q + 1 \in 1 .. m /\ q + 2 \in 1 .. m /\ (q + 1) + d = p + 1 /\ (q + 2) + d = p + 2
            /\ p + 3 \in 1 .. n + 1 /\ p + 3 > d /\ (p + 3) - d = q + 3
        BY <1>2, <3>1, <3>2, <3>3, <4>1
      <4>3. u[q + 1] = t[(q + 1) + d] /\ u[q + 2] = t[(q + 2) + d] BY <1>8, <4>2
      <4>4. p + 3 \in P BY <1>5, <3>6, <4>2
      <4> QED BY <3>5, <3>6, <4>2, <4>3, <4>4
    <3>7. CASE u[q] # "%" /\ q + 1 \in Q /\ u[q] \in Safe
      <4>1. p + 1 \in 1 .. n + 1 /\ p + 1 > d /\ (p + 1) - d = q + 1 BY <1>2, <3>1, <3>2, <3>3
      <4>2. p + 1 \in P BY <1>5, <3>7, <4>1
      <4> QED BY <3>5, <3>7, <4>2
    <3> QED BY <3>4, <3>6, <3>7
  <2> QED BY <2>1, <2>2
<1>10. Cuts(t, P) BY <1>1, <1>6, <1>9 DEF Cuts
<1> QED BY <1>10 DEF Accept

\* The reader accepts what can be cut, when the rest of it does
LEMMA EntryStepMeans ==
    ASSUME NEW t \in Seq(Chars), NEW f,
           \A u \in Seq(Chars) : Len(u) < Len(t) => f[u] = Accept(u)
    PROVE  EntryStep(f, t) = Accept(t)
<1>0. PICK n \in Nat : n = Len(t) OBVIOUS
<1>1. CASE t = <<>>
  <2>1. Cuts(t, {1})
    <3>1. Len(t) = 0 BY <1>1
    <3> QED BY <3>1 DEF Cuts
  <2>2. Accept(t) BY <2>1 DEF Accept
  <2>3. EntryStep(f, t) = TRUE BY <1>1, Zenon DEF EntryStep
  <2> QED BY <2>2, <2>3 DEF Accept
<1>2. CASE t # <<>> /\ t[1] = "%"
  <2>0. n >= 1 BY <1>0, <1>2, EmptySeq
  <2>1. PICK u : u = SubSeq(t, 4, n) OBVIOUS
  <2>2. EntryStep(f, t) = (n >= 3 /\ t[2] \in Hex /\ t[3] \in Hex /\ f[u])
    BY <1>0, <1>2, <2>1 DEF EntryStep
  <2>3. ASSUME n >= 3 PROVE Rest(t, u, 3) /\ Len(u) < Len(t) /\ u \in Seq(Chars)
    <3>1. \A i \in 4 .. n : t[i] \in Chars BY <1>0
    <3>2. /\ u \in Seq(Chars) /\ Len(u) = (IF 4 <= n THEN n - 4 + 1 ELSE 0)
          /\ \A i \in 1 .. n - 4 + 1 : u[i] = t[4 + i - 1]
      BY <2>1, <3>1, SubSeqProperties
    <3>3. Len(u) = n - 3 BY <2>3, <3>2
    <3>4. ASSUME NEW i \in 1 .. Len(u) PROVE u[i] = t[i + 3]
      <4>1. i \in 1 .. n - 4 + 1 /\ 4 + i - 1 = i + 3 BY <3>3
      <4>2. u[i] = t[4 + i - 1] BY <3>2, <4>1
      <4> QED BY <4>1, <4>2
    <3> QED BY <1>0, <3>2, <3>3, <3>4 DEF Rest
  <2>4. ASSUME Accept(t) PROVE n >= 3 /\ t[2] \in Hex /\ t[3] \in Hex /\ Accept(u)
    <3>1. PICK P : Cuts(t, P) BY <2>4 DEF Accept
    <3>2. P \subseteq 1 .. n + 1 /\ 1 \in P BY <1>0, <3>1 DEF Cuts
    <3>3. 1 + 3 \in P /\ t[1 + 1] \in Hex /\ t[1 + 2] \in Hex BY <1>0, <1>2, <2>0, <3>1, <3>2 DEF Cuts
    <3>4. 3 + 1 \in P /\ n >= 3 BY <1>0, <3>2, <3>3
    <3>5. Accept(u) BY <2>3, <3>1, <3>4, RestAccepted
    <3> QED BY <3>3, <3>4, <3>5
  <2>5. ASSUME n >= 3, t[2] \in Hex, t[3] \in Hex, Accept(u) PROVE Accept(t)
    BY <1>0, <1>2, <2>3, <2>5, WholeAccepted
  <2>6. n >= 3 => f[u] = Accept(u) BY <2>3
  <2> QED BY <2>2, <2>4, <2>5, <2>6 DEF Accept
<1>3. CASE t # <<>> /\ t[1] # "%"
  <2>0. n >= 1 BY <1>0, <1>3, EmptySeq
  <2>1. PICK u : u = Tail(t) OBVIOUS
  <2>2. EntryStep(f, t) = (t[1] \in Safe /\ f[u])
    BY <1>3, <2>1 DEF EntryStep
  <2>3. Rest(t, u, 1) /\ Len(u) < Len(t) /\ u \in Seq(Chars)
    <3>1. /\ u \in Seq(Chars) /\ Len(u) = n - 1
          /\ \A i \in 1 .. Len(u) : u[i] = t[i + 1]
      BY <1>0, <1>3, <2>1, HeadTailProperties
    <3> QED BY <1>0, <3>1 DEF Rest
  <2>4. ASSUME Accept(t) PROVE t[1] \in Safe /\ Accept(u)
    <3>1. PICK P : Cuts(t, P) BY <2>4 DEF Accept
    <3>2. P \subseteq 1 .. n + 1 /\ 1 \in P BY <1>0, <3>1 DEF Cuts
    <3>3. 1 + 1 \in P /\ t[1] \in Safe BY <1>0, <1>3, <2>0, <3>1, <3>2 DEF Cuts
    <3>4. Accept(u) BY <2>3, <3>1, <3>3, RestAccepted
    <3> QED BY <3>3, <3>4
  <2>5. ASSUME t[1] \in Safe, Accept(u) PROVE Accept(t)
    BY <1>0, <1>3, <2>0, <2>3, <2>5, WholeAccepted
  <2>6. f[u] = Accept(u) BY <2>3
  <2> QED BY <2>2, <2>4, <2>5, <2>6 DEF Accept
<1> QED BY <1>1, <1>2, <1>3

\* The reader accepts what can be cut, and only that
LEMMA ReaderAccepts == ASSUME NEW t \in Seq(Chars) PROVE EntryFrom[t] = Accept(t)
<1> DEFINE F == [u \in Seq(Chars) |-> Accept(u)]
<1>1. F = [u \in Seq(Chars) |-> EntryStep(F, u)]
  <2>1. \A u \in Seq(Chars) : F[u] = Accept(u) OBVIOUS
  <2> HIDE DEF F
  <2>2. \A u \in Seq(Chars) : EntryStep(F, u) = Accept(u) BY <2>1, EntryStepMeans
  <2>3. [u \in Seq(Chars) |-> EntryStep(F, u)] = [u \in Seq(Chars) |-> Accept(u)] BY <2>2
  <2> QED BY <2>3 DEF F
<1>2. PICK f : f = EntryFrom OBVIOUS
<1>3. f = [u \in Seq(Chars) |-> EntryStep(f, u)]
  <2> HIDE DEF F
  <2> QED BY <1>1, <1>2, EntryScan, Zenon
<1>4. \A u \in Seq(Chars) : f[u] = EntryStep(f, u) BY <1>3
<1> DEFINE bad == {n \in Nat : \E u \in Seq(Chars) : Len(u) = n /\ f[u] # Accept(u)}
<1>5. bad = {}
  <2> SUFFICES ASSUME bad # {} PROVE FALSE OBVIOUS
  <2>1. \E m \in bad : \A n \in bad : m <= n
    <3>1. bad \in SUBSET Nat OBVIOUS
    <3> HIDE DEF bad
    <3> QED BY <3>1, Least
  <2>2. PICK m \in bad : \A n \in bad : m <= n BY <2>1
  <2>3. PICK u \in Seq(Chars) : Len(u) = m /\ f[u] # Accept(u) OBVIOUS
  <2>4. ASSUME NEW v \in Seq(Chars), Len(v) < Len(u) PROVE f[v] = Accept(v)
    <3>1. Len(v) \in Nat /\ Len(u) \in Nat OBVIOUS
    <3>2. Len(v) \notin bad BY <2>2, <2>3, <2>4, <3>1
    <3> QED BY <3>1, <3>2
  <2>5. EntryStep(f, u) = Accept(u) BY <2>4, EntryStepMeans
  <2> QED BY <1>4, <2>3, <2>5
<1>6. Len(t) \in Nat OBVIOUS
<1>7. f[t] = Accept(t) BY <1>5, <1>6
<1> QED BY <1>2, <1>7

\* An encoding can be cut where its characters' encodings begin
LEMMA EncodeAccepted ==
    ASSUME NEW t \in Seq(Chars)
    PROVE  Accept(EncodeEntry(t))
<1>1. PICK n \in Nat : n = Len(t) OBVIOUS
<1>2. PICK e : Encodes(e, t, n) BY <1>1, EncodesExists
<1>3. PICK w : w = EncodeEntry(t) OBVIOUS
<1>4. w = e[n] BY <1>1, <1>2, <1>3, EncodeIs
<1>5. \A k \in 0 .. n : e[k] \in Seq(Chars) /\ Len(e[k]) \in Nat BY <1>2 DEF Encodes
<1>6. \A k \in 0 .. n : Len(e[k]) <= Len(w) /\ (k # n => Len(e[k]) < Len(w))
  <2>1. ASSUME NEW k \in 0 .. n PROVE Len(e[k]) + (n - k) <= Len(w)
    <3>1. n \in k .. n OBVIOUS
    <3>2. Begun(e, k, n) BY <1>1, <1>2, <3>1, EncodesGrow
    <3> QED BY <1>4, <3>2 DEF Begun
  <2>2. Len(w) \in Nat BY <1>4, <1>5
  <2> QED BY <1>5, <2>1, <2>2
<1>7. PICK P : P = {p \in 1 .. Len(w) + 1 : \E k \in 0 .. n : p = Len(e[k]) + 1} OBVIOUS
<1>8. \A k \in 0 .. n : Len(e[k]) + 1 \in P
  <2>1. Len(w) \in Nat BY <1>4, <1>5
  <2>2. \A k \in 0 .. n : Len(e[k]) + 1 \in 1 .. Len(w) + 1 BY <1>5, <1>6, <2>1
  <2> QED BY <1>7, <2>2
<1>9. 1 \in P
  <2>1. e[0] = <<>> BY <1>2 DEF Encodes
  <2>2. Len(e[0]) + 1 = 1 BY <2>1
  <2> QED BY <1>8, <2>2
<1>10. ASSUME NEW p \in P, p <= Len(w)
       PROVE  \/ w[p] = "%" /\ p + 3 \in P /\ w[p + 1] \in Hex /\ w[p + 2] \in Hex
              \/ w[p] # "%" /\ p + 1 \in P /\ w[p] \in Safe
  <2>1. PICK k \in 0 .. n : p = Len(e[k]) + 1 BY <1>7
  <2>2. k # n
    <3>1. Len(w) \in Nat BY <1>4, <1>5
    <3> QED BY <1>4, <1>10, <2>1, <3>1
  <2>3. PICK l \in 1 .. n : l = k + 1 BY <2>2
  <2>4. PICK b : b = EncodeByte(t[l]) OBVIOUS
  <2>5. Placed(e, n, l, b) BY <1>1, <1>2, <2>4, EncodePlaces
  <2>6. l - 1 = k /\ l \in 0 .. n BY <2>3
  <2>7. PICK q \in Nat : q = Len(e[k]) BY <1>5
  <2>8. Len(e[l]) = q + Len(b) /\ \A x \in 1 .. Len(b) : w[q + x] = b[x]
    BY <1>4, <2>5, <2>6, <2>7 DEF Placed
  <2>9. t[l] \in Chars BY <1>1
  <2>10. \/ t[l] \in Safe /\ t[l] # "%" /\ Len(b) = 1 /\ b[1] = t[l]
         \/ Len(b) = 3 /\ b[1] = "%" /\ b[2] = "2" /\ b[3] = "5"
         \/ Len(b) = 3 /\ b[1] = "%" /\ b[2] = "4" /\ b[3] = "0"
    BY <2>4, <2>9, ByteIs
  <2>11. p = q + 1 BY <2>1, <2>7
  <2>12. CASE t[l] \in Safe /\ t[l] # "%" /\ Len(b) = 1 /\ b[1] = t[l]
    <3>1. w[q + 1] = b[1] BY <2>8, <2>12
    <3>2. Len(e[l]) + 1 = p + 1 BY <2>8, <2>11, <2>12
    <3>3. p + 1 \in P BY <1>8, <2>6, <3>2
    <3> QED BY <2>11, <2>12, <3>1, <3>3
  <2>13. CASE Len(b) = 3 /\ b[1] = "%" /\ b[2] \in Hex /\ b[3] \in Hex
    <3>1. w[q + 1] = b[1] /\ w[q + 2] = b[2] /\ w[q + 3] = b[3] BY <2>8, <2>13
    <3>2. Len(e[l]) + 1 = p + 3 BY <2>8, <2>11, <2>13
    <3>3. p + 3 \in P BY <1>8, <2>6, <3>2
    <3>4. p + 1 = q + 2 /\ p + 2 = q + 3 BY <2>11
    <3> QED BY <2>11, <2>13, <3>1, <3>3, <3>4
  <2>14. "2" \in Hex /\ "5" \in Hex /\ "4" \in Hex /\ "0" \in Hex BY DEF Hex
  <2> QED BY <2>10, <2>12, <2>13, <2>14
<1>11. P \subseteq 1 .. Len(w) + 1 BY <1>7
<1>12. Cuts(w, P) BY <1>9, <1>10, <1>11 DEF Cuts
<1> QED BY <1>3, <1>12 DEF Accept

\* No other text is written as nothing, as one dot or as two
LEMMA EncodeOrdinary ==
    ASSUME NEW t \in Seq(Chars), t # <<>>, t # <<".">>, t # <<".", ".">>, NEW w, w = EncodeEntry(t)
    PROVE  w # <<>> /\ w # <<".">> /\ w # <<".", ".">>
<1>1. PICK n \in Nat : n = Len(t) OBVIOUS
<1>2. PICK e : Encodes(e, t, n) BY <1>1, EncodesExists
<1>3. w = e[n] BY <1>1, <1>2, EncodeIs
<1>4. n >= 1 BY <1>1, EmptySeq
<1>5. e[0] = <<>> /\ \A k \in 0 .. n : e[k] \in Seq(Chars) /\ Len(e[k]) \in Nat BY <1>2 DEF Encodes
<1>6. Len(w) >= n
  <2>1. 0 \in 0 .. n /\ n \in 0 .. n BY <1>4
  <2>2. Begun(e, 0, n) BY <1>1, <1>2, <2>1, EncodesGrow
  <2>3. Len(e[0]) = 0 BY <1>5
  <2> QED BY <1>3, <2>2, <2>3 DEF Begun
<1>7. w # <<>> BY <1>4, <1>6
\* A character found as itself at the place where its encoding begins
<1>8. ASSUME NEW k \in 1 .. n, w[Len(e[k - 1]) + 1] = "."
      PROVE  t[k] = "." /\ Len(e[k]) = Len(e[k - 1]) + 1
  <2>1. PICK b : b = EncodeByte(t[k]) OBVIOUS
  <2>2. Placed(e, n, k, b) BY <1>1, <1>2, <2>1, EncodePlaces
  <2>3. t[k] \in Chars BY <1>1
  <2>4. \/ t[k] \in Safe /\ t[k] # "%" /\ Len(b) = 1 /\ b[1] = t[k]
        \/ Len(b) = 3 /\ b[1] = "%" /\ b[2] = "2" /\ b[3] = "5"
        \/ Len(b) = 3 /\ b[1] = "%" /\ b[2] = "4" /\ b[3] = "0"
    BY <2>1, <2>3, ByteIs
  <2>5. \A l \in {1, 3} : 1 \in 1 .. l OBVIOUS
  <2>6. 1 \in 1 .. Len(b) BY <2>4, <2>5
  <2>7. w[Len(e[k - 1]) + 1] = b[1] BY <1>3, <2>2, <2>6 DEF Placed
  <2>8. b[1] = "." BY <1>8, <2>7
  <2>9. "." # "%" OBVIOUS
  <2>10. Len(b) = 1 /\ t[k] = "." BY <2>4, <2>8, <2>9
  <2> QED BY <2>2, <2>10 DEF Placed
<1>9. 1 \in 1 .. n /\ 1 - 1 = 0 /\ Len(e[0]) + 1 = 1
  <2>1. Len(e[0]) = 0 BY <1>5
  <2> QED BY <1>4, <2>1
<1>10. w # <<".">>
  <2> SUFFICES ASSUME w = <<".">> PROVE FALSE OBVIOUS
  <2>1. Len(w) = 1 /\ w[1] = "." OBVIOUS
  <2>2. n = 1 BY <1>4, <1>6, <2>1
  <2>3. w[Len(e[1 - 1]) + 1] = "." BY <1>9, <2>1
  <2>4. t[1] = "." BY <1>8, <1>9, <2>3
  <2>5. t = <<".">>
    <3>1. "." \in Chars BY DEF Chars, Safe, Upper, Hex
    <3>2. <<".">> \in Seq(Chars) /\ Len(<<".">>) = 1 /\ <<".">>[1] = "." BY <3>1
    <3>3. \A i \in 1 .. 1 : i = 1 OBVIOUS
    <3> QED BY <1>1, <2>2, <2>4, <3>2, <3>3, SeqEqual
  <2> QED BY <2>5
<1>11. w # <<".", ".">>
  <2> SUFFICES ASSUME w = <<".", ".">> PROVE FALSE OBVIOUS
  <2>1. Len(w) = 2 /\ w[1] = "." /\ w[2] = "." OBVIOUS
  <2>2. w[Len(e[1 - 1]) + 1] = "." BY <1>9, <2>1
  <2>3. t[1] = "." /\ Len(e[1]) = Len(e[1 - 1]) + 1 BY <1>8, <1>9, <2>2
  <2>4. Len(e[1]) = 1 BY <1>9, <2>3
  <2>5. n # 1
    <3> SUFFICES ASSUME n = 1 PROVE FALSE OBVIOUS
    <3>1. w = e[1] BY <1>3
    <3>2. Len(w) = 1
      <4>1. \A x : x = e[1] => Len(x) = 1 BY <2>4
      <4> QED BY <3>1, <4>1, Zenon
    <3> QED BY <2>1, <3>2
  <2>6. n = 2 BY <1>4, <1>6, <2>1, <2>5
  <2>7. 2 \in 1 .. n /\ 2 - 1 = 1 /\ Len(e[1]) + 1 = 2 BY <2>4, <2>6
  <2>8. w[Len(e[2 - 1]) + 1] = "." BY <2>1, <2>7
  <2>9. t[2] = "." BY <1>8, <2>7, <2>8
  <2>10. t = <<".", ".">>
    <3>1. "." \in Chars BY DEF Chars, Safe, Upper, Hex
    <3>2. /\ <<".", ".">> \in Seq(Chars) /\ Len(<<".", ".">>) = 2
          /\ <<".", ".">>[1] = "." /\ <<".", ".">>[2] = "."
      BY <3>1
    <3>3. \A i \in 1 .. 2 : i = 1 \/ i = 2 OBVIOUS
    <3>4. \A i \in 1 .. 2 : t[i] = <<".", ".">>[i] BY <2>3, <2>9, <3>2, <3>3
    <3> QED BY <1>1, <2>6, <3>2, <3>4, SeqEqual
  <2> QED BY <2>10
<1> QED BY <1>7, <1>10, <1>11

\* The entries of the texts a share may be named by
LEMMA EntriesAreKept == ConfInv => EntriesAreDistinct
<1> SUFFICES ASSUME ConfInv, NEW t \in Texts
             PROVE  /\ t # share.name => EncodeEntry(t) # EncodeEntry(share.name)
                    /\ t \notin {<<>>, <<".">>, <<".", ".">>} => IsEncodedEntry(EncodeEntry(t))
                    /\ (phase = "spawned" /\ share.kind = "file" /\ EncodeEntry(t) \in share.entry)
                          => t = share.name
  BY DEF EntriesAreDistinct
<1>1. share.name \in Seq(Chars) /\ t \in Seq(Chars) BY ConfinementAssumption DEF ConfInv, ConfTypes
<1>2. t # share.name => EncodeEntry(t) # EncodeEntry(share.name) BY <1>1, EncodeInjective
<1>3. ASSUME t \notin {<<>>, <<".">>, <<".", ".">>} PROVE IsEncodedEntry(EncodeEntry(t))
  <2>1. t # <<>> /\ t # <<".">> /\ t # <<".", ".">> BY <1>3
  <2>2. PICK w : w = EncodeEntry(t) OBVIOUS
  <2>3. w # <<>> /\ w # <<".">> /\ w # <<".", ".">> BY <1>1, <2>1, <2>2, EncodeOrdinary
  <2>4. w \in Seq(Chars)
    <3>1. PICK e : Encodes(e, t, Len(t)) BY <1>1, EncodesExists
    <3>2. Len(t) \in Nat BY <1>1
    <3>3. e[Len(t)] \in Seq(Chars) BY <3>1, <3>2 DEF Encodes
    <3> QED BY <1>1, <2>2, <3>1, <3>3, EncodeIs
  <2>5. Accept(w) BY <1>1, <2>2, EncodeAccepted
  <2>6. EntryFrom[w] BY <2>4, <2>5, ReaderAccepts
  <2> QED BY <2>2, <2>3, <2>6 DEF IsEncodedEntry
<1>4. ASSUME phase = "spawned", share.kind = "file", EncodeEntry(t) \in share.entry
      PROVE  t = share.name
  <2>1. EncodeEntry(share.name) \in share.entry BY <1>4 DEF ConfInv, Admitted
  <2>2. share.entry \in Entries BY DEF ConfInv, ConfTypes
  <2>3. \A x, y \in share.entry : x = y BY <2>2, Zenon DEF Entries
  <2> QED BY <1>1, <1>4, <2>1, <2>3, EncodeInjective
<1> QED BY <1>2, <1>3, <1>4

----------------------------------------------------------------------------
\* Whatever a share carries and whatever its name: a spawned daemon's last
\* occurrence of every mandatory argument is the policy's own, the re-read refuses
\* only a foreign staging step, every id is decided once on the command itself unless
\* an extra argument repeats a translation, an allowance is left, and the two text
\* rules find and write what they mean to (ConfinementProfile, LaunchSpec::validate,
\* validate_shares).
THEOREM ConfinementIsSafe == ConfSpec => []ConfinementSafe
<1>1. ConfInit => ConfInv BY ConfStart
<1>2. ConfInv /\ [ConfNext]_confVars => ConfInv' BY ConfStep
<1>3. ConfInv => ConfinementSafe
  <2> SUFFICES ASSUME ConfInv PROVE ConfinementSafe OBVIOUS
  <2>1. phase \in {"given", "valid", "refused", "rendered", "spawned", "policy"}
    BY DEF ConfInv, ConfTypes, Phases
  <2>2. RefusedIsForeign BY DEF ConfInv
  <2> QED BY <2>1, <2>2, PolicyIsKept, IdsAreKept, AllowanceIsKept, TokensAreKept, EntriesAreKept
          DEF ConfinementSafe
<1> QED BY <1>1, <1>2, <1>3, PTL DEF ConfSpec
=============================================================================
