---------------------------- MODULE Confinement ----------------------------
(***************************************************************************)
(* The command a share's daemon is started with: LaunchSpec::validate's    *)
(* numeric and textual rules, the rendering (ConfinementProfile), the      *)
(* re-read of the rendered command, and the spawn.  A command is the       *)
(* sequence of its <<flag, value>> arguments, wrappers first; a program    *)
(* that is given a flag twice takes the last one, except a translation,    *)
(* whose value is a rule and which adds to the rules before it.            *)
(***************************************************************************)
EXTENDS Integers, Sequences, FiniteSets, SequencesExt

CONSTANTS
    IdMax,        \* the largest user id
    Limits,       \* descriptor limits to consider
    Pools,        \* worker pool sizes to consider
    FixedReserve, \* PINNED_FIXED_RESERVE
    Extras,       \* sequences of extra arguments a share may carry
    Modes,        \* cache modes a record may name
    Texts         \* file names and paths, as sequences of characters

\* The characters the text rules tell apart
Hex == {"0", "2", "4", "5", "A"}
Upper == Hex \cup {"_"}
Safe == Upper \cup {"a", ".", "-", "~"}
Chars == Safe \cup {"%", "@"}

ASSUME ConfinementAssumption ==
    /\ IdMax \in Nat /\ FixedReserve \in Nat
    /\ Limits \subseteq Nat /\ Pools \subseteq Nat
    /\ \A extra \in Extras : extra \in Seq(ToSet(extra))
    /\ Texts \subseteq Seq(Chars)

VARIABLES
    budget,    \* DescriptorBudget: [limit, pool]
    ids,       \* IdentityTranslation: the [guest, host] pair of each translation flag
    share,     \* [kind, readOnly, cache, extra, name, entry]; entry is {} or one text
    setpcap,   \* whether this process may drop the bounding set
    phase,     \* where the launch is
    command    \* the rendered command

confVars == <<budget, ids, share, setpcap, phase, command>>

(***************************************************************************)
(* Text rules                                                              *)
(***************************************************************************)
\* contains_unresolved_token: from each @, the text up to the next @; a token is
\* non-empty and all upper case. A closing @ that closes no token opens the next.
TokenFrom[t \in Seq(Chars)] ==
    LET opens == {i \in DOMAIN t : t[i] = "@"} IN
    IF opens = {} THEN FALSE ELSE
    LET open == CHOOSE i \in opens : \A j \in opens : i <= j
        closes == {i \in opens : i > open} IN
    IF closes = {} THEN FALSE ELSE
    LET close == CHOOSE i \in closes : \A j \in closes : i <= j IN
    \/ close > open + 1 /\ \A i \in (open + 1)..(close - 1) : t[i] \in Upper
    \/ TokenFrom[SubSeq(t, close, Len(t))]

Unresolved(t) == TokenFrom[t]

\* What it is meant to find.
HasToken(t) ==
    \E i, j \in DOMAIN t :
        /\ i + 1 < j /\ t[i] = "@" /\ t[j] = "@"
        /\ \A k \in (i + 1)..(j - 1) : t[k] \in Upper

\* encode_entry: a safe byte stands for itself, any other is written %XX.
EncodeByte(c) == IF c \in Safe THEN <<c>> ELSE IF c = "%" THEN <<"%", "2", "5">>
                 ELSE <<"%", "4", "0">>
EncodeEntry(t) == FlattenSeq([i \in DOMAIN t |-> EncodeByte(t[i])])

\* is_encoded_entry.
EntryFrom[t \in Seq(Chars)] ==
    IF t = <<>> THEN TRUE
    ELSE IF t[1] = "%" THEN /\ Len(t) >= 3 /\ t[2] \in Hex /\ t[3] \in Hex
                            /\ EntryFrom[SubSeq(t, 4, Len(t))]
    ELSE t[1] \in Safe /\ EntryFrom[Tail(t)]
IsEncodedEntry(t) == t # <<>> /\ t # <<".">> /\ t # <<".", ".">> /\ EntryFrom[t]

(***************************************************************************)
(* The descriptor budget and the identity translation                      *)
(***************************************************************************)
EffectiveWorkers(b) == IF b.pool = 0 THEN 1 ELSE b.pool
GuestAllowance(b) == b.limit - (FixedReserve + EffectiveWorkers(b))

TranslateFlags == {"--translate-uid", "--translate-gid"}
Covers(rule, id) == rule.from <= id /\ id < rule.from + rule.count

\* add_translation: the session user's id is mapped, every other guest id is
\* forbidden, every other host id is squashed.
AddTranslation(flag, guest, host) ==
    <<<<flag, [how |-> "map", from |-> guest, to |-> host, count |-> 1]>>>>
    \o (IF guest > 0 THEN <<<<flag, [how |-> "forbid", from |-> 0, count |-> guest]>>>> ELSE <<>>)
    \o (IF guest < IdMax
        THEN <<<<flag, [how |-> "forbid", from |-> guest + 1, count |-> IdMax - guest]>>>> ELSE <<>>)
    \o (IF host > 0 THEN <<<<flag, [how |-> "squash", from |-> 0, count |-> host]>>>> ELSE <<>>)
    \o (IF host < IdMax
        THEN <<<<flag, [how |-> "squash", from |-> host + 1, count |-> IdMax - host]>>>> ELSE <<>>)

(***************************************************************************)
(* Validation, rendering, re-reading, spawning                             *)
(***************************************************************************)
Flags == {"--socket-path", "--shared-dir", "--sandbox", "--seccomp", "--rlimit-nofile",
          "--thread-pool-size", "--inode-file-handles"}
Setpriv == <<<<"--no-new-privs", "">>, <<"--ambient-caps", "-all">>, <<"--inh-caps", "-all">>>>
Staging == <<<<"--user", "">>, <<"--map-current-user", "">>, <<"--keep-caps", "">>,
             <<"--mount", "">>, <<"--propagation", "private">>>>

\* Mutant: the sandbox flag is missing from the fixed arguments.
FixedArgumentButOne(arg) == arg[1] \in Flags \ {"--sandbox"}

\* LaunchSpec::validate: an allowance is left, the record holds no unresolved token,
\* a file's entry is well formed and names its source, nothing else has an entry,
\* the cache mode is known, and no extra argument is one of the fixed ones.
FixedArgument(arg) == arg[1] \in Flags
Validate ==
    /\ phase = "given"
    /\ phase' = IF /\ GuestAllowance(budget) > 0
                   /\ ~Unresolved(share.name)
                   /\ IF share.kind = "file"
                      THEN \E entry \in share.entry :
                               IsEncodedEntry(entry) /\ entry = EncodeEntry(share.name)
                      ELSE share.entry = {}
                   /\ share.cache \in {"auto", "always", "metadata", "never"}
                   /\ \A i \in DOMAIN share.extra : ~FixedArgument(share.extra[i])
                THEN "valid" ELSE "refused"
    /\ UNCHANGED <<budget, ids, share, setpcap, command>>

\* stage_dir: a file is exported from a directory of its own.
Root == IF share.kind = "file" THEN "stage" ELSE "source"

Daemon ==
    <<<<"--socket-path", "socket">>, <<"--shared-dir", Root>>, <<"--sandbox", "namespace">>,
      <<"--seccomp", "kill">>, <<"--inode-file-handles", "never">>,
      <<"--thread-pool-size", ToString(budget.pool)>>, <<"--cache", share.cache>>,
      <<"--rlimit-nofile", ToString(budget.limit)>>>>
    \o AddTranslation("--translate-uid", ids["--translate-uid"].guest, ids["--translate-uid"].host)
    \o AddTranslation("--translate-gid", ids["--translate-gid"].guest, ids["--translate-gid"].host)
    \o (IF share.readOnly THEN <<<<"--readonly", "">>>> ELSE <<>>)
    \o share.extra

Wrapped(child) ==
    Setpriv \o (IF setpcap THEN <<<<"--bounding-set", "-all">>>> ELSE <<>>) \o child

\* staged: unshare, then stage-share, then the daemon.
Staged(daemon) ==
    Staging \o <<<<"stage-share", "">>, <<"--source", "source">>, <<"--stage", "stage">>>>
    \o (IF share.readOnly THEN <<<<"--readonly", "">>>> ELSE <<>>)
    \o daemon

\* ConfinementProfile::virtiofsd.
Render ==
    /\ phase = "valid"
    /\ command' = IF Root = "stage" THEN Staged(Wrapped(Daemon)) ELSE Wrapped(Daemon)
    /\ phase' = "rendered"
    /\ UNCHANGED <<budget, ids, share, setpcap>>

HasArg(cmd, flag, value) == \E i \in DOMAIN cmd : cmd[i][1] = flag /\ (value = "" \/ cmd[i][2] = value)
ValueOf(cmd, flag) == LET at == {i \in DOMAIN cmd : cmd[i][1] = flag} IN
                      cmd[CHOOSE i \in at : \A j \in at : i <= j][2]

\* validate_shares: validate_wrapper, validate_staging, and the mandatory pairs.
Recheck ==
    /\ phase = "rendered"
    /\ phase' = IF /\ \A i \in DOMAIN Setpriv : HasArg(command, Setpriv[i][1], "")
                   /\ setpcap => HasArg(command, "--bounding-set", "-all")
                   /\ HasArg(command, "stage-share", "") =>
                        /\ \A i \in DOMAIN Staging : HasArg(command, Staging[i][1], "")
                        /\ HasArg(command, "--stage", "") /\ HasArg(command, "--source", "")
                        /\ ValueOf(command, "--stage") = ValueOf(command, "--shared-dir")
                        /\ ValueOf(command, "--stage") # ValueOf(command, "--source")
                   /\ HasArg(command, "--sandbox", "namespace")
                   /\ HasArg(command, "--seccomp", "kill")
                   /\ HasArg(command, "--shared-dir", "") /\ HasArg(command, "--socket-path", "")
                   /\ HasArg(command, "--inode-file-handles", "never")
                   /\ HasArg(command, "--rlimit-nofile", "")
                THEN "spawned" ELSE "policy"
    /\ UNCHANGED <<budget, ids, share, setpcap, command>>

\* What a record may say of its entry: nothing, an encoded name, or a plain one.
Entries == {{}} \cup {{EncodeEntry(t)} : t \in Texts} \cup {{t} : t \in Texts}

ConfInit ==
    /\ budget \in [limit : Limits, pool : Pools]
    /\ ids \in [TranslateFlags -> [guest : 0..IdMax, host : 0..IdMax]]
    /\ share \in [kind : {"dir", "file", "tree"}, readOnly : BOOLEAN, cache : Modes,
                  extra : Extras, name : Texts, entry : Entries]
    /\ setpcap \in BOOLEAN
    /\ phase = "given" /\ command = <<>>

ConfNext == Validate \/ Render \/ Recheck
ConfSpec == ConfInit /\ [][ConfNext]_confVars
----------------------------------------------------------------------------
\* The rendered command keeps the policy whatever the share carries: the last
\* occurrence of every mandatory argument is the policy's own, a read-only share is
\* read-only to the daemon and to the staging step before it, and the cache mode is
\* a known one that only an extra argument of the same name can change.
LastOf(cmd, flag) == LET at == {i \in DOMAIN cmd : cmd[i][1] = flag} IN
                     cmd[CHOOSE i \in at : \A j \in at : j <= i][2]
PolicyHolds ==
    phase = "spawned" =>
        /\ LastOf(command, "--sandbox") = "namespace"
        /\ LastOf(command, "--seccomp") = "kill"
        /\ LastOf(command, "--inode-file-handles") = "never"
        /\ LastOf(command, "--rlimit-nofile") = ToString(budget.limit)
        /\ LastOf(command, "--shared-dir") = IF share.kind = "file" THEN "stage" ELSE "source"
        /\ share.readOnly => HasArg(command, "--readonly", "")
        /\ LastOf(command, "--cache") \in {"auto", "always", "metadata", "never"}
           \/ HasArg(share.extra, "--cache", "")

\* The re-read of the rendering (validate_shares) is a backstop, not a filter: it
\* refuses nothing of what the rendering itself put there. What it can refuse is an
\* extra argument that validate admits and validate_staging takes for a staging step.
RefusedIsForeign ==
    phase = "policy" =>
        share.kind # "file" /\ \E i \in DOMAIN share.extra : share.extra[i][1] = "stage-share"

\* The places of the command that decide an id: as a guest's by a map or a forbid
\* rule, as a host's by a squash rule.
Deciding(cmd, flag, hows, id) ==
    {i \in DOMAIN cmd : cmd[i][1] = flag /\ cmd[i][2].how \in hows /\ Covers(cmd[i][2], id)}

\* On the command a daemon is started with, every guest id is decided by exactly one
\* rule, only the session user's is mapped and it is mapped to the host's own, and
\* every other host id is squashed exactly once: users and groups, both ends of the id
\* range included. validate does not refuse an extra argument that repeats a
\* translation and the daemon gets it behind these; then no more is said than that
\* every guest id is still decided (add_translation, virtiofsd).
TranslatedOnce(cmd, flag, who) ==
    \A id \in 0..IdMax :
        /\ Cardinality(Deciding(cmd, flag, {"map", "forbid"}, id)) = 1
        /\ (Deciding(cmd, flag, {"map"}, id) # {}) <=> id = who.guest
        /\ \A i \in Deciding(cmd, flag, {"map"}, id) : cmd[i][2].to = who.host
        /\ Cardinality(Deciding(cmd, flag, {"squash"}, id)) = IF id = who.host THEN 0 ELSE 1
IdsArePartitioned ==
    phase = "spawned" =>
        \A flag \in TranslateFlags :
            IF HasArg(share.extra, flag, "")
            THEN \A id \in 0..IdMax : Deciding(command, flag, {"map", "forbid"}, id) # {}
            ELSE TranslatedOnce(command, flag, ids[flag])

\* A spawned daemon can open at least one guest file: the limit exceeds the
\* reserve and the workers, a pool of zero being one worker.
AllowanceIsPositive ==
    phase \in {"valid", "rendered", "spawned"} =>
        budget.limit > FixedReserve + (IF budget.pool > 0 THEN budget.pool ELSE 1)

\* contains_unresolved_token finds a token wherever there is one, and only then.
TokensAreFound == Unresolved(share.name) = HasToken(share.name)

\* Two file names never share an encoded entry, and an encoded one is accepted; so
\* the entry a guest binds is that of the one file the staging step put there.
EntriesAreDistinct ==
    \A t \in Texts :
        /\ t # share.name => EncodeEntry(t) # EncodeEntry(share.name)
        /\ t \notin {<<>>, <<".">>, <<".", ".">>} => IsEncodedEntry(EncodeEntry(t))
        /\ (phase = "spawned" /\ share.kind = "file" /\ EncodeEntry(t) \in share.entry) =>
              t = share.name

\* The promises of the rendered command: the six above, once the share has been
\* validated or refused.
ConfinementSafe ==
    /\ phase \in {"given", "valid", "refused", "rendered", "spawned", "policy"}
    /\ phase # "given" =>
         /\ PolicyHolds /\ RefusedIsForeign /\ IdsArePartitioned
         /\ AllowanceIsPositive /\ TokensAreFound /\ EntriesAreDistinct
=============================================================================
