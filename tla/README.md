# A TLA+ model of vivarium

`vivarium` (`viv`) runs one NixOS microVM per manifest. A command builds a runner
with Nix, keeps the build as a numbered *generation*, and hands a launch
specification to a transient systemd user unit. The unit runs
`vivarium-supervisor`, which owns the VMM, the share daemons, the network
namespace and the shutdown. Sessions (`viv exec`, `viv shell`) talk to an agent in
the guest over a vsock control socket.

This directory models that system in TLA+: modules checked with TLC on small
instances, and theorems checked with TLAPS for all instances. All paths below are
relative to the repository root; the crate is under `src/`.

## 1. Inventory

| Part | State it keeps | Operations | What is hard about it |
|---|---|---|---|
| Target lifecycle, `cli/lifecycle.rs`, `main.rs` (handoff) | flock on the runtime directory; `launch.json`, `ready.sock`, `vm.pid`, `boot.json`, control socket; `running-build` | start (four forms), ensure-running of exec and shell, stop, stop ladder | verbs of several processes; `stop` takes no lock; a killed `viv` releases the lock under a booting VM; the manager may not answer |
| Generations, `config/generations.rs`, `cli/generations.rs` | `generations/<n>`, `metadata/<n>.json`, `metadata/<n>.lock`, `current` | append, set_current, unlink, list, prune, activate, rollback, gc | four files per generation and no transaction; the collector takes no lock |
| Destroy, `cli/destroy.rs` | the state tree and the runtime directory | stop, re-check, remove, clear | removing under something that is still alive; half-done removal |
| Supervisor, `launch/supervisor.rs`, `bin/vivarium-supervisor.rs`, `launch/systemd.rs` | the children, the ruleset, the VM, the handoff connection | launch ladder, monitor, shutdown ladder, sweep, report | two tasks, children that die at any time, SIGTERM with and without a handler, ordering of filter and uplink |
| Control client, `launch/control.rs`, `cli/session.rs` | one connection | handshake, session stream, shutdown, memory report, trim | disconnects, exit after output, budgets |
| Guest agent, `bin/vivarium-guest-agent` | connections, child processes, sessions count | handshake, session, signals, shutdown, credential relay | draining output before Exit, stop during sessions |
| Protocol, `protocol/` | none | frame and message codec | length limits, frame order |
| Credential relay, `launch/credentials.rs` | parked connections | park, relay, re-park | pool at its limit, failure of one worker |
| Gating resolver and filter, `net/` | nft sets with timeouts, in-flight queries | match, program, release | an answer must not be released before its addresses are programmed |
| Console and attach, `launch/console.rs`, `cli/attach.rs` | `console.log` and its rotations | tee, rotate, follow | a follower across a rotation |
| Volumes, `config/volumes.rs`, `cli/volume.rs` | images, `volumes.toml` | provision, list, rm, prune | a record that is stale by construction decides what is an orphan |
| Reclaim, `cli/trim.rs` | balloon size | inflate, hold, deflate; fstrim | failing between inflate and deflate |
| Update and locks, `cli/update.rs`, `config/lock.rs` | the owned `flake.lock` | stage, run Nix, replace | lock moves only whole |
| Configuration publication, `config/materialize.rs`, `atomic.rs`, `registry.rs` | generated flake tree, first pin, workspace index | stage, flush, rename or exchange | concurrent writers without a lock |
| Configuration language, `config/manifest.rs` and others | none | parse, resolve, merge, evaluate | sequential; the library is edited while it is read |
| Launch specification and confinement, `launch/spec.rs`, `policy.rs`, `mounts.rs` | `launch.json` | resolve, classify, render, validate | paths replaced between check and use; ids and limits at their edges |
| Fleet, `cli/fleet.rs`, `stop_all` | none | stop --all, status, admission | sandboxes that change while they are walked |
| Command line, `cli/grammar.rs`, `main.rs` | none | lift, parse, dispatch | two passes that must agree |
| Doctor, rendering, diagnostics | none | read and print | sequential |

How they interact: `viv` processes share the runtime directory and the state root as
files, exclude each other with the flock (never waiting: `try_lock`), and ask the user
manager about the unit. A launcher binds `ready.sock`, submits the unit and waits; the
supervisor connects to that socket, launches, and writes one report. From then on the
supervisor is alone with its children until SIGTERM, a child's end, or the guest's own
poweroff. `stop` asks the guest's agent, then the manager, then kills the group.

What makes the parts correct: at most one VMM per target; verbs that return and tell
the truth; a running VM's closure that stays rooted and in the store; provenance that
names the build the VM runs; a profile whose pointer is always bootable and whose roots
are labelled; a launch in which no packet can cross an unfiltered path; a stop in which
the guest is first asked to power off; a sweep after, never before, the last child.

The hazards behind these properties are listed with their lines in `PROJECT.json`.

## 2. Plan

Order, most important behaviour first:

1. `Target` and its proofs: the lifecycle of one target. **Done.**
2. `Generations`, `Profile` and proofs: the build history. **Done.**
3. `Supervisor` and proofs: launch, monitor, shutdown. **Done**, every safety property proved.
4. `Session`, `Console`, `Relay`, `Egress`: the four channels between guest and host. **Done**,
   liveness model-checked, safety proved.
5. `Publication`, `Ownership`, `Volumes`: the durable state beside the generations. **Done**,
   proved.
6. `Launch`, `Confinement`, `Fleet`, `Grammar`: what stands before and around a launch.
   **Done**, proved.
7. `TargetView`: that `Target`'s supervisor steps are an abstraction of `Supervisor`.
   **Done**, the refinement is checked and proved.

## 3. Modules

| Group | Modules | Checked together in |
|---|---|---|
| Lifecycle | `Target` (proofs in `TargetProofs`) | `MCTarget` |
| Supervision | `Supervisor`, and `TargetView` by which it implements `Target` (`SupervisorProofs`) | `MCSupervisor` |
| Channels | `Session` (`SessionProofs`), `Console`, `Relay` and `Egress` (`ChannelProofs`) | `MCChannels` |
| Durable state | `Generations` implementing `Profile` (`GenerationsProofs`), `Publication`, `Ownership`, `Volumes` (`StoreProofs`) | `MCGenerations`, `MCStore` |
| Front | `Launch` and `Fleet` (`FrontProofs`), `Confinement` and `Grammar` (`CommandProofs`) | `MCFront` |

### 3.1 Target

One target, any number of `viv` processes. `lock` is the flock; `pc` and `job` are one
process's place in a verb and the values the verb holds; `unit` is the ActiveState of the
transient unit (`absent`: collected, as the unit is garbage-collected when it ends);
`sup`, `spec`, `conn`, `mail`, `report` are the supervisor, the build of the specification
it read, the launcher on the handoff connection, the outcome on its way from the supervision
task to the main task, and what that connection carries; `vms` are
the live VMMs, each with an incarnation number for its pid and the build it was booted
from; the remaining variables are the files. A record file holds the incarnation that
wrote it, or 0 when absent.

| Actions | Code |
|---|---|
| `Begin`, `Return`, `Interrupt` | `TargetLock::acquire`, its drop, a killed process |
| `StartDecide`, `StartBuild` | `perform_start`, `retained_boot`, `evaluate_and_build` |
| `LaunchRecord`, `HandoffPrepare`, `HandoffSubmit`, `AwaitAccept`, `ReadReport` | `launch`, `handoff`, `await_readiness` |
| `Reuse`, `ReuseWait`, `ShedStale`, `ReadBootRecord` | `reusable`, `stale`, `ensure_running` |
| `StopTriage`, `LadderAsk`, `LadderAcked`, `StopUnit`, `StopPoll`, `StopKill`, `StopReap`, `ConfirmTeardown` | `stop`, `stop_ladder`, `stop_unit`, `confirm_teardown` |
| `PruneDecide`, `PruneUnlink`, `Activate` | `generations prune`, `activate`, `rollback` |
| `DestroyDecide` to `DestroyClear` | `destroy`, `clear_runtime` |
| `Sup*`, `UnitExec`, `UnitReap` | the supervisor as `viv` sees it; the user manager under `KillMode=mixed` |

Every read of the manager is one element of `UnitReadings`: the truth or, with
a flaky manager, no answer. Which of the two a behaviour has (`manager`, chosen from `Managers`)
never changes in it. `Classify` and `Presence` are the code's two judgements and keep
their different treatment of "no answer". A step of a verb is one read, one write or one
external call, so other processes' steps come between any two of them. The generations are
here just the set of rooted builds and the current one; section 3.2 has their files. A
build that fails may have recorded its generation already (a failure after `append`). A stop's
polls end at their deadline, except those of a patient stop (`--timeout -1`, `GoesOn`), which wait
for as long as the unit is loaded.

### 3.2 Generations and Profile

The files of one profile, written one at a time by the holder of the lock. `link`, `meta`,
`snap` are the three files of each number, `current` the pointer, `store` the Nix store,
`vm` the build of the unit that was submitted, `onRecord` whether `vm.pid` and `boot.json` are in
place, which its supervisor writes without the lock, and `orphan` whether its launcher had left by
then. Prune and destroy do not see `vm`: they go by what `discriminate` may read (`ReadsResting`) and
by `running`, the `running-build` record. `append` is `PublishSnapshot`, `PublishMetadata`,
`RegisterRoot`, `PointAt`; every failure arm, including a publication whose file landed but
whose directory flush failed and the best-effort undo, is an alternative. `Crash` ends the
writer anywhere. `Collect` removes an unrooted output at any time. `Destroy` is one step, or
with `TornDestroy` leaves any part of the tree.

`Profile` is the promise: numbered entries that never change, a pointer to one of them, a
new entry numbered past the retained ones, only entries off the pointer dropped.
`ImplementsProfile` maps the root links to entries and `current` to the pointer; metadata
and snapshots are invisible there, so their writes are stutters.

Wall-clock ages are abstracted: `--older-than` may select any set of recorded rows.
`used` is a history variable for the claim that numbers are never reused.

### 3.3 Supervisor

One `vivarium-supervisor`. `child` is the life of each share daemon, the namespace holder, the
uplink, the resolver and the VMM (`exited` is an unreaped zombie); `pc` is the supervision task;
`mail`, `report`, `launcher` are the channel to the main task and the handoff, `files` what of the
runtime directory this launch made. `sigterm` is the signal's disposition: default until `monitor`
installs its handler, so that a stop during the launch, or during the ladder of a failed launch,
ends the process at once. Every launch step may fail (`LaunchFails`); the ladder's waits end when
the children are gone or the budget is, children are killed in the order they were spawned in
(`Rank`), and an error of a poll, a kill or a reap ends the ladder early, with the sweep still to
come (`LadderFails`, `lost`). `button` is what became of the one call that presses the power button:
its failure is discarded (`ButtonFails`). A helper program has no budget (`HelperSteps`). `Collect` is the manager's part: it ends what the process
left behind. A wait for a socket is not a test of the child behind it, because a predecessor's
socket satisfies it.

`Target`'s `Sup*` actions are a coarser view of the same process, and `TargetView` says which:
the launch up to the VMM is `SupSpawnVmm`, the ladder `SupShutdown`, the children other than the
VMM and their pipes are not seen at all. `ViewSup`, `ViewUnit`, `ViewMail`, `ViewReport` and
`ViewVms` read the supervisor, its unit, the report under way and the VMM off a `Supervisor` state;
two processes surround it, the one that launched it, which waits for the report or has gone, and
one about to stop the unit. `ImplementsTarget` is the refinement: such a state is one of `Target`'s,
and every step is a step of `Target` or changes nothing there. The mapped states begin in the middle
of a behaviour of `Target` (a `start` up to its accepted connection and a `stop` up to its
`systemctl stop`), so what is claimed is `[][T!Next]`, with `T!TypeOK` in place of `T!Init`. The
mapping is of one launch into a directory without records: no VM before it, one build, a manager that answers.

The claim was false of an earlier `Target`, whose supervisor reported and installed its handler in one
step. In the code the report passes through the main task, so that a stop can find a launch that is
ready and has no handler (`supervisor.rs:692`), a ladder can overtake its own report, and the process
ends only when both tasks are through. `mail`, `SupAnswered`, `SupReady`, `SupReport`, `SupInstall`
and `SupEnd` are those steps.

### 3.4 Session

The control plane: a set of connections, each for one session or one call. `cli` and `ag` are the
two ends, `up` and `down` the frames under way (a write waits when `Window` frames are), `proc` the
guest process with its pipes (`PipeCap`), `live` the agent's session count, `poweroff` and `trim`
the trigger files. A frame is its tag; a chunk of input or output is one frame. With `Torn` a frame
may reach the agent in two reads, between which `select!` may drop the first half, because
`read_client_frame` is not cancel safe. The client side is `wait_for_agent`, `greet`, `Session::run`
and the calls of `launch/control.rs`; the agent side is `control.rs`, `session.rs` and `process.rs`
of the guest agent, to the bounded drain, the escalation of `end_session` and the `kill_on_drop` of
a handler that returns with an error.

`Wedged` names the two deadlocks the code has (section 6): the agent waiting to write a child's
input that nobody reads, and both ends writing with both directions full. The liveness properties
hold in every other state.

### 3.5 Console

`ConsoleSink` writing and rotating `console.log` (`capture`: names, inodes, contents), and the
follower of `start --attach`: open, read to the end, compare identities, reopen, and the quiet polls
that end the stream. A chunk is the number of a read of the console; 0 is one of an earlier boot.
`vm` is what the follower may read: `dead` is a VMM that is gone while its sink still drains, which
`discriminate` already calls failed, `stopping` and `ending` the same with a unit that is being
stopped. `ReadsGone` adds the manager that does not answer. `due` remembers what had landed when the
last drain began.

### 3.6 Relay

One credential's pool: `CREDENTIAL_POOL_SIZE` workers that connect to the guest, park, connect to
the host's agent and relay, and the guest agent's channel of parked connections with the one it
offers next. The host's agent comes and goes.

### 3.7 Egress

`bring_up_network`'s order, the nft table with its literal and timed sets, the packets of a guest
that may send as soon as its interface exists, and the resolver: the shape of each datagram, the
policy, the permits (`MAX_IN_FLIGHT`), upstream's answer or failure, the serialised programmer, and
the release. Names are sequences of labels and the allowlist's match is the code's; the property
compares it with a definition of its own (`Permitted`). Time to live is an element that may expire
at any moment after it was set.

### 3.8 Publication

What commands that evaluate do to a target's pin and generated tree: readers without the target
lock, starters and updaters with it. A lock file is the revision it pins, whether it still carries
the dead `vivarium` node, whether its baseline is sound, and whether it is without that node (`rest`):
`follows` may lead through it. Retained and team locks may be any of these. `alone` and `still` are
history: nobody republished the tree, no update replaced the pin, since a command looked. The steps are `effective_lock`, the
staged tree, its exchange, the migration's rewrite, evaluation by Nix (external: it may add a pin
the tree lacks), the first pin with `NOREPLACE`, the reading of the snapshot, and `viv update`'s
own staging. A command may die anywhere; the team may commit an override lock at any time.

### 3.9 Ownership

The index of the manifest library: stamps, hit or rebuild, publication without a lock, and the
second reading of every candidate, while the author edits. `Reverts` allows a rewrite that brings
earlier bytes back with their mtime; it is off in the run (section 6).

### 3.10 Volumes

Declarations in a manifest and its pieces, the record of the last evaluation, `provision_volumes`
with its staging file, the survey before the lock in its three reads (layers, record, images), prune
under it, and the two reclaims with the
balloon. A process may die at each step.

### 3.11 Launch

From the declared sources to the daemons that serve them: `resolve_workspaces`, then either the
credential check and a build, or a retained build whose contract is any of `History`
(`--no-rebuild`, `--generation`), the record of the running build, `classify_source`, the credentials
the contract declares, `LaunchSpec::validate` in the launcher and again in the supervisor, the
publication of `launch.json`, `open_share_roots` and the spawns. `fs` says what each path names and
where it leads, being a link or reached through one; `Touch` replaces it at any moment. `made` is what
the launch has left on disk, `running-build` included. `replaced` is a history variable: the paths
replaced since they were last resolved, for which nothing is promised.

### 3.12 Confinement

The rules of `validate` with numeric or textual edges (descriptor budget, unresolved tokens, staging
names and whose source they name, cache modes), the rendering of `ConfinementProfile` and the re-read of it. A command is a sequence of
`<<flag, value>>`, the translation rules of users and groups included; a program that is given a flag
twice takes the last one. Characters are
represented only where a rule looks at them: `@`, `%`, upper case and digits, the rest of the safe
ones. The re-read keeps the code's reading of a staging step, "`stage-share` in the argument list",
which an extra argument can meet too (section 6).

### 3.13 Fleet

`stop --all`, `status`, `status -g` and admission, each a walk over sandboxes that boot, end, grow
and become unreadable while it walks. `touched` is a history variable: who changed since the verb
began. A sum of charges is the number of units of memory in use (a cardinality, so that the proofs
can add to it). The two properties about stop speak of the others. The manager is asked two
questions of a unit (`Questions`), each of which may go unanswered: without the state a live VM reads
as failed, and one in transition, which may have no records, as built (`Discriminate`).

### 3.14 Grammar

`lift_globals` token by token, then the verb's parser, the consent rules, dispatch and exit codes.
A token stands for every token the parsers treat alike.

### 3.15 Several modules in one run

The modules of `MCChannels`, of `MCStore` and of `MCFront` share no state, so interleaving them
would only multiply their state spaces. `focus`, chosen in the initial state, says which one moves;
the others rest in one of their own initial states. Each module's reachable states are all covered,
and each has its own specification (`SessionSpec`, `VolSpec` and so on) to which the run's
behaviours under that focus correspond.

## 4. Runs

| Run | Result | Question |
|---|---|---|
| `Target_safety` | passes, 3.4 M states | `TypeOK`, `OneVm`, `StopIsTruthful`, `DestroySparesRecordedVm`, `NeverReplacesUpVm` with a manager that may not answer; `CalmPinned`, `CalmProvenance` with one that does |
| `Target_live` | passes, 228 k | `VerbReturns`, `StopConverges` under all faults |
| `Generations_profile` | passes, 2.8 M | types, bootable pointer, labelled roots, closure of a recorded VM held, refinement of `Profile` |
| `Supervisor_faults` | passes, 186 k | refinement of `Target` (`ImplementsTarget`); filter before path, delivered report, sweep after reap, power button before the hard half; a child's end and a stop are followed by the end; under all faults |
| `Channels` | passes, 112 k | `SessionSafe`, `ConsoleSafe`, `RelaySafe`, `EgressSafe`, and liveness: `SessionsDrain`, `ExitIsNoticed`, `StreamEnds`, `ServedOnceUp`, `WorkersJoin` |
| `Store` | passes, 1.2 M | `HistoryIsImmutable` after a torn destroy, `PublicationSafe`, `PinIsKept`, `OwnershipSafe`, `VolumesSafe`, `PruneSparesKnown` |
| `Front` | passes, 2.0 M | `LaunchSafe`, `ConfinementSafe`, `FleetSafe`, `GrammarSafe` |
| `Target_provenance` | violated | one unanswered `systemctl show` and `start` rewrites `running-build` under a live VM |
| `Target_pinned` | violated | a killed `start` leaves a booting VM whose root `prune` unlinks |
| `Target_idempotent` | violated | `stop` over a dead VM's records fails each time |
| `Generations_reuse` | violated | generation numbers are reused |
| `Supervisor_launcher` | violated | a departed launcher costs a booted guest its orderly poweroff |

Each violated run states a sentence of the specification or of a comment; the sentence and what the
code does instead are under `findings` in `PROJECT.json`. The first two violated runs are the
counterparts of `CalmProvenance` and `CalmPinned`: the same invariants, with one fault switched on
(an unanswered call, a killed process). `StopIsTruthful` allows for the moment in which the
supervisor is gone and the manager has still to kill the rest of the group.

What the combined invariants say, part by part:

* `SessionSafe`: `OutputBeforeExit`, `RefusalMeansNoProcess` (the caller may retry after a refusal),
  `OwnBootOnly` (a client with another boot's identity starts, stops and trims nothing),
  `AckIsTruthful` (an acknowledged trim was done for this request, whatever markers timed-out ones
  left).
* `ConsoleSafe`: `ForwardedInOrder`; `LastDrainIsComplete` (a stream that ended has forwarded what the
  file `console.log` leads to held when the last drain began; what a rotation may lose is in the
  files before it, what a dead VMM's sink still drains comes after it).
* `RelaySafe`: `ParkedOnce`, `ParkedIsBounded`.
* `EgressSafe`: `FlowsWereGranted`, `DeniedStaysLocal`, `RefusedMeansPolicy`.
* `PublicationSafe`: `OwnedIsSound`, `SnapshotIsEvaluated`, `CreatedIsInstalled`; `PinIsKept`:
  `OnlyUpdatesMove`, `DeadNodeStaysShed`.
* `OwnershipSafe`: `NoHiddenClaim` (the index may miss, it may not hide a second claimant).
* `VolumesSafe`: `ImagesAreComplete`, `AttachedIsThere`, `OneReclaim`, `BalloonIsRestored`;
  `PruneSparesKnown`.
* `LaunchSafe`: `ServedIsVetted`, `RefusedLeavesNothing`, `BootSetAgrees`, `CredentialsCarried`,
  `TreesAreDisjoint`, `RunsValidatedSpec`.
* `ConfinementSafe`: `PolicyHolds`, `RefusedIsForeign`, `IdsArePartitioned`, `AllowanceIsPositive`,
  `TokensAreFound`, `EntriesAreDistinct` (each of the last four against a reference definition).
* `FleetSafe`: `SweepLeavesNoneBehind`, `OkMeansDown`, `ZeroMeansEmpty`, `SilenceMeansRoom`,
  `CountsItsOwnBoot`.
* `GrammarSafe`: `CommandIsVerbatim`, `ValuesStayValues`, `DestructiveIsConfirmed`,
  `HelpRunsNothing`.

Bounds. `Target`: two processes, because every race here is between one verb and one other; two
builds, so that "another build" exists; three or four invocations, enough for boot, change, and two
racing verbs (`MaxVerbs`; the counterexamples need three); the liveness run has two, and also the supervisor whose
ladder fails and the stop without a deadline, which the safety theorems admit (`ReapFails`,
`NoDeadline`) and the safety run leaves out for its size. `Generations`:
three numbers let a prune remove an old, a middle or the newest one below or above `current`; the
torn run has two, and one lock. `Supervisor`: one share in the run with liveness (a share's life does not depend
on another's; the proofs cover any set). `Session`: two connections, so that two calls meet in the
agent, input and output of two chunks through pipes and windows of one, so that every write can
block. `Console`: two chunks with a rotation after each, and a chunk of an earlier boot. `Relay`: two
workers. `Egress`: two queries, both in flight at once, for two names, one permitted, two addresses, one
of them literal. `Publication`: one command of each kind and two moves of upstream. `Ownership`: two
manifests, two resolvers, two edits. `Volumes`: two processes, one piece, one declared and one
reserved volume, one edit. `Launch`: two workspaces, a mount, a credential socket, links that lead
into another workspace, a session directory or above what the guest owns, a retained build that
declares fewer and other paths, two replacements.
`Confinement`: both ends of a small id range, limits at and around the reserve. `Fleet`: two
sandboxes of the library and one whose manifest is gone, one change by others. `Grammar`: every verb
with the tokens that mean something to it, three tokens (a command with an option's value behind a
separator, `exec --env X -- cmd`, has four: only the theorem reaches it). Processes, builds and locks are symmetric
where no liveness is checked. `Target` and the three combined runs come to rest when their bounds are
used up, so deadlock checking is off there; it is on for `Generations` and `Supervisor`.

Fairness. `Target`: every process that is in a verb goes on, the manager executes and collects
units, a supervisor takes its next step, and its monitor notices a stop or the VMM's end (it
polls). `Supervisor`: both tasks go on. `Session`: the agent's handler and the client of each
connection go on, timers included. `Console`: the sink's task and the follower's thread.
`Relay`: the workers' tasks and the agent's; that a connection the pool has room for is parked
(`Park`). Nothing is assumed of users, guests, guest processes, host agents, killers, the network or
the manager's answers. This is what the schedulers, tokio and the code's own timeouts give: every
wait has a budget, except those for a helper program (`mkfs`, `ip`, `nft`, `ch-remote`) and the join
of the drain tasks. Neither is assumed to end: the liveness of `Supervisor` says that only a wait of
these that never ends (`Stuck`) keeps a supervisor from its end. Likewise `VerbReturns` excepts a stop
without a deadline for as long as its unit stays loaded. `ServedOnceUp` states what it
needs of guest clients and of the host's agent as its hypothesis.

## 5. Proofs

Every theorem holds for every value of the constants (any processes, builds, connections, names,
shares, sandboxes; all faults unless a hypothesis says otherwise), from the assumptions named in each
module, which TLC evaluates in the runs. They say that placeholders differ from real values, that
switches are Booleans and bounds naturals, that finite things are finite, and in five places more:
`EgressAssumption` that names are sequences of labels, that an entry's name has at least one and that an
address entry is one of the addresses; `ConsoleAssumption` that more files may be made than chunks are
written, since a chunk makes at most one rotation; `PublicationAssumption` that upstream has a first
revision and that a command is of one kind; `FleetAssumption` that no sandbox is named
like one of the answers its name is compared with, and that a VM is given some memory;
`ConfinementAssumption` that extra arguments are finite sequences and that names are texts over the
characters the rules tell apart.

| Module | Theorems |
|---|---|
| `TargetProofs` | `TypeCorrect`, `AtMostOneVm`; `SessionsSpareTheVm`, `StopsTellTheTruth`, `DestroySparesTheVm`; `RunningBuildIsPinned`, `RunningBuildIsNamed` |
| `GenerationsProofs` | `TypeCorrect`, `ClosureIsHeld`, `HistoryKept`; without torn destroys `CurrentBoots`, `RootsLabelled`, `Refinement` |
| `SupervisorProofs` | `TypeCorrect`, `FilterFirst`, `NoChildOutlivesSweep`, `LauncherIsTold`, `ButtonBeforeKill`; `Refinement` |
| `SessionProofs` | `SessionIsSafe`, `SessionsAreCounted` |
| `ChannelProofs` | `RelayIsSafe`, `ConsoleIsSafe`, `EgressIsSafe` |
| `StoreProofs` | `VolumesAreSafe`, `PrunesSpareTheKnown`, `PublicationIsSafe`, `ThePinIsKept`, `OwnershipIsSafe` |
| `FrontProofs` | `LaunchIsSafe`, `FleetIsSafe` |
| `CommandProofs` | `GrammarIsSafe`, `ConfinementIsSafe` |

The inductive invariants, and what they add to the properties:

* `Target`. `OneVm` is not inductive: a second VMM must not be spawned while the first lives. `IInv`
  adds `UnitOwnsGroup` (no VMM outlives its collected unit, and a queued unit has none),
  `FreshSupervisor` (a supervisor that has not spawned its VMM finds none alive: this is what
  `HandoffSubmit` gains from systemd's refusal of a loaded name and `UnitReap` from
  `KillMode=mixed`) and `BootsFromSpec`. The lock plays no part there: the exclusion that matters is
  the unit's name. It does for the action properties. `LockInv` says what the holder of the lock
  knows: which step it is at, that a VM which `vm.pid` does not name is one whose launcher still
  holds the lock, and that what a verb read of the runtime directory is still so. It needs
  `Undisturbed` (no process is killed, no unit queues past the accept), which are also the bounds of
  `Target_safety`. Without it the three properties fail: a killed launcher leaves a boot that nobody
  waits for behind a stale `vm.pid`, which is the story of `Target_pinned`. `CalmInv` adds what the
  launch knows of the roots and of `running-build`; it needs `Answered`, a manager that also answers,
  without which `Target_provenance` is the counterexample. `CalmLedger`, beside `LockInv`, covers
  both managers at once: `CalmInv` where `manager` is calm, and `manager` never changes.
  `RunningBuildIsPinned` and `RunningBuildIsNamed` follow from it; they state `CalmPinned` and
  `CalmProvenance` of `Target_safety`.
* `Generations`. The invariant follows the writer: which files exist at each of append's steps, that
  every linked build is in the store, that the build of a recorded VM which `running-build` names is
  rooted, and that what is about to be booted, pointed at or pruned is what it was when it was chosen.
  `ClosureHeld` excepts an orphan, whose root prune and destroy do unlink (`Target_pinned`). `HistoryKept` needs of it
  only that the number about to be linked is past every linked one.
* `Supervisor`. The invariant ties the ruleset to the launch step reached, says that no path
  exists before that step, that `prepare` has no child, and that the join, and a sweep behind a ladder
  that did not fail, have none alive; for the
  report, that whatever was taken from the channel was written to a launcher that is still there, and
  that the process ends by itself only after it took something; for the button, that the hard
  half of the ladder is reached with a booted guest only after its button was pressed or the call
  failed. `Refinement` needs more,
  because a mapped state is only as good as its agreement between variables: `ViewInv` says that a
  launch under way has nothing in the channel, that what was written was taken first, at which steps
  the handler can be in place, and from which step on there is a VMM. With it the proof has one lemma
  per group of steps (`LaunchView`, `LadderView`, `MainView`, `StopView`, `LeaveView`, `CollectView`,
  `ChildView`): a step is either `Unseen`, or names the action of `Target` that it is.
* `Session`. `SessionInv` has, for each connection, `Phases` (which handler step meets which client
  step), `Started` (a process exists exactly from the reply that says so), `Carried` (every chunk the
  process wrote is in the pipe, in the handler's hands, in a frame under way or was delivered: an
  exact count), `Framed` (what may still be in the downward frames, in which order) and `Concluded`
  (what each outcome proves); and for the agent that its count is that of the handlers which hold a
  session, and that triggers and trims are those of their own requests.
* `Relay`. `RelayInv` is by position: who is in the pool or offered waits or relays, live entries are
  pairwise different, and none is offered too.
* `Console`. `ConsoleInv` orders the chunks over the files (the sink's file newest, names and inodes
  in step), places the follower's file and offset in that order, and says what the last drain has still
  to read of what was due when it began.
* `Egress`. `EgressInv` follows each question from the gate to the set: a task past the gate carries
  one permitted name, what it will install is upstream's answer to that name, the sets hold only such
  addresses, and the guest runs only behind the table.
* `Volumes`. `VolInv` says who holds the lock at each guarded step, that a name is only ever given to
  a finished image, that what a prune will spare covers what the layers declare as long as nobody
  edited them and the record was theirs, and whose balloon it is. `Publication`: `PubInv` relates what
  each command read to the tree and the pin as they are now, as long as nobody else wrote them;
  `MigrationsAgree` says that migrations which overlap read the same lock, before the same update, and
  that where some command found no lock there is nothing to migrate. `Ownership`: `OwnInv` says that a stamp that still matches names
  the content it was taken of, which needs `~Reverts` (section 6).
* `Launch`. `LaunchInv` says which of the declared paths resolution, planning and the daemons' roots
  still agree on: all but the replaced ones; `InOrder` says which steps have left what on disk.
* `Fleet`. `FleetInv`: a sandbox given to a stop is still to come, down, overlooked (`Settled`), or on
  record as failed; who is up, can be asked about and was left alone has been counted or is still to
  be; over a still fleet the sum is that of
  the sandboxes seen, each once, and the host's reading is still true.
* `Grammar`. `GrammarSafe` compares what was typed with what was read, and the two passes meet only in
  the list of kept tokens. `GrammarInv` says how that list came about: there is a map from its places to
  those of the command line, in order, which misses only lifted globals; there are places that the
  first pass took for values, by the same rule (`TakesValue`) that the second pass reads by; and there
  is one separator, behind which nothing is lifted. The second pass then never finds itself at a value
  that it takes for an option.
* `Confinement`. `ConfInv` keeps of a validated record that an allowance is left and that no extra
  argument is a fixed one, and of a rendered command where each mandatory flag stands first and last:
  what comes behind the policy's arguments does not repeat them, and what comes before does not matter.
  For the ids, `Splits` says at which places of `add_translation`'s rules an id is decided, and
  `Extended` that what stands before and behind them on the command decides none, unless it repeats
  the flag.
  The text rules are recursive functions, so that there is first a function to speak of: the proofs
  give it by what it should compute (`HasToken`; the cuts of an encoded name; the encodings of a
  name's prefixes), show that this satisfies the equation, and exclude another solution by a text of
  least length on which they differ. `Least`, that a set of naturals has a least element, stands in for
  induction throughout.

Only model-checked. Liveness under fairness is outside this prover's reach: `VerbReturns`,
`StopConverges`, `ChildEndIsNoticed`, `StopEnds`, `SessionsDrain`, `ExitIsNoticed`, `StreamEnds`,
`ServedOnceUp`, `WorkersJoin`. Every safety property of a passing run is stated by a theorem. The types of
`Supervisor` are proved (`TypeCorrect`) and in no run of their own; `ImplementsTarget` starts from them.

## 6. Known divergences

Besides the five violated runs, modelling the code showed places where it does something other than
its specification, a comment or a reader expects. The models keep the code's behaviour; the
properties are stated around these cases, and say so where they are.

* Session. Input sent to a process that has just exited fails with EPIPE in the agent, the handler
  returns without `Exit`, and the host reports a lost session although the command had a status
  (`session.rs:91`; spec/12 promises exactly one `Exit`). A client that disconnects while the agent
  writes output is seen as a write error: `end_session` is skipped, `kill_on_drop` kills the leader
  and the rest of the group goes on (`session.rs:114`; spec/12 "A session whose client disconnects
  is not left running"). The agent can wait for ever to write input to a child that waits to write
  output, and host and agent can wait for each other (`Wedged`). A frame split over two reads may
  lose its first half to `select!` (`Torn`). A failed write to the host's own stdout ends the
  session with an error after the guest process exists.
* Supervisor. A failed power button call is discarded (`let _ =`, `supervisor.rs:784`), so a booted
  guest may be killed unasked. An error while polling, killing or reaping a child leaves
  `shutdown_children` through `?` and the runtime directory is swept with children perhaps alive; the
  manager ends them. Helper programs are awaited without a budget (`supervisor.rs:829`).
* Generations. Prune and destroy judge by the records and `running-build`: a unit without records yet
  may lose its root (`Target_pinned`).
* Console. Chunks appended between the follower's last read and a rename or unlink are lost, which
  the comment at `attach.rs:107` denies. A VM reads as failed once its VMM's pid is dead, or the
  manager does not answer, while the sink still drains: three quiet polls (`attach.rs:29`) are a delay
  and no proof, and what lands behind the last drain never reaches the terminal. `LastDrainIsComplete`
  therefore speaks of what had landed when the last drain began.
* Relay. A guest connection is parked before the host is known to answer (`credentials.rs:95`), so a
  guest client may be handed dead connections, one per failed attempt.
* Publication. The migration's rewrite of the owned lock (`materialize.rs:466`, "race-benign") takes a
  concurrent `viv update` back when that comes between its read and its rename, although `lock.rs:3`
  moves no surviving pin; and it is written before `composed_lock_failure` has seen its bytes.
  `OnlyUpdatesMove` and `OwnedIsSound` state what holds around these two. The snapshot is read after the evaluation, not at publication as
  `cli/mod.rs:431` says, so a concurrent republication can be recorded in its place;
  `SnapshotIsEvaluated` speaks of commands that had the tree to themselves. Shedding the dead node
  leaves `follows` through it dangling, so a sound lock may become an unsound one.
* Ownership. A rewrite that restores earlier bytes and their mtime gives the spurious hit that
  `registry.rs:52` says the cache cannot afford (`Reverts`).
* Volumes. When the composition changed, every volume declared by a piece leaves the live set, also
  one a remaining piece still declares, and prune deletes it: "Late, never false"
  (`config/volumes.rs:105`) does not hold in that direction, nor for a declaration added after the
  survey, which precedes the lock. `PruneSparesKnown` excepts these two cases. A trim that is killed leaves the guest squeezed.
* Launch. Between `resolve_declared_mounts` and the daemon's own open a source may be replaced and
  only its type is read again (`supervisor.rs:488` states this window, `mounts.rs:171` says it is
  closed). `running-build` is written before mounts and credentials are refused, although the comment
  above it (`lifecycle.rs:1152`) says that a refused boot must not leave it. Under `--no-rebuild` and
  `--generation` the trees of a boot are those of this resolution that the older build happens to
  declare, so the boot's set may be smaller than the one it is later compared with
  (`lifecycle.rs:2063` calls them "one fact").
* Confinement. An extra argument `stage-share` on a share that is not staged is admitted by `validate`
  (`spec.rs:764` refuses only the fixed arguments) and refused by `validate_staging`
  (`policy.rs:449`), which knows a staged share by that word: "a share is staged or it is not".
  Nothing unsafe is spawned; the refusal is a policy error about the rendering where it should be one
  about the record. `RefusedIsForeign` says that this is the only thing the re-read ever refuses.
  Extra arguments that repeat `--translate-uid`, `--translate-gid` or `--cache` are admitted too and
  stand behind the policy's own; `IdsArePartitioned` and `PolicyHolds` say how little is left then.
* Fleet. A manager that does not answer about a unit's state makes a live VM read as failed:
  `measured_use` skips it and the sum may be zero over a running fleet, although "a figure the host
  did not measure is unavailable, not zero" (`fleet.rs:345`); a unit in transition without records
  reads as built and `stop --all` passes it over. `ZeroMeansEmpty` and the two properties of stop
  except exactly these. Admission precedes the lock, so two starts may both be admitted. `stale` compares readings
  of different moments. A stop of a `failed` sandbox ends in the teardown error of
  `Target_idempotent`.

## 7. Not modelled

* `doctor`: read-only probes, each a sequential read and a verdict.
* Text: rendering, the wording of diagnostics, prompts, the terminal face; the text of the generated
  flake and of the merged report; parsing and merging of manifests beyond what resolution reads.
* The byte layout and length limits of control frames and DNS messages; the pseudo-terminal.
* In the modelled parts: pid reuse, durability of directory entries across a power loss, an
  unreadable state root, several targets with one lock (they share nothing but the store and are
  walked only in `Fleet`), `--keep-volumes`, and the content of records beyond what they decide.
