----------------------------- MODULE Generations -----------------------------
(***************************************************************************)
(* The generation profile of one target on disk: the numbered root links,  *)
(* the metadata records, the lock snapshots and the `current` pointer,     *)
(* written step by step by start, prune, activate, rollback and destroy    *)
(* under the target's lock, beside a store collector that takes no lock,   *)
(* and beside a VM whose records its supervisor writes without the lock.   *)
(*                                                                         *)
(* The lock is held by at most one writer, so the writer's program counter *)
(* and its values are single variables; a writer that dies releases it and *)
(* leaves the files as they are.                                           *)
(***************************************************************************)
EXTENDS Naturals, FiniteSets

CONSTANTS
    Builds, NoBuild,    \* store paths of built runners
    Locks, NoLock,      \* contents a flake.lock can have
    MaxNumber,          \* bound: the highest generation number
    TornDestroy         \* may destroy's tree removal end half way?

ASSUME GenerationsAssumption ==
    /\ NoBuild \notin Builds
    /\ NoLock \notin Locks
    /\ MaxNumber \in Nat
    /\ TornDestroy \in BOOLEAN

VARIABLES
    store,              \* outputs present in the Nix store
    link, meta, snap,   \* generations/<n>, metadata/<n>.json, metadata/<n>.lock
    current,            \* the number `current` points at, 0 for no pointer
    running,            \* what running-build names
    vm,                 \* build of the unit that was submitted, until it ends
    onRecord,           \* are that unit's boot.json or vm.pid in place?
    orphan,             \* did its launcher leave before they were?
    pc,                 \* where the holder of the target's lock is
    num, build, lock,   \* append's number, store_path and lock bytes
    rows,               \* generations prune has still to unlink
    used                \* history: numbers ever linked

files == <<link, meta, snap>>
args  == <<num, build, lock, rows>>
unit  == <<vm, onRecord, orphan>>
vars  == <<store, files, current, running, unit, pc, args, used>>

Numbers == 1..MaxNumber

\* nix-hash of a lock snapshot
Digest(l) == <<"sha256", l>>

NoMeta == [store_path |-> NoBuild, lock_digest |-> Digest(NoLock)]
Meta   == [store_path : Builds, lock_digest : {Digest(l) : l \in Locks}]

Labels == {"idle", "append", "digest", "register", "point", "boot", "launch",
           "wait", "unlink"}

TypeOK ==
    /\ store \in SUBSET Builds
    /\ link \in [Numbers -> Builds \cup {NoBuild}]
    /\ meta \in [Numbers -> Meta \cup {NoMeta}]
    /\ snap \in [Numbers -> Locks \cup {NoLock}]
    /\ current \in Numbers \cup {0}
    /\ running \in Builds \cup {NoBuild}
    /\ vm \in Builds \cup {NoBuild}
    /\ onRecord \in BOOLEAN /\ orphan \in BOOLEAN
    /\ pc \in Labels
    /\ num \in Numbers \cup {0}
    /\ build \in Builds \cup {NoBuild}
    /\ lock \in Locks \cup {NoLock}
    /\ rows \in SUBSET Numbers
    /\ used \in SUBSET Numbers

Init ==
    /\ store = {}
    /\ link = [n \in Numbers |-> NoBuild]
    /\ meta = [n \in Numbers |-> NoMeta]
    /\ snap = [n \in Numbers |-> NoLock]
    /\ current = 0 /\ running = NoBuild
    /\ vm = NoBuild /\ onRecord = FALSE /\ orphan = FALSE
    /\ pc = "idle" /\ num = 0 /\ build = NoBuild /\ lock = NoLock /\ rows = {}
    /\ used = {}

-----------------------------------------------------------------------------
(* Reading the profile.                                                    *)

Linked == {n \in Numbers : link[n] # NoBuild}

\* numbers: a lock snapshot alone does not count.
Known == Linked \cup {n \in Numbers : meta[n] # NoMeta}

\* Mutant: generations numbered by how many there are.
NextByCount(n) == n = Cardinality(Known) + 1

\* next_number
IsNext(n) ==
    /\ \A m \in Known : m < n
    /\ n = 1 \/ n - 1 \in Known

\* store_path, with its guard against a collected output
Bootable(n) == n \in Linked /\ link[n] \in store

Pinned(b) == \E n \in Linked : link[n] = b

\* May discriminate say that no VM runs?  Not where a live one has its records:
\* whatever the manager answers it is running, starting, stopping or failed.
\* Without them an active unit, and any unit of a silent manager, reads built.
ReadsResting == vm = NoBuild \/ ~onRecord

-----------------------------------------------------------------------------
(* start: evaluate_and_build, then append, then the boot.                  *)

Done == pc' = "idle" /\ num' = 0 /\ build' = NoBuild /\ lock' = NoLock /\ rows' = {}

\* `nix build --no-link` roots nothing.  What the current generation already
\* pins is not appended again.
Build(b, l) ==
    /\ pc = "idle"
    /\ store' = store \cup {b}
    /\ build' = b /\ lock' = l
    /\ pc' = IF current # 0 /\ Bootable(current) /\ link[current] = b
             THEN "boot" ELSE "append"
    /\ UNCHANGED <<files, current, running, unit, num, rows, used>>

\* --no-rebuild boots current's output, --generation a retained one's.
StartRetained(n) ==
    /\ pc = "idle"
    /\ Bootable(n)
    /\ build' = link[n]
    /\ pc' = "boot"
    /\ UNCHANGED <<store, files, current, running, unit, num, lock, rows, used>>

\* append allocates the number and publishes the snapshot.  A failed publish
\* has or has not put the file in place: the directory flush comes last.
PublishSnapshot ==
    /\ pc = "append"
    /\ \E n \in Numbers :
          /\ IsNext(n)
          /\ \/ /\ snap' = [snap EXCEPT ![n] = lock]
                /\ num' = n
                /\ pc' = "digest"
                /\ UNCHANGED <<build, lock, rows>>
             \/ /\ snap' \in {snap, [snap EXCEPT ![n] = lock]}
                /\ Done
    /\ UNCHANGED <<store, link, meta, current, running, unit, used>>

\* Mutant: the seed record's empty digest is never replaced.
SeedRecord == [store_path |-> build, lock_digest |-> Digest(NoLock)]

\* The record's digest is taken of the published snapshot.
Record == [store_path |-> build, lock_digest |-> Digest(snap[num])]

\* A digest that fails removes the snapshot again.
PublishMetadata ==
    /\ pc = "digest"
    /\ LET placed == [meta EXCEPT ![num] = Record]
       IN \/ /\ meta' = placed
             /\ pc' = "register"
             /\ UNCHANGED <<snap, num, build, lock, rows>>
          \/ /\ meta' \in {meta, placed}
             /\ Done
             /\ UNCHANGED snap
          \/ /\ snap' \in {snap, [snap EXCEPT ![num] = NoLock]}
             /\ Done
             /\ UNCHANGED meta
    /\ UNCHANGED <<store, link, current, running, unit, used>>

\* register_root, and the best-effort undo when it fails: a path collected
\* since the build cannot be realised.
RegisterRoot ==
    /\ pc = "register"
    /\ \/ /\ build \in store
          /\ link' = [link EXCEPT ![num] = build]
          /\ used' = used \cup {num}
          /\ pc' = "point"
          /\ UNCHANGED <<meta, snap, args>>
       \/ /\ meta' \in {meta, [meta EXCEPT ![num] = NoMeta]}
          /\ snap' \in {snap, [snap EXCEPT ![num] = NoLock]}
          /\ Done
          /\ UNCHANGED <<link, used>>
    /\ UNCHANGED <<store, current, running, unit>>

\* set_current: an error is reported before or after the rename took effect.
PointAt ==
    /\ pc = "point"
    /\ \/ current' = num /\ pc' = "boot" /\ UNCHANGED args
       \/ current' \in {current, num} /\ Done
    /\ UNCHANGED <<store, files, running, unit, used>>

NoUnit == vm' = NoBuild /\ onRecord' = FALSE /\ orphan' = FALSE

\* launch writes running-build.  A start that finds its VM running goes no
\* further; --rebuild stops it first; one whose VM reads as resting or, with a
\* manager that does not answer, as failed goes on beside it.
WriteRunning ==
    /\ pc = "boot"
    /\ \/ /\ running' = build /\ pc' = "launch"
          /\ UNCHANGED args
          /\ UNCHANGED unit \/ (lock # NoLock /\ NoUnit)
       \/ /\ Done
          /\ UNCHANGED <<running, unit>>
    /\ UNCHANGED <<store, files, current, used>>

\* execute_runner submits the unit, which is refused beside another of its name.
Launch ==
    /\ pc = "launch"
    /\ \/ /\ vm = NoBuild
          /\ vm' = build /\ onRecord' = FALSE /\ orphan' = FALSE
          /\ pc' = "wait"
          /\ UNCHANGED args
       \/ Done /\ UNCHANGED unit
    /\ UNCHANGED <<store, files, current, running, used>>

\* The supervisor writes vm.pid and boot.json.
Records ==
    /\ vm # NoBuild /\ ~onRecord
    /\ onRecord' = TRUE
    /\ UNCHANGED <<store, files, current, running, vm, orphan, pc, args, used>>

\* The launcher goes: with the guest's answer, which comes behind the records,
\* or with an error.
Waited ==
    /\ pc = "wait"
    /\ orphan' = (orphan \/ (vm # NoBuild /\ ~onRecord))
    /\ Done
    /\ UNCHANGED <<store, files, current, running, vm, onRecord, used>>

-----------------------------------------------------------------------------
(* prune, activate, rollback.                                              *)

\* list rows, oldest first, that are among the k newest
Newest(k) == {n \in Known : Cardinality({m \in Known : m > n}) < k}

\* Mutant: --keep makes no exception for current.
SelectAny == {Known \ Newest(k) : k \in 0..MaxNumber}

\* select: --keep k, or --older-than over the records with a readable age.
\* Ages are wall-clock times, so any set of recorded rows may be old enough.
Select ==
    LET candidates == Known \ {current}
    IN {candidates \ Newest(k) : k \in 0..MaxNumber}
          \cup SUBSET {n \in candidates : meta[n] # NoMeta}

\* Mutant: the guard asks about current instead of the boot record.
RefusesCurrentOnly(sel, resting) == ~resting /\ current \in sel

\* The guard reads the boot record, never current, and that only of a VM that
\* does not read as resting.
RefusesPrune(sel, resting) ==
    ~resting /\ running # NoBuild /\ \E n \in sel : link[n] = running

Prune ==
    /\ pc = "idle"
    /\ \E sel \in Select, resting \in {FALSE} \cup (IF ReadsResting THEN {TRUE} ELSE {}) :
          /\ sel # {} /\ ~RefusesPrune(sel, resting)
          /\ rows' = sel
    /\ pc' = "unlink"
    /\ UNCHANGED <<store, files, current, running, unit, num, build, lock, used>>

\* Mutant: the root link goes last.
RemoveRootLast(n, k) ==
    /\ meta' = IF k >= 1 THEN [meta EXCEPT ![n] = NoMeta] ELSE meta
    /\ snap' = IF k >= 2 THEN [snap EXCEPT ![n] = NoLock] ELSE snap
    /\ link' = IF k = 3 THEN [link EXCEPT ![n] = NoBuild] ELSE link

\* What unlink has removed of generation n after its first k removals
RemoveRootFirst(n, k) ==
    /\ link' = IF k >= 1 THEN [link EXCEPT ![n] = NoBuild] ELSE link
    /\ meta' = IF k >= 2 THEN [meta EXCEPT ![n] = NoMeta] ELSE meta
    /\ snap' = IF k = 3 THEN [snap EXCEPT ![n] = NoLock] ELSE snap

\* unlink of the oldest selected row.  Cut short, it ends the verb.
Unlink ==
    /\ pc = "unlink"
    /\ \E n \in rows, k \in 0..3 :
          /\ \A m \in rows : n <= m
          /\ RemoveRootFirst(n, k)
          /\ IF k = 3 /\ rows # {n}
             THEN rows' = rows \ {n} /\ UNCHANGED <<pc, num, build, lock>>
             ELSE Done
    /\ UNCHANGED <<store, current, running, unit, used>>

Activate(n) ==
    /\ pc = "idle" /\ Bootable(n)
    /\ current' = n
    /\ UNCHANGED <<store, files, running, unit, pc, args, used>>

\* The newest bootable generation before current
Rollback ==
    /\ current # 0
    /\ \E n \in Numbers :
          /\ n < current
          /\ \A m \in Numbers : m < current /\ Bootable(m) => m <= n
          /\ Activate(n)

-----------------------------------------------------------------------------
(* destroy, the collector, the end of a VM, a writer's death.              *)

\* A VM that does not read as resting is stopped and judged dead before the
\* state tree goes; one that does boots on.  Torn, any part of the tree is left.
Destroy ==
    /\ pc = "idle"
    /\ NoUnit \/ (ReadsResting /\ UNCHANGED unit)
    /\ \/ /\ link' = [n \in Numbers |-> NoBuild]
          /\ meta' = [n \in Numbers |-> NoMeta]
          /\ snap' = [n \in Numbers |-> NoLock]
          /\ current' = 0 /\ running' = NoBuild /\ used' = {}
       \/ /\ TornDestroy
          /\ \E l, m, s \in SUBSET Numbers :
                /\ link' = [n \in Numbers |-> IF n \in l THEN NoBuild ELSE link[n]]
                /\ meta' = [n \in Numbers |-> IF n \in m THEN NoMeta ELSE meta[n]]
                /\ snap' = [n \in Numbers |-> IF n \in s THEN NoLock ELSE snap[n]]
          /\ current' \in {current, 0} /\ running' \in {running, NoBuild}
          /\ UNCHANGED used
    /\ UNCHANGED <<store, pc, args>>

\* viv gc, or any other nix-store --gc: no lock, and only what no root pins.
Collect(b) ==
    /\ b \in store /\ ~Pinned(b)
    /\ store' = store \ {b}
    /\ UNCHANGED <<files, current, running, unit, pc, args, used>>

VmEnds ==
    /\ vm # NoBuild
    /\ NoUnit
    /\ UNCHANGED <<store, files, current, running, pc, args, used>>

\* Interrupted or killed: the flock goes with the process.
Crash ==
    /\ pc \notin {"idle", "wait"}
    /\ Done
    /\ UNCHANGED <<store, files, current, running, unit, used>>

Next ==
    \/ \E b \in Builds, l \in Locks : Build(b, l)
    \/ \E n \in Numbers : StartRetained(n) \/ Activate(n)
    \/ PublishSnapshot \/ PublishMetadata \/ RegisterRoot \/ PointAt
    \/ WriteRunning \/ Launch \/ Records \/ Waited
    \/ Prune \/ Unlink \/ Rollback \/ Destroy
    \/ \E b \in Builds : Collect(b)
    \/ VmEnds \/ Crash

Spec == Init /\ [][Next]_vars

-----------------------------------------------------------------------------
(* Properties.                                                             *)

\* `current` always names a generation that can be booted: no crash between
\* append's steps, no prune and no collection leaves it dangling.
CurrentIsBootable == current # 0 => Bootable(current)

\* No unlabeled root (append's order, unlink's order): a root link has its
\* record, the record names the link's build, and its digest is the digest
\* of the lock snapshot retained beside it.
RootsAreLabelled ==
    \A n \in Linked : meta[n] = [store_path |-> link[n], lock_digest |-> Digest(snap[n])]

\* The closure of a VM whose launcher stayed until its records were written, and
\* which running-build names, stays in the store whatever is pruned, activated,
\* destroyed and collected while it runs (ADR-0085).  Of an orphan it may go: the
\* guards of prune and destroy read the records it does not have yet.
ClosureHeld == vm # NoBuild /\ ~orphan /\ running = vm => vm \in store

\* A retained generation never changes the build it names.
HistoryIsImmutable ==
    [][\A n \in Linked : link'[n] \in {link[n], NoBuild}]_vars

\* The files implement the profile's promise.
Abstract == INSTANCE Profile WITH
    entries <- {<<n, link[n]>> : n \in Linked}, cur <- current
ImplementsProfile == Abstract!Spec

\* spec/11: generation numbers are monotonic and never reused.
NumbersNeverReused == [][\A n \in Numbers : n \in used' \ used => \A m \in used : m < n]_vars
=============================================================================
