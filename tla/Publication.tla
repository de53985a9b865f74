--------------------------- MODULE Publication ---------------------------
(***************************************************************************)
(* How a target's pin and its generated tree are read and written by the   *)
(* commands that evaluate it.                                              *)
(*                                                                         *)
(* `viv config eval` and `viv config sources` (Readers) evaluate without   *)
(* the target lock; `viv start` (Starters) and `viv update` (Updaters)     *)
(* hold it.  All of them share one durable owned lock file and one         *)
(* published tree under the cache root; a team may commit an override lock *)
(* beside the manifest at any time.                                        *)
(*                                                                         *)
(* A lock is abstracted to the revision its nodes pin, whether it still    *)
(* carries the dead `vivarium` node, whether its baseline is sound (the    *)
(* defects validate_composed refuses), and whether it is sound without     *)
(* that node.  Revision 0 is the one a retained lock was found with.       *)
(***************************************************************************)
EXTENDS Naturals, FiniteSets

CONSTANTS Readers, Starters, Updaters,
          NoPin,       \* no lock file at this path
          Free,        \* nobody holds the target lock
          MaxHead      \* bound on upstream's revisions

PinnedLock == [pin : 0..MaxHead, dead : BOOLEAN, sound : BOOLEAN, rest : BOOLEAN]

ASSUME PublicationAssumption ==
    /\ MaxHead \in Nat \ {0}
    /\ NoPin \notin PinnedLock
    /\ Readers \cap Starters = {} /\ Readers \cap Updaters = {}
    /\ Starters \cap Updaters = {}
    /\ Free \notin Readers \cup Starters \cup Updaters

VARIABLES
    owned,       \* the owned lock under the data root
    override,    \* the team's lock beside the manifest
    tree,        \* the flake.lock inside the published tree
    head,        \* upstream's newest revision
    target,      \* the holder of the per-target lock
    cmd          \* what each command has read and done so far

pubVars == <<owned, override, tree, head, target, cmd>>

Commands == Readers \cup Starters \cup Updaters
Locking  == Starters \cup Updaters

LockFile == PinnedLock \cup {NoPin}

Fresh == [pc |-> "idle", eff |-> "none", shed |-> FALSE, bytes |-> NoPin,
          seen |-> NoPin, snap |-> NoPin, built |-> NoPin, alone |-> FALSE, still |-> FALSE]

\* Locks nobody has checked: kept from an earlier version, or a team's
Retained == {l \in PinnedLock : l.pin = 0 /\ (~l.dead => l.rest = l.sound)}

PubInit ==
    /\ owned \in {NoPin} \cup Retained
    /\ override \in {NoPin} \cup Retained
    /\ tree = NoPin
    /\ head = 1
    /\ target = Free
    /\ cmd = [c \in Commands |-> Fresh]

(***************************************************************************)
(* Helpers                                                                 *)
(***************************************************************************)

\* lock::shed_vivarium: the root edge, the node and all that only it reached are
\* removed, the other nodes kept as they are.  A baseline whose `follows' led
\* through the node is then missing, and a split that did is not resolved any more.
Shed(lock) == [lock EXCEPT !.dead = FALSE, !.sound = lock.rest]

\* A lock nix wrote: the dead node is in nothing it is given.
Written(sound) == [pin |-> head, dead |-> FALSE, sound |-> sound, rest |-> sound]

\* composed_lock_failure: the file is there and its baseline is neither missing
\* nor split.
Composed(lock) == lock # NoPin /\ lock.sound

\* GeneratedFlakePaths::select_lock: the override wins, then the owned lock.
SelectLock == IF override # NoPin THEN "override"
              ELSE IF owned # NoPin THEN "existing" ELSE "missing"

PubAt(c, pc) == cmd[c].pc = pc
Goto(c, pc) == cmd' = [cmd EXCEPT ![c].pc = pc]
Fails(c) == cmd' = [cmd EXCEPT ![c].pc = "failed"]

\* The lock guard is dropped when the command returns, whatever it returns.
Drop(c) == target' = IF target = c THEN Free ELSE target

\* An error path: the command reports it, its staged files are removed.
FailAndDrop(c) == Fails(c) /\ Drop(c) /\ UNCHANGED <<owned, override, tree, head>>

(***************************************************************************)
(* Evaluation: `config eval`, `config sources`, and the first half of      *)
(* `start`                                                                 *)
(***************************************************************************)

\* TargetLock::acquire never waits: a held lock is the contended failure.
Acquire(c, next) ==
    /\ cmd' = [cmd EXCEPT ![c].pc = IF target = Free THEN next ELSE "failed"]
    /\ target' = IF target = Free THEN c ELSE target

Begin(c) ==
    /\ c \in Readers \cup Starters /\ PubAt(c, "idle")
    /\ \/ c \in Readers /\ Goto(c, "resolve") /\ UNCHANGED target
       \/ c \in Starters /\ Acquire(c, "resolve")
    /\ UNCHANGED <<owned, override, tree, head>>

\* ResolvedComposition::resolve decides which lock is in force.
Resolve(c) ==
    /\ c \in Readers \cup Starters /\ PubAt(c, "resolve")
    /\ cmd' = [cmd EXCEPT ![c].pc = "build", ![c].eff = SelectLock]
    /\ UNCHANGED <<owned, override, tree, head, target>>

\* The lock a plan copies at staging time: the file named by the decision,
\* read a second time.
CopiedLock(c) == CASE cmd[c].eff = "override" -> override
                   [] cmd[c].eff = "existing" -> owned
                   [] OTHER -> NoPin

\* GeneratedFlakePlan::build reads the lock in force: a dead override is
\* refused, a dead owned lock is migrated in memory.  `still' remembers that no
\* update replaced the owned lock since.
BuildPlan(c) ==
    /\ c \in Readers \cup Starters /\ PubAt(c, "build")
    /\ \/ /\ cmd[c].eff = "override" /\ override.dead
          /\ FailAndDrop(c)
       \/ /\ ~(cmd[c].eff = "override" /\ override.dead)
          /\ LET shed == cmd[c].eff = "existing" /\ owned.dead IN
             cmd' = [cmd EXCEPT ![c].pc = "stage", ![c].shed = shed, ![c].still = TRUE,
                                ![c].bytes = IF shed THEN Shed(owned) ELSE NoPin]
          /\ UNCHANGED <<owned, override, tree, head, target>>

\* apply_entry for every entry, into a temporary sibling.
StageTree(c) ==
    /\ PubAt(c, "stage")
    /\ \/ /\ cmd' = [cmd EXCEPT ![c].pc = "publish",
                        ![c].bytes = IF cmd[c].shed THEN @ ELSE CopiedLock(c)]
          /\ UNCHANGED <<owned, override, tree, head, target>>
       \/ FailAndDrop(c)

\* publish_directory: rename or EXCHANGE, the tree in place is replaced whole.
\* `alone` remembers that nobody has republished since.
PublishTree(c) ==
    /\ PubAt(c, "publish")
    /\ tree' = cmd[c].bytes
    /\ cmd' = [d \in Commands |->
                 IF d = c THEN [cmd[c] EXCEPT !.pc = IF cmd[c].shed THEN "migrate" ELSE "check",
                                              !.alone = TRUE]
                 ELSE [cmd[d] EXCEPT !.alone = FALSE]]
    /\ UNCHANGED <<owned, override, head, target>>

\* rewrite_owned_lock: a plain rename over whatever the owned lock is by now,
\* ahead of the check of what it writes.
MigrateOwned(c) ==
    /\ PubAt(c, "migrate")
    /\ owned' = cmd[c].bytes
    /\ Goto(c, "check")
    /\ UNCHANGED <<override, tree, head, target>>

\* read_staged_lock and composed_lock_failure, for a lock that already existed.
CheckStaged(c) ==
    /\ PubAt(c, "check")
    /\ \/ /\ cmd[c].eff # "missing" => Composed(tree)
          /\ Goto(c, "evaluate")
          /\ UNCHANGED <<owned, override, tree, head, target>>
       \/ /\ cmd[c].eff # "missing" /\ ~Composed(tree)
          /\ FailAndDrop(c)

\* nix eval: with a lock it may not be updated (--no-update-lock-file), without
\* one nix resolves upstream's head and writes the lock into the tree.
NixEval(c) ==
    /\ PubAt(c, "evaluate")
    /\ \/ /\ tree # NoPin
          /\ cmd' = [cmd EXCEPT ![c].pc = "evaluated", ![c].seen = tree]
          /\ UNCHANGED <<owned, override, tree, head, target>>
       \/ /\ tree = NoPin /\ cmd[c].eff = "missing"
          /\ \E sound \in BOOLEAN :
               /\ tree' = Written(sound)
               /\ cmd' = [cmd EXCEPT ![c].pc = "evaluated", ![c].seen = Written(sound)]
          /\ UNCHANGED <<owned, override, head, target>>
       \/ FailAndDrop(c)

\* Mutant: The created lock is installed without validating it.
ReadUnchecked(c) ==
    /\ PubAt(c, "evaluated")
    /\ \/ /\ cmd[c].eff # "missing"
          /\ Goto(c, "snapshot")
       \/ /\ cmd[c].eff = "missing" /\ tree # NoPin
          /\ cmd' = [cmd EXCEPT ![c].pc = "install", ![c].bytes = tree]
    /\ UNCHANGED <<owned, override, tree, head, target>>

\* persist_created_lock up to its rename: the created lock is read from the
\* shared tree and validated; for any other lock there is nothing to persist.
ReadCreated(c) ==
    /\ PubAt(c, "evaluated")
    /\ \/ /\ cmd[c].eff # "missing"
          /\ Goto(c, "snapshot")
          /\ UNCHANGED <<owned, override, tree, head, target>>
       \/ /\ cmd[c].eff = "missing" /\ Composed(tree)
          /\ cmd' = [cmd EXCEPT ![c].pc = "install", ![c].bytes = tree]
          /\ UNCHANGED <<owned, override, tree, head, target>>
       \/ /\ cmd[c].eff = "missing" /\ ~Composed(tree)
          /\ FailAndDrop(c)

\* Mutant: The first pin is installed with a plain rename.
InstallOver(c) ==
    /\ PubAt(c, "install") /\ c \notin Updaters
    /\ owned' = cmd[c].bytes
    /\ Goto(c, "snapshot")
    /\ UNCHANGED <<override, tree, head, target>>

\* renameat2(NOREPLACE): the first pin is installed once.
InstallFirst(c) ==
    /\ PubAt(c, "install") /\ c \notin Updaters
    /\ \/ /\ owned = NoPin
          /\ owned' = cmd[c].bytes
          /\ cmd' = [cmd EXCEPT ![c].pc = "snapshot", ![c].still = TRUE]
       \/ /\ owned # NoPin
          /\ Goto(c, "winner")
          /\ UNCHANGED owned
    /\ UNCHANGED <<override, tree, head, target>>

\* The loser compares the installed lock with its own.
ReadWinner(c) ==
    /\ PubAt(c, "winner")
    /\ \/ /\ owned = cmd[c].bytes
          /\ cmd' = [cmd EXCEPT ![c].pc = "snapshot", ![c].still = TRUE]
          /\ UNCHANGED <<owned, override, tree, head, target>>
       \/ /\ owned # cmd[c].bytes
          /\ FailAndDrop(c)

\* The bytes evaluate_resolved keeps as lock_snapshot: the tree, read again.
Snapshot(c) ==
    /\ PubAt(c, "snapshot")
    /\ \/ /\ tree = NoPin
          /\ FailAndDrop(c)
       \/ /\ tree # NoPin
          /\ cmd' = [cmd EXCEPT ![c].snap = tree,
                                ![c].pc = IF c \in Starters THEN "nixbuild" ELSE "done"]
          /\ UNCHANGED <<owned, override, tree, head, target>>

\* build_runner: nix builds whatever tree the shared path names by then.
BuildRunner(c) ==
    /\ PubAt(c, "nixbuild")
    /\ \/ /\ tree # NoPin
          /\ cmd' = [cmd EXCEPT ![c].pc = "done", ![c].built = tree]
          /\ Drop(c)
          /\ UNCHANGED <<owned, override, tree, head>>
       \/ FailAndDrop(c)

(***************************************************************************)
(* `viv update`                                                            *)
(***************************************************************************)

\* refuse_override, before the lock is tried.
RefuseOverride(c) ==
    /\ c \in Updaters /\ PubAt(c, "idle")
    /\ Goto(c, IF SelectLock = "override" THEN "failed" ELSE "locking")
    /\ UNCHANGED <<owned, override, tree, head, target>>

\* TargetLock::acquire.
AcquireForUpdate(c) ==
    /\ PubAt(c, "locking")
    /\ Acquire(c, "prepare")
    /\ UNCHANGED <<owned, override, tree, head>>

\* prepare_update_tree: the decision is taken again under the lock; the tree is
\* private, the reference lock a shed copy of the owned one.
PrepareUpdate(c) ==
    /\ PubAt(c, "prepare")
    /\ \/ /\ SelectLock = "override"
          /\ FailAndDrop(c)
       \/ /\ SelectLock # "override"
          /\ cmd' = [cmd EXCEPT ![c].pc = "renix", ![c].eff = SelectLock,
                        ![c].seen = IF owned # NoPin /\ owned.dead THEN Shed(owned) ELSE owned]
          /\ UNCHANGED <<owned, override, tree, head, target>>

\* nix flake update into a private staged file, read back and validated: an
\* unsound one is refused.
NixUpdate(c) ==
    /\ PubAt(c, "renix")
    /\ \/ /\ cmd' = [cmd EXCEPT ![c].pc = "install", ![c].bytes = Written(TRUE)]
          /\ UNCHANGED <<owned, override, tree, head, target>>
       \/ FailAndDrop(c)

\* persist_updated_lock: a rename over the owned lock.
InstallUpdate(c) ==
    /\ c \in Updaters /\ PubAt(c, "install")
    /\ owned' = cmd[c].bytes
    /\ cmd' = [d \in Commands |-> IF d = c THEN [cmd[c] EXCEPT !.pc = "done"]
                                   ELSE [cmd[d] EXCEPT !.still = FALSE]]
    /\ Drop(c)
    /\ UNCHANGED <<override, tree, head>>

(***************************************************************************)
(* The environment                                                         *)
(***************************************************************************)

\* A command dies anywhere; the kernel releases its flock.
Die(c) ==
    /\ cmd[c].pc \notin {"idle", "done", "failed"}
    /\ FailAndDrop(c)

UpstreamMoves ==
    /\ head < MaxHead
    /\ head' = head + 1
    /\ UNCHANGED <<owned, override, tree, target, cmd>>

TeamCommitsOverride ==
    /\ override = NoPin
    /\ override' \in Retained
    /\ UNCHANGED <<owned, tree, head, target, cmd>>

CommandStep(c) ==
    \/ Begin(c) \/ Resolve(c) \/ BuildPlan(c) \/ StageTree(c) \/ PublishTree(c)
    \/ MigrateOwned(c) \/ CheckStaged(c) \/ NixEval(c) \/ ReadCreated(c)
    \/ InstallFirst(c) \/ ReadWinner(c) \/ Snapshot(c) \/ BuildRunner(c)
    \/ RefuseOverride(c) \/ AcquireForUpdate(c) \/ PrepareUpdate(c)
    \/ NixUpdate(c) \/ InstallUpdate(c)

PubNext ==
    \/ \E c \in Commands : CommandStep(c) \/ Die(c)
    \/ UpstreamMoves
    \/ TeamCommitsOverride

PubSpec == PubInit /\ [][PubNext]_pubVars
----------------------------------------------------------------------------
PubTypeOK ==
    /\ owned \in LockFile /\ override \in LockFile /\ tree \in LockFile
    /\ head \in 0..MaxHead
    /\ target \in Locking \cup {Free}
    /\ cmd \in [Commands ->
         [pc : {"idle", "resolve", "build", "stage", "publish", "migrate", "check",
                "evaluate", "evaluated", "install", "winner", "snapshot", "nixbuild",
                "locking", "prepare", "renix", "done", "failed"},
          eff : {"none", "override", "existing", "missing"}, shed : BOOLEAN,
          bytes : LockFile, seen : LockFile, snap : LockFile, built : LockFile,
          alone : BOOLEAN, still : BOOLEAN]]

\* An installed pin is never lost.  Only an update that holds the target lock
\* moves it (ADR-0059); the migration changes it by the shed subtree alone, also
\* when others migrate beside it, unless an update replaced the lock between the
\* migration's read and its rename: then the rename takes the update back
\* (materialize.rs, "race-benign").  A first pin that loses changes nothing.
OnlyUpdatesMove ==
    owned # NoPin /\ owned' # owned =>
        \/ \E c \in Updaters : cmd[c].pc = "install" /\ target = c /\ owned' = cmd[c].bytes
        \/ \E c \in Commands \ Updaters :
              cmd[c].pc = "migrate" /\ (cmd[c].still => owned' = Shed(owned))

\* Once the dead `vivarium` node is gone from the owned lock no interleaving of
\* migrations, first pins and updates brings it back (ADR-0102).
DeadNodeStaysShed == owned # NoPin /\ ~owned.dead => owned' # NoPin /\ ~owned'.dead

\* What no step of any command may do to the durable lock: lose it, move it
\* outside an update, or bring the dead node back.
PinIsKept == [][OnlyUpdatesMove /\ DeadNodeStaysShed]_pubVars

\* Whatever is written beside it, a lock with a missing or split baseline is
\* never installed as a first pin or by an update, which both check what they
\* rename (composed_lock_failure).  A retained lock, of revision 0, may be
\* unsound, and its migration is written ahead of the check.
OwnedIsSound == owned # NoPin /\ owned.pin # 0 => owned.sound

\* A command that evaluated keeps, as the lock of its generation, the lock it
\* evaluated, unless another command republished the shared tree meanwhile; and
\* a start then also builds from that lock (read_staged_lock, build_runner).
SnapshotIsEvaluated ==
    \A c \in Commands : cmd[c].pc = "done" /\ cmd[c].alone =>
        /\ cmd[c].snap = cmd[c].seen
        /\ c \in Starters => cmd[c].built = cmd[c].seen

\* A command that says it created the pin evaluated the very lock that is
\* installed, when nobody republished the tree below it and no update moved the
\* pin since it looked.
CreatedIsInstalled ==
    \A c \in Readers \cup Starters :
        cmd[c].pc = "done" /\ cmd[c].eff = "missing" /\ cmd[c].alone /\ cmd[c].still =>
            owned = cmd[c].seen

\* The promises of the shared pin and tree at every state: the three above.
PublicationSafe == PubTypeOK /\ OwnedIsSound /\ SnapshotIsEvaluated /\ CreatedIsInstalled
=============================================================================
