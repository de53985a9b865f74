----------------------------- MODULE Volumes -----------------------------
(***************************************************************************)
(* A target's persistent volumes and the reclaims of its running guest.    *)
(*                                                                         *)
(* Volume images are declared by the manifest and by the pieces it         *)
(* composes, created by `start` (the supervisor's provision_volumes),      *)
(* listed against the volume record the last evaluation wrote, removed by  *)
(* `volume prune`, and trimmed, with the guest's memory, by `trim`.  Every *)
(* command surveys before it takes the target lock; the user edits         *)
(* manifest and pieces at any time.  A process runs one command.           *)
(***************************************************************************)
EXTENDS Naturals, FiniteSets

CONSTANTS Procs, Nobody,
          Pieces,      \* pieces (and images, and extends) a manifest may compose
          Names,       \* volume names a layer may declare
          Reserved,    \* the home and store volumes, which nothing declares
          MaxTweaks    \* bound on the user's edits

ASSUME VolumesAssumption ==
    /\ Nobody \notin Procs
    /\ Names \cap Reserved = {}
    /\ MaxTweaks \in Nat

VARIABLES
    layers,      \* [manifest, pieces, of]: what is declared, and where
    record,      \* volumes.toml: the composition and volumes last evaluated
    image,       \* <name>.img in the volume directory
    staging,     \* <name>.img.staging beside it
    machine,     \* the running guest, its images, and did its viv see it boot?
    balloon,     \* the process whose balloon the guest is squeezed by
    holder,      \* the per-target lock
    act,         \* what each process is doing
    tweaks       \* the user's edits so far

volVars == <<layers, record, image, staging, machine, balloon, holder, act, tweaks>>

All == Names \cup Reserved

ByPieces(l) == UNION {l.of[q] : q \in l.pieces}

\* What the layers in force declare
Declared(l) == l.manifest \cup ByPieces(l)

Waiting == [pc |-> "idle", kind |-> "none", layers |-> {}, comp |-> {},
            todo |-> {}, spared |-> {}, since |-> 0, sure |-> FALSE]

NoRecord == [comp |-> {"never"}, manifest |-> {}, others |-> {}]

\* Before the first evaluation, or after any history of evaluations, boots and
\* prunes: the record is the last evaluation's, the images those that remain.
VolInit ==
    /\ layers \in [manifest : SUBSET Names, pieces : SUBSET Pieces,
                   of : [Pieces -> SUBSET Names]]
    /\ \/ /\ record = NoRecord
          /\ image = [n \in All |-> "none"]
       \/ /\ record \in [comp : SUBSET Pieces, manifest : SUBSET Names, others : SUBSET Names]
          /\ \E kept \in SUBSET Names :
               image = [n \in All |-> IF n \in kept \cup Reserved THEN "ready" ELSE "none"]
    /\ staging = [n \in All |-> "none"]
    /\ machine = [on |-> FALSE, attached |-> {}, guarded |-> TRUE]
    /\ balloon = Nobody /\ holder = Nobody
    /\ act = [p \in Procs |-> Waiting]
    /\ tweaks = 0

(***************************************************************************)
(* Helpers                                                                 *)
(***************************************************************************)
VolAt(p, pc) == act[p].pc = pc
Become(p, rec) == act' = [act EXCEPT ![p] = rec]
Release(p) == holder' = IF holder = p THEN Nobody ELSE holder
Quit(p, pc) == Become(p, [act[p] EXCEPT !.pc = pc]) /\ Release(p)
disk == <<record, image, staging>>
guest == <<machine, balloon>>
user == <<layers, tweaks>>

\* TargetLock::acquire: refused at once when somebody holds it.
TakeLock(p, next) ==
    \/ /\ holder = Nobody
       /\ holder' = p
       /\ Become(p, [act[p] EXCEPT !.pc = next])
    \/ /\ holder # Nobody
       /\ Become(p, [act[p] EXCEPT !.pc = "failed"])
       /\ UNCHANGED holder

\* Mutant: The record alone decides what is live.
LiveByRecord(r, manifest, comp) == r.manifest \cup r.others

\* Record::live: what the manifest declares now, and what the record remembers
\* of other layers while the composition it was written for is unchanged.
Live(r, manifest, comp) == manifest \cup IF r.comp = comp THEN r.others ELSE {}

\* volume::enumerate: an image that is neither reserved nor live is an orphan.
Orphans(manifest, comp) ==
    {n \in All : image[n] # "none"} \ (Reserved \cup Live(record, manifest, comp))

(***************************************************************************)
(* start                                                                   *)
(***************************************************************************)

\* resolve_manifest_for_launch reads the manifest before anything else.
ResolveStart(p) ==
    /\ VolAt(p, "idle")
    /\ Become(p, [Waiting EXCEPT !.pc = "lock", !.kind = "start",
                    !.layers = layers.manifest, !.comp = layers.pieces])
    /\ UNCHANGED <<disk, guest, holder, user>>

LockCommand(p) ==
    /\ VolAt(p, "lock")
    /\ TakeLock(p, CASE act[p].kind = "start" -> "record"
                     [] act[p].kind = "prune" -> "guard"
                     [] act[p].kind = "memory" -> "running"
                     [] OTHER -> "request")
    /\ UNCHANGED <<disk, guest, user>>

\* A supervisor is provisioning, under its viv's lock or after its viv died
Provisioning == \E q \in Procs : act[q].pc = "provision"

\* evaluate_and_build: the merged declarations become the volume record. A
\* running guest is then left alone, and a unit that still boots refuses the
\* handoff.
WriteRecord(p) ==
    /\ VolAt(p, "record")
    /\ LET others == UNION {layers.of[q] : q \in act[p].comp}
           volumes == act[p].layers \cup others \cup Reserved IN
       /\ record' = [comp |-> act[p].comp, manifest |-> act[p].layers, others |-> others]
       /\ IF machine.on \/ Provisioning THEN Quit(p, IF machine.on THEN "done" ELSE "failed")
          ELSE /\ Become(p, [act[p] EXCEPT !.pc = "provision", !.todo = volumes,
                                           !.spared = volumes])
               /\ UNCHANGED holder
    /\ UNCHANGED <<image, staging, guest, user>>

\* Mutant: truncate and mkfs work on the final name.
ProvisionInPlace(p) ==
    /\ VolAt(p, "provision")
    /\ \E n \in act[p].todo :
         \/ /\ image[n] = "none"
            /\ image' = [image EXCEPT ![n] = "bare"]
            /\ UNCHANGED act
         \/ /\ image[n] = "bare"
            /\ image' = [image EXCEPT ![n] = "ready"]
            /\ UNCHANGED act
         \/ /\ image[n] = "ready"
            /\ Become(p, [act[p] EXCEPT !.todo = @ \ {n}])
            /\ UNCHANGED image
    /\ UNCHANGED <<record, staging, guest, holder, user>>

\* provision_volumes, one image: existence is the whole test; otherwise
\* truncate and mkfs work on the staging sibling, rename publishes it.
Provision(p) ==
    /\ VolAt(p, "provision")
    /\ \E n \in act[p].todo :
         \/ /\ image[n] # "none"
            /\ Become(p, [act[p] EXCEPT !.todo = @ \ {n}])
            /\ UNCHANGED <<image, staging>>
         \/ /\ image[n] = "none" /\ staging[n] = "none"
            /\ staging' = [staging EXCEPT ![n] = "bare"]
            /\ UNCHANGED <<image, act>>
         \/ /\ image[n] = "none" /\ staging[n] = "bare"
            /\ staging' = [staging EXCEPT ![n] = "ready"]
            /\ UNCHANGED <<image, act>>
         \/ /\ image[n] = "none" /\ staging[n] = "ready"
            /\ image' = [image EXCEPT ![n] = "ready"]
            /\ staging' = [staging EXCEPT ![n] = "none"]
            /\ Become(p, [act[p] EXCEPT !.todo = @ \ {n}])
    /\ UNCHANGED <<record, guest, holder, user>>

\* The guest boots with every declared image attached.
BootGuest(p) ==
    /\ VolAt(p, "provision") /\ act[p].todo = {}
    /\ machine' = [on |-> TRUE, attached |-> act[p].spared, guarded |-> holder = p]
    /\ Quit(p, "done")
    /\ UNCHANGED <<disk, balloon, user>>

(***************************************************************************)
(* volume prune                                                            *)
(***************************************************************************)

\* survey, before the lock is taken: the manifest is resolved,
SurveyPrune(p) ==
    /\ VolAt(p, "idle")
    /\ Become(p, [Waiting EXCEPT !.pc = "remember", !.kind = "prune", !.since = tweaks,
                    !.layers = layers.manifest, !.comp = layers.pieces])
    /\ UNCHANGED <<disk, guest, holder, user>>

\* then the record is read, and says what is live.  `sure' remembers whether it
\* was written for the layers in force.
SurveyRecord(p) ==
    /\ VolAt(p, "remember")
    /\ Become(p, [act[p] EXCEPT !.pc = "enumerate",
                    !.spared = Reserved \cup Live(record, act[p].layers, act[p].comp),
                    !.sure = record.comp = layers.pieces /\ ByPieces(layers) \subseteq record.others])
    /\ UNCHANGED <<disk, guest, holder, user>>

\* then the images on disk: those of no row are the candidates.
SurveyImages(p) ==
    /\ VolAt(p, "enumerate")
    /\ Become(p, [act[p] EXCEPT !.pc = "lock",
                    !.todo = {n \in All : image[n] # "none"} \ act[p].spared])
    /\ UNCHANGED <<disk, guest, holder, user>>

\* discriminate under the lock: a running guest refuses the prune. Without --yes
\* the user is asked, and may say no.
GuardPrune(p) ==
    /\ VolAt(p, "guard")
    /\ \/ machine.on /\ Quit(p, "failed")
       \/ ~machine.on /\ Quit(p, "done")
       \/ /\ ~machine.on /\ act[p].todo # {}
          /\ Become(p, [act[p] EXCEPT !.pc = "remove"])
          /\ UNCHANGED holder
    /\ UNCHANGED <<disk, guest, user>>

\* remove_file, candidate by candidate; one that is gone ends the command.
RemoveOne(p) ==
    /\ VolAt(p, "remove")
    /\ \/ /\ act[p].todo = {}
          /\ Quit(p, "done")
          /\ UNCHANGED image
       \/ \E n \in act[p].todo :
            \/ /\ image[n] # "none"
               /\ image' = [image EXCEPT ![n] = "none"]
               /\ Become(p, [act[p] EXCEPT !.todo = @ \ {n}])
               /\ UNCHANGED holder
            \/ image[n] = "none" /\ Quit(p, "failed") /\ UNCHANGED image
    /\ UNCHANGED <<record, staging, guest, user>>

(***************************************************************************)
(* trim: the memory rung, then the volume rung                             *)
(***************************************************************************)

BeginTrim(p) ==
    /\ VolAt(p, "idle")
    /\ Become(p, [Waiting EXCEPT !.pc = "lock", !.kind = "memory"])
    /\ UNCHANGED <<disk, guest, holder, user>>

\* memory_rung: refused unless running; inflate only when the target leaves
\* something to take.
Inflate(p) ==
    /\ VolAt(p, "running")
    /\ \/ /\ machine.on
          /\ balloon' = p
          /\ Become(p, [act[p] EXCEPT !.pc = "settle"])
          /\ UNCHANGED holder
       \/ /\ machine.on
          /\ Become(p, [act[p] EXCEPT !.pc = "rung"]) /\ UNCHANGED <<balloon, holder>>
       \/ Quit(p, "warned") /\ UNCHANGED balloon
    /\ UNCHANGED <<disk, machine, user>>

\* The settle ends, by agreement or by deadline, and the same operation restores
\* the headroom; the backend may refuse or be gone.
Deflate(p) ==
    /\ VolAt(p, "settle")
    /\ \/ /\ machine.on
          /\ balloon' = Nobody
          /\ Become(p, [act[p] EXCEPT !.pc = "rung"])
          /\ UNCHANGED holder
       \/ Quit(p, "warned") /\ UNCHANGED balloon
    /\ UNCHANGED <<disk, machine, user>>

\* The rung is over: the lock is dropped, and the volume rung runs whether the
\* memory rung failed or not.
NextRung(p) ==
    /\ VolAt(p, "rung") \/ VolAt(p, "warned")
    /\ Become(p, [act[p] EXCEPT !.pc = "lock", !.kind = "volumes", !.layers = layers.manifest,
                    !.todo = {n \in All : image[n] # "none"}
                             \ Orphans(layers.manifest, layers.pieces)])
    /\ Release(p)
    /\ UNCHANGED <<disk, guest, user>>

\* trim_rows under the lock: running, measured, requested, measured again.
TrimVolumes(p) ==
    /\ VolAt(p, "request")
    /\ Quit(p, IF machine.on THEN "done" ELSE "failed")
    /\ UNCHANGED <<disk, guest, user>>

(***************************************************************************)
(* The environment                                                         *)
(***************************************************************************)

\* `viv stop`, or the guest powering itself off: neither takes the lock.
VmStops ==
    /\ machine.on
    /\ machine' = [on |-> FALSE, attached |-> {}, guarded |-> TRUE]
    /\ balloon' = Nobody
    /\ UNCHANGED <<disk, holder, act, user>>

\* A process dies, or one of its steps fails: the lock goes with it.  The
\* supervisor of a start that died after the handoff goes on without it.
Perish(p) ==
    /\ \/ /\ act[p].pc \in {"lock", "remember", "enumerate", "record", "provision", "guard", "remove", "running",
                            "settle", "rung", "request"}
          /\ Quit(p, "dead")
       \/ /\ VolAt(p, "provision") /\ holder = p
          /\ Release(p) /\ UNCHANGED act
    /\ UNCHANGED <<disk, guest, user>>

EditLayers ==
    /\ tweaks < MaxTweaks
    /\ tweaks' = tweaks + 1
    /\ \/ \E n \in Names : layers' = [layers EXCEPT !.manifest =
                                        IF n \in @ THEN @ \ {n} ELSE @ \cup {n}]
       \/ \E q \in Pieces : layers' = [layers EXCEPT !.pieces =
                                        IF q \in @ THEN @ \ {q} ELSE @ \cup {q}]
       \/ \E q \in Pieces, n \in Names : layers' = [layers EXCEPT !.of[q] =
                                        IF n \in @ THEN @ \ {n} ELSE @ \cup {n}]
    /\ UNCHANGED <<disk, guest, holder, act>>

VolStep(p) ==
    \/ ResolveStart(p) \/ LockCommand(p) \/ WriteRecord(p) \/ Provision(p) \/ BootGuest(p)
    \/ SurveyPrune(p) \/ SurveyRecord(p) \/ SurveyImages(p) \/ GuardPrune(p) \/ RemoveOne(p)
    \/ BeginTrim(p) \/ Inflate(p) \/ Deflate(p) \/ NextRung(p) \/ TrimVolumes(p)
    \/ Perish(p)

VolNext ==
    \/ \E p \in Procs : VolStep(p)
    \/ VmStops
    \/ EditLayers

VolSpec == VolInit /\ [][VolNext]_volVars
----------------------------------------------------------------------------
VolTypeOK ==
    /\ record.comp \subseteq Pieces \cup {"never"}
    /\ record.manifest \subseteq Names /\ record.others \subseteq Names
    /\ image \in [All -> {"none", "bare", "ready"}]
    /\ staging \in [All -> {"none", "bare", "ready"}]
    /\ machine \in [on : BOOLEAN, attached : SUBSET All, guarded : BOOLEAN]
    /\ balloon \in Procs \cup {Nobody} /\ holder \in Procs \cup {Nobody}
    /\ \A p \in Procs : act[p].todo \subseteq All

\* Whatever dies where, the final name of a volume only ever holds a file
\* system: a boot that finds the image may attach it (provision_volumes).
ImagesAreComplete == \A n \in All : image[n] # "bare"

\* No prune removes an image under a running guest, however the starts, the
\* stops and the unlocked surveys interleave (prune's check under the lock).  A
\* guest whose start died while it booted is not covered: no lock and no record
\* tells the prune of it.
AttachedIsThere == machine.on /\ machine.guarded => \A n \in machine.attached : image[n] = "ready"

\* At the moment a prune removes an image, the image is not reserved, and a layer
\* in force declares it only if the user edited a layer since the prune began, or
\* the record it read was of other layers: whatever was started, recorded and
\* stopped between its three unlocked reads, its lock and its removals.  In
\* these two cases the removal is false, not late (volumes.rs, Record::live).
PruneSparesKnown ==
    [][\A p \in Procs, n \in All :
         act[p].pc = "remove" /\ image[n] # "none" /\ image'[n] = "none" /\ act'[p] # act[p] =>
            /\ n \notin Reserved
            /\ n \in Declared(layers) => act[p].since # tweaks \/ ~act[p].sure]_volVars

\* One reclaim at a time: while a memory trim waits for its balloon to settle,
\* the balloon of the running guest is its own.
OneReclaim == \A p \in Procs : act[p].pc = "settle" /\ machine.on => balloon = p

\* A squeezed guest has a trim that will restore it: only a trim that died, or
\* whose deflate was refused, leaves the balloon behind.
BalloonIsRestored ==
    balloon # Nobody =>
        \/ act[balloon].pc \in {"settle", "dead", "warned"}
        \/ act[balloon].kind = "volumes"

\* The promises of volumes and reclaims at every state: the four above.
VolumesSafe ==
    VolTypeOK /\ ImagesAreComplete /\ AttachedIsThere /\ OneReclaim /\ BalloonIsRestored
=============================================================================
