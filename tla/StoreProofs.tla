----------------------------- MODULE StoreProofs -----------------------------
(***************************************************************************)
(* Theorems of what a target keeps between commands, for any number of     *)
(* commands, manifests, pieces and volume names, whatever the user edits   *)
(* and whoever dies: the volumes, the pin and the generated tree, and the  *)
(* manifest index.                                                         *)
(***************************************************************************)
EXTENDS Publication, Ownership, Volumes, FiniteSetTheorems, TLAPS

-----------------------------------------------------------------------------
(* Volumes: what a start, a prune and a trim of one target may do to its   *)
(* images and its guest.                                                   *)

\* The steps a command only takes while it holds the target lock
Guarded == {"record", "guard", "remove", "running", "settle", "rung", "request"}

\* What a process is doing
ActType == [pc : Guarded \cup {"idle", "remember", "enumerate", "lock", "provision", "warned", "done", "failed", "dead"},
            kind : {"none", "start", "prune", "memory", "volumes"},
            layers : SUBSET Names, comp : SUBSET Pieces,
            todo : SUBSET All, spared : SUBSET All, since : Nat, sure : BOOLEAN]

LayersType == [manifest : SUBSET Names, pieces : SUBSET Pieces, of : [Pieces -> SUBSET Names]]

RecordType == [comp : SUBSET (Pieces \cup {"never"}), manifest : SUBSET Names,
               others : SUBSET Names]

MachineType == [on : BOOLEAN, attached : SUBSET All, guarded : BOOLEAN]

VolTypes ==
    /\ layers \in LayersType /\ record \in RecordType /\ machine \in MachineType
    /\ image \in [All -> {"none", "bare", "ready"}]
    /\ staging \in [All -> {"none", "bare", "ready"}]
    /\ balloon \in Procs \cup {Nobody} /\ holder \in Procs \cup {Nobody}
    /\ act \in [Procs -> ActType] /\ tweaks \in Nat

\* A prune never lists what it must spare.
ActFits(a) ==
    /\ a.pc = "idle" => a.kind = "none"
    /\ a.pc \in {"record", "provision"} => a.kind = "start"
    /\ a.pc \in {"guard", "remove"} => a.kind = "prune"
    /\ a.pc \in {"remember", "enumerate"} => a.kind = "prune" /\ a.todo = {}
    /\ a.kind = "prune" => a.todo \cap a.spared = {}

\* What p, at the step it is at, may count on: the lock, if it works under it;
\* the images it has already provisioned; no guarded guest while it removes;
\* no boot under way while it waits for its balloon.
Relies(p) ==
    /\ act[p].pc \in Guarded => holder = p
    /\ act[p].pc = "provision" /\ holder = p =>
          \A n \in act[p].spared \ act[p].todo : image[n] = "ready"
    /\ act[p].pc = "remove" /\ machine.on => ~machine.guarded
    /\ act[p].pc = "settle" => ~Provisioning

\* One supervisor boots at a time, and none beside a running guest.
OneBoot ==
    /\ \A p, q \in Procs : act[p].pc = "provision" /\ act[q].pc = "provision" => p = q
    /\ machine.on => ~Provisioning

\* The inductive invariant.
VolInv ==
    /\ VolTypes
    /\ \A p \in Procs : ActFits(act[p])
    /\ \A p \in Procs : Relies(p)
    /\ OneBoot
    /\ ImagesAreComplete /\ AttachedIsThere /\ OneReclaim /\ BalloonIsRestored

-----------------------------------------------------------------------------
(* One process steps.                                                      *)

\* What p becomes, and the lock it leaves: nobody else's lock is touched, and
\* under a guarded step the lock is p's.
Moves(p, a) ==
    /\ a \in ActType /\ ActFits(a)
    /\ act' = [act EXCEPT ![p] = a]
    /\ holder' \in Procs \cup {Nobody}
    /\ holder # holder' => (holder \in {p, Nobody} /\ holder' \in {p, Nobody})
    /\ a.pc \in Guarded => holder' = p

\* p may go on with what the step it enters relies on, and leaves no balloon
\* without an owner.
MayEnter(p, a) ==
    /\ a.pc = "provision" =>
          /\ holder' = p => \A n \in a.spared \ a.todo : image'[n] = "ready"
          /\ act[p].pc = "provision" \/ (holder = p /\ ~machine.on /\ ~Provisioning)
    /\ a.pc = "remove" => ~machine.on \/ ~machine.guarded
    /\ a.pc = "settle" => machine.on /\ balloon' = p
    /\ balloon' = p => a.pc \in {"settle", "dead", "warned"} \/ a.kind = "volumes"

\* Images are added, never taken away.
ImagesGrow ==
    /\ image' \in [All -> {"none", "ready"}]
    /\ \A n \in All : image[n] = "ready" => image'[n] = "ready"

\* A step of p that takes no image away and leaves the guest running or not
\* preserves the invariant.
LEMMA ProcessInv ==
    ASSUME VolInv, NEW p \in Procs, NEW a, Moves(p, a), MayEnter(p, a), ImagesGrow,
           layers' \in LayersType, record' \in RecordType,
           staging' \in [All -> {"none", "bare", "ready"}],
           balloon' = balloon \/ (holder = p /\ balloon' \in {p, Nobody}),
           UNCHANGED <<machine, tweaks>>
    PROVE  VolInv'
<1> USE VolumesAssumption
<1>1. act'[p] = a /\ act' \in [Procs -> ActType] /\ \A q \in Procs : q # p => act'[q] = act[q]
  BY DEF VolInv, VolTypes, Moves
<1>2. VolTypes' BY <1>1 DEF VolInv, VolTypes, Moves, ImagesGrow
<1>3. (\A q \in Procs : ActFits(act[q]))' BY <1>1 DEF VolInv, Moves, ActFits
<1>4. ~Provisioning /\ a.pc # "provision" => ~Provisioning'
  BY <1>1 DEF Provisioning
<1>5. ASSUME NEW q \in Procs, q # p PROVE Relies(q)'
  <2>1. act'[q] = act[q] /\ Relies(q) BY <1>1, <1>5 DEF VolInv
  <2>2. act[q].pc \in Guarded => holder = q /\ holder' = q
    BY <1>5, <2>1 DEF Relies, Moves
  <2>3. holder' = q => holder = q BY <1>5 DEF Moves
  <2>4. act[q].pc = "provision" /\ holder' = q =>
           \A n \in act[q].spared \ act[q].todo : image'[n] = "ready"
    BY <2>1, <2>3 DEF Relies, VolInv, VolTypes, ActType, ImagesGrow
  <2>5. ASSUME act[q].pc = "settle" PROVE ~Provisioning'
    <3>1. holder = q /\ ~Provisioning BY <2>1, <2>5 DEF Relies, Guarded
    <3>2. a.pc # "provision" BY <1>5, <3>1 DEF MayEnter, Provisioning
    <3>3. QED BY <3>1, <3>2, <1>4
  <2>6. QED BY <2>1, <2>2, <2>4, <2>5 DEF Relies
<1>6. Relies(p)'
  <2>1. a.pc = "settle" => ~Provisioning' BY <1>4 DEF MayEnter, VolInv, OneBoot
  <2>2. QED BY <1>1, <2>1 DEF Relies, Moves, MayEnter
<1>7. OneBoot'
  <2>1. a.pc = "provision" => \A q \in Procs : q # p => act[q].pc # "provision"
    BY DEF MayEnter, VolInv, OneBoot, Provisioning
  <2>2. a.pc = "provision" => ~machine.on BY DEF MayEnter, VolInv, OneBoot, Provisioning
  <2>3. QED BY <1>1, <1>4, <2>1, <2>2 DEF VolInv, OneBoot
<1>8. ImagesAreComplete' BY DEF ImagesAreComplete, ImagesGrow
<1>9. AttachedIsThere'
  BY DEF AttachedIsThere, ImagesGrow, VolInv, VolTypes, MachineType
<1>10. OneReclaim'
  <2>1. ASSUME NEW q \in Procs, q # p, act[q].pc = "settle" PROVE balloon' = balloon
    BY <2>1 DEF VolInv, Relies, Guarded
  <2>2. QED BY <1>1, <2>1 DEF OneReclaim, VolInv, MayEnter
<1>11. BalloonIsRestored'
  <2>1. balloon' # p /\ balloon' # Nobody => balloon' = balloon OBVIOUS
  <2>2. QED BY <1>1, <1>2, <2>1 DEF BalloonIsRestored, VolInv, VolTypes, MayEnter
<1>12. QED BY <1>2, <1>3, <1>5, <1>6, <1>7, <1>8, <1>9, <1>10, <1>11 DEF VolInv

\* Types of what a process reads.
LEMMA VolReads ==
    ASSUME VolInv, NEW p \in Procs
    PROVE  /\ act[p] \in ActType /\ ActFits(act[p]) /\ Relies(p)
           /\ holder \in Procs \cup {Nobody} /\ balloon \in Procs \cup {Nobody}
           /\ image \in [All -> {"none", "ready"}] /\ (UNCHANGED image => ImagesGrow)
           /\ layers \in LayersType /\ record \in RecordType /\ tweaks \in Nat
           /\ staging \in [All -> {"none", "bare", "ready"}]
           /\ balloon = p => act[p].pc \in {"settle", "dead", "warned"} \/ act[p].kind = "volumes"
BY VolumesAssumption DEF VolInv, VolTypes, ImagesAreComplete, ImagesGrow, BalloonIsRestored

\* A command surveys or resolves, without the lock.
LEMMA SurveyInv ==
    ASSUME VolInv, NEW p \in Procs,
           \/ ResolveStart(p) \/ SurveyPrune(p) \/ SurveyRecord(p) \/ SurveyImages(p)
           \/ BeginTrim(p)
    PROVE  VolInv'
<1> USE VolumesAssumption
<1> DEFINE Next == {"lock", "remember", "enumerate"}
<1>1. PICK a : /\ Become(p, a) /\ a.pc \in Next /\ a \in ActType /\ ActFits(a)
               /\ UNCHANGED <<record, image, staging, machine, balloon, holder, layers, tweaks>>
               /\ act[p].pc \in {"idle", "remember", "enumerate"}
  <2>1. CASE ResolveStart(p)
    <3> DEFINE a == [Waiting EXCEPT !.pc = "lock", !.kind = "start",
                        !.layers = layers.manifest, !.comp = layers.pieces]
    <3>1. a \in ActType /\ ActFits(a) /\ a.pc = "lock"
      BY VolReads DEF Waiting, ActType, ActFits, LayersType
    <3>2. QED BY <2>1, <3>1 DEF ResolveStart, VolAt, disk, guest, user
  <2>2. CASE SurveyPrune(p)
    <3> DEFINE a == [Waiting EXCEPT !.pc = "remember", !.kind = "prune", !.since = tweaks,
                        !.layers = layers.manifest, !.comp = layers.pieces]
    <3>1. a \in ActType /\ ActFits(a) /\ a.pc = "remember"
      BY VolReads DEF Waiting, ActType, ActFits, LayersType
    <3>2. QED BY <2>2, <3>1 DEF SurveyPrune, VolAt, disk, guest, user
  <2>3. CASE SurveyRecord(p)
    <3> DEFINE spared == Reserved \cup Live(record, act[p].layers, act[p].comp)
               sure == record.comp = layers.pieces /\ ByPieces(layers) \subseteq record.others
               a == [act[p] EXCEPT !.pc = "enumerate", !.spared = spared, !.sure = sure]
    <3>1. act[p].pc = "remember" /\ act[p].kind = "prune" /\ act[p].todo = {}
      BY <2>3, VolReads DEF SurveyRecord, VolAt, ActFits
    <3>2. spared \subseteq All BY VolReads DEF Live, RecordType, ActType, All
    <3>3. sure \in BOOLEAN OBVIOUS
    <3> HIDE DEF spared, sure
    <3>4. /\ a \in ActType /\ a.pc = "enumerate" /\ a.kind = "prune" /\ a.todo = {}
      BY <3>1, <3>2, <3>3, VolReads DEF ActType
    <3>5. ActFits(a) BY <3>4 DEF ActFits
    <3>6. Become(p, a) BY <2>3 DEF SurveyRecord, spared, sure
    <3> HIDE DEF a
    <3>7. QED BY <2>3, <3>1, <3>4, <3>5, <3>6 DEF SurveyRecord, disk, guest, user
  <2>4. CASE SurveyImages(p)
    <3> DEFINE todo == {n \in All : image[n] # "none"} \ act[p].spared
               a == [act[p] EXCEPT !.pc = "lock", !.todo = todo]
    <3>1. act[p].pc = "enumerate" /\ act[p].kind = "prune"
      BY <2>4, VolReads DEF SurveyImages, VolAt, ActFits
    <3>2. todo \subseteq All /\ todo \cap act[p].spared = {} OBVIOUS
    <3> HIDE DEF todo
    <3>3. /\ a \in ActType /\ a.pc = "lock" /\ a.kind = "prune" /\ a.todo = todo
          /\ a.spared = act[p].spared
      BY <3>1, <3>2, VolReads DEF ActType
    <3>4. ActFits(a) BY <3>2, <3>3 DEF ActFits
    <3>5. Become(p, a) BY <2>4 DEF SurveyImages, todo
    <3> HIDE DEF a
    <3>6. QED BY <2>4, <3>1, <3>3, <3>4, <3>5 DEF SurveyImages, disk, guest, user
  <2>5. CASE BeginTrim(p)
    <3> DEFINE a == [Waiting EXCEPT !.pc = "lock", !.kind = "memory"]
    <3>1. a \in ActType /\ ActFits(a) /\ a.pc = "lock" BY DEF Waiting, ActType, ActFits
    <3>2. QED BY <2>5, <3>1 DEF BeginTrim, VolAt, disk, guest, user
  <2>6. QED BY <2>1, <2>2, <2>3, <2>4, <2>5
<1>2. Moves(p, a) BY <1>1, VolReads DEF Moves, Become, Guarded
<1>3. balloon # p BY <1>1, VolReads DEF ActFits
<1>4. MayEnter(p, a) BY <1>1, <1>3 DEF MayEnter
<1>5. QED BY <1>1, <1>2, <1>4, VolReads, ProcessInv

\* The lock is taken, or the command is refused at once.
LEMMA LockInv ==
    ASSUME VolInv, NEW p \in Procs, LockCommand(p)
    PROVE  VolInv'
<1> USE VolumesAssumption
<1> DEFINE next == CASE act[p].kind = "start" -> "record"
                     [] act[p].kind = "prune" -> "guard"
                     [] act[p].kind = "memory" -> "running"
                     [] OTHER -> "request"
           to(pc) == [act[p] EXCEPT !.pc = pc]
<1>1. /\ act[p].pc = "lock" /\ TakeLock(p, next)
      /\ UNCHANGED <<record, image, staging, machine, balloon, layers, tweaks>>
  BY DEF LockCommand, VolAt, disk, guest, user
<1>2. /\ next \in {"record", "guard", "running", "request"}
      /\ (next = "guard" => act[p].kind = "prune") /\ (next = "record" => act[p].kind = "start")
  BY VolReads DEF ActType
<1> HIDE DEF next
<1>3. \A pc \in {"record", "guard", "running", "request", "failed"} :
         /\ to(pc) \in ActType /\ to(pc).pc = pc /\ to(pc).kind = act[p].kind
         /\ (pc = "guard" => act[p].kind = "prune") /\ (pc = "record" => act[p].kind = "start")
               => ActFits(to(pc))
  BY VolReads DEF ActType, ActFits, Guarded
<1>4. balloon = p => act[p].kind = "volumes" BY <1>1, VolReads
<1>5. CASE holder = Nobody /\ holder' = p /\ act' = [act EXCEPT ![p] = to(next)]
  <2>1. Moves(p, to(next)) BY <1>2, <1>3, <1>5 DEF Moves
  <2>2. MayEnter(p, to(next)) BY <1>1, <1>2, <1>3, <1>4 DEF MayEnter
  <2>3. QED BY <1>1, <2>1, <2>2, VolReads, ProcessInv
<1>6. CASE holder # Nobody /\ holder' = holder /\ act' = [act EXCEPT ![p] = to("failed")]
  <2>1. Moves(p, to("failed")) BY <1>3, <1>6, VolReads DEF Moves, Guarded
  <2>2. MayEnter(p, to("failed")) BY <1>1, <1>3, <1>4 DEF MayEnter
  <2>3. QED BY <1>1, <2>1, <2>2, VolReads, ProcessInv
<1>7. QED BY <1>1, <1>5, <1>6 DEF TakeLock, Become

\* A command ends, for whatever reason, and the lock goes with it.
LEMMA QuitInv ==
    ASSUME VolInv, NEW p \in Procs, NEW pc \in {"done", "failed", "warned", "dead"},
           Quit(p, pc), record' \in RecordType,
           act[p].pc = "settle" => pc \in {"warned", "dead"},
           act[p].pc \in {"dead", "warned", "idle"} => FALSE,
           UNCHANGED <<image, staging, machine, balloon, layers, tweaks>>
    PROVE  VolInv'
<1> USE VolumesAssumption
<1> DEFINE a == [act[p] EXCEPT !.pc = pc]
<1>1. a \in ActType /\ a.pc = pc /\ a.kind = act[p].kind /\ ActFits(a)
  BY VolReads DEF ActType, ActFits, Guarded
<1>2. Moves(p, a) BY <1>1, VolReads DEF Moves, Guarded, Quit, Become, Release
<1>3. MayEnter(p, a) BY <1>1, VolReads DEF MayEnter
<1> HIDE DEF a
<1>4. QED BY <1>2, <1>3, VolReads, ProcessInv

\* The record is written; the boot is handed over, or nothing more is done.
LEMMA WriteRecordInv ==
    ASSUME VolInv, NEW p \in Procs, WriteRecord(p)
    PROVE  VolInv'
<1> USE VolumesAssumption
<1> DEFINE others == UNION {layers.of[q] : q \in act[p].comp}
           volumes == act[p].layers \cup others \cup Reserved
           a == [act[p] EXCEPT !.pc = "provision", !.todo = volumes, !.spared = volumes]
<1>1. /\ act[p].pc = "record" /\ holder = p
      /\ UNCHANGED <<image, staging, machine, balloon, layers, tweaks>>
  BY VolReads DEF WriteRecord, VolAt, guest, user, Relies, Guarded
<1>2. others \subseteq Names BY VolReads DEF ActType, LayersType
<1>3. record' \in RecordType
  BY <1>2, VolReads DEF WriteRecord, ActType, RecordType
<1>4. volumes \subseteq All BY <1>2, VolReads DEF ActType, All
<1>5. CASE Quit(p, IF machine.on THEN "done" ELSE "failed")
  BY <1>1, <1>3, <1>5, QuitInv
<1>6. CASE /\ ~machine.on /\ ~Provisioning
           /\ act' = [act EXCEPT ![p] = a] /\ holder' = holder
  <2>1. a \in ActType BY <1>4, VolReads DEF ActType
  <2>2. a.pc = "provision" /\ a.kind = act[p].kind /\ a.todo = volumes /\ a.spared = volumes
    BY VolReads DEF ActType
  <2>3. ActFits(a) BY <1>1, <2>2, VolReads DEF ActFits
  <2>4. Moves(p, a) BY <1>1, <1>6, <2>1, <2>2, <2>3, VolReads DEF Moves
  <2>5. balloon # p BY <1>1, VolReads DEF ActFits
  <2>6. MayEnter(p, a) BY <1>1, <1>6, <2>2, <2>5 DEF MayEnter
  <2>7. QED BY <1>1, <1>3, <2>4, <2>6, VolReads, ProcessInv
<1>7. QED BY <1>5, <1>6 DEF WriteRecord, Become

\* One image is found, prepared beside its name, or published under it.
LEMMA ProvisionInv ==
    ASSUME VolInv, NEW p \in Procs, Provision(p)
    PROVE  VolInv'
<1> USE VolumesAssumption
<1>1. /\ act[p].pc = "provision" /\ act[p].kind = "start" /\ balloon # p
      /\ UNCHANGED <<record, machine, balloon, holder, layers, tweaks>>
  BY VolReads DEF Provision, VolAt, guest, user, ActFits
<1>2. PICK n \in act[p].todo :
         \/ /\ image[n] # "none"
            /\ Become(p, [act[p] EXCEPT !.todo = @ \ {n}])
            /\ UNCHANGED <<image, staging>>
         \/ /\ image[n] = "none" /\ staging[n] = "none"
            /\ staging' = [staging EXCEPT ![n] = "bare"]
            /\ UNCHANGED <<image, act>>
         \/ /\ image[n] = "none" /\ staging[n] = "bare"
            /\ staging' = [staging EXCEPT ![n] = "ready"]
            /\ UNCHANGED <<image, act>>
         \/ /\ image[n] = "none" /\ staging[n] = "ready"
            /\ image' = [image EXCEPT ![n] = "ready"]
            /\ staging' = [staging EXCEPT ![n] = "none"]
            /\ Become(p, [act[p] EXCEPT !.todo = @ \ {n}])
  BY DEF Provision
<1>3. n \in All BY VolReads DEF ActType
<1>4. staging' \in [All -> {"none", "bare", "ready"}] BY <1>2, VolReads
<1>5. ImagesGrow /\ (act' # act => image'[n] = "ready")
  BY <1>2, <1>3, VolReads DEF ImagesGrow
<1>6. ASSUME NEW todo \in {act[p].todo, act[p].todo \ {n}},
             act' = [act EXCEPT ![p] = [act[p] EXCEPT !.todo = todo]],
             todo # act[p].todo => image'[n] = "ready"
      PROVE  VolInv'
  <2> DEFINE a == [act[p] EXCEPT !.todo = todo]
  <2>1. /\ a \in ActType /\ a.pc = "provision" /\ a.kind = "start" /\ a.todo = todo
        /\ a.spared = act[p].spared
    BY <1>1, <1>6, VolReads DEF ActType
  <2>2. Moves(p, a) BY <1>1, <1>6, <2>1, VolReads DEF Moves, ActFits, Guarded
  <2>3. holder' = p => \A m \in a.spared \ a.todo : image'[m] = "ready"
    BY <1>1, <1>5, <1>6, <2>1, VolReads DEF Relies, ImagesGrow, ActType
  <2>4. MayEnter(p, a) BY <1>1, <2>1, <2>3 DEF MayEnter
  <2>5. QED BY <1>1, <1>4, <1>5, <2>2, <2>4, VolReads, ProcessInv
<1>7. CASE UNCHANGED act
  <2>1. act[p] = [act[p] EXCEPT !.todo = act[p].todo] BY VolReads DEF ActType
  <2>2. act = [act EXCEPT ![p] = act[p]] BY DEF VolInv, VolTypes
  <2>3. QED BY <1>6, <1>7, <2>1, <2>2
<1>8. CASE act' # act
  <2>1. act' = [act EXCEPT ![p] = [act[p] EXCEPT !.todo = act[p].todo \ {n}]]
    BY <1>2, <1>8 DEF Become
  <2>2. QED BY <1>5, <1>6, <1>8, <2>1
<1>9. QED BY <1>7, <1>8

\* The guest boots: it is the one boot under way, and if its start still holds
\* the lock no prune has touched what it attaches.
LEMMA BootInv ==
    ASSUME VolInv, NEW p \in Procs, BootGuest(p)
    PROVE  VolInv'
<1> USE VolumesAssumption
<1> DEFINE a == [act[p] EXCEPT !.pc = "done"]
<1>1. /\ act[p].pc = "provision" /\ act[p].todo = {} /\ act' = [act EXCEPT ![p] = a]
      /\ machine' = [on |-> TRUE, attached |-> act[p].spared, guarded |-> holder = p]
      /\ holder' = IF holder = p THEN Nobody ELSE holder
      /\ UNCHANGED <<record, image, staging, balloon, layers, tweaks>>
  BY DEF BootGuest, VolAt, Quit, Become, Release, disk, user
<1>2. a \in ActType /\ a.pc = "done" /\ a.kind = act[p].kind /\ ActFits(a)
  BY <1>1, VolReads DEF ActType, ActFits, Guarded
<1>3. act'[p] = a /\ act' \in [Procs -> ActType] /\ \A q \in Procs : q # p => act'[q] = act[q]
  BY <1>1, <1>2 DEF VolInv, VolTypes
<1> HIDE DEF a
<1>4. VolTypes'
  <2>1. machine' \in MachineType BY <1>1, VolReads DEF MachineType, ActType
  <2>2. QED BY <1>1, <1>3, <2>1 DEF VolInv, VolTypes
<1>5. (\A q \in Procs : ActFits(act[q]))' BY <1>2, <1>3 DEF VolInv, ActFits
<1>6. ~Provisioning' BY <1>1, <1>2, <1>3 DEF VolInv, OneBoot, Provisioning
<1>7. ASSUME NEW q \in Procs PROVE Relies(q)'
  <2>1. CASE q = p BY <1>2, <1>3, <2>1 DEF Relies, Guarded
  <2>2. CASE q # p
    <3>1. act'[q] = act[q] /\ Relies(q) BY <1>3, <2>2 DEF VolInv
    <3>2. holder = q <=> holder' = q BY <1>1, <2>2
    <3>3. act[q].pc # "provision" BY <1>1, <2>2 DEF VolInv, OneBoot
    <3>4. machine'.guarded => holder = p BY <1>1
    <3>5. act[q].pc = "remove" => ~machine'.guarded BY <2>2, <3>1, <3>4 DEF Relies, Guarded
    <3>6. QED BY <1>6, <3>1, <3>2, <3>3, <3>5 DEF Relies
  <2>3. QED BY <2>1, <2>2
<1>8. OneBoot' BY <1>6 DEF OneBoot, Provisioning
<1>9. AttachedIsThere'
  <2>1. holder = p => \A n \in act[p].spared : image[n] = "ready"
    BY <1>1, VolReads DEF Relies, ActType
  <2>2. QED BY <1>1, <2>1 DEF AttachedIsThere
<1>10. OneReclaim'
  <2>1. \A q \in Procs : act[q].pc # "settle" BY <1>1 DEF VolInv, Relies, Provisioning
  <2>2. QED BY <1>2, <1>3, <2>1 DEF OneReclaim
<1>11. ImagesAreComplete' BY <1>1 DEF ImagesAreComplete, VolInv
<1>12. BalloonIsRestored'
  <2>1. balloon # p BY <1>1, VolReads DEF ActFits
  <2>2. QED BY <1>1, <1>3, <2>1 DEF BalloonIsRestored, VolInv, VolTypes
<1>13. QED BY <1>4, <1>5, <1>7, <1>8, <1>9, <1>10, <1>11, <1>12 DEF VolInv

\* The prune is refused, declined, or goes on to remove.
LEMMA GuardInv ==
    ASSUME VolInv, NEW p \in Procs, GuardPrune(p)
    PROVE  VolInv'
<1> USE VolumesAssumption
<1> DEFINE a == [act[p] EXCEPT !.pc = "remove"]
<1>1. /\ act[p].pc = "guard" /\ act[p].kind = "prune" /\ holder = p /\ balloon # p
      /\ UNCHANGED <<record, image, staging, machine, balloon, layers, tweaks>>
  BY VolReads DEF GuardPrune, VolAt, disk, guest, user, Relies, ActFits, Guarded
<1>2. CASE Quit(p, "failed") BY <1>1, <1>2, VolReads, QuitInv
<1>3. CASE Quit(p, "done") BY <1>1, <1>3, VolReads, QuitInv
<1>4. CASE ~machine.on /\ act' = [act EXCEPT ![p] = a] /\ holder' = holder
  <2>1. a \in ActType /\ a.pc = "remove" /\ ActFits(a)
    BY <1>1, VolReads DEF ActType, ActFits, Guarded
  <2>2. Moves(p, a) BY <1>1, <1>4, <2>1, VolReads DEF Moves
  <2>3. MayEnter(p, a) BY <1>1, <1>4, <2>1 DEF MayEnter
  <2>4. QED BY <1>1, <2>2, <2>3, VolReads, ProcessInv
<1>5. QED BY <1>2, <1>3, <1>4 DEF GuardPrune, Become

\* An orphan is removed: no guarded guest runs, and no start that holds the lock
\* is provisioning.
LEMMA RemoveInv ==
    ASSUME VolInv, NEW p \in Procs, RemoveOne(p)
    PROVE  VolInv'
<1> USE VolumesAssumption
<1>1. /\ act[p].pc = "remove" /\ act[p].kind = "prune" /\ holder = p /\ balloon # p
      /\ UNCHANGED <<record, staging, machine, balloon, layers, tweaks>>
  BY VolReads DEF RemoveOne, VolAt, guest, user, Relies, ActFits, Guarded
<1>2. CASE Quit(p, "failed") /\ UNCHANGED image BY <1>1, <1>2, VolReads, QuitInv
<1>3. CASE Quit(p, "done") /\ UNCHANGED image BY <1>1, <1>3, VolReads, QuitInv
<1>4. ASSUME NEW n \in act[p].todo, image' = [image EXCEPT ![n] = "none"],
             Become(p, [act[p] EXCEPT !.todo = @ \ {n}]), UNCHANGED holder
      PROVE  VolInv'
  <2> DEFINE a == [act[p] EXCEPT !.todo = act[p].todo \ {n}]
  <2>1. /\ a \in ActType /\ a.pc = "remove" /\ a.kind = "prune" /\ a.spared = act[p].spared
        /\ ActFits(a)
    BY <1>1, VolReads DEF ActType, ActFits
  <2>2. act'[p] = a /\ act' \in [Procs -> ActType] /\ \A q \in Procs : q # p => act'[q] = act[q]
    BY <1>4, <2>1 DEF VolInv, VolTypes, Become
  <2> HIDE DEF a
  <2>3. image' \in [All -> {"none", "ready"}] BY <1>4, VolReads
  <2>4. VolTypes' BY <1>1, <1>4, <2>2, <2>3 DEF VolInv, VolTypes
  <2>5. (\A q \in Procs : ActFits(act[q]))' BY <2>1, <2>2 DEF VolInv
  <2>6. Provisioning' <=> Provisioning BY <1>1, <2>1, <2>2 DEF Provisioning
  <2>7. ASSUME NEW q \in Procs PROVE Relies(q)'
    <3>1. act'[q].pc = act[q].pc /\ Relies(q) BY <1>1, <2>1, <2>2 DEF VolInv
    <3>2. act[q].pc = "provision" => holder # q BY <1>1
    <3>3. QED BY <1>1, <1>4, <2>6, <3>1, <3>2 DEF Relies
  <2>8. OneBoot' BY <1>1, <2>1, <2>2, <2>6 DEF VolInv, OneBoot
  <2>9. ImagesAreComplete' BY <2>3 DEF ImagesAreComplete
  <2>10. AttachedIsThere' BY <1>1, VolReads DEF AttachedIsThere, Relies
  <2>11. OneReclaim' BY <1>1, <2>1, <2>2 DEF VolInv, OneReclaim
  <2>12. BalloonIsRestored' BY <1>1, <2>2 DEF VolInv, VolTypes, BalloonIsRestored
  <2>13. QED BY <2>4, <2>5, <2>7, <2>8, <2>9, <2>10, <2>11, <2>12 DEF VolInv
<1>5. QED BY <1>2, <1>3, <1>4 DEF RemoveOne

\* The memory rung: the balloon is taken and given back under the lock.
LEMMA BalloonInv ==
    ASSUME VolInv, NEW p \in Procs, Inflate(p) \/ Deflate(p)
    PROVE  VolInv'
<1> USE VolumesAssumption
<1> DEFINE to(pc) == [act[p] EXCEPT !.pc = pc]
<1>1. /\ act[p].pc \in {"running", "settle"} /\ holder = p
      /\ UNCHANGED <<record, image, staging, machine, layers, tweaks>>
  BY VolReads DEF Inflate, Deflate, VolAt, disk, user, Relies, Guarded
<1>2. CASE Quit(p, "warned") /\ UNCHANGED balloon BY <1>1, <1>2, VolReads, QuitInv
<1>3. ASSUME NEW pc \in {"settle", "rung"}, act' = [act EXCEPT ![p] = to(pc)],
             UNCHANGED holder, pc = "settle" => machine.on /\ balloon' = p,
             pc = "rung" => balloon' = Nobody \/ (balloon' = balloon /\ act[p].pc = "running"),
             balloon' \in {balloon, p, Nobody}
      PROVE  VolInv'
  <2>1. to(pc) \in ActType /\ to(pc).pc = pc /\ to(pc).kind = act[p].kind
    BY VolReads DEF ActType, Guarded
  <2>2. ActFits(to(pc)) BY <2>1, VolReads DEF ActFits
  <2>3. Moves(p, to(pc)) BY <1>1, <1>3, <2>1, <2>2, VolReads DEF Moves
  <2>4. MayEnter(p, to(pc)) BY <1>1, <1>3, <2>1, VolReads DEF MayEnter
  <2> HIDE DEF to
  <2>5. QED BY <1>1, <1>3, <2>3, <2>4, VolReads, ProcessInv
<1>4. CASE Inflate(p) BY <1>2, <1>3, <1>4 DEF Inflate, Become, VolAt
<1>5. CASE Deflate(p) BY <1>2, <1>3, <1>5 DEF Deflate, Become
<1>6. QED BY <1>4, <1>5

\* The volume rung, and every death.
LEMMA RungInv ==
    ASSUME VolInv, NEW p \in Procs, NextRung(p) \/ TrimVolumes(p) \/ Perish(p)
    PROVE  VolInv'
<1> USE VolumesAssumption
<1>1. UNCHANGED <<record, image, staging, machine, balloon, layers, tweaks>>
  BY DEF NextRung, TrimVolumes, Perish, disk, guest, user
<1>2. CASE NextRung(p)
  <2> DEFINE todo == {n \in All : image[n] # "none"} \ Orphans(layers.manifest, layers.pieces)
             a == [act[p] EXCEPT !.pc = "lock", !.kind = "volumes",
                                 !.layers = layers.manifest, !.todo = todo]
  <2>1. act' = [act EXCEPT ![p] = a] /\ holder' = IF holder = p THEN Nobody ELSE holder
    BY <1>2 DEF NextRung, Become, Release
  <2>2. a \in ActType /\ a.pc = "lock" /\ a.kind = "volumes"
    BY VolReads DEF ActType, LayersType
  <2>3. ActFits(a) BY <2>2 DEF ActFits
  <2>4. Moves(p, a) BY <2>1, <2>2, <2>3, VolReads DEF Moves, Guarded
  <2>5. MayEnter(p, a) BY <2>2 DEF MayEnter
  <2>6. QED BY <1>1, <2>4, <2>5, VolReads, ProcessInv
<1>3. CASE TrimVolumes(p) BY <1>1, <1>3, VolReads, QuitInv DEF TrimVolumes, VolAt
<1>4. CASE /\ act[p].pc \in {"lock", "remember", "enumerate", "record", "provision", "guard", "remove",
                            "running", "settle", "rung", "request"}
           /\ Quit(p, "dead")
  BY <1>1, <1>4, VolReads, QuitInv
<1>5. CASE VolAt(p, "provision") /\ holder = p /\ Release(p) /\ UNCHANGED act
  <2>1. act' = [act EXCEPT ![p] = act[p]] BY <1>5 DEF VolInv, VolTypes
  <2>2. holder' = Nobody BY <1>5 DEF Release
  <2>3. Moves(p, act[p]) BY <1>5, <2>1, <2>2, VolReads DEF Moves, VolAt, Guarded
  <2>4. MayEnter(p, act[p]) BY <1>1, <1>5, <2>2, VolReads DEF MayEnter, VolAt
  <2>5. QED BY <1>1, <2>3, <2>4, VolReads, ProcessInv
<1>6. QED BY <1>2, <1>3, <1>4, <1>5 DEF Perish

-----------------------------------------------------------------------------
(* The environment, and the theorems.                                      *)

\* The guest stops, or the user edits.
LEMMA OutsideInv ==
    ASSUME VolInv, VmStops \/ EditLayers \/ UNCHANGED volVars
    PROVE  VolInv'
<1> USE VolumesAssumption
<1>1. /\ UNCHANGED <<record, image, staging, holder, act>>
      /\ (UNCHANGED <<machine, balloon>>) \/ (machine'.on = FALSE /\ balloon' = Nobody)
      /\ machine' \in MachineType /\ tweaks' \in Nat
  <2>1. CASE VmStops
    <3>1. machine' = [on |-> FALSE, attached |-> {}, guarded |-> TRUE] BY <2>1 DEF VmStops
    <3>2. machine' \in MachineType /\ machine'.on = FALSE BY <3>1 DEF MachineType
    <3>3. QED BY <2>1, <3>2 DEF VmStops, disk, user, VolInv, VolTypes
  <2>2. CASE EditLayers BY <2>2 DEF EditLayers, disk, guest, VolInv, VolTypes
  <2>3. CASE UNCHANGED volVars BY <2>3 DEF volVars, VolInv, VolTypes
  <2>4. QED BY <2>1, <2>2, <2>3
<1>2. layers' \in LayersType
  <2>1. CASE UNCHANGED layers BY <2>1 DEF VolInv, VolTypes
  <2>2. ASSUME NEW n \in Names,
               layers' = [layers EXCEPT !.manifest = IF n \in @ THEN @ \ {n} ELSE @ \cup {n}]
        PROVE  layers' \in LayersType
    BY <2>2 DEF VolInv, VolTypes, LayersType
  <2>3. ASSUME NEW q \in Pieces,
               layers' = [layers EXCEPT !.pieces = IF q \in @ THEN @ \ {q} ELSE @ \cup {q}]
        PROVE  layers' \in LayersType
    BY <2>3 DEF VolInv, VolTypes, LayersType
  <2>4. ASSUME NEW q \in Pieces, NEW n \in Names,
               layers' = [layers EXCEPT !.of[q] = IF n \in @ THEN @ \ {n} ELSE @ \cup {n}]
        PROVE  layers' \in LayersType
    BY <2>4 DEF VolInv, VolTypes, LayersType
  <2>5. QED BY <2>1, <2>2, <2>3, <2>4 DEF VmStops, EditLayers, volVars, user
<1>3. Provisioning' <=> Provisioning BY <1>1 DEF Provisioning
<1>4. QED
  BY <1>1, <1>2, <1>3 DEF VolInv, VolTypes, Relies, OneBoot, ImagesAreComplete,
                          AttachedIsThere, OneReclaim, BalloonIsRestored

LEMMA VolStepInv ==
    ASSUME VolInv, [VolNext]_volVars
    PROVE  VolInv'
<1>1. ASSUME NEW p \in Procs, VolStep(p) PROVE VolInv'
  BY <1>1, SurveyInv, LockInv, WriteRecordInv, ProvisionInv, BootInv, GuardInv, RemoveInv,
     BalloonInv, RungInv DEF VolStep
<1>2. QED BY <1>1, OutsideInv DEF VolNext

LEMMA VolInitInv ==
    ASSUME VolInit
    PROVE  VolInv
<1> USE VolumesAssumption
<1>1. Waiting \in ActType /\ ActFits(Waiting) /\ Waiting.pc = "idle"
  BY DEF Waiting, ActType, ActFits
<1>2. act \in [Procs -> ActType] /\ \A p \in Procs : act[p] = Waiting BY <1>1 DEF VolInit
<1>3. image \in [All -> {"none", "ready"}] BY DEF VolInit
<1>4. record \in RecordType BY DEF VolInit, NoRecord, RecordType
<1>5. machine \in MachineType /\ ~machine.on BY DEF VolInit, MachineType
<1>6. VolTypes BY <1>2, <1>3, <1>4, <1>5 DEF VolInit, VolTypes, LayersType
<1>7. ~Provisioning BY <1>1, <1>2 DEF Provisioning
<1>8. \A p \in Procs : Relies(p) BY <1>1, <1>2 DEF Relies, Guarded
<1>9. QED
  BY <1>1, <1>2, <1>3, <1>5, <1>6, <1>7, <1>8
  DEF VolInit, VolInv, OneBoot, ImagesAreComplete, AttachedIsThere, OneReclaim,
      BalloonIsRestored

\* Whatever dies where: a volume's name only ever holds a whole file system, no
\* prune takes an image from a guest whose start saw it boot, a settling balloon
\* is its trim's own, and a squeezed guest has a trim that will restore it or
\* one that said it could not (provision_volumes, prune, memory_rung).
THEOREM VolumesAreSafe == VolSpec => []VolumesSafe
<1>1. VolInv => VolumesSafe
  <2>1. ASSUME VolInv PROVE VolTypeOK
    BY <2>1 DEF VolInv, VolTypes, VolTypeOK, RecordType, MachineType, ActType
  <2>2. QED BY <2>1 DEF VolInv, VolumesSafe
<1>2. QED BY <1>1, VolInitInv, VolStepInv, PTL DEF VolSpec

\* What a prune knows of the layers since its survey
Knows(p) ==
    act[p].kind = "prune" /\ act[p].pc \in {"remember", "enumerate", "lock", "guard", "remove"} =>
        /\ act[p].since <= tweaks
        /\ act[p].since = tweaks => act[p].layers = layers.manifest /\ act[p].comp = layers.pieces
        /\ act[p].pc # "remember" => Reserved \subseteq act[p].spared
        /\ act[p].pc # "remember" /\ act[p].sure /\ act[p].since = tweaks =>
              Declared(layers) \subseteq act[p].spared

\* No step of a command and no edit makes it wrong.
LEMMA KnowsStep ==
    ASSUME VolInv, \A p \in Procs : Knows(p), [VolNext]_volVars
    PROVE  \A p \in Procs : Knows(p)'
<1> SUFFICES ASSUME NEW p \in Procs PROVE Knows(p)'
  OBVIOUS
<1>k. Knows(p) /\ tweaks \in Nat /\ act[p] \in ActType /\ ActFits(act[p]) /\ act \in [Procs -> ActType]
  BY VolReads DEF VolInv, VolTypes
<1>1. CASE EditLayers
  <2>1. act' = act /\ tweaks' = tweaks + 1 BY <1>1 DEF EditLayers
  <2>2. act[p].since <= tweaks => act[p].since <= tweaks + 1 /\ act[p].since # tweaks + 1
    BY <1>k DEF ActType
  <2>3. QED BY <1>k, <2>1, <2>2 DEF Knows
<1>2. CASE UNCHANGED <<act, layers, tweaks>> BY <1>2, <1>k DEF Knows
<1>3. ASSUME NEW q \in Procs, VolStep(q) PROVE Knows(p)'
  <2>u. UNCHANGED <<layers, tweaks>>
    BY <1>3 DEF VolStep, ResolveStart, LockCommand, WriteRecord, Provision, BootGuest, SurveyPrune,
                SurveyRecord, SurveyImages, GuardPrune, RemoveOne, BeginTrim, Inflate, Deflate,
                NextRung, TrimVolumes, Perish, user
  <2>1. ASSUME NEW a, act' = [act EXCEPT ![q] = a],
               q = p => \/ a.kind # "prune"
                        \/ a.pc \notin {"remember", "enumerate", "lock", "guard", "remove"}
                        \/ /\ act[p].kind = "prune"
                           /\ act[p].pc \in {"enumerate", "lock", "guard", "remove"}
                           /\ a.pc # "remember" /\ a.since = act[p].since /\ a.sure = act[p].sure
                           /\ a.layers = act[p].layers /\ a.comp = act[p].comp
                           /\ a.spared = act[p].spared
        PROVE  Knows(p)'
    <3>1. CASE q = p
      <4>1. act'[p] = a BY <1>k, <2>1, <3>1
      <4>2. QED BY <1>k, <2>1, <2>u, <3>1, <4>1 DEF Knows
    <3>2. CASE q # p
      <4>1. act'[p] = act[p] BY <1>k, <2>1, <3>2
      <4>2. QED BY <1>k, <2>u, <4>1 DEF Knows
    <3>3. QED BY <3>1, <3>2
  <2>a. act[q] \in ActType /\ ActFits(act[q]) BY VolReads
  \* A change of the step alone
  <2>m. ASSUME NEW pc, act' = [act EXCEPT ![q] = [act[q] EXCEPT !.pc = pc]],
               \/ pc \notin {"remember", "enumerate", "lock", "guard", "remove"}
               \/ act[q].pc \in {"lock", "guard"} /\ pc \in {"guard", "remove"}
        PROVE  Knows(p)'
    <3> DEFINE a == [act[q] EXCEPT !.pc = pc]
    <3>1. /\ a.pc = pc /\ a.kind = act[q].kind /\ a.since = act[q].since /\ a.sure = act[q].sure
          /\ a.layers = act[q].layers /\ a.comp = act[q].comp /\ a.spared = act[q].spared
      BY <2>a DEF ActType
    <3> HIDE DEF a
    <3>2. act' = [act EXCEPT ![q] = a] BY <2>m DEF a
    <3>3. QED BY <2>1, <2>m, <3>1, <3>2
  <2>q. ASSUME NEW pc \in {"done", "failed", "warned", "dead"}, Quit(q, pc) PROVE Knows(p)'
    BY <2>m, <2>q DEF Quit, Become
  <2>2. CASE ResolveStart(q) \/ BeginTrim(q)
    <3> DEFINE a == [Waiting EXCEPT !.pc = "lock", !.kind = "start",
                        !.layers = layers.manifest, !.comp = layers.pieces]
               b == [Waiting EXCEPT !.pc = "lock", !.kind = "memory"]
    <3>1. a.kind = "start" /\ b.kind = "memory" BY DEF Waiting
    <3>2. act' = [act EXCEPT ![q] = a] \/ act' = [act EXCEPT ![q] = b]
      BY <2>2 DEF ResolveStart, BeginTrim, Become
    <3> HIDE DEF a, b
    <3>3. QED BY <2>1, <3>1, <3>2
  <2>3. CASE SurveyPrune(q)
    <3> DEFINE a == [Waiting EXCEPT !.pc = "remember", !.kind = "prune", !.since = tweaks,
                        !.layers = layers.manifest, !.comp = layers.pieces]
    <3>1. /\ a.pc = "remember" /\ a.since = tweaks /\ a.layers = layers.manifest
          /\ a.comp = layers.pieces
      BY DEF Waiting
    <3>2. act' = [act EXCEPT ![q] = a] BY <2>3 DEF SurveyPrune, Become
    <3> HIDE DEF a
    <3>3. CASE q = p
      <4>1. act'[p] = a BY <1>k, <3>2, <3>3
      <4>2. tweaks <= tweaks BY <1>k
      <4>3. QED BY <2>u, <3>1, <4>1, <4>2 DEF Knows
    <3>4. CASE q # p
      <4>1. act'[p] = act[p] BY <1>k, <3>2, <3>4
      <4>2. QED BY <1>k, <2>u, <4>1 DEF Knows
    <3>5. QED BY <3>3, <3>4
  <2>4. CASE SurveyRecord(q)
    <3> DEFINE spared == Reserved \cup Live(record, act[q].layers, act[q].comp)
               sure == record.comp = layers.pieces /\ ByPieces(layers) \subseteq record.others
               a == [act[q] EXCEPT !.pc = "enumerate", !.spared = spared, !.sure = sure]
    <3>1. /\ a.pc = "enumerate" /\ a.spared = spared /\ a.sure = sure /\ a.kind = act[q].kind
          /\ a.since = act[q].since /\ a.layers = act[q].layers /\ a.comp = act[q].comp
      BY <2>a DEF ActType
    <3>2. act' = [act EXCEPT ![q] = a] /\ act[q].pc = "remember"
      BY <2>4 DEF SurveyRecord, Become, VolAt
    <3> HIDE DEF a
    <3>3. CASE q = p
      <4>1. act'[p] = a BY <1>k, <3>2, <3>3
      <4>2. ASSUME sure, act[p].layers = layers.manifest, act[p].comp = layers.pieces
            PROVE  Declared(layers) \subseteq spared
        BY <3>3, <4>2 DEF Declared, Live
      <4>3. Reserved \subseteq spared OBVIOUS
      <4> HIDE DEF spared, sure
      <4>4. QED BY <1>k, <2>u, <3>1, <3>2, <3>3, <4>1, <4>2, <4>3 DEF Knows
    <3>4. CASE q # p
      <4>1. act'[p] = act[p] BY <1>k, <3>2, <3>4
      <4>2. QED BY <1>k, <2>u, <4>1 DEF Knows
    <3>5. QED BY <3>3, <3>4
  <2>5. ASSUME NEW pc \in {"lock", "remove"}, NEW todo,
               act' = [act EXCEPT ![q] = [act[q] EXCEPT !.pc = pc, !.todo = todo]],
               act[q].pc \in {"enumerate", "remove"}
        PROVE  Knows(p)'
    <3> DEFINE a == [act[q] EXCEPT !.pc = pc, !.todo = todo]
    <3>1. /\ a.pc = pc /\ a.kind = act[q].kind /\ a.since = act[q].since /\ a.sure = act[q].sure
          /\ a.layers = act[q].layers /\ a.comp = act[q].comp /\ a.spared = act[q].spared
      BY <2>a DEF ActType
    <3>2. act[q].kind = "prune" BY <2>5, <2>a DEF ActFits
    <3>3. act' = [act EXCEPT ![q] = a] BY <2>5
    <3> HIDE DEF a
    <3>4. QED BY <2>1, <2>5, <3>1, <3>2, <3>3
  <2>6. CASE SurveyImages(q)
    BY <2>5, <2>6 DEF SurveyImages, Become, VolAt
  <2>7. CASE RemoveOne(q)
    <3>1. ASSUME NEW n, Become(q, [act[q] EXCEPT !.todo = @ \ {n}]) PROVE Knows(p)'
      <4>1. [act[q] EXCEPT !.todo = @ \ {n}]
              = [act[q] EXCEPT !.pc = "remove", !.todo = act[q].todo \ {n}]
        BY <2>7, <2>a DEF RemoveOne, VolAt, ActType
      <4>2. QED BY <2>5, <2>7, <3>1, <4>1 DEF RemoveOne, VolAt, Become
    <3>2. QED BY <2>7, <2>q, <3>1 DEF RemoveOne
  <2>8. CASE LockCommand(q)
    <3>1. PICK pc \in {"record", "guard", "running", "request", "failed"} :
            act' = [act EXCEPT ![q] = [act[q] EXCEPT !.pc = pc]]
      BY <2>8, <2>a DEF LockCommand, TakeLock, Become, ActType
    <3>2. QED BY <2>8, <2>m, <3>1 DEF LockCommand, VolAt
  <2>9. CASE GuardPrune(q)
    BY <2>9, <2>m, <2>q DEF GuardPrune, Become, VolAt
  <2>10. CASE WriteRecord(q) \/ Provision(q) \/ BootGuest(q)
    <3>1. act[q].kind = "start" BY <2>10, <2>a DEF WriteRecord, Provision, BootGuest, VolAt, ActFits
    <3>2. ASSUME NEW a, act' = [act EXCEPT ![q] = a], a.kind = "start" PROVE Knows(p)'
      BY <2>1, <3>2
    <3>3. CASE WriteRecord(q)
      <4>1. ASSUME NEW v, Become(q, [act[q] EXCEPT !.pc = "provision", !.todo = v, !.spared = v])
            PROVE  Knows(p)'
        <5>1. [act[q] EXCEPT !.pc = "provision", !.todo = v, !.spared = v].kind = "start"
          BY <2>a, <3>1 DEF ActType
        <5>2. QED BY <3>2, <4>1, <5>1 DEF Become
      <4>2. QED BY <2>q, <3>3, <4>1 DEF WriteRecord
    <3>4. CASE Provision(q)
      <4>1. ASSUME NEW n, Become(q, [act[q] EXCEPT !.todo = @ \ {n}]) PROVE Knows(p)'
        <5>1. [act[q] EXCEPT !.todo = @ \ {n}].kind = "start" BY <2>a, <3>1 DEF ActType
        <5>2. QED BY <3>2, <4>1, <5>1 DEF Become
      <4>2. CASE UNCHANGED act BY <1>2, <2>u, <4>2
      <4>3. QED BY <3>4, <4>1, <4>2 DEF Provision
    <3>5. CASE BootGuest(q) BY <2>q, <3>5 DEF BootGuest
    <3>6. QED BY <2>10, <3>3, <3>4, <3>5
  <2>11. CASE Inflate(q) \/ Deflate(q)
    BY <2>11, <2>m, <2>q DEF Inflate, Deflate, Become
  <2>12. CASE NextRung(q)
    <3> DEFINE a == [act[q] EXCEPT !.pc = "lock", !.kind = "volumes", !.layers = layers.manifest,
                        !.todo = {n \in All : image[n] # "none"}
                                 \ Orphans(layers.manifest, layers.pieces)]
    <3>1. a.kind = "volumes" BY <2>a DEF ActType
    <3>2. act' = [act EXCEPT ![q] = a] BY <2>12 DEF NextRung, Become
    <3> HIDE DEF a
    <3>3. QED BY <2>1, <3>1, <3>2
  <2>13. CASE TrimVolumes(q) BY <2>13, <2>q DEF TrimVolumes
  <2>14. CASE Perish(q)
    BY <1>2, <2>14, <2>q, <2>u DEF Perish
  <2>15. QED
    BY <1>3, <2>2, <2>3, <2>4, <2>6, <2>7, <2>8, <2>9, <2>10, <2>11, <2>12, <2>13, <2>14 DEF VolStep
<1>4. CASE VmStops \/ UNCHANGED volVars BY <1>2, <1>4 DEF VmStops, volVars, user
<1>5. QED BY <1>1, <1>3, <1>4 DEF VolNext

\* What a prune removes, at that moment, is not reserved, and no layer in force
\* declares it, unless a layer was edited since the prune began or the record it
\* read was of other layers; for any number of processes that start, record,
\* stop, trim and prune in between (survey before the lock, remove_file under it).
THEOREM PrunesSpareTheKnown == VolSpec => PruneSparesKnown
<1> DEFINE I == VolInv /\ \A p \in Procs : Knows(p)
<1>1. VolInit => I
  <2>1. ASSUME VolInit, NEW p \in Procs PROVE Knows(p)
    <3>1. act[p] = Waiting BY <2>1 DEF VolInit
    <3>2. QED BY <3>1 DEF Waiting, Knows
  <2>2. QED BY <2>1, VolInitInv
<1>2. I /\ [VolNext]_volVars => I' BY VolStepInv, KnowsStep
<1>3. I /\ [VolNext]_volVars =>
        [\A p \in Procs, n \in All :
           act[p].pc = "remove" /\ image[n] # "none" /\ image'[n] = "none" /\ act'[p] # act[p] =>
              /\ n \notin Reserved
              /\ n \in Declared(layers) => act[p].since # tweaks \/ ~act[p].sure]_volVars
  <2> SUFFICES ASSUME I, VolNext, NEW p \in Procs, NEW n \in All, act[p].pc = "remove",
                      image[n] # "none", image'[n] = "none", act'[p] # act[p]
               PROVE  /\ n \notin Reserved
                      /\ n \in Declared(layers) => act[p].since # tweaks \/ ~act[p].sure
    OBVIOUS
  <2>k. Knows(p) /\ ActFits(act[p]) /\ act \in [Procs -> ActType] /\ image \in [All -> {"none", "ready"}]
    BY VolReads DEF VolInv, VolTypes
  <2>1. n \in act[p].todo
    <3>1. PICK q \in Procs : VolStep(q) BY DEF VolNext, VmStops, EditLayers, disk
    <3>2. RemoveOne(q) \/ Provision(q)
      BY <3>1 DEF VolStep, ResolveStart, LockCommand, WriteRecord, BootGuest, SurveyPrune,
                  SurveyRecord, SurveyImages, GuardPrune, BeginTrim, Inflate, Deflate,
                  NextRung, TrimVolumes, Perish, disk
    <3>3. RemoveOne(q) BY <2>k, <3>2 DEF Provision
    <3>4. q = p
      <4>1. PICK a : act' = [act EXCEPT ![q] = a]
        BY <3>3 DEF RemoveOne, Quit, Become
      <4>2. q # p => act'[p] = act[p] BY <2>k, <4>1
      <4>3. QED BY <4>2
    <3>5. PICK m \in act[p].todo : image' = [image EXCEPT ![m] = "none"]
      BY <3>3, <3>4 DEF RemoveOne
    <3>6. QED BY <2>k, <3>5
  <2>2. act[p].kind = "prune" /\ n \notin act[p].spared BY <2>1, <2>k DEF ActFits
  <2>3. QED BY <2>2, <2>k DEF Knows
<1> HIDE DEF I
<1>4. QED BY <1>1, <1>2, <1>3, PTL DEF VolSpec, PruneSparesKnown

-----------------------------------------------------------------------------
(* Publication: the shared pin and the shared tree.                        *)

CmdType ==
    [pc : {"idle", "resolve", "build", "stage", "publish", "migrate", "check",
           "evaluate", "evaluated", "install", "winner", "snapshot", "nixbuild",
           "locking", "prepare", "renix", "done", "failed"},
     eff : {"none", "override", "existing", "missing"}, shed : BOOLEAN,
     bytes : LockFile, seen : LockFile, snap : LockFile, built : LockFile,
     alone : BOOLEAN, still : BOOLEAN]

\* What a first pin or an update may rename over the owned lock, and what a
\* migration may: a retained lock without the dead node, sound or not.
Installable(lock) == lock # NoPin /\ lock.sound /\ ~lock.dead
Migrated(lock) == lock # NoPin /\ lock.pin = 0 /\ ~lock.dead

\* The record m is a migration between its read and its rename.
Migrating(m) == m.shed /\ m.pc \in {"stage", "publish", "migrate"}

\* What the record m of command c says about the files, at the step m is at.
\* A decision names a lock that is there; what is about to be written over the
\* pin was validated, or is the retained lock without its dead node; a command
\* that is still alone sees in the tree what it evaluated, and the first pin it
\* took part in is installed and stays until an update moves it.
CmdFits(c, m) ==
    /\ c \in Updaters => /\ ~m.alone
                         /\ m.pc \in {"idle", "locking", "prepare", "renix", "install",
                                      "done", "failed"}
                         /\ m.pc \in {"prepare", "renix", "install"} => target = c
    /\ c \notin Updaters => m.pc \notin {"locking", "prepare", "renix"}
    /\ m.eff = "existing" => owned # NoPin
    /\ m.eff = "override" => override # NoPin
    /\ Migrating(m) => /\ m.eff = "existing" /\ Migrated(m.bytes)
                       /\ m.still => owned = m.bytes \/ (owned.dead /\ m.bytes = Shed(owned))
                       /\ ~m.still => ~owned.dead
    /\ m.pc = "migrate" => m.shed
    /\ m.pc = "stage" /\ ~m.shed => /\ m.eff = "existing" => ~owned.dead
                                    /\ m.eff = "override" => ~override.dead
    /\ m.pc = "publish" => m.bytes = NoPin \/ ~m.bytes.dead
    /\ m.pc \in {"install", "winner"} => Installable(m.bytes)
    /\ m.alone /\ m.pc \in {"evaluated", "install", "winner", "snapshot", "nixbuild", "done"} =>
          tree # NoPin /\ m.seen = tree
    /\ m.alone /\ m.pc \in {"nixbuild", "done"} => m.snap = m.seen
    /\ m.alone /\ m.pc = "done" /\ c \in Starters => m.built = m.seen
    /\ c \notin Updaters /\ m.eff = "missing" =>
          /\ m.alone /\ m.pc \in {"install", "winner", "snapshot", "nixbuild", "done"} =>
                m.bytes = m.seen
          /\ m.pc \in {"snapshot", "nixbuild", "done"} =>
                owned # NoPin /\ (m.still => owned = m.bytes)

\* Some command found no lock at all.
Virgin == \E c \in Commands : cmd[c].eff = "missing"

\* Migrations that overlap read the same lock, before the same update; and where
\* there once was no lock there is nothing to migrate.
MigrationsAgree ==
    /\ \A c, d \in Commands :
          Migrating(cmd[c]) /\ Migrating(cmd[d]) => cmd[c].still = cmd[d].still
    /\ Virgin => /\ owned # NoPin => ~owned.dead
                 /\ \A c \in Commands : ~Migrating(cmd[c])

\* The dead node is in a retained lock only, and never in the shared tree.
DeadIsRetained == owned # NoPin /\ owned.dead => owned.pin = 0
TreeIsClean == tree # NoPin => ~tree.dead

\* The inductive invariant.
PubInv ==
    /\ PubTypeOK /\ OwnedIsSound /\ DeadIsRetained /\ TreeIsClean /\ MigrationsAgree
    /\ \A c \in Commands : CmdFits(c, cmd[c])

\* The pin changes as command c may change it: it is installed where there was
\* none, or a migration takes the dead node out, or takes back an update.
PinMoves ==
    \/ owned' = owned
    \/ owned = NoPin
    \/ ~Virgin /\ owned.dead /\ owned' = Shed(owned)
    \/ ~Virgin /\ \A d \in Commands : Migrating(cmd[d]) => ~cmd[d].still

\* The files change as a command may change them: nothing that is there is lost,
\* the pin stays sound, and the tree changes only where there was none.
FilesKeep(c) ==
    /\ owned' \in LockFile /\ override' \in LockFile /\ tree' \in LockFile
    /\ head' \in 0..MaxHead /\ target' \in Locking \cup {Free}
    /\ target' = target \/ target = Free \/ target = c
    /\ owned # NoPin => owned' # NoPin /\ (~owned.dead => ~owned'.dead)
    /\ override # NoPin => override' = override
    /\ tree # NoPin => tree' = tree
    /\ OwnedIsSound' /\ DeadIsRetained' /\ TreeIsClean'
    /\ PinMoves

LEMMA PubReads ==
    ASSUME PubInv, NEW c \in Commands
    PROVE  /\ cmd \in [Commands -> CmdType] /\ cmd[c] \in CmdType /\ CmdFits(c, cmd[c])
           /\ owned \in LockFile /\ override \in LockFile /\ tree \in LockFile
           /\ head \in 0..MaxHead /\ target \in Locking \cup {Free} /\ OwnedIsSound
           /\ DeadIsRetained /\ TreeIsClean /\ MigrationsAgree
           /\ c \in Updaters => c \notin Readers /\ c \notin Starters /\ c \in Locking
           /\ c \in Starters => c \notin Readers /\ c \in Locking
           /\ c \notin Updaters => c \in Readers \cup Starters
           /\ c # Free
BY PublicationAssumption DEF PubInv, PubTypeOK, CmdType, Commands, Locking

\* What shed_vivarium leaves of a retained lock.
LEMMA ShedKeeps ==
    ASSUME NEW lock \in PinnedLock
    PROVE  /\ Shed(lock) \in PinnedLock /\ Shed(lock) # NoPin /\ ~Shed(lock).dead
           /\ Shed(lock).pin = lock.pin
<1>1. Shed(lock) \in PinnedLock /\ ~Shed(lock).dead /\ Shed(lock).pin = lock.pin
  BY DEF Shed, PinnedLock
<1>2. QED BY <1>1, PublicationAssumption

\* A command that touches no file.
LEMMA NoFile ==
    ASSUME PubInv, NEW c \in Commands, UNCHANGED <<owned, override, tree, head>>,
           target' \in Locking \cup {Free}, target' = target \/ target = Free \/ target = c
    PROVE  FilesKeep(c)
BY PubReads DEF FilesKeep, OwnedIsSound, DeadIsRetained, TreeIsClean, PinMoves

\* A step that starts no migration, and finds no missing lock, disturbs nobody's
\* migration.
LEMMA AgreementKeeps ==
    ASSUME PubInv, NEW c \in Commands, NEW n \in CmdType,
           cmd' = [cmd EXCEPT ![c] = n], owned # NoPin /\ ~owned.dead => ~owned'.dead,
           owned' # owned /\ owned = NoPin => owned' = NoPin \/ ~owned'.dead,
           owned = NoPin \/ owned' # NoPin,
           Migrating(n) => Migrating(cmd[c]) /\ n.still = cmd[c].still,
           n.eff = "missing" => cmd[c].eff = "missing"
    PROVE  MigrationsAgree'
<1>1. cmd'[c] = n /\ \A d \in Commands : d # c => cmd'[d] = cmd[d] BY PubReads
<1>2. ASSUME NEW d \in Commands
      PROVE  /\ Migrating(cmd'[d]) => Migrating(cmd[d]) /\ cmd'[d].still = cmd[d].still
             /\ cmd'[d].eff = "missing" => cmd[d].eff = "missing"
  BY <1>1
<1>3. MigrationsAgree BY PubReads
<1>4. Virgin' => Virgin BY <1>2 DEF Virgin
<1>5. Virgin' => (owned' # NoPin => ~owned'.dead) BY <1>3, <1>4 DEF MigrationsAgree
<1>6. QED BY <1>2, <1>3, <1>4, <1>5 DEF MigrationsAgree, Migrating

\* One command steps: the others still fit what they read.
LEMMA CommandMoves ==
    ASSUME PubInv, NEW c \in Commands, NEW n \in CmdType,
           cmd' = [cmd EXCEPT ![c] = n], CmdFits(c, n)', FilesKeep(c), MigrationsAgree'
    PROVE  PubInv'
<1>1. cmd'[c] = n /\ cmd' \in [Commands -> CmdType] /\ \A d \in Commands : d # c => cmd'[d] = cmd[d]
  BY PubReads
<1>2. PubTypeOK' BY <1>1 DEF PubTypeOK, FilesKeep, CmdType
<1>3. ASSUME NEW d \in Commands, d # c PROVE CmdFits(d, cmd[d])'
  <2>1. PICK m : m = cmd[d] OBVIOUS
  <2>2. cmd'[d] = m BY <1>1, <1>3, <2>1
  <2>3. CmdFits(d, m) /\ d # Free BY <2>1, PubReads
  <2>4. Migrating(m)' <=> Migrating(m) BY DEF Migrating
  <2>5. m.eff = "missing" => Virgin BY <2>1 DEF Virgin
  <2>6. owned # NoPin => owned' # NoPin /\ (~owned.dead => ~owned'.dead) BY DEF FilesKeep
  <2>7. Migrating(m) =>
            /\ m.eff = "existing" /\ Migrated(m.bytes) /\ owned # NoPin
            /\ m.still => owned' = m.bytes \/ (owned'.dead /\ m.bytes = Shed(owned'))
            /\ ~m.still => ~owned'.dead
    <3>1. SUFFICES ASSUME Migrating(m), m.still
                   PROVE  owned' = m.bytes \/ (owned'.dead /\ m.bytes = Shed(owned'))
      BY <2>3, <2>6 DEF CmdFits
    <3>2. owned # NoPin /\ (owned = m.bytes \/ (owned.dead /\ m.bytes = Shed(owned)))
      BY <2>3, <3>1 DEF CmdFits
    <3>3. ~m.bytes.dead BY <2>3, <3>1 DEF CmdFits, Migrated
    <3>4. CASE owned' = owned BY <3>2, <3>4
    <3>5. CASE owned.dead /\ owned' = Shed(owned) BY <3>2, <3>3, <3>5
    <3>6. QED BY <2>1, <3>1, <3>2, <3>4, <3>5 DEF FilesKeep, PinMoves
  <2>8. Migrated(m.bytes)' <=> Migrated(m.bytes) BY DEF Migrated
  <2>9. d \notin Updaters /\ m.eff = "missing" /\ m.pc \in {"snapshot", "nixbuild", "done"} =>
            owned' # NoPin /\ (m.still => owned' = m.bytes)
    BY <2>3, <2>5, <2>6 DEF CmdFits, FilesKeep, PinMoves
  <2>10. Installable(m.bytes)' <=> Installable(m.bytes) BY DEF Installable
  <2>11. CmdFits(d, m)'
    BY <1>3, <2>3, <2>4, <2>6, <2>7, <2>8, <2>9, <2>10 DEF CmdFits, FilesKeep
  <2>12. QED BY <2>2, <2>11 DEF CmdFits, Migrating, Migrated, Installable
<1>4. CmdFits(c, cmd[c])' BY <1>1 DEF CmdFits, Migrating, Migrated, Installable
<1>5. QED BY <1>2, <1>3, <1>4 DEF PubInv, FilesKeep

\* A command that moves on without touching a file.
LEMMA QuietMoves ==
    ASSUME PubInv, NEW c \in Commands, NEW n \in CmdType,
           cmd' = [cmd EXCEPT ![c] = n], CmdFits(c, n)',
           UNCHANGED <<owned, override, tree, head>>,
           target' \in Locking \cup {Free}, target' = target \/ target = Free \/ target = c,
           Migrating(n) => Migrating(cmd[c]) /\ n.still = cmd[c].still,
           n.eff = "missing" => cmd[c].eff = "missing"
    PROVE  PubInv'
<1>1. FilesKeep(c) BY NoFile
<1>2. MigrationsAgree' BY AgreementKeeps
<1>3. QED BY <1>1, <1>2, CommandMoves

\* A command that fails drops its lock and touches no file.
LEMMA FailInv ==
    ASSUME PubInv, NEW c \in Commands, FailAndDrop(c)
    PROVE  PubInv'
<1>1. PICK n : n = [cmd[c] EXCEPT !.pc = "failed"] OBVIOUS
<1>2. cmd' = [cmd EXCEPT ![c] = n] BY <1>1, PubReads DEF FailAndDrop, Fails
<1>3. /\ n \in CmdType /\ n.pc = "failed" /\ n.eff = cmd[c].eff /\ n.alone = cmd[c].alone
      /\ ~Migrating(n)
  BY <1>1, PubReads DEF CmdType, Migrating
<1>4. /\ target' \in Locking \cup {Free} /\ (target' = target \/ target = Free \/ target = c)
      /\ UNCHANGED <<owned, override, tree, head>>
  BY PubReads DEF FailAndDrop, Drop
<1>5. CmdFits(c, n)' BY <1>3, <1>4, PubReads DEF CmdFits, Migrating
<1>6. QED BY <1>2, <1>3, <1>4, <1>5, QuietMoves

\* The lock in force is decided, read and staged.
LEMMA PlanInv ==
    ASSUME PubInv, NEW c \in Commands,
           Begin(c) \/ Resolve(c) \/ BuildPlan(c) \/ StageTree(c)
    PROVE  PubInv'
<1>1. CASE Begin(c)
  <2>1. PICK pc \in {"resolve", "failed"} :
           /\ cmd' = [cmd EXCEPT ![c].pc = pc] /\ (target' = target \/ target = Free)
           /\ c \notin Updaters /\ target' \in Locking \cup {Free}
    BY <1>1, PubReads DEF Begin, Goto, Acquire
  <2>2. PICK n : n = [cmd[c] EXCEPT !.pc = pc] OBVIOUS
  <2>3. cmd' = [cmd EXCEPT ![c] = n] BY <2>1, <2>2, PubReads
  <2>4. n \in CmdType /\ n.pc = pc /\ n.eff = cmd[c].eff /\ n.alone = cmd[c].alone /\ ~Migrating(n)
    BY <2>2, PubReads DEF CmdType, Migrating
  <2>5. UNCHANGED <<owned, override, tree, head>> BY <1>1 DEF Begin
  <2>6. CmdFits(c, n)' BY <2>1, <2>4, <2>5, PubReads DEF CmdFits, Migrating
  <2>7. QED BY <2>1, <2>3, <2>4, <2>5, <2>6, QuietMoves
<1>2. CASE Resolve(c)
  <2>1. PICK n : n = [cmd[c] EXCEPT !.pc = "build", !.eff = SelectLock] OBVIOUS
  <2>2. /\ cmd' = [cmd EXCEPT ![c] = n] /\ UNCHANGED <<owned, override, tree, head, target>>
    BY <1>2, <2>1, PubReads DEF Resolve
  <2>3. /\ n \in CmdType /\ n.pc = "build" /\ n.eff = SelectLock /\ n.alone = cmd[c].alone
        /\ ~Migrating(n)
    BY <2>1, PubReads DEF CmdType, SelectLock, Migrating
  <2>4. FilesKeep(c) BY <2>2, NoFile, PubReads
  <2>5. c \notin Updaters BY <1>2, PubReads DEF Resolve
  <2>6. CmdFits(c, n)' BY <2>2, <2>3, <2>5, PubReads DEF CmdFits, SelectLock, Migrating
  <2>7. MigrationsAgree'
    <3>1. CASE SelectLock # "missing" BY <2>2, <2>3, <3>1, AgreementKeeps
    <3>2. CASE SelectLock = "missing"
      <4>1. owned = NoPin BY <3>2 DEF SelectLock
      <4>2. ASSUME NEW d \in Commands PROVE ~Migrating(cmd[d])
        BY <4>1, PubReads DEF CmdFits
      <4>3. ASSUME NEW d \in Commands PROVE ~Migrating(cmd'[d])
        BY <2>2, <2>3, <4>2, PubReads
      <4>4. QED BY <2>2, <4>1, <4>3 DEF MigrationsAgree, Migrating
    <3>3. QED BY <3>1, <3>2
  <2>8. QED BY <2>2, <2>3, <2>4, <2>6, <2>7, CommandMoves
<1>3. CASE BuildPlan(c)
  <2>1. CASE FailAndDrop(c) BY <2>1, FailInv
  <2>2. ASSUME NEW shed \in BOOLEAN, shed = (cmd[c].eff = "existing" /\ owned.dead),
               cmd[c].eff = "override" => ~override.dead,
               cmd' = [cmd EXCEPT ![c].pc = "stage", ![c].shed = shed, ![c].still = TRUE,
                                  ![c].bytes = IF shed THEN Shed(owned) ELSE NoPin],
               UNCHANGED <<owned, override, tree, head, target>>
        PROVE  PubInv'
    <3>1. PICK n : n = [cmd[c] EXCEPT !.pc = "stage", !.shed = shed, !.still = TRUE,
                                      !.bytes = IF shed THEN Shed(owned) ELSE NoPin]
      OBVIOUS
    <3>2. cmd' = [cmd EXCEPT ![c] = n] BY <2>2, <3>1, PubReads
    <3>3. shed => owned # NoPin /\ Shed(owned) \in PinnedLock /\ Migrated(Shed(owned))
      <4>1. shed => owned \in PinnedLock /\ owned.dead /\ owned # NoPin /\ owned.pin = 0
        BY <2>2, PubReads DEF CmdFits, LockFile, DeadIsRetained
      <4>2. QED BY <4>1, ShedKeeps DEF Migrated
    <3>4. /\ n \in CmdType /\ n.pc = "stage" /\ n.shed = shed /\ n.eff = cmd[c].eff
          /\ n.alone = cmd[c].alone /\ n.still /\ (shed => n.bytes = Shed(owned))
          /\ Migrating(n) = shed
      BY <3>1, <3>3, PubReads DEF CmdType, LockFile, Migrating
    <3>5. FilesKeep(c) BY <2>2, NoFile, PubReads
    <3>6. c \notin Updaters BY <1>3, PubReads DEF BuildPlan
    <3>7. CmdFits(c, n)'
      BY <2>2, <3>3, <3>4, <3>6, PubReads DEF CmdFits, Migrating, Migrated, Shed
    <3>8. MigrationsAgree'
      <4>1. CASE ~shed BY <2>2, <3>2, <3>4, <4>1, AgreementKeeps
      <4>2. CASE shed
        <5>1. owned # NoPin /\ owned.dead BY <2>2, <3>3, <4>2
        <5>2. ~Virgin BY <5>1, PubReads DEF MigrationsAgree
        <5>3. ASSUME NEW d \in Commands PROVE Migrating(cmd'[d]) => cmd'[d].still
          <6>1. Migrating(cmd[d]) => cmd[d].still BY <5>1, PubReads DEF CmdFits
          <6>2. d # c => cmd'[d] = cmd[d] BY <3>2, PubReads
          <6>3. cmd'[c] = n BY <3>2, PubReads
          <6>4. QED BY <3>4, <6>1, <6>2, <6>3
        <5>4. ASSUME NEW d \in Commands PROVE cmd'[d].still \in BOOLEAN
          <6>1. cmd'[d] \in CmdType BY <3>2, <3>4, PubReads
          <6>2. QED BY <6>1 DEF CmdType
        <5>5. ASSUME NEW d \in Commands PROVE cmd'[d].eff = cmd[d].eff
          BY <3>2, <3>4, PubReads
        <5>6. ~Virgin' BY <5>2, <5>5 DEF Virgin
        <5>7. QED BY <5>3, <5>4, <5>6 DEF MigrationsAgree, Migrating
      <4>3. QED BY <4>1, <4>2
    <3>9. QED BY <3>2, <3>4, <3>5, <3>7, <3>8, CommandMoves
  <2>3. QED BY <1>3, <2>1, <2>2 DEF BuildPlan
<1>4. CASE StageTree(c)
  <2>1. CASE FailAndDrop(c) BY <2>1, FailInv
  <2>2. CASE /\ cmd' = [cmd EXCEPT ![c].pc = "publish",
                           ![c].bytes = IF cmd[c].shed THEN @ ELSE CopiedLock(c)]
             /\ UNCHANGED <<owned, override, tree, head, target>>
    <3>1. PICK n : n = [cmd[c] EXCEPT !.pc = "publish",
                           !.bytes = IF cmd[c].shed THEN cmd[c].bytes ELSE CopiedLock(c)]
      OBVIOUS
    <3>2. cmd' = [cmd EXCEPT ![c] = n] BY <2>2, <3>1, PubReads
    <3>3. CopiedLock(c) \in LockFile BY PubReads DEF CopiedLock, CmdType, LockFile
    <3>4. /\ n \in CmdType /\ n.pc = "publish" /\ n.shed = cmd[c].shed /\ n.eff = cmd[c].eff
          /\ n.alone = cmd[c].alone /\ n.still = cmd[c].still
          /\ n.bytes = (IF cmd[c].shed THEN cmd[c].bytes ELSE CopiedLock(c))
      BY <3>1, <3>3, PubReads DEF CmdType
    <3>5. cmd[c].pc = "stage" /\ Migrating(n) = Migrating(cmd[c])
      BY <1>4, <3>4 DEF StageTree, PubAt, Migrating
    <3>6. n.bytes = NoPin \/ ~n.bytes.dead
      BY <3>4, <3>5, PubReads DEF CmdFits, Migrating, Migrated, CopiedLock
    <3>7. CmdFits(c, n)'
      BY <2>2, <3>4, <3>5, <3>6, PubReads DEF CmdFits, Migrating, Migrated, Shed
    <3>8. QED BY <2>2, <3>2, <3>4, <3>5, <3>7, PubReads, QuietMoves
  <2>3. QED BY <1>4, <2>1, <2>2 DEF StageTree
<1>5. QED BY <1>1, <1>2, <1>3, <1>4

\* The tree is replaced whole: whoever was alone with it no longer is.
LEMMA PublishInv ==
    ASSUME PubInv, NEW c \in Commands, PublishTree(c)
    PROVE  PubInv'
<1>1. PICK n : n = [cmd[c] EXCEPT !.pc = IF cmd[c].shed THEN "migrate" ELSE "check",
                                  !.alone = TRUE]
  OBVIOUS
<1>2. /\ cmd[c].pc = "publish" /\ tree' = cmd[c].bytes
      /\ UNCHANGED <<owned, override, head, target>>
      /\ cmd' = [d \in Commands |-> IF d = c THEN n ELSE [cmd[d] EXCEPT !.alone = FALSE]]
  BY <1>1 DEF PublishTree, PubAt
<1>3. /\ n \in CmdType /\ n.pc = (IF cmd[c].shed THEN "migrate" ELSE "check")
      /\ n.shed = cmd[c].shed /\ n.eff = cmd[c].eff /\ n.bytes = cmd[c].bytes
      /\ n.still = cmd[c].still
  BY <1>1, PubReads DEF CmdType
<1>4. c \notin Updaters BY <1>2, PubReads DEF CmdFits
<1>5. Migrating(n) = Migrating(cmd[c]) BY <1>2, <1>3 DEF Migrating
<1>6. CmdFits(c, n)'
  BY <1>2, <1>3, <1>4, <1>5, PubReads DEF CmdFits, Migrating, Migrated, Shed
<1>7. ASSUME NEW d \in Commands, d # c
      PROVE  /\ cmd'[d] \in CmdType /\ CmdFits(d, cmd[d])'
             /\ Migrating(cmd'[d]) = Migrating(cmd[d]) /\ cmd'[d].still = cmd[d].still
             /\ cmd'[d].eff = cmd[d].eff
  <2>1. PICK m : m = [cmd[d] EXCEPT !.alone = FALSE] OBVIOUS
  <2>2. cmd[d] \in CmdType /\ CmdFits(d, cmd[d]) BY PubReads
  <2>3. /\ m \in CmdType /\ ~m.alone /\ m.pc = cmd[d].pc /\ m.eff = cmd[d].eff
        /\ m.shed = cmd[d].shed /\ m.bytes = cmd[d].bytes /\ m.still = cmd[d].still
    BY <2>1, <2>2 DEF CmdType
  <2>4. Migrating(m) = Migrating(cmd[d]) BY <2>3 DEF Migrating
  <2>5. CmdFits(d, m)'
    BY <1>2, <2>2, <2>3, <2>4 DEF CmdFits, Migrating, Migrated, Installable, Shed
  <2>6. cmd'[d] = m BY <1>2, <1>7, <2>1
  <2>7. QED BY <2>3, <2>4, <2>5, <2>6 DEF CmdFits, Migrating, Migrated, Installable
<1>8. cmd'[c] = n BY <1>2
<1>9. cmd' \in [Commands -> CmdType] BY <1>2, <1>3, <1>7, <1>8
<1>10. PubTypeOK' BY <1>2, <1>9, PubReads DEF PubTypeOK, CmdType
<1>11. CmdFits(c, cmd[c])' BY <1>6, <1>8 DEF CmdFits, Migrating, Migrated, Installable
<1>12. ASSUME NEW d \in Commands
       PROVE  /\ Migrating(cmd'[d]) = Migrating(cmd[d]) /\ cmd'[d].still = cmd[d].still
              /\ cmd'[d].eff = cmd[d].eff
  BY <1>3, <1>5, <1>7, <1>8
<1>13. MigrationsAgree'
  <2>1. Virgin' = Virgin BY <1>12 DEF Virgin
  <2>2. MigrationsAgree BY PubReads
  <2>3. QED BY <1>2, <1>12, <2>1, <2>2 DEF MigrationsAgree, Migrating
<1>14. TreeIsClean' BY <1>2, PubReads DEF TreeIsClean, CmdFits
<1>15. QED BY <1>2, <1>7, <1>10, <1>11, <1>13, <1>14, PubReads
  DEF PubInv, OwnedIsSound, DeadIsRetained

\* The migration and the check of a lock that already existed.
LEMMA CheckInv ==
    ASSUME PubInv, NEW c \in Commands, MigrateOwned(c) \/ CheckStaged(c)
    PROVE  PubInv'
<1>1. CASE FailAndDrop(c) BY <1>1, FailInv
<1>2. ASSUME NEW pc \in {"check", "evaluate"}, Goto(c, pc), c \notin Updaters, FilesKeep(c)
      PROVE  PubInv'
  <2>1. PICK n : n = [cmd[c] EXCEPT !.pc = pc] OBVIOUS
  <2>2. cmd' = [cmd EXCEPT ![c] = n] BY <1>2, <2>1, PubReads DEF Goto
  <2>3. n \in CmdType /\ n.pc = pc /\ n.eff = cmd[c].eff /\ n.alone = cmd[c].alone /\ ~Migrating(n)
    BY <2>1, PubReads DEF CmdType, Migrating
  <2>4. CmdFits(c, n)' BY <1>2, <2>3, PubReads DEF CmdFits, FilesKeep, Migrating
  <2>5. owned' # owned /\ owned = NoPin => owned' = NoPin \/ ~owned'.dead
    <3>1. cmd[c].pc \in {"migrate", "check"} /\ (cmd[c].pc = "check" => owned' = owned)
      BY <1>2, <2>2, <2>3 DEF MigrateOwned, CheckStaged, PubAt, FailAndDrop
    <3>2. cmd[c].pc = "migrate" => owned # NoPin
      BY PubReads DEF CmdFits, Migrating
    <3>3. QED BY <3>1, <3>2
  <2>6. MigrationsAgree' BY <1>2, <2>2, <2>3, <2>5, AgreementKeeps DEF FilesKeep
  <2>7. QED BY <1>2, <2>2, <2>3, <2>4, <2>6, CommandMoves
<1>3. CASE MigrateOwned(c)
  <2>1. /\ cmd[c].pc = "migrate" /\ owned' = cmd[c].bytes
        /\ UNCHANGED <<override, tree, head, target>> /\ Goto(c, "check")
    BY <1>3 DEF MigrateOwned, PubAt
  <2>2. Migrating(cmd[c]) BY <2>1, PubReads DEF CmdFits, Migrating
  <2>3. /\ c \notin Updaters /\ Migrated(cmd[c].bytes) /\ cmd[c].bytes \in LockFile
        /\ owned # NoPin /\ cmd[c].still \in BOOLEAN
        /\ cmd[c].still => owned = cmd[c].bytes \/ (owned.dead /\ cmd[c].bytes = Shed(owned))
    BY <2>1, <2>2, PubReads DEF CmdFits, CmdType
  <2>4. ~Virgin BY <2>2, PubReads DEF MigrationsAgree
  <2>5. PinMoves
    <3>1. CASE cmd[c].still BY <2>1, <2>3, <2>4, <3>1 DEF PinMoves
    <3>2. CASE ~cmd[c].still
      <4>1. ASSUME NEW d \in Commands, Migrating(cmd[d]) PROVE ~cmd[d].still
        BY <2>2, <3>2, <4>1, PubReads DEF MigrationsAgree
      <4>2. QED BY <2>4, <4>1 DEF PinMoves
    <3>3. QED BY <2>3, <3>1, <3>2
  <2>6. FilesKeep(c)
    BY <2>1, <2>3, <2>5, PubReads
    DEF FilesKeep, OwnedIsSound, DeadIsRetained, TreeIsClean, Migrated
  <2>7. QED BY <1>2, <2>1, <2>3, <2>6
<1>4. CASE CheckStaged(c)
  <2>1. CASE Goto(c, "evaluate") /\ UNCHANGED <<owned, override, tree, head, target>>
    <3>1. c \notin Updaters BY <1>4, PubReads DEF CheckStaged, PubAt, CmdFits
    <3>2. FilesKeep(c) BY <2>1, NoFile, PubReads
    <3>3. QED BY <1>2, <2>1, <3>1, <3>2
  <2>2. QED BY <1>1, <1>4, <2>1 DEF CheckStaged
<1>5. QED BY <1>3, <1>4

\* A lock nix writes is at upstream's head and free of the dead node.
LEMMA WrittenIsClean ==
    ASSUME PubInv, NEW c \in Commands, NEW sound \in BOOLEAN
    PROVE  /\ Written(sound) \in PinnedLock /\ Written(sound) # NoPin
           /\ ~Written(sound).dead /\ Written(sound).sound = sound
<1>1. /\ Written(sound) \in PinnedLock /\ ~Written(sound).dead /\ Written(sound).sound = sound
  BY PubReads DEF Written, PinnedLock
<1>2. QED BY <1>1, PublicationAssumption

\* nix evaluates the tree: it reads the lock there, or writes one where none is.
LEMMA EvaluateInv ==
    ASSUME PubInv, NEW c \in Commands, NixEval(c)
    PROVE  PubInv'
<1>1. CASE FailAndDrop(c) BY <1>1, FailInv
<1>2. ASSUME NEW lock \in PinnedLock, tree' = lock, tree # NoPin => lock = tree, ~lock.dead,
             cmd' = [cmd EXCEPT ![c].pc = "evaluated", ![c].seen = lock],
             UNCHANGED <<owned, override, head, target>>
      PROVE  PubInv'
  <2>1. PICK n : n = [cmd[c] EXCEPT !.pc = "evaluated", !.seen = lock] OBVIOUS
  <2>2. cmd' = [cmd EXCEPT ![c] = n] BY <1>2, <2>1, PubReads
  <2>3. /\ n \in CmdType /\ n.pc = "evaluated" /\ n.eff = cmd[c].eff /\ n.seen = lock
        /\ n.alone = cmd[c].alone /\ ~Migrating(n)
    BY <2>1, PubReads DEF CmdType, LockFile, Migrating
  <2>4. FilesKeep(c)
    BY <1>2, PubReads
    DEF FilesKeep, OwnedIsSound, DeadIsRetained, TreeIsClean, PinMoves, LockFile
  <2>5. c \notin Updaters /\ lock # NoPin
    BY PubReads, PublicationAssumption DEF NixEval, PubAt, CmdFits
  <2>6. CmdFits(c, n)' BY <1>2, <2>3, <2>5, PubReads DEF CmdFits, Migrating
  <2>7. MigrationsAgree' BY <1>2, <2>2, <2>3, AgreementKeeps
  <2>8. QED BY <2>2, <2>3, <2>4, <2>6, <2>7, CommandMoves
<1>3. CASE /\ tree # NoPin
           /\ cmd' = [cmd EXCEPT ![c].pc = "evaluated", ![c].seen = tree]
           /\ UNCHANGED <<owned, override, tree, head, target>>
  <2>1. tree \in PinnedLock /\ ~tree.dead BY <1>3, PubReads DEF LockFile, TreeIsClean
  <2>2. QED BY <1>2, <1>3, <2>1
<1>4. CASE /\ tree = NoPin
           /\ \E sound \in BOOLEAN :
                /\ tree' = Written(sound)
                /\ cmd' = [cmd EXCEPT ![c].pc = "evaluated", ![c].seen = Written(sound)]
           /\ UNCHANGED <<owned, override, head, target>>
  <2>1. PICK sound \in BOOLEAN :
           /\ tree' = Written(sound)
           /\ cmd' = [cmd EXCEPT ![c].pc = "evaluated", ![c].seen = Written(sound)]
    BY <1>4
  <2>2. PICK lock \in PinnedLock : lock = Written(sound) /\ ~lock.dead BY WrittenIsClean
  <2>3. QED BY <1>2, <1>4, <2>1, <2>2
<1>5. QED BY <1>1, <1>3, <1>4 DEF NixEval

\* The created lock is read back, validated, and installed once; the loser
\* compares.
LEMMA FirstPinInv ==
    ASSUME PubInv, NEW c \in Commands, ReadCreated(c) \/ InstallFirst(c) \/ ReadWinner(c)
    PROVE  PubInv'
<1>1. CASE FailAndDrop(c) BY <1>1, FailInv
<1>2. c \notin Updaters BY PubReads DEF ReadCreated, InstallFirst, ReadWinner, PubAt, CmdFits
<1>3. ASSUME NEW pc \in {"winner", "snapshot"}, NEW still \in BOOLEAN,
             cmd' = [cmd EXCEPT ![c].pc = pc, ![c].still = still], FilesKeep(c),
             UNCHANGED <<override, tree>>,
             owned' # owned /\ owned = NoPin => ~owned'.dead,
             cmd[c].pc \in {"evaluated", "install", "winner"},
             pc = "winner" => Installable(cmd[c].bytes),
             pc = "snapshot" /\ cmd[c].eff = "missing" => owned' # NoPin /\ owned' = cmd[c].bytes,
             cmd[c].eff = "missing" => cmd[c].pc # "evaluated"
      PROVE  PubInv'
  <2>1. PICK n : n = [cmd[c] EXCEPT !.pc = pc, !.still = still] OBVIOUS
  <2>2. cmd' = [cmd EXCEPT ![c] = n] BY <1>3, <2>1, PubReads
  <2>3. /\ n \in CmdType /\ n.pc = pc /\ n.eff = cmd[c].eff /\ n.alone = cmd[c].alone
        /\ n.seen = cmd[c].seen /\ n.bytes = cmd[c].bytes /\ ~Migrating(n)
    BY <1>3, <2>1, PubReads DEF CmdType, Migrating
  <2>4. CmdFits(c, n)' BY <1>2, <1>3, <2>3, PubReads DEF CmdFits, FilesKeep, Migrating, Installable
  <2>5. MigrationsAgree' BY <1>3, <2>2, <2>3, AgreementKeeps DEF FilesKeep
  <2>6. QED BY <1>3, <2>2, <2>3, <2>4, <2>5, CommandMoves
<1>4. ASSUME NEW pc \in {"winner", "snapshot"}, Goto(c, pc)
      PROVE  /\ cmd' = [cmd EXCEPT ![c].pc = pc, ![c].still = cmd[c].still]
             /\ cmd[c].still \in BOOLEAN
  <2>1. cmd[c] \in CmdType /\ cmd \in [Commands -> CmdType] BY PubReads
  <2>2. cmd[c].still \in BOOLEAN BY <2>1 DEF CmdType
  <2>3. [cmd[c] EXCEPT !.pc = pc] = [cmd[c] EXCEPT !.pc = pc, !.still = cmd[c].still]
    BY <2>1 DEF CmdType
  <2>4. QED BY <1>4, <2>1, <2>2, <2>3 DEF Goto
<1>5. CASE ReadCreated(c)
  <2>1. cmd[c].pc = "evaluated" BY <1>5 DEF ReadCreated, PubAt
  <2>2. CASE /\ cmd[c].eff # "missing" /\ Goto(c, "snapshot")
             /\ UNCHANGED <<owned, override, tree, head, target>>
    <3>1. FilesKeep(c) BY <2>2, NoFile, PubReads
    <3>2. QED BY <1>3, <1>4, <2>1, <2>2, <3>1
  <2>3. CASE /\ Composed(tree)
             /\ cmd' = [cmd EXCEPT ![c].pc = "install", ![c].bytes = tree]
             /\ UNCHANGED <<owned, override, tree, head, target>>
    <3>1. PICK n : n = [cmd[c] EXCEPT !.pc = "install", !.bytes = tree] OBVIOUS
    <3>2. cmd' = [cmd EXCEPT ![c] = n] BY <2>3, <3>1, PubReads
    <3>3. /\ n \in CmdType /\ n.pc = "install" /\ n.eff = cmd[c].eff /\ n.seen = cmd[c].seen
          /\ n.alone = cmd[c].alone /\ n.bytes = tree /\ ~Migrating(n)
      BY <3>1, PubReads DEF CmdType, Migrating
    <3>4. Installable(n.bytes) BY <2>3, <3>3, PubReads DEF Composed, Installable, TreeIsClean
    <3>5. CmdFits(c, n)'
      BY <1>2, <2>1, <2>3, <3>3, <3>4, PubReads DEF CmdFits, Migrating, Installable
    <3>6. QED BY <2>3, <3>2, <3>3, <3>5, PubReads, QuietMoves
  <2>4. QED BY <1>1, <1>5, <2>2, <2>3 DEF ReadCreated
<1>6. CASE InstallFirst(c)
  <2>1. cmd[c].pc = "install" /\ UNCHANGED <<override, tree, head, target>>
    BY <1>6 DEF InstallFirst, PubAt
  <2>2. Installable(cmd[c].bytes) /\ cmd[c].bytes \in LockFile
    BY <2>1, PubReads DEF CmdFits, CmdType
  <2>3. CASE /\ owned = NoPin /\ owned' = cmd[c].bytes
             /\ cmd' = [cmd EXCEPT ![c].pc = "snapshot", ![c].still = TRUE]
    <3>1. FilesKeep(c)
      BY <2>1, <2>2, <2>3, PubReads
      DEF FilesKeep, OwnedIsSound, DeadIsRetained, TreeIsClean, PinMoves, Installable
    <3>2. owned' # NoPin /\ ~owned'.dead BY <2>2, <2>3 DEF Installable
    <3>3. QED BY <1>3, <2>1, <2>3, <3>1, <3>2
  <2>4. CASE owned # NoPin /\ Goto(c, "winner") /\ UNCHANGED owned
    <3>1. FilesKeep(c) BY <2>1, <2>4, NoFile, PubReads
    <3>2. QED BY <1>3, <1>4, <2>1, <2>2, <2>4, <3>1
  <2>5. QED BY <1>6, <2>3, <2>4 DEF InstallFirst
<1>7. CASE ReadWinner(c)
  <2>1. CASE /\ owned = cmd[c].bytes
             /\ cmd' = [cmd EXCEPT ![c].pc = "snapshot", ![c].still = TRUE]
             /\ UNCHANGED <<owned, override, tree, head, target>>
    <3>1. FilesKeep(c) BY <2>1, NoFile, PubReads
    <3>2. cmd[c].pc = "winner" BY <1>7 DEF ReadWinner, PubAt
    <3>3. owned' # NoPin /\ owned' = cmd[c].bytes
      BY <2>1, <3>2, PubReads DEF CmdFits, Installable
    <3>4. QED BY <1>3, <2>1, <3>1, <3>2, <3>3
  <2>2. QED BY <1>1, <1>7, <2>1 DEF ReadWinner
<1>8. QED BY <1>5, <1>6, <1>7

\* The lock of the generation is read, and the runner built.
LEMMA SnapshotInv ==
    ASSUME PubInv, NEW c \in Commands, Snapshot(c) \/ BuildRunner(c)
    PROVE  PubInv'
<1>1. CASE FailAndDrop(c) BY <1>1, FailInv
<1>2. c \notin Updaters BY PubReads DEF Snapshot, BuildRunner, PubAt, CmdFits
<1>3. CASE Snapshot(c) /\ ~FailAndDrop(c)
  <2>1. PICK pc \in {"nixbuild", "done"} :
           /\ cmd' = [cmd EXCEPT ![c].snap = tree, ![c].pc = pc]
           /\ pc = "done" => c \notin Starters
           /\ cmd[c].pc = "snapshot"
           /\ UNCHANGED <<owned, override, tree, head, target>>
    BY <1>3 DEF Snapshot, PubAt
  <2>2. PICK n : n = [cmd[c] EXCEPT !.snap = tree, !.pc = pc] OBVIOUS
  <2>3. cmd' = [cmd EXCEPT ![c] = n] BY <2>1, <2>2, PubReads
  <2>4. /\ n \in CmdType /\ n.pc = pc /\ n.eff = cmd[c].eff /\ n.seen = cmd[c].seen
        /\ n.alone = cmd[c].alone /\ n.bytes = cmd[c].bytes /\ n.snap = tree
        /\ n.still = cmd[c].still /\ ~Migrating(n)
    BY <2>2, PubReads DEF CmdType, Migrating
  <2>5. CmdFits(c, n)' BY <1>2, <2>1, <2>4, PubReads DEF CmdFits, Migrating
  <2>6. QED BY <2>1, <2>3, <2>4, <2>5, PubReads, QuietMoves
<1>4. CASE BuildRunner(c) /\ ~FailAndDrop(c)
  <2>1. /\ cmd' = [cmd EXCEPT ![c].pc = "done", ![c].built = tree] /\ Drop(c)
        /\ cmd[c].pc = "nixbuild" /\ UNCHANGED <<owned, override, tree, head>>
    BY <1>4 DEF BuildRunner, PubAt
  <2>2. PICK n : n = [cmd[c] EXCEPT !.pc = "done", !.built = tree] OBVIOUS
  <2>3. cmd' = [cmd EXCEPT ![c] = n] BY <2>1, <2>2, PubReads
  <2>4. /\ n \in CmdType /\ n.pc = "done" /\ n.eff = cmd[c].eff /\ n.seen = cmd[c].seen
        /\ n.alone = cmd[c].alone /\ n.bytes = cmd[c].bytes /\ n.snap = cmd[c].snap
        /\ n.built = tree /\ n.still = cmd[c].still /\ ~Migrating(n)
    BY <2>2, PubReads DEF CmdType, Migrating
  <2>5. /\ target' \in Locking \cup {Free} /\ (target' = target \/ target = Free \/ target = c)
    BY <2>1, PubReads DEF Drop
  <2>6. CmdFits(c, n)' BY <1>2, <2>1, <2>4, PubReads DEF CmdFits, Migrating
  <2>7. QED BY <2>1, <2>3, <2>4, <2>5, <2>6, QuietMoves
<1>5. QED BY <1>1, <1>3, <1>4

\* An update decides again under the lock, resolves privately, and replaces the
\* pin with what it validated.
LEMMA UpdateInv ==
    ASSUME PubInv, NEW c \in Commands,
           RefuseOverride(c) \/ AcquireForUpdate(c) \/ PrepareUpdate(c) \/ NixUpdate(c)
    PROVE  PubInv'
<1>1. CASE FailAndDrop(c) BY <1>1, FailInv
<1>2. c \in Updaters /\ c \notin Starters /\ c \notin Readers /\ c \in Locking
  BY PubReads DEF RefuseOverride, AcquireForUpdate, PrepareUpdate, NixUpdate, PubAt, CmdFits
<1>3. ASSUME NEW pc \in {"locking", "prepare", "failed"}, Goto(c, pc),
             UNCHANGED <<owned, override, tree, head>>,
             target' \in Locking \cup {Free}, target' = target \/ target = Free \/ target = c,
             pc = "prepare" => target' = c
      PROVE  PubInv'
  <2>1. PICK n : n = [cmd[c] EXCEPT !.pc = pc] OBVIOUS
  <2>2. cmd' = [cmd EXCEPT ![c] = n] BY <1>3, <2>1, PubReads DEF Goto
  <2>3. n \in CmdType /\ n.pc = pc /\ n.eff = cmd[c].eff /\ n.alone = cmd[c].alone /\ ~Migrating(n)
    BY <2>1, PubReads DEF CmdType, Migrating
  <2>4. CmdFits(c, n)' BY <1>2, <1>3, <2>3, PubReads DEF CmdFits, Migrating
  <2>5. QED BY <1>3, <2>2, <2>3, <2>4, QuietMoves
<1>4. CASE RefuseOverride(c)
  BY <1>3, <1>4, PubReads DEF RefuseOverride
<1>5. CASE AcquireForUpdate(c)
  <2>1. PICK pc \in {"prepare", "failed"} :
           /\ Goto(c, pc) /\ (pc = "prepare" => target' = c)
           /\ target' = target \/ target = Free
           /\ target' \in Locking \cup {Free} /\ UNCHANGED <<owned, override, tree, head>>
    BY <1>2, <1>5, PubReads DEF AcquireForUpdate, Acquire, Goto
  <2>2. QED BY <1>3, <2>1
<1>6. CASE PrepareUpdate(c) /\ ~FailAndDrop(c)
  <2>1. PICK seen : seen = IF owned # NoPin /\ owned.dead THEN Shed(owned) ELSE owned OBVIOUS
  <2>2. /\ cmd' = [cmd EXCEPT ![c].pc = "renix", ![c].eff = SelectLock, ![c].seen = seen]
        /\ UNCHANGED <<owned, override, tree, head, target>> /\ cmd[c].pc = "prepare"
    BY <1>6, <2>1 DEF PrepareUpdate, PubAt
  <2>3. PICK n : n = [cmd[c] EXCEPT !.pc = "renix", !.eff = SelectLock, !.seen = seen] OBVIOUS
  <2>4. cmd' = [cmd EXCEPT ![c] = n] BY <2>2, <2>3, PubReads
  <2>5. seen \in LockFile BY <2>1, PubReads, ShedKeeps DEF LockFile
  <2>6. SelectLock \in {"none", "override", "existing", "missing"} BY DEF SelectLock
  <2>7. /\ n \in CmdType /\ n.pc = "renix" /\ n.eff = SelectLock /\ n.alone = cmd[c].alone
        /\ ~Migrating(n)
    BY <2>3, <2>5, <2>6, PubReads DEF CmdType, Migrating
  <2>8. FilesKeep(c) BY <2>2, NoFile, PubReads
  <2>9. CmdFits(c, n)' BY <1>2, <2>2, <2>7, PubReads DEF CmdFits, SelectLock, Migrating
  <2>10. MigrationsAgree'
    <3>1. CASE SelectLock # "missing" BY <2>2, <2>4, <2>7, <3>1, AgreementKeeps
    <3>2. CASE SelectLock = "missing"
      <4>1. owned = NoPin BY <3>2 DEF SelectLock
      <4>2. ASSUME NEW d \in Commands PROVE ~Migrating(cmd[d])
        BY <4>1, PubReads DEF CmdFits
      <4>3. ASSUME NEW d \in Commands PROVE ~Migrating(cmd'[d])
        BY <2>4, <2>7, <4>2, PubReads
      <4>4. QED BY <2>2, <4>1, <4>3 DEF MigrationsAgree, Migrating
    <3>3. QED BY <3>1, <3>2
  <2>11. QED BY <2>4, <2>7, <2>8, <2>9, <2>10, CommandMoves
<1>7. CASE NixUpdate(c) /\ ~FailAndDrop(c)
  <2>1. PICK lock \in PinnedLock : lock = Written(TRUE) /\ Installable(lock)
    BY WrittenIsClean DEF Installable
  <2>2. /\ cmd' = [cmd EXCEPT ![c].pc = "install", ![c].bytes = lock]
        /\ UNCHANGED <<owned, override, tree, head, target>> /\ cmd[c].pc = "renix"
    BY <1>7, <2>1 DEF NixUpdate, PubAt
  <2>3. PICK n : n = [cmd[c] EXCEPT !.pc = "install", !.bytes = lock] OBVIOUS
  <2>4. cmd' = [cmd EXCEPT ![c] = n] BY <2>2, <2>3, PubReads
  <2>5. /\ n \in CmdType /\ n.pc = "install" /\ n.eff = cmd[c].eff /\ n.bytes = lock
        /\ n.alone = cmd[c].alone /\ ~Migrating(n)
    BY <2>1, <2>3, PubReads DEF CmdType, LockFile, Migrating
  <2>6. CmdFits(c, n)'
    BY <1>2, <2>1, <2>2, <2>5, PubReads DEF CmdFits, Migrating, Installable
  <2>7. QED BY <2>2, <2>4, <2>5, <2>6, PubReads, QuietMoves
<1>8. QED BY <1>1, <1>4, <1>5, <1>6, <1>7

\* An update's rename: it moves the pin below every command under way.
LEMMA InstallUpdateInv ==
    ASSUME PubInv, NEW c \in Commands, InstallUpdate(c)
    PROVE  PubInv'
<1>1. PICK n : n = [cmd[c] EXCEPT !.pc = "done"] OBVIOUS
<1>2. /\ c \in Updaters /\ cmd[c].pc = "install" /\ owned' = cmd[c].bytes /\ Drop(c)
      /\ UNCHANGED <<override, tree, head>>
      /\ cmd' = [d \in Commands |-> IF d = c THEN n ELSE [cmd[d] EXCEPT !.still = FALSE]]
  BY <1>1 DEF InstallUpdate, PubAt
<1>3. /\ owned' \in LockFile /\ owned' # NoPin /\ owned'.sound /\ ~owned'.dead
      /\ target' = Free /\ target = c
  BY <1>2, PubReads DEF CmdFits, CmdType, Installable, Drop
<1>4. /\ n \in CmdType /\ n.pc = "done" /\ n.eff = cmd[c].eff /\ n.alone = cmd[c].alone
      /\ ~Migrating(n) /\ cmd'[c] = n
  BY <1>1, <1>2, PubReads DEF CmdType, Migrating
<1>5. CmdFits(c, n)' BY <1>2, <1>3, <1>4, PubReads DEF CmdFits, Migrating
<1>6. ASSUME NEW d \in Commands, d # c
      PROVE  /\ cmd'[d] \in CmdType /\ CmdFits(d, cmd[d])' /\ ~cmd'[d].still
             /\ Migrating(cmd'[d]) = Migrating(cmd[d]) /\ cmd'[d].eff = cmd[d].eff
  <2>1. PICK m : m = [cmd[d] EXCEPT !.still = FALSE] OBVIOUS
  <2>2. cmd[d] \in CmdType /\ CmdFits(d, cmd[d]) BY PubReads
  <2>3. /\ m \in CmdType /\ ~m.still /\ m.pc = cmd[d].pc /\ m.eff = cmd[d].eff
        /\ m.shed = cmd[d].shed /\ m.bytes = cmd[d].bytes /\ m.alone = cmd[d].alone
        /\ m.seen = cmd[d].seen /\ m.snap = cmd[d].snap /\ m.built = cmd[d].built
    BY <2>1, <2>2 DEF CmdType
  <2>4. Migrating(m) = Migrating(cmd[d]) BY <2>3 DEF Migrating
  <2>5. CmdFits(d, m)'
    BY <1>2, <1>3, <1>6, <2>2, <2>3, <2>4 DEF CmdFits, Migrating, Migrated, Installable
  <2>6. cmd'[d] = m BY <1>2, <1>6, <2>1
  <2>7. QED BY <2>3, <2>4, <2>5, <2>6 DEF CmdFits, Migrating, Migrated, Installable
<1>7. cmd' \in [Commands -> CmdType] BY <1>2, <1>4, <1>6
<1>8. PubTypeOK' BY <1>2, <1>3, <1>7, PubReads DEF PubTypeOK, CmdType
<1>9. CmdFits(c, cmd[c])' BY <1>4, <1>5 DEF CmdFits, Migrating, Migrated, Installable
<1>10. MigrationsAgree'
  <2>1. \A d \in Commands : cmd'[d].eff = cmd[d].eff BY <1>4, <1>6
  <2>2. Virgin' = Virgin BY <2>1 DEF Virgin
  <2>3. \A d \in Commands : Migrating(cmd'[d]) => Migrating(cmd[d]) /\ cmd'[d].still = FALSE
    <3>1. ASSUME NEW d \in Commands, Migrating(cmd'[d])
          PROVE  Migrating(cmd[d]) /\ cmd'[d].still = FALSE
      <4>1. d # c BY <1>4, <3>1
      <4>2. cmd'[d] \in CmdType /\ ~cmd'[d].still /\ Migrating(cmd[d]) BY <1>6, <3>1, <4>1
      <4>3. QED BY <4>2 DEF CmdType
    <3>2. QED BY <3>1
  <2>4. MigrationsAgree BY PubReads
  <2>5. QED BY <1>3, <2>2, <2>3, <2>4 DEF MigrationsAgree, Migrating
<1>11. OwnedIsSound' /\ DeadIsRetained' /\ TreeIsClean'
  BY <1>2, <1>3, PubReads DEF OwnedIsSound, DeadIsRetained, TreeIsClean
<1>12. QED BY <1>6, <1>8, <1>9, <1>10, <1>11 DEF PubInv

\* Upstream moves, or the team commits a lock.
LEMMA UpstreamInv ==
    ASSUME PubInv, UpstreamMoves \/ TeamCommitsOverride \/ UNCHANGED pubVars
    PROVE  PubInv'
<1>1. /\ UNCHANGED <<owned, tree, target, cmd>> /\ head' \in 0..MaxHead /\ override' \in LockFile
      /\ override # NoPin => override' = override
  <2>1. CASE UpstreamMoves BY <2>1, PublicationAssumption DEF UpstreamMoves, PubInv, PubTypeOK
  <2>2. CASE TeamCommitsOverride
    <3>1. override' \in PinnedLock BY <2>2 DEF TeamCommitsOverride, Retained
    <3>2. QED BY <2>2, <3>1 DEF TeamCommitsOverride, LockFile, PubInv, PubTypeOK
  <2>3. CASE UNCHANGED pubVars BY <2>3 DEF pubVars, PubInv, PubTypeOK
  <2>4. QED BY <2>1, <2>2, <2>3
<1>2. PubTypeOK' BY <1>1 DEF PubInv, PubTypeOK
<1>3. OwnedIsSound' /\ DeadIsRetained' /\ TreeIsClean'
  BY <1>1 DEF PubInv, OwnedIsSound, DeadIsRetained, TreeIsClean
<1>4. ASSUME NEW c \in Commands PROVE CmdFits(c, cmd[c])'
  <2>1. PICK m : m = cmd[c] OBVIOUS
  <2>2. CmdFits(c, m) BY <2>1 DEF PubInv
  <2>3. CmdFits(c, m)' BY <1>1, <2>2 DEF CmdFits, Migrating, Migrated, Installable, Shed
  <2>4. QED BY <1>1, <2>1, <2>3 DEF CmdFits, Migrating, Migrated, Installable
<1>5. MigrationsAgree' BY <1>1 DEF PubInv, MigrationsAgree, Migrating, Virgin
<1>6. QED BY <1>2, <1>3, <1>4, <1>5 DEF PubInv

LEMMA PubStepInv ==
    ASSUME PubInv, [PubNext]_pubVars
    PROVE  PubInv'
<1>1. ASSUME NEW c \in Commands, CommandStep(c) PROVE PubInv'
  BY <1>1, PlanInv, PublishInv, CheckInv, EvaluateInv, FirstPinInv, SnapshotInv, UpdateInv,
     InstallUpdateInv
  DEF CommandStep
<1>2. ASSUME NEW c \in Commands, Die(c) PROVE PubInv'
  BY <1>2, FailInv DEF Die
<1>3. QED BY <1>1, <1>2, UpstreamInv DEF PubNext

LEMMA PubInitInv ==
    ASSUME PubInit
    PROVE  PubInv
<1>1. /\ Fresh \in CmdType /\ Fresh.pc = "idle" /\ Fresh.eff = "none" /\ ~Fresh.shed
      /\ ~Fresh.alone
  BY DEF Fresh, CmdType, LockFile
<1>2. cmd \in [Commands -> CmdType] /\ \A c \in Commands : cmd[c] = Fresh BY <1>1 DEF PubInit
<1>3. 1 \in 0..MaxHead BY PublicationAssumption
<1>4. PubTypeOK BY <1>2, <1>3 DEF PubInit, PubTypeOK, LockFile, CmdType, Retained
<1>5. owned # NoPin => owned.pin = 0 BY DEF PubInit, Retained
<1>6. OwnedIsSound /\ DeadIsRetained /\ TreeIsClean
  BY <1>5 DEF PubInit, OwnedIsSound, DeadIsRetained, TreeIsClean
<1>7. \A c \in Commands : CmdFits(c, Fresh) BY <1>1 DEF CmdFits, Migrating
<1>8. MigrationsAgree BY <1>1, <1>2 DEF MigrationsAgree, Migrating, Virgin
<1>9. QED BY <1>2, <1>4, <1>6, <1>7, <1>8 DEF PubInv

\* A pin upstream gave is always a lock whose baseline is complete, whatever
\* retained lock stood there before; a command that was alone with the shared
\* tree keeps, as the lock of its generation, the lock it evaluated, builds from
\* it, and, if it created the pin, the pin it evaluated is the one installed,
\* until an update moves it (persist_created_lock, read_staged_lock).
THEOREM PublicationIsSafe == PubSpec => []PublicationSafe
<1>1. ASSUME PubInv PROVE PublicationSafe
  <2>1. ASSUME NEW c \in Commands PROVE CmdFits(c, cmd[c]) BY <1>1 DEF PubInv
  <2>2. SnapshotIsEvaluated BY <2>1 DEF SnapshotIsEvaluated, CmdFits
  <2>3. CreatedIsInstalled
    <3>1. ASSUME NEW c \in Readers \cup Starters, cmd[c].pc = "done", cmd[c].eff = "missing",
                 cmd[c].alone, cmd[c].still
          PROVE  owned = cmd[c].seen
      <4>1. c \in Commands /\ c \notin Updaters BY PublicationAssumption DEF Commands
      <4>2. QED BY <2>1, <3>1, <4>1 DEF CmdFits
    <3>2. QED BY <3>1 DEF CreatedIsInstalled
  <2>4. QED BY <1>1, <2>2, <2>3 DEF PublicationSafe, PubInv
<1>2. QED BY <1>1, PubInitInv, PubStepInv, PTL DEF PubSpec

\* No step of any command loses an installed pin or brings the dead node back;
\* only an update that holds the target lock moves the pin, and a migration
\* changes it by the shed subtree alone unless an update came between its read
\* and its rename (RenameFlags::NOREPLACE, rewrite_owned_lock).
THEOREM ThePinIsKept == PubSpec => PinIsKept
<1>1. ASSUME PubInv, [PubNext]_pubVars
      PROVE  [OnlyUpdatesMove /\ DeadNodeStaysShed]_pubVars
  <2>1. CASE UNCHANGED owned
    BY <2>1 DEF OnlyUpdatesMove, DeadNodeStaysShed
  <2>2. ASSUME NEW c \in Commands, MigrateOwned(c)
        PROVE  OnlyUpdatesMove /\ DeadNodeStaysShed
    <3>1. /\ cmd[c].pc = "migrate" /\ owned' = cmd[c].bytes /\ c \notin Updaters
          /\ Migrating(cmd[c]) /\ Migrated(cmd[c].bytes)
          /\ cmd[c].still => owned = cmd[c].bytes \/ cmd[c].bytes = Shed(owned)
      BY <1>1, <2>2, PubReads DEF MigrateOwned, PubAt, CmdFits, Migrating
    <3>2. QED BY <3>1 DEF OnlyUpdatesMove, DeadNodeStaysShed, Migrated
  <2>3. ASSUME NEW c \in Commands, InstallUpdate(c)
        PROVE  OnlyUpdatesMove /\ DeadNodeStaysShed
    <3>1. /\ cmd[c].pc = "install" /\ owned' = cmd[c].bytes /\ c \in Updaters /\ target = c
          /\ Installable(cmd[c].bytes)
      BY <1>1, <2>3, PubReads DEF InstallUpdate, PubAt, CmdFits
    <3>2. QED BY <3>1 DEF OnlyUpdatesMove, DeadNodeStaysShed, Installable
  <2>4. ASSUME NEW c \in Commands, InstallFirst(c)
        PROVE  (OnlyUpdatesMove /\ DeadNodeStaysShed) \/ UNCHANGED owned
    BY <2>4 DEF InstallFirst, OnlyUpdatesMove, DeadNodeStaysShed
  <2>5. ASSUME NEW c \in Commands, CommandStep(c)
        PROVE  UNCHANGED owned \/ MigrateOwned(c) \/ InstallUpdate(c) \/ InstallFirst(c)
    BY <2>5 DEF CommandStep, Begin, Resolve, BuildPlan, StageTree, PublishTree, CheckStaged,
                NixEval, ReadCreated, ReadWinner, Snapshot, BuildRunner, RefuseOverride,
                AcquireForUpdate, PrepareUpdate, NixUpdate, FailAndDrop
  <2>6. ASSUME NEW c \in Commands, Die(c) PROVE UNCHANGED owned
    BY <2>6 DEF Die, FailAndDrop
  <2>7. UpstreamMoves \/ TeamCommitsOverride \/ UNCHANGED pubVars => UNCHANGED owned
    BY DEF UpstreamMoves, TeamCommitsOverride, pubVars
  <2>8. QED BY <1>1, <2>1, <2>2, <2>3, <2>4, <2>5, <2>6, <2>7 DEF PubNext
<1>2. QED BY <1>1, PubInitInv, PubStepInv, PTL DEF PubSpec, PinIsKept

-----------------------------------------------------------------------------
(* Ownership: the derived index.                                           *)

Entries == Partial({"claims", "other"})
Stamps == Partial(Version)

FindType ==
    [pc : {"idle", "stamp", "mtime", "derive", "publish", "match", "decided"},
     todo : SUBSET Manifests, stamps : Stamps, entries : Entries,
     matches : SUBSET Manifests, steady : SUBSET Manifests,
     answer : {"none", "owner", "ambiguous", "unbound"}]

IndexType == [stamps : Stamps, entries : Entries]

OwnTypes ==
    /\ library \in [Manifests -> Version] /\ past \in [Manifests -> SUBSET Contents]
    /\ edits \in 0..MaxEdits /\ index \in IndexType \cup {NoIndex}
    /\ find \in [Resolvers -> FindType]

\* The clock of modification times never runs back, and no text is forgotten.
Remembers ==
    \A m \in Manifests : library[m].mtime <= edits /\ library[m].text \in past[m]

\* A stamp tells of a text the manifest has had, at a time the clock has reached:
\* once the manifest differs from its stamp, no edit makes them agree again.
StampsArePast(stamps) ==
    \A m \in DOMAIN stamps : stamps[m].text \in past[m] /\ stamps[m].mtime <= edits

\* While a manifest is as it was stamped, the entries show its claim.
ShowClaims(stamps, entries) ==
    \A m \in DOMAIN stamps : library[m] = stamps[m] /\ library[m].text = "claims" =>
        m \in DOMAIN entries /\ entries[m] = "claims"

\* The manifests a command has found unchanged, as far as it has read.
StampedNow(f, m) == m \in DOMAIN f.stamps /\ f.stamps[m] = library[m]
Shown(f, m) == m \in DOMAIN f.entries /\ f.entries[m] = "claims"

\* What the record f of a command says of the manifest m, if m claimed the
\* directory all along: it is still to be stamped, or it was, as it is now; it
\* is in the entries; it is among the owners.
Carries(f, m) ==
    /\ f.pc = "stamp" => m \in f.todo \/ StampedNow(f, m)
    /\ f.pc = "mtime" =>
          \/ m \in f.todo /\ m # NextName(f.todo)
          \/ m \in f.todo /\ m \in DOMAIN f.stamps /\ f.stamps[m].text = library[m].text
          \/ m \notin f.todo /\ StampedNow(f, m)
    /\ f.pc = "derive" => StampedNow(f, m)
    /\ f.pc \in {"publish", "match"} => Shown(f, m)
    /\ f.pc = "decided" => m \in f.matches

FindFits(f) ==
    /\ StampsArePast(f.stamps)
    /\ f.pc = "mtime" => f.todo # {} /\ NextName(f.todo) \in DOMAIN f.stamps
    /\ f.pc = "publish" => ShowClaims(f.stamps, f.entries)
    /\ f.pc = "decided" => (f.answer = "unbound" => f.matches = {})
    /\ \A m \in f.steady : library[m].text = "claims" => Carries(f, m)

\* The inductive invariant, for an author who brings no bytes back under an old
\* modification time.
OwnInv ==
    /\ ~Reverts
    /\ OwnTypes /\ Remembers
    /\ index # NoIndex => StampsArePast(index.stamps) /\ ShowClaims(index.stamps, index.entries)
    /\ \A p \in Resolvers : FindFits(find[p])

\* Partial functions over the manifests.
LEMMA PartialFacts ==
    ASSUME NEW S
    PROVE  /\ \A f \in Partial(S) : /\ DOMAIN f \subseteq Manifests
                                    /\ \A m \in DOMAIN f : f[m] \in S
           /\ \A D \in SUBSET Manifests : \A f \in [D -> S] : f \in Partial(S)
BY DEF Partial

LEMMA NothingIsPartial ==
    ASSUME NEW S
    PROVE  <<>> \in Partial(S) /\ DOMAIN <<>> = {}
<1>1. <<>> \in [{} -> S] /\ DOMAIN <<>> = {} OBVIOUS
<1>2. {} \in SUBSET Manifests OBVIOUS
<1>3. QED BY <1>1, <1>2, PartialFacts

\* s is f with the stamp v for m added or replaced.
Adds(f, m, v, s) ==
    /\ s \in Stamps /\ DOMAIN s = DOMAIN f \cup {m} /\ s[m] = v
    /\ \A x \in DOMAIN f : x # m => s[x] = f[x]

LEMMA WithFacts ==
    ASSUME NEW f \in Stamps, NEW m \in Manifests, NEW v \in Version
    PROVE  Adds(f, m, v, With(f, m, v))
<1>1. PICK s : s = With(f, m, v) OBVIOUS
<1>2. s \in [DOMAIN f \cup {m} -> Version] BY <1>1, PartialFacts DEF With, Stamps
<1>3. DOMAIN f \cup {m} \in SUBSET Manifests BY PartialFacts DEF Stamps
<1>4. s \in Stamps BY <1>2, <1>3, PartialFacts DEF Stamps
<1>5. Adds(f, m, v, s) BY <1>1, <1>4 DEF With, Adds
<1>6. QED BY <1>1, <1>5

LEMMA NextNameFact ==
    ASSUME NEW todo, todo # {}
    PROVE  NextName(todo) \in todo
BY DEF NextName

LEMMA OwnReads ==
    ASSUME OwnInv, NEW p \in Resolvers
    PROVE  /\ find \in [Resolvers -> FindType] /\ find[p] \in FindType /\ FindFits(find[p])
           /\ library \in [Manifests -> Version] /\ past \in [Manifests -> SUBSET Contents]
           /\ edits \in Nat /\ Remembers
           /\ index # NoIndex => /\ index \in IndexType /\ StampsArePast(index.stamps)
                                 /\ ShowClaims(index.stamps, index.entries)
BY OwnershipAssumption DEF OwnInv, OwnTypes

\* One command steps while the manifests stay as they are.
LEMMA FindMoves ==
    ASSUME OwnInv, NEW p \in Resolvers, NEW g \in FindType,
           find' = [find EXCEPT ![p] = g], FindFits(g), UNCHANGED <<library, edits, past>>,
           \/ UNCHANGED index
           \/ /\ index' \in IndexType
              /\ StampsArePast(index'.stamps) /\ ShowClaims(index'.stamps, index'.entries)
    PROVE  OwnInv'
<1>1. find'[p] = g /\ find' \in [Resolvers -> FindType]
      /\ \A q \in Resolvers : q # p => find'[q] = find[q]
  BY OwnReads
<1>2. OwnTypes' BY <1>1 DEF OwnInv, OwnTypes
<1>3. Remembers' BY DEF OwnInv, Remembers
<1>4. \A f : FindFits(f)' <=> FindFits(f)
  BY DEF FindFits, StampsArePast, ShowClaims, Carries, StampedNow, Shown
<1>5. ASSUME NEW q \in Resolvers PROVE FindFits(find[q])'
  <2>1. PICK f : f = find'[q] OBVIOUS
  <2>2. FindFits(f) BY <1>1, <2>1, OwnReads
  <2>3. FindFits(f)' BY <1>4, <2>2
  <2>4. QED BY <2>1, <2>3 DEF FindFits, StampsArePast, ShowClaims, Carries, StampedNow, Shown
<1>6. (index # NoIndex => StampsArePast(index.stamps) /\ ShowClaims(index.stamps, index.entries))'
  BY DEF OwnInv, StampsArePast, ShowClaims
<1>7. QED BY <1>2, <1>3, <1>5, <1>6 DEF OwnInv

\* The names are listed, and each manifest stamped, bytes first.
LEMMA EnumerateInv ==
    ASSUME OwnInv, NEW p \in Resolvers, Enumerate(p)
    PROVE  OwnInv'
<1>1. PICK g : g = [Idle EXCEPT !.pc = "stamp", !.steady = Manifests,
                                !.todo = {m \in Manifests : Present(m)}]
  OBVIOUS
<1>2. find' = [find EXCEPT ![p] = g] /\ UNCHANGED <<library, index, edits, past>>
  BY <1>1 DEF Enumerate, Advance
<1>3. /\ g.pc = "stamp" /\ g.steady = Manifests /\ g.todo = {m \in Manifests : Present(m)}
      /\ g.stamps = <<>> /\ g \in FindType
  BY <1>1, NothingIsPartial DEF Idle, FindType, Stamps, Entries
<1>4. FindFits(g)
  <2>1. StampsArePast(g.stamps) BY <1>3, NothingIsPartial DEF StampsArePast
  <2>2. ASSUME NEW m \in g.steady, library[m].text = "claims" PROVE Carries(g, m)
    BY <1>3, <2>2 DEF Carries, Present
  <2>3. QED BY <1>3, <2>1, <2>2 DEF FindFits
<1>5. QED BY <1>2, <1>3, <1>4, FindMoves

LEMMA StampBytesInv ==
    ASSUME OwnInv, NEW p \in Resolvers, StampBytes(p)
    PROVE  OwnInv'
<1>1. PICK f : f = find[p] OBVIOUS
<1>2. f \in FindType /\ FindFits(f) /\ f.pc = "stamp" /\ f.todo # {}
  BY <1>1, OwnReads DEF StampBytes, OwnAt
<1>3. PICK x : x = NextName(f.todo) OBVIOUS
<1>4. x \in f.todo /\ x \in Manifests BY <1>2, <1>3, NextNameFact DEF FindType
<1>5. PICK v : v = [text |-> library[x].text, mtime |-> 0] OBVIOUS
<1>6. /\ UNCHANGED <<library, index, edits, past>>
      /\ find' = [find EXCEPT ![p] =
                    IF Present(x) THEN [f EXCEPT !.pc = "mtime", !.stamps = With(f.stamps, x, v)]
                    ELSE [f EXCEPT !.todo = f.todo \ {x}]]
  BY <1>1, <1>3, <1>5 DEF StampBytes, Advance
<1>7. CASE Present(x)
  <2>1. PICK g : g = [f EXCEPT !.pc = "mtime", !.stamps = With(f.stamps, x, v)] OBVIOUS
  <2>2. find' = [find EXCEPT ![p] = g] BY <1>6, <1>7, <2>1
  <2>3. v \in Version /\ v.text = library[x].text /\ v.mtime = 0
    BY <1>4, <1>5, OwnReads, OwnershipAssumption DEF Version
  <2>4. PICK s : s = With(f.stamps, x, v) OBVIOUS
  <2>5. /\ s \in Stamps /\ DOMAIN s = DOMAIN f.stamps \cup {x} /\ s[x] = v
        /\ \A m \in DOMAIN f.stamps : m # x => s[m] = f.stamps[m]
    <3>1. f.stamps \in Stamps BY <1>2 DEF FindType
    <3>2. Adds(f.stamps, x, v, With(f.stamps, x, v)) BY <1>4, <2>3, <3>1, WithFacts
    <3>3. QED BY <2>4, <3>2 DEF Adds
  <2>6. /\ g \in FindType /\ g.pc = "mtime" /\ g.stamps = s /\ g.todo = f.todo
        /\ g.steady = f.steady
    BY <1>2, <2>1, <2>4, <2>5 DEF FindType
  <2>7. StampsArePast(s)
    BY <1>2, <1>4, <2>3, <2>5, OwnReads DEF StampsArePast, FindFits, Remembers
  <2>8. ASSUME NEW m \in g.steady, library[m].text = "claims" PROVE Carries(g, m)
    <3>1. m \in f.todo \/ StampedNow(f, m) BY <1>2, <2>6, <2>8 DEF FindFits, Carries
    <3>2. CASE m = x BY <1>3, <1>4, <2>3, <2>5, <2>6, <3>2 DEF Carries
    <3>3. CASE m # x
      BY <1>3, <2>5, <2>6, <3>1, <3>3 DEF Carries, StampedNow
    <3>4. QED BY <3>2, <3>3
  <2>9. FindFits(g) BY <1>2, <1>3, <2>5, <2>6, <2>7, <2>8 DEF FindFits
  <2>10. QED BY <1>6, <2>2, <2>6, <2>9, FindMoves
<1>8. CASE ~Present(x)
  <2>1. PICK g : g = [f EXCEPT !.todo = f.todo \ {x}] OBVIOUS
  <2>2. find' = [find EXCEPT ![p] = g] BY <1>6, <1>8, <2>1
  <2>3. /\ g \in FindType /\ g.pc = "stamp" /\ g.stamps = f.stamps /\ g.todo = f.todo \ {x}
        /\ g.steady = f.steady
    BY <1>2, <2>1 DEF FindType
  <2>4. ASSUME NEW m \in g.steady, library[m].text = "claims" PROVE Carries(g, m)
    <3>1. m \in f.todo \/ StampedNow(f, m) BY <1>2, <2>3, <2>4 DEF FindFits, Carries
    <3>2. m # x \/ StampedNow(f, m) BY <1>8, <2>4 DEF Present
    <3>3. QED BY <2>3, <3>1, <3>2 DEF Carries, StampedNow
  <2>5. FindFits(g) BY <1>2, <2>3, <2>4 DEF FindFits
  <2>6. QED BY <1>6, <2>2, <2>3, <2>5, FindMoves
<1>9. QED BY <1>7, <1>8

LEMMA StampTimeInv ==
    ASSUME OwnInv, NEW p \in Resolvers, StampTime(p)
    PROVE  OwnInv'
<1>1. PICK f : f = find[p] OBVIOUS
<1>2. f \in FindType /\ FindFits(f) /\ f.pc = "mtime"
  BY <1>1, OwnReads DEF StampTime, OwnAt
<1>3. PICK x : x = NextName(f.todo) OBVIOUS
<1>4. x \in f.todo /\ x \in Manifests /\ x \in DOMAIN f.stamps
  BY <1>2, <1>3, NextNameFact DEF FindType, FindFits
<1>5. f.stamps \in Stamps /\ f.stamps[x] \in Version
  BY <1>2, <1>4, PartialFacts DEF FindType, Stamps
<1>6. PICK v : v = [f.stamps[x] EXCEPT !.mtime = library[x].mtime] OBVIOUS
<1>7. v \in Version /\ v.text = f.stamps[x].text /\ v.mtime = library[x].mtime
  BY <1>4, <1>5, <1>6, OwnReads DEF Version
<1>8. PICK s : s = IF Present(x) THEN With(f.stamps, x, v)
                   ELSE [y \in DOMAIN f.stamps \ {x} |-> f.stamps[y]]
  OBVIOUS
<1>9. PICK g : g = [f EXCEPT !.pc = "stamp", !.todo = f.todo \ {x}, !.stamps = s] OBVIOUS
<1>10. find' = [find EXCEPT ![p] = g] /\ UNCHANGED <<library, index, edits, past>>
  BY <1>1, <1>3, <1>6, <1>8, <1>9 DEF StampTime, Advance
<1>11. /\ s \in Stamps /\ DOMAIN s \subseteq DOMAIN f.stamps
       /\ \A m \in DOMAIN f.stamps : m # x => m \in DOMAIN s /\ s[m] = f.stamps[m]
       /\ Present(x) => x \in DOMAIN s
       /\ x \in DOMAIN s => s[x] = v
  <2>1. CASE Present(x)
    <3>1. s = With(f.stamps, x, v) BY <1>8, <2>1
    <3>2. /\ s \in Stamps /\ DOMAIN s = DOMAIN f.stamps \cup {x} /\ s[x] = v
          /\ \A m \in DOMAIN f.stamps : m # x => s[m] = f.stamps[m]
      <4>1. Adds(f.stamps, x, v, With(f.stamps, x, v)) BY <1>4, <1>5, <1>7, WithFacts
      <4>2. QED BY <3>1, <4>1 DEF Adds
    <3>3. QED BY <1>4, <3>2
  <2>2. CASE ~Present(x)
    <3>1. s = [y \in DOMAIN f.stamps \ {x} |-> f.stamps[y]] BY <1>8, <2>2
    <3>2. s \in [DOMAIN f.stamps \ {x} -> Version] BY <1>5, <3>1, PartialFacts DEF Stamps
    <3>3. DOMAIN f.stamps \ {x} \in SUBSET Manifests BY <1>5, PartialFacts DEF Stamps
    <3>4. s \in Stamps BY <3>2, <3>3, PartialFacts DEF Stamps
    <3>5. QED BY <2>2, <3>1, <3>4
  <2>3. QED BY <2>1, <2>2
<1>12. /\ g \in FindType /\ g.pc = "stamp" /\ g.stamps = s /\ g.todo = f.todo \ {x}
       /\ g.steady = f.steady
  BY <1>2, <1>9, <1>11 DEF FindType
<1>13. StampsArePast(s)
  BY <1>2, <1>4, <1>7, <1>11, OwnReads DEF StampsArePast, FindFits, Remembers
<1>14. ASSUME NEW m \in g.steady, library[m].text = "claims" PROVE Carries(g, m)
  <2>1. /\ m \in Manifests /\ Carries(f, m)
    BY <1>2, <1>12, <1>14 DEF FindFits, FindType
  <2>2. CASE m = x
    <3>1. x \in DOMAIN s /\ s[x] = v BY <1>11, <1>14, <2>2 DEF Present
    <3>2. v.text = library[x].text BY <1>2, <1>3, <1>4, <1>7, <2>1, <2>2 DEF Carries
    <3>3. v = library[x]
      <4>1. library[x] \in Version BY <1>4, OwnReads
      <4>2. QED BY <1>7, <3>2, <4>1 DEF Version
    <3>4. QED BY <1>12, <2>2, <3>1, <3>3 DEF Carries, StampedNow
  <2>3. CASE m # x
    BY <1>2, <1>3, <1>11, <1>12, <2>1, <2>3 DEF Carries, StampedNow
  <2>4. QED BY <2>2, <2>3
<1>15. FindFits(g) BY <1>12, <1>13, <1>14 DEF FindFits
<1>16. QED BY <1>10, <1>12, <1>15, FindMoves

\* The cached index answers for the same stamps only, or another is derived.
LEMMA LoadInv ==
    ASSUME OwnInv, NEW p \in Resolvers, Load(p)
    PROVE  OwnInv'
<1>1. PICK f : f = find[p] OBVIOUS
<1>2. f \in FindType /\ FindFits(f) /\ f.pc = "stamp" /\ f.todo = {}
  BY <1>1, OwnReads DEF Load, OwnAt
<1>3. UNCHANGED <<library, index, edits, past>> BY DEF Load
<1>4. ASSUME NEW m \in f.steady, library[m].text = "claims" PROVE StampedNow(f, m)
  BY <1>2, <1>4 DEF FindFits, Carries
<1>5. CASE Hit(f.stamps)
  <2>1. /\ index \in IndexType /\ index.stamps = f.stamps
        /\ ShowClaims(index.stamps, index.entries)
    BY <1>5, OwnReads DEF Hit
  <2>2. PICK g : g = [f EXCEPT !.pc = "match", !.entries = index.entries, !.stamps = <<>>]
    OBVIOUS
  <2>3. find' = [find EXCEPT ![p] = g] BY <1>1, <1>5, <2>2 DEF Load, Advance
  <2>4. /\ g \in FindType /\ g.pc = "match" /\ g.stamps = <<>> /\ g.steady = f.steady
        /\ g.entries = index.entries
    BY <1>2, <2>1, <2>2, NothingIsPartial DEF FindType, IndexType, Stamps
  <2>5. ASSUME NEW m \in g.steady, library[m].text = "claims" PROVE Carries(g, m)
    <3>1. StampedNow(f, m) BY <1>4, <2>4, <2>5
    <3>2. m \in DOMAIN index.entries /\ index.entries[m] = "claims"
      BY <2>1, <2>5, <3>1 DEF StampedNow, ShowClaims
    <3>3. QED BY <2>4, <3>2 DEF Carries, Shown
  <2>6. FindFits(g)
    <3>1. StampsArePast(g.stamps) BY <2>4, NothingIsPartial DEF StampsArePast
    <3>2. QED BY <2>4, <2>5, <3>1 DEF FindFits
  <2>7. QED BY <1>3, <2>3, <2>4, <2>6, FindMoves
<1>6. CASE ~Hit(f.stamps)
  <2>1. PICK g : g = [f EXCEPT !.pc = "derive"] OBVIOUS
  <2>2. find' = [find EXCEPT ![p] = g] BY <1>1, <1>6, <2>1 DEF Load, Advance
  <2>3. g \in FindType /\ g.pc = "derive" /\ g.stamps = f.stamps /\ g.steady = f.steady
    BY <1>2, <2>1 DEF FindType
  <2>4. ASSUME NEW m \in g.steady, library[m].text = "claims" PROVE Carries(g, m)
    BY <1>4, <2>3, <2>4 DEF Carries, StampedNow
  <2>5. FindFits(g) BY <1>2, <2>3, <2>4 DEF FindFits
  <2>6. QED BY <1>3, <2>2, <2>3, <2>5, FindMoves
<1>7. QED BY <1>5, <1>6

\* The index is derived from the manifests as they are by then, and published.
LEMMA DeriveInv ==
    ASSUME OwnInv, NEW p \in Resolvers, Derive(p)
    PROVE  OwnInv'
<1>1. PICK f : f = find[p] OBVIOUS
<1>2. f \in FindType /\ FindFits(f) /\ f.pc = "derive"
  BY <1>1, OwnReads DEF Derive, OwnAt
<1>3. PICK e : e = [m \in Parsed(DOMAIN f.stamps) |-> library[m].text] OBVIOUS
<1>4. PICK g : g = [f EXCEPT !.pc = "publish", !.entries = e] OBVIOUS
<1>5. find' = [find EXCEPT ![p] = g] /\ UNCHANGED <<library, index, edits, past>>
  BY <1>1, <1>3, <1>4 DEF Derive, Advance
<1>6. e \in Entries
  <2>1. Parsed(DOMAIN f.stamps) \in SUBSET Manifests
    BY <1>2, PartialFacts DEF FindType, Stamps, Parsed
  <2>2. e \in [Parsed(DOMAIN f.stamps) -> {"claims", "other"}] BY <1>3 DEF Parsed
  <2>3. QED BY <2>1, <2>2, PartialFacts DEF Entries
<1>7. /\ g \in FindType /\ g.pc = "publish" /\ g.stamps = f.stamps /\ g.steady = f.steady
      /\ g.entries = e
  BY <1>2, <1>4, <1>6 DEF FindType
<1>8. \A m \in DOMAIN f.stamps : library[m].text = "claims" => m \in DOMAIN e /\ e[m] = "claims"
  BY <1>3 DEF Parsed
<1>9. ShowClaims(g.stamps, g.entries) BY <1>7, <1>8 DEF ShowClaims
<1>10. ASSUME NEW m \in g.steady, library[m].text = "claims" PROVE Carries(g, m)
  <2>1. StampedNow(f, m) BY <1>2, <1>7, <1>10 DEF FindFits, Carries
  <2>2. QED BY <1>7, <1>8, <1>10, <2>1 DEF Carries, StampedNow, Shown
<1>11. FindFits(g) BY <1>2, <1>7, <1>9, <1>10 DEF FindFits
<1>12. QED BY <1>5, <1>7, <1>11, FindMoves

LEMMA PublishIndexInv ==
    ASSUME OwnInv, NEW p \in Resolvers, PublishIndex(p)
    PROVE  OwnInv'
<1>1. PICK f : f = find[p] OBVIOUS
<1>2. f \in FindType /\ FindFits(f) /\ f.pc = "publish"
  BY <1>1, OwnReads DEF PublishIndex, OwnAt
<1>3. PICK g : g = [f EXCEPT !.pc = "match", !.stamps = <<>>] OBVIOUS
<1>4. /\ find' = [find EXCEPT ![p] = g] /\ UNCHANGED <<library, edits, past>>
      /\ index' = [stamps |-> f.stamps, entries |-> f.entries]
  BY <1>1, <1>3 DEF PublishIndex, Advance
<1>5. /\ index' \in IndexType /\ index'.stamps = f.stamps /\ index'.entries = f.entries
  BY <1>2, <1>4 DEF IndexType, FindType
<1>6. StampsArePast(index'.stamps) /\ ShowClaims(index'.stamps, index'.entries)
  BY <1>2, <1>5 DEF FindFits
<1>7. /\ g \in FindType /\ g.pc = "match" /\ g.stamps = <<>> /\ g.steady = f.steady
      /\ g.entries = f.entries
  BY <1>2, <1>3, NothingIsPartial DEF FindType, Stamps
<1>8. FindFits(g)
  <2>1. StampsArePast(g.stamps) BY <1>7, NothingIsPartial DEF StampsArePast
  <2>2. \A m \in g.steady : library[m].text = "claims" => Carries(g, m)
    BY <1>2, <1>7 DEF FindFits, Carries, Shown
  <2>3. QED BY <1>7, <2>1, <2>2 DEF FindFits
<1>9. QED BY <1>4, <1>5, <1>6, <1>7, <1>8, FindMoves

\* The candidates are read again: a claim that stood throughout is among them.
LEMMA RematchInv ==
    ASSUME OwnInv, NEW p \in Resolvers, Rematch(p)
    PROVE  OwnInv'
<1>1. PICK f : f = find[p] OBVIOUS
<1>2. f \in FindType /\ FindFits(f) /\ f.pc = "match"
  BY <1>1, OwnReads DEF Rematch, OwnAt
<1>3. PICK owners : owners = Owners(p) OBVIOUS
<1>4. PICK a : a = CASE Cardinality(owners) > 1 -> "ambiguous"
                     [] owners = {} -> "unbound"
                     [] OTHER -> "owner"
  OBVIOUS
<1>5. PICK g : g = [f EXCEPT !.pc = "decided", !.entries = <<>>, !.matches = owners,
                             !.answer = a]
  OBVIOUS
<1>6. find' = [find EXCEPT ![p] = g] /\ UNCHANGED <<library, index, edits, past>>
  BY <1>1, <1>3, <1>4, <1>5 DEF Rematch, Advance
<1>7. owners = {m \in DOMAIN f.entries : f.entries[m] = "claims" /\ library[m].text = "claims"}
  BY <1>1, <1>3 DEF Owners
<1>8. owners \subseteq Manifests BY <1>2, <1>7, PartialFacts DEF FindType, Entries
<1>9. a \in {"ambiguous", "unbound", "owner"} /\ (a = "unbound" => owners = {})
  <2>1. CASE Cardinality(owners) > 1 /\ owners # {} BY <1>4, <2>1
  <2>2. CASE owners = {}
    <3>1. ~(Cardinality(owners) > 1) BY <2>2, FS_EmptySet
    <3>2. QED BY <1>4, <2>2, <3>1
  <2>3. CASE ~(Cardinality(owners) > 1) /\ owners # {} BY <1>4, <2>3
  <2>4. QED BY <2>1, <2>2, <2>3
<1>10. /\ g \in FindType /\ g.pc = "decided" /\ g.stamps = f.stamps /\ g.steady = f.steady
       /\ g.matches = owners /\ g.answer = a
  BY <1>2, <1>5, <1>8, <1>9, NothingIsPartial DEF FindType, Entries
<1>11. \A m \in g.steady : library[m].text = "claims" => Carries(g, m)
  BY <1>2, <1>7, <1>10 DEF FindFits, Carries, Shown
<1>12. FindFits(g) BY <1>2, <1>9, <1>10, <1>11 DEF FindFits
<1>13. QED BY <1>6, <1>10, <1>12, FindMoves

\* An edit: nobody is steady on that manifest any more, and what was stamped
\* before it is not what is there.
LEMMA EditInv ==
    ASSUME OwnInv, NEW x \in Drafts, EditManifest(x)
    PROVE  OwnInv'
<1>1. PICK text \in Contents \ {library[x].text}, mtime \in {edits + 1, library[x].mtime} :
        /\ Reverts \/ mtime = edits + 1 \/ text \notin past[x]
        /\ library' = [library EXCEPT ![x] = [text |-> text, mtime |-> mtime]]
        /\ past' = [past EXCEPT ![x] = @ \cup {text}]
  BY DEF EditManifest
<1>2. /\ edits < MaxEdits /\ edits' = edits + 1 /\ UNCHANGED index
      /\ find' = [p \in Resolvers |-> [find[p] EXCEPT !.steady = @ \ {x}]]
  BY DEF EditManifest
<1>3. /\ x \in Manifests /\ edits \in 0..MaxEdits /\ MaxEdits \in Nat /\ ~Reverts
      /\ library \in [Manifests -> Version] /\ past \in [Manifests -> SUBSET Contents]
      /\ Remembers
  BY OwnershipAssumption DEF OwnInv, OwnTypes
<1>4. edits' \in 0..MaxEdits /\ edits + 1 \in 0..MaxEdits /\ edits \in Nat BY <1>2, <1>3
<1>5. mtime \in 0..MaxEdits /\ mtime <= edits' BY <1>1, <1>2, <1>3, <1>4 DEF Version, Remembers
<1>6. PICK v : v = [text |-> text, mtime |-> mtime] OBVIOUS
<1>7. v \in Version /\ v.text = text /\ v.mtime = mtime BY <1>1, <1>5, <1>6 DEF Version
<1>8. /\ library' \in [Manifests -> Version] /\ library'[x] = v
      /\ \A m \in Manifests : m # x => library'[m] = library[m]
  BY <1>1, <1>3, <1>6, <1>7
<1>9. /\ past' \in [Manifests -> SUBSET Contents] /\ past'[x] = past[x] \cup {text}
      /\ \A m \in Manifests : m # x => past'[m] = past[m]
  BY <1>1, <1>3
<1>10. \A m \in Manifests : past[m] \subseteq past'[m] BY <1>3, <1>9
<1>11. Remembers'
  <2>1. ASSUME NEW m \in Manifests
        PROVE  library'[m].mtime <= edits' /\ library'[m].text \in past'[m]
    <3>1. CASE m = x BY <1>5, <1>7, <1>8, <1>9, <3>1
    <3>2. CASE m # x
      <4>1. library[m] \in Version /\ library[m].mtime <= edits /\ library[m].text \in past[m]
        BY <1>3 DEF Remembers
      <4>2. library[m].mtime \in Nat BY <4>1 DEF Version
      <4>3. QED BY <1>2, <1>4, <1>8, <1>9, <3>2, <4>1, <4>2
    <3>3. QED BY <3>1, <3>2
  <2>2. QED BY <2>1 DEF Remembers
<1>12. ASSUME NEW s \in Stamps, StampsArePast(s)
       PROVE  /\ StampsArePast(s)'
              /\ \A m \in DOMAIN s : library'[m] = s[m] => m # x
  <2>1. ASSUME NEW m \in DOMAIN s PROVE s[m] \in Version /\ m \in Manifests
    BY PartialFacts DEF Stamps
  <2>2. ASSUME NEW m \in DOMAIN s PROVE s[m].text \in past'[m] /\ s[m].mtime <= edits'
    <3>1. s[m].mtime \in Nat BY <2>1 DEF Version
    <3>2. s[m].text \in past[m] /\ s[m].mtime <= edits BY <1>12 DEF StampsArePast
    <3>3. QED BY <1>2, <1>4, <1>10, <2>1, <3>1, <3>2
  <2>3. ASSUME x \in DOMAIN s PROVE s[x] # v
    <3>1. s[x].text \in past[x] /\ s[x].mtime <= edits BY <1>12, <2>3 DEF StampsArePast
    <3>2. mtime = edits + 1 => s[x].mtime # mtime
      <4>1. s[x].mtime \in Nat BY <2>1, <2>3 DEF Version
      <4>2. QED BY <1>4, <3>1, <4>1
    <3>3. mtime # edits + 1 => s[x].text # text BY <1>1, <1>3, <3>1
    <3>4. QED BY <1>7, <3>2, <3>3
  <2>4. StampsArePast(s)' BY <2>2 DEF StampsArePast
  <2>5. QED BY <1>8, <2>3, <2>4
<1>13. ASSUME NEW s \in Stamps, NEW e, StampsArePast(s), ShowClaims(s, e)
       PROVE  ShowClaims(s, e)'
  <2>1. \A m \in DOMAIN s : m \in Manifests BY PartialFacts DEF Stamps
  <2>2. \A m \in DOMAIN s : library'[m] = s[m] => library'[m] = library[m]
    BY <1>8, <1>12, <1>13, <2>1
  <2>3. QED BY <1>13, <2>2 DEF ShowClaims
<1>14. ASSUME NEW p \in Resolvers PROVE find'[p] \in FindType /\ FindFits(find[p])'
  <2>1. PICK f : f = find[p] OBVIOUS
  <2>2. PICK g : g = [f EXCEPT !.steady = f.steady \ {x}] OBVIOUS
  <2>3. find'[p] = g BY <1>2, <2>1, <2>2
  <2>4. f \in FindType /\ FindFits(f) BY <2>1, OwnReads
  <2>5. /\ g \in FindType /\ g.pc = f.pc /\ g.todo = f.todo /\ g.stamps = f.stamps
        /\ g.entries = f.entries /\ g.matches = f.matches /\ g.answer = f.answer
        /\ g.steady = f.steady \ {x} /\ f.stamps \in Stamps /\ f.steady \subseteq Manifests
    BY <2>2, <2>4 DEF FindType
  <2>6. StampsArePast(f.stamps)' BY <1>12, <2>4, <2>5 DEF FindFits
  <2>7. f.pc = "publish" => ShowClaims(f.stamps, f.entries)'
    BY <1>13, <2>4, <2>5 DEF FindFits
  <2>8. ASSUME NEW m \in g.steady, library'[m].text = "claims" PROVE Carries(g, m)'
    <3>1. library'[m] = library[m] /\ m \in f.steady BY <1>8, <2>5, <2>8
    <3>2. Carries(f, m) BY <2>4, <2>8, <3>1 DEF FindFits
    <3>3. QED BY <2>5, <3>1, <3>2 DEF Carries, StampedNow, Shown
  <2>9. FindFits(g)'
    <3>1. StampsArePast(g.stamps)' BY <2>5, <2>6
    <3>2. g.pc = "publish" => ShowClaims(g.stamps, g.entries)' BY <2>5, <2>7
    <3>3. QED BY <2>4, <2>5, <2>8, <3>1, <3>2 DEF FindFits
  <2>10. QED
    BY <2>3, <2>5, <2>9 DEF FindFits, StampsArePast, ShowClaims, Carries, StampedNow, Shown
<1>15. OwnTypes'
  <2>1. find' \in [Resolvers -> FindType] BY <1>2, <1>14
  <2>2. QED BY <1>2, <1>4, <1>8, <1>9, <2>1 DEF OwnInv, OwnTypes
<1>16. (index # NoIndex => StampsArePast(index.stamps) /\ ShowClaims(index.stamps, index.entries))'
  <2>1. PICK i : i = index OBVIOUS
  <2>2. CASE i = NoIndex BY <1>2, <2>1, <2>2
  <2>3. CASE i # NoIndex
    <3>1. i \in IndexType /\ StampsArePast(i.stamps) /\ ShowClaims(i.stamps, i.entries)
      BY <2>1, <2>3 DEF OwnInv, OwnTypes
    <3>2. i.stamps \in Stamps BY <3>1 DEF IndexType
    <3>3. StampsArePast(i.stamps)' /\ ShowClaims(i.stamps, i.entries)' BY <1>12, <1>13, <3>1, <3>2
    <3>4. QED BY <1>2, <2>1, <3>3 DEF StampsArePast, ShowClaims
  <2>4. QED BY <2>2, <2>3
<1>17. QED BY <1>3, <1>11, <1>14, <1>15, <1>16 DEF OwnInv

LEMMA OwnStepInv ==
    ASSUME OwnInv, [OwnNext]_ownVars
    PROVE  OwnInv'
<1>1. ASSUME NEW p \in Resolvers, ResolverStep(p) PROVE OwnInv'
  BY <1>1, EnumerateInv, StampBytesInv, StampTimeInv, LoadInv, DeriveInv, PublishIndexInv,
     RematchInv DEF ResolverStep
<1>2. ASSUME (UNCHANGED <<library, edits, past, find>>), index' \in {index, NoIndex} PROVE OwnInv'
  BY <1>2 DEF OwnInv, OwnTypes, Remembers, FindFits, StampsArePast, ShowClaims, Carries,
              StampedNow, Shown
<1>3. LoseIndex \/ UNCHANGED ownVars => OwnInv' BY <1>2 DEF LoseIndex, ownVars
<1>4. QED BY <1>1, <1>3, EditInv DEF OwnNext

LEMMA OwnInitInv ==
    ASSUME ~Reverts, OwnInit
    PROVE  OwnInv
<1>1. Idle \in FindType /\ Idle.pc = "idle" /\ Idle.stamps = <<>>
  BY NothingIsPartial DEF Idle, FindType, Stamps, Entries
<1>2. StampsArePast(Idle.stamps) BY <1>1, NothingIsPartial DEF StampsArePast
<1>3. FindFits(Idle) BY <1>1, <1>2 DEF FindFits, Carries
<1>4. 0 \in 0..MaxEdits BY OwnershipAssumption
<1>5. library \in [Manifests -> Version] /\ \A m \in Manifests : library[m].mtime = 0
  BY <1>4 DEF OwnInit, Version, Contents
<1>6. past \in [Manifests -> SUBSET Contents] /\ \A m \in Manifests : library[m].text \in past[m]
  BY <1>5 DEF OwnInit, Version
<1>7. OwnTypes BY <1>1, <1>4, <1>5, <1>6 DEF OwnInit, OwnTypes
<1>8. Remembers BY <1>5, <1>6 DEF OwnInit, Remembers
<1>9. QED BY <1>3, <1>7, <1>8 DEF OwnInit, OwnInv

\* However resolvers, publications and edits interleave, no command settles on an
\* owner, or on nobody, over a manifest that claimed the directory throughout,
\* provided no rewrite brings old bytes back under an old modification time:
\* the stamp is then a name for the content (ManifestStamp, load_or_rebuild).
THEOREM OwnershipIsSafe == ~Reverts /\ OwnSpec => []OwnershipSafe
<1>1. ASSUME OwnInv PROVE OwnershipSafe
  <2>1. OwnTypeOK
    BY <1>1 DEF OwnInv, OwnTypes, OwnTypeOK, FindType, IndexType, Stamps, Entries
  <2>2. ASSUME NEW p \in Resolvers, find[p].pc = "decided"
        PROVE  SteadyClaims(p) \subseteq find[p].matches
               /\ (find[p].answer = "unbound" => find[p].matches = {})
    BY <1>1, <2>2, OwnReads DEF FindFits, Carries, SteadyClaims
  <2>3. NoHiddenClaim BY <2>2 DEF NoHiddenClaim
  <2>4. QED BY <2>1, <2>3 DEF OwnershipSafe
<1>2. ~Reverts /\ OwnInit => OwnInv BY OwnInitInv
<1>3. OwnInv /\ [OwnNext]_ownVars => OwnInv' BY OwnStepInv
<1>4. QED BY <1>1, <1>2, <1>3, PTL DEF OwnSpec
==============================================================================
