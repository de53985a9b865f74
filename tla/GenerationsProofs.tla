-------------------------- MODULE GenerationsProofs --------------------------
(***************************************************************************)
(* Theorems of Generations, for every set of builds and lock contents and  *)
(* any highest number.                                                     *)
(***************************************************************************)
EXTENDS Generations, TLAPS

\* A root link's output is in the store: the collector spares it.
Rooted == \A n \in Linked : link[n] \in store

\* What a VM that is no orphan was booted from has a root, as long as
\* running-build names it.
VmPinned == vm # NoBuild /\ ~orphan /\ running = vm => Pinned(vm)

\* Between verbs a VM that is no orphan has its records.
OnRecord == vm # NoBuild /\ ~orphan /\ ~onRecord => pc = "wait"

\* The values of an append under way: the number is past every link until
\* the root is registered, the record matches the snapshot, and what is about
\* to be booted has a root.
Writer ==
    /\ pc = "append" => build \in Builds /\ lock \in Locks
    /\ pc \in {"digest", "register", "point"} =>
          num \in Numbers /\ build \in Builds /\ lock \in Locks
    /\ pc \in {"digest", "register"} => \A m \in Linked : m < num
    /\ pc = "digest" => snap[num] = lock
    /\ pc = "register" => meta[num] = Record /\ snap[num] = lock
    /\ pc = "point" => num \in Linked /\ link[num] = build
    /\ pc \in {"boot", "launch"} => build \in Builds /\ Pinned(build)

\* What prune has still to unlink is neither current nor the VM's, if that is
\* no orphan and running-build names it.
Selected ==
    pc = "unlink" => /\ current \notin rows
                     /\ vm # NoBuild /\ ~orphan /\ running = vm =>
                            \A n \in rows : link[n] # vm

\* The inductive invariant: the pointer and the labels are kept only by a
\* destroy that removes its whole tree.
IInv ==
    /\ TypeOK /\ Rooted /\ VmPinned /\ OnRecord /\ Writer /\ Selected
    /\ ~TornDestroy => (current # 0 => current \in Linked) /\ RootsAreLabelled

-----------------------------------------------------------------------------
\* The absent record is no record.
LEMMA NoMetaIsNone == NoMeta \notin Meta
BY GenerationsAssumption DEF NoMeta, Meta

\* The initial state satisfies the inductive invariant.
LEMMA InitIInv == Init => IInv
<1> SUFFICES ASSUME Init PROVE IInv
  OBVIOUS
<1>1. TypeOK BY GenerationsAssumption DEF Init, TypeOK, Labels
<1>2. Linked = {} BY DEF Init, Linked
<1>3. QED
  BY <1>1, <1>2 DEF Init, IInv, Rooted, VmPinned, OnRecord, Writer, Selected, RootsAreLabelled

\* Every step keeps the types.
LEMMA TypeStep == IInv /\ [Next]_vars => TypeOK'
<1> SUFFICES ASSUME IInv, [Next]_vars PROVE TypeOK'
  OBVIOUS
<1> USE DEF files, args, unit, Labels
<1>t. TypeOK BY DEF IInv
<1>1. ASSUME NEW b \in Builds, NEW l \in Locks, Build(b, l) PROVE TypeOK'
  BY <1>t, <1>1 DEF Build, TypeOK
<1>2. ASSUME NEW n \in Numbers, StartRetained(n) PROVE TypeOK'
  BY <1>t, <1>2 DEF StartRetained, TypeOK
<1>3. ASSUME NEW n \in Numbers, Activate(n) PROVE TypeOK'
  BY <1>t, <1>3 DEF Activate, TypeOK
<1>4. CASE PublishSnapshot
  BY <1>t, <1>4 DEF PublishSnapshot, TypeOK, Done, IInv, Writer
<1>5. CASE PublishMetadata
  <2>1. Record \in Meta BY <1>5 DEF PublishMetadata, IInv, Writer, Record, Meta
  <2>2. QED BY <1>t, <1>5, <2>1 DEF PublishMetadata, TypeOK, Done
<1>6. CASE RegisterRoot
  BY <1>t, <1>6 DEF RegisterRoot, TypeOK, Done, IInv, Writer
<1>7. CASE PointAt BY <1>t, <1>7 DEF PointAt, TypeOK, Done
<1>8. CASE WriteRunning BY <1>t, <1>8 DEF WriteRunning, NoUnit, TypeOK, Done
<1>18. CASE Launch BY <1>t, <1>18 DEF Launch, TypeOK, Done
<1>19. CASE Records BY <1>t, <1>19 DEF Records, TypeOK
<1>20. CASE Waited BY <1>t, <1>20 DEF Waited, TypeOK, Done
<1>9. CASE Prune
  <2>1. Select \subseteq SUBSET Numbers BY DEF Select, Known, Linked
  <2>2. QED BY <1>t, <1>9, <2>1 DEF Prune, TypeOK
<1>10. CASE Unlink BY <1>t, <1>10 DEF Unlink, RemoveRootFirst, TypeOK, Done
<1>11. CASE Rollback BY <1>t, <1>11, <1>3 DEF Rollback
<1>12. CASE Destroy BY <1>t, <1>12 DEF Destroy, NoUnit, TypeOK
<1>13. ASSUME NEW b \in Builds, Collect(b) PROVE TypeOK'
  BY <1>t, <1>13 DEF Collect, TypeOK
<1>14. CASE VmEnds BY <1>t, <1>14 DEF VmEnds, NoUnit, TypeOK
<1>15. CASE Crash BY <1>t, <1>15 DEF Crash, TypeOK, Done
<1>16. CASE UNCHANGED vars BY <1>t, <1>16 DEF vars, TypeOK
<1>17. QED
  BY <1>1, <1>2, <1>3, <1>4, <1>5, <1>6, <1>7, <1>8, <1>9, <1>10, <1>11, <1>12,
     <1>13, <1>14, <1>15, <1>16, <1>18, <1>19, <1>20 DEF Next
-----------------------------------------------------------------------------
(* Preservation, one lemma for the steps that move no file, one for those  *)
(* of append, one for those that remove.                                   *)

\* Steps that leave links, records and snapshots in place.
LEMMA QuietStep ==
    ASSUME IInv, TypeOK', UNCHANGED files,
           \/ \E b \in Builds, l \in Locks : Build(b, l)
           \/ \E n \in Numbers : StartRetained(n) \/ Activate(n)
           \/ \E b \in Builds : Collect(b)
           \/ PointAt \/ WriteRunning \/ Launch \/ Records \/ Waited \/ Prune \/ VmEnds \/ Crash \/ UNCHANGED vars
    PROVE  IInv'
<1> USE DEF files, args, unit
<1>l. Linked' = Linked /\ UNCHANGED RootsAreLabelled
  BY DEF Linked, RootsAreLabelled
<1>p. \A b : Pinned(b)' <=> Pinned(b)
  BY <1>l DEF Pinned
<1>1. ASSUME NEW b \in Builds, NEW l \in Locks, Build(b, l) PROVE IInv'
  BY <1>1, <1>l, <1>p
     DEF Build, IInv, Rooted, VmPinned, OnRecord, Writer, Selected, Bootable, Pinned
<1>2. ASSUME NEW n \in Numbers, StartRetained(n) PROVE IInv'
  <2>1. build' \in Builds /\ Pinned(build')
    BY <1>2 DEF StartRetained, Bootable, Linked, Pinned, IInv, TypeOK
  <2>2. QED
    BY <1>2, <1>l, <1>p, <2>1 DEF StartRetained, IInv, Rooted, VmPinned, OnRecord, Writer, Selected
<1>3. ASSUME NEW n \in Numbers, Activate(n) PROVE IInv'
  BY <1>3, <1>l, <1>p
     DEF Activate, Bootable, IInv, Rooted, VmPinned, OnRecord, Writer, Selected
<1>4. ASSUME NEW b \in Builds, Collect(b) PROVE IInv'
  <2>1. Rooted' BY <1>4, <1>l DEF Collect, Rooted, Pinned, IInv
  <2>2. Writer' BY <1>4, <1>l, <1>p DEF Collect, Writer, Record, IInv
  <2>3. QED BY <1>4, <1>l, <1>p, <2>1, <2>2 DEF Collect, IInv, VmPinned, OnRecord, Selected
<1>5. CASE PointAt
  <2>1. num \in Linked /\ build \in Builds /\ Pinned(build)
    BY <1>5 DEF PointAt, IInv, Writer, Pinned
  <2>2. Writer' BY <1>5, <1>l, <1>p, <2>1 DEF PointAt, Done, Writer
  <2>3. QED
    BY <1>5, <1>l, <1>p, <2>1, <2>2 DEF PointAt, Done, IInv, Rooted, VmPinned, OnRecord, Selected
<1>6. CASE WriteRunning
  <2>1. pc = "boot" /\ pc' \in {"launch", "idle"} /\ UNCHANGED <<store, current>>
    BY <1>6 DEF WriteRunning, Done
  <2>2. build \in Builds /\ Pinned(build) BY <2>1 DEF IInv, Writer
  <2>3. VmPinned' BY <1>6, <1>p, <2>2 DEF WriteRunning, NoUnit, IInv, VmPinned
  <2>4. OnRecord' BY <1>6, <2>1 DEF WriteRunning, NoUnit, IInv, OnRecord
  <2>5. Writer' BY <1>6, <1>p, <2>1, <2>2 DEF WriteRunning, Done, Writer
  <2>6. QED BY <1>l, <2>1, <2>3, <2>4, <2>5 DEF IInv, Rooted, Selected
<1>12. CASE Launch
  <2>1. pc = "launch" /\ pc' \in {"wait", "idle"} /\ UNCHANGED <<store, current, running>>
    BY <1>12 DEF Launch, Done
  <2>2. Pinned(build) BY <2>1 DEF IInv, Writer
  <2>3. VmPinned' BY <1>12, <1>p, <2>2 DEF Launch, IInv, VmPinned
  <2>4. OnRecord' BY <1>12, <2>1 DEF Launch, IInv, OnRecord
  <2>5. QED BY <1>l, <2>1, <2>3, <2>4 DEF IInv, Rooted, Writer, Selected
<1>13. CASE Records
  <2>1. Writer' BY <1>13, <1>l, <1>p DEF Records, IInv, Writer, Record
  <2>2. QED
    BY <1>13, <1>l, <1>p, <2>1 DEF Records, IInv, Rooted, VmPinned, OnRecord, Selected
<1>14. CASE Waited
  BY <1>14, <1>l, <1>p
     DEF Waited, Done, IInv, TypeOK, Rooted, VmPinned, OnRecord, Writer, Selected
<1>7. CASE Prune
  <2>1. PICK sel \in Select : rows' = sel /\ (~RefusesPrune(sel, FALSE) \/ ReadsResting)
    BY <1>7 DEF Prune
  <2>2. current \notin sel BY DEF Select, Known
  <2>5. rows' = sel /\ UNCHANGED <<unit, running, current, link>> /\ pc = "idle"
    BY <1>7, <2>1 DEF Prune
  <2>6. vm # NoBuild /\ ~orphan /\ running = vm => \A n \in sel : link[n] # vm
    BY <2>1, <2>5 DEF RefusesPrune, ReadsResting, IInv, OnRecord
  <2>3. Selected' BY <2>2, <2>5, <2>6 DEF Selected
  <2>4. QED BY <1>7, <1>l, <1>p, <2>3 DEF Prune, IInv, Rooted, VmPinned, OnRecord, Writer
<1>8. CASE VmEnds
  BY <1>8, <1>l, <1>p
     DEF VmEnds, NoUnit, IInv, Rooted, VmPinned, OnRecord, Writer, Selected, Record
<1>9. CASE Crash
  BY <1>9, <1>l, <1>p DEF Crash, Done, IInv, Rooted, VmPinned, OnRecord, Writer, Selected
<1>10. CASE UNCHANGED vars
  BY <1>10, <1>l, <1>p DEF vars, IInv, Rooted, VmPinned, OnRecord, Writer, Selected, Record
<1>11. QED
  BY <1>1, <1>2, <1>3, <1>4, <1>5, <1>6, <1>7, <1>8, <1>9, <1>10,
     <1>12, <1>13, <1>14

\* The three steps of append that write a generation's files.
LEMMA AppendStep ==
    ASSUME IInv, TypeOK', PublishSnapshot \/ PublishMetadata \/ RegisterRoot
    PROVE  IInv'
<1> USE DEF unit
<1>o. OnRecord'
  BY DEF PublishSnapshot, PublishMetadata, RegisterRoot, Done, IInv, OnRecord
<1>1. CASE PublishSnapshot
  <2>1. Linked' = Linked /\ UNCHANGED <<link, meta, store, unit, running, current>>
    BY <1>1 DEF PublishSnapshot, Linked
  <2>2. PICK n \in Numbers : IsNext(n) /\ snap' \in {snap, [snap EXCEPT ![n] = lock]}
                            /\ (pc' = "digest" => num' = n /\ snap'[n] = lock)
    BY <1>1 DEF PublishSnapshot, Done, IInv, TypeOK
  <2>3. \A m \in Linked : m < n /\ snap'[m] = snap[m]
    BY <2>2 DEF IsNext, Known, Linked, IInv, TypeOK, Numbers
  <2>4. RootsAreLabelled => RootsAreLabelled'
    BY <2>1, <2>3 DEF RootsAreLabelled
  <2>5. Writer' /\ Selected'
    BY <1>1, <2>1, <2>2, <2>3 DEF PublishSnapshot, Done, IInv, Writer, Selected
  <2>6. QED BY <1>o, <2>1, <2>4, <2>5 DEF IInv, Rooted, VmPinned, Pinned
<1>2. CASE PublishMetadata
  <2>1. Linked' = Linked /\ UNCHANGED <<link, store, unit, running, current>>
    BY <1>2 DEF PublishMetadata, Linked
  <2>2. num \in Numbers /\ \A m \in Linked : m < num
    BY <1>2 DEF PublishMetadata, IInv, Writer
  <2>3. \A m \in Linked : meta'[m] = meta[m] /\ snap'[m] = snap[m]
    BY <1>2, <2>2 DEF PublishMetadata, IInv, TypeOK, Linked, Numbers
  <2>4. RootsAreLabelled => RootsAreLabelled'
    BY <2>1, <2>3 DEF RootsAreLabelled
  <2>5. Writer' /\ Selected'
    BY <1>2, <2>1, <2>2 DEF PublishMetadata, Done, IInv, TypeOK, Writer, Selected, Record
  <2>6. QED BY <1>o, <2>1, <2>4, <2>5 DEF IInv, Rooted, VmPinned, Pinned
<1>3. CASE RegisterRoot
  <2>1. num \in Numbers /\ build \in Builds /\ (\A m \in Linked : m < num)
        /\ meta[num] = Record
    BY <1>3 DEF RegisterRoot, IInv, Writer
  <2>2. CASE link' = [link EXCEPT ![num] = build] /\ build \in store /\ pc' = "point"
             /\ UNCHANGED <<meta, snap, args>>
    <3>1. Linked' = Linked \cup {num} /\ link'[num] = build
          /\ \A m \in Linked : link'[m] = link[m]
      BY <2>1, <2>2, GenerationsAssumption DEF Linked, IInv, TypeOK, Numbers
    <3>2. RootsAreLabelled => RootsAreLabelled'
      BY <2>1, <2>2, <3>1 DEF RootsAreLabelled, Record
    <3>3. Rooted' /\ VmPinned'
      BY <1>3, <2>2, <3>1 DEF RegisterRoot, IInv, Rooted, VmPinned, Pinned
    <3>4. Writer' /\ Selected'
      BY <1>3, <2>1, <2>2, <3>1 DEF RegisterRoot, IInv, Writer, Selected, args
    <3>5. QED BY <1>3, <1>o, <3>1, <3>2, <3>3, <3>4 DEF RegisterRoot, IInv
  <2>3. CASE Done /\ UNCHANGED link
             /\ meta' \in {meta, [meta EXCEPT ![num] = NoMeta]}
             /\ snap' \in {snap, [snap EXCEPT ![num] = NoLock]}
    <3>1. Linked' = Linked BY <2>3 DEF Linked
    <3>2. \A m \in Linked : meta'[m] = meta[m] /\ snap'[m] = snap[m]
      BY <2>1, <2>3 DEF IInv, TypeOK, Linked, Numbers
    <3>3. RootsAreLabelled => RootsAreLabelled'
      BY <2>3, <3>1, <3>2 DEF RootsAreLabelled
    <3>4. QED
      BY <1>3, <1>o, <2>3, <3>1, <3>3
         DEF RegisterRoot, Done, IInv, Rooted, VmPinned, Pinned, Writer, Selected
  <2>4. QED BY <1>3, <2>2, <2>3 DEF RegisterRoot
<1>4. QED BY <1>1, <1>2, <1>3

\* Unlinking spares current's root and the running VM's; a destroy that
\* removes its whole tree leaves nothing to label.
LEMMA RemoveStep ==
    ASSUME IInv, TypeOK', Unlink \/ Destroy
    PROVE  IInv'
<1> USE DEF unit
<1>1. CASE Unlink
  <2>1. PICK n \in rows, k \in 0..3 : RemoveRootFirst(n, k)
    BY <1>1 DEF Unlink
  <2>2. n \in Numbers /\ n # current
        /\ (vm # NoBuild /\ ~orphan /\ running = vm => link[n] # vm)
    BY <1>1 DEF Unlink, IInv, TypeOK, Selected
  <2>3. /\ Linked' \subseteq Linked
        /\ \A m \in Linked : m # n => m \in Linked'
        /\ \A m \in Linked' : link'[m] = link[m]
    BY <2>1, <2>2 DEF RemoveRootFirst, Linked, IInv, TypeOK
  <2>4. \A m \in Linked' : meta'[m] = meta[m] /\ snap'[m] = snap[m]
    BY <2>1, <2>2 DEF RemoveRootFirst, Linked, IInv, TypeOK
  <2>5. RootsAreLabelled => RootsAreLabelled'
    BY <2>3, <2>4 DEF RootsAreLabelled
  <2>6. Rooted' /\ VmPinned'
    BY <1>1, <2>2, <2>3 DEF Unlink, IInv, Rooted, VmPinned, Pinned
  <2>7. Writer' BY <1>1 DEF Unlink, Done, Writer
  <2>8. Selected'
    <3>1. \A m \in Numbers : link'[m] \in {link[m], NoBuild}
      BY <2>1, <2>2 DEF RemoveRootFirst, IInv, TypeOK
    <3>2. QED BY <1>1, <3>1 DEF Unlink, Done, Selected, IInv, TypeOK
  <2>9. (current # 0 => current \in Linked) => (current' # 0 => current' \in Linked')
    BY <1>1, <2>2, <2>3 DEF Unlink
  <2>11. OnRecord' BY <1>1 DEF Unlink, Done, IInv, OnRecord
  <2>10. QED BY <2>5, <2>6, <2>7, <2>8, <2>9, <2>11 DEF IInv
<1>2. CASE Destroy
  <2>1. pc = "idle" /\ pc' = "idle" /\ store' = store
    BY <1>2 DEF Destroy
  <2>5. vm' = NoBuild \/ orphan'
    BY <1>2, <2>1 DEF Destroy, NoUnit, ReadsResting, unit, IInv, OnRecord
  <2>2. Rooted'
    BY <1>2, <2>1 DEF Destroy, Rooted, Linked, IInv, TypeOK
  <2>3. ~TornDestroy => Linked' = {} /\ current' = 0
    BY <1>2 DEF Destroy, Linked
  <2>4. QED
    BY <2>1, <2>2, <2>3, <2>5 DEF IInv, VmPinned, OnRecord, Writer, Selected, RootsAreLabelled
<1>3. QED BY <1>1, <1>2

\* Every step preserves the inductive invariant.
LEMMA NextIInv == IInv /\ [Next]_vars => IInv'
<1> SUFFICES ASSUME IInv, [Next]_vars PROVE IInv'
  OBVIOUS
<1>1. TypeOK' BY TypeStep
<1>2. CASE PublishSnapshot \/ PublishMetadata \/ RegisterRoot BY <1>1, <1>2, AppendStep
<1>3. CASE Unlink \/ Destroy BY <1>1, <1>3, RemoveStep
<1>4. CASE Rollback
  <2>1. PICK n \in Numbers : Activate(n) BY <1>4 DEF Rollback
  <2>2. QED BY <1>1, <2>1, QuietStep DEF Activate
<1>5. CASE ~(PublishSnapshot \/ PublishMetadata \/ RegisterRoot \/ Unlink \/ Destroy \/ Rollback)
  <2>1. UNCHANGED files
    BY <1>5 DEF Next, Build, StartRetained, Activate, PointAt, WriteRunning, Launch, Records, Waited, Prune, Collect,
                VmEnds, Crash, vars
  <2>2. QED BY <1>1, <1>5, <2>1, QuietStep DEF Next
<1>6. QED BY <1>2, <1>3, <1>4, <1>5

\* The inductive invariant holds throughout.
THEOREM Invariance == Spec => []IInv
BY InitIInv, NextIInv, PTL DEF Spec

-----------------------------------------------------------------------------
(* What the runs check, for every instance.                                *)

\* Type correctness of the profile's files and of its writer.
THEOREM TypeCorrect == Spec => []TypeOK
<1>1. IInv => TypeOK BY DEF IInv
<1>2. QED BY <1>1, Invariance, PTL

\* The closure of a VM that was seen through to its records and that
\* running-build names is never collected, whatever is pruned, activated,
\* destroyed or left behind by a crash, and although viv gc takes no lock.
THEOREM ClosureIsHeld == Spec => []ClosureHeld
<1>1. IInv => ClosureHeld
  BY DEF IInv, ClosureHeld, VmPinned, OnRecord, Rooted, Pinned
<1>2. QED BY <1>1, Invariance, PTL

\* Without a torn destroy `current` always names a bootable generation.
THEOREM CurrentBoots == ~TornDestroy => (Spec => []CurrentIsBootable)
<1> SUFFICES ASSUME ~TornDestroy PROVE Spec => []CurrentIsBootable
  OBVIOUS
<1>1. IInv => CurrentIsBootable
  BY DEF IInv, CurrentIsBootable, Bootable, Rooted
<1>2. QED BY <1>1, Invariance, PTL

\* Without a torn destroy every root has a record of its build and the digest
\* of the lock snapshot that is retained beside it.
THEOREM RootsLabelled == ~TornDestroy => (Spec => []RootsAreLabelled)
<1> SUFFICES ASSUME ~TornDestroy PROVE Spec => []RootsAreLabelled
  OBVIOUS
<1>1. IInv => RootsAreLabelled BY DEF IInv
<1>2. QED BY <1>1, Invariance, PTL

\* A retained generation never changes the build it names, torn destroys
\* included: register_root is the only step that writes a link, and the
\* number it writes is past every one that is linked.
THEOREM HistoryKept == Spec => HistoryIsImmutable
<1>1. ASSUME IInv, [Next]_vars, NEW n \in Linked
      PROVE  link'[n] \in {link[n], NoBuild}
  <2>t. n \in Numbers /\ link \in [Numbers -> Builds \cup {NoBuild}]
    BY <1>1 DEF Linked, IInv, TypeOK
  <2>1. CASE RegisterRoot
    <3>1. num \in Numbers /\ n # num
      BY <1>1, <2>1, <2>t DEF RegisterRoot, IInv, Writer, Numbers
    <3>2. QED BY <2>1, <2>t, <3>1 DEF RegisterRoot
  <2>2. CASE Unlink
    BY <2>2, <2>t DEF Unlink, RemoveRootFirst
  <2>3. CASE Destroy
    BY <2>3, <2>t DEF Destroy
  <2>4. CASE ~(RegisterRoot \/ Unlink \/ Destroy)
    <3>1. UNCHANGED link
      BY <1>1, <2>4 DEF Next, Build, StartRetained, Activate, PublishSnapshot,
         PublishMetadata, PointAt, WriteRunning, Launch, Records, Waited, Prune, Rollback, Collect, VmEnds, Crash,
         vars, files
    <3>2. QED BY <3>1
  <2>5. QED BY <2>1, <2>2, <2>3, <2>4
<1>2. IInv /\ [Next]_vars => [\A n \in Linked : link'[n] \in {link[n], NoBuild}]_vars
  BY <1>1
<1>3. QED BY <1>2, Invariance, PTL DEF Spec, HistoryIsImmutable

-----------------------------------------------------------------------------
(* Refinement: every step on the files is a step of the profile, or none.  *)

\* The profile's entries, as the refinement mapping reads them off the links.
Entries == {<<n, link[n]>> : n \in Linked}

\* Unlinking one generation drops its entry, or nothing yet.
LEMMA UnlinkDrops ==
    ASSUME IInv, Unlink
    PROVE  /\ current' = current
           /\ \/ Entries' = Entries
              \/ \E e \in Entries : e[1] # current /\ Entries' = Entries \ {e}
<1>1. PICK n \in rows, k \in 0..3 : RemoveRootFirst(n, k)
  BY DEF Unlink
<1>2. n \in Numbers /\ n # current
  BY DEF Unlink, IInv, TypeOK, Selected
<1>3. current' = current BY DEF Unlink
<1>4. CASE link' = link
  BY <1>3, <1>4 DEF Entries, Linked
<1>5. CASE link' = [link EXCEPT ![n] = NoBuild] /\ n \notin Linked
  <2>1. link' = link BY <1>2, <1>5 DEF Linked, IInv, TypeOK
  <2>2. QED BY <1>3, <2>1 DEF Entries, Linked
<1>6. CASE link' = [link EXCEPT ![n] = NoBuild] /\ n \in Linked
  <2>1. Linked' = Linked \ {n} /\ \A m \in Linked' : link'[m] = link[m]
    BY <1>2, <1>6 DEF Linked, IInv, TypeOK
  <2>2. Entries' = Entries \ {<<n, link[n]>>}
    BY <2>1 DEF Entries
  <2>3. <<n, link[n]>> \in Entries BY <1>6 DEF Entries
  <2>4. QED BY <1>2, <1>3, <2>2, <2>3
<1>7. QED BY <1>1, <1>4, <1>5, <1>6 DEF RemoveRootFirst

\* Registering a root records an entry past every other.
LEMMA RegisterRecords ==
    ASSUME IInv, RegisterRoot
    PROVE  /\ current' = current
           /\ \/ Entries' = Entries
              \/ \E n \in Numbers, b \in Builds :
                    (\A e \in Entries : e[1] < n) /\ Entries' = Entries \cup {<<n, b>>}
<1>1. num \in Numbers /\ build \in Builds /\ \A m \in Linked : m < num
  BY DEF RegisterRoot, IInv, Writer
<1>2. current' = current BY DEF RegisterRoot
<1>3. CASE link' = link
  BY <1>2, <1>3 DEF Entries, Linked
<1>4. CASE link' = [link EXCEPT ![num] = build]
  <2>1. Linked' = Linked \cup {num} /\ link'[num] = build
        /\ \A m \in Linked : link'[m] = link[m]
    BY <1>1, <1>4, GenerationsAssumption DEF Linked, IInv, TypeOK, Numbers
  <2>2. Entries' = Entries \cup {<<num, build>>} BY <2>1 DEF Entries
  <2>3. \A e \in Entries : e[1] < num BY <1>1 DEF Entries
  <2>4. QED BY <1>1, <1>2, <2>2, <2>3
<1>5. QED BY <1>3, <1>4 DEF RegisterRoot

\* The pointer moves to an entry.
LEMMA PointMoves ==
    ASSUME NEW n \in Linked, UNCHANGED link, current' \in {current, n}
    PROVE  Entries' = Entries /\ (current' = current \/ \E e \in Entries : current' = e[1])
<1>1. Entries' = Entries BY DEF Entries, Linked
<1>2. <<n, link[n]>> \in Entries /\ <<n, link[n]>>[1] = n BY DEF Entries
<1>3. QED BY <1>1, <1>2

\* Without a torn destroy the files implement the profile: numbers past every
\* retained one, immutable entries, a pointer that is never left dangling.
THEOREM Refinement == ~TornDestroy => (Spec => ImplementsProfile)
<1> SUFFICES ASSUME ~TornDestroy PROVE Spec => ImplementsProfile
  OBVIOUS
<1> USE DEF Abstract!Init, Abstract!Next, Abstract!Record, Abstract!Point, Abstract!Drop,
            Abstract!Clear
<1>e. Entries = {<<n, link[n]>> : n \in Linked} BY DEF Entries
<1>1. Init => Abstract!Init
  <2> SUFFICES ASSUME Init PROVE Abstract!Init
    OBVIOUS
  <2>1. Linked = {} BY DEF Init, Linked
  <2>2. QED BY <2>1 DEF Init
<1>2. IInv /\ [Next]_vars => [Abstract!Next]_<<{<<n, link[n]>> : n \in Linked}, current>>
  <2> SUFFICES ASSUME IInv, [Next]_vars
               PROVE  [Abstract!Next]_<<Entries, current>>
    BY DEF Entries
  <2>1. CASE Unlink
    BY <2>1, UnlinkDrops DEF Entries
  <2>2. CASE RegisterRoot
    BY <2>2, RegisterRecords DEF Entries
  <2>3. CASE PointAt
    <3>1. num \in Linked /\ UNCHANGED link /\ current' \in {current, num}
      BY <2>3 DEF PointAt, files, IInv, Writer
    <3>2. QED BY <3>1, PointMoves DEF Entries
  <2>4. ASSUME NEW n \in Numbers, Activate(n) PROVE [Abstract!Next]_<<Entries, current>>
    <3>1. n \in Linked /\ UNCHANGED link /\ current' \in {current, n}
      BY <2>4 DEF Activate, files, Bootable
    <3>2. QED BY <3>1, PointMoves DEF Entries
  <2>5. CASE Rollback
    BY <2>4, <2>5 DEF Rollback
  <2>6. CASE Destroy
    <3>1. Linked' = {} /\ current' = 0 BY <2>6 DEF Destroy, Linked
    <3>2. Entries' = {} BY <3>1 DEF Entries
    <3>3. QED BY <3>1, <3>2 DEF Entries
  <2>7. CASE UNCHANGED <<link, current>>
    <3>1. Entries' = Entries BY <2>7 DEF Entries, Linked
    <3>2. QED BY <2>7, <3>1
  <2>8. \/ Unlink \/ RegisterRoot \/ PointAt \/ Rollback \/ Destroy
        \/ (\E n \in Numbers : Activate(n))
        \/ UNCHANGED <<link, current>>
    BY DEF Next, Build, StartRetained, PublishSnapshot, PublishMetadata, WriteRunning, Launch, Records, Waited, Prune,
           Collect, VmEnds, Crash, files, vars
  <2>9. QED BY <2>1, <2>2, <2>3, <2>4, <2>5, <2>6, <2>7, <2>8
<1>3. QED BY <1>1, <1>2, Invariance, PTL DEF Spec, ImplementsProfile, Abstract!Spec
=============================================================================
