---------------------------- MODULE TargetProofs ----------------------------
(***************************************************************************)
(* Theorems of Target, for every set of processes and builds, any number   *)
(* of invocations, and every combination of interruptions and manager      *)
(* faults: type correctness, and that one target never has two live VMs.   *)
(* While no process is killed and no unit queues past the accept, sessions *)
(* and destroys spare a VM that is up and a stop tells the truth; with a   *)
(* manager that answers, what a VM was booted from is pinned and named.    *)
(***************************************************************************)
EXTENDS Target, TLAPS

\* A unit that is not loaded, or whose main process has not been executed,
\* has neither a supervisor nor a VMM: the control group ends with the unit.
UnitOwnsGroup == unit \in {"absent", "activating"} => vms = {} /\ sup = "none"

\* A supervisor that has not spawned its VMM finds no VMM alive.
FreshSupervisor == sup \in {"connect", "boot"} => vms = {}

\* What a supervisor boots was read from a launch specification.
BootsFromSpec == sup = "boot" => spec \in Builds

\* The inductive invariant.  OneVm alone is not inductive: SupSpawnVmm adds a
\* VMM, so what is needed is that none is alive in the states it fires from,
\* which unit name uniqueness and the end of the group with its unit give.
IInv == StateOK /\ OneVm /\ UnitOwnsGroup /\ FreshSupervisor /\ BootsFromSpec

-----------------------------------------------------------------------------
(* What the helpers of the process actions store.                          *)

\* A verb starts with a well-typed job, and the VM it remembers is a number.
LEMMA JobType ==
    ASSUME StateOK
    PROVE  NoJob \in Job /\ LiveVm \in Nat
<1>1. NoJob \in Job
  BY DEF NoJob, Job, Verbs
<1>2. LiveVm \in Nat
  <2>1. CASE vms = {} BY <2>1 DEF LiveVm
  <2>2. CASE vms # {}
    <3>1. (CHOOSE v \in vms : TRUE) \in vms BY <2>2
    <3>2. QED BY <2>2, <3>1 DEF LiveVm, StateOK, VM
  <2>3. QED BY <2>1, <2>2
<1>3. QED BY <1>1, <1>2

\* A job keeps its type when one of its fields is replaced.
LEMMA JobExcept ==
    ASSUME NEW j \in Job
    PROVE  /\ \A b \in Builds \cup {NoBuild} : [j EXCEPT !.build = b] \in Job
           /\ \A x \in BOOLEAN : [j EXCEPT !.running = x] \in Job
           /\ \A s \in SUBSET Builds : [j EXCEPT !.rows = s] \in Job
           /\ \A n \in Nat : [j EXCEPT !.vm = n] \in Job
           /\ \A n \in Nat, x, y \in BOOLEAN :
                 [j EXCEPT !.vm = n, !.running = x, !.patient = y] \in Job
           /\ \A v \in Verbs : [j EXCEPT !.verb = v] \in Job
BY DEF Job

\* The continuations of a stop and the first labels of the verbs are labels.
LEMMA LabelType ==
    /\ \A p \in Procs : AfterStop(p) \in Labels
    /\ \A verb \in Verbs : FirstLabel(verb) \in Labels
<1>1. \A p \in Procs : AfterStop(p) \in Labels BY DEF AfterStop, Labels
<1>2. \A verb \in Verbs : FirstLabel(verb) \in Labels BY DEF FirstLabel, Labels
<1>3. QED BY <1>1, <1>2

\* Return keeps the variables it assigns in their types.
LEMMA ReturnType ==
    ASSUME StateOK, NEW p \in Procs, NEW r \in Results, Return(p, r)
    PROVE  /\ lock' \in Procs \cup {NoProc}
           /\ pc' \in [Procs -> Labels]
           /\ job' \in [Procs -> Job]
           /\ result' \in [Procs -> Results]
           /\ conn' \in Procs \cup {NoProc}
           /\ report' \in {"none", "ready", "failed", "eof"}
           /\ UNCHANGED <<verbs, unit, sup, spec, mail, vms, boots>>
BY JobType DEF StateOK, Return, Labels

\* Local keeps the variables it assigns in their types.
LEMMA LocalType ==
    ASSUME StateOK, NEW p \in Procs, NEW l \in Labels, NEW j \in Job, Local(p, l, j)
    PROVE  /\ pc' \in [Procs -> Labels]
           /\ job' \in [Procs -> Job]
           /\ UNCHANGED <<lock, result, verbs, unit, sup, spec, conn, mail, report, vms,
                         boots>>
BY DEF StateOK, Local, Goto, supVars

\* A step that returns and leaves the files in their types is well typed.
LEMMA ReturnStep ==
    ASSUME StateOK, NEW p \in Procs, NEW r \in Results, Return(p, r),
           launchJson' \in Builds \cup {NoBuild}, readySock' \in Procs \cup {NoProc},
           vmPid' \in Nat, bootJson' \in Nat, ctlSock' \in Nat,
           runningBuild' \in Builds \cup {NoBuild}, pinned' \in SUBSET Builds,
           current' \in Builds \cup {NoBuild}
    PROVE  StateOK'
BY ReturnType DEF StateOK

\* A local step that leaves the files in their types is well typed.
LEMMA LocalStep ==
    ASSUME StateOK, NEW p \in Procs, NEW l \in Labels, NEW j \in Job, Local(p, l, j),
           launchJson' \in Builds \cup {NoBuild}, readySock' \in Procs \cup {NoProc},
           vmPid' \in Nat, bootJson' \in Nat, ctlSock' \in Nat,
           runningBuild' \in Builds \cup {NoBuild}, pinned' \in SUBSET Builds,
           current' \in Builds \cup {NoBuild}
    PROVE  StateOK'
BY LocalType DEF StateOK

-----------------------------------------------------------------------------
(* Type correctness.                                                       *)

\* Every step of a process keeps the types.
LEMMA ProcType ==
    ASSUME StateOK, NEW p \in Procs, ProcStep(p)
    PROVE  StateOK'
<1> USE DEF dirVars, rootVars
<1>a. job[p] \in Job BY DEF StateOK
<1>1. CASE StartDecide(p)
  <2>1. PICK u \in UnitReadings :
           Local(p, "build", [job[p] EXCEPT !.running = Discriminate(u) = "running"])
    BY <1>1 DEF StartDecide
  <2>2. (Discriminate(u) = "running") \in BOOLEAN OBVIOUS
  <2>3. [job[p] EXCEPT !.running = Discriminate(u) = "running"] \in Job
    BY <1>a, <2>2, JobExcept
  <2>4. "build" \in Labels BY DEF Labels
  <2>5. QED BY <1>1, <2>1, <2>3, <2>4, LocalStep DEF StartDecide, StateOK
<1>2. CASE StartBuild(p)
  <2>1. ASSUME NEW b \in Builds, Append(b) PROVE pinned' \in SUBSET Builds /\ current' \in Builds
    BY <2>1 DEF Append, StateOK
  <2>2. {"failed", "already"} \subseteq Results BY DEF Results
  <2>3. {"record", "stop"} \subseteq Labels BY DEF Labels
  <2>4. \A b \in Builds \cup {NoBuild} : [job[p] EXCEPT !.build = b] \in Job
    BY <1>a, JobExcept
  <2>5. QED BY <1>2, <2>1, <2>2, <2>3, <2>4, ReturnStep, LocalStep DEF StartBuild, StateOK
<1>3. CASE LaunchRecord(p)
  BY <1>3, <1>a, ReturnStep, LocalStep DEF LaunchRecord, StateOK, Labels, Results, Job
<1>4. CASE HandoffPrepare(p)
  BY <1>4, <1>a, LocalStep DEF HandoffPrepare, StateOK, Labels, Job
<1>5. CASE HandoffSubmit(p)
  <2>1. CASE Return(p, "failed")
    BY <1>5, <2>1, ReturnStep DEF HandoffSubmit, StateOK, Results
  <2>2. CASE ~Return(p, "failed")
    BY <1>5, <2>2 DEF HandoffSubmit, StateOK, Goto, Labels
  <2>3. QED BY <2>1, <2>2
<1>6. CASE AwaitAccept(p)
  BY <1>6, <1>a, ReturnStep, LocalStep DEF AwaitAccept, StateOK, Labels, Results
<1>7. CASE ReadReport(p)
  BY <1>7, <1>a, ReturnStep, LocalStep DEF ReadReport, StateOK, Labels, Results
<1>8. CASE Reuse(p)
  BY <1>8, <1>a, ReturnStep, LocalStep DEF Reuse, StateOK, Labels, Results
<1>9. CASE ReuseWait(p)
  BY <1>9, ReturnStep DEF ReuseWait, StateOK, Results
<1>10. CASE ShedStale(p)
  BY <1>10, <1>a, LocalStep DEF ShedStale, StateOK, Labels
<1>11. CASE ReadBootRecord(p)
  BY <1>11, ReturnStep DEF ReadBootRecord, StateOK, Results
<1>12. CASE StopTriage(p)
  <2>1. \A b \in BOOLEAN : [job[p] EXCEPT !.vm = LiveVm, !.running = unit # "absent",
                                           !.patient = b] \in Job
    BY <1>a, JobExcept, JobType
  <2>2. QED
    BY <1>12, <2>1, ReturnStep, LocalStep, TargetAssumption
       DEF StopTriage, StateOK, Labels, Results
<1>13. CASE LadderAsk(p)
  BY <1>13, <1>a, LocalStep DEF LadderAsk, StateOK, Labels
<1>14. CASE LadderAcked(p)
  BY <1>14, <1>a, LabelType, LocalStep DEF LadderAcked, StateOK, Labels
<1>15. CASE StopUnit(p)
  <2>1. CASE Local(p, AfterStop(p), job[p])
    BY <1>15, <2>1, <1>a, LabelType, LocalStep DEF StopUnit, StateOK
  <2>2. CASE Return(p, "failed")
    BY <1>15, <2>2, ReturnStep DEF StopUnit, StateOK, Results
  <2>3. CASE ~Local(p, AfterStop(p), job[p]) /\ ~Return(p, "failed")
    BY <1>15, <2>3 DEF StopUnit, StateOK, Goto, Labels, HangUp, SupStates
  <2>4. QED BY <2>1, <2>2, <2>3
<1>16. CASE StopPoll(p)
  BY <1>16, <1>a, LabelType, LocalStep DEF StopPoll, StateOK, Labels
<1>17. CASE StopKill(p)
  <2>1. CASE Return(p, "failed")
    BY <1>17, <2>1, ReturnStep DEF StopKill, StateOK, Results
  <2>2. CASE ~Return(p, "failed")
    BY <1>17, <2>2 DEF StopKill, StateOK, Goto, Labels, HangUp, SupStates
  <2>3. QED BY <2>1, <2>2
<1>18. CASE StopReap(p)
  BY <1>18, <1>a, LabelType, ReturnStep, LocalStep DEF StopReap, StateOK, Results
<1>19. CASE ConfirmTeardown(p)
  BY <1>19, ReturnStep DEF ConfirmTeardown, StateOK, Results
<1>20. CASE PruneDecide(p)
  <2>1. \A rows \in SUBSET (pinned \ {current}) : [job[p] EXCEPT !.rows = rows] \in Job
    BY <1>a, JobExcept DEF StateOK
  <2>2. QED BY <1>20, <2>1, ReturnStep, LocalStep DEF PruneDecide, StateOK, Labels, Results
<1>21. CASE PruneUnlink(p)
  BY <1>21, ReturnStep DEF PruneUnlink, StateOK, Results
<1>22. CASE DestroyDecide(p)
  <2>1. [job[p] EXCEPT !.vm = LiveVm] \in Job
    BY <1>a, JobExcept, JobType
  <2>2. QED BY <1>22, <2>1, LocalStep DEF DestroyDecide, StateOK, Labels
<1>23. CASE DestroyRecheck(p)
  BY <1>23, <1>a, ReturnStep, LocalStep DEF DestroyRecheck, StateOK, Labels, Results
<1>24. CASE DestroyRemove(p)
  BY <1>24, <1>a, LocalStep DEF DestroyRemove, StateOK, Labels
<1>25. CASE DestroyClear(p)
  BY <1>25, ReturnStep DEF DestroyClear, EmptyDirectory, StateOK, Results
<1>26. QED
  BY <1>1, <1>2, <1>3, <1>4, <1>5, <1>6, <1>7, <1>8, <1>9, <1>10, <1>11, <1>12,
     <1>13, <1>14, <1>15, <1>16, <1>17, <1>18, <1>19, <1>20, <1>21, <1>22, <1>23,
     <1>24, <1>25 DEF ProcStep

\* Every step of the unit and its supervisor keeps the types.
LEMMA SupType ==
    ASSUME StateOK, BootsFromSpec, SupStep \/ SupMonitor \/ VmExit \/ SupKilled
    PROVE  StateOK'
<1> USE DEF procVars, dirVars, rootVars, StateOK, SupStates
<1>1. CASE UnitExec BY <1>1 DEF UnitExec
<1>2. CASE SupConnect BY <1>2 DEF SupConnect, SupExit, HangUp
<1>3. CASE SupSpawnVmm BY <1>3 DEF SupSpawnVmm, BootsFromSpec, VM
<1>4. CASE SupWritePid BY <1>4 DEF SupWritePid
<1>5. CASE SupWriteBoot BY <1>5 DEF SupWriteBoot
<1>6. CASE SupAnswered \/ SupReady \/ SupInstall BY <1>6 DEF SupAnswered, SupReady, SupInstall
<1>a. CASE SupReport BY <1>a DEF SupReport, SupExit, HangUp
<1>b. CASE SupEnd BY <1>b DEF SupEnd, SupExit, HangUp
<1>7. CASE SupFail BY <1>7 DEF SupFail
<1>8. CASE SupPrepareFail BY <1>8 DEF SupPrepareFail
<1>9. CASE SupMonitor BY <1>9 DEF SupMonitor
<1>10. CASE SupShutdown BY <1>10 DEF SupShutdown
<1>11. CASE SupSweep BY <1>11 DEF SupSweep, EmptyDirectory
<1>12. CASE UnitReap BY <1>12 DEF UnitReap
<1>13. CASE VmExit BY <1>13 DEF VmExit
<1>14. CASE SupKilled BY <1>14 DEF SupKilled, SupExit, HangUp
<1>15. QED
  BY <1>1, <1>2, <1>3, <1>4, <1>5, <1>6, <1>7, <1>8, <1>9, <1>10, <1>11, <1>12,
     <1>13, <1>14, <1>a, <1>b DEF SupStep

\* Every step keeps the types.
LEMMA TypeStep == StateOK /\ BootsFromSpec /\ [Next]_vars => StateOK'
<1> SUFFICES ASSUME StateOK, BootsFromSpec, [Next]_vars PROVE StateOK'
  OBVIOUS
<1>1. ASSUME NEW p \in Procs, ProcStep(p) PROVE StateOK'
  BY <1>1, ProcType
<1>2. ASSUME NEW p \in Procs, Interrupt(p) PROVE StateOK'
  BY <1>2, ReturnStep DEF Interrupt, StateOK, Results, dirVars, rootVars
<1>3. ASSUME NEW p \in Procs, NEW verb \in Verbs, Begin(p, verb) PROVE StateOK'
  <2>1. [NoJob EXCEPT !.verb = verb] \in Job BY JobType, JobExcept
  <2>2. job' \in [Procs -> Job] BY <1>3, <2>1 DEF Begin, StateOK
  <2>3. pc' \in [Procs -> Labels] BY <1>3, LabelType DEF Begin, StateOK, Goto
  <2>4. result' \in [Procs -> Results] BY <1>3 DEF Begin, StateOK, Results
  <2>5. lock' \in Procs \cup {NoProc} BY <1>3 DEF Begin, StateOK
  <2>6. verbs' \in Nat BY <1>3 DEF Begin, StateOK
  <2>7. UNCHANGED <<supVars, dirVars, rootVars>> BY <1>3 DEF Begin
  <2>8. QED
    BY <2>2, <2>3, <2>4, <2>5, <2>6, <2>7 DEF StateOK, supVars, dirVars, rootVars
<1>4. ASSUME NEW p \in Procs, NEW b \in Builds, Activate(p, b) PROVE StateOK'
  BY <1>4 DEF Activate, StateOK, supVars, dirVars
<1>5. CASE SupStep \/ SupMonitor \/ VmExit \/ SupKilled
  BY <1>5, SupType
<1>6. CASE UNCHANGED vars
  BY <1>6 DEF vars, procVars, supVars, dirVars, rootVars, StateOK
<1>7. QED BY <1>1, <1>2, <1>3, <1>4, <1>5, <1>6 DEF Next, Step

-----------------------------------------------------------------------------
(* One VM.                                                                 *)

\* A step that leaves the unit, its supervisor and the VMMs alone keeps the
\* invariant.
LEMMA QuietStep ==
    ASSUME IInv, StateOK', UNCHANGED <<unit, sup, spec, vms, boots>>
    PROVE  IInv'
BY DEF IInv, OneVm, UnitOwnsGroup, FreshSupervisor, BootsFromSpec

\* Of the process steps only the submission, the stop request and the kill
\* touch the unit; none of them lets a VMM outlive it.
LEMMA ProcGroup ==
    ASSUME IInv, StateOK', NEW p \in Procs, ProcStep(p)
    PROVE  IInv'
<1>1. CASE HandoffSubmit(p)
  BY <1>1, QuietStep
     DEF HandoffSubmit, Return, IInv, OneVm, UnitOwnsGroup, FreshSupervisor, BootsFromSpec
<1>2. CASE StopUnit(p)
  BY <1>2, QuietStep
     DEF StopUnit, Return, Local, supVars, IInv, OneVm, UnitOwnsGroup, FreshSupervisor,
         BootsFromSpec
<1>3. CASE StopKill(p)
  BY <1>3, QuietStep
     DEF StopKill, Return, IInv, OneVm, UnitOwnsGroup, FreshSupervisor, BootsFromSpec
<1>4. CASE ~HandoffSubmit(p) /\ ~StopUnit(p) /\ ~StopKill(p)
  <2>1. UNCHANGED <<unit, sup, spec, vms, boots>>
    BY <1>4 DEF ProcStep, StartDecide, StartBuild, LaunchRecord, HandoffPrepare,
         AwaitAccept, ReadReport, Reuse, ReuseWait, ShedStale, ReadBootRecord, StopTriage,
         LadderAsk, LadderAcked, StopPoll, StopReap, ConfirmTeardown, PruneDecide,
         PruneUnlink, DestroyDecide, DestroyRecheck, DestroyRemove, DestroyClear,
         Return, Local, supVars
  <2>2. QED BY <2>1, QuietStep
<1>5. QED BY <1>1, <1>2, <1>3, <1>4

\* A VMM is spawned where none is alive, and a supervisor that ends leaves a
\* unit that is deactivating.
LEMMA SupGroup ==
    ASSUME IInv, StateOK', SupStep \/ SupMonitor \/ VmExit \/ SupKilled
    PROVE  IInv'
<1> USE DEF IInv, OneVm, UnitOwnsGroup, FreshSupervisor, BootsFromSpec
<1>1. CASE UnitExec BY <1>1 DEF UnitExec
<1>2. CASE SupConnect BY <1>2 DEF SupConnect, SupExit, StateOK
<1>3. CASE SupSpawnVmm BY <1>3 DEF SupSpawnVmm
<1>4. CASE SupWritePid BY <1>4 DEF SupWritePid
<1>5. CASE SupWriteBoot BY <1>5 DEF SupWriteBoot
<1>6. CASE SupAnswered \/ SupReady \/ SupInstall BY <1>6 DEF SupAnswered, SupReady, SupInstall
<1>a. CASE SupReport BY <1>a DEF SupReport, SupExit
<1>b. CASE SupEnd BY <1>b DEF SupEnd, SupExit
<1>7. CASE SupFail BY <1>7 DEF SupFail
<1>8. CASE SupPrepareFail BY <1>8 DEF SupPrepareFail
<1>9. CASE SupMonitor BY <1>9 DEF SupMonitor
<1>10. CASE SupShutdown BY <1>10 DEF SupShutdown
<1>11. CASE SupSweep BY <1>11 DEF SupSweep
<1>12. CASE UnitReap BY <1>12 DEF UnitReap
<1>13. CASE VmExit BY <1>13 DEF VmExit
<1>14. CASE SupKilled BY <1>14 DEF SupKilled, SupExit
<1>15. QED
  BY <1>1, <1>2, <1>3, <1>4, <1>5, <1>6, <1>7, <1>8, <1>9, <1>10, <1>11, <1>12,
     <1>13, <1>14, <1>a, <1>b DEF SupStep

\* The initial state satisfies the inductive invariant.
LEMMA InitIInv == Init => IInv
<1> SUFFICES ASSUME Init PROVE IInv
  OBVIOUS
<1>1. NoJob \in Job BY DEF NoJob, Job, Verbs
<1>2. StateOK BY <1>1 DEF Init, StateOK, Labels, Results, SupStates
<1>3. QED
  BY <1>2 DEF Init, IInv, OneVm, UnitOwnsGroup, FreshSupervisor, BootsFromSpec

\* Every step preserves the inductive invariant.
LEMMA NextIInv == IInv /\ [Next]_vars => IInv'
<1> SUFFICES ASSUME IInv, [Next]_vars PROVE IInv'
  OBVIOUS
<1>1. StateOK' BY TypeStep DEF IInv
<1>2. ASSUME NEW p \in Procs, ProcStep(p) PROVE IInv'
  BY <1>1, <1>2, ProcGroup
<1>3. ASSUME NEW p \in Procs, Interrupt(p) PROVE IInv'
  BY <1>1, <1>3, QuietStep DEF Interrupt, Return
<1>4. ASSUME NEW p \in Procs, NEW verb \in Verbs, Begin(p, verb) PROVE IInv'
  BY <1>1, <1>4, QuietStep DEF Begin, supVars
<1>5. ASSUME NEW p \in Procs, NEW b \in Builds, Activate(p, b) PROVE IInv'
  BY <1>1, <1>5, QuietStep DEF Activate, supVars
<1>6. CASE SupStep \/ SupMonitor \/ VmExit \/ SupKilled
  BY <1>1, <1>6, SupGroup
<1>7. CASE UNCHANGED vars
  BY <1>1, <1>7, QuietStep DEF vars, supVars
<1>8. QED BY <1>2, <1>3, <1>4, <1>5, <1>6, <1>7 DEF Next, Step

\* Type correctness of the lifecycle of one target.
THEOREM TypeCorrect == Spec => []TypeOK
<1>1. Init => manager \in Managers BY DEF Init
<1>2. manager \in Managers /\ [Next]_vars => (manager \in Managers)' BY DEF Next, vars
<1>3. IInv /\ manager \in Managers => TypeOK BY DEF IInv, TypeOK
<1>4. QED BY <1>1, <1>2, <1>3, InitIInv, NextIInv, PTL DEF Spec

\* One target never has two live VMs: whatever start, exec, stop, prune and
\* destroy do concurrently, whichever of them are interrupted, and whatever
\* the manager fails to answer, a VMM is spawned only where none is alive.
THEOREM AtMostOneVm == Spec => []OneVm
<1>1. IInv => OneVm BY DEF IInv
<1>2. QED BY <1>1, InitIInv, NextIInv, PTL DEF Spec
-----------------------------------------------------------------------------
(* What one process may rely on while it holds the lock.  From here on no  *)
(* viv process is killed midway and no queued unit outlasts the accept:    *)
(* either leaves a boot that no lock holder waits for.                     *)

Undisturbed == ~Interruptible /\ ~ManagerSlow

\* The labels of a stop ladder, of viv stop alone, and of a launcher that has
\* submitted its unit.
StopPath == {"ask", "acked", "stop", "poll", "kill", "reap"}
Waiting == {"await", "read", "bootrecord"}

\* The labels a verb can be at.
Fits(l, verb) ==
    /\ l \in {"triage", "confirm"} => verb = "stop"
    /\ l \in StopPath => verb \in {"stop", "rebuild", "exec", "destroy"}
    /\ l \in {"destroy", "recheck", "remove", "clear"} => verb = "destroy"
    /\ l \in {"reuse", "shed"} => verb = "exec"
    /\ l = "decide" => verb # "exec"
    /\ verb = "stop" => l \in {"idle", "triage", "confirm"} \cup StopPath

Labelled == \A p \in Procs : Fits(pc[p], job[p].verb)

\* Every verb but stop holds the lock from its first label to its last.
Held == \A p \in Procs : pc[p] # "idle" /\ job[p].verb # "stop" => lock = p

\* SIGTERM ends a supervisor before its unit is seen deactivating; the ids of
\* the VMMs were handed out, and a supervisor's VMM is the latest.
Group ==
    /\ SigtermFatal => unit = "active"
    /\ unit = "active" => sup # "none"
    /\ \A v \in vms : 1 <= v.id /\ v.id <= boots
    /\ sup # "none" => \A v \in vms : v.id = boots

\* A boot has a launcher that waits for it with the lock held.
Launcher ==
    /\ unit = "activating" \/ sup = "connect" =>
          lock # NoProc /\ pc[lock] = "await" /\ conn = NoProc
    /\ sup \in {"boot", "vmm", "pid", "guest", "answered"} =>
          conn # NoProc /\ mail = "empty" /\ report = "none" /\ pc[conn] # "bootrecord"
    /\ mail # "empty" => conn # NoProc /\ report = "none" /\ pc[conn] # "bootrecord"
    /\ conn # NoProc => lock = conn /\ pc[conn] \in Waiting
    /\ \A p \in Procs : pc[p] \in {"read", "bootrecord"} => conn = p

\* From the write of vm.pid to the end of the shutdown the file names the VMM,
\* and boot.json never names a live VMM that vm.pid does not.
Records ==
    /\ sup \in {"pid", "guest", "answered", "ready", "monitor", "shutdown"} /\ vms # {} => vmPid = boots
    /\ bootJson <= boots
    /\ Alive(bootJson) => vmPid = bootJson

\* A session about to shed a dead VM's records, and a destroy about to remove:
\* no live VMM is on record.
Shedding(l, verb) == l \in {"shed", "remove", "clear"} \/ (verb = "exec" /\ l \in StopPath)
NothingRecorded == \A p \in Procs : Shedding(pc[p], job[p].verb) => ~Alive(vmPid)

\* A stop past its request: a VM that outlived it is on record.
Stops(l, j) == l \in {"acked", "poll", "kill", "reap", "confirm"} /\ j.verb = "stop"
Outlived(j) == Alive(j.vm) => PastLadder \/ vmPid = j.vm
Stopping == \A p \in Procs : job[p].vm <= boots /\ (Stops(pc[p], job[p]) => Outlived(job[p]))

\* The inductive invariant of an undisturbed target.
Kept ==
    Labelled /\ Held /\ Group /\ Launcher /\ Records /\ NothingRecorded /\ Stopping

LockInv == IInv /\ Kept

\* Zero names no VMM.
LEMMA ZeroIsDead == ASSUME StateOK, Group PROVE ~Alive(0)
BY DEF Alive, Group, StateOK, VM

\* A verb that holds the lock and does not wait for a boot sees none under way.
LEMMA NoBootUnderLock ==
    ASSUME LockInv, NEW p \in Procs, lock = p, pc[p] \notin Waiting
    PROVE  /\ unit # "activating" /\ sup \notin {"connect", "boot", "vmm", "pid", "guest", "answered"}
           /\ conn = NoProc /\ mail = "empty"
BY TargetAssumption DEF LockInv, Kept, Launcher, Waiting

\* A process leaves its verb: what the others rely on stays.
LEMMA LeaveKeeps ==
    ASSUME LockInv, StateOK', NEW p \in Procs, NEW r, Return(p, r),
           UNCHANGED <<vmPid, bootJson>>,
           lock = p => /\ unit # "activating" /\ mail = "empty"
                       /\ sup \notin {"connect", "boot", "vmm", "pid", "guest", "answered"}
    PROVE  Kept'
<1>t. StateOK /\ IInv BY DEF LockInv, Kept, IInv
<1>0. UNCHANGED <<verbs, unit, sup, spec, mail, vms, boots>> BY DEF Return
<1>1. \A n : Alive(n)' <=> Alive(n) BY <1>0 DEF Alive
<1>2. \A q \in Procs : q # p => pc'[q] = pc[q] /\ job'[q] = job[q]
  BY <1>t DEF Return, StateOK
<1>3. pc'[p] = "idle" /\ job'[p] = NoJob BY <1>t DEF Return, StateOK
<1>4. Labelled'
  BY <1>2, <1>3 DEF LockInv, Kept, Labelled, Fits, StopPath, NoJob
<1>5. Held' BY <1>2, <1>3 DEF LockInv, Kept, Held, Return
<1>6. Group' BY <1>0 DEF LockInv, Kept, Group, SigtermFatal
<1>7. Launcher'
  <2>1. CASE lock = p
    <3>1. conn' = NoProc BY <2>1, TargetAssumption DEF LockInv, Kept, Launcher, Return
    <3>2. \A q \in Procs : pc'[q] \notin {"read", "bootrecord"}
      BY <2>1, <1>2, <1>3, TargetAssumption DEF LockInv, Kept, Launcher
    <3>3. QED BY <2>1, <3>1, <3>2, <1>0 DEF Launcher
  <2>2. CASE lock # p
    <3>1. conn # p BY <2>2, <1>t, TargetAssumption DEF LockInv, Kept, Launcher, StateOK
    <3>2. lock' = lock /\ conn' = conn /\ report' = report
      BY <2>2, <3>1 DEF Return
    <3>3. \A q \in Procs : pc'[q] \in {"read", "bootrecord"} => conn' = q
      BY <3>2, <1>2, <1>3 DEF LockInv, Kept, Launcher
    <3>4. QED
      BY <2>2, <3>1, <3>2, <3>3, <1>0, <1>2, <1>t DEF LockInv, Kept, Launcher, StateOK
  <2>3. QED BY <2>1, <2>2
<1>8. Records' BY <1>0, <1>1 DEF LockInv, Kept, Records
<1>9. NothingRecorded'
  BY <1>1, <1>2, <1>3 DEF LockInv, Kept, NothingRecorded, Shedding, StopPath
<1>10. Stopping'
  BY <1>t, <1>0, <1>1, <1>2, <1>3 DEF LockInv, Kept, Stopping, Stops, Outlived, PastLadder, NoJob, StateOK
<1>11. QED BY <1>4, <1>5, <1>6, <1>7, <1>8, <1>9, <1>10 DEF Kept
\* A process goes on to another label of its verb.
LEMMA LocalKeeps ==
    ASSUME LockInv, StateOK', NEW p \in Procs, NEW l, NEW j, Local(p, l, j),
           UNCHANGED <<vmPid, bootJson>>,
           pc[p] # "idle", Fits(l, j.verb), j.verb = job[p].verb, j.vm <= boots,
           \/ pc[p] \notin Waiting /\ l \notin {"read", "bootrecord"}
           \/ pc[p] # "bootrecord" /\ conn = p /\ l = "read"
           \/ pc[p] # "bootrecord" /\ conn = p /\ l = "bootrecord" /\ report # "none",
           Shedding(l, j.verb) => ~Alive(vmPid),
           Stops(l, j) => Outlived(j)
    PROVE  Kept'
<1>t. StateOK /\ IInv BY DEF LockInv, Kept, IInv
<1>0. UNCHANGED <<lock, result, verbs, unit, sup, spec, conn, mail, report, vms, boots>>
  BY DEF Local, supVars
<1>1. \A n : Alive(n)' <=> Alive(n) BY <1>0 DEF Alive
<1>2. \A q \in Procs : q # p => pc'[q] = pc[q] /\ job'[q] = job[q]
  BY <1>t DEF Local, Goto, StateOK
<1>3. pc'[p] = l /\ job'[p] = j BY <1>t DEF Local, Goto, StateOK
<1>4. Labelled' BY <1>2, <1>3 DEF LockInv, Kept, Labelled
<1>5. Held' BY <1>0, <1>2, <1>3 DEF LockInv, Kept, Held
<1>6. Group' BY <1>0 DEF LockInv, Kept, Group, SigtermFatal
<1>7. Launcher'
  <2>1. CASE pc[p] \in Waiting
    BY <2>1, <1>0, <1>2, <1>3, <1>t, TargetAssumption DEF LockInv, Kept, Launcher, StateOK, Waiting
  <2>2. CASE pc[p] \notin Waiting
    BY <2>2, <1>0, <1>2, <1>3, <1>t, TargetAssumption DEF LockInv, Kept, Launcher, StateOK, Waiting
  <2>3. QED BY <2>1, <2>2
<1>8. Records' BY <1>0, <1>1 DEF LockInv, Kept, Records
<1>9. NothingRecorded'
  BY <1>0, <1>1, <1>2, <1>3 DEF LockInv, Kept, NothingRecorded
<1>10. Stopping'
  BY <1>t, <1>0, <1>1, <1>2, <1>3 DEF LockInv, Kept, Stopping, Stops, Outlived, PastLadder
<1>11. QED BY <1>4, <1>5, <1>6, <1>7, <1>8, <1>9, <1>10 DEF Kept

\* What a live VM's readings say to the one who holds the lock: a VM whose
\* presence is dead, or whose records are missing, is on no record.
LEMMA DeadIsUnrecorded ==
    ASSUME LockInv, NEW u \in UnitReadings, Presence(u) = "dead" \/ Resting(u)
    PROVE  ~Alive(vmPid)
<1>t. StateOK BY DEF LockInv, Kept, IInv
<1>1. CASE Presence(u) = "dead"
  <2>1. CASE vmPid # 0 /\ ~Alive(vmPid) BY <2>1
  <2>2. CASE ~(vmPid # 0 /\ ~Alive(vmPid))
    <3>1. u = "inactive" BY <1>1, <2>2 DEF Presence
    <3>2. unit = "absent" BY <3>1, <1>t DEF UnitReadings, StateOK
    <3>3. QED BY <3>2 DEF LockInv, Kept, IInv, UnitOwnsGroup, Alive
  <2>3. QED BY <2>1, <2>2
<1>2. CASE Resting(u)
  <2>1. ~HasRecords
    BY <1>2 DEF Resting, Discriminate, Classify
  <2>2. QED BY <2>1, <1>t, ZeroIsDead DEF HasRecords, LockInv, Kept
<1>3. QED BY <1>1, <1>2
\* The VM a stop or a destroy remembers was handed out.
LEMMA LiveVmBound == ASSUME LockInv PROVE LiveVm \in Nat /\ LiveVm <= boots
<1>t. StateOK BY DEF LockInv, IInv
<1>1. CASE vms = {} BY <1>1, <1>t DEF LiveVm, StateOK
<1>2. CASE vms # {}
  <2>1. (CHOOSE v \in vms : TRUE) \in vms BY <1>2
  <2>2. QED BY <1>2, <2>1, <1>t DEF LiveVm, LockInv, Kept, Group, StateOK, VM
<1>3. QED BY <1>1, <1>2

\* A process at a label that holds the lock leaves its verb.
LEMMA HolderLeaves ==
    ASSUME LockInv, StateOK', NEW p \in Procs, NEW r, Return(p, r),
           UNCHANGED <<vmPid, bootJson>>,
           pc[p] \notin {"idle", "await", "read"}
    PROVE  Kept'
<1>1. lock = p => /\ unit # "activating" /\ mail = "empty"
                  /\ sup \notin {"connect", "boot", "vmm", "pid", "guest", "answered"}
  <2>1. CASE pc[p] \in Waiting
    BY <2>1, TargetAssumption DEF LockInv, Kept, Launcher, Waiting
  <2>2. CASE pc[p] \notin Waiting BY <2>2, NoBootUnderLock
  <2>3. QED BY <2>1, <2>2
<1>2. QED BY <1>1, LeaveKeeps

\* What every process step starts from.
LEMMA Reads ==
    ASSUME LockInv, NEW p \in Procs
    PROVE  /\ StateOK /\ job[p] \in Job /\ pc[p] \in Labels
           /\ job[p].vm \in Nat /\ job[p].vm <= boots /\ job[p].verb \in Verbs
           /\ Fits(pc[p], job[p].verb)
           /\ Shedding(pc[p], job[p].verb) => ~Alive(vmPid)
           /\ Stops(pc[p], job[p]) => Outlived(job[p])
BY DEF LockInv, Kept, IInv, StateOK, Job, Labelled, NothingRecorded, Stopping

\* The steps of start and of the prune leave the records alone.
LEMMA StartKeeps ==
    ASSUME LockInv, StateOK', NEW p \in Procs,
           \/ StartDecide(p) \/ StartBuild(p) \/ LaunchRecord(p) \/ HandoffPrepare(p)
           \/ PruneDecide(p) \/ PruneUnlink(p)
    PROVE  Kept'
<1> USE DEF dirVars, rootVars, Waiting, StopPath
<1>r. /\ StateOK /\ job[p] \in Job /\ job[p].vm <= boots /\ job[p].verb \in Verbs
      /\ Fits(pc[p], job[p].verb)
  BY Reads
<1>1. CASE StartDecide(p)
  <2>1. PICK u \in UnitReadings :
           Local(p, "build", [job[p] EXCEPT !.running = Discriminate(u) = "running"])
    BY <1>1 DEF StartDecide
  <2>2. PICK j : j = [job[p] EXCEPT !.running = Discriminate(u) = "running"] OBVIOUS
  <2>3. j.verb = job[p].verb /\ j.vm = job[p].vm BY <2>2, <1>r DEF Job
  <2>4. Fits("build", j.verb) /\ ~Shedding("build", j.verb) /\ ~Stops("build", j)
    BY <1>1, <1>r, <2>3 DEF StartDecide, Fits, Shedding, Stops
  <2>5. QED BY <1>1, <1>r, <2>1, <2>2, <2>3, <2>4, LocalKeeps DEF StartDecide
<1>2. CASE StartBuild(p)
  <2>1. pc[p] = "build" /\ UNCHANGED <<vmPid, bootJson>> BY <1>2 DEF StartBuild
  <2>2. ASSUME NEW r, Return(p, r) PROVE Kept' BY <2>1, <2>2, HolderLeaves
  <2>3. ASSUME NEW b, Local(p, "record", [job[p] EXCEPT !.build = b]) PROVE Kept'
    <3>1. PICK j : j = [job[p] EXCEPT !.build = b] OBVIOUS
    <3>2. j.verb = job[p].verb /\ j.vm = job[p].vm BY <3>1, <1>r DEF Job
    <3>3. Fits("record", j.verb) /\ ~Shedding("record", j.verb) /\ ~Stops("record", j)
      BY <2>1, <1>r, <3>2 DEF Fits, Shedding, Stops
    <3>4. QED BY <2>1, <1>r, <2>3, <3>1, <3>2, <3>3, LocalKeeps
  <2>4. ASSUME NEW b, job[p].verb = "rebuild",
               Local(p, "stop", [job[p] EXCEPT !.build = b]) PROVE Kept'
    <3>1. PICK j : j = [job[p] EXCEPT !.build = b] OBVIOUS
    <3>2. j.verb = job[p].verb /\ j.vm = job[p].vm BY <3>1, <1>r DEF Job
    <3>3. Fits("stop", j.verb) /\ ~Shedding("stop", j.verb) /\ ~Stops("stop", j)
      BY <2>1, <1>r, <2>4, <3>2 DEF Fits, Shedding, Stops
    <3>4. QED BY <2>1, <1>r, <2>4, <3>1, <3>2, <3>3, LocalKeeps
  <2>5. QED BY <1>2, <2>2, <2>3, <2>4 DEF StartBuild
<1>3. CASE LaunchRecord(p)
  <2>1. pc[p] = "record" /\ UNCHANGED <<vmPid, bootJson>> BY <1>3 DEF LaunchRecord
  <2>2. Fits("handoff", job[p].verb) /\ ~Shedding("handoff", job[p].verb)
        /\ ~Stops("handoff", job[p])
    BY <2>1, <1>r DEF Fits, Shedding, Stops
  <2>3. CASE Return(p, "failed") BY <2>1, <2>3, HolderLeaves
  <2>4. CASE Local(p, "handoff", job[p]) BY <2>1, <2>2, <2>4, <1>r, LocalKeeps
  <2>5. QED BY <1>3, <2>3, <2>4 DEF LaunchRecord
<1>4. CASE HandoffPrepare(p)
  <2>1. pc[p] = "handoff" /\ Local(p, "submit", job[p]) /\ UNCHANGED <<vmPid, bootJson>>
    BY <1>4 DEF HandoffPrepare
  <2>2. Fits("submit", job[p].verb) /\ ~Shedding("submit", job[p].verb)
        /\ ~Stops("submit", job[p])
    BY <2>1, <1>r DEF Fits, Shedding, Stops
  <2>3. QED BY <2>1, <2>2, <1>r, LocalKeeps
<1>5. CASE PruneDecide(p)
  <2>1. pc[p] = "prune" /\ UNCHANGED <<vmPid, bootJson>> BY <1>5 DEF PruneDecide
  <2>2. CASE Return(p, "failed") BY <2>1, <2>2, HolderLeaves
  <2>3. ASSUME NEW rows, Local(p, "unlink", [job[p] EXCEPT !.rows = rows]) PROVE Kept'
    <3>1. PICK j : j = [job[p] EXCEPT !.rows = rows] OBVIOUS
    <3>2. j.verb = job[p].verb /\ j.vm = job[p].vm BY <3>1, <1>r DEF Job
    <3>3. Fits("unlink", j.verb) /\ ~Shedding("unlink", j.verb) /\ ~Stops("unlink", j)
      BY <2>1, <1>r, <3>2 DEF Fits, Shedding, Stops
    <3>4. QED BY <2>1, <1>r, <2>3, <3>1, <3>2, <3>3, LocalKeeps
  <2>4. QED BY <1>5, <2>2, <2>3 DEF PruneDecide
<1>6. CASE PruneUnlink(p)
  BY <1>6, HolderLeaves DEF PruneUnlink
<1>7. QED BY <1>1, <1>2, <1>3, <1>4, <1>5, <1>6
\* The steps of exec's ensure-running and of destroy that leave the records
\* alone.
LEMMA TriageKeeps ==
    ASSUME LockInv, StateOK', NEW p \in Procs,
           \/ Reuse(p) \/ ReuseWait(p) \/ ReadBootRecord(p)
           \/ StopTriage(p) \/ LadderAsk(p) \/ ConfirmTeardown(p)
           \/ DestroyDecide(p) \/ DestroyRecheck(p) \/ DestroyRemove(p)
    PROVE  Kept'
<1> USE DEF dirVars, rootVars, Waiting, StopPath
<1>r. /\ StateOK /\ job[p] \in Job /\ job[p].vm <= boots /\ job[p].verb \in Verbs
      /\ Fits(pc[p], job[p].verb)
      /\ Shedding(pc[p], job[p].verb) => ~Alive(vmPid)
      /\ Stops(pc[p], job[p]) => Outlived(job[p])
  BY Reads
<1>1. CASE Reuse(p)
  <2>1. pc[p] = "reuse" /\ UNCHANGED <<vmPid, bootJson>> /\ job[p].verb = "exec"
    BY <1>1, <1>r DEF Reuse, Fits
  <2>2. ASSUME NEW r, Return(p, r) PROVE Kept' BY <2>1, <2>2, HolderLeaves
  <2>3. ASSUME NEW l \in {"build", "wait"}, Local(p, l, job[p]) PROVE Kept'
    <3>1. Fits(l, job[p].verb) /\ ~Shedding(l, job[p].verb) /\ ~Stops(l, job[p])
      BY <2>1 DEF Fits, Shedding, Stops
    <3>2. QED BY <2>1, <2>3, <3>1, <1>r, LocalKeeps
  <2>4. ASSUME NEW u \in UnitReadings, Presence(u) = "dead", Local(p, "stop", job[p])
        PROVE Kept'
    <3>1. Fits("stop", job[p].verb) /\ ~Stops("stop", job[p])
      BY <2>1 DEF Fits, Stops
    <3>2. ~Alive(vmPid) BY <2>4, DeadIsUnrecorded
    <3>3. QED BY <2>1, <2>4, <3>1, <3>2, <1>r, LocalKeeps
  <2>5. QED BY <1>1, <2>2, <2>3, <2>4 DEF Reuse
<1>2. CASE ReuseWait(p)
  <2>1. pc[p] = "wait" /\ UNCHANGED <<vmPid, bootJson>> BY <1>2 DEF ReuseWait
  <2>2. \E r : Return(p, r) BY <1>2 DEF ReuseWait
  <2>3. QED BY <2>1, <2>2, HolderLeaves
<1>3. CASE ReadBootRecord(p)
  <2>1. pc[p] = "bootrecord" /\ UNCHANGED <<vmPid, bootJson>> BY <1>3 DEF ReadBootRecord
  <2>2. \E r : Return(p, r) BY <1>3 DEF ReadBootRecord
  <2>3. QED BY <2>1, <2>2, HolderLeaves
<1>4. CASE StopTriage(p)
  <2>1. pc[p] = "triage" /\ UNCHANGED <<vmPid, bootJson>> /\ job[p].verb = "stop"
    BY <1>4, <1>r DEF StopTriage, Fits
  <2>2. CASE Return(p, "noop") BY <2>1, <2>2, HolderLeaves
  <2>3. ASSUME NEW b \in BOOLEAN,
               Local(p, "ask", [job[p] EXCEPT !.vm = LiveVm, !.running = unit # "absent",
                                              !.patient = b])
        PROVE  Kept'
    <3>1. PICK j : j = [job[p] EXCEPT !.vm = LiveVm, !.running = unit # "absent", !.patient = b]
      OBVIOUS
    <3>2. j.verb = job[p].verb /\ j.vm <= boots BY <3>1, <1>r, LiveVmBound DEF Job
    <3>3. Fits("ask", j.verb) /\ ~Shedding("ask", j.verb) /\ ~Stops("ask", j)
      BY <2>1, <3>2 DEF Fits, Shedding, Stops
    <3>4. QED BY <2>1, <2>3, <3>1, <3>2, <3>3, LocalKeeps
  <2>4. QED BY <1>4, <2>2, <2>3, TargetAssumption DEF StopTriage
<1>5. CASE LadderAsk(p)
  <2>1. pc[p] = "ask" /\ UNCHANGED <<vmPid, bootJson>> BY <1>5 DEF LadderAsk
  <2>2. \A l \in {"acked", "stop"} :
           Fits(l, job[p].verb) /\ (Shedding(l, job[p].verb) => ~Alive(vmPid))
    BY <2>1, <1>r DEF Fits, Shedding
  <2>3. CASE AgentAnswers /\ Local(p, "acked", job[p])
    <3>1. Alive(bootJson) /\ sup # "none" /\ vmPid = bootJson
      BY <2>3 DEF AgentAnswers, LockInv, Kept, Records
    <3>2. vms # {} /\ bootJson = boots
      BY <3>1 DEF Alive, LockInv, Kept, Group
    <3>3. Outlived(job[p]) BY <3>1, <3>2 DEF Outlived, Alive, LockInv, Kept, Group
    <3>4. QED BY <2>1, <2>2, <2>3, <3>3, <1>r, LocalKeeps
  <2>4. CASE Local(p, "stop", job[p])
    <3>1. ~Stops("stop", job[p]) BY DEF Stops
    <3>2. QED BY <2>1, <2>2, <2>4, <3>1, <1>r, LocalKeeps
  <2>5. QED BY <1>5, <2>3, <2>4 DEF LadderAsk
<1>6. CASE ConfirmTeardown(p)
  <2>1. pc[p] = "confirm" /\ UNCHANGED <<vmPid, bootJson>> BY <1>6 DEF ConfirmTeardown
  <2>2. \E r : Return(p, r) BY <1>6 DEF ConfirmTeardown
  <2>3. QED BY <2>1, <2>2, HolderLeaves
<1>7. CASE DestroyDecide(p)
  <2>1. pc[p] = "destroy" /\ UNCHANGED <<vmPid, bootJson>> /\ job[p].verb = "destroy"
    BY <1>7, <1>r DEF DestroyDecide, Fits
  <2>2. PICK j : j = [job[p] EXCEPT !.vm = LiveVm] OBVIOUS
  <2>3. j.verb = job[p].verb /\ j.vm <= boots BY <2>2, <1>r, LiveVmBound DEF Job
  <2>4. PICK u \in UnitReadings : Local(p, IF Resting(u) THEN "remove" ELSE "ask", j)
    BY <1>7, <2>2 DEF DestroyDecide
  <2>5. CASE Resting(u)
    <3>1. Fits("remove", j.verb) /\ ~Stops("remove", j) BY <2>1, <2>3 DEF Fits, Stops
    <3>2. ~Alive(vmPid) BY <2>5, DeadIsUnrecorded
    <3>3. QED BY <2>1, <2>3, <2>4, <2>5, <3>1, <3>2, LocalKeeps
  <2>6. CASE ~Resting(u)
    <3>1. Fits("ask", j.verb) /\ ~Shedding("ask", j.verb) /\ ~Stops("ask", j)
      BY <2>1, <2>3 DEF Fits, Shedding, Stops
    <3>2. QED BY <2>1, <2>3, <2>4, <2>6, <3>1, LocalKeeps
  <2>7. QED BY <2>5, <2>6
<1>8. CASE DestroyRecheck(p)
  <2>1. pc[p] = "recheck" /\ UNCHANGED <<vmPid, bootJson>> /\ job[p].verb = "destroy"
    BY <1>8, <1>r DEF DestroyRecheck, Fits
  <2>2. CASE Return(p, "failed") BY <2>1, <2>2, HolderLeaves
  <2>3. ASSUME NEW u \in UnitReadings, Presence(u) = "dead", Local(p, "remove", job[p])
        PROVE Kept'
    <3>1. Fits("remove", job[p].verb) /\ ~Stops("remove", job[p])
      BY <2>1 DEF Fits, Stops
    <3>2. ~Alive(vmPid) BY <2>3, DeadIsUnrecorded
    <3>3. QED BY <2>1, <2>3, <3>1, <3>2, <1>r, LocalKeeps
  <2>4. QED BY <1>8, <2>2, <2>3 DEF DestroyRecheck
<1>9. CASE DestroyRemove(p)
  <2>1. pc[p] = "remove" /\ UNCHANGED <<vmPid, bootJson>> /\ Local(p, "clear", job[p])
    BY <1>9 DEF DestroyRemove
  <2>2. Fits("clear", job[p].verb) /\ ~Stops("clear", job[p]) /\ ~Alive(vmPid)
    BY <2>1, <1>r DEF Fits, Stops, Shedding
  <2>3. QED BY <2>1, <2>2, <1>r, LocalKeeps
<1>10. QED BY <1>1, <1>2, <1>3, <1>4, <1>5, <1>6, <1>7, <1>8, <1>9
\* The submission and the wait of a launcher.
LEMMA LaunchKeeps ==
    ASSUME Undisturbed, LockInv, StateOK', NEW p \in Procs,
           HandoffSubmit(p) \/ AwaitAccept(p) \/ ReadReport(p)
    PROVE  Kept'
<1> USE DEF dirVars, rootVars, Waiting, StopPath
<1>r. /\ StateOK /\ job[p] \in Job /\ job[p].vm <= boots /\ job[p].verb \in Verbs
      /\ Fits(pc[p], job[p].verb)
  BY Reads
<1>h. lock = p BY <1>r DEF Fits, LockInv, Kept, Held, HandoffSubmit, AwaitAccept, ReadReport
<1>1. CASE HandoffSubmit(p)
  <2>1. pc[p] = "submit" /\ UNCHANGED <<vmPid, bootJson>> BY <1>1 DEF HandoffSubmit
  <2>2. CASE Return(p, "failed") BY <2>1, <2>2, HolderLeaves
  <2>3. CASE ~Return(p, "failed")
    <3>1. /\ unit = "absent" /\ unit' = "activating"
          /\ UNCHANGED <<lock, job, sup, conn, mail, report, vms, boots>>
          /\ pc' = [pc EXCEPT ![p] = "await"]
      BY <1>1, <2>3 DEF HandoffSubmit, Goto
    <3>2. sup = "none" /\ vms = {} BY <3>1 DEF LockInv, IInv, UnitOwnsGroup
    <3>3. \A q \in Procs : q # p => pc'[q] = pc[q] BY <3>1, <1>r DEF StateOK
    <3>4. pc'[p] = "await" BY <3>1, <1>r DEF StateOK
    <3>5. \A n : ~Alive(n)' BY <3>1, <3>2 DEF Alive
    <3>6. Labelled' BY <2>1, <3>1, <3>3, <3>4 DEF LockInv, Kept, Labelled, Fits
    <3>7. Held' BY <2>1, <3>1, <3>3, <3>4 DEF LockInv, Kept, Held
    <3>8. Group' BY <3>1, <3>2 DEF Group, SigtermFatal
    <3>9. conn = NoProc BY <1>h, <2>1, NoBootUnderLock
    <3>10. Launcher'
      BY <1>h, <3>1, <3>2, <3>3, <3>4, <3>9, TargetAssumption DEF LockInv, Kept, Launcher
    <3>11. Records' BY <2>1, <3>1, <3>2, <3>5 DEF LockInv, Kept, Records
    <3>12. NothingRecorded' BY <3>5 DEF NothingRecorded
    <3>13. Stopping' BY <3>1, <3>5 DEF LockInv, Kept, Stopping, Outlived
    <3>14. QED BY <3>6, <3>7, <3>8, <3>10, <3>11, <3>12, <3>13 DEF Kept
  <2>4. QED BY <2>2, <2>3
<1>2. CASE AwaitAccept(p)
  <2>1. pc[p] = "await" /\ UNCHANGED <<vmPid, bootJson>> BY <1>2 DEF AwaitAccept
  <2>2. CASE conn = p /\ Local(p, "read", job[p])
    <3>1. Fits("read", job[p].verb) /\ ~Shedding("read", job[p].verb)
          /\ ~Stops("read", job[p])
      BY <2>1, <1>r DEF Fits, Shedding, Stops
    <3>2. QED BY <2>1, <2>2, <3>1, <1>r, LocalKeeps
  <2>3. CASE /\ conn # p /\ unit # "activating" /\ sup # "connect"
             /\ Return(p, "failed")
    <3>1. sup \notin {"boot", "vmm", "pid", "guest", "answered"} /\ mail = "empty"
      BY <2>3, <1>h DEF LockInv, Kept, Launcher
    <3>2. QED BY <2>1, <2>3, <3>1, LeaveKeeps
  <2>4. QED BY <1>2, <2>2, <2>3 DEF AwaitAccept, Undisturbed
<1>3. CASE ReadReport(p)
  <2>1. /\ pc[p] = "read" /\ UNCHANGED <<vmPid, bootJson>> /\ report # "none"
        /\ conn = p
    BY <1>3 DEF ReadReport, LockInv, Kept, Launcher
  <2>2. CASE Local(p, "bootrecord", job[p])
    <3>1. Fits("bootrecord", job[p].verb) /\ ~Shedding("bootrecord", job[p].verb)
          /\ ~Stops("bootrecord", job[p])
      BY <2>1, <1>r DEF Fits, Shedding, Stops
    <3>2. QED BY <2>1, <2>2, <3>1, <1>r, LocalKeeps
  <2>3. ASSUME NEW r, Return(p, r) PROVE Kept'
    <3>1. /\ unit # "activating" /\ mail = "empty"
          /\ sup \notin {"connect", "boot", "vmm", "pid", "guest", "answered"}
      BY <2>1, <1>h DEF LockInv, Kept, Launcher
    <3>2. QED BY <2>1, <2>3, <3>1, LeaveKeeps
  <2>4. QED BY <1>3, <2>2, <2>3 DEF ReadReport
<1>4. QED BY <1>1, <1>2, <1>3

\* Where a stop goes on fits its verb, and a ladder that ends leaves what it
\* relied on.
LEMMA AfterStopFits ==
    ASSUME LockInv, NEW p \in Procs, pc[p] \in {"acked", "stop", "poll", "reap"}
    PROVE  /\ Fits(AfterStop(p), job[p].verb)
           /\ AfterStop(p) \notin Waiting \cup {"idle"}
           /\ Shedding(AfterStop(p), job[p].verb) => ~Alive(vmPid)
<1> USE DEF Waiting, StopPath
<1>r. /\ job[p].verb \in {"stop", "rebuild", "exec", "destroy"}
      /\ Shedding(pc[p], job[p].verb) => ~Alive(vmPid)
  BY Reads DEF Fits
<1>1. CASE job[p].verb = "stop"
  <2>1. AfterStop(p) = "confirm" BY <1>1 DEF AfterStop
  <2>2. QED BY <1>1, <2>1 DEF Fits, Shedding
<1>2. CASE job[p].verb = "rebuild"
  <2>1. AfterStop(p) = "record" BY <1>2 DEF AfterStop
  <2>2. QED BY <1>2, <2>1 DEF Fits, Shedding
<1>3. CASE job[p].verb = "exec"
  <2>1. AfterStop(p) = "shed" BY <1>3 DEF AfterStop
  <2>2. QED BY <1>3, <1>r, <2>1 DEF Fits, Shedding
<1>4. CASE job[p].verb = "destroy"
  <2>1. AfterStop(p) = "recheck" BY <1>4 DEF AfterStop
  <2>2. QED BY <1>4, <2>1 DEF Fits, Shedding
<1>5. QED BY <1>r, <1>1, <1>2, <1>3, <1>4

\* The readings of the stop ladder, and the step after a kill.
LEMMA LadderKeeps ==
    ASSUME LockInv, StateOK', NEW p \in Procs,
           LadderAcked(p) \/ StopPoll(p) \/ StopReap(p)
    PROVE  Kept'
<1> USE DEF dirVars, rootVars, Waiting, StopPath
<1>r. /\ StateOK /\ job[p] \in Job /\ job[p].vm <= boots /\ job[p].verb \in Verbs
      /\ Fits(pc[p], job[p].verb)
      /\ Shedding(pc[p], job[p].verb) => ~Alive(vmPid)
      /\ Stops(pc[p], job[p]) => Outlived(job[p])
  BY Reads
<1>1. pc[p] \in {"acked", "poll", "reap"} /\ UNCHANGED <<vmPid, bootJson>>
  BY DEF LadderAcked, StopPoll, StopReap
<1>2. \A l : Stops(l, job[p]) => Outlived(job[p])
  BY <1>1, <1>r DEF Stops
<1>3. CASE Local(p, AfterStop(p), job[p])
  BY <1>1, <1>2, <1>3, <1>r, AfterStopFits, LocalKeeps
<1>4. ASSUME NEW l \in {"stop", "kill"}, Local(p, l, job[p]) PROVE Kept'
  <2>1. Fits(l, job[p].verb) /\ (Shedding(l, job[p].verb) => ~Alive(vmPid))
    BY <1>1, <1>4, <1>r DEF Fits, Shedding
  <2>2. QED BY <1>1, <1>2, <1>4, <2>1, <1>r, LocalKeeps
<1>5. CASE Return(p, "failed") BY <1>1, <1>5, HolderLeaves
<1>6. QED BY <1>3, <1>4, <1>5 DEF LadderAcked, StopPoll, StopReap
\* The stop request and the kill: the group only loses members.
LEMMA SignalKeeps ==
    ASSUME LockInv, StateOK', NEW p \in Procs, StopUnit(p) \/ StopKill(p)
    PROVE  Kept'
<1> USE DEF dirVars, rootVars, Waiting, StopPath
<1>r. /\ StateOK /\ job[p] \in Job /\ job[p].vm <= boots /\ job[p].verb \in Verbs
      /\ Fits(pc[p], job[p].verb)
      /\ Shedding(pc[p], job[p].verb) => ~Alive(vmPid)
      /\ Stops(pc[p], job[p]) => Outlived(job[p])
  BY Reads
<1>1. pc[p] \in {"stop", "kill"} /\ UNCHANGED <<vmPid, bootJson>>
  BY DEF StopUnit, StopKill
<1>2. CASE Return(p, "failed") BY <1>1, <1>2, HolderLeaves
<1>3. CASE StopUnit(p) /\ unit = "absent" /\ Local(p, AfterStop(p), job[p])
  <2>1. Outlived(job[p]) BY <1>3 DEF LockInv, IInv, UnitOwnsGroup, Alive, Outlived
  <2>2. pc[p] = "stop" BY <1>3 DEF StopUnit
  <2>3. QED BY <1>1, <1>3, <2>1, <2>2, <1>r, AfterStopFits, LocalKeeps
<1>4. CASE /\ unit # "absent" /\ unit' = "deactivating"
           /\ sup' \in {sup, "none"} /\ (SigtermFatal => sup' = "none")
           /\ vms' \in {vms, {}}
           /\ mail' = "empty" \/ UNCHANGED <<mail, report>>
           /\ UNCHANGED <<lock, job, boots, conn>>
           /\ \E l \in {"poll", "reap"} : pc' = [pc EXCEPT ![p] = l]
  <2>1. PICK l \in {"poll", "reap"} : pc' = [pc EXCEPT ![p] = l] BY <1>4
  <2>2. \A q \in Procs : q # p => pc'[q] = pc[q] BY <2>1, <1>r DEF StateOK
  <2>3. pc'[p] = l BY <2>1, <1>r DEF StateOK
  <2>4. vms' \subseteq vms /\ \A n : Alive(n)' => Alive(n) BY <1>4 DEF Alive
  <2>5. Labelled' BY <1>1, <1>4, <1>r, <2>1, <2>2, <2>3 DEF LockInv, Kept, Labelled, Fits
  <2>6. Held' BY <1>1, <1>4, <2>1, <2>2, <2>3 DEF LockInv, Kept, Held
  <2>7. Group' BY <1>4, <2>4 DEF LockInv, Kept, Group, SigtermFatal
  <2>8. Launcher'
    <3>1. unit' # "activating" /\ sup' \notin {"connect", "boot", "vmm", "pid", "guest", "answered"}
      BY <1>4 DEF SigtermFatal
    <3>2. conn # p BY <1>1, <1>r, TargetAssumption DEF LockInv, Kept, Launcher
    <3>3. QED
      BY <1>4, <3>1, <3>2, <2>1, <2>2, <2>3, <1>r, TargetAssumption
         DEF LockInv, Kept, Launcher, StateOK
  <2>9. Records' BY <1>1, <1>4, <2>4 DEF LockInv, Kept, Records
  <2>10. NothingRecorded'
    <3>1. Shedding(l, job[p].verb) => ~Alive(vmPid) BY <1>1, <1>r, <2>1 DEF Shedding
    <3>2. QED
      BY <1>1, <1>4, <2>2, <2>3, <2>4, <3>1 DEF LockInv, Kept, NothingRecorded
  <2>11. Stopping'
    <3>1. ASSUME NEW n, Alive(n)', ~PastLadder' PROVE vmPid' = n
      <4>1. sup \in {"monitor", "shutdown"}
        BY <1>4, <3>1, <1>r DEF PastLadder, SigtermFatal, StateOK, SupStates
      <4>2. Alive(n) BY <3>1, <2>4
      <4>3. vms # {} BY <4>2 DEF Alive
      <4>4. n = boots BY <4>1, <4>2 DEF Alive, LockInv, Kept, Group
      <4>5. QED BY <1>1, <4>1, <4>3, <4>4 DEF LockInv, Kept, Group, Records
    <3>2. QED BY <1>4, <3>1 DEF LockInv, Kept, Stopping, Outlived, PastLadder
  <2>12. QED BY <2>5, <2>6, <2>7, <2>8, <2>9, <2>10, <2>11 DEF Kept
<1>5. CASE /\ unit # "absent" /\ unit' = "deactivating"
           /\ IF unit # "deactivating" /\ SigtermFatal THEN sup' = "none" ELSE sup' = sup
           /\ mail' = "empty" \/ UNCHANGED <<mail, report>>
           /\ UNCHANGED <<lock, job, boots, conn, vms>> /\ Goto(p, "poll")
  <2>1. sup' \in {sup, "none"} /\ (SigtermFatal => sup' = "none")
    BY <1>5 DEF LockInv, Kept, Group
  <2>2. QED BY <1>4, <1>5, <2>1 DEF Goto
<1>6. ASSUME StopKill(p), ~Return(p, "failed") PROVE Kept'
  BY <1>4, <1>6 DEF StopKill, HangUp, Goto
<1>7. CASE StopUnit(p) BY <1>7, <1>2, <1>3, <1>5 DEF StopUnit, HangUp
<1>8. QED BY <1>2, <1>6, <1>7

\* The two steps that clear the records: no live VMM is on them.
LEMMA ClearKeeps ==
    ASSUME LockInv, StateOK', NEW p \in Procs, ShedStale(p) \/ DestroyClear(p)
    PROVE  Kept'
<1> USE DEF dirVars, rootVars, Waiting, StopPath
<1>r. /\ StateOK /\ job[p] \in Job /\ job[p].vm <= boots /\ job[p].verb \in Verbs
      /\ Fits(pc[p], job[p].verb)
      /\ Shedding(pc[p], job[p].verb) => ~Alive(vmPid)
  BY Reads
<1>1. pc[p] \in {"shed", "clear"} /\ vmPid' = 0 /\ bootJson' = 0 /\ ~Alive(vmPid)
  BY <1>r DEF ShedStale, DestroyClear, EmptyDirectory, Shedding
<1>2. UNCHANGED <<unit, sup, spec, mail, vms, boots, verbs>>
  BY DEF ShedStale, DestroyClear, Return, Local, supVars
<1>3. PICK l \in {"idle", "build"}, j \in {NoJob, job[p]} :
         /\ pc' = [pc EXCEPT ![p] = l] /\ job' = [job EXCEPT ![p] = j]
         /\ l = "idle" => j = NoJob
         /\ l # "idle" => j = job[p] /\ lock' = lock /\ pc[p] = "shed"
  BY DEF ShedStale, DestroyClear, Return, Local, Goto
<1>4. \A q \in Procs : q # p => pc'[q] = pc[q] /\ job'[q] = job[q] BY <1>3, <1>r DEF StateOK
<1>5. pc'[p] = l /\ job'[p] = j BY <1>3, <1>r DEF StateOK
<1>6. \A n : Alive(n)' <=> Alive(n) BY <1>2 DEF Alive
<1>7. ~Alive(0) /\ ~Alive(bootJson)
  BY <1>1, <1>r, ZeroIsDead DEF LockInv, Kept, Records
<1>h. lock = p BY <1>1, <1>r DEF Fits, LockInv, Kept, Held
<1>n. /\ unit # "activating" /\ conn = NoProc /\ mail = "empty"
      /\ sup \notin {"connect", "boot", "vmm", "pid", "guest", "answered"}
  BY <1>h, <1>1, NoBootUnderLock
<1>8. Labelled' BY <1>1, <1>3, <1>4, <1>5, <1>r DEF LockInv, Kept, Labelled, Fits, NoJob
<1>9. Held'
  <2>1. \A q \in Procs \ {p} : pc[q] # "idle" => job[q].verb = "stop"
    BY <1>h DEF LockInv, Kept, Held
  <2>2. QED BY <1>3, <1>4, <1>5, <1>h, <2>1 DEF Held
<1>10. Group' BY <1>2 DEF LockInv, Kept, Group, SigtermFatal
<1>11. Launcher'
  <2>1. conn' = NoProc
    BY <1>n DEF ShedStale, DestroyClear, Return, Local, supVars
  <2>2. \A q \in Procs : pc'[q] \notin {"read", "bootrecord"}
    BY <1>3, <1>4, <1>5, <1>n, TargetAssumption DEF LockInv, Kept, Launcher
  <2>3. QED BY <1>2, <1>n, <2>1, <2>2 DEF Launcher
<1>12. Records'
  <2>1. vms = {} \/ sup \notin {"ready", "monitor", "shutdown"}
    BY <1>1 DEF LockInv, Kept, Records, Group, Alive
  <2>2. QED BY <1>1, <1>2, <1>6, <1>7, <1>n, <1>r, <2>1 DEF Records, StateOK
<1>13. NothingRecorded' BY <1>1, <1>6, <1>7 DEF NothingRecorded
<1>14. Stopping'
  <2>1. ASSUME NEW q \in Procs, Stops(pc'[q], job'[q]), NEW n, n = job'[q].vm, Alive(n)'
        PROVE PastLadder'
    <3>1. q # p BY <1>1, <1>3, <1>5, <2>1 DEF Stops
    <3>2. Outlived(job[q]) /\ Alive(job[q].vm)
      BY <3>1, <2>1, <1>4, <1>6 DEF LockInv, Kept, Stopping
    <3>3. QED BY <3>2, <1>1, <1>2 DEF Outlived, PastLadder
  <2>2. \A q \in Procs : job'[q].vm <= boots'
    BY <1>2, <1>3, <1>4, <1>5, <1>r DEF LockInv, Kept, Stopping, NoJob, StateOK
  <2>3. QED BY <2>1, <2>2 DEF Stopping, Outlived, PastLadder, Stops
<1>15. QED BY <1>8, <1>9, <1>10, <1>11, <1>12, <1>13, <1>14 DEF Kept
\* A verb starts: stop without the lock, every other with it or not at all.
LEMMA BeginKeeps ==
    ASSUME LockInv, StateOK', NEW p \in Procs, NEW verb \in Verbs, Begin(p, verb)
    PROVE  Kept'
<1> USE DEF Waiting, StopPath
<1>r. StateOK /\ pc[p] = "idle" BY DEF LockInv, IInv, Begin
<1>0. UNCHANGED <<unit, sup, conn, mail, report, vms, boots, vmPid, bootJson>>
  BY DEF Begin, supVars, dirVars
<1>1. \A n : Alive(n)' <=> Alive(n) BY <1>0 DEF Alive
<1>2. PICK j : j = [NoJob EXCEPT !.verb = verb] OBVIOUS
<1>3. j.verb = verb /\ j.vm = 0 BY <1>2 DEF NoJob
<1>4. PICK l \in {"idle", FirstLabel(verb)} :
         /\ pc' = [pc EXCEPT ![p] = l]
         /\ l # "idle" /\ verb # "stop" => lock = NoProc /\ lock' = p
         /\ l = "idle" \/ verb = "stop" => lock' = lock
  <2>1. FirstLabel(verb) # "idle" BY DEF FirstLabel
  <2>2. pc = [pc EXCEPT ![p] = "idle"] BY <1>r DEF StateOK
  <2>3. QED BY <2>1, <2>2 DEF Begin, Goto
<1>5. job' = [job EXCEPT ![p] = j] BY <1>2 DEF Begin
<1>6. \A q \in Procs : q # p => pc'[q] = pc[q] /\ job'[q] = job[q]
  BY <1>4, <1>5, <1>r DEF StateOK
<1>7. pc'[p] = l /\ job'[p] = j BY <1>4, <1>5, <1>r DEF StateOK
<1>8. Fits(l, verb) /\ ~Shedding(l, verb) /\ l \notin Waiting /\ ~Stops(l, j)
  <2>1. CASE verb = "stop" BY <1>4, <2>1 DEF FirstLabel, Fits, Shedding, Stops
  <2>2. CASE verb # "stop"
    <3>1. l \in {"idle", "reuse", "prune", "destroy", "decide"}
      BY <1>4, <2>2 DEF FirstLabel
    <3>2. l = "reuse" => verb = "exec" BY <1>4, <2>2 DEF FirstLabel
    <3>3. l = "destroy" => verb = "destroy" BY <1>4, <2>2, <3>2 DEF FirstLabel
    <3>4. verb = "exec" => l # "decide" BY <1>4, <2>2 DEF FirstLabel
    <3>5. QED BY <2>2, <3>1, <3>2, <3>3, <3>4 DEF Fits, Shedding, Stops
  <2>3. QED BY <2>1, <2>2
<1>9. Labelled' BY <1>3, <1>6, <1>7, <1>8 DEF LockInv, Kept, Labelled
<1>10. Held' BY <1>3, <1>4, <1>6, <1>7, TargetAssumption DEF LockInv, Kept, Held
<1>11. Group' BY <1>0 DEF LockInv, Kept, Group, SigtermFatal
<1>12. Launcher'
  <2>1. (conn # p /\ lock # p) \/ conn = NoProc
    BY <1>r, TargetAssumption DEF LockInv, Kept, Launcher
  <2>2. CASE lock = NoProc
    <3>1. conn = NoProc /\ unit # "activating" /\ mail = "empty"
          /\ sup \notin {"connect", "boot", "vmm", "pid", "guest", "answered"}
      BY <2>2, <1>r, TargetAssumption DEF LockInv, Kept, Launcher, StateOK
    <3>2. QED
      BY <1>0, <1>6, <1>7, <1>8, <3>1, TargetAssumption DEF LockInv, Kept, Launcher
  <2>3. CASE lock # NoProc
    <3>1. lock' = lock BY <1>4, <2>3
    <3>2. QED
      BY <1>0, <1>r, <1>6, <1>7, <1>8, <2>1, <2>3, <3>1, TargetAssumption
         DEF LockInv, Kept, Launcher, StateOK
  <2>4. QED BY <2>2, <2>3
<1>13. Records' BY <1>0, <1>1 DEF LockInv, Kept, Records
<1>14. NothingRecorded'
  BY <1>0, <1>1, <1>3, <1>6, <1>7, <1>8 DEF LockInv, Kept, NothingRecorded
<1>15. Stopping'
  <2>1. 0 <= boots BY <1>r DEF StateOK
  <2>2. QED
    BY <1>0, <1>1, <1>3, <1>6, <1>7, <1>8, <2>1 DEF LockInv, Kept, Stopping, Outlived, PastLadder
<1>16. QED BY <1>9, <1>10, <1>11, <1>12, <1>13, <1>14, <1>15 DEF Kept

\* Steps that touch no process and no VMM.
LEMMA GroupSteps ==
    ASSUME LockInv, UNCHANGED <<lock, pc, job>>, Group', Launcher', Records',
           \A n : Alive(n)' => Alive(n), boots' \in Nat, boots <= boots',
           vmPid' \in {vmPid, 0} \/ ~\E q \in Procs : Shedding(pc[q], job[q].verb),
           StateOK',
           \A q \in Procs : Alive(job[q].vm) /\ Stops(pc[q], job[q]) =>
                                PastLadder' \/ (vmPid' = vmPid /\ ~PastLadder)
                                \/ vmPid' = job[q].vm
    PROVE  Kept'
<1>t. StateOK BY DEF LockInv, IInv
<1>1. Labelled' BY DEF LockInv, Kept, Labelled
<1>2. Held' BY DEF LockInv, Kept, Held
<1>3. ~Alive(0)' BY ZeroIsDead DEF Alive, Group, StateOK, VM
<1>4. NothingRecorded' BY <1>3 DEF LockInv, Kept, NothingRecorded
<1>5. ASSUME NEW q \in Procs, Stops(pc[q], job[q]), NEW n, n = job[q].vm, Alive(n)'
      PROVE PastLadder' \/ vmPid' = n
  BY <1>5 DEF LockInv, Kept, Stopping, Outlived
<1>6. \A q \in Procs : job[q].vm <= boots'
  BY <1>t DEF LockInv, Kept, Stopping, StateOK, Job
<1>7. Stopping' BY <1>5, <1>6 DEF Stopping, Outlived, Stops
<1>8. QED BY <1>1, <1>2, <1>4, <1>7 DEF Kept
\* While a boot is under way nobody sheds records: its launcher has the lock.
LEMMA NobodySheds ==
    ASSUME LockInv, unit = "activating" \/ sup \in {"connect", "boot", "vmm", "pid", "guest", "answered"}
    PROVE  ~\E q \in Procs : Shedding(pc[q], job[q].verb)
<1> SUFFICES ASSUME NEW q \in Procs, Shedding(pc[q], job[q].verb) PROVE FALSE
  OBVIOUS
<1>1. pc[q] \notin Waiting \cup {"idle"} /\ job[q].verb # "stop"
  BY Reads DEF Shedding, Fits, Waiting, StopPath
<1>2. lock = q BY <1>1 DEF LockInv, Kept, Held
<1>3. QED BY <1>1, <1>2, NoBootUnderLock

\* Every step of the unit, the supervisor and the VMM keeps what the
\* processes rely on.
LEMMA SupKeeps ==
    ASSUME Undisturbed, LockInv, StateOK', SupStep \/ SupMonitor \/ VmExit
    PROVE  Kept'
<1> USE DEF procVars, dirVars, rootVars
<1>t. StateOK /\ IInv BY DEF LockInv, IInv
<1>p. UNCHANGED <<lock, pc, job>>
  BY DEF SupStep, UnitExec, SupConnect, SupSpawnVmm, SupWritePid, SupWriteBoot,
     SupAnswered, SupReady, SupFail, SupPrepareFail, SupReport, SupInstall, SupMonitor,
     SupShutdown, SupSweep, SupEnd, UnitReap, VmExit
<1>i. Group /\ Launcher /\ Records BY DEF LockInv, Kept
<1>g. UnitOwnsGroup /\ FreshSupervisor BY <1>t DEF IInv
<1>b. boots \in Nat BY <1>t DEF StateOK
<1>1. CASE UnitExec
  <2>1. vms = {} /\ \A n : ~Alive(n)' BY <1>1, <1>g DEF UnitExec, UnitOwnsGroup, Alive
  <2>2. Group' BY <1>1, <1>i, <2>1 DEF UnitExec, Group, SigtermFatal
  <2>3. Launcher' BY <1>1, <1>i, <1>p DEF UnitExec, Launcher
  <2>4. Records' BY <1>1, <1>i, <2>1 DEF UnitExec, Records
  <2>5. QED BY <1>1, <1>p, <1>b, <2>1, <2>2, <2>3, <2>4, GroupSteps DEF UnitExec, Alive
<1>2. CASE SupConnect
  <2>0. sup = "connect" /\ UNCHANGED <<vms, boots, vmPid, bootJson>> BY <1>2 DEF SupConnect
  <2>1. vms = {} /\ \A n : ~Alive(n)' /\ ~Alive(n)
    BY <2>0, <1>g DEF FreshSupervisor, Alive
  <2>2. Group' BY <1>2, <1>i, <2>0, <2>1 DEF SupConnect, SupExit, Group, SigtermFatal
  <2>3. Launcher'
    <3>1. CASE sup' = "none"
      BY <1>2, <1>i, <1>p, <3>1 DEF SupConnect, SupExit, HangUp, Launcher
    <3>2. CASE sup' # "none"
      <4>1. PICK p \in Procs : /\ readySock = p /\ pc[p] \in {"submit", "await"}
                               /\ sup' = "boot" /\ conn' = p /\ report' = "none"
                               /\ unit' = unit /\ mail' = mail
        BY <1>2, <3>2 DEF SupConnect, SupExit
      <4>2. job[p].verb # "stop" BY <4>1, Reads DEF Fits, StopPath
      <4>3. lock = p BY <4>1, <4>2 DEF LockInv, Kept, Held
      <4>4. pc[p] = "await" BY <4>3, <2>0, <1>i DEF Launcher
      <4>5. unit = "active" BY <2>0, <1>i DEF Group, SigtermFatal
      <4>0. mail = "empty" BY <2>0, <1>i DEF Launcher
      <4>6. \A q \in Procs : pc[q] \notin {"read", "bootrecord"}
        BY <2>0, <1>i, TargetAssumption DEF Launcher
      <4>7. QED
        BY <4>0, <4>1, <4>3, <4>4, <4>5, <4>6, <1>p, TargetAssumption DEF Launcher, Waiting
    <3>3. QED BY <3>1, <3>2
  <2>4. Records' BY <1>i, <2>0, <2>1 DEF Records
  <2>5. QED BY <1>p, <1>b, <2>0, <2>1, <2>2, <2>3, <2>4, GroupSteps
<1>3. CASE SupSpawnVmm
  <2>0. /\ sup = "boot" /\ sup' = "vmm" /\ boots' = boots + 1
        /\ vms' = vms \cup {[id |-> boots + 1, build |-> spec]}
        /\ UNCHANGED <<unit, conn, mail, report, vmPid, bootJson>>
    BY <1>3 DEF SupSpawnVmm
  <2>1. vms = {} BY <2>0, <1>g DEF FreshSupervisor
  <2>2. \A v \in vms' : v.id = boots + 1 BY <2>0, <2>1
  <2>3. \A n : Alive(n)' => n = boots + 1 BY <2>2 DEF Alive
  <2>4. Group' BY <2>0, <2>2, <1>i, <1>b DEF Group, SigtermFatal
  <2>5. Launcher' BY <2>0, <1>i, <1>p DEF Launcher
  <2>6. Records' BY <2>0, <2>3, <1>i, <1>t DEF Records, StateOK
  <2>7. NothingRecorded'
    BY <1>p, <2>0, NobodySheds DEF NothingRecorded
  <2>8. Stopping'
    <3>1. \A q \in Procs : job[q].vm \in Nat /\ job[q].vm <= boots BY Reads
    <3>2. ASSUME NEW q \in Procs, NEW n, n = job[q].vm PROVE ~Alive(n)'
      BY <3>1, <3>2, <2>3, <1>b
    <3>3. QED BY <1>p, <1>b, <2>0, <3>1, <3>2 DEF Stopping, Outlived
  <2>9. Labelled' /\ Held' BY <1>p DEF LockInv, Kept, Labelled, Held
  <2>10. QED BY <2>4, <2>5, <2>6, <2>7, <2>8, <2>9 DEF Kept
<1>4. CASE SupWritePid
  <2>0. /\ sup = "vmm" /\ sup' = "pid" /\ vmPid' = boots
        /\ UNCHANGED <<unit, conn, mail, report, vms, boots, bootJson>>
    BY <1>4 DEF SupWritePid
  <2>1. \A n : Alive(n)' <=> Alive(n) BY <2>0 DEF Alive
  <2>2. \A n : Alive(n) => n = boots BY <2>0, <1>i DEF Group, Alive
  <2>3. Group' BY <2>0, <1>i DEF Group, SigtermFatal
  <2>4. Launcher' BY <2>0, <1>i, <1>p DEF Launcher
  <2>5. Records' BY <2>0, <2>1, <2>2, <1>i DEF Records
  <2>6. QED BY <1>p, <1>b, <2>0, <2>1, <2>2, <2>3, <2>4, <2>5, NobodySheds, GroupSteps
<1>5. CASE SupWriteBoot
  <2>0. /\ sup = "pid" /\ sup' = "guest" /\ bootJson' = boots
        /\ UNCHANGED <<unit, conn, mail, report, vms, boots, vmPid>>
    BY <1>5 DEF SupWriteBoot
  <2>1. \A n : Alive(n)' <=> Alive(n) BY <2>0 DEF Alive
  <2>2. \A n : Alive(n) => vms # {} BY DEF Alive
  <2>3. Group' BY <2>0, <1>i DEF Group, SigtermFatal
  <2>4. Launcher' BY <2>0, <1>i, <1>p DEF Launcher
  <2>5. Records' BY <2>0, <2>1, <2>2, <1>i, <1>b DEF Records
  <2>6. QED BY <1>p, <1>b, <2>0, <2>1, <2>3, <2>4, <2>5, GroupSteps DEF PastLadder
<1>6. CASE SupAnswered \/ SupInstall
  <2>0. /\ <<sup, sup'>> \in {<<"guest", "answered">>, <<"ready", "monitor">>}
        /\ UNCHANGED <<unit, conn, mail, report, vms, boots, vmPid, bootJson>>
    BY <1>6 DEF SupAnswered, SupInstall
  <2>1. \A n : Alive(n)' <=> Alive(n) BY <2>0 DEF Alive
  <2>2. Group' BY <2>0, <1>i DEF Group, SigtermFatal
  <2>3. unit' # "activating" BY <2>0, <1>i DEF Group, SigtermFatal
  <2>4. Launcher' BY <2>0, <2>3, <1>i, <1>p DEF Launcher
  <2>5. Records' BY <2>0, <2>1, <1>i DEF Records
  <2>6. sup # "none" /\ sup' # "none" BY <2>0
  <2>7. QED BY <1>p, <1>b, <2>0, <2>1, <2>2, <2>4, <2>5, <2>6, GroupSteps DEF PastLadder
<1>7. CASE SupReady \/ SupFail \/ SupPrepareFail
  <2>0. /\ sup \in {"boot", "vmm", "pid", "guest", "answered"}
        /\ sup' \in {"ready", "abort", "abortend"} /\ (sup' = "abortend" => sup = "boot")
        /\ sup' = "ready" => sup = "answered"
        /\ UNCHANGED <<unit, conn, report, vms, boots, vmPid, bootJson>>
    BY <1>7 DEF SupReady, SupFail, SupPrepareFail
  <2>1. \A n : Alive(n)' <=> Alive(n) BY <2>0 DEF Alive
  <2>2. Group' BY <2>0, <1>i, <1>g DEF Group, SigtermFatal, FreshSupervisor
  <2>3. unit' # "activating" BY <2>0, <1>i DEF Group, SigtermFatal
  <2>4. Launcher' BY <2>0, <2>3, <1>i, <1>p DEF Launcher
  <2>5. Records' BY <2>0, <2>1, <1>i DEF Records
  <2>6. sup # "none" /\ sup' # "none" BY <2>0
  <2>7. QED BY <1>p, <1>b, <2>0, <2>1, <2>2, <2>4, <2>5, <2>6, GroupSteps DEF PastLadder
<1>8. CASE SupReport
  <2>0. /\ mail # "empty" /\ mail' = "empty"
        /\ UNCHANGED <<unit, sup, conn, vms, boots, vmPid, bootJson>>
    BY <1>8, <1>i DEF SupReport, Launcher
  <2>1. \A n : Alive(n)' <=> Alive(n) BY <2>0 DEF Alive
  <2>2. Group' BY <2>0, <1>i DEF Group, SigtermFatal
  <2>3. Launcher' BY <2>0, <1>i, <1>p DEF Launcher
  <2>4. Records' BY <2>0, <2>1, <1>i DEF Records
  <2>5. QED BY <1>p, <1>b, <2>0, <2>1, <2>2, <2>3, <2>4, GroupSteps DEF PastLadder
<1>9. CASE SupMonitor
  <2>0. /\ sup = "monitor" /\ sup' = "shutdown"
        /\ UNCHANGED <<unit, conn, mail, report, vms, boots, vmPid, bootJson>>
    BY <1>9 DEF SupMonitor
  <2>1. \A n : Alive(n)' <=> Alive(n) BY <2>0 DEF Alive
  <2>2. Group' BY <2>0, <1>i DEF Group, SigtermFatal
  <2>3. Launcher' BY <2>0, <1>i, <1>p DEF Launcher
  <2>4. Records' BY <2>0, <2>1, <1>i DEF Records
  <2>5. QED BY <1>p, <1>b, <2>0, <2>1, <2>2, <2>3, <2>4, GroupSteps DEF PastLadder
<1>10. CASE SupShutdown
  <2>0. /\ sup \in {"shutdown", "abort"}
        /\ sup' = (IF sup = "abort" THEN "abortsweep" ELSE "sweep")
        /\ vms' \subseteq vms
        /\ UNCHANGED <<unit, conn, mail, report, boots, vmPid, bootJson>>
    BY <1>10 DEF SupShutdown
  <2>2. PastLadder' /\ \A n : Alive(n)' => Alive(n) BY <2>0 DEF Alive, PastLadder
  <2>3. Group' BY <2>0, <1>i DEF Group, SigtermFatal
  <2>4. Launcher' BY <2>0, <1>i, <1>p DEF Launcher
  <2>5. Records' BY <2>0, <2>2, <1>i DEF Records
  <2>6. QED BY <1>p, <1>b, <2>0, <2>2, <2>3, <2>4, <2>5, GroupSteps
<1>11. CASE SupSweep
  <2>0. /\ sup \in {"sweep", "abortsweep"}
        /\ sup' = (IF sup = "abortsweep" THEN "abortend" ELSE "end")
        /\ (vmPid' = vmPid /\ bootJson' = bootJson) \/ (vmPid' = 0 /\ bootJson' = 0)
        /\ UNCHANGED <<unit, conn, mail, report, vms, boots>>
    BY <1>11 DEF SupSweep, EmptyDirectory
  <2>1. PastLadder' /\ ~Alive(0) /\ \A n : Alive(n)' <=> Alive(n)
    BY <2>0, <1>i, <1>t, ZeroIsDead DEF Alive, PastLadder
  <2>2. Group' BY <2>0, <1>i DEF Group, SigtermFatal
  <2>3. Launcher' BY <2>0, <1>i, <1>p DEF Launcher
  <2>4. Records' BY <2>0, <2>1, <1>i, <1>b DEF Records
  <2>6. QED BY <1>p, <1>b, <2>0, <2>1, <2>2, <2>3, <2>4, GroupSteps
<1>14. CASE SupEnd
  <2>0. /\ sup \in {"end", "abortend"} /\ sup' = "none" /\ unit' = "deactivating"
        /\ mail' = "empty" /\ UNCHANGED <<conn, vms, boots, vmPid, bootJson>>
    BY <1>14 DEF SupEnd, SupExit, HangUp
  <2>1. PastLadder' /\ \A n : Alive(n)' <=> Alive(n) BY <2>0 DEF Alive, PastLadder
  <2>2. Group' BY <2>0, <1>i DEF Group, SigtermFatal
  <2>3. Launcher' BY <2>0, <1>i, <1>p DEF Launcher
  <2>4. Records' BY <2>0, <2>1, <1>i, <1>b DEF Records
  <2>5. QED BY <1>p, <1>b, <2>0, <2>1, <2>2, <2>3, <2>4, GroupSteps
<1>12. CASE UnitReap
  <2>0. /\ sup = "none" /\ unit' = "absent" /\ vms' = {}
        /\ UNCHANGED <<sup, conn, mail, report, boots, vmPid, bootJson>>
    BY <1>12 DEF UnitReap
  <2>1. \A n : ~Alive(n)' BY <2>0 DEF Alive
  <2>2. Group' BY <2>0 DEF Group, SigtermFatal
  <2>3. Launcher' BY <2>0, <1>i, <1>p DEF Launcher
  <2>4. Records' BY <2>0, <2>1, <1>i DEF Records
  <2>5. QED BY <1>p, <1>b, <2>0, <2>1, <2>2, <2>3, <2>4, GroupSteps DEF PastLadder
<1>13. CASE VmExit
  <2>0. /\ vms' \subseteq vms
        /\ UNCHANGED <<unit, sup, conn, mail, report, boots, vmPid, bootJson>>
    BY <1>13 DEF VmExit
  <2>1. \A n : Alive(n)' => Alive(n) BY <2>0 DEF Alive
  <2>2. Group' BY <2>0, <1>i DEF Group, SigtermFatal
  <2>3. Launcher' BY <2>0, <1>i, <1>p DEF Launcher
  <2>4. Records' BY <2>0, <2>1, <1>i DEF Records
  <2>5. QED BY <1>p, <1>b, <2>0, <2>1, <2>2, <2>3, <2>4, GroupSteps DEF PastLadder
<1>15. QED
  BY <1>1, <1>2, <1>3, <1>4, <1>5, <1>6, <1>7, <1>8, <1>9, <1>10, <1>11, <1>12, <1>13,
     <1>14 DEF SupStep
\* The initial state satisfies the invariant.
LEMMA InitLockInv == Init => LockInv
<1> SUFFICES ASSUME Init PROVE LockInv
  OBVIOUS
<1>1. IInv BY InitIInv
<1>2. \A n : ~Alive(n) BY DEF Init, Alive
<1>3. Labelled /\ Held BY DEF Init, Labelled, Held, Fits, StopPath, NoJob
<1>4. Group /\ Launcher BY DEF Init, Group, Launcher, SigtermFatal
<1>5. Records /\ NothingRecorded BY <1>2 DEF Init, Records, NothingRecorded
<1>6. Stopping BY <1>2 DEF Init, Stopping, Outlived, NoJob
<1>7. QED BY <1>1, <1>3, <1>4, <1>5, <1>6 DEF LockInv, Kept

\* Every step of an undisturbed target preserves the invariant.
LEMMA NextLockInv == ASSUME Undisturbed PROVE LockInv /\ [Next]_vars => LockInv'
<1> SUFFICES ASSUME LockInv, [Next]_vars PROVE LockInv'
  OBVIOUS
<1>1. IInv' BY NextIInv DEF LockInv
<1>t. StateOK' BY <1>1 DEF IInv
<1>2. ASSUME NEW p \in Procs, ProcStep(p) PROVE Kept'
  BY <1>2, <1>t, StartKeeps, TriageKeeps, LaunchKeeps, LadderKeeps, SignalKeeps, ClearKeeps
     DEF ProcStep
<1>3. ASSUME NEW p \in Procs, NEW verb \in Verbs, Begin(p, verb) PROVE Kept'
  BY <1>3, <1>t, BeginKeeps
<1>4. ASSUME SupStep \/ SupMonitor \/ VmExit PROVE Kept' BY <1>4, <1>t, SupKeeps
<1>5. ASSUME UNCHANGED <<lock, pc, job, unit, sup, conn, mail, report, vms, boots, vmPid,
                         bootJson>>
      PROVE  Kept'
  BY <1>5 DEF LockInv, Kept, Labelled, Held, Group, SigtermFatal, Launcher, Records,
     NothingRecorded, Stopping, Outlived, PastLadder, Alive
<1>6. ASSUME NEW p \in Procs, NEW b \in Builds, Activate(p, b) PROVE Kept'
  BY <1>5, <1>6 DEF Activate, supVars, dirVars
<1>7. ASSUME UNCHANGED vars PROVE Kept'
  BY <1>5, <1>7 DEF vars, procVars, supVars, dirVars
<1>8. ~SupKilled /\ \A p \in Procs : ~Interrupt(p)
  BY DEF Undisturbed, SupKilled, Interrupt
<1>9. QED BY <1>1, <1>2, <1>3, <1>4, <1>6, <1>7, <1>8 DEF Next, Step, LockInv

\* A VM that is up is not dead to a reader who may replace it.
LEMMA DeadIsDown ==
    ASSUME LockInv, NEW p \in Procs, lock = p, pc[p] \notin Waiting,
           NEW u \in UnitReadings, Presence(u) = "dead" \/ Resting(u), NEW v \in vms
    PROVE  ~Up(v)
<1>1. ~Alive(vmPid) BY DeadIsUnrecorded
<1>2. SUFFICES ASSUME Up(v) PROVE FALSE OBVIOUS
<1>3. sup \in {"ready", "monitor"} BY <1>2, NoBootUnderLock DEF Up
<1>4. vmPid = boots /\ v.id = boots BY <1>3 DEF LockInv, Kept, Records, Group
<1>5. QED BY <1>1, <1>4 DEF Alive

\* A process step moves one program counter, and answers only as it ends.
LEMMA ProcShape ==
    ASSUME NEW p \in Procs, ProcStep(p)
    PROVE  \E l : pc' = [pc EXCEPT ![p] = l] /\ (l = "idle" \/ result' = result)
BY DEF ProcStep, StartDecide, StartBuild, LaunchRecord, HandoffPrepare,
   HandoffSubmit, AwaitAccept, ReadReport, Reuse, ReuseWait, ShedStale,
   ReadBootRecord, StopTriage, LadderAsk, LadderAcked, StopUnit, StopPoll,
   StopKill, StopReap, ConfirmTeardown, PruneDecide, PruneUnlink, DestroyDecide,
   DestroyRecheck, DestroyRemove, DestroyClear, Return, Local, Goto

\* The unit and its supervisor move no process.
LEMMA SupShape ==
    ASSUME SupStep \/ SupMonitor \/ VmExit \/ SupKilled
    PROVE  UNCHANGED <<pc, result>>
BY DEF SupStep, UnitExec, SupConnect, SupSpawnVmm, SupWritePid, SupWriteBoot,
   SupAnswered, SupReady, SupFail, SupPrepareFail, SupReport, SupInstall, SupMonitor,
   SupShutdown, SupSweep, SupEnd, UnitReap, VmExit, SupKilled, procVars

\* A verb under way has not answered.
Unanswered == \A p \in Procs : pc[p] # "idle" => result[p] = "none"

\* A verb answers in the step that ends it.
LEMMA NextUnanswered == StateOK /\ Unanswered /\ [Next]_vars => Unanswered'
<1> SUFFICES ASSUME StateOK, Unanswered, [Next]_vars PROVE Unanswered'
  OBVIOUS
<1> USE DEF Unanswered, StateOK
<1>1. ASSUME NEW p \in Procs, ProcStep(p) PROVE Unanswered'
  <2>1. PICK l : pc' = [pc EXCEPT ![p] = l] /\ (l = "idle" \/ result' = result)
    BY <1>1, ProcShape
  <2>2. CASE result' = result
    <3>1. pc[p] # "idle"
      BY <1>1 DEF ProcStep, StartDecide, StartBuild, LaunchRecord, HandoffPrepare,
         HandoffSubmit, AwaitAccept, ReadReport, Reuse, ReuseWait, ShedStale,
         ReadBootRecord, StopTriage, LadderAsk, LadderAcked, StopUnit, StopPoll,
         StopKill, StopReap, ConfirmTeardown, PruneDecide, PruneUnlink, DestroyDecide,
         DestroyRecheck, DestroyRemove, DestroyClear
    <3>2. QED BY <2>1, <2>2, <3>1
  <2>3. CASE result' # result
    <3>1. \E r : result' = [result EXCEPT ![p] = r]
      BY <1>1, <2>3 DEF ProcStep, StartDecide, StartBuild, LaunchRecord, HandoffPrepare,
         HandoffSubmit, AwaitAccept, ReadReport, Reuse, ReuseWait, ShedStale,
         ReadBootRecord, StopTriage, LadderAsk, LadderAcked, StopUnit, StopPoll,
         StopKill, StopReap, ConfirmTeardown, PruneDecide, PruneUnlink, DestroyDecide,
         DestroyRecheck, DestroyRemove, DestroyClear, Return, Local
    <3>2. QED BY <2>1, <2>3, <3>1
  <2>4. QED BY <2>2, <2>3
<1>2. ASSUME NEW p \in Procs, Interrupt(p) PROVE Unanswered'
  BY <1>2 DEF Interrupt, Return
<1>3. ASSUME NEW p \in Procs, NEW verb \in Verbs, Begin(p, verb) PROVE Unanswered'
  BY <1>3 DEF Begin, Goto
<1>4. ASSUME NEW p \in Procs, NEW b \in Builds, Activate(p, b) PROVE Unanswered'
  BY <1>4 DEF Activate
<1>5. CASE SupStep \/ SupMonitor \/ VmExit \/ SupKilled BY <1>5, SupShape
<1>6. CASE UNCHANGED vars BY <1>6 DEF vars, procVars
<1>7. QED BY <1>1, <1>2, <1>3, <1>4, <1>5, <1>6 DEF Next, Step

\* A verb under way moves, and answers, only by a step of its own.
LEMMA OwnStep ==
    ASSUME Undisturbed, StateOK, Unanswered, Next, NEW p \in Procs, pc[p] # "idle",
           pc'[p] # pc[p] \/ result'[p] # "none"
    PROVE  ProcStep(p)
<1>0. result[p] = "none" BY DEF Unanswered
<1>1. ~(SupStep \/ SupMonitor \/ VmExit \/ SupKilled) BY <1>0, SupShape
<1>2. ASSUME NEW q \in Procs, ProcStep(q), q # p PROVE FALSE
  <2>1. PICK l : pc' = [pc EXCEPT ![q] = l] /\ (l = "idle" \/ result' = result)
    BY <1>2, ProcShape
  <2>2. pc'[p] = pc[p] BY <1>2, <2>1 DEF StateOK
  <2>3. \/ result' = result
        \/ \E r : result' = [result EXCEPT ![q] = r]
    BY <1>2 DEF ProcStep, StartDecide, StartBuild, LaunchRecord, HandoffPrepare,
       HandoffSubmit, AwaitAccept, ReadReport, Reuse, ReuseWait, ShedStale,
       ReadBootRecord, StopTriage, LadderAsk, LadderAcked, StopUnit, StopPoll,
       StopKill, StopReap, ConfirmTeardown, PruneDecide, PruneUnlink, DestroyDecide,
       DestroyRecheck, DestroyRemove, DestroyClear, Return, Local
  <2>4. QED BY <1>0, <1>2, <2>2, <2>3 DEF StateOK
<1>3. ASSUME NEW q \in Procs, NEW verb \in Verbs, Begin(q, verb) PROVE FALSE
  BY <1>0, <1>3 DEF Begin, Goto, StateOK
<1>4. ASSUME NEW q \in Procs, NEW b \in Builds, Activate(q, b) PROVE FALSE
  BY <1>0, <1>4 DEF Activate
<1>5. ASSUME NEW q \in Procs, Interrupt(q) PROVE FALSE
  BY <1>5 DEF Interrupt, Undisturbed
<1>6. QED BY <1>1, <1>2, <1>3, <1>4, <1>5 DEF Next, Step

\* Ensure-running never replaces a VM that is up, for any number of processes
\* and whatever the manager fails to answer: the only VM that vm.pid may not
\* name is one whose launcher still holds the lock.
THEOREM SessionsSpareTheVm == Undisturbed /\ Spec => NeverReplacesUpVm
<1> SUFFICES ASSUME Undisturbed PROVE Spec => NeverReplacesUpVm
  OBVIOUS
<1>1. ASSUME LockInv, Unanswered, [Next]_vars
      PROVE  [\A p \in Procs : pc[p] = "reuse" /\ pc'[p] \in {"build", "stop"}
                                  => \A v \in vms : ~Up(v)]_vars
  <2> SUFFICES ASSUME Next, NEW p \in Procs, pc[p] = "reuse", pc'[p] \in {"build", "stop"},
                      NEW v \in vms
               PROVE  ~Up(v)
    BY <1>1
  <2>t. StateOK /\ Fits(pc[p], job[p].verb) BY <1>1, Reads
  <2>h. lock = p BY <1>1, <2>t DEF Fits, LockInv, Kept, Held
  <2>1. ProcStep(p) BY <1>1, <2>t, OwnStep
  <2>2. Reuse(p)
    BY <2>1 DEF ProcStep, StartDecide, StartBuild, LaunchRecord, HandoffPrepare,
       HandoffSubmit, AwaitAccept, ReadReport, ReuseWait, ShedStale,
       ReadBootRecord, StopTriage, LadderAsk, LadderAcked, StopUnit, StopPoll,
       StopKill, StopReap, ConfirmTeardown, PruneDecide, PruneUnlink, DestroyDecide,
       DestroyRecheck, DestroyRemove, DestroyClear
  <2>3. \E u \in UnitReadings : Presence(u) = "dead"
    <3>1. \A r : Return(p, r) => pc'[p] = "idle" BY <2>t DEF Return, StateOK
    <3>2. \A l : Local(p, l, job[p]) => pc'[p] = l BY <2>t DEF Local, Goto, StateOK
    <3>3. QED BY <2>2, <3>1, <3>2 DEF Reuse
  <2>4. QED BY <1>1, <2>h, <2>3, DeadIsDown DEF Waiting
<1>2. Init => Unanswered BY DEF Init, Unanswered
<1>3. LockInv => StateOK BY DEF LockInv, IInv
<1>4. QED
  BY <1>1, <1>2, <1>3, InitLockInv, NextLockInv, NextUnanswered, PTL
     DEF Spec, NeverReplacesUpVm

\* A stop that answers ok has ended the VM it was asked to stop, however many
\* verbs run beside it and whichever of its polls went unanswered: a VM that
\* outlived the request is still on record, and the teardown it confirms is a
\* runtime directory without records.
THEOREM StopsTellTheTruth == Undisturbed /\ Spec => StopIsTruthful
<1> SUFFICES ASSUME Undisturbed PROVE Spec => StopIsTruthful
  OBVIOUS
<1>1. ASSUME LockInv, Unanswered, [Next]_vars
      PROVE  [\A p \in Procs : pc[p] = "confirm" /\ result'[p] = "ok"
                                  => ~Alive(job[p].vm) \/ PastLadder]_vars
  <2> SUFFICES ASSUME Next, NEW p \in Procs, pc[p] = "confirm", result'[p] = "ok",
                      Alive(job[p].vm)
               PROVE  PastLadder
    BY <1>1
  <2>t. /\ StateOK /\ Fits(pc[p], job[p].verb)
        /\ Stops(pc[p], job[p]) => Outlived(job[p])
    BY <1>1, Reads
  <2>1. ProcStep(p) BY <1>1, <2>t, OwnStep
  <2>2. ConfirmTeardown(p)
    BY <2>1 DEF ProcStep, StartDecide, StartBuild, LaunchRecord, HandoffPrepare,
       HandoffSubmit, AwaitAccept, ReadReport, Reuse, ReuseWait, ShedStale,
       ReadBootRecord, StopTriage, LadderAsk, LadderAcked, StopUnit, StopPoll,
       StopKill, StopReap, PruneDecide, PruneUnlink, DestroyDecide,
       DestroyRecheck, DestroyRemove, DestroyClear
  <2>3. ~Residue BY <2>2, <2>t DEF ConfirmTeardown, Return, StateOK
  <2>4. vmPid = 0 /\ ~Alive(0) BY <1>1, <2>3, <2>t, ZeroIsDead DEF Residue, LockInv, Kept
  <2>5. Outlived(job[p]) BY <2>t DEF Stops, Fits
  <2>6. QED BY <2>4, <2>5 DEF Outlived
<1>2. Init => Unanswered BY DEF Init, Unanswered
<1>3. LockInv => StateOK BY DEF LockInv, IInv
<1>4. QED
  BY <1>1, <1>2, <1>3, InitLockInv, NextLockInv, NextUnanswered, PTL
     DEF Spec, StopIsTruthful

\* destroy removes nothing under a VM on record: what it read before the stop,
\* or after it, cannot go stale while it holds the lock.
THEOREM DestroySparesTheVm == Undisturbed /\ Spec => DestroySparesRecordedVm
<1> SUFFICES ASSUME Undisturbed PROVE Spec => DestroySparesRecordedVm
  OBVIOUS
<1>1. ASSUME LockInv, [Next]_vars
      PROVE  [\A p \in Procs : DestroyRemove(p) =>
                                  \A v \in vms : Up(v) => vmPid # v.id]_vars
  <2> SUFFICES ASSUME NEW p \in Procs, DestroyRemove(p), NEW v \in vms, vmPid = v.id
               PROVE  FALSE
    OBVIOUS
  <2>1. pc[p] = "remove" BY DEF DestroyRemove
  <2>2. ~Alive(vmPid) BY <1>1, <2>1, Reads DEF Shedding
  <2>3. QED BY <2>2 DEF Alive
<1>2. QED
  BY <1>1, InitLockInv, NextLockInv, PTL DEF Spec, DestroySparesRecordedVm
-----------------------------------------------------------------------------
(* What a manager that answers adds: the pin and the name of the build a   *)
(* VM that is up was booted from.                                          *)

Answered == Undisturbed /\ ~Flaky

NoneUp == \A v \in vms : ~Up(v)

\* What a verb knows at a label: whether a VM may be up, that the build it
\* carries is pinned and on record, and that prune spares the running one.
Knows(l, j) ==
    /\ l \in {"record", "handoff", "remove", "clear"} => NoneUp
    /\ l = "build" => NoneUp \/ (j.running /\ j.verb # "exec")
    /\ j.verb = "exec" /\ l \in StopPath \cup {"shed"} => NoneUp
    /\ l \in {"record", "handoff", "submit", "await", "read"} => j.build \in pinned
    /\ l \in StopPath /\ j.verb = "rebuild" => j.build \in pinned
    /\ l \in {"handoff", "submit", "await", "read"} => runningBuild = j.build
    /\ l \in {"submit", "await"} => launchJson \in {NoBuild, j.build}
    /\ l = "unlink" => current \notin j.rows /\ (NoneUp \/ runningBuild \notin j.rows)

Informed == \A p \in Procs : Knows(pc[p], job[p])
BootsRecorded == sup = "boot" => spec = runningBuild /\ spec \in pinned
CurrentPinned == current # NoBuild => current \in pinned

CalmInv == BootsRecorded /\ CurrentPinned /\ PinnedWhileUp /\ ProvenanceWhileUp /\ Informed

\* A process that did not move knows what it knew, if nothing it relies on
\* moved or if another one holds the lock: viv stop and an idle process know
\* nothing.
LEMMA StillKnows ==
    ASSUME LockInv, Informed, NEW q \in Procs, pc'[q] = pc[q], job'[q] = job[q],
           \/ lock # q
           \/ UNCHANGED <<runningBuild, pinned, current, launchJson>> /\ (NoneUp => NoneUp')
    PROVE  Knows(pc[q], job[q])'
<1>f. Fits(pc[q], job[q].verb) BY Reads
<1>1. CASE lock # q
  <2>1. pc[q] = "idle" \/ job[q].verb = "stop" BY <1>1 DEF LockInv, Kept, Held
  <2>2. QED BY <1>f, <2>1 DEF Knows, Fits, StopPath
<1>2. CASE UNCHANGED <<runningBuild, pinned, current, launchJson>> /\ (NoneUp => NoneUp')
  BY <1>2 DEF Informed, Knows
<1>3. QED BY <1>1, <1>2

\* A process moves to a label and a job that know enough.
LEMMA CalmMove ==
    ASSUME LockInv, CalmInv, NEW p \in Procs, NEW l, NEW j,
           pc' = [pc EXCEPT ![p] = l], job' = [job EXCEPT ![p] = j],
           Knows(l, j)', NoneUp => NoneUp',
           lock = p \/ UNCHANGED <<runningBuild, pinned, current, launchJson>>,
           BootsRecorded', CurrentPinned', PinnedWhileUp', ProvenanceWhileUp'
    PROVE  CalmInv'
<1>t. StateOK BY DEF LockInv, IInv
<1>1. ASSUME NEW q \in Procs, q # p PROVE Knows(pc[q], job[q])'
  <2>1. pc'[q] = pc[q] /\ job'[q] = job[q] BY <1>1, <1>t DEF StateOK
  <2>2. QED BY <1>1, <2>1, StillKnows DEF CalmInv
<1>2. Knows(pc[p], job[p])'
  <2>1. pc'[p] = l /\ job'[p] = j BY <1>t DEF StateOK
  <2>2. QED BY <2>1 DEF Knows
<1>3. QED BY <1>1, <1>2 DEF CalmInv, Informed

\* A process that moves without touching the group or the files.
LEMMA CalmLocal ==
    ASSUME LockInv, CalmInv, NEW p \in Procs, NEW l, NEW j, Local(p, l, j), Knows(l, j),
           UNCHANGED <<runningBuild, pinned, current, launchJson>>
    PROVE  CalmInv'
<1>1. UNCHANGED <<unit, sup, spec, vms>> BY DEF Local, supVars
<1>2. NoneUp' <=> NoneUp BY <1>1 DEF NoneUp, Up
<1>3. Knows(l, j)' BY <1>2 DEF Knows
<1>4. BootsRecorded' /\ CurrentPinned' /\ PinnedWhileUp' /\ ProvenanceWhileUp'
  BY <1>1 DEF CalmInv, BootsRecorded, CurrentPinned, PinnedWhileUp, ProvenanceWhileUp, Up
<1>5. QED BY <1>2, <1>3, <1>4, CalmMove DEF Local, Goto

\* A process that leaves its verb.
LEMMA CalmReturn ==
    ASSUME LockInv, CalmInv, NEW p \in Procs, NEW r, Return(p, r),
           UNCHANGED <<runningBuild, pinned, current, launchJson>>
    PROVE  CalmInv'
<1>1. UNCHANGED <<unit, sup, spec, vms>> BY DEF Return
<1>2. NoneUp' <=> NoneUp BY <1>1 DEF NoneUp, Up
<1>3. Knows("idle", NoJob)' BY DEF Knows, StopPath
<1>4. BootsRecorded' /\ CurrentPinned' /\ PinnedWhileUp' /\ ProvenanceWhileUp'
  BY <1>1 DEF CalmInv, BootsRecorded, CurrentPinned, PinnedWhileUp, ProvenanceWhileUp, Up
<1>5. PICK j : j = NoJob OBVIOUS
<1>6. Knows("idle", j)' BY <1>3, <1>5 DEF Knows, StopPath
<1>7. QED BY <1>2, <1>4, <1>5, <1>6, CalmMove DEF Return
\* Every label that viv stop does not visit holds the lock.
LEMMA HoldsLock ==
    ASSUME LockInv, NEW p \in Procs, pc[p] \notin {"idle", "triage", "confirm"} \cup StopPath
    PROVE  lock = p
BY Reads DEF Fits, LockInv, Kept, Held

\* A manager that answers gives the unit's own state.
LEMMA ReadsTheUnit ==
    ASSUME StateOK, ~Flaky, NEW u \in UnitReadings
    PROVE  /\ unit = "absent" => u = "inactive"
           /\ unit # "absent" => u = unit
           /\ ReadsStopped(u) <=> unit = "absent"
BY DEF UnitReadings, ReadsStopped, StateOK

\* The steps of start, of the prune and of the session's triage.
LEMMA CalmStart ==
    ASSUME Answered, LockInv, CalmInv, NEW p \in Procs,
           \/ StartDecide(p) \/ StartBuild(p) \/ LaunchRecord(p) \/ HandoffPrepare(p)
           \/ PruneDecide(p) \/ PruneUnlink(p) \/ Reuse(p) \/ ShedStale(p)
    PROVE  CalmInv'
<1> USE DEF dirVars, rootVars
<1>r. /\ StateOK /\ job[p] \in Job /\ job[p].verb \in Verbs /\ Fits(pc[p], job[p].verb)
  BY Reads
<1>k. Knows(pc[p], job[p]) BY DEF CalmInv, Informed
<1>h. lock = p
  BY HoldsLock DEF StartDecide, StartBuild, LaunchRecord, HandoffPrepare, PruneDecide,
     PruneUnlink, Reuse, ShedStale, StopPath
<1>w. pc[p] \notin Waiting
  BY DEF StartDecide, StartBuild, LaunchRecord, HandoffPrepare, PruneDecide,
     PruneUnlink, Reuse, ShedStale, Waiting
<1>n. sup \notin {"connect", "boot", "vmm", "pid", "guest", "answered"} BY <1>h, <1>w, NoBootUnderLock
<1>d. ASSUME NEW u \in UnitReadings, Presence(u) = "dead" \/ Resting(u) PROVE NoneUp
  BY <1>d, <1>h, <1>w, DeadIsDown DEF NoneUp
<1>m. ~Flaky BY DEF Answered
<1>1. CASE StartDecide(p)
  <2>1. PICK u \in UnitReadings :
           Local(p, "build", [job[p] EXCEPT !.running = Discriminate(u) = "running"])
    BY <1>1 DEF StartDecide
  <2>2. PICK j : j = [job[p] EXCEPT !.running = Discriminate(u) = "running"] OBVIOUS
  <2>3. j.verb = job[p].verb /\ (j.running <=> Discriminate(u) = "running")
    BY <2>2, <1>r DEF Job
  <2>4. j.verb # "exec" BY <1>1, <1>r, <2>3 DEF StartDecide, Fits
  <2>5. ASSUME NEW v \in vms, Up(v) PROVE Discriminate(u) = "running"
    <3>1. sup \in {"ready", "monitor"} /\ unit = "active" BY <2>5, <1>n DEF Up
    <3>2. vmPid = boots /\ v.id = boots BY <3>1 DEF LockInv, Kept, Records, Group
    <3>3. Alive(vmPid) /\ vmPid # 0
      BY <3>2, <1>r, ZeroIsDead DEF Alive, LockInv, Kept
    <3>4. u = "active" BY <3>1, <1>r, <1>m, ReadsTheUnit
    <3>5. QED BY <3>3, <3>4 DEF Discriminate, Classify, HasRecords
  <2>6. Knows("build", j) BY <2>3, <2>4, <2>5 DEF Knows, NoneUp, StopPath
  <2>7. QED BY <1>1, <2>1, <2>2, <2>6, CalmLocal DEF StartDecide
<1>2. CASE StartBuild(p)
  <2>0. pc[p] = "build" /\ UNCHANGED <<runningBuild, launchJson>> BY <1>2 DEF StartBuild
  <2>1. pinned \subseteq pinned' BY <1>2 DEF StartBuild, Append
  <2>2. UNCHANGED <<unit, sup, spec, vms>> BY <1>2 DEF StartBuild, Return, Local, supVars
  <2>3. NoneUp' <=> NoneUp BY <2>2 DEF NoneUp, Up
  <2>4. BootsRecorded' /\ PinnedWhileUp' /\ ProvenanceWhileUp'
    BY <2>0, <2>1, <2>2 DEF CalmInv, BootsRecorded, PinnedWhileUp, ProvenanceWhileUp, Up
  <2>b. \/ UNCHANGED <<pinned, current>>
        \/ \E b \in Builds : pinned' = pinned \cup {b} /\ current' \in {current, b}
    BY <1>2 DEF StartBuild, Append
  <2>c. CurrentPinned' BY <2>b DEF CalmInv, CurrentPinned
  <2>5. ASSUME NEW r, Return(p, r) PROVE CalmInv'
    <3>1. PICK j : j = NoJob OBVIOUS
    <3>2. Knows("idle", j)' BY <3>1 DEF Knows, NoJob, StopPath
    <3>3. QED BY <1>h, <2>3, <2>4, <2>c, <2>5, <3>1, <3>2, CalmMove DEF Return
  <2>6. ASSUME NEW b, b \in pinned', NEW l \in {"record", "stop"},
               Local(p, l, [job[p] EXCEPT !.build = b]),
               l = "record" => ~job[p].running \/ job[p].verb = "exec",
               l = "stop" => job[p].verb = "rebuild"
        PROVE CalmInv'
    <3>1. PICK j : j = [job[p] EXCEPT !.build = b] OBVIOUS
    <3>2. j.build = b /\ j.verb = job[p].verb BY <3>1, <1>r DEF Job
    <3>3. l = "record" => NoneUp BY <2>0, <2>6, <1>k DEF Knows
    <3>4. Knows(l, j)'
      BY <2>3, <2>6, <3>2, <3>3 DEF Knows, StopPath
    <3>5. QED BY <1>h, <2>3, <2>4, <2>c, <2>6, <3>1, <3>4, CalmMove DEF Local, Goto
  <2>7. ASSUME NEW b \in Builds, job[p].verb \in {"evaluate", "rebuild", "exec"}, Append(b),
               IF job[p].running /\ job[p].verb = "evaluate"
                   THEN Return(p, "already")
                   ELSE Local(p, IF job[p].verb = "rebuild" THEN "stop" ELSE "record",
                              [job[p] EXCEPT !.build = b])
        PROVE CalmInv'
    <3>1. b \in pinned' BY <2>7 DEF Append
    <3>2. CASE job[p].running /\ job[p].verb = "evaluate" BY <2>5, <2>7, <3>2
    <3>3. CASE job[p].verb = "rebuild" BY <2>6, <2>7, <3>1, <3>3
    <3>4. CASE ~(job[p].running /\ job[p].verb = "evaluate") /\ job[p].verb # "rebuild"
      BY <2>6, <2>7, <3>1, <3>4
    <3>5. QED BY <3>2, <3>3, <3>4
  <2>8. ASSUME ~job[p].running, current # NoBuild, UNCHANGED pinned,
               Local(p, "record", [job[p] EXCEPT !.build = current]) PROVE CalmInv'
    BY <2>6, <2>8 DEF CalmInv, CurrentPinned
  <2>9. ASSUME NEW b \in pinned, ~job[p].running, UNCHANGED pinned,
               Local(p, "record", [job[p] EXCEPT !.build = b]) PROVE CalmInv'
    BY <2>6, <2>9
  <2>10. QED BY <1>2, <2>5, <2>7, <2>8, <2>9 DEF StartBuild
<1>3. CASE LaunchRecord(p)
  <2>1. CASE Return(p, "failed") /\ UNCHANGED runningBuild
    BY <1>3, <2>1, CalmReturn DEF LaunchRecord
  <2>2. CASE runningBuild' = job[p].build /\ Local(p, "handoff", job[p])
    <3>1. pc[p] = "record" /\ UNCHANGED <<pinned, current, launchJson>>
      BY <1>3 DEF LaunchRecord
    <3>2. NoneUp /\ job[p].build \in pinned BY <3>1, <1>k DEF Knows
    <3>3. UNCHANGED <<unit, sup, spec, vms>> BY <2>2 DEF Local, supVars
    <3>4. NoneUp' BY <3>2, <3>3 DEF NoneUp, Up
    <3>5. PICK j : j = job[p] OBVIOUS
    <3>6. Knows("handoff", j)' BY <2>2, <3>1, <3>2, <3>4, <3>5 DEF Knows, StopPath
    <3>7. /\ BootsRecorded' /\ CurrentPinned' /\ PinnedWhileUp' /\ ProvenanceWhileUp'
      BY <1>n, <3>1, <3>3, <3>4
         DEF CalmInv, BootsRecorded, CurrentPinned, PinnedWhileUp, ProvenanceWhileUp, NoneUp
    <3>8. QED BY <1>h, <2>2, <3>4, <3>5, <3>6, <3>7, CalmMove DEF Local, Goto
  <2>3. QED BY <1>3, <2>1, <2>2 DEF LaunchRecord
<1>4. CASE HandoffPrepare(p)
  <2>1. /\ pc[p] = "handoff" /\ UNCHANGED <<runningBuild, pinned, current>>
        /\ launchJson' = job[p].build /\ Local(p, "submit", job[p])
    BY <1>4 DEF HandoffPrepare
  <2>2. UNCHANGED <<unit, sup, spec, vms>> BY <2>1 DEF Local, supVars
  <2>3. NoneUp' <=> NoneUp BY <2>2 DEF NoneUp, Up
  <2>4. PICK j : j = job[p] OBVIOUS
  <2>5. Knows("submit", j)' BY <2>1, <2>4, <1>k DEF Knows, StopPath
  <2>6. BootsRecorded' /\ CurrentPinned' /\ PinnedWhileUp' /\ ProvenanceWhileUp'
    BY <2>1, <2>2
       DEF CalmInv, BootsRecorded, CurrentPinned, PinnedWhileUp, ProvenanceWhileUp, Up
  <2>7. QED BY <1>h, <2>1, <2>3, <2>4, <2>5, <2>6, CalmMove DEF Local, Goto
<1>5. CASE PruneDecide(p)
  <2>0. UNCHANGED <<runningBuild, pinned, current, launchJson>> BY <1>5 DEF PruneDecide
  <2>1. PICK u \in UnitReadings, rows \in SUBSET (pinned \ {current}) :
           IF ~Resting(u) /\ runningBuild \in rows
           THEN Return(p, "failed")
           ELSE Local(p, "unlink", [job[p] EXCEPT !.rows = rows])
    BY <1>5 DEF PruneDecide
  <2>2. CASE ~Resting(u) /\ runningBuild \in rows BY <2>0, <2>1, <2>2, CalmReturn
  <2>3. CASE Resting(u) \/ runningBuild \notin rows
    <3>1. PICK j : j = [job[p] EXCEPT !.rows = rows] OBVIOUS
    <3>2. j.rows = rows BY <3>1, <1>r DEF Job
    <3>3. Knows("unlink", j) BY <3>2, <2>3, <1>d DEF Knows, StopPath
    <3>4. QED BY <2>0, <2>1, <2>3, <3>1, <3>3, CalmLocal
  <2>4. QED BY <2>2, <2>3
<1>6. CASE PruneUnlink(p)
  <2>1. /\ pc[p] = "unlink" /\ pinned' = pinned \ job[p].rows /\ Return(p, "ok")
        /\ UNCHANGED <<runningBuild, current, launchJson>>
    BY <1>6 DEF PruneUnlink
  <2>2. UNCHANGED <<unit, sup, spec, vms>> BY <2>1 DEF Return
  <2>3. NoneUp' <=> NoneUp BY <2>2 DEF NoneUp, Up
  <2>4. PICK j : j = NoJob OBVIOUS
  <2>5. Knows("idle", j)' BY <2>4 DEF Knows, NoJob, StopPath
  <2>6. current \notin job[p].rows /\ (NoneUp \/ runningBuild \notin job[p].rows)
    BY <2>1, <1>k DEF Knows
  <2>7. BootsRecorded' /\ CurrentPinned' /\ ProvenanceWhileUp'
    BY <1>n, <2>1, <2>2, <2>6
       DEF CalmInv, BootsRecorded, CurrentPinned, ProvenanceWhileUp, Up
  <2>8. PinnedWhileUp'
    BY <2>1, <2>2, <2>6 DEF CalmInv, PinnedWhileUp, ProvenanceWhileUp, NoneUp, Up
  <2>9. QED BY <1>h, <2>1, <2>3, <2>4, <2>5, <2>7, <2>8, CalmMove DEF Return
<1>7. CASE Reuse(p)
  <2>0. pc[p] = "reuse" /\ UNCHANGED <<runningBuild, pinned, current, launchJson>>
    BY <1>7 DEF Reuse
  <2>1. job[p].verb = "exec" BY <2>0, <1>r DEF Fits
  <2>2. ASSUME NEW r, Return(p, r) PROVE CalmInv' BY <2>0, <2>2, CalmReturn
  <2>3. ASSUME NEW u \in UnitReadings, Presence(u) = "dead", NEW l \in {"build", "stop"},
               Local(p, l, job[p]) PROVE CalmInv'
    <3>1. Knows(l, job[p]) BY <2>1, <2>3, <1>d DEF Knows, StopPath
    <3>2. QED BY <2>0, <2>3, <3>1, CalmLocal
  <2>4. CASE Local(p, "wait", job[p])
    <3>1. Knows("wait", job[p]) BY <2>1 DEF Knows, StopPath
    <3>2. QED BY <2>0, <2>4, <3>1, CalmLocal
  <2>5. QED BY <1>7, <2>2, <2>3, <2>4 DEF Reuse
<1>8. CASE ShedStale(p)
  <2>0. /\ pc[p] = "shed" /\ UNCHANGED <<runningBuild, pinned, current, launchJson>>
        /\ Local(p, "build", job[p])
    BY <1>8 DEF ShedStale
  <2>1. job[p].verb = "exec" BY <2>0, <1>r DEF Fits
  <2>2. Knows("build", job[p]) BY <2>0, <2>1, <1>k DEF Knows, StopPath
  <2>3. QED BY <2>0, <2>2, CalmLocal
<1>9. QED BY <1>1, <1>2, <1>3, <1>4, <1>5, <1>6, <1>7, <1>8
\* The steps of the launcher, of the ladder and of destroy.
LEMMA CalmLadder ==
    ASSUME Answered, LockInv, CalmInv, NEW p \in Procs,
           \/ AwaitAccept(p) \/ ReadReport(p) \/ ReuseWait(p) \/ ReadBootRecord(p)
           \/ StopTriage(p) \/ LadderAsk(p) \/ LadderAcked(p) \/ StopPoll(p) \/ StopReap(p)
           \/ ConfirmTeardown(p) \/ DestroyDecide(p) \/ DestroyRecheck(p)
    PROVE  CalmInv'
<1> USE DEF dirVars, rootVars
<1>r. /\ StateOK /\ job[p] \in Job /\ job[p].verb \in Verbs /\ Fits(pc[p], job[p].verb)
  BY Reads
<1>k. Knows(pc[p], job[p]) BY DEF CalmInv, Informed
<1>u. UNCHANGED <<runningBuild, pinned, current, launchJson>>
  BY DEF AwaitAccept, ReadReport, ReuseWait, ReadBootRecord, StopTriage, LadderAsk,
     LadderAcked, StopPoll, StopReap, ConfirmTeardown, DestroyDecide, DestroyRecheck
<1>m. ~Flaky BY DEF Answered
<1>e. ASSUME NEW r, Return(p, r) PROVE CalmInv' BY <1>e, <1>u, CalmReturn
<1>1. CASE AwaitAccept(p)
  <2>1. CASE Local(p, "read", job[p])
    <3>1. Knows("read", job[p]) BY <1>1, <1>k DEF AwaitAccept, Knows, StopPath
    <3>2. QED BY <1>u, <2>1, <3>1, CalmLocal
  <2>2. QED BY <1>1, <1>e, <2>1 DEF AwaitAccept
<1>2. CASE ReadReport(p)
  <2>1. CASE Local(p, "bootrecord", job[p])
    <3>1. Knows("bootrecord", job[p]) BY DEF Knows, StopPath
    <3>2. QED BY <1>u, <2>1, <3>1, CalmLocal
  <2>2. QED BY <1>2, <1>e, <2>1 DEF ReadReport
<1>3. CASE ReuseWait(p) \/ ReadBootRecord(p) \/ ConfirmTeardown(p)
  BY <1>3, <1>e DEF ReuseWait, ReadBootRecord, ConfirmTeardown
<1>4. CASE StopTriage(p)
  <2>1. ASSUME NEW b \in BOOLEAN,
               Local(p, "ask", [job[p] EXCEPT !.vm = LiveVm, !.running = unit # "absent",
                                              !.patient = b])
        PROVE  CalmInv'
    <3>1. PICK j : j = [job[p] EXCEPT !.vm = LiveVm, !.running = unit # "absent", !.patient = b]
      OBVIOUS
    <3>2. j.verb = "stop" BY <1>4, <1>r, <3>1 DEF StopTriage, Fits, Job
    <3>3. Knows("ask", j) BY <3>2 DEF Knows, StopPath
    <3>4. QED BY <1>u, <2>1, <3>1, <3>3, CalmLocal
  <2>2. QED BY <1>4, <1>e, <2>1, TargetAssumption DEF StopTriage
<1>5. ASSUME pc[p] \in StopPath, NEW l \in StopPath, Local(p, l, job[p]) PROVE CalmInv'
  <2>1. Knows(l, job[p]) BY <1>5, <1>k DEF Knows, StopPath
  <2>2. QED BY <1>u, <1>5, <2>1, CalmLocal
<1>6. ASSUME pc[p] \in StopPath, unit = "absent", Local(p, AfterStop(p), job[p])
      PROVE CalmInv'
  <2>1. NoneUp BY <1>6 DEF NoneUp, Up
  <2>2. AfterStop(p) \in {"record", "shed", "recheck", "confirm"} BY DEF AfterStop
  <2>3. AfterStop(p) = "record" => job[p].verb = "rebuild"
    <3>1. job[p].verb # "rebuild" => AfterStop(p) # "record" BY DEF AfterStop
    <3>2. QED BY <3>1
  <2>4. Knows(AfterStop(p), job[p]) BY <1>6, <1>k, <2>1, <2>2, <2>3 DEF Knows, StopPath
  <2>5. QED BY <1>u, <1>6, <2>4, CalmLocal
<1>7. CASE LadderAsk(p) BY <1>5, <1>7 DEF LadderAsk, StopPath
<1>8. CASE LadderAcked(p)
  <2>1. PICK u \in UnitReadings :
           Local(p, IF ReadsStopped(u) THEN AfterStop(p) ELSE "stop", job[p])
    BY <1>8 DEF LadderAcked
  <2>2. pc[p] \in StopPath BY <1>8 DEF LadderAcked, StopPath
  <2>3. CASE ReadsStopped(u) BY <1>6, <1>m, <1>r, <2>1, <2>2, <2>3, ReadsTheUnit
  <2>4. CASE ~ReadsStopped(u) BY <1>5, <2>1, <2>2, <2>4 DEF StopPath
  <2>5. QED BY <2>3, <2>4
<1>9. CASE StopPoll(p)
  <2>1. PICK u \in UnitReadings :
           Local(p, IF ReadsStopped(u) THEN AfterStop(p) ELSE "kill", job[p])
    BY <1>9 DEF StopPoll
  <2>2. pc[p] \in StopPath BY <1>9 DEF StopPoll, StopPath
  <2>3. CASE ReadsStopped(u) BY <1>6, <1>m, <1>r, <2>1, <2>2, <2>3, ReadsTheUnit
  <2>4. CASE ~ReadsStopped(u) BY <1>5, <2>1, <2>2, <2>4 DEF StopPath
  <2>5. QED BY <2>3, <2>4
<1>10. CASE StopReap(p)
  <2>1. PICK u \in UnitReadings :
           IF ReadsStopped(u) THEN Local(p, AfterStop(p), job[p]) ELSE Return(p, "failed")
    BY <1>10 DEF StopReap
  <2>2. pc[p] \in StopPath BY <1>10 DEF StopReap, StopPath
  <2>3. CASE ReadsStopped(u) BY <1>6, <1>m, <1>r, <2>1, <2>2, <2>3, ReadsTheUnit
  <2>4. CASE ~ReadsStopped(u) BY <1>e, <2>1, <2>4
  <2>5. QED BY <2>3, <2>4
<1>11. CASE DestroyDecide(p)
  <2>0. pc[p] = "destroy" /\ job[p].verb = "destroy" BY <1>11, <1>r DEF DestroyDecide, Fits
  <2>h. lock = p BY <2>0, HoldsLock DEF StopPath
  <2>1. PICK j : j = [job[p] EXCEPT !.vm = LiveVm] OBVIOUS
  <2>2. j.verb = "destroy" BY <2>0, <2>1, <1>r DEF Job
  <2>3. PICK u \in UnitReadings : Local(p, IF Resting(u) THEN "remove" ELSE "ask", j)
    BY <1>11, <2>1 DEF DestroyDecide
  <2>4. Resting(u) => NoneUp BY <2>0, <2>h, DeadIsDown DEF NoneUp, Waiting
  <2>5. Knows(IF Resting(u) THEN "remove" ELSE "ask", j)
    BY <2>2, <2>4 DEF Knows, StopPath
  <2>6. QED BY <1>u, <2>3, <2>5, CalmLocal
<1>12. CASE DestroyRecheck(p)
  <2>0. pc[p] = "recheck" /\ job[p].verb = "destroy" BY <1>12, <1>r DEF DestroyRecheck, Fits
  <2>h. lock = p BY <2>0, HoldsLock DEF StopPath
  <2>1. ASSUME NEW u \in UnitReadings, Presence(u) = "dead", Local(p, "remove", job[p])
        PROVE CalmInv'
    <3>1. NoneUp BY <2>0, <2>h, <2>1, DeadIsDown DEF NoneUp, Waiting
    <3>2. Knows("remove", job[p]) BY <3>1, <2>0 DEF Knows, StopPath
    <3>3. QED BY <1>u, <2>1, <3>2, CalmLocal
  <2>2. QED BY <1>12, <1>e, <2>1 DEF DestroyRecheck
<1>13. QED
  BY <1>1, <1>2, <1>3, <1>4, <1>7, <1>8, <1>9, <1>10, <1>11, <1>12

\* The steps that change the unit, and the two that remove files.
LEMMA CalmUnit ==
    ASSUME Answered, LockInv, CalmInv, NEW p \in Procs,
           \/ HandoffSubmit(p) \/ StopUnit(p) \/ StopKill(p)
           \/ DestroyRemove(p) \/ DestroyClear(p)
    PROVE  CalmInv'
<1> USE DEF dirVars, rootVars
<1>r. /\ StateOK /\ job[p] \in Job /\ job[p].verb \in Verbs /\ Fits(pc[p], job[p].verb)
  BY Reads
<1>k. Knows(pc[p], job[p]) BY DEF CalmInv, Informed
<1>m. ~Flaky BY DEF Answered
<1>1. ASSUME NEW l \in {"await", "poll", "reap"}, pc' = [pc EXCEPT ![p] = l], job' = job,
             UNCHANGED <<runningBuild, pinned, current, launchJson, spec>>,
             vms' \subseteq vms, unit' # "active", sup' = "boot" => sup = "boot",
             l = "await" => pc[p] = "submit", l # "await" => pc[p] \in StopPath
      PROVE  CalmInv'
  <2>1. NoneUp' BY <1>1 DEF NoneUp, Up
  <2>2. PICK j : j = job[p] OBVIOUS
  <2>3. job' = [job EXCEPT ![p] = j] BY <1>1, <1>r, <2>2 DEF StateOK
  <2>4. Knows(l, j)' BY <1>1, <1>k, <2>1, <2>2 DEF Knows, StopPath
  <2>5. BootsRecorded' /\ CurrentPinned' /\ PinnedWhileUp' /\ ProvenanceWhileUp'
    BY <1>1 DEF CalmInv, BootsRecorded, CurrentPinned, PinnedWhileUp, ProvenanceWhileUp, Up
  <2>6. QED BY <1>1, <2>1, <2>3, <2>4, <2>5, CalmMove
<1>2. CASE HandoffSubmit(p)
  BY <1>1, <1>2, CalmReturn DEF HandoffSubmit, Goto
<1>3. CASE StopUnit(p)
  <2>1. CASE unit = "absent" /\ Local(p, AfterStop(p), job[p])
    <3>1. NoneUp BY <2>1 DEF NoneUp, Up
    <3>2. AfterStop(p) \in {"record", "shed", "recheck", "confirm"} BY DEF AfterStop
    <3>3. AfterStop(p) = "record" => job[p].verb = "rebuild"
      <4>1. job[p].verb # "rebuild" => AfterStop(p) # "record" BY DEF AfterStop
      <4>2. QED BY <4>1
    <3>4. Knows(AfterStop(p), job[p])
      BY <1>3, <1>k, <3>1, <3>2, <3>3 DEF StopUnit, Knows, StopPath
    <3>5. QED BY <1>3, <2>1, <3>4, CalmLocal DEF StopUnit
  <2>2. CASE /\ unit # "absent" /\ unit' = "deactivating" /\ Goto(p, "poll")
             /\ sup' \in {sup, "none"} /\ UNCHANGED <<job, spec, vms>>
    BY <1>1, <1>3, <2>2 DEF StopUnit, Goto, StopPath
  <2>3. QED BY <1>3, <1>m, <2>1, <2>2 DEF StopUnit
<1>4. CASE StopKill(p)
  BY <1>1, <1>4, CalmReturn DEF StopKill, Goto, StopPath
<1>5. CASE DestroyRemove(p)
  <2>0. /\ pc[p] = "remove" /\ pinned' = {} /\ current' = NoBuild
        /\ Local(p, "clear", job[p])
    BY <1>5 DEF DestroyRemove
  <2>h. lock = p BY <2>0, HoldsLock DEF StopPath
  <2>n. sup # "boot" BY <2>0, <2>h, NoBootUnderLock DEF Waiting
  <2>1. UNCHANGED <<unit, sup, spec, vms>> BY <2>0 DEF Local, supVars
  <2>2. NoneUp' BY <2>0, <2>1, <1>k DEF Knows, NoneUp, Up
  <2>3. PICK j : j = job[p] OBVIOUS
  <2>4. j.verb = "destroy" BY <2>0, <2>3, <1>r DEF Fits
  <2>5. Knows("clear", j)' BY <2>2, <2>4 DEF Knows, StopPath
  <2>6. BootsRecorded' /\ CurrentPinned' /\ PinnedWhileUp' /\ ProvenanceWhileUp'
    BY <2>0, <2>1, <2>2, <2>n
       DEF BootsRecorded, CurrentPinned, PinnedWhileUp, ProvenanceWhileUp, NoneUp
  <2>7. QED BY <2>0, <2>h, <2>2, <2>3, <2>5, <2>6, CalmMove DEF Local, Goto
<1>6. CASE DestroyClear(p)
  <2>0. /\ pc[p] = "clear" /\ UNCHANGED <<runningBuild, pinned, current>> /\ Return(p, "ok")
    BY <1>6 DEF DestroyClear
  <2>h. lock = p BY <2>0, HoldsLock DEF StopPath
  <2>1. UNCHANGED <<unit, sup, spec, vms>> BY <2>0 DEF Return
  <2>2. NoneUp' BY <2>0, <2>1, <1>k DEF Knows, NoneUp, Up
  <2>3. PICK j : j = NoJob OBVIOUS
  <2>4. Knows("idle", j)' BY <2>3 DEF Knows, NoJob, StopPath
  <2>5. BootsRecorded' /\ CurrentPinned' /\ PinnedWhileUp' /\ ProvenanceWhileUp'
    BY <2>0, <2>1
       DEF CalmInv, BootsRecorded, CurrentPinned, PinnedWhileUp, ProvenanceWhileUp, Up
  <2>6. QED BY <2>0, <2>h, <2>2, <2>3, <2>4, <2>5, CalmMove DEF Return
<1>7. QED BY <1>2, <1>3, <1>4, <1>5, <1>6
\* The steps of the unit, the supervisor and the VMM: only the spawn brings a
\* VM up, and it boots what the waiting launcher recorded and pinned.
LEMMA CalmSup ==
    ASSUME Answered, LockInv, CalmInv, SupStep \/ SupMonitor \/ VmExit
    PROVE  CalmInv'
<1> USE DEF procVars, dirVars, rootVars
<1>t. StateOK /\ Launcher /\ Group BY DEF LockInv, Kept, IInv
<1>p. UNCHANGED <<pc, job>> /\ UNCHANGED <<runningBuild, pinned, current>>
      /\ launchJson' \in {launchJson, NoBuild}
  BY DEF SupStep, UnitExec, SupConnect, SupSpawnVmm, SupWritePid, SupWriteBoot,
     SupAnswered, SupReady, SupFail, SupPrepareFail, SupReport, SupInstall, SupMonitor,
     SupShutdown, SupSweep, SupEnd, UnitReap, VmExit, EmptyDirectory
<1>c. CurrentPinned' BY <1>p DEF CalmInv, CurrentPinned
<1>1. ASSUME \A v \in vms' : Up(v)' => Up(v), BootsRecorded' PROVE CalmInv'
  <2>1. NoneUp => NoneUp' BY <1>1 DEF NoneUp, Up
  <2>2. PinnedWhileUp' /\ ProvenanceWhileUp'
    BY <1>p, <1>1 DEF CalmInv, PinnedWhileUp, ProvenanceWhileUp, Up
  <2>3. Informed' BY <1>p, <2>1 DEF CalmInv, Informed, Knows
  <2>4. QED BY <1>c, <1>1, <2>2, <2>3 DEF CalmInv
<1>2. CASE SupConnect
  <2>1. \A v \in vms' : ~Up(v)' BY <1>2 DEF SupConnect, SupExit, Up
  <2>2. BootsRecorded'
    <3>1. SUFFICES ASSUME sup' = "boot" PROVE spec' = runningBuild' /\ spec' \in pinned'
      BY DEF BootsRecorded
    <3>2. PICK p \in Procs : pc[p] \in {"submit", "await"} /\ launchJson # NoBuild
                             /\ spec' = launchJson
      BY <1>2, <3>1 DEF SupConnect, SupExit
    <3>3. Knows(pc[p], job[p]) BY DEF CalmInv, Informed
    <3>4. lock = p /\ pc[p] = "await"
      BY <1>2, <1>t, <3>2, HoldsLock DEF SupConnect, Launcher, StopPath
    <3>5. QED BY <1>p, <3>2, <3>3, <3>4 DEF Knows
  <2>3. QED BY <1>1, <2>1, <2>2
<1>3. CASE SupSpawnVmm
  <2>0. /\ sup = "boot" /\ sup' = "vmm" /\ launchJson' = launchJson
        /\ vms' = vms \cup {[id |-> boots + 1, build |-> spec]}
    BY <1>3 DEF SupSpawnVmm
  <2>1. vms = {} BY <2>0 DEF LockInv, IInv, FreshSupervisor
  <2>2. \A v \in vms' : v.build = runningBuild' /\ v.build \in pinned'
    BY <2>0, <2>1, <1>p DEF CalmInv, BootsRecorded
  <2>3. BootsRecorded' BY <2>0 DEF BootsRecorded
  <2>4. PinnedWhileUp' /\ ProvenanceWhileUp'
    BY <2>2 DEF PinnedWhileUp, ProvenanceWhileUp
  <2>5. ASSUME NEW q \in Procs PROVE Knows(pc[q], job[q])'
    <3>1. CASE lock # q BY <1>p, <3>1, StillKnows DEF CalmInv
    <3>2. CASE lock = q
      <4>1. pc[q] \in {"await", "read"}
        BY <2>0, <1>t, <3>2 DEF Launcher, Waiting
      <4>2. Knows(pc[q], job[q]) BY DEF CalmInv, Informed
      <4>3. QED BY <1>p, <2>0, <4>1, <4>2 DEF Knows, StopPath
    <3>3. QED BY <3>1, <3>2
  <2>6. QED BY <1>c, <2>3, <2>4, <2>5 DEF CalmInv, Informed
<1>4. CASE UnitExec BY <1>1, <1>4 DEF UnitExec, Up, BootsRecorded
<1>5. CASE SupWritePid \/ SupWriteBoot
  BY <1>1, <1>5 DEF SupWritePid, SupWriteBoot, Up, BootsRecorded
<1>6. CASE SupAnswered \/ SupReady \/ SupInstall
  BY <1>1, <1>6 DEF SupAnswered, SupReady, SupInstall, Up, BootsRecorded
<1>7. CASE SupFail \/ SupPrepareFail \/ SupMonitor
  BY <1>1, <1>7 DEF SupFail, SupPrepareFail, SupMonitor, Up, BootsRecorded
<1>8. CASE SupShutdown BY <1>1, <1>8 DEF SupShutdown, Up, BootsRecorded
<1>9. CASE SupSweep \/ SupEnd
  BY <1>1, <1>9 DEF SupSweep, SupEnd, SupExit, Up, BootsRecorded
<1>10. CASE UnitReap BY <1>1, <1>10 DEF UnitReap, Up, BootsRecorded
<1>11. CASE VmExit
  <2>1. vms' \subseteq vms /\ UNCHANGED <<unit, sup, spec>> BY <1>11 DEF VmExit
  <2>2. BootsRecorded' BY <1>p, <2>1 DEF CalmInv, BootsRecorded
  <2>3. \A v \in vms' : Up(v)' => Up(v) BY <2>1 DEF Up
  <2>4. QED BY <1>1, <2>2, <2>3
<1>12. CASE SupReport
  <2>1. UNCHANGED <<unit, sup, spec, vms>> BY <1>12, <1>t DEF SupReport, Launcher
  <2>2. BootsRecorded' BY <1>p, <2>1 DEF CalmInv, BootsRecorded
  <2>3. \A v \in vms' : Up(v)' => Up(v) BY <2>1 DEF Up
  <2>4. QED BY <1>1, <2>2, <2>3
<1>13. QED
  BY <1>2, <1>3, <1>4, <1>5, <1>6, <1>7, <1>8, <1>9, <1>10, <1>11, <1>12 DEF SupStep

\* The initial state knows nothing and has no VM.
LEMMA InitCalmInv == Init => CalmInv
BY DEF Init, CalmInv, BootsRecorded, CurrentPinned, PinnedWhileUp, ProvenanceWhileUp,
   Informed, Knows, StopPath

\* Every step under a manager that answers keeps what the verbs know.
LEMMA NextCalmInv ==
    ASSUME Answered PROVE LockInv /\ CalmInv /\ [Next]_vars => CalmInv'
<1> SUFFICES ASSUME LockInv, CalmInv, [Next]_vars PROVE CalmInv'
  OBVIOUS
<1>t. StateOK BY DEF LockInv, IInv
<1>1. ASSUME NEW p \in Procs, ProcStep(p) PROVE CalmInv'
  BY <1>1, CalmStart, CalmLadder, CalmUnit DEF ProcStep
<1>2. ASSUME NEW p \in Procs, NEW verb \in Verbs, Begin(p, verb) PROVE CalmInv'
  <2>0. /\ pc[p] = "idle"
        /\ UNCHANGED <<unit, sup, spec, vms, runningBuild, pinned, current, launchJson>>
    BY <1>2 DEF Begin, supVars, dirVars, rootVars
  <2>1. PICK j : j = [NoJob EXCEPT !.verb = verb] OBVIOUS
  <2>2. PICK l : l \in {"idle", "triage", "reuse", "prune", "destroy", "decide"}
                 /\ pc' = [pc EXCEPT ![p] = l]
    <3>1. FirstLabel(verb) \in {"triage", "reuse", "prune", "destroy", "decide"}
      BY DEF FirstLabel
    <3>2. pc = [pc EXCEPT ![p] = "idle"] BY <1>t, <2>0 DEF StateOK
    <3>3. QED BY <1>2, <3>1, <3>2 DEF Begin, Goto
  <2>3. Knows(l, j)' BY <2>2 DEF Knows, StopPath
  <2>4. NoneUp' <=> NoneUp BY <2>0 DEF NoneUp, Up
  <2>5. BootsRecorded' /\ CurrentPinned' /\ PinnedWhileUp' /\ ProvenanceWhileUp'
    BY <2>0
       DEF CalmInv, BootsRecorded, CurrentPinned, PinnedWhileUp, ProvenanceWhileUp, Up
  <2>6. job' = [job EXCEPT ![p] = j] BY <1>2, <2>1 DEF Begin
  <2>7. QED BY <2>0, <2>2, <2>3, <2>4, <2>5, <2>6, CalmMove
<1>3. ASSUME NEW p \in Procs, NEW b \in Builds, Activate(p, b) PROVE CalmInv'
  <2>0. /\ lock = NoProc /\ b \in pinned /\ current' = b
        /\ UNCHANGED <<pc, job, unit, sup, spec, vms, runningBuild, pinned, launchJson>>
    BY <1>3 DEF Activate, supVars, dirVars
  <2>1. \A q \in Procs : Knows(pc[q], job[q])'
    BY <2>0, TargetAssumption, StillKnows DEF CalmInv
  <2>2. BootsRecorded' /\ CurrentPinned' /\ PinnedWhileUp' /\ ProvenanceWhileUp'
    BY <2>0
       DEF CalmInv, BootsRecorded, CurrentPinned, PinnedWhileUp, ProvenanceWhileUp, Up
  <2>3. QED BY <2>1, <2>2 DEF CalmInv, Informed
<1>4. CASE SupStep \/ SupMonitor \/ VmExit BY <1>4, CalmSup
<1>5. CASE UNCHANGED vars
  BY <1>5 DEF vars, procVars, supVars, dirVars, rootVars, CalmInv, BootsRecorded,
     CurrentPinned, PinnedWhileUp, ProvenanceWhileUp, Up, Informed, Knows, NoneUp
<1>6. ~SupKilled /\ \A p \in Procs : ~Interrupt(p)
  BY DEF Answered, Undisturbed, SupKilled, Interrupt
<1>7. QED BY <1>1, <1>2, <1>3, <1>4, <1>5, <1>6 DEF Next, Step

\* What the verbs know under a manager that answers, whatever the manager is.
CalmLedger == ~Flaky => CalmInv

\* The manager stays what it is, and so does what a calm one lets the verbs know.
LEMMA NextCalmLedger ==
    ASSUME Undisturbed PROVE LockInv /\ CalmLedger /\ [Next]_vars => CalmLedger'
<1> SUFFICES ASSUME LockInv, CalmLedger, [Next]_vars, ~Flaky' PROVE CalmInv'
  BY DEF CalmLedger
<1>1. ~Flaky BY DEF Flaky, Next, vars
<1>2. Answered /\ CalmInv BY <1>1 DEF Answered, CalmLedger
<1>3. QED BY <1>2, NextCalmInv

\* With a manager that answers, the generation a VM was booted from keeps its
\* root while the VM is up, for any number of processes, builds and verbs.
THEOREM RunningBuildIsPinned == Undisturbed /\ Spec => []CalmPinned
<1> SUFFICES ASSUME Undisturbed PROVE Spec => []CalmPinned
  OBVIOUS
<1>1. LockInv /\ [Next]_vars => LockInv' BY NextLockInv
<1>2. Init => CalmLedger BY InitCalmInv DEF CalmLedger
<1>3. LockInv /\ CalmLedger => CalmPinned BY DEF CalmLedger, CalmInv, CalmPinned, Flaky
<1>4. QED BY <1>1, <1>2, <1>3, InitLockInv, NextCalmLedger, PTL DEF Spec

\* With a manager that answers, running-build names the build of the VM that
\* is up: no start, rebuild or destroy beside it writes another name.
THEOREM RunningBuildIsNamed == Undisturbed /\ Spec => []CalmProvenance
<1> SUFFICES ASSUME Undisturbed PROVE Spec => []CalmProvenance
  OBVIOUS
<1>1. LockInv /\ [Next]_vars => LockInv' BY NextLockInv
<1>2. Init => CalmLedger BY InitCalmInv DEF CalmLedger
<1>3. LockInv /\ CalmLedger => CalmProvenance BY DEF CalmLedger, CalmInv, CalmProvenance, Flaky
<1>4. QED BY <1>1, <1>2, <1>3, InitLockInv, NextCalmLedger, PTL DEF Spec
=============================================================================
