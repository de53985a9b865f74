------------------------------- MODULE Target -------------------------------
(***************************************************************************)
(* One target of one sandbox: the `viv` invocations that start, enter,     *)
(* stop, prune and destroy it, the per-target flock, the transient systemd *)
(* user unit, the supervisor that unit runs, the VMM process the           *)
(* supervisor spawns, and the files they share (the records of the runtime *)
(* directory, running-build, and the generation roots of the state root).  *)
(*                                                                         *)
(* Builds are model values.  A VMM is a record of the build it was booted  *)
(* from and of its incarnation number, which stands for its pid.           *)
(***************************************************************************)
EXTENDS Naturals, FiniteSets

CONSTANTS
    Procs,          \* viv processes that may run at the same time
    NoProc,
    Builds,         \* store paths a build can produce
    NoBuild,
    MaxVerbs,       \* bound: invocations in one behaviour
    Interruptible,  \* may a viv process be killed (Ctrl-C, SIGKILL) midway?
    Managers,       \* what the user manager may be like: "calm", "flaky"
    ManagerSlow,    \* may a queued unit outlast the launcher's 30 s accept?
    ReapFails,      \* may polling, killing or reaping a child fail?
    NoDeadline      \* may a stop be told to wait without limit?

ASSUME TargetAssumption ==
    /\ NoProc \notin Procs
    /\ NoBuild \notin Builds
    /\ MaxVerbs \in Nat
    /\ Interruptible \in BOOLEAN
    /\ Managers \subseteq {"calm", "flaky"}
    /\ ManagerSlow \in BOOLEAN
    /\ ReapFails \in BOOLEAN
    /\ NoDeadline \in BOOLEAN

VARIABLES
    manager,    \* "flaky": one `systemctl --user` call may go unanswered
    lock,       \* holder of the flock on the runtime directory's `lock`
    pc, job,    \* per process: where it is, and the verb's own values
    result,     \* per process: how its last verb ended
    verbs,      \* invocations so far
    unit,       \* ActiveState of the transient unit ("absent": collected)
    sup,        \* where the supervisor is
    spec,       \* build of the launch specification it read
    conn,       \* launcher at the other end of the handoff connection
    mail,       \* the outcome of the launch, on its way to the main task
    report,     \* what that connection carries
    vms, boots, \* live VMMs, and how many were ever spawned
    launchJson, readySock, vmPid, bootJson, ctlSock,  \* runtime directory
    runningBuild, pinned, current                     \* state root

procVars == <<lock, pc, job, result, verbs>>
supVars  == <<unit, sup, spec, conn, mail, report, vms, boots>>
dirVars  == <<launchJson, readySock, vmPid, bootJson, ctlSock>>
rootVars == <<runningBuild, pinned, current>>
vars     == <<manager, procVars, supVars, dirVars, rootVars>>

Verbs == {"evaluate", "rebuild", "norebuild", "generation", "exec", "stop",
          "prune", "destroy"}
Labels == {"idle", "decide", "build", "reuse", "wait", "shed", "record",
           "handoff", "submit", "await", "read", "bootrecord", "triage", "ask",
           "acked", "stop", "poll", "kill", "reap", "confirm", "prune",
           "unlink", "destroy", "recheck", "remove", "clear"}
Results == {"none", "ok", "noop", "already", "contended", "failed"}
SupStates == {"none", "connect", "boot", "vmm", "pid", "guest", "answered", "ready",
              "monitor", "shutdown", "sweep", "end", "abort", "abortsweep", "abortend"}

VM == [id : Nat, build : Builds]
Job == [verb : Verbs, build : Builds \cup {NoBuild}, running : BOOLEAN,
        rows : SUBSET Builds, vm : Nat, patient : BOOLEAN]
NoJob == [verb |-> "stop", build |-> NoBuild, running |-> FALSE,
          rows |-> {}, vm |-> 0, patient |-> FALSE]

StateOK ==
    /\ lock \in Procs \cup {NoProc}
    /\ pc \in [Procs -> Labels]
    /\ job \in [Procs -> Job]
    /\ result \in [Procs -> Results]
    /\ verbs \in Nat
    /\ unit \in {"absent", "activating", "active", "deactivating"}
    /\ sup \in SupStates
    /\ conn \in Procs \cup {NoProc}
    /\ spec \in Builds \cup {NoBuild}
    /\ mail \in {"empty", "ready", "failed"}
    /\ report \in {"none", "ready", "failed", "eof"}
    /\ vms \in SUBSET VM
    /\ boots \in Nat
    /\ launchJson \in Builds \cup {NoBuild}
    /\ readySock \in Procs \cup {NoProc}
    /\ vmPid \in Nat /\ bootJson \in Nat /\ ctlSock \in Nat
    /\ runningBuild \in Builds \cup {NoBuild}
    /\ pinned \in SUBSET Builds
    /\ current \in Builds \cup {NoBuild}

TypeOK == manager \in Managers /\ StateOK

Init ==
    /\ manager \in Managers
    /\ lock = NoProc
    /\ pc = [p \in Procs |-> "idle"]
    /\ job = [p \in Procs |-> NoJob]
    /\ result = [p \in Procs |-> "none"]
    /\ verbs = 0
    /\ unit = "absent" /\ sup = "none" /\ spec = NoBuild
    /\ conn = NoProc /\ mail = "empty" /\ report = "none"
    /\ vms = {} /\ boots = 0
    /\ launchJson = NoBuild /\ readySock = NoProc
    /\ vmPid = 0 /\ bootJson = 0 /\ ctlSock = 0
    /\ runningBuild = NoBuild /\ pinned = {} /\ current = NoBuild

-----------------------------------------------------------------------------
(* What a process can read of the VM.                                      *)

Alive(id) == \E v \in vms : v.id = id

Flaky == manager = "flaky"

\* unit_active_state: what one `systemctl show` answers.  A collected unit
\* reads "inactive"; "none" is a question that could not be put.
UnitReadings ==
    {IF unit = "absent" THEN "inactive" ELSE unit}
        \cup (IF Flaky THEN {"none"} ELSE {})

HasRecords == bootJson # 0 \/ vmPid # 0

\* classify
Classify(records, build, alive, u) ==
    CASE u = "activating"                       -> "starting"
      [] u = "deactivating"                     -> "stopping"
      [] OTHER ->
         CASE ~records /\ build                 -> "built"
           [] ~records /\ ~build                -> "absent"
           [] records /\ alive /\ u = "active"  -> "running"
           [] OTHER                             -> "failed"

\* discriminate
Discriminate(u) == Classify(HasRecords, current # NoBuild, Alive(vmPid), u)

Resting(u) == Discriminate(u) \in {"absent", "built"}

\* Mutant: a manager that cannot be asked is taken for one that disowns the VM.
PresenceTwoWay(u) ==
    IF (vmPid # 0 /\ ~Alive(vmPid)) \/ u \in {"inactive", "none"} THEN "dead" ELSE "live"

\* presence_of over recorded_pid_liveness and ownership_of
Presence(u) ==
    CASE vmPid # 0 /\ ~Alive(vmPid) -> "dead"
      [] u = "inactive"             -> "dead"
      [] u = "none"                 -> "indeterminate"
      [] OTHER                      -> "live"

\* The states stop_unit's and stop_ladder's polls read as a stopped unit.
ReadsStopped(u) == u \in {"none", "inactive"}

-----------------------------------------------------------------------------
(* Control of one process.                                                 *)

Goto(p, l) == pc' = [pc EXCEPT ![p] = l]

\* Leaving the verb drops TargetLock and closes the launcher's sockets.
Return(p, r) ==
    /\ pc' = [pc EXCEPT ![p] = "idle"]
    /\ result' = [result EXCEPT ![p] = r]
    /\ lock' = IF lock = p THEN NoProc ELSE lock
    /\ conn' = IF conn = p THEN NoProc ELSE conn
    /\ report' = IF conn = p THEN "none" ELSE report
    /\ job' = [job EXCEPT ![p] = NoJob]
    /\ UNCHANGED <<verbs, unit, sup, spec, mail, vms, boots>>

\* A step that only moves the program counter and the verb's own values.
Local(p, l, j) ==
    /\ Goto(p, l)
    /\ job' = [job EXCEPT ![p] = j]
    /\ UNCHANGED <<lock, result, verbs, supVars>>

\* The first label of each verb, and whether it runs under TargetLock.
FirstLabel(verb) ==
    CASE verb = "exec"    -> "reuse"
      [] verb = "stop"    -> "triage"
      [] verb = "prune"   -> "prune"
      [] verb = "destroy" -> "destroy"
      [] OTHER            -> "decide"

\* TargetLock::acquire: try_lock, never a wait.
Begin(p, verb) ==
    /\ pc[p] = "idle" /\ verbs < MaxVerbs
    /\ verbs' = verbs + 1
    /\ job' = [job EXCEPT ![p] = [NoJob EXCEPT !.verb = verb]]
    /\ \/ /\ verb = "stop"
          /\ Goto(p, FirstLabel(verb))
          /\ result' = [result EXCEPT ![p] = "none"]
          /\ UNCHANGED lock
       \/ /\ verb # "stop" /\ lock = NoProc
          /\ lock' = p
          /\ Goto(p, FirstLabel(verb))
          /\ result' = [result EXCEPT ![p] = "none"]
       \/ /\ verb # "stop" /\ lock # NoProc
          /\ result' = [result EXCEPT ![p] = "contended"]
          /\ UNCHANGED <<lock, pc>>
    /\ UNCHANGED <<supVars, dirVars, rootVars>>

\* A viv process killed midway: the kernel closes its descriptors, so the
\* flock is released and a handoff connection it held is closed.
Interrupt(p) ==
    /\ Interruptible /\ pc[p] # "idle"
    /\ Return(p, "failed")
    /\ UNCHANGED <<dirVars, rootVars>>

-----------------------------------------------------------------------------
(* viv start: perform_start.                                               *)

\* Mutant: start does not look for a running VM.
StartBlind(p) ==
    /\ pc[p] = "decide"
    /\ Local(p, "build", job[p])
    /\ UNCHANGED <<dirVars, rootVars>>

StartDecide(p) ==
    /\ pc[p] = "decide"
    /\ \E u \in UnitReadings :
          Local(p, "build", [job[p] EXCEPT !.running = Discriminate(u) = "running"])
    /\ UNCHANGED <<dirVars, rootVars>>

\* evaluate_and_build: an output the current generation does not pin is
\* appended as a new current generation.
Append(b) == pinned' = pinned \cup {b} /\ current' = b

StartBuild(p) ==
    /\ pc[p] = "build"
    /\ \/ /\ job[p].verb \in {"evaluate", "rebuild", "exec"}
          /\ \E b \in Builds :
                /\ Append(b)
                /\ IF job[p].running /\ job[p].verb = "evaluate"
                   THEN Return(p, "already")
                   ELSE Local(p, IF job[p].verb = "rebuild" THEN "stop" ELSE "record",
                              [job[p] EXCEPT !.build = b])
       \/ /\ job[p].verb = "norebuild" /\ job[p].running
          /\ Return(p, "already")
          /\ UNCHANGED <<pinned, current>>
       \/ /\ job[p].verb = "norebuild" /\ ~job[p].running /\ current # NoBuild
          /\ Local(p, "record", [job[p] EXCEPT !.build = current])
          /\ UNCHANGED <<pinned, current>>
       \/ /\ job[p].verb = "generation" /\ ~job[p].running
          /\ \E b \in pinned : Local(p, "record", [job[p] EXCEPT !.build = b])
          /\ UNCHANGED <<pinned, current>>
       \* the evaluation or the build failed, append stopped half way, or the
       \* volume record could not be written after it
       \/ /\ job[p].verb \in {"evaluate", "rebuild", "exec"}
          /\ \/ UNCHANGED <<pinned, current>>
             \/ \E b \in Builds : pinned' = pinned \cup {b} /\ current' \in {current, b}
          /\ Return(p, "failed")
       \* refused
       \/ /\ \/ job[p].verb = "generation"
             \/ job[p].verb = "norebuild" /\ ~job[p].running /\ current = NoBuild
          /\ Return(p, "failed")
          /\ UNCHANGED <<pinned, current>>
    /\ UNCHANGED <<dirVars, runningBuild>>

-----------------------------------------------------------------------------
(* launch: the record, the handoff, the wait.                              *)

\* require_current_contract, then write_build_record
LaunchRecord(p) ==
    /\ pc[p] = "record"
    /\ \/ /\ runningBuild' = job[p].build
          /\ Local(p, "handoff", job[p])
       \/ Return(p, "failed") /\ UNCHANGED runningBuild
    /\ UNCHANGED <<dirVars, pinned, current>>

\* handoff up to the bind of the readiness socket
HandoffPrepare(p) ==
    /\ pc[p] = "handoff"
    /\ launchJson' = job[p].build
    /\ readySock' = p
    /\ Local(p, "submit", job[p])
    /\ UNCHANGED <<vmPid, bootJson, ctlSock, rootVars>>

\* systemd-run --no-block: a loaded unit of that name is a rejection.
HandoffSubmit(p) ==
    /\ pc[p] = "submit"
    /\ \/ /\ unit = "absent"
          /\ unit' = "activating"
          /\ Goto(p, "await")
          /\ UNCHANGED <<lock, job, result, verbs, sup, spec, conn, mail, report, vms, boots>>
       \/ /\ unit # "absent" \/ Flaky
          /\ Return(p, "failed")
    /\ UNCHANGED <<dirVars, rootVars>>

\* Mutant: the accept has no timeout.
AwaitForever(p) ==
    /\ pc[p] = "await" /\ conn = p
    /\ Local(p, "read", job[p])
    /\ UNCHANGED <<dirVars, rootVars>>

\* await_readiness: the timeout covers the accept alone; the read that
\* follows waits for the supervisor's half-close however long it takes.
AwaitAccept(p) ==
    /\ pc[p] = "await"
    /\ \/ conn = p /\ Local(p, "read", job[p])
       \/ /\ conn # p
          /\ ManagerSlow \/ (unit # "activating" /\ sup # "connect")
          /\ Return(p, "failed")
    /\ UNCHANGED <<dirVars, rootVars>>

ReadReport(p) ==
    /\ pc[p] = "read" /\ report # "none"
    /\ \/ /\ report = "ready" /\ job[p].verb = "exec"
          /\ Local(p, "bootrecord", job[p])
       \/ /\ report = "ready" /\ job[p].verb # "exec"
          /\ Return(p, "ok")
       \/ /\ report \in {"failed", "eof"}
          /\ Return(p, "failed")
    /\ UNCHANGED <<dirVars, rootVars>>

-----------------------------------------------------------------------------
(* viv exec and viv shell: ensure_running.                                 *)

\* The guest agent can answer a handshake checked against boot.json.
AgentAnswers ==
    /\ bootJson # 0 /\ ctlSock = bootJson /\ Alive(bootJson)
    /\ sup \in {"guest", "answered", "ready", "monitor", "shutdown", "abort"}

\* reusable: nothing there boots cold, a dead VM's records are repaired, and
\* a live or undecided one that does not answer is never replaced.
Reuse(p) ==
    /\ pc[p] = "reuse"
    /\ \E u \in UnitReadings :
          \/ /\ ctlSock = 0 /\ Presence(u) = "dead"
             /\ Local(p, "build", job[p])
          \/ /\ ctlSock # 0 /\ Presence(u) = "dead"
             /\ Local(p, "stop", job[p])
          \/ /\ ctlSock # 0 /\ bootJson # 0 /\ Presence(u) = "live"
             /\ Local(p, "wait", job[p])
          \/ /\ Presence(u) # "dead"
             /\ Return(p, "failed")
          \/ /\ ctlSock # 0 /\ AgentAnswers
             /\ Return(p, "ok")
    /\ UNCHANGED <<dirVars, rootVars>>

\* The second, longer ping of a VM that may still be booting.
ReuseWait(p) ==
    /\ pc[p] = "wait"
    /\ \/ AgentAnswers /\ Return(p, "ok")
       \/ Return(p, "failed")
    /\ UNCHANGED <<dirVars, rootVars>>

\* stale, after its stop_unit: the two records discriminate reads go.
ShedStale(p) ==
    /\ pc[p] = "shed"
    /\ bootJson' = 0 /\ vmPid' = 0
    /\ Local(p, "build", job[p])
    /\ UNCHANGED <<launchJson, readySock, ctlSock, rootVars>>

ReadBootRecord(p) ==
    /\ pc[p] = "bootrecord"
    /\ Return(p, IF bootJson # 0 THEN "ok" ELSE "failed")
    /\ UNCHANGED <<dirVars, rootVars>>

-----------------------------------------------------------------------------
(* viv stop: triage, stop_ladder, stop_unit, confirm_teardown.  No lock.   *)

LiveVm == IF vms = {} THEN 0 ELSE (CHOOSE v \in vms : TRUE).id

\* job's vm and running remember, for the properties, what was really there;
\* patient is a grace_seconds of None, the --timeout -1 of the command line.
StopTriage(p) ==
    /\ pc[p] = "triage"
    /\ \E u \in UnitReadings, patient \in {FALSE, NoDeadline} :
          IF Resting(u)
          THEN Return(p, "noop")
          ELSE Local(p, "ask", [job[p] EXCEPT !.vm = LiveVm,
                                              !.running = unit # "absent",
                                              !.patient = patient])
    /\ UNCHANGED <<dirVars, rootVars>>

\* Where the caller of the ladder or of stop_unit goes on.
AfterStop(p) ==
    CASE job[p].verb = "rebuild" -> "record"
      [] job[p].verb = "exec"    -> "shed"
      [] job[p].verb = "destroy" -> "recheck"
      [] OTHER                   -> "confirm"

\* Rung one, skipped by --force and by every non-answer.
LadderAsk(p) ==
    /\ pc[p] = "ask"
    /\ \/ AgentAnswers /\ Local(p, "acked", job[p])
       \/ Local(p, "stop", job[p])
    /\ UNCHANGED <<dirVars, rootVars>>

\* A poll goes on to its next rung at its deadline, which a patient stop has not.
GoesOn(p, u) == ReadsStopped(u) \/ ~job[p].patient

\* The poll of an acknowledged ask; past its deadline the manager rungs follow.
LadderAcked(p) ==
    /\ pc[p] = "acked"
    /\ \E u \in UnitReadings :
          /\ GoesOn(p, u)
          /\ Local(p, IF ReadsStopped(u) THEN AfterStop(p) ELSE "stop", job[p])
    /\ UNCHANGED <<dirVars, rootVars>>

\* The supervisor handles SIGTERM only from monitor on.
SigtermFatal ==
    sup \in {"connect", "boot", "vmm", "pid", "guest", "answered", "ready",
            "abort", "abortsweep", "abortend"}

\* A supervisor that dies closes the handoff connection, and what its main
\* task had still to write on it is lost.
HangUp ==
    /\ report' = IF conn # NoProc /\ report = "none" THEN "eof" ELSE report
    /\ mail' = "empty"

\* systemctl stop --no-block under KillMode=mixed: SIGTERM to the main process
StopUnit(p) ==
    /\ pc[p] = "stop"
    /\ \/ /\ unit = "absent"
          /\ Local(p, AfterStop(p), job[p])
       \/ /\ unit # "absent"
          /\ unit' = "deactivating"
          /\ IF unit # "deactivating" /\ SigtermFatal
             THEN sup' = "none" /\ HangUp
             ELSE UNCHANGED <<sup, mail, report>>
          /\ Goto(p, "poll")
          /\ UNCHANGED <<lock, job, result, verbs, spec, conn, vms, boots>>
       \/ /\ Flaky
          /\ Return(p, "failed")
    /\ UNCHANGED <<dirVars, rootVars>>

StopPoll(p) ==
    /\ pc[p] = "poll"
    /\ \E u \in UnitReadings :
          /\ GoesOn(p, u)
          /\ Local(p, IF ReadsStopped(u) THEN AfterStop(p) ELSE "kill", job[p])
    /\ UNCHANGED <<dirVars, rootVars>>

\* systemctl kill --signal=SIGKILL: the whole control group
StopKill(p) ==
    /\ pc[p] = "kill"
    /\ \/ /\ unit # "absent"
          /\ unit' = "deactivating" /\ sup' = "none" /\ vms' = {}
          /\ HangUp
          /\ Goto(p, "reap")
          /\ UNCHANGED <<lock, job, result, verbs, spec, conn, boots>>
       \/ /\ unit = "absent" \/ Flaky
          /\ Return(p, "failed")
    /\ UNCHANGED <<dirVars, rootVars>>

StopReap(p) ==
    /\ pc[p] = "reap"
    /\ \E u \in UnitReadings :
          IF ReadsStopped(u) THEN Local(p, AfterStop(p), job[p])
                             ELSE Return(p, "failed")
    /\ UNCHANGED <<dirVars, rootVars>>

Residue ==
    \/ launchJson # NoBuild \/ readySock # NoProc
    \/ vmPid # 0 \/ bootJson # 0 \/ ctlSock # 0

\* Mutant: the ladder's answer is trusted.
TrustTeardown(p) ==
    /\ pc[p] = "confirm"
    /\ Return(p, "ok")
    /\ UNCHANGED <<dirVars, rootVars>>

ConfirmTeardown(p) ==
    /\ pc[p] = "confirm"
    /\ Return(p, IF Residue THEN "failed" ELSE "ok")
    /\ UNCHANGED <<dirVars, rootVars>>

-----------------------------------------------------------------------------
(* viv generations prune, activate and rollback.                           *)

\* Mutant: prune has no running-VM guard.
PruneUnguarded(p) ==
    /\ pc[p] = "prune"
    /\ \E rows \in SUBSET (pinned \ {current}) :
          Local(p, "unlink", [job[p] EXCEPT !.rows = rows])
    /\ UNCHANGED <<dirVars, rootVars>>

\* The refusal reads running-build, and only when the state is not resting.
PruneDecide(p) ==
    /\ pc[p] = "prune"
    /\ \E u \in UnitReadings, rows \in SUBSET (pinned \ {current}) :
          IF ~Resting(u) /\ runningBuild \in rows
          THEN Return(p, "failed")
          ELSE Local(p, "unlink", [job[p] EXCEPT !.rows = rows])
    /\ UNCHANGED <<dirVars, rootVars>>

PruneUnlink(p) ==
    /\ pc[p] = "unlink"
    /\ pinned' = pinned \ job[p].rows
    /\ Return(p, "ok")
    /\ UNCHANGED <<dirVars, runningBuild, current>>

Activate(p, b) ==
    /\ pc[p] = "idle" /\ lock = NoProc /\ verbs < MaxVerbs
    /\ b \in pinned /\ b # current
    /\ current' = b
    /\ verbs' = verbs + 1
    /\ UNCHANGED <<lock, pc, job, result, supVars, dirVars, runningBuild, pinned>>

-----------------------------------------------------------------------------
(* viv destroy.                                                            *)

DestroyDecide(p) ==
    /\ pc[p] = "destroy"
    /\ \E u \in UnitReadings :
          Local(p, IF Resting(u) THEN "remove" ELSE "ask",
                [job[p] EXCEPT !.vm = LiveVm])
    /\ UNCHANGED <<dirVars, rootVars>>

\* Mutant: destroy trusts the ladder.
DestroyTrusts(p) ==
    /\ pc[p] = "recheck"
    /\ Local(p, "remove", job[p])
    /\ UNCHANGED <<dirVars, rootVars>>

DestroyRecheck(p) ==
    /\ pc[p] = "recheck"
    /\ \E u \in UnitReadings :
          IF Presence(u) = "dead" THEN Local(p, "remove", job[p])
                                  ELSE Return(p, "failed")
    /\ UNCHANGED <<dirVars, rootVars>>

DestroyRemove(p) ==
    /\ pc[p] = "remove"
    /\ runningBuild' = NoBuild /\ pinned' = {} /\ current' = NoBuild
    /\ Local(p, "clear", job[p])
    /\ UNCHANGED dirVars

\* The runtime directory, all but its lock
EmptyDirectory ==
    /\ launchJson' = NoBuild /\ readySock' = NoProc
    /\ vmPid' = 0 /\ bootJson' = 0 /\ ctlSock' = 0

DestroyClear(p) ==
    /\ pc[p] = "clear"
    /\ EmptyDirectory
    /\ Return(p, "ok")
    /\ UNCHANGED rootVars

-----------------------------------------------------------------------------
(* The unit and its supervisor.                                            *)

\* The main process is gone: the manager kills what is left of the group.
SupExit == sup' = "none" /\ unit' = "deactivating" /\ HangUp

UnitExec ==
    /\ unit = "activating"
    /\ unit' = "active" /\ sup' = "connect"
    /\ UNCHANGED <<procVars, spec, conn, mail, report, vms, boots, dirVars, rootVars>>

\* Mutant: neither the specification nor the launcher is required.
SupConnectAnyway ==
    /\ sup = "connect"
    /\ sup' = "boot" /\ spec' = launchJson
    /\ conn' = readySock /\ report' = "none"
    /\ UNCHANGED <<procVars, unit, mail, vms, boots, dirVars, rootVars>>

\* vivarium-supervisor's run: read the specification, connect the handoff.
SupConnect ==
    /\ sup = "connect"
    /\ IF /\ launchJson # NoBuild
          /\ \E p \in Procs : readySock = p /\ pc[p] \in {"submit", "await"}
       THEN /\ sup' = "boot" /\ spec' = launchJson
            /\ conn' = readySock /\ report' = "none"
            /\ UNCHANGED <<unit, mail>>
       ELSE SupExit /\ UNCHANGED <<spec, conn>>
    /\ UNCHANGED <<procVars, vms, boots, dirVars, rootVars>>

\* run_inner up to the spawn of the VMM
SupSpawnVmm ==
    /\ sup = "boot"
    /\ boots' = boots + 1
    /\ vms' = vms \cup {[id |-> boots + 1, build |-> spec]}
    /\ sup' = "vmm"
    /\ UNCHANGED <<procVars, unit, spec, conn, mail, report, dirVars, rootVars>>

SupWritePid ==
    /\ sup = "vmm"
    /\ vmPid' = boots /\ sup' = "pid"
    /\ UNCHANGED <<procVars, unit, spec, conn, mail, report, vms, boots, launchJson,
                   readySock, bootJson, ctlSock, rootVars>>

\* write_boot_json, then the create request that makes the control socket
SupWriteBoot ==
    /\ sup = "pid"
    /\ bootJson' = boots /\ ctlSock' = boots /\ sup' = "guest"
    /\ UNCHANGED <<procVars, unit, spec, conn, mail, report, vms, boots, launchJson,
                   readySock, vmPid, rootVars>>

\* wait_for_agent answered; the credential pool is next
SupAnswered ==
    /\ sup = "guest" /\ Alive(boots)
    /\ sup' = "answered"
    /\ UNCHANGED <<procVars, unit, spec, conn, mail, report, vms, boots, dirVars, rootVars>>

\* run_inner is through: ProcessReady goes to the main task.
SupReady ==
    /\ sup = "answered"
    /\ sup' = "ready" /\ mail' = "ready"
    /\ UNCHANGED <<procVars, unit, spec, conn, report, vms, boots, dirVars, rootVars>>

\* run_inner failed at one of its steps
SupFail ==
    /\ sup \in {"boot", "vmm", "pid", "guest", "answered"}
    /\ sup' = "abort" /\ mail' = "failed"
    /\ UNCHANGED <<procVars, unit, spec, conn, report, vms, boots, dirVars, rootVars>>

\* prepare_runtime failed: reported, and the process ends without a sweep
SupPrepareFail ==
    /\ sup = "boot"
    /\ sup' = "abortend" /\ mail' = "failed"
    /\ UNCHANGED <<procVars, unit, spec, conn, report, vms, boots, dirVars, rootVars>>

\* The main task writes the report.  A ready one that nobody reads is an error
\* that ends the process without shutdown_children and without cleanup.
SupReport ==
    /\ mail # "empty"
    /\ IF mail = "ready" /\ conn = NoProc
       THEN SupExit
       ELSE /\ report' = IF conn # NoProc THEN mail ELSE report
            /\ mail' = "empty"
            /\ UNCHANGED <<unit, sup>>
    /\ UNCHANGED <<procVars, spec, conn, vms, boots, dirVars, rootVars>>

\* monitor installs the SIGTERM handler
SupInstall ==
    /\ sup = "ready"
    /\ sup' = "monitor"
    /\ UNCHANGED <<procVars, unit, spec, conn, mail, report, vms, boots, dirVars, rootVars>>

\* monitor returns: SIGTERM, the VMM's own exit, or another child's
SupMonitor ==
    /\ sup = "monitor"
    /\ sup' = "shutdown"
    /\ UNCHANGED <<procVars, unit, spec, conn, mail, report, vms, boots, dirVars, rootVars>>

\* shutdown_children: the guest's power button, its destruction, the kill.  An
\* error of a poll, a kill or a wait leaves the ladder with the VMM as it is.
SupShutdown ==
    /\ sup \in {"shutdown", "abort"}
    /\ \/ vms' = {v \in vms : v.id # boots}
       \/ ReapFails /\ UNCHANGED vms
    /\ sup' = IF sup = "abort" THEN "abortsweep" ELSE "sweep"
    /\ UNCHANGED <<procVars, unit, spec, conn, mail, report, boots, dirVars, rootVars>>

\* cleanup_runtime: everything but the lock, or nothing at an unknown entry
SupSweep ==
    /\ sup \in {"sweep", "abortsweep"}
    /\ sup' = IF sup = "abortsweep" THEN "abortend" ELSE "end"
    /\ EmptyDirectory \/ UNCHANGED dirVars
    /\ UNCHANGED <<procVars, unit, spec, conn, mail, report, vms, boots, rootVars>>

\* join: the process ends when both tasks are through.
SupEnd ==
    /\ sup \in {"end", "abortend"} /\ mail = "empty"
    /\ SupExit
    /\ UNCHANGED <<procVars, spec, conn, vms, boots, dirVars, rootVars>>

\* Mutant: KillMode=process leaves the rest of the group running.
UnitReapMainOnly ==
    /\ unit = "deactivating" /\ sup = "none"
    /\ unit' = "absent"
    /\ UNCHANGED <<procVars, sup, spec, conn, mail, report, vms, boots, dirVars, rootVars>>

\* KillMode=mixed: what remains of the group is killed and the unit collected.
UnitReap ==
    /\ unit = "deactivating" /\ sup = "none"
    /\ vms' = {} /\ unit' = "absent"
    /\ UNCHANGED <<procVars, sup, spec, conn, mail, report, boots, dirVars, rootVars>>

\* The guest powers off, or the VMM crashes.
VmExit ==
    /\ \E v \in vms : vms' = vms \ {v}
    /\ UNCHANGED <<procVars, unit, sup, spec, conn, mail, report, boots, dirVars, rootVars>>

\* The supervisor is killed from outside.
SupKilled ==
    /\ Interruptible /\ sup # "none"
    /\ SupExit
    /\ UNCHANGED <<procVars, spec, conn, vms, boots, dirVars, rootVars>>

-----------------------------------------------------------------------------
ProcStep(p) ==
    \/ StartDecide(p) \/ StartBuild(p)
    \/ LaunchRecord(p) \/ HandoffPrepare(p) \/ HandoffSubmit(p)
    \/ AwaitAccept(p) \/ ReadReport(p)
    \/ Reuse(p) \/ ReuseWait(p) \/ ShedStale(p) \/ ReadBootRecord(p)
    \/ StopTriage(p) \/ LadderAsk(p) \/ LadderAcked(p)
    \/ StopUnit(p) \/ StopPoll(p) \/ StopKill(p) \/ StopReap(p)
    \/ ConfirmTeardown(p)
    \/ PruneDecide(p) \/ PruneUnlink(p)
    \/ DestroyDecide(p) \/ DestroyRecheck(p) \/ DestroyRemove(p) \/ DestroyClear(p)

SupStep ==
    \/ UnitExec \/ SupConnect \/ SupSpawnVmm \/ SupWritePid \/ SupWriteBoot
    \/ SupAnswered \/ SupReady \/ SupFail \/ SupPrepareFail \/ SupReport \/ SupInstall
    \/ SupShutdown \/ SupSweep \/ SupEnd \/ UnitReap

Step ==
    \/ \E p \in Procs :
          \/ ProcStep(p)
          \/ Interrupt(p)
          \/ \E verb \in Verbs : Begin(p, verb)
          \/ \E b \in Builds : Activate(p, b)
    \/ SupStep
    \/ SupMonitor
    \/ VmExit
    \/ SupKilled

Next == Step /\ UNCHANGED manager

\* A stop that polls without a deadline
Patient(p) == job[p].patient /\ pc[p] \in {"acked", "poll"}

\* Processes and the manager keep running; a running supervisor notices a
\* stop request and the end of its VM.  Nothing obliges a user to run a verb,
\* a guest to exit, a process to be killed, or a manager to leave a question
\* unanswered: a patient poll is only sure to end once the unit is gone.
Fairness ==
    /\ \A p \in Procs :
          WF_vars((Patient(p) => unit = "absent") /\ ProcStep(p) /\ UNCHANGED manager)
    /\ WF_vars(SupStep /\ UNCHANGED manager)
    /\ WF_vars(SupMonitor /\ (unit = "deactivating" \/ ~Alive(boots)) /\ UNCHANGED manager)

Spec == Init /\ [][Next]_vars
FairSpec == Spec /\ Fairness

-----------------------------------------------------------------------------
(* Properties.                                                             *)

\* At most one VMM is alive: two starts, a stop racing a start, a rebuild
\* whose stop was misread and killed processes never put a second VM into
\* the runtime directory of the first.
OneVm == \A v, w \in vms : v = w

\* A VM that nobody is tearing down: its unit is active and its supervisor
\* is between the spawn of the VMM and the end of monitor.
Up(v) ==
    /\ v \in vms /\ unit = "active"
    /\ sup \in {"vmm", "pid", "guest", "answered", "ready", "monitor"}

\* The generation a VM was booted from keeps its root for as long as the VM
\* is up (ADR-0085): neither prune nor destroy unlinks it.
PinnedWhileUp == \A v \in vms : Up(v) => v.build \in pinned

\* running-build names the build the VM was launched from for as long as it
\* is up, so that status and the prune guard speak about that VM.
ProvenanceWhileUp == \A v \in vms : Up(v) => runningBuild = v.build

\* With a manager that answers, the generation a VM was booted from keeps its
\* root while the VM is up (ADR-0085).
CalmPinned == manager = "calm" => PinnedWhileUp

\* With a manager that answers, running-build names the build of the VM that is
\* up, so that status and the prune guard speak about that VM.
CalmProvenance == manager = "calm" => ProvenanceWhileUp

\* The supervisor is gone or past its ladder, so that what it left is ended by
\* its own exit or by the manager.
PastLadder == sup \in {"none", "sweep", "abortsweep", "end", "abortend"}

\* A stop that reports success has ended the VM that was alive when it was
\* asked (at worst the ladder failed to reap it, or the manager is still killing
\* what the supervisor left), even where a poll of the unit went unanswered.
StopIsTruthful ==
    [][\A p \in Procs : pc[p] = "confirm" /\ result'[p] = "ok"
                            => ~Alive(job[p].vm) \/ PastLadder]_vars

\* destroy never removes generations and volumes under a VM that is up and
\* whose pid is on record.
DestroySparesRecordedVm ==
    [][\A p \in Procs : DestroyRemove(p) => \A v \in vms : Up(v) => vmPid # v.id]_vars

\* A session's ensure-running neither cold-starts over a VM that is up nor
\* stops one as a stale record, whatever the manager answers.
NeverReplacesUpVm ==
    [][\A p \in Procs : pc[p] = "reuse" /\ pc'[p] \in {"build", "stop"}
                            => \A v \in vms : ~Up(v)]_vars

\* Every invocation returns.  The one exception is what was asked for: a stop
\* without a deadline, for as long as the unit it watches stays loaded.
VerbReturns ==
    \A p \in Procs :
        pc[p] # "idle" ~> pc[p] = "idle" \/ [](Patient(p) /\ unit # "absent")

\* A unit asked to stop, or whose supervisor ended, is collected and leaves
\* no VMM behind.
StopConverges == unit = "deactivating" ~> unit = "absent" /\ vms = {}

\* spec/10 "Stopping": stop is idempotent, and with nothing running it exits
\* 0 and cleans dead records (a stale pid) up on the way.
StopIsIdempotent ==
    [][\A p \in Procs :
          /\ pc[p] = "confirm" /\ pc'[p] = "idle"
          /\ ~job[p].running /\ unit = "absent" /\ lock = NoProc
          => result'[p] = "ok"]_vars
=============================================================================
