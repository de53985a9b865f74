----------------------------- MODULE TargetView -----------------------------
(***************************************************************************)
(* Target's view of a launch.  Target treats the supervisor as a handful   *)
(* of steps between the processes that wait for it and stop it; Supervisor *)
(* has its children, its two tasks and its ladder.  The mapping below says *)
(* what of a Supervisor state Target sees, and ImplementsTarget that every *)
(* step of a Supervisor is one of Target's own, or none that Target sees.  *)
(*                                                                         *)
(* The launch is the first of its target: one viv that started it and      *)
(* waits for the report, one that is about to stop the unit, one build.    *)
(***************************************************************************)
EXTENDS Supervisor

Launcher == "viv start"
Stopper  == "viv stop"
NoOne    == "no process"
Build    == "build"
Unbuilt  == "no build"

Waits   == launcher = "waiting"
Holder  == IF Waits THEN Launcher ELSE NoOne
Stopped == sigterm \in {"raised", "fatal"}

Idle == [verb |-> "stop", build |-> Unbuilt, running |-> FALSE, rows |-> {}, vm |-> 0,
         patient |-> FALSE]

\* The processes: the launcher reads the handoff connection under the lock
\* until it goes; the other one asks the manager to stop the unit.
ViewPc == [p \in {Launcher, Stopper} |->
    IF p = Launcher THEN (IF Waits THEN "read" ELSE "idle")
                    ELSE (IF Stopped THEN "poll" ELSE "stop")]
ViewJob == [p \in {Launcher, Stopper} |->
    IF p = Launcher /\ Waits THEN [Idle EXCEPT !.verb = "evaluate", !.build = Build]
    ELSE IF p = Stopper THEN [Idle EXCEPT !.running = TRUE] ELSE Idle]
ViewResult == [p \in {Launcher, Stopper} |->
    IF p = Launcher /\ ~Waits THEN "failed" ELSE "none"]

ViewUnit ==
    CASE pc = "collected"                             -> "absent"
      [] pc \in {"exited", "dead"}                    -> "deactivating"
      [] pc \notin Ended /\ sigterm = "raised"        -> "deactivating"
      [] OTHER                                        -> "active"

\* The steps of the launch, and of the ladder below a monitor; a failed launch
\* climbs down the same ladder without a handler.
ViewSup ==
    CASE pc \in {"prepare", "provision", "shares", "sharewait", "holder", "net",
                 "filter", "uplink", "resolver", "vmm"}  -> "boot"
      [] pc = "pid"                                      -> "vmm"
      [] pc = "create"                                   -> "pid"
      [] pc \in {"boot", "agent"}                        -> "guest"
      [] pc = "ready"                                    -> "answered"
      [] pc = "install"                                  -> "ready"
      [] pc = "monitor"                                  -> "monitor"
      [] pc \in {"button", "await", "destroy", "await2", "reap"} ->
             (IF sigterm = "default" THEN "abort" ELSE "shutdown")
      [] pc \in {"join", "sweep"} -> (IF sigterm = "default" THEN "abortsweep" ELSE "sweep")
      [] pc = "end"               -> (IF sigterm = "default" THEN "abortend" ELSE "end")
      [] OTHER                    -> "none"

ViewMail == IF pc \notin Ended /\ mail \in {"ready", "failed"} THEN mail ELSE "empty"

\* A launcher that left reads nothing; one that stays reads the end of file.
ViewReport ==
    CASE ~Waits                              -> "none"
      [] Waits /\ report = "none" /\ pc \in Ended -> "eof"
      [] OTHER                               -> report

ViewVms == IF Up("vmm") THEN {[id |-> 1, build |-> Build]} ELSE {}

Number(P) == IF P THEN 1 ELSE 0

T == INSTANCE Target WITH
    Procs <- {Launcher, Stopper}, NoProc <- NoOne, Builds <- {Build}, NoBuild <- Unbuilt,
    MaxVerbs <- 2, Interruptible <- LauncherLeaves, Managers <- {"calm"}, ManagerSlow <- FALSE,
    ReapFails <- ReapFails, NoDeadline <- FALSE,
    manager <- "calm",
    lock <- Holder,
    pc <- ViewPc, job <- ViewJob, result <- ViewResult, verbs <- 2,
    unit <- ViewUnit, sup <- ViewSup, spec <- Build,
    conn <- Holder,
    mail <- ViewMail, report <- ViewReport,
    vms <- ViewVms,
    boots <- Number(child["vmm"] # "unborn"),
    launchJson <- IF "launch.json" \in files THEN Build ELSE Unbuilt,
    readySock <- IF "ready.sock" \in files THEN Launcher ELSE NoOne,
    vmPid <- Number("vm.pid" \in files),
    bootJson <- Number("boot.json" \in files),
    ctlSock <- Number("control" \in files),
    runningBuild <- Build, pinned <- {Build}, current <- Build

\* Supervisor implements the supervisor Target reasons about: a launch begins
\* in a state of Target, and each step of either task, of a child, of the
\* launcher or of the unit's manager is a step of Target or leaves what Target
\* sees alone.
ImplementsTarget == T!TypeOK /\ [][T!Next]_(T!vars)
=============================================================================
