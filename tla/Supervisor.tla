----------------------------- MODULE Supervisor -----------------------------
(***************************************************************************)
(* One vivarium-supervisor process: the launch ladder that brings up the   *)
(* share daemons, the namespace pair, the filter, the uplink, the resolver *)
(* and the VMM; the monitor; the shutdown ladder and the sweep; and beside *)
(* that task the main task that carries its one report to the launcher.    *)
(*                                                                         *)
(* A wait for a socket passes on any socket of that name, one left by a    *)
(* predecessor included, so it says nothing about the child behind it.     *)
(* Every launch step can fail: its helper exits non-zero, its child cannot *)
(* be spawned, or its budget runs out.                                     *)
(***************************************************************************)
EXTENDS Naturals

CONSTANTS
    Shares,             \* tags of the declared shares
    LauncherLeaves,     \* may the launching viv go away before the report?
    EarlyStop,          \* may the unit be stopped before monitor runs?
    Stragglers,         \* may a killed child leave a process on its pipes?
    ButtonFails,        \* may ch-remote fail to press a guest's power button?
    ReapFails           \* may polling, killing or reaping a child fail?

Infrastructure == {"holder", "uplink", "resolver"}

ASSUME SupervisorAssumption ==
    /\ Shares \cap (Infrastructure \cup {"vmm"}) = {}
    /\ LauncherLeaves \in BOOLEAN
    /\ EarlyStop \in BOOLEAN
    /\ Stragglers \in BOOLEAN
    /\ ButtonFails \in BOOLEAN
    /\ ReapFails \in BOOLEAN

\* ChildKind
Kinds == Shares \cup Infrastructure \cup {"vmm"}

\* ends_with_guest
GuestBound == Shares \cup {"vmm"}

VARIABLES
    mode,       \* egress mode of the specification
    pc,         \* where the supervision task is
    child,      \* every child's life
    ruleset,    \* is the default-deny ruleset in the kernel?
    guest,      \* the VM inside the VMM
    button,     \* the guest's power button, as the ladder left it
    lost,       \* did the ladder end in an error?
    sigterm,    \* its disposition, and whether one came
    held,       \* children whose pipes a surviving process still holds
    mail,       \* the readiness channel between the two tasks
    files,      \* what of the runtime directory this launch made
    launcher,   \* the other end of the handoff connection
    report      \* what was written on it

vars == <<mode, pc, child, ruleset, guest, button, lost, sigterm, held, mail,
          files, launcher, report>>

LaunchSteps == {"provision", "shares", "sharewait", "holder", "net", "filter",
                "uplink", "resolver", "vmm", "pid", "create", "boot", "agent", "ready",
                "install"}
LadderSteps == {"button", "await", "destroy", "await2", "reap", "join", "sweep"}
Ended == {"exited", "dead", "collected"}
Files == {"launch.json", "ready.sock", "vm.pid", "boot.json", "control"}

TypeOK ==
    /\ mode \in {"open", "allowlist"}
    /\ pc \in {"prepare", "monitor", "end"} \cup LaunchSteps \cup LadderSteps \cup Ended
    /\ child \in [Kinds -> {"unborn", "up", "exited", "reaped"}]
    /\ ruleset \in BOOLEAN
    /\ guest \in {"none", "created", "booted", "destroyed"}
    /\ button \in {"unpressed", "refused", "pressed"}
    /\ lost \in BOOLEAN
    /\ sigterm \in {"default", "handled", "raised", "fatal"}
    /\ held \in SUBSET Kinds
    /\ mail \in {"empty", "ready", "failed", "taken"}
    /\ files \subseteq Files
    /\ launcher \in {"waiting", "gone"}
    /\ report \in {"none", "ready", "failed"}

\* vivarium-supervisor has read the specification and connected the handoff.
Init ==
    /\ mode \in {"open", "allowlist"}
    /\ pc = "prepare"
    /\ child = [k \in Kinds |-> "unborn"]
    /\ ruleset = FALSE /\ guest = "none" /\ button = "unpressed" /\ lost = FALSE
    /\ sigterm = "default" /\ held = {}
    /\ mail = "empty" /\ launcher = "waiting" /\ report = "none"
    /\ files = {"launch.json", "ready.sock"}

Up(k) == child[k] = "up"
Spawn(k) == child' = [child EXCEPT ![k] = "up"]

taskVars   == <<child, ruleset, guest, button, lost, held, files>>
reportVars == <<mode, sigterm, mail, launcher, report>>

-----------------------------------------------------------------------------
(* The launch ladder: prepare_runtime, run_inner, bring_up_network.        *)

\* prepare_runtime: a failure is reported and nothing is torn down.
Prepare ==
    /\ pc = "prepare"
    /\ \/ pc' = "provision" /\ UNCHANGED mail
       \/ pc' = "end" /\ mail' = "failed"
    /\ UNCHANGED <<taskVars, mode, sigterm, launcher, report>>

\* provision_volumes, validate_shares and open_share_roots start no child.
Provision ==
    /\ pc = "provision"
    /\ pc' = "shares"
    /\ UNCHANGED <<taskVars, reportVars>>

SpawnShares ==
    /\ pc = "shares"
    /\ \/ /\ \E t \in Shares : child[t] = "unborn" /\ Spawn(t)
          /\ UNCHANGED pc
       \/ /\ \A t \in Shares : child[t] # "unborn"
          /\ pc' = "sharewait"
          /\ UNCHANGED child
    /\ UNCHANGED <<ruleset, guest, button, lost, held, files, reportVars>>

\* wait_for_socket over every share
ShareWait ==
    /\ pc = "sharewait"
    /\ pc' = "holder"
    /\ UNCHANGED <<taskVars, reportVars>>

SpawnHolder ==
    /\ pc = "holder"
    /\ Spawn("holder")
    /\ pc' = "net"
    /\ UNCHANGED <<ruleset, guest, button, lost, held, files, reportVars>>

\* await_pair, net-init and the tap: each joins the pair by its holder's pid.
NetInit ==
    /\ pc = "net" /\ Up("holder")
    /\ pc' = "filter"
    /\ UNCHANGED <<taskVars, reportVars>>

\* Mutant: the ruleset is left to the resolver's first answer.
FilterDeferred ==
    /\ pc = "filter"
    /\ pc' = "uplink"
    /\ UNCHANGED <<taskVars, reportVars>>

\* base_ruleset and the literal destinations, under allowlist mode only
ApplyFilter ==
    /\ pc = "filter"
    /\ mode = "allowlist" => Up("holder")
    /\ ruleset' = (mode = "allowlist")
    /\ pc' = "uplink"
    /\ UNCHANGED <<child, guest, button, lost, held, files, reportVars>>

SpawnUplink ==
    /\ pc = "uplink"
    /\ Spawn("uplink")
    /\ pc' = "resolver"
    /\ UNCHANGED <<ruleset, guest, button, lost, held, files, reportVars>>

SpawnResolver ==
    /\ pc = "resolver"
    /\ \/ mode = "allowlist" /\ Spawn("resolver")
       \/ mode = "open" /\ UNCHANGED child
    /\ pc' = "vmm"
    /\ UNCHANGED <<ruleset, guest, button, lost, held, files, reportVars>>

SpawnVmm ==
    /\ pc = "vmm"
    /\ Spawn("vmm")
    /\ pc' = "pid"
    /\ UNCHANGED <<ruleset, guest, button, lost, held, files, reportVars>>

\* write_vmm_pid
WritePid ==
    /\ pc = "pid"
    /\ files' = files \cup {"vm.pid"}
    /\ pc' = "create"
    /\ UNCHANGED <<child, ruleset, guest, button, lost, held, reportVars>>

\* The API socket, the records, then ch-remote create with the control socket
Create ==
    /\ pc = "create" /\ Up("vmm")
    /\ guest' = "created"
    /\ files' = files \cup {"boot.json", "control"}
    /\ pc' = "boot"
    /\ UNCHANGED <<child, ruleset, button, lost, held, reportVars>>

\* the console reader, then ch-remote boot
BootGuest ==
    /\ pc = "boot" /\ Up("vmm")
    /\ guest' = "booted"
    /\ pc' = "agent"
    /\ UNCHANGED <<child, ruleset, button, lost, held, files, reportVars>>

\* wait_for_agent and the credential pool
AgentAnswers ==
    /\ pc = "agent" /\ Up("vmm")
    /\ pc' = "ready"
    /\ UNCHANGED <<taskVars, reportVars>>

SendReady ==
    /\ pc = "ready"
    /\ mail' = "ready"
    /\ pc' = "install"
    /\ UNCHANGED <<taskVars, mode, sigterm, launcher, report>>

\* run_inner returned an error: Failed is sent before the ladder.
LaunchFails ==
    /\ pc \in LaunchSteps \ {"install"}
    /\ mail' = "failed"
    /\ pc' = "button"
    /\ UNCHANGED <<taskVars, mode, sigterm, launcher, report>>

-----------------------------------------------------------------------------
(* monitor, shutdown_children, cleanup_runtime.                            *)

\* monitor installs the SIGTERM handler, which then stays for good.
InstallHandler ==
    /\ pc = "install"
    /\ sigterm' = "handled"
    /\ pc' = "monitor"
    /\ UNCHANGED <<taskVars, mode, mail, launcher, report>>

\* Mutant: only the VMM is polled.
MonitorSeesVmm == sigterm = "raised" \/ child["vmm"] = "exited"

\* try_wait over every child, and the signal stream
MonitorSees == sigterm = "raised" \/ \E k \in Kinds : child[k] = "exited"

\* Mutant: a stop goes to the hard half at once.
MonitorDestroys ==
    /\ pc = "monitor" /\ MonitorSees
    /\ pc' = "destroy"
    /\ UNCHANGED <<taskVars, reportVars>>

\* Any child's end and the unit's stop end the VM.
Monitor ==
    /\ pc = "monitor" /\ MonitorSees
    /\ pc' = "button"
    /\ UNCHANGED <<taskVars, reportVars>>

\* So does the end of a drain, console or credential task.
TaskEnds ==
    /\ pc = "monitor"
    /\ pc' = "button"
    /\ UNCHANGED <<taskVars, reportVars>>

\* ch-remote power-button; its failure is ignored, and certain without a guest
PowerButton ==
    /\ pc = "button"
    /\ \/ button' = "pressed" /\ Up("vmm") /\ guest = "booted"
       \/ button' = "refused" /\ (ButtonFails \/ ~Up("vmm") \/ guest # "booted")
    /\ pc' = "await"
    /\ UNCHANGED <<child, ruleset, guest, lost, held, files, reportVars>>

\* Mutant: the wait for the guest has no budget.
AwaitGuestForever ==
    /\ pc = "await"
    /\ \A k \in GuestBound : ~Up(k)
    /\ pc' = "reap"
    /\ UNCHANGED <<taskVars, reportVars>>

\* await_children: the guest-bound children are gone, or the budget is.
AwaitGuest ==
    /\ pc = "await"
    /\ \/ pc' = "reap" /\ \A k \in GuestBound : ~Up(k)
       \/ pc' = "destroy" /\ \E k \in GuestBound : Up(k)
    /\ UNCHANGED <<taskVars, reportVars>>

\* ch-remote shutdown; its failure is ignored
Destroy ==
    /\ pc = "destroy"
    /\ guest' \in {guest, IF Up("vmm") /\ guest = "booted" THEN "destroyed" ELSE guest}
    /\ pc' = "await2"
    /\ UNCHANGED <<child, ruleset, button, lost, held, files, reportVars>>

AwaitDestroyed ==
    /\ pc = "await2"
    /\ pc' = "reap"
    /\ UNCHANGED <<taskVars, reportVars>>

\* Mutant: the ladder reaps only the children that end with the guest.
GuestBoundOnly == {k \in GuestBound : child[k] \in {"up", "exited"}}

\* What the kill loop has still to end
Unreaped == {k \in Kinds : child[k] \in {"up", "exited"}}

\* The order of the children, which is that of their spawning
Rank(k) == CASE k = "vmm" -> 4 [] k = "resolver" -> 3 [] k = "uplink" -> 2
             [] k = "holder" -> 1 [] OTHER -> 0

\* Every child is killed if need be, and waited for, in the order of children.
Reap ==
    /\ pc = "reap"
    /\ \/ /\ \E k \in Unreaped :
                /\ \A j \in Unreaped : Rank(k) <= Rank(j)
                /\ child' = [child EXCEPT ![k] = "reaped"]
                /\ held' \in {held} \cup (IF Stragglers /\ Up(k) THEN {held \cup {k}} ELSE {})
          /\ UNCHANGED pc
       \/ /\ Unreaped = {}
          /\ pc' = "join"
          /\ UNCHANGED <<child, held>>
    /\ UNCHANGED <<ruleset, guest, button, lost, files, reportVars>>

\* try_wait, start_kill or wait failed: shutdown_children returns the error and
\* cleanup follows, with whatever children are left and without the join.
LadderFails ==
    /\ ReapFails /\ pc \in {"await", "await2", "reap"}
    /\ lost' = TRUE
    /\ pc' = "sweep"
    /\ UNCHANGED <<child, ruleset, guest, button, held, files, reportVars>>

\* The drain tasks end when their pipes do.
JoinTasks ==
    /\ pc = "join" /\ held = {}
    /\ pc' = "sweep"
    /\ UNCHANGED <<taskVars, reportVars>>

\* cleanup_runtime: an unknown entry leaves everything in place
Sweep ==
    /\ pc = "sweep"
    /\ files' \in {files, {}}
    /\ pc' = "end"
    /\ UNCHANGED <<child, ruleset, guest, button, lost, held, reportVars>>

-----------------------------------------------------------------------------
(* The main task of vivarium-supervisor.                                   *)

\* Mutant: the handoff is dialled by name when there is something to report.
ReportByName ==
    /\ mail = "failed" /\ pc \notin Ended
    /\ report' = IF launcher = "waiting" /\ "ready.sock" \in files THEN "failed" ELSE report
    /\ mail' = "taken"
    /\ UNCHANGED <<taskVars, pc, mode, sigterm, launcher>>

\* Best effort: the launcher may be gone.
ReportFailed ==
    /\ mail = "failed" /\ pc \notin Ended
    /\ report' = IF launcher = "waiting" THEN "failed" ELSE report
    /\ mail' = "taken"
    /\ UNCHANGED <<taskVars, pc, mode, sigterm, launcher>>

\* Mutant: a ready report is best effort, like a failed one.
ReportReadyIfHeard ==
    /\ mail = "ready" /\ pc \notin Ended
    /\ report' = IF launcher = "waiting" THEN "ready" ELSE report
    /\ mail' = "taken"
    /\ UNCHANGED <<taskVars, pc, mode, sigterm, launcher>>

\* A ready report that cannot be written ends the process where it stands, and
\* nothing is swept.
ReportReady ==
    /\ mail = "ready" /\ pc \notin Ended
    /\ \/ /\ launcher = "waiting"
          /\ report' = "ready" /\ mail' = "taken"
          /\ UNCHANGED pc
       \/ /\ launcher = "gone"
          /\ pc' = "dead" /\ mail' = "taken"
          /\ UNCHANGED report
    /\ UNCHANGED <<child, ruleset, guest, button, lost, held, files, mode, sigterm, launcher>>

\* join: the process ends when both tasks are through.
Exit ==
    /\ pc = "end" /\ mail = "taken"
    /\ pc' = "exited"
    /\ UNCHANGED <<taskVars, reportVars>>

-----------------------------------------------------------------------------
(* The surroundings.                                                       *)

ChildEnds(k) ==
    /\ Up(k)
    /\ child' = [child EXCEPT ![k] = "exited"]
    /\ UNCHANGED <<pc, ruleset, guest, button, lost, held, files, reportVars>>

\* systemctl stop.  Without the handler (a launch under way, or the ladder of
\* one that failed) SIGTERM ends the process.
UnitStop ==
    /\ pc \notin Ended
    /\ \/ /\ sigterm = "handled"
          /\ sigterm' = "raised"
          /\ UNCHANGED pc
       \/ /\ sigterm = "default" /\ EarlyStop
          /\ sigterm' = "fatal"
          /\ pc' = "dead"
    /\ UNCHANGED <<child, ruleset, guest, button, lost, held, files, mode, mail, launcher, report>>

\* The process is gone: kill_on_drop and the manager (KillMode=mixed) end what
\* is left of its control group, and the unit is collected.
Collect ==
    /\ pc \in {"exited", "dead"}
    /\ child' = [k \in Kinds |-> IF Up(k) THEN "reaped" ELSE child[k]]
    /\ pc' = "collected"
    /\ UNCHANGED <<ruleset, guest, button, lost, held, files, reportVars>>

LauncherGoes ==
    /\ LauncherLeaves /\ launcher = "waiting"
    /\ launcher' = "gone"
    /\ UNCHANGED <<taskVars, pc, mode, sigterm, mail, report>>

StragglerEnds(k) ==
    /\ k \in held
    /\ held' = held \ {k}
    /\ UNCHANGED <<pc, child, ruleset, guest, button, lost, files, reportVars>>

-----------------------------------------------------------------------------
Launch ==
    \/ Prepare \/ Provision \/ SpawnShares \/ ShareWait \/ SpawnHolder \/ NetInit
    \/ ApplyFilter \/ SpawnUplink \/ SpawnResolver \/ SpawnVmm \/ WritePid
    \/ Create \/ BootGuest \/ AgentAnswers \/ SendReady \/ LaunchFails \/ InstallHandler

Ladder ==
    \/ Monitor \/ PowerButton \/ AwaitGuest \/ Destroy \/ AwaitDestroyed
    \/ Reap \/ JoinTasks \/ Sweep

Main == ReportFailed \/ ReportReady \/ Exit

Next ==
    \/ Launch \/ Ladder \/ Main
    \/ \E k \in Kinds : ChildEnds(k) \/ StragglerEnds(k)
    \/ TaskEnds \/ LadderFails \/ UnitStop \/ LauncherGoes \/ Collect
    \/ pc = "collected" /\ UNCHANGED vars

Spec == Init /\ [][Next]_vars

\* The steps that run a helper program (mkfs, ip, nft, ch-remote) to its end:
\* run_checked has no budget, so that nothing ends them but the helper.
HelperSteps == {"provision", "net", "filter", "create", "boot", "button", "destroy"}

\* Both tasks are scheduled, and every other wait is bounded.
FairSpec ==
    /\ Spec
    /\ WF_vars(Launch /\ pc \notin HelperSteps)
    /\ WF_vars(Ladder /\ pc \notin HelperSteps)
    /\ WF_vars(Main)

-----------------------------------------------------------------------------
(* Properties.                                                             *)

\* spec/05's order: under allowlist the default-deny ruleset is in the kernel
\* before an uplink or a VMM exists, so no packet crosses an unfiltered path.
FilterBeforePath ==
    mode = "allowlist" /\ (child["uplink"] # "unborn" \/ child["vmm"] # "unborn")
        => ruleset

\* A supervisor that ends by itself has told a launcher that is still there
\* how the launch went, although the sweep unlinks the socket it listens on.
ReportDelivered == pc = "exited" /\ launcher = "waiting" => report # "none"

\* The runtime directory is swept, and the process ends, with no child alive,
\* unless the ladder itself ended in an error.
SweptAfterReap ==
    pc \in {"sweep", "end", "exited"} /\ ~lost => \A k \in Kinds : ~Up(k)

\* N18 for the ladder: whatever fails and whoever dies, shutdown_children kills
\* or destroys a booted guest only after its power button was pressed, or after
\* ch-remote, which is asked once, could not press it.
LadderOffersButton ==
    [][Up("vmm") /\ guest = "booted" /\ pc # "dead"
           /\ (child'["vmm"] = "reaped" \/ guest' = "destroyed")
       => button = "pressed" \/ (ButtonFails /\ button = "refused")]_vars

\* N18 for the whole process: no booted guest ends with its supervisor unless
\* its power button was pressed.
PowerButtonFirst ==
    [][Up("vmm") /\ guest = "booted"
           /\ (child'["vmm"] = "reaped" \/ guest' = "destroyed") => button = "pressed"]_vars

\* The waits without a budget: for a helper program, and in the join of the
\* drain tasks for a process that outlived its parent and holds a child's pipe.
Stuck == pc \in HelperSteps \/ (pc = "join" /\ held # {})

\* A child's end ends the VM and the supervisor, also where the launch steps
\* did not notice it: a share daemon that died after its socket appeared.  Only
\* a wait without a budget can keep it from that, and only by never ending.
ChildEndIsNoticed ==
    (\E k \in Kinds : child[k] = "exited") ~> pc \in Ended \/ []Stuck

\* A stop reaches the end of the ladder whatever the guest and the children do;
\* again only a wait that never ends can keep it from that.
StopEnds == sigterm = "raised" ~> pc \in Ended \/ []Stuck
=============================================================================
