--------------------------- MODULE SupervisorProofs ---------------------------
(***************************************************************************)
(* Supervisor's safety for every set of shares, under every fault.         *)
(*                                                                         *)
(* FilterBeforePath is not inductive: nothing in it says that an uplink    *)
(* about to be spawned finds the ruleset in place.  FilterIsPlaced ties    *)
(* the ruleset to the launch step reached, and NoPathYet says that before  *)
(* that step there is no path.  SweptAfterReap needs that prepare, which   *)
(* goes straight to the end when it fails, has no child, and that the      *)
(* join, which follows the kill loop, has none left, where the ladder did  *)
(* not leave them in an error.  ReportDelivered rests                       *)
(* on the channel: what was taken from it was written unless the launcher   *)
(* had gone, and the process ends only after that.  LadderOffersButton      *)
(* rests on PressedBefore: below the button no guest is booted, with its    *)
(* VMM alive, whose button was not asked for: it was pressed, or ch-remote  *)
(* failed, which only ButtonFails admits of a booted guest.                 *)
(*                                                                         *)
(* Refinement is the last theorem: under the mapping of TargetView, whose   *)
(* definitions agree with each other only where ViewInv holds, every step   *)
(* is one of Target's or is not seen there.                                 *)
(***************************************************************************)
EXTENDS TargetView, TLAPS

BeforeFilter == {"prepare", "provision", "shares", "sharewait", "holder", "net", "filter"}
AfterFilter == {"uplink", "resolver", "vmm", "pid", "create", "boot", "agent", "ready",
                "install", "monitor"}

\* Before the filter step neither the uplink nor the VMM has been spawned.
NoPathYet == pc \in BeforeFilter => child["uplink"] = "unborn" /\ child["vmm"] = "unborn"

\* Past the filter step an allowlist launch has its ruleset.
FilterIsPlaced == pc \in AfterFilter /\ mode = "allowlist" => ruleset

\* prepare has no child.
NoChildYet == pc = "prepare" => \A k \in Kinds : child[k] = "unborn"

\* From the join of the drain tasks on, no child is alive that the ladder did
\* not leave in an error, which it does below the join only.
AllReaped ==
    /\ pc \in {"join", "sweep", "end", "exited"} /\ ~lost => \A k \in Kinds : ~Up(k)
    /\ lost => pc \in {"sweep", "end", "exited", "dead", "collected"}

\* What was taken from the channel reached a launcher that is still there.
TakenIsWritten == mail = "taken" /\ launcher = "waiting" => report # "none"

\* The process ends by itself only after the report was taken.
ExitAfterReport == pc = "exited" => mail = "taken"

BelowButton == {"await", "destroy", "await2", "reap", "join", "sweep", "end", "exited"}

\* Asked for once: pressed, or refused by a ch-remote that failed.
Asked == button = "pressed" \/ (ButtonFails /\ button = "refused")

\* Below the power button that of every booted guest of a living VMM was asked for.
PressedBefore == pc \in BelowButton /\ Up("vmm") /\ guest = "booted" => Asked

ReportInv == TakenIsWritten /\ ExitAfterReport
FilterInv == NoPathYet /\ FilterIsPlaced /\ FilterBeforePath
ReapInv == NoChildYet /\ AllReaped
IInv == TypeOK /\ FilterInv /\ ReapInv /\ ReportInv /\ PressedBefore

\* The kinds are distinct: a share's tag is no infrastructure child.
LEMMA KindsDiffer ==
    /\ "uplink" \in Kinds /\ "vmm" \in Kinds /\ "holder" \in Kinds /\ "resolver" \in Kinds
    /\ "uplink" \notin Shares /\ "vmm" \notin Shares
  BY SupervisorAssumption DEF Kinds, Infrastructure

LEMMA InitIInv == Init => IInv
  BY KindsDiffer DEF Init, IInv, TypeOK, FilterInv, ReapInv, NoPathYet, FilterIsPlaced,
     FilterBeforePath, NoChildYet, AllReaped, BeforeFilter, AfterFilter, Up,
     ReportInv, TakenIsWritten, ExitAfterReport, PressedBefore, BelowButton, Files

\* Every step keeps the types.
LEMMA TypeStep == TypeOK /\ [Next]_vars => TypeOK'
<1> SUFFICES ASSUME TypeOK, [Next]_vars PROVE TypeOK'
  OBVIOUS
<1> USE KindsDiffer DEF TypeOK, taskVars, reportVars, Spawn, LaunchSteps, LadderSteps, Ended
<1>1. CASE Launch
  <2>1. CASE Prepare BY <2>1 DEF Prepare
  <2>2. CASE Provision BY <2>2 DEF Provision
  <2>3. CASE SpawnShares
    BY <2>3 DEF SpawnShares, Kinds
  <2>4. CASE ShareWait BY <2>4 DEF ShareWait
  <2>5. CASE SpawnHolder BY <2>5 DEF SpawnHolder
  <2>6. CASE NetInit BY <2>6 DEF NetInit
  <2>7. CASE ApplyFilter BY <2>7 DEF ApplyFilter
  <2>8. CASE SpawnUplink BY <2>8 DEF SpawnUplink
  <2>9. CASE SpawnResolver BY <2>9 DEF SpawnResolver
  <2>10. CASE SpawnVmm BY <2>10 DEF SpawnVmm
  <2>17. CASE WritePid BY <2>17 DEF WritePid, Files
  <2>11. CASE Create BY <2>11 DEF Create, Files
  <2>12. CASE BootGuest BY <2>12 DEF BootGuest
  <2>13. CASE AgentAnswers BY <2>13 DEF AgentAnswers
  <2>14. CASE SendReady BY <2>14 DEF SendReady
  <2>15. CASE LaunchFails BY <2>15 DEF LaunchFails
  <2>16. CASE InstallHandler BY <2>16 DEF InstallHandler
  <2> QED
    BY <1>1, <2>1, <2>2, <2>3, <2>4, <2>5, <2>6, <2>7, <2>8, <2>9, <2>10, <2>11,
       <2>12, <2>13, <2>14, <2>15, <2>16, <2>17 DEF Launch
<1>2. CASE Ladder
  <2>1. CASE Monitor BY <2>1 DEF Monitor
  <2>2. CASE PowerButton BY <2>2 DEF PowerButton
  <2>3. CASE AwaitGuest BY <2>3 DEF AwaitGuest
  <2>4. CASE Destroy BY <2>4 DEF Destroy
  <2>5. CASE AwaitDestroyed BY <2>5 DEF AwaitDestroyed
  <2>6. CASE Reap
    <3>1. ASSUME NEW k \in Unreaped,
                 child' = [child EXCEPT ![k] = "reaped"],
                 held' \in {held, held \cup {k}}
          PROVE child' \in [Kinds -> {"unborn", "up", "exited", "reaped"}]
                    /\ held' \in SUBSET Kinds
      BY <3>1 DEF Unreaped
    <3>2. child' \in [Kinds -> {"unborn", "up", "exited", "reaped"}]
              /\ held' \in SUBSET Kinds
      BY <2>6, <3>1 DEF Reap
    <3> QED BY <2>6, <3>2 DEF Reap
  <2>7. CASE JoinTasks BY <2>7 DEF JoinTasks
  <2>8. CASE Sweep BY <2>8 DEF Sweep
  <2> QED
    BY <1>2, <2>1, <2>2, <2>3, <2>4, <2>5, <2>6, <2>7, <2>8 DEF Ladder
<1>3. CASE Main
  BY <1>3 DEF Main, ReportFailed, ReportReady, Exit
<1>4. ASSUME NEW k \in Kinds, ChildEnds(k) \/ StragglerEnds(k) PROVE TypeOK'
  BY <1>4 DEF ChildEnds, StragglerEnds
<1>5. CASE UnitStop \/ TaskEnds \/ LauncherGoes
  BY <1>5 DEF UnitStop, TaskEnds, LauncherGoes
<1>8. CASE LadderFails
  BY <1>8 DEF LadderFails
<1>6. CASE UNCHANGED vars
  BY <1>6 DEF vars
<1>7. CASE Collect
  BY <1>7 DEF Collect
<1> QED
  BY <1>1, <1>2, <1>3, <1>4, <1>5, <1>6, <1>7, <1>8 DEF Next

\* A step of the launch keeps the filter ahead of every path.
LEMMA FilterStep == TypeOK /\ FilterInv /\ [Next]_vars => FilterInv'
<1> SUFFICES ASSUME TypeOK, FilterInv, [Next]_vars PROVE FilterInv'
  OBVIOUS
<1> USE KindsDiffer
    DEF FilterInv, NoPathYet, FilterIsPlaced, FilterBeforePath, BeforeFilter, AfterFilter
<1>k. child \in [Kinds -> {"unborn", "up", "exited", "reaped"}]
  BY DEF TypeOK
<1>1. CASE Launch
  <2>1. CASE SpawnShares
    <3>1. \A t \in Shares : t # "uplink" /\ t # "vmm"
      OBVIOUS
    <3> QED
      BY <1>k, <2>1, <3>1 DEF SpawnShares, Spawn, reportVars
  <2>2. CASE SpawnHolder \/ SpawnUplink \/ SpawnResolver \/ SpawnVmm
    BY <1>k, <2>2 DEF SpawnHolder, SpawnUplink, SpawnResolver, SpawnVmm, Spawn, reportVars
  <2>3. CASE ApplyFilter
    BY <2>3 DEF ApplyFilter, reportVars
  <2>4. CASE Prepare \/ Provision \/ ShareWait \/ NetInit
    BY <2>4 DEF Prepare, Provision, ShareWait, NetInit, taskVars, reportVars
  <2>5. CASE WritePid \/ Create \/ BootGuest \/ AgentAnswers \/ SendReady \/ InstallHandler
    BY <2>5 DEF WritePid, Create, BootGuest, AgentAnswers, SendReady, InstallHandler, taskVars, reportVars
  <2>6. CASE LaunchFails
    BY <2>6 DEF LaunchFails, taskVars
  <2> QED
    BY <1>1, <2>1, <2>2, <2>3, <2>4, <2>5, <2>6 DEF Launch
<1>2. CASE Ladder
  <2>1. CASE Reap
    <3>1. pc' \in {"reap", "join"} /\ UNCHANGED <<mode, ruleset>>
      BY <2>1 DEF Reap, reportVars
    <3>2. \A k \in Kinds : child[k] = "unborn" => child'[k] = "unborn"
      BY <1>k, <2>1 DEF Reap, Unreaped
    <3> QED BY <3>1, <3>2
  <2>2. CASE Monitor \/ PowerButton \/ AwaitGuest \/ Destroy \/ AwaitDestroyed
                \/ JoinTasks \/ Sweep
    BY <2>2 DEF Monitor, PowerButton, AwaitGuest, Destroy, AwaitDestroyed, JoinTasks,
                Sweep, taskVars, reportVars
  <2> QED BY <1>2, <2>1, <2>2 DEF Ladder
<1>3. CASE Main
  <2>1. UNCHANGED <<mode, ruleset>> /\ pc' \in {pc, "dead", "exited"}
    BY <1>3 DEF Main, ReportFailed, ReportReady, Exit, taskVars, reportVars
  <2>2. \A k \in Kinds : child[k] = "unborn" <=> child'[k] = "unborn"
    BY <1>k, <1>3 DEF Main, ReportFailed, ReportReady, Exit, taskVars, Up
  <2> QED BY <2>1, <2>2
<1>4. ASSUME NEW k \in Kinds, ChildEnds(k) \/ StragglerEnds(k) PROVE FilterInv'
  BY <1>k, <1>4 DEF ChildEnds, StragglerEnds, Up, reportVars
<1>5. CASE UnitStop
  <2>1. UNCHANGED <<mode, ruleset>> /\ pc' \in {pc, "dead"}
    BY <1>5 DEF UnitStop
  <2>2. \A k \in Kinds : child[k] = "unborn" <=> child'[k] = "unborn"
    BY <1>k, <1>5 DEF UnitStop, Up
  <2> QED BY <2>1, <2>2
<1>6. CASE TaskEnds \/ LadderFails \/ LauncherGoes
  BY <1>6 DEF TaskEnds, LadderFails, LauncherGoes, taskVars, reportVars
<1>7. CASE UNCHANGED vars
  BY <1>7 DEF vars
<1>8. CASE Collect
  <2>1. UNCHANGED <<mode, ruleset>> /\ pc' = "collected"
    BY <1>8 DEF Collect, reportVars
  <2>2. \A k \in Kinds : child[k] = "unborn" <=> child'[k] = "unborn"
    BY <1>k, <1>8 DEF Collect, Up
  <2> QED BY <2>1, <2>2
<1> QED
  BY <1>1, <1>2, <1>3, <1>4, <1>5, <1>6, <1>7, <1>8 DEF Next

\* The sweep is reached only with every child gone.
LEMMA ReapStep == TypeOK /\ ReapInv /\ [Next]_vars => ReapInv'
<1> SUFFICES ASSUME TypeOK, ReapInv, [Next]_vars PROVE ReapInv'
  OBVIOUS
<1> USE DEF ReapInv, NoChildYet, AllReaped, Up
<1>k. child \in [Kinds -> {"unborn", "up", "exited", "reaped"}]
  BY DEF TypeOK
<1>1. CASE Launch
  <2>1. CASE Prepare
    BY <2>1 DEF Prepare, taskVars
  <2>2. pc \in LaunchSteps => pc' \notin {"prepare", "join", "sweep", "end", "exited"}
    BY <1>1 DEF Launch, Prepare, Provision, SpawnShares, ShareWait, SpawnHolder, NetInit,
       ApplyFilter, SpawnUplink, SpawnResolver, SpawnVmm, WritePid, Create, BootGuest, AgentAnswers,
       SendReady, InstallHandler, LaunchFails, LaunchSteps
  <2>3. Prepare \/ pc \in LaunchSteps
    BY <1>1 DEF Launch, Provision, SpawnShares, ShareWait, SpawnHolder, NetInit,
       ApplyFilter, SpawnUplink, SpawnResolver, SpawnVmm, WritePid, Create, BootGuest, AgentAnswers,
       SendReady, InstallHandler, LaunchFails, LaunchSteps
  <2>4. UNCHANGED lost
    BY <1>1 DEF Launch, Prepare, Provision, SpawnShares, ShareWait, SpawnHolder, NetInit,
       ApplyFilter, SpawnUplink, SpawnResolver, SpawnVmm, WritePid, Create, BootGuest, AgentAnswers,
       SendReady, InstallHandler, LaunchFails, taskVars
  <2>5. CASE pc \in LaunchSteps
    <3>1. ~lost BY <2>5 DEF LaunchSteps
    <3> QED BY <2>2, <2>4, <2>5, <3>1
  <2> QED BY <2>1, <2>3, <2>5
<1>2. CASE Ladder
  <2>1. CASE Reap
    <3>0. pc = "reap" /\ ~lost /\ UNCHANGED lost
      BY <2>1 DEF Reap
    <3>1. CASE Unreaped = {} /\ pc' = "join" /\ UNCHANGED child
      BY <1>k, <3>0, <3>1 DEF Unreaped
    <3>2. CASE UNCHANGED pc
      BY <3>0, <3>2
    <3> QED BY <2>1, <3>1, <3>2 DEF Reap
  <2>2. CASE JoinTasks \/ Sweep
    BY <2>2 DEF JoinTasks, Sweep, taskVars
  <2>3. CASE Monitor \/ PowerButton \/ AwaitGuest \/ Destroy \/ AwaitDestroyed
    BY <2>3 DEF Monitor, PowerButton, AwaitGuest, Destroy, AwaitDestroyed, taskVars
  <2> QED BY <1>2, <2>1, <2>2, <2>3 DEF Ladder
<1>3. CASE Main
  <2>1. CASE ReportFailed \/ Exit
    BY <2>1 DEF ReportFailed, Exit, taskVars
  <2>2. CASE ReportReady
    BY <1>k, <2>2 DEF ReportReady
  <2> QED BY <1>3, <2>1, <2>2 DEF Main
<1>4. ASSUME NEW k \in Kinds, ChildEnds(k) \/ StragglerEnds(k) PROVE ReapInv'
  BY <1>k, <1>4 DEF ChildEnds, StragglerEnds
<1>5. CASE UnitStop \/ TaskEnds \/ LadderFails \/ LauncherGoes
  BY <1>5 DEF UnitStop, TaskEnds, LadderFails, LauncherGoes, taskVars
<1>6. CASE UNCHANGED vars
  BY <1>6 DEF vars
<1>7. CASE Collect
  BY <1>7 DEF Collect, reportVars
<1> QED
  BY <1>1, <1>2, <1>3, <1>4, <1>5, <1>6, <1>7 DEF Next

\* The channel carries the outcome to a launcher that is still there.
LEMMA ReportStep == TypeOK /\ ReportInv /\ [Next]_vars => ReportInv'
<1> SUFFICES ASSUME TypeOK, ReportInv, [Next]_vars PROVE ReportInv'
  OBVIOUS
<1> USE DEF ReportInv, TakenIsWritten, ExitAfterReport
<1>1. CASE Launch
  <2>1. pc' # "exited" /\ UNCHANGED <<launcher, report>>
    BY <1>1 DEF Launch, Prepare, Provision, SpawnShares, ShareWait, SpawnHolder, NetInit,
       ApplyFilter, SpawnUplink, SpawnResolver, SpawnVmm, WritePid, Create, BootGuest, AgentAnswers,
       SendReady, InstallHandler, LaunchFails, LaunchSteps, reportVars
  <2>2. mail' \in {mail, "ready", "failed"}
    BY <1>1 DEF Launch, Prepare, Provision, SpawnShares, ShareWait, SpawnHolder, NetInit,
       ApplyFilter, SpawnUplink, SpawnResolver, SpawnVmm, WritePid, Create, BootGuest, AgentAnswers,
       SendReady, InstallHandler, LaunchFails, reportVars
  <2> QED BY <2>1, <2>2
<1>2. CASE Ladder
  BY <1>2 DEF Ladder, Monitor, PowerButton, AwaitGuest, Destroy, AwaitDestroyed, Reap,
     JoinTasks, Sweep, reportVars
<1>3. CASE Main
  BY <1>3 DEF Main, ReportFailed, ReportReady, Exit, TypeOK, Ended, taskVars, reportVars
<1>4. ASSUME NEW k \in Kinds, ChildEnds(k) \/ StragglerEnds(k) PROVE ReportInv'
  BY <1>4 DEF ChildEnds, StragglerEnds, reportVars
<1>5. CASE UnitStop \/ TaskEnds \/ LadderFails \/ LauncherGoes
  BY <1>5 DEF UnitStop, TaskEnds, LadderFails, LauncherGoes, Ended, taskVars, reportVars
<1>6. CASE UNCHANGED vars
  BY <1>6 DEF vars
<1>7. CASE Collect
  BY <1>7 DEF Collect, reportVars
<1> QED
  BY <1>1, <1>2, <1>3, <1>4, <1>5, <1>6, <1>7 DEF Next

\* The ladder passes the power button before anything below it.
LEMMA ButtonStep ==
    TypeOK /\ ReapInv /\ PressedBefore /\ [Next]_vars => PressedBefore'
<1> SUFFICES ASSUME TypeOK, ReapInv, PressedBefore, [Next]_vars PROVE PressedBefore'
  OBVIOUS
<1> USE KindsDiffer DEF PressedBefore, BelowButton, Up, Asked
<1>k. child \in [Kinds -> {"unborn", "up", "exited", "reaped"}]
  BY DEF TypeOK
<1>1. CASE Launch
  <2>1. CASE Prepare
    BY <2>1 DEF Prepare, taskVars, ReapInv, NoChildYet
  <2>2. CASE ~Prepare
    BY <1>1, <2>2 DEF Launch, Provision, SpawnShares, ShareWait, SpawnHolder, NetInit,
       ApplyFilter, SpawnUplink, SpawnResolver, SpawnVmm, WritePid, Create, BootGuest, AgentAnswers,
       SendReady, InstallHandler, LaunchFails
  <2> QED BY <2>1, <2>2
<1>2. CASE Ladder
  <2>1. CASE Monitor BY <2>1 DEF Monitor
  <2>2. CASE PowerButton BY <2>2 DEF PowerButton
  <2>3. CASE AwaitGuest \/ AwaitDestroyed \/ JoinTasks
    BY <2>3 DEF AwaitGuest, AwaitDestroyed, JoinTasks, taskVars
  <2>4. CASE Destroy BY <2>4 DEF Destroy
  <2>5. CASE Reap
    <3>1. pc = "reap" /\ UNCHANGED <<guest, button>>
      BY <2>5 DEF Reap
    <3>2. child'["vmm"] = "up" => child["vmm"] = "up"
      BY <1>k, <2>5 DEF Reap, Unreaped
    <3> QED BY <3>1, <3>2
  <2>6. CASE Sweep BY <2>6 DEF Sweep
  <2> QED BY <1>2, <2>1, <2>2, <2>3, <2>4, <2>5, <2>6 DEF Ladder
<1>3. CASE Main
  BY <1>k, <1>3 DEF Main, ReportFailed, ReportReady, Exit, taskVars
<1>4. ASSUME NEW k \in Kinds, ChildEnds(k) \/ StragglerEnds(k) PROVE PressedBefore'
  BY <1>k, <1>4 DEF ChildEnds, StragglerEnds
<1>5. CASE UnitStop \/ TaskEnds \/ LadderFails \/ LauncherGoes
  BY <1>k, <1>5 DEF UnitStop, TaskEnds, LadderFails, LauncherGoes, taskVars
<1>6. CASE UNCHANGED vars
  BY <1>6 DEF vars
<1>7. CASE Collect
  BY <1>7 DEF Collect, reportVars
<1> QED
  BY <1>1, <1>2, <1>3, <1>4, <1>5, <1>6, <1>7 DEF Next

\* The inductive invariant holds in every reachable state.
THEOREM Invariance == Spec => []IInv
<1>1. IInv /\ [Next]_vars => IInv'
  BY TypeStep, FilterStep, ReapStep, ReportStep, ButtonStep DEF IInv
<1> QED BY <1>1, InitIInv, PTL DEF Spec

\* The supervisor's state keeps its types, for every set of shares.
THEOREM TypeCorrect == Spec => []TypeOK
<1>1. IInv => TypeOK
  BY DEF IInv
<1> QED BY <1>1, Invariance, PTL

\* bring_up_network's order: in every allowlist launch, however it fails and
\* whoever dies, an uplink or a VMM is spawned only behind the ruleset.
THEOREM FilterFirst == Spec => []FilterBeforePath
<1>1. IInv => FilterBeforePath
  BY DEF IInv, FilterInv
<1> QED BY <1>1, Invariance, PTL

\* shutdown_children before cleanup: the runtime directory is swept, and the
\* process ends, with no child alive, for every set of shares, unless polling,
\* killing or reaping a child failed.
THEOREM NoChildOutlivesSweep == Spec => []SweptAfterReap
<1>1. IInv => SweptAfterReap
  BY DEF IInv, ReapInv, AllReaped, SweptAfterReap
<1> QED BY <1>1, Invariance, PTL

\* The handoff: a supervisor that ends by itself has told a launcher that is
\* still there how the launch went, whatever failed and whenever the socket's
\* name was swept.
THEOREM LauncherIsTold == Spec => []ReportDelivered
<1>1. IInv => ReportDelivered
  BY DEF IInv, ReportInv, TakenIsWritten, ExitAfterReport, ReportDelivered
<1> QED BY <1>1, Invariance, PTL

\* shutdown_children: no step of the ladder kills or destroys a booted guest
\* before ch-remote was asked for its power button, and one whose button was not
\* pressed had a ch-remote that failed.
THEOREM ButtonBeforeKill == Spec => LadderOffersButton
<1>1. IInv /\ [Next]_vars
        => (Up("vmm") /\ guest = "booted" /\ pc # "dead"
               /\ (child'["vmm"] = "reaped" \/ guest' = "destroyed") => Asked)
  <2> SUFFICES ASSUME IInv, [Next]_vars, Up("vmm"), guest = "booted", pc # "dead",
                      child'["vmm"] = "reaped" \/ guest' = "destroyed"
               PROVE Asked
    OBVIOUS
  <2> USE KindsDiffer DEF IInv, PressedBefore, BelowButton, Up
  <2>k. child \in [Kinds -> {"unborn", "up", "exited", "reaped"}]
    BY DEF TypeOK
  <2>1. CASE Launch
    <3>1. CASE SpawnShares \/ SpawnHolder \/ SpawnUplink \/ SpawnResolver \/ SpawnVmm
      BY <2>k, <3>1 DEF SpawnShares, SpawnHolder, SpawnUplink, SpawnResolver, SpawnVmm, Spawn
    <3>2. CASE ~(SpawnShares \/ SpawnHolder \/ SpawnUplink \/ SpawnResolver \/ SpawnVmm)
      BY <2>1, <3>2 DEF Launch, Prepare, Provision, ShareWait, NetInit, ApplyFilter, WritePid, Create,
         BootGuest, AgentAnswers, SendReady, InstallHandler, LaunchFails, taskVars
    <3> QED BY <3>1, <3>2
  <2>2. CASE Ladder
    BY <2>2 DEF Ladder, Monitor, PowerButton, AwaitGuest, Destroy, AwaitDestroyed, Reap,
       JoinTasks, Sweep, taskVars
  <2>3. CASE Main
    BY <2>k, <2>3 DEF Main, ReportFailed, ReportReady, Exit, taskVars
  <2>4. ASSUME NEW k \in Kinds, ChildEnds(k) \/ StragglerEnds(k) PROVE FALSE
    BY <2>k, <2>4 DEF ChildEnds, StragglerEnds
  <2>5. CASE UnitStop \/ TaskEnds \/ LadderFails \/ LauncherGoes
    BY <2>k, <2>5 DEF UnitStop, TaskEnds, LadderFails, LauncherGoes, taskVars
  <2>6. CASE UNCHANGED vars
    BY <2>6 DEF vars
  <2>7. CASE Collect
    BY <2>7 DEF Collect
  <2> QED
    BY <2>1, <2>2, <2>3, <2>4, <2>5, <2>6, <2>7 DEF Next
<1> QED BY <1>1, Invariance, PTL DEF Spec, LadderOffersButton, Asked
-----------------------------------------------------------------------------
(* Refinement: every step of a supervisor is a step of Target, or none.     *)

BeforeVmm == {"prepare", "provision", "shares", "sharewait", "holder", "net", "filter",
              "uplink", "resolver", "vmm"}
WithVmm == {"pid", "create", "boot", "agent", "ready", "install", "monitor"}

\* Nothing is sent or written before the launch is through.
SilentLaunch == pc = "prepare" \/ (pc \in LaunchSteps /\ pc # "install") => mail = "empty"

\* What the launcher was written was taken from the channel first.
WrittenIsTaken == mail # "taken" => report = "none"

\* The handler is installed by the monitor, and a stop without it is the end.
HandlerAfterLaunch ==
    /\ pc = "prepare" \/ pc \in LaunchSteps => sigterm = "default"
    /\ pc = "monitor" => sigterm \in {"handled", "raised"}
    /\ sigterm = "fatal" => pc \in {"dead", "collected"}

\* The VMM is spawned at its step, and not before.
VmmBorn ==
    /\ pc \in BeforeVmm => child["vmm"] = "unborn"
    /\ pc \in WithVmm => child["vmm"] # "unborn"

ViewInv == SilentLaunch /\ WrittenIsTaken /\ HandlerAfterLaunch /\ VmmBorn

\* Every step keeps what the mapping relies on.
LEMMA ViewStep == TypeOK /\ ViewInv /\ [Next]_vars => ViewInv'
<1> SUFFICES ASSUME TypeOK, ViewInv, [Next]_vars PROVE ViewInv'
  OBVIOUS
<1> USE KindsDiffer
    DEF ViewInv, SilentLaunch, WrittenIsTaken, HandlerAfterLaunch, VmmBorn, BeforeVmm,
        WithVmm, LaunchSteps
<1>k. child \in [Kinds -> {"unborn", "up", "exited", "reaped"}]
  BY DEF TypeOK
<1>1. CASE Launch
  <2>1. CASE SpawnShares
    <3>1. \A t \in Shares : t # "vmm"
      OBVIOUS
    <3> QED BY <1>k, <2>1, <3>1 DEF SpawnShares, Spawn, reportVars
  <2>2. CASE SpawnHolder \/ SpawnUplink \/ SpawnResolver \/ SpawnVmm
    BY <1>k, <2>2 DEF SpawnHolder, SpawnUplink, SpawnResolver, SpawnVmm, Spawn, reportVars
  <2>3. CASE Prepare \/ Provision \/ ShareWait \/ NetInit \/ ApplyFilter
    BY <2>3 DEF Prepare, Provision, ShareWait, NetInit, ApplyFilter, taskVars, reportVars
  <2>4. CASE WritePid \/ Create \/ BootGuest \/ AgentAnswers
    BY <2>4 DEF WritePid, Create, BootGuest, AgentAnswers, taskVars, reportVars
  <2>5. CASE SendReady \/ LaunchFails \/ InstallHandler
    BY <2>5 DEF SendReady, LaunchFails, InstallHandler, taskVars
  <2> QED
    BY <1>1, <2>1, <2>2, <2>3, <2>4, <2>5 DEF Launch
<1>2. CASE Ladder
  BY <1>2 DEF Ladder, Monitor, PowerButton, AwaitGuest, Destroy, AwaitDestroyed, Reap,
     JoinTasks, Sweep, taskVars, reportVars
<1>3. CASE Main
  BY <1>3 DEF Main, ReportFailed, ReportReady, Exit, Ended, taskVars, reportVars
<1>4. ASSUME NEW k \in Kinds, ChildEnds(k) \/ StragglerEnds(k) PROVE ViewInv'
  BY <1>k, <1>4 DEF ChildEnds, StragglerEnds, Up, reportVars
<1>5. CASE UnitStop
  BY <1>5 DEF UnitStop, Ended
<1>6. CASE TaskEnds \/ LadderFails \/ LauncherGoes
  BY <1>6 DEF TaskEnds, LadderFails, LauncherGoes, taskVars, reportVars
<1>7. CASE UNCHANGED vars
  BY <1>7 DEF vars
<1>8. CASE Collect
  BY <1>8 DEF Collect, reportVars
<1> QED
  BY <1>1, <1>2, <1>3, <1>4, <1>5, <1>6, <1>7, <1>8 DEF Next

\* The processes of Target see the launcher leave and the unit stopped.
LEMMA SameProcs ==
    ASSUME UNCHANGED launcher, Stopped' <=> Stopped
    PROVE  UNCHANGED T!procVars /\ UNCHANGED Holder
<1>1. Waits' <=> Waits BY DEF Waits
<1>2. UNCHANGED Holder BY <1>1 DEF Holder
<1>3. UNCHANGED ViewPc BY <1>1 DEF ViewPc
<1>4. UNCHANGED ViewJob BY <1>1 DEF ViewJob, Idle
<1>5. UNCHANGED ViewResult BY <1>1 DEF ViewResult
<1>6. QED BY <1>2, <1>3, <1>4, <1>5 DEF T!procVars

\* Target sees the files of the runtime directory, and one build throughout.
LEMMA SameFiles ==
    /\ UNCHANGED files => UNCHANGED T!dirVars
    /\ UNCHANGED T!rootVars
BY DEF T!dirVars, T!rootVars, Number

\* Target sees a child's life only where it is the VMM's.
LEMMA SameVm ==
    ASSUME child'["vmm"] = child["vmm"]
    PROVE  UNCHANGED ViewVms /\ UNCHANGED Number(child["vmm"] # "unborn")
BY DEF ViewVms, Up, Number

\* A step that Target does not see.
LEMMA Unseen ==
    ASSUME UNCHANGED <<launcher, files, report, mail>>, Stopped' <=> Stopped,
           child'["vmm"] = child["vmm"], UNCHANGED ViewSup, UNCHANGED ViewUnit,
           pc \in Ended <=> pc' \in Ended
    PROVE  UNCHANGED T!vars
<1>1. UNCHANGED T!procVars /\ UNCHANGED Holder BY SameProcs
<1>2. UNCHANGED T!dirVars /\ UNCHANGED T!rootVars BY SameFiles
<1>3. UNCHANGED ViewVms /\ UNCHANGED Number(child["vmm"] # "unborn") BY SameVm
<1>4. UNCHANGED ViewMail BY DEF ViewMail
<1>5. UNCHANGED ViewReport BY DEF ViewReport, Waits
<1>6. UNCHANGED T!supVars BY <1>1, <1>3, <1>4, <1>5 DEF T!supVars
<1>7. QED BY <1>1, <1>2, <1>6 DEF T!vars

\* The steps of Target that a supervisor and its surroundings take.
LEMMA Seen ==
    ASSUME \/ T!SupStep \/ T!SupMonitor \/ T!VmExit
           \/ T!Interrupt(Launcher) \/ T!StopUnit(Stopper)
    PROVE  T!Next
BY DEF T!Next, T!Step, T!ProcStep

\* A step of the task that leaves the launcher, the stop, the files and the
\* VMM alone changes in Target what it changes of the supervisor alone.
LEMMA TaskMoves ==
    ASSUME UNCHANGED <<launcher, sigterm, files, report>>,
           child'["vmm"] = child["vmm"], pc \notin Ended, pc' \notin Ended
    PROVE  /\ UNCHANGED T!procVars /\ UNCHANGED Holder
           /\ UNCHANGED T!dirVars /\ UNCHANGED T!rootVars
           /\ UNCHANGED ViewVms /\ UNCHANGED Number(child["vmm"] # "unborn")
           /\ UNCHANGED ViewUnit /\ UNCHANGED ViewReport
<1>1. Stopped' <=> Stopped BY DEF Stopped
<1>2. UNCHANGED ViewUnit BY DEF ViewUnit, Ended
<1>3. UNCHANGED ViewReport BY DEF ViewReport, Waits
<1>4. QED BY <1>1, <1>2, <1>3, SameProcs, SameFiles, SameVm

\* The launch: what comes before the VMM is one step to Target, the console and
\* the boot another, and the rest is step for step.
LEMMA LaunchView ==
    ASSUME TypeOK, ViewInv, Launch
    PROVE  T!Next \/ UNCHANGED T!vars
<1> USE KindsDiffer DEF Ended
<1>k. child \in [Kinds -> {"unborn", "up", "exited", "reaped"}]
  BY DEF TypeOK
<1>d. sigterm = "default"
  BY DEF Launch, Prepare, Provision, SpawnShares, ShareWait, SpawnHolder, NetInit,
     ApplyFilter, SpawnUplink, SpawnResolver, SpawnVmm, WritePid, Create, BootGuest,
     AgentAnswers, SendReady, LaunchFails, InstallHandler, ViewInv, HandlerAfterLaunch,
     LaunchSteps
<1>1. ASSUME \/ pc \in BeforeVmm /\ pc' \in BeforeVmm
             \/ pc = "boot" /\ pc' = "agent",
             child'["vmm"] = child["vmm"],
             UNCHANGED <<launcher, files, report, mail, sigterm>>
      PROVE  UNCHANGED T!vars
  <2>1. UNCHANGED ViewSup BY <1>1 DEF ViewSup, BeforeVmm
  <2>2. pc \notin Ended /\ pc' \notin Ended BY <1>1 DEF BeforeVmm
  <2>3. UNCHANGED ViewUnit BY <1>1, <2>2 DEF ViewUnit
  <2>4. QED BY <1>1, <2>1, <2>2, <2>3, Unseen DEF Stopped
<1>2. CASE Prepare
  <2>1. CASE pc' = "provision"
    BY <1>1, <1>2, <2>1 DEF Prepare, taskVars, BeforeVmm
  <2>2. CASE pc' = "end" /\ mail' = "failed"
    <3>1. ViewSup = "boot" /\ ViewSup' = "abortend"
      BY <1>2, <2>2, <1>d DEF Prepare, ViewSup
    <3>2. ViewMail' = "failed" BY <2>2 DEF ViewMail
    <3>3. T!SupPrepareFail
      BY <1>2, <2>2, <3>1, <3>2, TaskMoves DEF Prepare, taskVars, T!SupPrepareFail
    <3>4. QED BY <3>3, Seen DEF T!SupStep
  <2>3. QED BY <1>2, <2>1, <2>2 DEF Prepare
<1>3. CASE SpawnShares
  <2>1. \A t \in Shares : t # "vmm"
    OBVIOUS
  <2>2. QED BY <1>1, <1>3, <1>k, <2>1 DEF SpawnShares, Spawn, reportVars, BeforeVmm
<1>4. CASE Provision \/ ShareWait \/ NetInit \/ ApplyFilter
  BY <1>1, <1>4 DEF Provision, ShareWait, NetInit, ApplyFilter, taskVars, reportVars, BeforeVmm
<1>5. CASE SpawnHolder \/ SpawnUplink \/ SpawnResolver
  BY <1>1, <1>5, <1>k DEF SpawnHolder, SpawnUplink, SpawnResolver, Spawn, reportVars, BeforeVmm
<1>6. CASE SpawnVmm
  <2>1. child["vmm"] = "unborn" /\ child'["vmm"] = "up"
    BY <1>6, <1>k DEF SpawnVmm, Spawn, ViewInv, VmmBorn, BeforeVmm
  <2>2. /\ ViewVms = {} /\ ViewVms' = {[id |-> 1, build |-> Build]}
        /\ Number(child["vmm"] # "unborn") = 0 /\ Number(child["vmm"] # "unborn")' = 1
    BY <2>1 DEF ViewVms, Up, Number
  <2>3. ViewSup = "boot" /\ ViewSup' = "vmm" BY <1>6 DEF SpawnVmm, ViewSup
  <2>4. UNCHANGED ViewUnit /\ UNCHANGED ViewMail /\ UNCHANGED ViewReport
    BY <1>6 DEF SpawnVmm, ViewUnit, ViewMail, ViewReport, Waits, reportVars
  <2>5. UNCHANGED T!procVars /\ UNCHANGED Holder
    BY <1>6, SameProcs DEF SpawnVmm, reportVars, Stopped
  <2>6. UNCHANGED T!dirVars /\ UNCHANGED T!rootVars
    BY <1>6, SameFiles DEF SpawnVmm
  <2>7. T!SupSpawnVmm BY <2>2, <2>3, <2>4, <2>5, <2>6 DEF T!SupSpawnVmm
  <2>8. QED BY <2>7, Seen DEF T!SupStep
<1>7. CASE WritePid \/ Create
  <2>1. /\ UNCHANGED T!procVars /\ UNCHANGED Holder /\ UNCHANGED T!rootVars
        /\ UNCHANGED ViewVms /\ UNCHANGED Number(child["vmm"] # "unborn")
    BY <1>7, SameProcs, SameFiles, SameVm DEF WritePid, Create, reportVars, Stopped
  <2>2. UNCHANGED ViewUnit /\ UNCHANGED ViewMail /\ UNCHANGED ViewReport
    BY <1>7 DEF WritePid, Create, ViewUnit, ViewMail, ViewReport, Waits, reportVars
  <2>3. Number(child["vmm"] # "unborn") = 1
    BY <1>7 DEF WritePid, Create, ViewInv, VmmBorn, WithVmm, Number
  <2>4. CASE WritePid
    <3>1. ViewSup = "vmm" /\ ViewSup' = "pid" BY <2>4 DEF WritePid, ViewSup
    <3>2. "vm.pid" \in files' /\ \A f : f # "vm.pid" => (f \in files' <=> f \in files)
      BY <2>4 DEF WritePid
    <3>3. T!SupWritePid BY <2>1, <2>2, <2>3, <3>1, <3>2 DEF T!SupWritePid, Number
    <3>4. QED BY <3>3, Seen DEF T!SupStep
  <2>5. CASE Create
    <3>1. ViewSup = "pid" /\ ViewSup' = "guest" BY <2>5 DEF Create, ViewSup
    <3>2. /\ "boot.json" \in files' /\ "control" \in files'
          /\ \A f : f \notin {"boot.json", "control"} => (f \in files' <=> f \in files)
      BY <2>5 DEF Create
    <3>3. T!SupWriteBoot BY <2>1, <2>2, <2>3, <3>1, <3>2 DEF T!SupWriteBoot, Number
    <3>4. QED BY <3>3, Seen DEF T!SupStep
  <2>6. QED BY <1>7, <2>4, <2>5
<1>8. CASE BootGuest
  BY <1>1, <1>8 DEF BootGuest, reportVars
<1>9. CASE AgentAnswers
  <2>1. ViewSup = "guest" /\ ViewSup' = "answered" BY <1>9 DEF AgentAnswers, ViewSup
  <2>2. UNCHANGED ViewMail BY <1>9 DEF AgentAnswers, ViewMail, reportVars
  <2>3. Number(child["vmm"] # "unborn") = 1 /\ ViewVms = {[id |-> 1, build |-> Build]}
    BY <1>9 DEF AgentAnswers, Up, Number, ViewVms
  <2>4. T!Alive(Number(child["vmm"] # "unborn")) BY <2>3 DEF T!Alive
  <2>5. T!SupAnswered
    BY <1>9, <2>1, <2>2, <2>4, TaskMoves DEF AgentAnswers, taskVars, reportVars, T!SupAnswered
  <2>6. QED BY <2>5, Seen DEF T!SupStep
<1>10. CASE SendReady
  <2>1. /\ ViewSup = "answered" /\ ViewSup' = "ready" /\ ViewMail' = "ready"
    BY <1>10 DEF SendReady, ViewSup, ViewMail
  <2>2. T!SupReady
    BY <1>10, <2>1, TaskMoves DEF SendReady, taskVars, T!SupReady
  <2>3. QED BY <2>2, Seen DEF T!SupStep
<1>11. CASE LaunchFails
  <2>1. ViewSup \in {"boot", "vmm", "pid", "guest", "answered"}
    BY <1>11 DEF LaunchFails, LaunchSteps, ViewSup
  <2>2. ViewSup' = "abort" /\ ViewMail' = "failed"
    BY <1>11, <1>d DEF LaunchFails, ViewSup, ViewMail
  <2>3. pc \notin Ended /\ pc' \notin Ended BY <1>11 DEF LaunchFails, LaunchSteps
  <2>4. T!SupFail
    BY <1>11, <2>1, <2>2, <2>3, TaskMoves DEF LaunchFails, taskVars, T!SupFail
  <2>5. QED BY <2>4, Seen DEF T!SupStep
<1>12. CASE InstallHandler
  <2>1. ViewSup = "ready" /\ ViewSup' = "monitor" BY <1>12 DEF InstallHandler, ViewSup
  <2>2. UNCHANGED ViewUnit /\ UNCHANGED ViewMail /\ UNCHANGED ViewReport
    BY <1>12, <1>d DEF InstallHandler, ViewUnit, ViewMail, ViewReport, Waits
  <2>3. Stopped' <=> Stopped BY <1>12, <1>d DEF InstallHandler, Stopped
  <2>4. T!SupInstall
    BY <1>12, <2>1, <2>2, <2>3, SameProcs, SameFiles, SameVm
       DEF InstallHandler, taskVars, T!SupInstall
  <2>5. QED BY <2>4, Seen DEF T!SupStep
<1>13. QED
  BY <1>2, <1>3, <1>4, <1>5, <1>6, <1>7, <1>8, <1>9, <1>10, <1>11, <1>12 DEF Launch

\* The VMM's end, by itself or by the kill loop, is its exit to Target.
LEMMA VmmGoes ==
    ASSUME UNCHANGED <<launcher, sigterm, files, report, mail, pc>>,
           child["vmm"] = "up", child'["vmm"] \in {"exited", "reaped"}
    PROVE  T!Next
<1>1. UNCHANGED T!procVars /\ UNCHANGED Holder BY SameProcs DEF Stopped
<1>2. UNCHANGED T!dirVars /\ UNCHANGED T!rootVars BY SameFiles
<1>3. /\ ViewVms = {[id |-> 1, build |-> Build]} /\ ViewVms' = {}
      /\ UNCHANGED Number(child["vmm"] # "unborn")
  BY DEF ViewVms, Up, Number
<1>4. UNCHANGED ViewSup /\ UNCHANGED ViewUnit BY DEF ViewSup, ViewUnit
<1>5. UNCHANGED ViewMail /\ UNCHANGED ViewReport BY DEF ViewMail, ViewReport, Waits
<1>6. T!VmExit BY <1>1, <1>2, <1>3, <1>4, <1>5 DEF T!VmExit
<1>7. QED BY <1>6, Seen

\* The monitor and the ladder: Target's shutdown is the whole ladder up to the
\* end of the kill loop, and a VMM that it kills has exited.
LEMMA LadderView ==
    ASSUME TypeOK, ViewInv, Ladder \/ TaskEnds \/ LadderFails
    PROVE  T!Next \/ UNCHANGED T!vars
<1> USE KindsDiffer DEF Ended
<1>k. child \in [Kinds -> {"unborn", "up", "exited", "reaped"}]
  BY DEF TypeOK
<1>1. CASE Monitor \/ TaskEnds
  <2>1. /\ pc = "monitor" /\ pc' = "button" /\ UNCHANGED <<sigterm, mail>>
        /\ UNCHANGED <<launcher, files, report, child>>
    BY <1>1 DEF Monitor, TaskEnds, taskVars, reportVars
  <2>2. sigterm # "default" BY <2>1 DEF ViewInv, HandlerAfterLaunch
  <2>3. ViewSup = "monitor" /\ ViewSup' = "shutdown" BY <2>1, <2>2 DEF ViewSup
  <2>4. UNCHANGED ViewMail BY <2>1 DEF ViewMail
  <2>5. T!SupMonitor BY <2>1, <2>3, <2>4, TaskMoves DEF T!SupMonitor
  <2>6. QED BY <2>5, Seen
<1>2. CASE PowerButton \/ AwaitGuest \/ Destroy \/ AwaitDestroyed \/ JoinTasks
  <2>1. /\ \/ pc = "join" /\ pc' = "sweep"
           \/ /\ pc \in {"button", "await", "destroy", "await2"}
              /\ pc' \in {"await", "destroy", "await2", "reap"}
        /\ UNCHANGED <<sigterm, mail, launcher, files, report, child>>
    BY <1>2 DEF PowerButton, AwaitGuest, Destroy, AwaitDestroyed, JoinTasks, taskVars, reportVars
  <2>2. UNCHANGED ViewSup BY <2>1 DEF ViewSup
  <2>3. UNCHANGED ViewUnit BY <2>1 DEF ViewUnit
  <2>4. QED BY <2>1, <2>2, <2>3, Unseen DEF Stopped
<1>3. CASE Reap
  <2>1. pc = "reap" /\ UNCHANGED <<sigterm, mail, launcher, files, report>>
    BY <1>3 DEF Reap, reportVars
  <2>2. ASSUME NEW k \in Unreaped, child' = [child EXCEPT ![k] = "reaped"], UNCHANGED pc
        PROVE  T!Next \/ UNCHANGED T!vars
    <3>1. UNCHANGED ViewSup /\ UNCHANGED ViewUnit BY <2>1, <2>2 DEF ViewSup, ViewUnit
    <3>2. CASE k # "vmm"
      BY <1>k, <2>1, <2>2, <3>1, <3>2, Unseen DEF Stopped
    <3>3. CASE k = "vmm" /\ ~Up("vmm")
      <4>1. child["vmm"] = "exited" /\ child'["vmm"] = "reaped"
        BY <1>k, <2>2, <3>3 DEF Unreaped, Up
      <4>2. UNCHANGED ViewVms /\ UNCHANGED Number(child["vmm"] # "unborn")
        BY <4>1 DEF ViewVms, Up, Number
      <4>3. UNCHANGED ViewMail /\ UNCHANGED ViewReport
        BY <2>1, <2>2 DEF ViewMail, ViewReport, Waits
      <4>4. UNCHANGED T!procVars /\ UNCHANGED Holder BY <2>1, SameProcs DEF Stopped
      <4>5. UNCHANGED T!dirVars /\ UNCHANGED T!rootVars BY <2>1, SameFiles
      <4>6. UNCHANGED T!supVars BY <3>1, <4>2, <4>3, <4>4 DEF T!supVars
      <4>7. QED BY <4>4, <4>5, <4>6 DEF T!vars
    <3>4. CASE k = "vmm" /\ Up("vmm")
      <4>1. child["vmm"] = "up" /\ child'["vmm"] = "reaped"
        BY <1>k, <2>2, <3>4 DEF Up
      <4>2. QED BY <2>1, <2>2, <4>1, VmmGoes
    <3>5. QED BY <3>2, <3>3, <3>4
  <2>3. CASE Unreaped = {} /\ pc' = "join" /\ UNCHANGED child
    <3>1. ViewVms = {} BY <1>k, <2>3 DEF Unreaped, ViewVms, Up
    <3>2. /\ ViewSup \in {"shutdown", "abort"}
          /\ ViewSup' = IF ViewSup = "abort" THEN "abortsweep" ELSE "sweep"
      BY <2>1, <2>3 DEF ViewSup
    <3>3. UNCHANGED ViewMail BY <2>1, <2>3 DEF ViewMail
    <3>4. T!SupShutdown BY <2>1, <2>3, <3>1, <3>2, <3>3, TaskMoves DEF T!SupShutdown
    <3>5. QED BY <3>4, Seen DEF T!SupStep
  <2>4. QED BY <1>3, <2>2, <2>3 DEF Reap
<1>4. CASE Sweep
  <2>1. /\ pc = "sweep" /\ pc' = "end" /\ files' \in {files, {}}
        /\ UNCHANGED <<sigterm, mail, launcher, report, child>>
    BY <1>4 DEF Sweep, reportVars
  <2>2. /\ ViewSup \in {"sweep", "abortsweep"}
        /\ ViewSup' = IF ViewSup = "abortsweep" THEN "abortend" ELSE "end"
    BY <2>1 DEF ViewSup
  <2>3. UNCHANGED ViewUnit /\ UNCHANGED ViewMail /\ UNCHANGED ViewReport
    BY <2>1 DEF ViewUnit, ViewMail, ViewReport, Waits
  <2>4. T!EmptyDirectory \/ UNCHANGED T!dirVars
    BY <2>1, SameFiles DEF T!EmptyDirectory, Number
  <2>5. /\ UNCHANGED T!procVars /\ UNCHANGED Holder /\ UNCHANGED T!rootVars
        /\ UNCHANGED ViewVms /\ UNCHANGED Number(child["vmm"] # "unborn")
    BY <2>1, SameProcs, SameFiles, SameVm DEF Stopped
  <2>6. T!SupSweep BY <2>2, <2>3, <2>4, <2>5 DEF T!SupSweep
  <2>7. QED BY <2>6, Seen DEF T!SupStep
<1>5. CASE LadderFails
  <2>1. /\ ReapFails /\ pc \in {"await", "await2", "reap"} /\ pc' = "sweep"
        /\ UNCHANGED <<sigterm, mail, launcher, files, report, child>>
    BY <1>5 DEF LadderFails, reportVars
  <2>2. /\ ViewSup \in {"shutdown", "abort"}
        /\ ViewSup' = IF ViewSup = "abort" THEN "abortsweep" ELSE "sweep"
    BY <2>1 DEF ViewSup
  <2>3. UNCHANGED ViewMail BY <2>1 DEF ViewMail
  <2>4. T!SupShutdown BY <2>1, <2>2, <2>3, TaskMoves DEF T!SupShutdown
  <2>5. QED BY <2>4, Seen DEF T!SupStep
<1>6. QED BY <1>1, <1>2, <1>3, <1>4, <1>5 DEF Ladder

\* The main task: the report, and the end of the process.
LEMMA MainView ==
    ASSUME TypeOK, ViewInv, Main
    PROVE  T!Next
<1> USE DEF Ended
<1>1. /\ UNCHANGED <<sigterm, launcher, files, child>> /\ pc \notin Ended
      /\ UNCHANGED T!procVars /\ UNCHANGED Holder
      /\ UNCHANGED T!dirVars /\ UNCHANGED T!rootVars
      /\ UNCHANGED ViewVms /\ UNCHANGED Number(child["vmm"] # "unborn")
  <2>1. UNCHANGED <<sigterm, launcher, files, child>> /\ pc \notin Ended
    BY DEF Main, ReportFailed, ReportReady, Exit, taskVars, reportVars
  <2>2. QED BY <2>1, SameProcs, SameFiles, SameVm DEF Stopped
<1>w. launcher \in {"waiting", "gone"} BY DEF TypeOK
<1>2. ASSUME mail \in {"ready", "failed"}, mail' = "taken", UNCHANGED pc,
             report' = IF launcher = "waiting" THEN mail ELSE report,
             mail = "ready" => launcher = "waiting"
      PROVE  T!Next
  <2>1. UNCHANGED ViewSup /\ UNCHANGED ViewUnit BY <1>1, <1>2 DEF ViewSup, ViewUnit
  <2>2. ViewMail = mail /\ ViewMail' = "empty" BY <1>1, <1>2 DEF ViewMail
  <2>3. Holder # NoOne <=> launcher = "waiting" BY DEF Holder, Waits, NoOne, Launcher
  <2>4. ViewReport' = IF Holder # NoOne THEN mail ELSE ViewReport
    BY <1>1, <1>2, <2>3 DEF ViewReport, Waits
  <2>5. T!SupReport BY <1>1, <1>2, <2>1, <2>2, <2>3, <2>4 DEF T!SupReport
  <2>6. QED BY <2>5, Seen DEF T!SupStep
<1>3. CASE ReportFailed
  BY <1>2, <1>3 DEF ReportFailed
<1>4. CASE ReportReady /\ launcher = "waiting"
  BY <1>2, <1>4 DEF ReportReady
<1>5. ASSUME pc' \in {"dead", "exited"}, UNCHANGED report
      PROVE  T!SupExit
  <2>1. ViewSup' = "none" /\ ViewUnit' = "deactivating" /\ ViewMail' = "empty"
    BY <1>5 DEF ViewSup, ViewUnit, ViewMail
  <2>2. Holder # NoOne <=> launcher = "waiting" BY DEF Holder, Waits, NoOne, Launcher
  <2>3. ViewReport' = IF Holder # NoOne /\ ViewReport = "none" THEN "eof" ELSE ViewReport
    BY <1>1, <1>5, <2>2 DEF ViewReport, Waits
  <2>4. QED BY <2>1, <2>3 DEF T!SupExit, T!HangUp
<1>6. CASE ReportReady /\ launcher = "gone"
  <2>1. T!SupExit BY <1>5, <1>6 DEF ReportReady
  <2>2. ViewMail = "ready" BY <1>1, <1>6 DEF ReportReady, ViewMail
  <2>3. Holder = NoOne BY <1>6 DEF Holder, Waits
  <2>4. T!SupReport BY <1>1, <2>1, <2>2, <2>3 DEF T!SupReport
  <2>5. QED BY <2>4, Seen DEF T!SupStep
<1>7. CASE Exit
  <2>1. T!SupExit BY <1>5, <1>7 DEF Exit, taskVars, reportVars
  <2>2. ViewMail = "empty" /\ ViewSup \in {"end", "abortend"}
    BY <1>7 DEF Exit, ViewMail, ViewSup
  <2>3. T!SupEnd BY <1>1, <2>1, <2>2 DEF T!SupEnd
  <2>4. QED BY <2>3, Seen DEF T!SupStep
<1>8. QED BY <1>w, <1>3, <1>4, <1>6, <1>7 DEF Main

\* systemctl stop: with the handler Target's supervisor goes on, and without it
\* Target's supervisor is at a step where SIGTERM is fatal.
LEMMA StopView ==
    ASSUME TypeOK, ViewInv, UnitStop
    PROVE  T!Next
<1> USE DEF Ended
<1>1. /\ UNCHANGED <<launcher, files, child, mail, report>> /\ pc \notin Ended
      /\ ~Stopped /\ Stopped'
  BY DEF UnitStop, Stopped
<1>2. UNCHANGED Holder /\ UNCHANGED ViewJob /\ UNCHANGED ViewResult
  <2>1. Waits' <=> Waits BY <1>1 DEF Waits
  <2>2. QED BY <2>1 DEF Holder, ViewJob, Idle, ViewResult
<1>3. ViewPc[Stopper] = "stop" /\ ViewPc' = [ViewPc EXCEPT ![Stopper] = "poll"]
  BY <1>1 DEF ViewPc, Waits, Launcher, Stopper
<1>4. UNCHANGED T!dirVars /\ UNCHANGED T!rootVars BY <1>1, SameFiles
<1>5. UNCHANGED ViewVms /\ UNCHANGED Number(child["vmm"] # "unborn") BY <1>1, SameVm
<1>6. ViewUnit = "active" /\ ViewUnit' = "deactivating"
  BY <1>1 DEF UnitStop, ViewUnit, Stopped
<1>7. CASE sigterm = "handled"
  <2>1. UNCHANGED pc /\ sigterm' = "raised" BY <1>7 DEF UnitStop
  <2>2. pc \notin LaunchSteps /\ pc # "prepare" BY <1>7 DEF ViewInv, HandlerAfterLaunch
  <2>3. UNCHANGED ViewSup BY <1>7, <2>1 DEF ViewSup
  <2>4. ViewSup \in {"monitor", "shutdown", "sweep", "end"}
    BY <1>1, <1>7, <2>2 DEF ViewSup, LaunchSteps, LadderSteps, TypeOK
  <2>5. UNCHANGED ViewMail /\ UNCHANGED ViewReport
    BY <1>1, <2>1 DEF ViewMail, ViewReport, Waits
  <2>6. ~T!SigtermFatal BY <2>4 DEF T!SigtermFatal
  <2>7. T!StopUnit(Stopper)
    BY <1>2, <1>3, <1>4, <1>5, <1>6, <2>3, <2>5, <2>6 DEF T!StopUnit, T!Goto
  <2>8. QED BY <2>7, Seen
<1>8. CASE sigterm = "default"
  <2>1. pc' = "dead" /\ pc # "monitor"
    BY <1>8 DEF UnitStop, ViewInv, HandlerAfterLaunch
  <2>2. T!SigtermFatal
    BY <1>1, <1>8, <2>1 DEF T!SigtermFatal, ViewSup, LaunchSteps, LadderSteps, TypeOK
  <2>3. ViewSup' = "none" /\ ViewMail' = "empty" BY <2>1 DEF ViewSup, ViewMail
  <2>4. Holder # NoOne <=> launcher = "waiting" BY DEF Holder, Waits, NoOne, Launcher
  <2>5. ViewReport' = IF Holder # NoOne /\ ViewReport = "none" THEN "eof" ELSE ViewReport
    BY <1>1, <2>1, <2>4 DEF ViewReport, Waits
  <2>6. T!HangUp BY <2>3, <2>5 DEF T!HangUp
  <2>7. T!StopUnit(Stopper)
    BY <1>2, <1>3, <1>4, <1>5, <1>6, <2>2, <2>3, <2>6 DEF T!StopUnit, T!Goto
  <2>8. QED BY <2>7, Seen
<1>9. QED BY <1>7, <1>8 DEF UnitStop

\* The launcher is killed: it leaves its verb, and its connection is closed.
LEMMA LeaveView ==
    ASSUME LauncherGoes
    PROVE  T!Next
<1>1. /\ Waits /\ ~Waits' /\ LauncherLeaves
      /\ UNCHANGED <<files, child, mail, report, pc, sigterm>>
  BY DEF LauncherGoes, Waits, taskVars
<1>2. Stopped' <=> Stopped BY <1>1 DEF Stopped
<1>3. Holder = Launcher /\ Holder' = NoOne BY <1>1 DEF Holder
<1>4. ViewPc[Launcher] = "read" /\ ViewPc' = [ViewPc EXCEPT ![Launcher] = "idle"]
  BY <1>1, <1>2 DEF ViewPc, Launcher, Stopper
<1>5. ViewResult' = [ViewResult EXCEPT ![Launcher] = "failed"]
  BY <1>1 DEF ViewResult, Launcher, Stopper
<1>6. ViewJob' = [ViewJob EXCEPT ![Launcher] = T!NoJob]
  BY <1>1 DEF ViewJob, Launcher, Stopper, Idle, T!NoJob
<1>7. ViewReport' = "none" BY <1>1 DEF ViewReport
<1>8. UNCHANGED T!dirVars /\ UNCHANGED T!rootVars BY <1>1, SameFiles
<1>9. UNCHANGED ViewVms /\ UNCHANGED Number(child["vmm"] # "unborn") BY <1>1, SameVm
<1>10. UNCHANGED ViewSup /\ UNCHANGED ViewUnit /\ UNCHANGED ViewMail
  BY <1>1 DEF ViewSup, ViewUnit, ViewMail
<1>11. T!Return(Launcher, "failed")
  BY <1>3, <1>4, <1>5, <1>6, <1>7, <1>9, <1>10 DEF T!Return
<1>12. T!Interrupt(Launcher) BY <1>1, <1>4, <1>8, <1>11 DEF T!Interrupt
<1>13. QED BY <1>12, Seen

\* The manager ends the group and collects the unit.
LEMMA CollectView ==
    ASSUME TypeOK, Collect
    PROVE  T!Next
<1> USE KindsDiffer DEF Ended
<1>k. child \in [Kinds -> {"unborn", "up", "exited", "reaped"}]
  BY DEF TypeOK
<1>1. /\ pc \in {"exited", "dead"} /\ pc' = "collected"
      /\ UNCHANGED <<launcher, files, mail, report, sigterm>>
  BY DEF Collect, reportVars
<1>2. /\ child'["vmm"] # "up"
      /\ child'["vmm"] = "unborn" <=> child["vmm"] = "unborn"
  BY <1>k DEF Collect, Up
<1>3. ViewVms' = {} /\ UNCHANGED Number(child["vmm"] # "unborn")
  BY <1>2 DEF ViewVms, Up, Number
<1>4. UNCHANGED T!procVars /\ UNCHANGED Holder BY <1>1, SameProcs DEF Stopped
<1>5. UNCHANGED T!dirVars /\ UNCHANGED T!rootVars BY <1>1, SameFiles
<1>6. /\ ViewUnit = "deactivating" /\ ViewUnit' = "absent"
      /\ ViewSup = "none" /\ ViewSup' = "none"
  BY <1>1 DEF ViewUnit, ViewSup
<1>7. UNCHANGED ViewMail /\ UNCHANGED ViewReport
  BY <1>1 DEF ViewMail, ViewReport, Waits
<1>8. T!UnitReap BY <1>3, <1>4, <1>5, <1>6, <1>7 DEF T!UnitReap
<1>9. QED BY <1>8, Seen DEF T!SupStep

\* A child's end and a straggler's: the VMM's is seen, the others' are not.
LEMMA ChildView ==
    ASSUME TypeOK, NEW k \in Kinds, ChildEnds(k) \/ StragglerEnds(k)
    PROVE  T!Next \/ UNCHANGED T!vars
<1> USE KindsDiffer
<1>k. child \in [Kinds -> {"unborn", "up", "exited", "reaped"}]
  BY DEF TypeOK
<1>1. UNCHANGED <<launcher, sigterm, files, report, mail, pc>>
  BY DEF ChildEnds, StragglerEnds, reportVars
<1>2. CASE child'["vmm"] = child["vmm"]
  <2>1. UNCHANGED ViewSup /\ UNCHANGED ViewUnit BY <1>1 DEF ViewSup, ViewUnit
  <2>2. QED BY <1>1, <1>2, <2>1, Unseen DEF Stopped
<1>3. CASE child'["vmm"] # child["vmm"]
  <2>1. child["vmm"] = "up" /\ child'["vmm"] = "exited"
    BY <1>k, <1>3 DEF ChildEnds, StragglerEnds, Up
  <2>2. QED BY <1>1, <2>1, VmmGoes
<1>4. QED BY <1>2, <1>3

\* A launch begins in a state of Target.
LEMMA InitView == Init => T!TypeOK
<1> SUFFICES ASSUME Init PROVE T!TypeOK
  OBVIOUS
<1>1. /\ Waits /\ ~Stopped /\ pc = "prepare" /\ report = "none" /\ mail = "empty"
      /\ child["vmm"] = "unborn" /\ sigterm = "default"
  BY KindsDiffer DEF Init, Waits, Stopped
<1>2. ViewPc \in [{Launcher, Stopper} -> T!Labels] BY DEF ViewPc, T!Labels
<1>3. ViewJob \in [{Launcher, Stopper} -> T!Job]
  <2>1. /\ Idle \in T!Job /\ [Idle EXCEPT !.running = TRUE] \in T!Job
        /\ [Idle EXCEPT !.verb = "evaluate", !.build = Build] \in T!Job
    BY DEF Idle, T!Job, T!Verbs
  <2>2. QED BY <2>1 DEF ViewJob
<1>4. ViewResult \in [{Launcher, Stopper} -> T!Results] BY DEF ViewResult, T!Results
<1>5. ViewUnit = "active" /\ ViewSup = "boot" /\ ViewMail = "empty" /\ ViewReport = "none"
  BY <1>1 DEF ViewUnit, ViewSup, ViewMail, ViewReport, Ended
<1>6. /\ ViewVms = {} /\ Number(child["vmm"] # "unborn") \in Nat
      /\ Number("vm.pid" \in files) \in Nat /\ Number("boot.json" \in files) \in Nat
      /\ Number("control" \in files) \in Nat
  BY <1>1 DEF ViewVms, Up, Number
<1>7. Holder \in {Launcher, Stopper} \cup {NoOne} BY DEF Holder
<1>8. QED
  BY <1>2, <1>3, <1>4, <1>5, <1>6, <1>7 DEF T!TypeOK, T!StateOK, T!SupStates

\* The supervisor Target reasons about is the one that runs: for every set of
\* shares, whatever fails, whoever dies and whoever leaves, each step of a
\* Supervisor is one of Target's, or changes nothing Target sees.
THEOREM Refinement == Spec => ImplementsTarget
<1>1. Init => ViewInv
  BY KindsDiffer DEF Init, ViewInv, SilentLaunch, WrittenIsTaken, HandlerAfterLaunch, VmmBorn,
     BeforeVmm, WithVmm
<1>2. TypeOK /\ ViewInv /\ [Next]_vars => [T!Next]_(T!vars)
  <2> SUFFICES ASSUME TypeOK, ViewInv, [Next]_vars PROVE T!Next \/ UNCHANGED T!vars
    OBVIOUS
  <2>1. CASE UNCHANGED vars
    <3>1. UNCHANGED <<launcher, files, report, mail, sigterm, pc, child>> BY <2>1 DEF vars
    <3>2. UNCHANGED ViewSup /\ UNCHANGED ViewUnit BY <3>1 DEF ViewSup, ViewUnit
    <3>3. QED BY <3>1, <3>2, Unseen DEF Stopped
  <2>2. QED
    BY <2>1, LaunchView, LadderView, MainView, StopView, LeaveView, CollectView, ChildView
       DEF Next
<1>3. QED
  BY <1>1, <1>2, InitView, ViewStep, TypeCorrect, PTL DEF Spec, ImplementsTarget
=============================================================================
