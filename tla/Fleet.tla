---------------------------------- MODULE Fleet ----------------------------------
(***************************************************************************)
(* The verbs that look at, or act on, every sandbox of a host at once:     *)
(* `viv stop --all` (cli/lifecycle.rs), `viv status` and `viv status -g`   *)
(* (cli/fleet.rs), and the fleet measurement that `viv start` is admitted  *)
(* by and the trim suggestion rests on.  Each of them walks the sandboxes  *)
(* one after the other while those boot, end, grow and become unreadable,  *)
(* so what it says at the end mixes readings of different moments.         *)
(***************************************************************************)
EXTENDS Integers, Sequences, SequencesExt, FiniteSets

CONSTANTS
  Index,        \* the sandboxes of the manifest library, in index order
  Unindexed,    \* sandboxes whose manifest was removed while their VM ran
  HostMemory,   \* the memory of the host
  MemoryReserve, \* MEMORY_RESERVE_BYTES
  Ceiling,      \* the memory a VM was given
  MaxEvents     \* bound: changes the world makes while a verb walks

Members == ToSet(Index) \cup Unindexed
Unknown == -1        \* a reading nobody could take
Infinite == -1       \* no deadline
Answers == {"none", "ok", "refuse", "warn", "proceed"}

(* the name of a sandbox, as the result of a stop, is its failure *)
ASSUME FleetAssumption ==
  /\ Index \in Seq(ToSet(Index)) /\ IsFiniteSet(Unindexed)
  /\ ToSet(Index) \cap Unindexed = {} /\ Answers \cap Members = {}
  /\ {HostMemory, MemoryReserve, Ceiling, MaxEvents} \subseteq Nat
  /\ MemoryReserve > 0 /\ Ceiling > 0

VARIABLES
  vm,        \* per sandbox: phase, boot, charge, what systemd answers, whether the guest obeys
  listable,  \* the walk of the runtime root meets no error
  verb,      \* the command: "none" until it is given
  place,     \* where the command is
  todo,      \* the sandboxes still to visit, in order
  tally,     \* FleetUse: running, measured, sum, complete, and the host reading
  sweep,     \* stop: the sandboxes and the grace given, the failures in order
  rows,      \* status: the rows read so far, the last one perhaps unfinished
  verdict,   \* what the command ended with
  touched,   \* history: the sandboxes that changed since the command began
  events     \* the changes so far

fleetVars ==
  <<vm, listable, verb, place, todo, tally, sweep, rows, verdict, touched, events>>

Up == {"running", "stopping"}
Residue == Up \cup {"starting", "failed"}
Questions == {"state", "memory"}     \* what the service manager is asked of a unit

(* the sum of the charges, as the number of the units of memory in use *)
ChargeOf(set) == Cardinality({unit \in set \X (1 .. Ceiling) : unit[2] <= vm[unit[1]].charge})
Available == HostMemory - ChargeOf({t \in Members : vm[t].phase \in Up})

NoTally == [running |-> 0, measured |-> 0, sum |-> 0, complete |-> TRUE, available |-> Unknown]
NoSweep == [given |-> <<>>, force |-> FALSE, timeout |-> 0, failures |-> <<>>]

FleetInit ==
  /\ vm \in [Members -> [phase : {"absent", "built"} \cup Residue, boot : {1},
                         charge : {1, Ceiling}, answers : SUBSET Questions, obeys : BOOLEAN]]
  /\ listable \in BOOLEAN
  /\ verb = "none" /\ place = "idle" /\ todo = <<>>
  /\ tally = NoTally /\ sweep = NoSweep /\ rows = <<>>
  /\ verdict = "none" /\ touched = {} /\ events = 0
----------------------------------------------------------------------------
(* The world: other commands, guests and the service manager *)

Change(t, record) ==
  /\ events < MaxEvents /\ place \notin {"idle", "done"}
  /\ vm' = [vm EXCEPT ![t] = record]
  /\ touched' = touched \cup {t}
  /\ events' = events + 1
  /\ UNCHANGED <<listable, verb, place, todo, tally, sweep, rows, verdict>>

(* another `viv start` of t becomes ready, perhaps after a `viv stop`: a new boot *)
Boots(t) == Change(t, [vm[t] EXCEPT !.phase = "running", !.boot = @ + 1])

(* the guest of t ends, leaving records behind or not *)
EndsAs(t, phase) == vm[t].phase \in Up /\ Change(t, [vm[t] EXCEPT !.phase = phase])

(* the guest of t uses its memory, or its reading goes *)
Grows(t) ==
  vm[t].phase \in Up /\ vm[t].charge < Ceiling /\ Change(t, [vm[t] EXCEPT !.charge = Ceiling])
GoesSilent(t) ==
  \E question \in vm[t].answers : Change(t, [vm[t] EXCEPT !.answers = @ \ {question}])

World ==
  \E t \in Members :
    \/ Boots(t) \/ Grows(t) \/ GoesSilent(t)
    \/ \E phase \in {"built", "failed"} : EndsAs(t, phase)
----------------------------------------------------------------------------
(* A unit in transition may have no records yet, or none any more *)
Unread(t) == vm[t].phase \in Residue /\ "state" \notin vm[t].answers
Overlooked(t) == Unread(t) /\ vm[t].phase \in {"starting", "stopping"}

(* discriminate, classify: what a sandbox may be taken for.  Without an    *)
(* answer about the unit records mean a failure, and no records mean rest. *)
Discriminate(t) ==
  IF ~ Unread(t) THEN {vm[t].phase}
  ELSE {"failed"} \cup (IF Overlooked(t) THEN {"built"} ELSE {})
----------------------------------------------------------------------------
(* viv stop, viv stop --all *)

Give(name, at, who) ==
  /\ place = "idle"
  /\ verb' = name /\ place' = at /\ todo' = who
  /\ UNCHANGED <<vm, listable, rows, verdict, touched, events>>

BeginStop(force, timeout) ==
  /\ \E who \in {Index} \cup {<<t>> : t \in ToSet(Index)} :
       /\ Give("stop", "sweep", who)
       /\ sweep' = [NoSweep EXCEPT !.given = who, !.force = force, !.timeout = timeout]
  /\ UNCHANGED tally

(* grace_seconds: force wins over any timeout, a negative one is no deadline *)
Grace(force, timeout) ==
  IF force THEN 0 ELSE IF timeout < 0 THEN Infinite ELSE timeout

(* a sandbox that reads as built or absent is passed over *)
SweepNext ==
  /\ place = "sweep" /\ todo # <<>>
  /\ \E state \in Discriminate(Head(todo)) :
       IF state \in Residue
         THEN place' = "asking" /\ UNCHANGED todo
         ELSE todo' = Tail(todo) /\ UNCHANGED place
  /\ UNCHANGED <<vm, listable, verb, tally, sweep, rows, verdict, touched, events>>

(* record_failure, and on to the next sandbox *)
\* Mutant: the sweep ends at the first failure.
LeaveAtFailure(t) ==
  /\ sweep' = [sweep EXCEPT !.failures = Append(@, t)]
  /\ place' = "sweep" /\ todo' = <<>>
Failed(t) ==
  /\ sweep' = [sweep EXCEPT !.failures = Append(@, t)]
  /\ place' = "sweep" /\ todo' = Tail(todo)

(* stop_ladder reaches the service manager, or cannot *)
AskStop(reached) ==
  /\ place = "asking"
  /\ IF reached THEN place' = "waiting" /\ UNCHANGED <<todo, sweep>> ELSE Failed(Head(todo))
  /\ UNCHANGED <<vm, listable, verb, tally, rows, verdict, touched, events>>

(* The wait for the unit: a guest that does not obey holds it until the    *)
(* deadline, then it is killed.  A poll that is not answered ends the wait *)
(* as if the unit had gone; confirm_teardown then finds the records, where *)
(* there are any, as it finds what a dead VM left behind.  A kill may go   *)
(* unconfirmed.                                                            *)
StopEnd(t, gone) ==
  /\ place = "waiting" /\ t = Head(todo)
  /\ vm[t].phase \in Up =>
       vm[t].obeys \/ Grace(sweep.force, sweep.timeout) # Infinite \/ Unread(t)
  /\ gone = FALSE =>
       vm[t].phase = "failed" \/ (vm[t].phase \in Up /\ ~ vm[t].obeys) \/ Unread(t)
  /\ gone = TRUE => vm[t].phase # "failed"
  /\ IF gone
       THEN /\ \/ vm' = [vm EXCEPT ![t].phase = IF @ \in Residue THEN "built" ELSE @]
               \/ Overlooked(t) /\ UNCHANGED vm
            /\ place' = "sweep" /\ todo' = Tail(todo) /\ UNCHANGED sweep
       ELSE Failed(t) /\ UNCHANGED vm
  /\ UNCHANGED <<listable, verb, tally, rows, verdict, touched, events>>

(* after the whole sweep, the first failure is the verb's result *)
SweepDone ==
  /\ place = "sweep" /\ todo = <<>>
  /\ place' = "done"
  /\ verdict' = IF sweep.failures = <<>> THEN "ok" ELSE Head(sweep.failures)
  /\ UNCHANGED <<vm, listable, verb, todo, tally, sweep, rows, touched, events>>

StopStep ==
  \/ SweepNext \/ SweepDone
  \/ \E reached \in BOOLEAN : AskStop(reached)
  \/ \E t \in Members, gone \in BOOLEAN : StopEnd(t, gone)
----------------------------------------------------------------------------
(* admission and the trim suggestion: measured_use *)

(* near_ceiling: no product of the instance reaches the width of a word *)
NearCeiling(used) == used # Unknown /\ Ceiling > 0 /\ used * 10 >= Ceiling * 9

(* a scope without memory accounting has a state and no figure *)
Reading(t) == IF "memory" \in vm[t].answers THEN vm[t].charge ELSE Unknown

(* admit(available, fleet_used): a reading that does not exist decides nothing *)
Admit(available, used) ==
  CASE available = Unknown -> "proceed"
    [] available # Unknown /\ available < MemoryReserve -> "refuse"
    [] available >= MemoryReserve /\ used # Unknown /\ used > available - MemoryReserve -> "warn"
    [] OTHER -> "proceed"

(* host_memory: /proc/meminfo may not say *)
HostReadings == {Available, Unknown}

(* runtime_members: the walk finds every directory, or fails and says so *)
Walked(found) ==
  LET residue == {t \in Members : vm[t].phase \in Residue}
  IN  IF listable THEN found = residue ELSE found \subseteq residue

(* measured_use's domain: the library and the walk, or nothing when the index will not read *)
Domains(found) ==
  {SetToSeq(ToSet(Index) \cup found)} \cup (IF listable THEN {} ELSE {<<>>})

(* the refusal comes before anything is measured *)
BeginAdmission ==
  \E found \in SUBSET Members, reading \in HostReadings :
    /\ Walked(found)
    /\ \E who \in Domains(found) :
         Give("admit", "measure", IF Admit(reading, Unknown) = "refuse" THEN <<>> ELSE who)
    /\ tally' = [NoTally EXCEPT !.available = reading, !.complete = listable]
    /\ UNCHANGED sweep

BeginSuggestion(t) ==
  \E found \in SUBSET Members :
    /\ Walked(found)
    /\ Discriminate(t) \subseteq Up /\ NearCeiling(Reading(t))
    /\ \E who \in Domains(found) : Give("suggest", "measure", who)
    /\ tally' = [NoTally EXCEPT !.complete = listable]
    /\ UNCHANGED sweep

MeasureNext ==
  /\ place = "measure" /\ todo # <<>>
  /\ todo' = Tail(todo)
  /\ LET t == Head(todo)
         running == Discriminate(t) \subseteq Up
         measured == running /\ Reading(t) # Unknown
     IN  tally' = [tally EXCEPT !.running = IF running THEN @ + 1 ELSE @,
                                !.measured = IF measured THEN @ + 1 ELSE @,
                                !.sum = IF measured THEN @ + vm[t].charge ELSE @]
  /\ UNCHANGED <<vm, listable, verb, place, sweep, rows, verdict, touched, events>>

(* fleet_sum: an incomplete walk that found nothing knows nothing *)
FleetSum(use) ==
  CASE use.running = 0 -> IF use.complete THEN 0 ELSE Unknown
    [] use.running > 0 /\ use.measured > 0 -> use.sum
    [] OTHER -> Unknown

(* admission answers; the suggestion reads the host again, after the fleet *)
MeasureDone ==
  /\ place = "measure" /\ todo = <<>>
  /\ place' = "done"
  /\ \E reading \in IF verb = "admit" THEN {tally.available} ELSE HostReadings :
       verdict' = Admit(reading, FleetSum(tally))
  /\ UNCHANGED <<vm, listable, verb, todo, tally, sweep, rows, touched, events>>

MeasureStep == MeasureNext \/ MeasureDone
----------------------------------------------------------------------------
(* viv status, viv status -g *)

BeginStatus ==
  /\ \E who \in {Index} \cup {<<t>> : t \in ToSet(Index)} : Give("status", "report", who)
  /\ UNCHANGED <<tally, sweep>>

(* row: the state first, then the boot record of a running sandbox *)
ReadState ==
  /\ place = "report" /\ todo # <<>>
  /\ IF vm[Head(todo)].phase = "absent"
       THEN todo' = Tail(todo) /\ UNCHANGED <<place, rows>>
       ELSE /\ \E state \in Discriminate(Head(todo)) :
                 rows' = Append(rows, [sandbox |-> Head(todo), state |-> state,
                                       record |-> Unknown, memory |-> Unknown, counted |-> Unknown])
            /\ place' = "record" /\ UNCHANGED todo
  /\ UNCHANGED <<vm, listable, verb, tally, sweep, verdict, touched, events>>

LastRow == rows[Len(rows)]

ReadRecord ==
  /\ place = "record" /\ place' = "readings"
  /\ rows' = [rows EXCEPT ![Len(rows)].record =
                IF LastRow.state \in Up /\ vm[LastRow.sandbox].phase \in Residue
                  THEN vm[LastRow.sandbox].boot ELSE Unknown]
  /\ UNCHANGED <<vm, listable, verb, todo, tally, sweep, verdict, touched, events>>

(* session_count greets with the recorded identity, and an agent of another boot refuses *)
SessionCount(t, record) ==
  IF vm[t].phase \in Up /\ record # Unknown /\ vm[t].boot = record THEN vm[t].boot ELSE Unknown

(* the ping may time out; memory is asked of the service manager *)
ReadRuntime(answered) ==
  /\ place = "readings" /\ place' = "report" /\ todo' = Tail(todo)
  /\ rows' = [rows EXCEPT
       ![Len(rows)].memory = IF LastRow.state \in Up THEN Reading(LastRow.sandbox) ELSE Unknown,
       ![Len(rows)].counted = IF answered THEN SessionCount(LastRow.sandbox, LastRow.record)
                              ELSE Unknown]
  /\ UNCHANGED <<vm, listable, verb, tally, sweep, verdict, touched, events>>

ReportDone ==
  /\ place = "report" /\ todo = <<>>
  /\ place' = "done" /\ verdict' = "ok"
  /\ UNCHANGED <<vm, listable, verb, todo, tally, sweep, rows, touched, events>>

StatusStep ==
  \/ ReadState \/ ReadRecord \/ ReportDone
  \/ \E answered \in BOOLEAN : ReadRuntime(answered)

FleetNext ==
  \/ World \/ StopStep \/ MeasureStep \/ StatusStep
  \/ \E force \in BOOLEAN, timeout \in {Infinite, 0, 10} : BeginStop(force, timeout)
  \/ BeginAdmission \/ BeginStatus
  \/ \E t \in ToSet(Index) : BeginSuggestion(t)

FleetSpec == FleetInit /\ [][FleetNext]_fleetVars
----------------------------------------------------------------------------
FleetTypeOK ==
  /\ vm \in [Members -> [phase : {"absent", "built"} \cup Residue, boot : 1 .. 1 + MaxEvents,
                         charge : 0 .. Ceiling, answers : SUBSET Questions, obeys : BOOLEAN]]
  /\ place \in {"idle", "sweep", "asking", "waiting", "measure", "report", "record",
                "readings", "done"}
  /\ ToSet(todo) \subseteq Members /\ touched \subseteq Members
  /\ tally.measured <= tally.running /\ tally.running <= Cardinality(Members)
  /\ ToSet(sweep.failures) \subseteq ToSet(sweep.given)
  /\ verdict \in Answers \cup Members

(* The sweep leaves nobody behind: once `viv stop --all` is over, a        *)
(* sandbox it was given and that nobody else touched is down or is among   *)
(* the failures; one that fails does not shield those after it             *)
(* (stop_all: every sandbox is attempted).  The one exception is a unit in *)
(* transition about which the manager does not answer: without records it  *)
(* reads as built, and is passed over.                                     *)
SweepLeavesNoneBehind ==
  (verb = "stop" /\ place = "done") =>
    \A t \in ToSet(sweep.given) \ touched :
      vm[t].phase \notin Residue \/ t \in ToSet(sweep.failures) \/ Overlooked(t)

(* `viv stop` that exits 0 left every sandbox it was given down, unless    *)
(* somebody else touched it meanwhile or it was overlooked.  A VM whose    *)
(* polls went unanswered is no exception: its records make the stop fail   *)
(* (record_failure, confirm_teardown).                                     *)
OkMeansDown ==
  (verb = "stop" /\ verdict = "ok") =>
    \A t \in ToSet(sweep.given) \ touched : vm[t].phase \notin Residue \/ Overlooked(t)

(* An unreadable fleet is not mistaken for an empty one where what cannot  *)
(* be read is the runtime root, the index or a memory figure: the sum is   *)
(* zero only if no VM that was left alone and whose unit's state could be  *)
(* asked was up, its manifest in the library or not (fleet_sum,            *)
(* runtime_members).  Where the state itself cannot be asked the code does *)
(* make that mistake: the VM reads as failed and is not counted.           *)
ZeroMeansEmpty ==
  (place = "done" /\ verdict \in {"warn", "proceed"} /\ FleetSum(tally) = 0) =>
    \A t \in Members \ touched : vm[t].phase \notin Up \/ Unread(t)

(* A start is let through in silence over a fleet that held still and      *)
(* could be read only if what the fleet uses fits above the reserve:       *)
(* every running VM was counted, and once (measured_use, admit).           *)
SilenceMeansRoom ==
  (/\ verb = "admit" /\ verdict = "proceed" /\ touched = {} /\ listable
   /\ tally.available # Unknown
   /\ \A t \in Members : vm[t].phase \in Up => vm[t].answers = Questions) =>
    ChargeOf({t \in Members : vm[t].phase \in Up}) <= Available - MemoryReserve

(* A row's session count is of the boot whose record the row read, though  *)
(* the VM may be replaced between the two (session_count's greeting).      *)
CountsItsOwnBoot ==
  \A i \in DOMAIN rows : rows[i].counted \in {Unknown, rows[i].record}

(* The promises of the host-wide verbs at every state: the five above.     *)
FleetSafe ==
  /\ FleetTypeOK
  /\ SweepLeavesNoneBehind /\ OkMeansDown /\ ZeroMeansEmpty
  /\ SilenceMeansRoom /\ CountsItsOwnBoot
=============================================================================
