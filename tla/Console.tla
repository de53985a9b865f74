------------------------------ MODULE Console ------------------------------
(***************************************************************************)
(* The console capture of one boot: the supervisor's sink, which writes    *)
(* the guest console to console.log and rotates it, and the follower of    *)
(* `viv start --attach', which forwards the capture to the terminal.       *)
(*                                                                         *)
(* A chunk is the number of a read of the console; 0 is a chunk of an      *)
(* earlier boot.  A file is an inode with the chunks appended to it.       *)
(***************************************************************************)
EXTENDS Naturals, Sequences, SequencesExt

CONSTANTS
    MaxChunks,      \* chunks the guest console produces at most
    RotateChunks,   \* CONSOLE_ROTATE_BYTES, in chunks
    StablePolls,    \* STABLE_EOF_POLLS
    MaxFiles        \* inodes

ASSUME ConsoleAssumption ==
    /\ MaxChunks \in Nat
    /\ {RotateChunks, StablePolls, MaxFiles} \subseteq Nat \ {0}
    /\ MaxFiles > MaxChunks     \* a chunk makes at most one rotation

VARIABLES
    capture,    \* the names of the capture, the inodes behind them, inodes used
    sink,       \* the supervisor's console task
    vm,         \* the VM and its unit
    follower,   \* the task that streams the capture
    attach      \* the command: booted flag, cancellation and result

consoleVars == <<capture, sink, vm, follower, attach>>

Files == 1..MaxFiles
NoFile == 0

ConsoleTypeOK ==
    /\ capture \in [log : 0..MaxFiles, one : 0..MaxFiles, two : 0..MaxFiles,
                    data : [Files -> Seq(0..MaxChunks)], used : 0..MaxFiles]
    /\ sink \in [pc : {"closed", "idle", "shift", "rename", "reopen", "write", "done"},
                 file : 0..MaxFiles, written : Nat, chunk : 0..MaxChunks, pending : 0..MaxChunks]
    /\ vm \in {"launching", "up", "stopping", "dead", "ending", "down"}
    /\ follower \in [pc : {"none", "open", "read", "check", "polled", "ended", "detached", "broken"},
                     file : 0..MaxFiles, pos : Nat, forwarded : BOOLEAN, quiet : 0..StablePolls,
                     last : {"no", "ended", "detached"}, due : SUBSET (0..MaxChunks),
                     out : Seq(0..MaxChunks)]
    /\ attach \in [booted : BOOLEAN, cancel : BOOLEAN,
                   exit : {"none", "success", "signal", "failed"}]

\* An earlier boot whose supervisor died left its capture behind.
ConsoleInit ==
    /\ \E old \in {0, 1} :
          capture = [log |-> old, one |-> NoFile, two |-> NoFile, used |-> old,
                     data |-> [f \in Files |-> IF f <= old THEN <<0>> ELSE <<>>]]
    /\ sink = [pc |-> "closed", file |-> NoFile, written |-> 0, chunk |-> 0, pending |-> 0]
    /\ vm = "launching"
    /\ follower = [pc |-> "none", file |-> NoFile, pos |-> 0, forwarded |-> FALSE, quiet |-> 0,
                   last |-> "no", due |-> {}, out |-> <<>>]
    /\ attach = [booted |-> FALSE, cancel |-> FALSE, exit |-> "none"]

-----------------------------------------------------------------------------
(* The sink: ConsoleSink, ConsoleReader::spawn, rotate.                    *)

\* secure_open: the file of that name is appended to, or created.
SecureOpen ==
    IF capture.log # NoFile THEN capture
    ELSE [capture EXCEPT !.log = capture.used + 1, !.used = @ + 1]

\* ConsoleSink::open, before the VM is created; it counts what is there.
SinkOpen ==
    /\ sink.pc = "closed" /\ vm = "launching" /\ follower.pc # "none"
    /\ capture' = SecureOpen
    /\ sink' = [sink EXCEPT !.pc = "idle", !.file = SecureOpen.log,
                            !.written = Len(capture.data[SecureOpen.log])]
    /\ UNCHANGED <<vm, follower, attach>>

\* One read of the console, which may hold more than the VMM lived to see read:
\* write_all decides whether to rotate first.
SinkReads ==
    /\ sink.pc = "idle" /\ vm # "down" /\ sink.chunk < MaxChunks
    /\ sink' = [sink EXCEPT !.chunk = @ + 1,
                            !.pc = IF sink.written + 1 > RotateChunks THEN "shift" ELSE "write"]
    /\ UNCHANGED <<capture, vm, follower, attach>>

\* rotate: the flush, and .1 over .2
SinkShifts ==
    /\ sink.pc = "shift" /\ sink.pending = 0
    /\ capture' = [capture EXCEPT !.one = NoFile, !.two = IF capture.one = NoFile THEN @ ELSE capture.one]
    /\ sink' = [sink EXCEPT !.pc = "rename"]
    /\ UNCHANGED <<vm, follower, attach>>

SinkRenames ==
    /\ sink.pc = "rename"
    /\ capture' = [capture EXCEPT !.one = capture.log, !.log = NoFile]
    /\ sink' = [sink EXCEPT !.pc = "reopen"]
    /\ UNCHANGED <<vm, follower, attach>>

SinkReopens ==
    /\ sink.pc = "reopen"
    /\ capture' = SecureOpen
    /\ sink' = [sink EXCEPT !.pc = "write", !.file = SecureOpen.log, !.written = 0]
    /\ UNCHANGED <<vm, follower, attach>>

\* A Tokio write returns once it is handed to the blocking pool, and the next
\* one waits for it.
SinkWrites ==
    /\ sink.pc = "write" /\ sink.pending = 0
    /\ sink' = [sink EXCEPT !.pc = "idle", !.pending = sink.chunk, !.written = @ + 1]
    /\ UNCHANGED <<capture, vm, follower, attach>>

WriteLands ==
    /\ sink.pending # 0
    /\ capture' = [capture EXCEPT !.data[sink.file] = Append(@, sink.pending)]
    /\ sink' = [sink EXCEPT !.pending = 0]
    /\ UNCHANGED <<vm, follower, attach>>

\* The console ended with its VMM, or the task was cancelled behind the kill
\* loop: the sink is flushed.
SinkEnds ==
    /\ sink.pc = "idle" /\ vm \in {"dead", "ending"} /\ sink.pending = 0
    /\ sink' = [sink EXCEPT !.pc = "done"]
    /\ UNCHANGED <<capture, vm, follower, attach>>

\* A rename, an open or a write that fails ends the task; the VM goes on.
SinkFails ==
    /\ sink.pc \in {"shift", "rename", "reopen", "write"} /\ sink.pending = 0
    /\ sink' = [sink EXCEPT !.pc = "done"]
    /\ UNCHANGED <<capture, vm, follower, attach>>

-----------------------------------------------------------------------------
(* The VM and its supervisor, as far as the capture sees them.             *)

\* The unit is stopped: the VM is on its way down, or already dead.
UnitStops ==
    /\ vm \in {"launching", "up", "dead"} /\ sink.pc # "closed"
    /\ vm' = IF vm = "dead" THEN "ending" ELSE "stopping"
    /\ UNCHANGED <<capture, sink, follower, attach>>

\* The VMM is gone, by itself or by the ladder, and the supervisor is not.
VmmDies ==
    /\ vm \in {"launching", "up", "stopping"} /\ sink.pc # "closed"
    /\ vm' = IF vm = "stopping" THEN "ending" ELSE "dead"
    /\ UNCHANGED <<capture, sink, follower, attach>>

\* The task was joined, then cleanup_runtime removes every name.
Sweep ==
    /\ vm \in {"dead", "ending"} /\ sink.pc = "done"
    /\ vm' = "down"
    /\ capture' = [capture EXCEPT !.log = NoFile, !.one = NoFile, !.two = NoFile]
    /\ UNCHANGED <<sink, follower, attach>>

\* The supervisor is killed: what it had not written is gone, the files stay.
SupervisorKilled ==
    /\ vm # "down" /\ sink.pc # "closed"
    /\ vm' = "down"
    /\ sink' = [sink EXCEPT !.pc = "done", !.pending = 0]
    /\ UNCHANGED <<capture, follower, attach>>

-----------------------------------------------------------------------------
(* The follower: cli/attach.rs.                                            *)

\* Follower::resuming, when the boot is certain: an existing capture is
\* another boot's, and is skipped.
Resume ==
    /\ follower.pc = "none"
    /\ follower' = [follower EXCEPT !.pc = IF capture.log = NoFile THEN "open" ELSE "read",
                                    !.file = capture.log,
                                    !.pos = IF capture.log = NoFile THEN 0
                                            ELSE Len(capture.data[capture.log])]
    /\ UNCHANGED <<capture, sink, vm, attach>>

\* Follower::poll: a name that is not there yet is quiet.
PollOpens ==
    /\ follower.pc = "open"
    /\ follower' = IF capture.log = NoFile THEN [follower EXCEPT !.pc = "polled"]
                   ELSE [follower EXCEPT !.pc = "read", !.file = capture.log, !.pos = 0]
    /\ UNCHANGED <<capture, sink, vm, attach>>

\* The held file is forwarded to its end.  A closed terminal ends the task.
PollReads ==
    LET data == capture.data[follower.file] IN
    /\ follower.pc = "read"
    /\ \/ /\ follower.pos < Len(data)
          /\ follower' = [follower EXCEPT !.out = @ \o SubSeq(data, follower.pos + 1, Len(data)),
                                          !.pos = Len(data), !.forwarded = TRUE]
       \/ /\ follower.pos < Len(data)
          /\ follower' = [follower EXCEPT !.pc = "broken"]
       \/ /\ follower.pos = Len(data)
          /\ follower' = [follower EXCEPT !.pc = "check"]
    /\ UNCHANGED <<capture, sink, vm, attach>>

\* Mutant: a rotation is followed by reading the held file again.
PollRewinds ==
    /\ follower.pc = "check"
    /\ follower' = IF capture.log \in {NoFile, follower.file}
                   THEN [follower EXCEPT !.pc = "polled"]
                   ELSE [follower EXCEPT !.pc = "read", !.pos = 0]
    /\ UNCHANGED <<capture, sink, vm, attach>>

\* The identity check at end of file: rotated, torn down, or the same
PollChecks ==
    /\ follower.pc = "check"
    /\ follower' = CASE capture.log = follower.file -> [follower EXCEPT !.pc = "polled"]
                     [] capture.log = NoFile -> [follower EXCEPT !.pc = "polled", !.file = NoFile]
                     [] OTHER -> [follower EXCEPT !.pc = "open", !.file = NoFile]
    /\ UNCHANGED <<capture, sink, vm, attach>>

\* The next poll of the stream, which may be its last.  `due' remembers what
\* console.log held when the last one began.
NextPoll(last, quiet) ==
    [follower EXCEPT !.pc = IF follower.file = NoFile THEN "open" ELSE "read",
                     !.forwarded = FALSE, !.quiet = quiet, !.last = last,
                     !.due = IF last = "ended" /\ capture.log # NoFile
                             THEN Range(capture.data[capture.log]) ELSE {}]

\* What discriminate may answer: the VM left its running states.  It did for the
\* reader once the VMM's pid is dead, although the sink still drains, unless its
\* unit is being stopped; and any VM reads failed to one the manager leaves
\* without an answer.
ReadsGone == IF vm \in {"dead", "down"} THEN {TRUE} ELSE BOOLEAN

\* Mutant: quiet polls are never counted.
NeverQuiet ==
    /\ follower.pc = "polled"
    /\ follower' = IF follower.last # "no" THEN [follower EXCEPT !.pc = follower.last]
                   ELSE NextPoll(IF attach.cancel THEN "detached" ELSE "no", 0)
    /\ UNCHANGED <<capture, sink, vm, attach>>

\* stream: what a finished poll means
StreamStep == \E found \in ReadsGone :
    LET gone  == attach.booted /\ ~follower.forwarded /\ found
        quiet == IF gone THEN follower.quiet + 1
                 ELSE IF follower.forwarded \/ attach.booted THEN 0 ELSE follower.quiet
    IN
    /\ follower.pc = "polled"
    /\ follower' = CASE follower.last # "no" -> [follower EXCEPT !.pc = follower.last]
                     [] follower.last = "no" /\ quiet >= StablePolls -> NextPoll("ended", quiet)
                     [] follower.last = "no" /\ quiet < StablePolls ->
                            NextPoll(IF attach.cancel THEN "detached" ELSE "no", quiet)
    /\ UNCHANGED <<capture, sink, vm, attach>>

-----------------------------------------------------------------------------
(* The command: start_attached.                                            *)

\* perform_start returned: the VM was ready, however long it lived after that,
\* or the boot failed.
BootReturns ==
    /\ ~attach.booted /\ ~attach.cancel /\ sink.pc # "closed"
    /\ \/ /\ vm = "launching" /\ vm' = "up"
          /\ attach' = [attach EXCEPT !.booted = TRUE]
       \/ /\ vm \notin {"launching", "up"} /\ UNCHANGED vm
          /\ attach' \in {[attach EXCEPT !.booted = TRUE], [attach EXCEPT !.cancel = TRUE]}
    /\ UNCHANGED <<capture, sink, follower>>

\* SIGINT detaches with success, another signal is reported; then the stream
\* is cancelled.
SignalArrives ==
    /\ attach.booted /\ ~attach.cancel /\ attach.exit = "none"
    /\ \E exit \in {"success", "signal"} : attach' = [attach EXCEPT !.cancel = TRUE, !.exit = exit]
    /\ UNCHANGED <<capture, sink, vm, follower>>

\* stream_exit: a closed terminal is a reader that left.
StreamReturns ==
    /\ attach.exit = "none" /\ follower.pc \in {"ended", "detached", "broken"}
    /\ attach' = [attach EXCEPT !.exit = IF attach.booted THEN "success" ELSE "failed"]
    /\ UNCHANGED <<capture, sink, vm, follower>>

-----------------------------------------------------------------------------
SinkStep == SinkOpen \/ SinkShifts \/ SinkRenames \/ SinkReopens \/ SinkWrites \/ WriteLands
            \/ SinkEnds \/ SinkFails \/ Sweep
FollowerStep == Resume \/ PollOpens \/ PollReads \/ PollChecks \/ StreamStep \/ StreamReturns

ConsoleNext == SinkStep \/ SinkReads \/ UnitStops \/ VmmDies \/ SupervisorKilled
               \/ FollowerStep \/ BootReturns \/ SignalArrives

\* Tasks and threads are scheduled; the guest and the user owe nothing.
ConsoleSpec == ConsoleInit /\ [][ConsoleNext]_consoleVars
               /\ WF_consoleVars(SinkStep) /\ WF_consoleVars(FollowerStep)

-----------------------------------------------------------------------------
(* Properties.                                                             *)

\* What the terminal got is this boot's output, in the order the guest wrote
\* it and without repetition, whatever was renamed, reopened or appended to
\* between two polls.
ForwardedInOrder ==
    \A i \in 1..Len(follower.out) :
        follower.out[i] > (IF i = 1 THEN 0 ELSE follower.out[i - 1])

\* A stream that ended has forwarded what the file console.log leads to held
\* when its last drain began: nothing that landed while the quiet polls were
\* counted is left behind.  What the sink still drains of a dead VMM's console
\* may land later, and is lost to the terminal.
LastDrainIsComplete ==
    follower.pc = "ended" /\ capture.log # NoFile
        => \A k \in Range(capture.data[capture.log]) \cap follower.due :
               k # 0 => k \in Range(follower.out)

\* spec/10: the stream ends once the VM left its running states.
StreamEnds ==
    attach.booted /\ vm \in {"dead", "down"} ~> follower.pc \in {"ended", "detached", "broken"}

\* What the terminal shows of a boot: in order, once, and all of the last drain.
ConsoleSafe == ConsoleTypeOK /\ ForwardedInOrder /\ LastDrainIsComplete
=============================================================================
