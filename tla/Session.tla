------------------------------ MODULE Session ------------------------------
(***************************************************************************)
(* The guest control plane: the host's clients (one exec or shell session, *)
(* or one ping, session count, shutdown, memory or trim call per           *)
(* connection) and the guest agent's handler of each connection.           *)
(*                                                                         *)
(* A connection is a pair of frame queues.  A frame is its tag; a chunk of *)
(* input or output is one frame and one slot of the guest process's pipe.  *)
(***************************************************************************)
EXTENDS Naturals, Sequences, FiniteSets

CONSTANTS
    Conns,      \* connections to the control socket
    NoConn,     \* holder of the trim turn when nobody trims
    MaxIn,      \* chunks the host's standard input holds
    MaxOut,     \* chunks the guest process writes at most
    PipeCap,    \* chunks a guest pipe holds
    Window,     \* frames under way in one direction before a write blocks
    Torn        \* may a client frame reach the agent in two reads?

ASSUME SessionAssumption ==
    /\ NoConn \notin Conns
    /\ {MaxIn, MaxOut} \subseteq Nat
    /\ {PipeCap, Window} \subseteq Nat \ {0}
    /\ Torn \in BOOLEAN

\* The requests a connection may carry after its greeting
CallKinds == {"session", "ping", "count", "shutdown", "memory", "trim"}

VARIABLES
    kind,       \* what each connection is for
    own,        \* does the client hold the identity of the running boot?
    cli,        \* the host's end of each connection
    up,         \* client frames not read yet
    down,       \* agent frames not read yet
    ag,         \* the agent's handler of each connection
    proc,       \* the guest process of a session
    live,       \* the agent's count of live sessions
    poweroff,   \* does the poweroff trigger exist?
    trim        \* the fstrim files and the turn to use them

sessionVars == <<kind, own, cli, up, down, ag, proc, live, poweroff, trim>>

ClientFrames == {"hello", "alien", "resize", "start", "stdin", "end"} \cup CallKinds
AgentFrames  == {"hello", "error", "out", "exit", "pong", "sessions", "ack",
                 "report", "trimack"}

Outcomes == {"none", "retry", "readiness", "ready", "unavailable", "count", "false", "true",
             "unreachable", "protocol", "reply", "notlistening", "identity",
             "transport", "refused", "lost", "exited", "signal"}
HandlerSteps == {"none", "hello", "ready", "spawn", "session", "writing", "emit", "drain",
                 "drainemit", "ending", "turn", "trimming", "gone"}

SessionTypeOK ==
    /\ kind \in [Conns -> CallKinds]
    /\ own \in [Conns -> BOOLEAN]
    /\ cli \in [Conns -> [pc : {"idle", "greet", "ask", "stream", "sending", "done"},
                          res : Outcomes, left : 0..MaxIn, ended : BOOLEAN, got : 0..MaxOut]]
    /\ up \in [Conns -> Seq(ClientFrames)]
    /\ down \in [Conns -> Seq(AgentFrames)]
    /\ ag \in [Conns -> [pc : HandlerSteps, half : BOOLEAN, sync : BOOLEAN]]
    /\ proc \in [Conns -> [leader : {"none", "running", "exited", "killed"},
                           kids : BOOLEAN, signalled : BOOLEAN, tty : BOOLEAN,
                           input : 0..PipeCap, open : BOOLEAN,
                           pipe : 0..PipeCap, wrote : 0..MaxOut]]
    /\ live \in Nat
    /\ poweroff \in BOOLEAN
    /\ trim \in [turn : Conns \cup {NoConn}, request : SUBSET Conns, active : SUBSET Conns,
                 marker : SUBSET Conns, trimmed : SUBSET Conns]

NoProcess == [leader |-> "none", kids |-> FALSE, signalled |-> FALSE, tty |-> FALSE, input |-> 0,
              open |-> FALSE, pipe |-> 0, wrote |-> 0]

SessionInit ==
    /\ kind \in [Conns -> CallKinds]
    /\ own \in [Conns -> BOOLEAN]
    /\ cli \in [Conns -> {[pc |-> pc, res |-> "none", left |-> MaxIn, ended |-> FALSE, got |-> 0] :
                          pc \in {"idle", "done"}}]          \* done: a client that never calls
    /\ up = [c \in Conns |-> <<>>]
    /\ down = [c \in Conns |-> <<>>]
    /\ ag = [c \in Conns |-> [pc |-> "none", half |-> FALSE, sync |-> TRUE]]
    /\ proc = [c \in Conns |-> NoProcess]
    /\ live = 0
    /\ poweroff = FALSE
    /\ trim = [turn |-> NoConn, request |-> {}, active |-> {}, marker |-> {}, trimmed |-> {}]

\* The client still holds its end of the connection.
Connected(c) == cli[c].pc \in {"greet", "ask", "stream", "sending"}

\* The handler is over, so reading the connection ends after its last frame.
AgentGone(c) == ag[c].pc = "gone"

guestVars == <<proc, live, poweroff, trim>>
fixedVars == <<kind, own>>

-----------------------------------------------------------------------------
(* The host's end: launch/control.rs.                                      *)

\* What a client answers when its connection is not made, or greeted
Unconnected(c) ==
    CASE kind[c] = "session"             -> "notlistening"
      [] kind[c] = "ping"                -> "retry"
      [] kind[c] = "count"               -> "unavailable"
      [] kind[c] = "shutdown"            -> "false"
      [] kind[c] \in {"memory", "trim"}  -> "unreachable"

Finish(c, res) == cli' = [cli EXCEPT ![c].pc = "done", ![c].res = res]

\* hybrid::connect: no acknowledgement within its budget
ConnectFails(c) ==
    /\ cli[c].pc = "idle"
    /\ Finish(c, Unconnected(c))
    /\ UNCHANGED <<fixedVars, up, down, ag, guestVars>>

\* hybrid::connect, accept_loop on the other side, then Hello
Connect(c) ==
    /\ cli[c].pc = "idle" /\ ag[c].pc = "none"
    /\ cli' = [cli EXCEPT ![c].pc = "greet"]
    /\ up' = [up EXCEPT ![c] = <<IF own[c] THEN "hello" ELSE "alien">>]
    /\ ag' = [ag EXCEPT ![c].pc = "hello"]
    /\ UNCHANGED <<fixedVars, down, guestVars>>

\* What a session sends once it is greeted: at most one Resize, then Start
Opening(c) == {<<"start">>, <<"resize", "start">>}

\* greet, and the first half of every call
ReadGreeting(c) ==
    /\ cli[c].pc = "greet"
    /\ \/ /\ down[c] # <<>>
          /\ down' = [down EXCEPT ![c] = Tail(@)]
          /\ \/ /\ Head(down[c]) = "hello"
                /\ cli' = [cli EXCEPT ![c].pc = IF kind[c] = "session" THEN "stream" ELSE "ask"]
                /\ \E frames \in IF kind[c] = "session" THEN Opening(c) ELSE {<<kind[c]>>} :
                      up' = [up EXCEPT ![c] = @ \o frames]
             \/ /\ Head(down[c]) # "hello"
                /\ Finish(c, IF kind[c] = "session" THEN "identity" ELSE Unconnected(c))
                /\ UNCHANGED up
       \/ /\ down[c] = <<>> /\ AgentGone(c)
          /\ Finish(c, IF kind[c] = "session" THEN "transport" ELSE Unconnected(c))
          /\ UNCHANGED <<up, down>>
    /\ UNCHANGED <<fixedVars, ag, guestVars>>

\* The answer a call admits, and the one every call gets on any other
Expected(c) ==
    CASE kind[c] = "ping"     -> [frame |-> "pong",     yes |-> "ready", no |-> "retry"]
      [] kind[c] = "count"    -> [frame |-> "sessions", yes |-> "count", no |-> "unavailable"]
      [] kind[c] = "shutdown" -> [frame |-> "ack",      yes |-> "true",  no |-> "false"]
      [] kind[c] = "memory"   -> [frame |-> "report",   yes |-> "reply", no |-> "protocol"]
      [] kind[c] = "trim"     -> [frame |-> "trimack",  yes |-> "reply", no |-> "protocol"]

\* handshake, session_count, request_shutdown, reclaim_call: the second half
ReadAnswer(c) ==
    /\ cli[c].pc = "ask"
    /\ \/ /\ down[c] # <<>>
          /\ Finish(c, IF Head(down[c]) = Expected(c).frame THEN Expected(c).yes
                                                            ELSE Expected(c).no)
          /\ down' = [down EXCEPT ![c] = Tail(@)]
       \/ /\ down[c] = <<>> /\ AgentGone(c)
          /\ Finish(c, Expected(c).no)
          /\ UNCHANGED down
    /\ UNCHANGED <<fixedVars, up, ag, guestVars>>

\* The deadline over a whole call; ping's covers its connection only.
CallTimesOut(c) ==
    /\ kind[c] \notin {"session", "ping"} /\ cli[c].pc \in {"greet", "ask"}
    /\ Finish(c, Unconnected(c))
    /\ UNCHANGED <<fixedVars, up, down, ag, guestVars>>

\* Session::run, the branch that takes the agent's frames
ReadFrame(c) ==
    /\ cli[c].pc = "stream"
    /\ \/ /\ down[c] # <<>> /\ Head(down[c]) = "out"
          /\ \/ cli' = [cli EXCEPT ![c].got = @ + 1]
             \/ Finish(c, "transport")         \* write_out failed
          /\ down' = [down EXCEPT ![c] = Tail(@)]
       \/ /\ down[c] # <<>> /\ Head(down[c]) # "out"
          /\ Finish(c, CASE Head(down[c]) = "exit"  -> "exited"
                         [] Head(down[c]) = "error" -> "refused"
                         [] OTHER                   -> "lost")
          /\ down' = [down EXCEPT ![c] = Tail(@)]
       \/ /\ down[c] = <<>> /\ AgentGone(c)
          /\ Finish(c, "lost")
          /\ UNCHANGED down
    /\ UNCHANGED <<fixedVars, up, ag, guestVars>>

\* The branch that takes host input, and its end
TakeInput(c) ==
    /\ cli[c].pc = "stream" /\ ~cli[c].ended
    /\ cli' = [cli EXCEPT ![c].pc = "sending", ![c].ended = (cli[c].left = 0),
                          ![c].left = IF @ = 0 THEN 0 ELSE @ - 1]
    /\ UNCHANGED <<fixedVars, up, down, ag, guestVars>>

\* send_input: no agent frame is taken until it returns, and a send that
\* fails stops the sending only.
SendInput(c) ==
    /\ cli[c].pc = "sending"
    /\ \/ /\ ~AgentGone(c) /\ Len(up[c]) < Window
          /\ up' = [up EXCEPT ![c] = Append(@, IF cli[c].ended THEN "end" ELSE "stdin")]
          /\ cli' = [cli EXCEPT ![c].pc = "stream"]
       \/ /\ AgentGone(c)
          /\ cli' = [cli EXCEPT ![c].pc = "stream", ![c].ended = TRUE]
          /\ UNCHANGED up
    /\ UNCHANGED <<fixedVars, down, ag, guestVars>>

\* wait_for_agent: a handshake that failed is tried again until the deadline.
Retry(c) ==
    /\ cli[c].res = "retry"
    /\ \/ /\ ag[c].pc \in {"none", "gone"}
          /\ cli' = [cli EXCEPT ![c].pc = "idle", ![c].res = "none"]
          /\ up' = [up EXCEPT ![c] = <<>>] /\ down' = [down EXCEPT ![c] = <<>>]
          /\ ag' = [ag EXCEPT ![c].pc = "none"]
       \/ Finish(c, "readiness") /\ UNCHANGED <<up, down, ag>>
    /\ UNCHANGED <<fixedVars, guestVars>>

\* terminating_signal, or the death of the host process
Interrupt(c) ==
    /\ kind[c] = "session" /\ Connected(c)
    /\ Finish(c, "signal")
    /\ UNCHANGED <<fixedVars, up, down, ag, guestVars>>

-----------------------------------------------------------------------------
(* The agent's handler: control::handle.                                   *)

\* A frame is written if its client is still there to be written to.
Answer(c, frame) ==
    down' = IF Connected(c) THEN [down EXCEPT ![c] = Append(@, frame)] ELSE down

Advance(c, step) == ag' = [ag EXCEPT ![c].pc = step]

\* Reading finds the client gone after its last frame.
AtEof(c) == up[c] = <<>> /\ ~Connected(c)

\* The greeting: another boot's identity is refused as unauthorised.
Greet(c) ==
    /\ ag[c].pc = "hello"
    /\ \/ /\ up[c] # <<>>
          /\ up' = [up EXCEPT ![c] = Tail(@)]
          /\ Answer(c, IF Head(up[c]) = "hello" THEN "hello" ELSE "error")
          /\ Advance(c, IF Head(up[c]) = "hello" THEN "ready" ELSE "gone")
       \/ /\ AtEof(c)
          /\ Advance(c, "gone")
          /\ UNCHANGED <<up, down>>
    /\ UNCHANGED <<fixedVars, cli, guestVars>>

\* Ping, Sessions and Memory are answered at once; a Memory query that cannot
\* read meminfo is answered with an error.
ServeQuery(c) ==
    /\ ag[c].pc = "ready" /\ up[c] # <<>>
    /\ \/ Head(up[c]) = "ping" /\ Answer(c, "pong")
       \/ Head(up[c]) = "count" /\ Answer(c, "sessions")
       \/ Head(up[c]) = "memory" /\ (Answer(c, "report") \/ Answer(c, "error"))
    /\ up' = [up EXCEPT ![c] = Tail(@)]
    /\ Advance(c, "gone")
    /\ UNCHANGED <<fixedVars, cli, guestVars>>

\* Shutdown: the trigger is written, then acknowledged.
ServeShutdown(c) ==
    /\ ag[c].pc = "ready" /\ up[c] # <<>> /\ Head(up[c]) = "shutdown"
    /\ \/ poweroff' = TRUE /\ Answer(c, "ack")
       \/ UNCHANGED poweroff /\ Answer(c, "error")
    /\ up' = [up EXCEPT ![c] = Tail(@)]
    /\ Advance(c, "gone")
    /\ UNCHANGED <<fixedVars, cli, proc, live, trim>>

\* One Resize may precede Start.
ServeResize(c) ==
    /\ ag[c].pc = "ready" /\ up[c] # <<>> /\ Head(up[c]) = "resize"
    /\ up' = [up EXCEPT ![c] = Tail(@)]
    /\ UNCHANGED <<fixedVars, cli, down, ag, guestVars>>

\* Start: the connection becomes a session, and is counted as one.
ServeStart(c) ==
    /\ ag[c].pc = "ready" /\ up[c] # <<>> /\ Head(up[c]) = "start"
    /\ up' = [up EXCEPT ![c] = Tail(@)]
    /\ live' = live + 1
    /\ Advance(c, "spawn")
    /\ UNCHANGED <<fixedVars, cli, down, proc, poweroff, trim>>

\* session::run: the process is spawned on pipes or on a terminal, or cannot be.
Spawn(c) ==
    /\ ag[c].pc = "spawn"
    /\ \/ /\ \E tty \in BOOLEAN :
             proc' = [proc EXCEPT ![c].leader = "running", ![c].open = TRUE, ![c].tty = tty]
          /\ Advance(c, "session")
          /\ UNCHANGED <<down, live>>
       \/ /\ Answer(c, "error")
          /\ Advance(c, "gone") /\ live' = live - 1
          /\ UNCHANGED proc
    /\ UNCHANGED <<fixedVars, cli, up, poweroff, trim>>

\* The client left before it asked for anything.
Abandoned(c) ==
    /\ ag[c].pc = "ready" /\ AtEof(c)
    /\ Advance(c, "gone")
    /\ UNCHANGED <<fixedVars, cli, up, down, guestVars>>

-----------------------------------------------------------------------------
(* Trim: run_trim, and the root-owned unit behind its files.               *)

EndTrim(c, frame) ==
    /\ Answer(c, frame)
    /\ Advance(c, "gone")

\* A request that names no mountpoint, or an unwritable one, is refused.
ServeTrim(c) ==
    /\ ag[c].pc = "ready" /\ up[c] # <<>> /\ Head(up[c]) = "trim"
    /\ up' = [up EXCEPT ![c] = Tail(@)]
    /\ \/ Advance(c, "turn") /\ UNCHANGED down
       \/ EndTrim(c, "error")
    /\ UNCHANGED <<fixedVars, cli, guestVars>>

\* trim_serial is taken, a left-over marker is removed, and the request is
\* placed, unless its files cannot be written.
TakeTurn(c) ==
    /\ ag[c].pc = "turn" /\ trim.turn = NoConn
    /\ \/ /\ trim' = [trim EXCEPT !.turn = c, !.marker = {}, !.request = {c}]
          /\ Advance(c, "trimming")
          /\ UNCHANGED down
       \/ /\ trim' = [trim EXCEPT !.marker = {}]
          /\ EndTrim(c, "error")
    /\ UNCHANGED <<fixedVars, cli, up, proc, live, poweroff>>

\* The marker is taken by rename, and counts if its token is this trim's.
TakeMarker(c) ==
    /\ ag[c].pc = "trimming" /\ trim.marker # {}
    /\ trim' = [trim EXCEPT !.marker = {}, !.turn = IF c \in trim.marker THEN NoConn ELSE @]
    /\ \/ c \in trim.marker /\ EndTrim(c, "trimack")
       \/ c \notin trim.marker /\ UNCHANGED <<down, ag>>
    /\ UNCHANGED <<fixedVars, cli, up, proc, live, poweroff>>

\* TRIM_DEADLINE: the request stays where it is.
TrimTimesOut(c) ==
    /\ ag[c].pc = "trimming"
    /\ trim' = [trim EXCEPT !.turn = NoConn]
    /\ EndTrim(c, "error")
    /\ UNCHANGED <<fixedVars, cli, up, proc, live, poweroff>>

\* The unit moves the request aside, trims, and makes it the marker.
UnitTakes ==
    /\ trim.request # {} /\ trim.active = {}
    /\ trim' = [trim EXCEPT !.request = {}, !.active = trim.request]
    /\ UNCHANGED <<fixedVars, cli, up, down, ag, proc, live, poweroff>>

UnitDone ==
    /\ trim.active # {}
    /\ trim' = [trim EXCEPT !.active = {}, !.marker = trim.active,
                            !.trimmed = @ \cup trim.active]
    /\ UNCHANGED <<fixedVars, cli, up, down, ag, proc, live, poweroff>>

-----------------------------------------------------------------------------
(* The session: session::run_non_pty, run_pty.                             *)

\* The guest end of standard input has no reader left; a terminal keeps what
\* is written to it.
NoReader(c) == ~proc[c].tty /\ proc[c].leader # "running" /\ ~proc[c].kids

\* The handler returns: SessionLive is dropped, and a leader that was not
\* waited for is killed with it.
Leave(c) ==
    /\ Advance(c, "gone")
    /\ live' = live - 1

\* Closing a terminal hangs up on its group.
KillOnDrop(c) ==
    proc' = [proc EXCEPT ![c].leader = IF @ = "running" THEN "killed" ELSE @, ![c].open = FALSE,
                         ![c].signalled = @ \/ proc[c].tty]

\* A read that another branch interrupts loses what it had read.
Interrupted(c) == IF ag[c].half THEN [ag[c] EXCEPT !.half = FALSE, !.sync = FALSE] ELSE ag[c]

\* The first bytes of a frame arrived, its rest did not.
ReadHalf(c) ==
    /\ Torn
    /\ ag[c].pc = "session" /\ up[c] # <<>> /\ ~ag[c].half /\ ag[c].sync
    /\ ag' = [ag EXCEPT ![c].half = TRUE]
    /\ UNCHANGED <<fixedVars, cli, up, down, guestVars>>

\* What follows a lost prefix is no frame: the length is refused.
ReadGarbage(c) ==
    /\ ag[c].pc = "session" /\ up[c] # <<>> /\ ~ag[c].sync
    /\ Leave(c) /\ KillOnDrop(c)
    /\ UNCHANGED <<fixedVars, cli, up, down, poweroff, trim>>

\* Stdin: written to the guest before anything else is looked at.  A write no
\* process can read any more fails, and with it the session.
TakeStdin(c) ==
    /\ ag[c].pc = "session" /\ up[c] # <<>> /\ ag[c].sync /\ Head(up[c]) = "stdin"
    /\ up' = [up EXCEPT ![c] = Tail(@)]
    /\ \/ /\ NoReader(c)
          /\ Leave(c) /\ KillOnDrop(c)
       \/ /\ ~NoReader(c)
          /\ ag' = [ag EXCEPT ![c].half = FALSE, ![c].pc = "writing"]
          /\ UNCHANGED <<proc, live>>
    /\ UNCHANGED <<fixedVars, cli, down, poweroff, trim>>

\* write_all returns once the pipe has room, or has no reader.
WriteStdin(c) ==
    /\ ag[c].pc = "writing"
    /\ \/ /\ ~NoReader(c) /\ proc[c].input < PipeCap
          /\ proc' = [proc EXCEPT ![c].input = @ + 1]
          /\ Advance(c, "session")
          /\ UNCHANGED live
       \/ /\ NoReader(c)
          /\ Leave(c) /\ KillOnDrop(c)
    /\ UNCHANGED <<fixedVars, cli, up, down, poweroff, trim>>

\* StdinEnd closes the pipe.
TakeEnd(c) ==
    /\ ag[c].pc = "session" /\ up[c] # <<>> /\ ag[c].sync /\ Head(up[c]) = "end"
    /\ up' = [up EXCEPT ![c] = Tail(@)]
    /\ proc' = [proc EXCEPT ![c].open = FALSE]
    /\ ag' = [ag EXCEPT ![c].half = FALSE]
    /\ UNCHANGED <<fixedVars, cli, down, live, poweroff, trim>>

\* The client is gone: end_session signals the group.
SeeDisconnect(c) ==
    /\ ag[c].pc = "session" /\ AtEof(c)
    /\ proc' = [proc EXCEPT ![c].open = FALSE, ![c].signalled = TRUE]
    /\ Advance(c, "ending")
    /\ UNCHANGED <<fixedVars, cli, up, down, live, poweroff, trim>>

\* Mutant: the leader is waited for without a bound.
EndPolitely(c) ==
    /\ ag[c].pc = "ending" /\ proc[c].leader # "running"
    /\ Leave(c)
    /\ UNCHANGED <<fixedVars, cli, up, down, proc, poweroff, trim>>

\* DISCONNECT_GRACE, then the whole group is killed.
EndSession(c) ==
    /\ ag[c].pc = "ending"
    /\ Leave(c)
    /\ proc' = IF proc[c].leader = "running"
               THEN [proc EXCEPT ![c].leader = "killed", ![c].kids = FALSE] ELSE proc
    /\ UNCHANGED <<fixedVars, cli, up, down, poweroff, trim>>

\* A chunk of output is read from the pipe, in the loop or in the drain.
ReadOutput(c) ==
    /\ ag[c].pc \in {"session", "drain"} /\ proc[c].pipe > 0
    /\ proc' = [proc EXCEPT ![c].pipe = @ - 1]
    /\ ag' = [ag EXCEPT ![c] = [Interrupted(c) EXCEPT
                                !.pc = IF @ = "drain" THEN "drainemit" ELSE "emit"]]
    /\ UNCHANGED <<fixedVars, cli, up, down, live, poweroff, trim>>

\* It is written before anything else is looked at: the write waits while the
\* client is behind, and fails if it is gone.
EmitOutput(c) ==
    /\ ag[c].pc \in {"emit", "drainemit"}
    /\ \/ /\ Connected(c) /\ Len(down[c]) < Window
          /\ down' = [down EXCEPT ![c] = Append(@, "out")]
          /\ Advance(c, IF ag[c].pc = "emit" THEN "session" ELSE "drain")
          /\ UNCHANGED <<proc, live>>
       \/ /\ ~Connected(c)
          /\ Leave(c) /\ KillOnDrop(c)
          /\ UNCHANGED down
    /\ UNCHANGED <<fixedVars, cli, up, poweroff, trim>>

\* Mutant: what the pipe still holds is left there.
ReportAtOnce(c) ==
    /\ ag[c].pc = "session" /\ proc[c].leader = "exited"
    /\ Answer(c, "exit") /\ Leave(c)
    /\ UNCHANGED <<fixedVars, cli, up, proc, poweroff, trim>>

\* The leader was waited for: drain_pipes, drain_terminal.
SeeExit(c) ==
    /\ ag[c].pc = "session" /\ proc[c].leader = "exited"
    /\ Advance(c, "drain")
    /\ UNCHANGED <<fixedVars, cli, up, down, guestVars>>

\* Mutant: the drain waits for every holder of the pipes.
ReportWhenClosed(c) ==
    /\ ag[c].pc = "drain" /\ proc[c].pipe = 0 /\ ~proc[c].kids
    /\ Answer(c, "exit") /\ Leave(c)
    /\ UNCHANGED <<fixedVars, cli, up, proc, poweroff, trim>>

\* The pipes are empty, and closed or out of EXIT_DRAIN_LIMIT: one Exit.
ReportExit(c) ==
    /\ ag[c].pc = "drain" /\ proc[c].pipe = 0
    /\ Answer(c, "exit") /\ Leave(c)
    /\ UNCHANGED <<fixedVars, cli, up, proc, poweroff, trim>>

-----------------------------------------------------------------------------
(* The guest process: it reads, writes, forks and exits as it likes.       *)

ProcessWrites(c) ==
    /\ proc[c].leader = "running" /\ proc[c].pipe < PipeCap /\ proc[c].wrote < MaxOut
    /\ proc' = [proc EXCEPT ![c].pipe = @ + 1, ![c].wrote = @ + 1]
    /\ UNCHANGED <<fixedVars, cli, up, down, ag, live, poweroff, trim>>

ProcessReads(c) ==
    /\ proc[c].leader = "running" /\ proc[c].input > 0
    /\ proc' = [proc EXCEPT ![c].input = @ - 1]
    /\ UNCHANGED <<fixedVars, cli, up, down, ag, live, poweroff, trim>>

ProcessForks(c) ==
    /\ proc[c].leader = "running" /\ ~proc[c].kids
    /\ proc' = [proc EXCEPT ![c].kids = TRUE]
    /\ UNCHANGED <<fixedVars, cli, up, down, ag, live, poweroff, trim>>

ProcessExits(c) ==
    /\ proc[c].leader = "running"
    /\ proc' = [proc EXCEPT ![c].leader = "exited"]
    /\ UNCHANGED <<fixedVars, cli, up, down, ag, live, poweroff, trim>>

KidsEnd(c) ==
    /\ proc[c].kids
    /\ proc' = [proc EXCEPT ![c].kids = FALSE]
    /\ UNCHANGED <<fixedVars, cli, up, down, ag, live, poweroff, trim>>

-----------------------------------------------------------------------------
Client(c) == Connect(c) \/ ConnectFails(c) \/ ReadGreeting(c) \/ ReadAnswer(c)
             \/ ReadFrame(c) \/ TakeInput(c) \/ SendInput(c) \/ Retry(c)

Handler(c) ==
    \/ Greet(c) \/ ServeQuery(c) \/ ServeShutdown(c) \/ ServeResize(c) \/ ServeStart(c) \/ Spawn(c)
    \/ Abandoned(c) \/ ServeTrim(c) \/ TakeTurn(c) \/ TakeMarker(c) \/ TrimTimesOut(c)
    \/ ReadGarbage(c) \/ TakeStdin(c) \/ WriteStdin(c) \/ TakeEnd(c) \/ SeeDisconnect(c)
    \/ EndSession(c) \/ ReadOutput(c) \/ EmitOutput(c) \/ SeeExit(c) \/ ReportExit(c)

Guest(c) == ProcessWrites(c) \/ ProcessReads(c) \/ ProcessForks(c) \/ ProcessExits(c)
            \/ KidsEnd(c)

SessionNext ==
    \/ \E c \in Conns : Client(c) \/ CallTimesOut(c) \/ Interrupt(c)
                        \/ Handler(c) \/ ReadHalf(c) \/ Guest(c)
    \/ UnitTakes \/ UnitDone

\* Tasks are scheduled and their timers fire; a guest process owes nothing.
SessionSpec == SessionInit /\ [][SessionNext]_sessionVars
               /\ \A c \in Conns : WF_sessionVars(Handler(c)) /\ WF_sessionVars(Client(c))

-----------------------------------------------------------------------------
(* Properties.                                                             *)

\* spec/12: all the leader wrote is on the host's stream before its status
\* is: drain_pipes empties the pipes although select! dropped their reads.
OutputBeforeExit ==
    \A c \in Conns : cli[c].res = "exited" => cli[c].got = proc[c].wrote

\* The guest-process-start boundary: a refusal, and every error of greet, is
\* reported only where no guest process was ever started.
RefusalMeansNoProcess ==
    \A c \in Conns : cli[c].res \in {"refused", "identity", "notlistening"}
        => proc[c].leader = "none"

\* A client of another boot starts nothing, stops nothing and trims nothing,
\* although the agent's Hello only repeats the identity it was sent.
OwnBootOnly ==
    /\ \A c \in Conns : ~own[c] => proc[c].leader = "none" /\ c \notin trim.trimmed
    /\ poweroff => \E c \in Conns : own[c] /\ kind[c] = "shutdown"

\* An acknowledged shutdown is in motion, and an acknowledged trim is done for
\* this request, whatever markers timed-out predecessors left.
AckIsTruthful ==
    \A c \in Conns :
        /\ cli[c].res = "true" => poweroff
        /\ kind[c] = "trim" /\ cli[c].res = "reply" => c \in trim.trimmed

\* The handler waits for a process that does not read, or for a client that
\* waits for the handler: each end writes, and neither reads meanwhile.
Wedged(c) ==
    \/ ag[c].pc = "writing" /\ ~NoReader(c) /\ proc[c].input = PipeCap
    \/ /\ ag[c].pc \in {"emit", "drainemit"} /\ Len(down[c]) = Window
       /\ cli[c].pc = "sending" /\ Len(up[c]) = Window

\* spec/12: a session is not left running.  Once its client is gone the
\* handler returns and no leader is left, whatever the guest ignores, unless
\* the two are wedged.
SessionsDrain ==
    \A c \in Conns : cli[c].pc = "done" ~>
        \/ ag[c].pc \in {"none", "gone"} /\ proc[c].leader # "running"
        \/ Wedged(c)

\* A leader's exit brings its client to an end, also while descendants keep
\* the pipes open: EXIT_DRAIN_LIMIT bounds the drain.
ExitIsNoticed == \A c \in Conns : proc[c].leader = "exited" ~> cli[c].pc = "done" \/ Wedged(c)

\* What a client may conclude from the answer it got.
SessionSafe == SessionTypeOK /\ OutputBeforeExit /\ RefusalMeansNoProcess /\ OwnBootOnly
               /\ AckIsTruthful
=============================================================================
