---------------------------- MODULE SessionProofs ----------------------------
(***************************************************************************)
(* Theorems of Session, for any number of connections, chunks, pipe slots  *)
(* and frames under way, with frames read whole or in two.                 *)
(***************************************************************************)
EXTENDS Session, SequenceTheorems, FiniteSetTheorems, TLAPS

\* The states of a client, of a handler and of a guest process
Clients == [pc : {"idle", "greet", "ask", "stream", "sending", "done"},
            res : Outcomes, left : 0..MaxIn, ended : BOOLEAN, got : 0..MaxOut]
Handlers == [pc : HandlerSteps, half : BOOLEAN, sync : BOOLEAN]
Processes == [leader : {"none", "running", "exited", "killed"},
              kids : BOOLEAN, signalled : BOOLEAN, tty : BOOLEAN,
              input : 0..PipeCap, open : BOOLEAN,
              pipe : 0..PipeCap, wrote : 0..MaxOut]
TrimFiles == [turn : Conns \cup {NoConn}, request : SUBSET Conns, active : SUBSET Conns,
              marker : SUBSET Conns, trimmed : SUBSET Conns]

\* Handler steps before a process is started, while output is carried, and
\* while the session is counted
Early    == {"none", "hello", "ready", "spawn", "turn", "trimming"}
Pumping  == {"session", "writing", "emit", "drain", "drainemit"}
Counting == Pumping \cup {"spawn", "ending"}

Streaming == {"stream", "sending"}

\* The parts of the invariant are about one connection: k is its kind, o
\* whether its client is of this boot, h the client, u and d the frames under
\* way, a the handler, p the process, off whether poweroff was triggered and
\* t whether this connection's trim was done.

\* The two ends agree on where the conversation is.
Phases(k, o, h, u, d, a) ==
    /\ h.pc # "done" => h.res = "none"
    /\ h.pc = "idle" => a.pc = "none"
    /\ a.pc = "none" => h.pc \in {"idle", "done"} /\ d = <<>>
    /\ a.pc = "hello" => /\ h.pc \in {"greet", "done"} /\ d = <<>>
                         /\ u = IF o THEN <<"hello">> ELSE <<"alien">>
    /\ h.pc = "greet" => /\ a.pc \in {"hello", "ready", "gone"}
                         /\ a.pc = "ready" => d = <<"hello">> /\ u = <<>>
                         /\ a.pc = "gone" => d = <<"error">>
    /\ h.pc = "ask" => k # "session"
    /\ h.pc \in Streaming /\ a.pc \in {"ready", "spawn"} => d = <<>>
    /\ ~o => a.pc \in {"none", "hello", "gone"}
    /\ a.pc = "spawn" => k = "session"

\* A process is started for a client of this boot that was greeted, and the
\* client never has more output than was written.
Started(k, o, h, a, p) ==
    /\ a.pc \in Early => p.leader = "none"
    /\ p.leader = "none" => p.wrote = 0 /\ p.pipe = 0
    /\ h.pc = "greet" => p.leader = "none"
    /\ ~o \/ k # "session" => p.leader = "none"
    /\ a.pc \in {"drain", "drainemit"} => p.leader # "running"
    /\ h.got <= p.wrote

\* The chunk a handler has read and not yet written
InHand(a) == IF a.pc \in {"emit", "drainemit"} THEN 1 ELSE 0

\* No output is lost on the way to a client that still reads: what it has,
\* what is under way, what the handler holds and what the pipe holds is what
\* was written, and an exit status is behind all of it.
Carried(h, d, a, p) ==
    h.pc \in Streaming =>
        /\ a.pc \in Pumping => h.got + Len(d) + p.pipe + InHand(a) = p.wrote
        /\ \A i \in 1 .. Len(d) :
              /\ d[i] = "out" => h.got + i <= p.wrote
              /\ d[i] = "exit" => h.got + i = p.wrote + 1 /\ p.leader # "running" /\ a.pc = "gone"
              /\ d[i] = "error" => p.leader = "none" /\ a.pc = "gone"

\* A frame a client may send
Admitted(f, k) == (f \in CallKinds => f = k) /\ (f = "start" => k = "session")

\* A connection carries requests of its own kind, and an acknowledgement is
\* behind what it acknowledges.
Framed(k, u, d, off, t) ==
    /\ \A i \in 1 .. Len(u) : Admitted(u[i], k)
    /\ \A i \in 1 .. Len(d) : (d[i] = "ack" => off) /\ (d[i] = "trimack" => t)

\* What a client concluded stays true.
Concluded(k, h, a, p, off, t) ==
    /\ h.res = "exited" => h.got = p.wrote /\ p.leader # "running" /\ a.pc = "gone"
    /\ h.res \in {"refused", "identity", "notlistening"}
          => p.leader = "none" /\ a.pc \in {"none", "gone"}
    /\ h.res = "true" => off
    /\ k = "trim" /\ h.res = "reply" => t
    /\ h.res = "retry" => k # "session"

Sound(k, o, h, u, d, a, p, off, t) ==
    /\ Phases(k, o, h, u, d, a) /\ Started(k, o, h, a, p) /\ Carried(h, d, a, p)
    /\ Framed(k, u, d, off, t) /\ Concluded(k, h, a, p, off, t)

\* The sessions the agent has to count
Open == {c \in Conns : ag[c].pc \in Counting}
CountIsRight == IsFiniteSet(Open) /\ live = Cardinality(Open)

\* Only requests of this boot are in the trim files, and a marker is of a
\* trim that was done.
TrimsAreOwn ==
    /\ \A c \in trim.request \cup trim.active \cup trim.trimmed : own[c]
    /\ trim.marker \subseteq trim.trimmed

PoweroffIsOwn == poweroff => \E c \in Conns : own[c] /\ kind[c] = "shutdown"

\* The inductive invariant.
SessionInv ==
    /\ SessionTypeOK /\ CountIsRight /\ TrimsAreOwn /\ PoweroffIsOwn
    /\ \A c \in Conns : Sound(kind[c], own[c], cli[c], up[c], down[c], ag[c], proc[c],
                              poweroff, c \in trim.trimmed)

-----------------------------------------------------------------------------
(* What a connection's values are, and what a step of one leaves alone.    *)

\* The type invariant, variable by variable.
LEMMA SessionTypes ==
    SessionTypeOK <=>
        /\ kind \in [Conns -> CallKinds] /\ own \in [Conns -> BOOLEAN]
        /\ cli \in [Conns -> Clients] /\ up \in [Conns -> Seq(ClientFrames)]
        /\ down \in [Conns -> Seq(AgentFrames)] /\ ag \in [Conns -> Handlers]
        /\ proc \in [Conns -> Processes] /\ live \in Nat /\ poweroff \in BOOLEAN
        /\ trim \in TrimFiles
BY DEF SessionTypeOK, Clients, Handlers, Processes, TrimFiles

\* The values of one connection.
LEMMA Reads ==
    ASSUME SessionInv, NEW c \in Conns
    PROVE  /\ kind[c] \in CallKinds /\ own[c] \in BOOLEAN /\ cli[c] \in Clients
           /\ up[c] \in Seq(ClientFrames) /\ down[c] \in Seq(AgentFrames)
           /\ ag[c] \in Handlers /\ proc[c] \in Processes
           /\ Sound(kind[c], own[c], cli[c], up[c], down[c], ag[c], proc[c],
                    poweroff, c \in trim.trimmed)
BY SessionTypes DEF SessionInv

\* More poweroff, or more trims done, takes nothing back.
LEMMA SoundGrows ==
    ASSUME NEW k, NEW o, NEW h, NEW u, NEW d, NEW a, NEW p, NEW x, NEW y, NEW s, NEW t,
           Sound(k, o, h, u, d, a, p, x, s), x => y, s => t
    PROVE  Sound(k, o, h, u, d, a, p, y, t)
BY DEF Sound, Framed, Concluded

\* The agent's count follows its handlers.
LEMMA CountFollows ==
    ASSUME CountIsRight, NEW c \in Conns, ag \in [Conns -> Handlers], NEW a \in Handlers,
           ag' = [ag EXCEPT ![c] = a],
           \/ live' = live /\ (a.pc \in Counting <=> ag[c].pc \in Counting)
           \/ live' = live + 1 /\ a.pc \in Counting /\ ag[c].pc \notin Counting
           \/ live' = live - 1 /\ a.pc \notin Counting /\ ag[c].pc \in Counting
    PROVE  CountIsRight' /\ live' \in Nat
<1>1. \A e \in Conns : ag'[e] = IF e = c THEN a ELSE ag[e]
  OBVIOUS
<1>2. IsFiniteSet(Open) /\ live = Cardinality(Open) /\ live \in Nat
  BY FS_CardinalityType DEF CountIsRight
<1>3. CASE live' = live /\ (a.pc \in Counting <=> ag[c].pc \in Counting)
  <2>1. Open' = Open BY <1>1, <1>3 DEF Open
  <2>2. QED BY <1>2, <1>3, <2>1 DEF CountIsRight
<1>4. CASE live' = live + 1 /\ a.pc \in Counting /\ ag[c].pc \notin Counting
  <2>1. Open' = Open \cup {c} /\ c \notin Open BY <1>1, <1>4 DEF Open
  <2>2. IsFiniteSet(Open \cup {c}) /\ Cardinality(Open \cup {c}) = Cardinality(Open) + 1
    BY <1>2, <2>1, FS_AddElement
  <2>3. QED BY <1>2, <1>4, <2>1, <2>2 DEF CountIsRight
<1>5. CASE live' = live - 1 /\ a.pc \notin Counting /\ ag[c].pc \in Counting
  <2>1. Open' = Open \ {c} /\ c \in Open BY <1>1, <1>5 DEF Open
  <2>2. IsFiniteSet(Open \ {c}) /\ Cardinality(Open \ {c}) = Cardinality(Open) - 1
    BY <1>2, <2>1, FS_RemoveElement
  <2>3. Cardinality(Open \ {c}) \in Nat BY <2>2, FS_CardinalityType
  <2>4. QED BY <1>2, <1>5, <2>1, <2>2, <2>3 DEF CountIsRight
<1>6. QED BY <1>3, <1>4, <1>5

\* A step of one connection keeps the invariant if it leaves that connection
\* sound, the count right and what the connections share in order.
LEMMA OneSteps ==
    ASSUME SessionInv, NEW c \in Conns, UNCHANGED fixedVars,
           NEW h \in Clients, NEW u \in Seq(ClientFrames), NEW d \in Seq(AgentFrames),
           NEW a \in Handlers, NEW p \in Processes,
           cli' = [cli EXCEPT ![c] = h], up' = [up EXCEPT ![c] = u],
           down' = [down EXCEPT ![c] = d], ag' = [ag EXCEPT ![c] = a],
           proc' = [proc EXCEPT ![c] = p],
           \/ live' = live /\ (a.pc \in Counting <=> ag[c].pc \in Counting)
           \/ live' = live + 1 /\ a.pc \in Counting /\ ag[c].pc \notin Counting
           \/ live' = live - 1 /\ a.pc \notin Counting /\ ag[c].pc \in Counting,
           poweroff' \in BOOLEAN, poweroff => poweroff', PoweroffIsOwn',
           trim' \in TrimFiles, trim.trimmed \subseteq trim'.trimmed, TrimsAreOwn',
           Sound(kind[c], own[c], h, u, d, a, p, poweroff', c \in trim'.trimmed)
    PROVE  SessionInv'
<1>1. /\ cli \in [Conns -> Clients] /\ up \in [Conns -> Seq(ClientFrames)]
      /\ down \in [Conns -> Seq(AgentFrames)] /\ ag \in [Conns -> Handlers]
      /\ proc \in [Conns -> Processes] /\ CountIsRight
      /\ kind \in [Conns -> CallKinds] /\ own \in [Conns -> BOOLEAN]
  BY SessionTypes DEF SessionInv
<1>2. CountIsRight' /\ live' \in Nat BY <1>1, CountFollows
<1>3. SessionTypeOK'
  <2>1. /\ cli' \in [Conns -> Clients] /\ up' \in [Conns -> Seq(ClientFrames)]
        /\ down' \in [Conns -> Seq(AgentFrames)] /\ ag' \in [Conns -> Handlers]
        /\ proc' \in [Conns -> Processes]
        /\ kind' \in [Conns -> CallKinds] /\ own' \in [Conns -> BOOLEAN]
    BY <1>1 DEF fixedVars
  <2>2. QED BY <1>2, <2>1
    DEF SessionTypeOK, Clients, Handlers, Processes, TrimFiles
<1>4. ASSUME NEW e \in Conns
      PROVE  Sound(kind[e], own[e], cli[e], up[e], down[e], ag[e], proc[e],
                   poweroff, e \in trim.trimmed)'
  <2>1. CASE e = c
    <3>1. cli'[c] = h /\ up'[c] = u /\ down'[c] = d /\ ag'[c] = a /\ proc'[c] = p
          /\ kind'[c] = kind[c] /\ own'[c] = own[c]
      BY <1>1 DEF fixedVars
    <3>2. QED BY <2>1, <3>1
  <2>2. CASE e # c
    <3>1. cli'[e] = cli[e] /\ up'[e] = up[e] /\ down'[e] = down[e] /\ ag'[e] = ag[e]
          /\ proc'[e] = proc[e] /\ kind'[e] = kind[e] /\ own'[e] = own[e]
      BY <1>1, <2>2 DEF fixedVars
    <3>2. Sound(kind[e], own[e], cli[e], up[e], down[e], ag[e], proc[e],
                poweroff, e \in trim.trimmed)
      BY Reads
    <3>3. e \in trim.trimmed => e \in trim'.trimmed
      OBVIOUS
    <3>4. Sound(kind[e], own[e], cli[e], up[e], down[e], ag[e], proc[e],
                poweroff', e \in trim'.trimmed)
      BY <3>2, <3>3, SoundGrows
    <3>5. QED BY <3>1, <3>4
  <2>3. QED BY <2>1, <2>2
<1>5. QED BY <1>2, <1>3, <1>4 DEF SessionInv
\* The same for a step that triggers no poweroff and touches no trim file.
LEMMA ConnSteps ==
    ASSUME SessionInv, NEW c \in Conns, UNCHANGED <<fixedVars, poweroff, trim>>,
           NEW h \in Clients, NEW u \in Seq(ClientFrames), NEW d \in Seq(AgentFrames),
           NEW a \in Handlers, NEW p \in Processes,
           cli' = [cli EXCEPT ![c] = h], up' = [up EXCEPT ![c] = u],
           down' = [down EXCEPT ![c] = d], ag' = [ag EXCEPT ![c] = a],
           proc' = [proc EXCEPT ![c] = p],
           \/ live' = live /\ (a.pc \in Counting <=> ag[c].pc \in Counting)
           \/ live' = live + 1 /\ a.pc \in Counting /\ ag[c].pc \notin Counting
           \/ live' = live - 1 /\ a.pc \notin Counting /\ ag[c].pc \in Counting,
           Sound(kind[c], own[c], h, u, d, a, p, poweroff, c \in trim.trimmed)
    PROVE  SessionInv'
<1>1. poweroff' = poweroff /\ trim' = trim /\ kind' = kind /\ own' = own
  BY DEF fixedVars
<1>2. poweroff' \in BOOLEAN /\ trim' \in TrimFiles
  BY <1>1, SessionTypes DEF SessionInv
<1>3. PoweroffIsOwn' /\ TrimsAreOwn'
  BY <1>1 DEF SessionInv, PoweroffIsOwn, TrimsAreOwn
<1>4. Sound(kind[c], own[c], h, u, d, a, p, poweroff', c \in trim'.trimmed)
  BY <1>1
<1>5. (poweroff => poweroff') /\ trim.trimmed \subseteq trim'.trimmed
  BY <1>1
<1>6. QED BY <1>2, <1>3, <1>4, <1>5, OneSteps

\* The same for a step of the client's end.
LEMMA ClientSteps ==
    ASSUME SessionInv, NEW c \in Conns, UNCHANGED <<fixedVars, ag, guestVars>>,
           NEW h \in Clients, NEW u \in Seq(ClientFrames), NEW d \in Seq(AgentFrames),
           cli' = [cli EXCEPT ![c] = h], up' = [up EXCEPT ![c] = u],
           down' = [down EXCEPT ![c] = d],
           Sound(kind[c], own[c], h, u, d, ag[c], proc[c], poweroff, c \in trim.trimmed)
    PROVE  SessionInv'
<1>1. ag[c] \in Handlers /\ proc[c] \in Processes BY Reads
<1>2. ag' = [ag EXCEPT ![c] = ag[c]] /\ proc' = [proc EXCEPT ![c] = proc[c]]
  BY SessionTypes DEF SessionInv, guestVars
<1>3. UNCHANGED <<fixedVars, poweroff, trim>> /\ live' = live
  BY DEF guestVars
<1>4. QED BY <1>1, <1>2, <1>3, ConnSteps

\* What is left of the frames under way once the first is read.
LEMMA TailOf ==
    ASSUME NEW S, NEW s \in Seq(S), s # <<>>
    PROVE  /\ Tail(s) \in Seq(S) /\ Head(s) \in S /\ Head(s) = s[1]
           /\ Len(s) \in Nat \ {0} /\ Len(Tail(s)) = Len(s) - 1
           /\ \A i \in 1 .. Len(Tail(s)) : i + 1 \in 1 .. Len(s) /\ Tail(s)[i] = s[i + 1]
<1>1. Len(s) \in Nat /\ Len(s) # 0 BY LenProperties, EmptySeq
<1>2. /\ Head(s) \in S /\ Tail(s) \in Seq(S) /\ Len(Tail(s)) = Len(s) - 1
      /\ \A i \in 1 .. Len(Tail(s)) : Tail(s)[i] = s[i + 1]
  BY HeadTailProperties
<1>3. Head(s) = s[1] BY <1>1
<1>4. QED BY <1>1, <1>2, <1>3

\* The frames under way once another is written.
LEMMA Appended ==
    ASSUME NEW S, NEW s \in Seq(S), NEW e \in S
    PROVE  /\ Append(s, e) \in Seq(S) /\ Len(s) \in Nat /\ Len(Append(s, e)) = Len(s) + 1
           /\ Append(s, e)[Len(s) + 1] = e
           /\ \A i \in 1 .. Len(Append(s, e)) :
                 (i \in 1 .. Len(s) /\ Append(s, e)[i] = s[i]) \/ (i = Len(s) + 1)
<1>1. Len(s) \in Nat BY LenProperties
<1>2. /\ Append(s, e) \in Seq(S) /\ Len(Append(s, e)) = Len(s) + 1
      /\ \A i \in 1 .. Len(s) : Append(s, e)[i] = s[i]
      /\ Append(s, e)[Len(s) + 1] = e
  BY AppendProperties
<1>3. QED BY <1>1, <1>2

-----------------------------------------------------------------------------
(* The host's end.                                                         *)

\* A client that ends leaves its connection sound, whatever it read last, if
\* what it concludes is true.
LEMMA FinishSound ==
    ASSUME NEW k \in CallKinds, NEW o \in BOOLEAN, NEW h \in Clients,
           NEW u \in Seq(ClientFrames), NEW d \in Seq(AgentFrames),
           NEW a \in Handlers, NEW p \in Processes, NEW off, NEW t,
           Sound(k, o, h, u, d, a, p, off, t),
           NEW res \in Outcomes, NEW e,
           e = d \/ (d # <<>> /\ e = Tail(d)),
           res = "exited" => h.got = p.wrote /\ p.leader # "running" /\ a.pc = "gone",
           res \in {"refused", "identity", "notlistening"}
              => p.leader = "none" /\ a.pc \in {"none", "gone"},
           res = "true" => off,
           k = "trim" /\ res = "reply" => t,
           res = "retry" => k # "session"
    PROVE  /\ [h EXCEPT !.pc = "done", !.res = res] \in Clients
           /\ e \in Seq(AgentFrames)
           /\ Sound(k, o, [h EXCEPT !.pc = "done", !.res = res], u, e, a, p, off, t)
<1>1. PICK g : g = [h EXCEPT !.pc = "done", !.res = res]
  OBVIOUS
<1>2. g \in Clients /\ g.pc = "done" /\ g.res = res /\ g.got = h.got
  BY <1>1 DEF Clients
<1>3. e \in Seq(AgentFrames) BY TailOf
<1>4. Phases(k, o, g, u, e, a) BY <1>2 DEF Sound, Phases, Streaming
<1>5. Started(k, o, g, a, p) BY <1>2 DEF Sound, Started
<1>6. Carried(g, e, a, p) BY <1>2 DEF Carried, Streaming
<1>7. Framed(k, u, e, off, t)
  <2>1. \A i \in 1 .. Len(d) : (d[i] = "ack" => off) /\ (d[i] = "trimack" => t)
    BY DEF Sound, Framed
  <2>2. ASSUME NEW i \in 1 .. Len(e) PROVE (e[i] = "ack" => off) /\ (e[i] = "trimack" => t)
    <3>1. CASE e = d BY <2>1, <2>2, <3>1
    <3>2. CASE d # <<>> /\ e = Tail(d)
      <4>1. i + 1 \in 1 .. Len(d) /\ e[i] = d[i + 1] BY <2>2, <3>2, TailOf
      <4>2. QED BY <2>1, <4>1
    <3>3. QED BY <3>1, <3>2
  <2>3. QED BY <2>2 DEF Sound, Framed
<1>8. Concluded(k, g, a, p, off, t) BY <1>2 DEF Concluded
<1>9. QED BY <1>1, <1>2, <1>3, <1>4, <1>5, <1>6, <1>7, <1>8 DEF Sound
\* A client's end, as a step.
LEMMA Finishes ==
    ASSUME SessionInv, NEW c \in Conns, NEW res \in Outcomes, Finish(c, res),
           UNCHANGED <<fixedVars, up, ag, guestVars>>,
           down' = down \/ (down[c] # <<>> /\ down' = [down EXCEPT ![c] = Tail(down[c])]),
           res = "exited" => /\ cli[c].got = proc[c].wrote /\ proc[c].leader # "running"
                             /\ ag[c].pc = "gone",
           res \in {"refused", "identity", "notlistening"}
              => proc[c].leader = "none" /\ ag[c].pc \in {"none", "gone"},
           res = "true" => poweroff,
           kind[c] = "trim" /\ res = "reply" => c \in trim.trimmed,
           res = "retry" => kind[c] # "session"
    PROVE  SessionInv'
<1>1. PICK h : h = [cli[c] EXCEPT !.pc = "done", !.res = res]
  OBVIOUS
<1>2. cli' = [cli EXCEPT ![c] = h] BY <1>1 DEF Finish
<1>3. up' = [up EXCEPT ![c] = up[c]] BY SessionTypes DEF SessionInv
<1>4. PICK e : /\ e = down[c] \/ (down[c] # <<>> /\ e = Tail(down[c]))
               /\ down' = [down EXCEPT ![c] = e]
  BY SessionTypes DEF SessionInv
<1>5. /\ h \in Clients /\ e \in Seq(AgentFrames)
      /\ Sound(kind[c], own[c], h, up[c], e, ag[c], proc[c], poweroff, c \in trim.trimmed)
  <2>1. /\ kind[c] \in CallKinds /\ own[c] \in BOOLEAN /\ cli[c] \in Clients
        /\ up[c] \in Seq(ClientFrames) /\ down[c] \in Seq(AgentFrames)
        /\ ag[c] \in Handlers /\ proc[c] \in Processes
        /\ Sound(kind[c], own[c], cli[c], up[c], down[c], ag[c], proc[c],
                 poweroff, c \in trim.trimmed)
    BY Reads
  <2>2. /\ e = down[c] \/ (down[c] # <<>> /\ e = Tail(down[c]))
        /\ res = "exited" => /\ cli[c].got = proc[c].wrote /\ proc[c].leader # "running"
                             /\ ag[c].pc = "gone"
        /\ res \in {"refused", "identity", "notlistening"}
              => proc[c].leader = "none" /\ ag[c].pc \in {"none", "gone"}
        /\ res = "true" => poweroff
        /\ kind[c] = "trim" /\ res = "reply" => c \in trim.trimmed
        /\ res = "retry" => kind[c] # "session"
    BY <1>4
  <2>3. /\ [cli[c] EXCEPT !.pc = "done", !.res = res] \in Clients
        /\ e \in Seq(AgentFrames)
        /\ Sound(kind[c], own[c], [cli[c] EXCEPT !.pc = "done", !.res = res], up[c], e,
                 ag[c], proc[c], poweroff, c \in trim.trimmed)
    BY <2>1, <2>2, FinishSound, Zenon
  <2>4. QED BY <1>1, <2>3
<1>6. up[c] \in Seq(ClientFrames) BY Reads
<1>7. QED BY <1>2, <1>3, <1>4, <1>5, <1>6, ClientSteps

\* What a client says when its call was not made concludes nothing, but for a
\* session that was never connected.
LEMMA UnconnectedIs ==
    ASSUME NEW c \in Conns, kind[c] \in CallKinds
    PROVE  /\ Unconnected(c) \in {"notlistening", "retry", "unavailable", "false", "unreachable"}
           /\ kind[c] # "session" <=> Unconnected(c) # "notlistening"
BY DEF Unconnected, CallKinds

\* What a call concludes from its answer.
LEMMA ExpectedIs ==
    ASSUME NEW c \in Conns, kind[c] \in CallKinds \ {"session"}
    PROVE  /\ Expected(c).no \in {"retry", "unavailable", "false", "protocol"}
           /\ Expected(c).yes \in {"ready", "count", "true", "reply"}
           /\ Expected(c).yes = "true" => Expected(c).frame = "ack"
           /\ kind[c] = "trim" => Expected(c).frame = "trimack"
<1>1. CASE kind[c] = "ping"
  <2>1. Expected(c) = [frame |-> "pong", yes |-> "ready", no |-> "retry"] BY <1>1 DEF Expected
  <2>2. QED BY <1>1, <2>1
<1>2. CASE kind[c] = "count"
  <2>1. Expected(c) = [frame |-> "sessions", yes |-> "count", no |-> "unavailable"]
    BY <1>2 DEF Expected
  <2>2. QED BY <1>2, <2>1
<1>3. CASE kind[c] = "shutdown"
  <2>1. Expected(c) = [frame |-> "ack", yes |-> "true", no |-> "false"] BY <1>3 DEF Expected
  <2>2. QED BY <1>3, <2>1
<1>4. CASE kind[c] = "memory"
  <2>1. Expected(c) = [frame |-> "report", yes |-> "reply", no |-> "protocol"]
    BY <1>4 DEF Expected
  <2>2. QED BY <1>4, <2>1
<1>5. CASE kind[c] = "trim"
  <2>1. Expected(c) = [frame |-> "trimack", yes |-> "reply", no |-> "protocol"]
    BY <1>5 DEF Expected
  <2>2. QED BY <1>5, <2>1
<1>6. QED BY <1>1, <1>2, <1>3, <1>4, <1>5 DEF CallKinds

\* The steps in which a client ends for want of a connection or of time.
LEMMA GivesUpInv ==
    ASSUME SessionInv, NEW c \in Conns, ConnectFails(c) \/ CallTimesOut(c) \/ Interrupt(c)
    PROVE  SessionInv'
<1>1. kind[c] \in CallKinds /\ Unconnected(c) \in Outcomes
  BY Reads, UnconnectedIs DEF Outcomes
<1>2. CASE ConnectFails(c)
  <2>1. ag[c].pc = "none" /\ proc[c].leader = "none"
    BY <1>2, Reads DEF ConnectFails, Sound, Phases, Started, Early
  <2>2. QED BY <1>1, <1>2, <2>1, Finishes, UnconnectedIs DEF ConnectFails
<1>3. CASE CallTimesOut(c)
  BY <1>1, <1>3, Finishes, UnconnectedIs DEF CallTimesOut
<1>4. CASE Interrupt(c)
  BY <1>4, Finishes DEF Interrupt, Outcomes
<1>5. QED BY <1>2, <1>3, <1>4

\* A call's answer is what it says.
LEMMA ReadAnswerInv ==
    ASSUME SessionInv, NEW c \in Conns, ReadAnswer(c)
    PROVE  SessionInv'
<1>1. kind[c] \in CallKinds \ {"session"}
  BY Reads DEF ReadAnswer, Sound, Phases
<1>2. Expected(c).no \in Outcomes /\ Expected(c).yes \in Outcomes
  BY <1>1, ExpectedIs DEF Outcomes
<1>3. CASE down[c] # <<>> /\ Head(down[c]) = Expected(c).frame /\ Finish(c, Expected(c).yes)
           /\ down' = [down EXCEPT ![c] = Tail(down[c])]
  <2>1. /\ down[c][1] = "ack" => poweroff
        /\ down[c][1] = "trimack" => c \in trim.trimmed
    <3>1. 1 \in 1 .. Len(down[c]) BY <1>3, TailOf, Reads
    <3>2. QED BY <3>1, Reads DEF Sound, Framed
  <2>2. down[c][1] = Expected(c).frame BY <1>3, TailOf, Reads
  <2>3. /\ Expected(c).yes = "true" => poweroff
        /\ kind[c] = "trim" /\ Expected(c).yes = "reply" => c \in trim.trimmed
    BY <1>1, <2>1, <2>2, ExpectedIs
  <2>4. UNCHANGED <<fixedVars, up, ag, guestVars>> BY DEF ReadAnswer
  <2>5. Expected(c).yes \notin {"exited", "refused", "identity", "notlistening"}
    BY <1>1, ExpectedIs
  <2>6. QED BY <1>1, <1>2, <1>3, <2>3, <2>4, <2>5, Finishes
<1>4. CASE Finish(c, Expected(c).no)
           /\ (down' = down \/ (down[c] # <<>> /\ down' = [down EXCEPT ![c] = Tail(down[c])]))
  <2>1. UNCHANGED <<fixedVars, up, ag, guestVars>> BY DEF ReadAnswer
  <2>2. Expected(c).no \notin {"exited", "refused", "identity", "notlistening", "true", "reply"}
    BY <1>1, ExpectedIs
  <2>3. QED BY <1>1, <1>2, <1>4, <2>1, <2>2, Finishes
<1>5. QED BY <1>3, <1>4 DEF ReadAnswer
\* The connection is made: the handler waits for the greeting under way.
LEMMA ConnectInv ==
    ASSUME SessionInv, NEW c \in Conns, Connect(c)
    PROVE  SessionInv'
<1>1. PICK h : h = [cli[c] EXCEPT !.pc = "greet"]
  OBVIOUS
<1>2. PICK a : a = [ag[c] EXCEPT !.pc = "hello"]
  OBVIOUS
<1>3. PICK u : u = IF own[c] THEN <<"hello">> ELSE <<"alien">>
  OBVIOUS
<1>4. /\ cli' = [cli EXCEPT ![c] = h] /\ up' = [up EXCEPT ![c] = u]
      /\ ag' = [ag EXCEPT ![c] = a]
  BY <1>1, <1>2, <1>3 DEF Connect
<1>5. /\ down' = [down EXCEPT ![c] = down[c]] /\ proc' = [proc EXCEPT ![c] = proc[c]]
      /\ UNCHANGED <<fixedVars, poweroff, trim, live>>
  BY SessionTypes DEF Connect, SessionInv, guestVars
<1>6. /\ h \in Clients /\ h.pc = "greet" /\ h.res = cli[c].res /\ h.got = cli[c].got
      /\ a \in Handlers /\ a.pc = "hello" /\ ag[c].pc = "none" /\ cli[c].pc = "idle"
  BY <1>1, <1>2, Reads DEF Connect, Clients, Handlers, HandlerSteps
<1>7. u \in Seq(ClientFrames) /\ \A i \in 1 .. Len(u) : Admitted(u[i], kind[c])
  <2>1. CASE own[c]
    <3>1. u = <<"hello">> BY <1>3, <2>1
    <3>2. QED BY <3>1 DEF ClientFrames, CallKinds, Admitted
  <2>2. CASE ~own[c]
    <3>1. u = <<"alien">> BY <1>3, <2>2
    <3>2. QED BY <3>1 DEF ClientFrames, CallKinds, Admitted
  <2>3. QED BY <2>1, <2>2
<1>8. Sound(kind[c], own[c], h, u, down[c], a, proc[c], poweroff, c \in trim.trimmed)
  <2>1. Phases(kind[c], own[c], h, u, down[c], a)
    BY <1>3, <1>6, Reads DEF Sound, Phases, Streaming
  <2>2. Started(kind[c], own[c], h, a, proc[c]) BY <1>6, Reads DEF Sound, Started, Early
  <2>3. Carried(h, down[c], a, proc[c]) BY <1>6 DEF Carried, Streaming
  <2>4. Framed(kind[c], u, down[c], poweroff, c \in trim.trimmed)
    BY <1>7, Reads DEF Sound, Framed
  <2>5. Concluded(kind[c], h, a, proc[c], poweroff, c \in trim.trimmed)
    BY <1>6, Reads DEF Sound, Phases, Concluded
  <2>6. QED BY <2>1, <2>2, <2>3, <2>4, <2>5 DEF Sound
<1>9. a.pc \in Counting <=> ag[c].pc \in Counting BY <1>6 DEF Counting, Pumping
<1>10. /\ down[c] \in Seq(AgentFrames) /\ proc[c] \in Processes BY Reads
<1>11. QED BY <1>4, <1>5, <1>6, <1>7, <1>8, <1>9, <1>10, ConnSteps

\* A greeting that is returned opens the call; one that is refused, or never
\* comes, is the end of it before any process was started.
LEMMA ReadGreetingInv ==
    ASSUME SessionInv, NEW c \in Conns, ReadGreeting(c)
    PROVE  SessionInv'
<1>r. /\ kind[c] \in CallKinds /\ own[c] \in BOOLEAN /\ cli[c] \in Clients
      /\ up[c] \in Seq(ClientFrames) /\ down[c] \in Seq(AgentFrames)
      /\ ag[c] \in Handlers /\ proc[c] \in Processes
      /\ Sound(kind[c], own[c], cli[c], up[c], down[c], ag[c], proc[c],
               poweroff, c \in trim.trimmed)
  BY Reads
<1>g. /\ cli[c].pc = "greet" /\ proc[c].leader = "none" /\ cli[c].res = "none"
      /\ UNCHANGED <<fixedVars, ag, guestVars>>
      /\ ag[c].pc \in {"hello", "ready", "gone"}
      /\ ag[c].pc = "hello" => down[c] = <<>>
      /\ ag[c].pc = "ready" => down[c] = <<"hello">> /\ up[c] = <<>>
  BY <1>r DEF ReadGreeting, Sound, Phases, Started
<1>1. CASE down[c] # <<>> /\ Head(down[c]) = "hello"
  <2>1. ag[c].pc = "ready" /\ down[c] = <<"hello">> /\ up[c] = <<>>
    BY <1>1, <1>g, <1>r DEF Sound, Phases
  <2>2. PICK h : h = [cli[c] EXCEPT !.pc = IF kind[c] = "session" THEN "stream" ELSE "ask"]
    OBVIOUS
  <2>3. PICK u \in (IF kind[c] = "session" THEN Opening(c) ELSE {<<kind[c]>>}) :
            /\ up' = [up EXCEPT ![c] = up[c] \o u] /\ cli' = [cli EXCEPT ![c] = h]
            /\ down' = [down EXCEPT ![c] = Tail(down[c])]
    BY <1>1, <2>2 DEF ReadGreeting
  <2>4. u \in Seq(ClientFrames) /\ \A i \in 1 .. Len(u) : Admitted(u[i], kind[c])
    <3>1. CASE kind[c] = "session"
      <4>1. u = <<"start">> \/ u = <<"resize", "start">> BY <2>3, <3>1 DEF Opening
      <4>2. CASE u = <<"start">> BY <3>1, <4>2 DEF ClientFrames, CallKinds, Admitted
      <4>3. CASE u = <<"resize", "start">>
        <5>1. u \in Seq(ClientFrames) BY <4>3 DEF ClientFrames
        <5>2. Len(u) = 2 /\ Admitted(u[1], kind[c]) /\ Admitted(u[2], kind[c])
          BY <3>1, <4>3 DEF CallKinds, Admitted
        <5>3. QED BY <5>1, <5>2
      <4>4. QED BY <4>1, <4>2, <4>3
    <3>2. CASE kind[c] # "session"
      <4>1. u = <<kind[c]>> BY <2>3, <3>2
      <4>2. QED BY <1>r, <4>1 DEF ClientFrames, CallKinds, Admitted
    <3>3. QED BY <3>1, <3>2
  <2>5. up[c] \o u = u /\ Tail(down[c]) = <<>>
    BY <2>1, <2>4, ConcatEmptySeq
  <2>6. /\ h \in Clients /\ h.res = "none" /\ h.got = cli[c].got
        /\ h.pc = IF kind[c] = "session" THEN "stream" ELSE "ask"
    BY <1>g, <1>r, <2>2 DEF Clients
  <2>7. Sound(kind[c], own[c], h, u, <<>>, ag[c], proc[c], poweroff, c \in trim.trimmed)
    <3>1. Phases(kind[c], own[c], h, u, <<>>, ag[c])
      BY <1>r, <2>1, <2>6 DEF Sound, Phases, Streaming
    <3>2. Started(kind[c], own[c], h, ag[c], proc[c]) BY <1>r, <2>6 DEF Sound, Started
    <3>3. Carried(h, <<>>, ag[c], proc[c]) BY <2>1 DEF Carried, Pumping
    <3>4. Framed(kind[c], u, <<>>, poweroff, c \in trim.trimmed) BY <2>4 DEF Framed
    <3>5. Concluded(kind[c], h, ag[c], proc[c], poweroff, c \in trim.trimmed)
      BY <2>6 DEF Concluded
    <3>6. QED BY <3>1, <3>2, <3>3, <3>4, <3>5 DEF Sound
  <2>8. up' = [up EXCEPT ![c] = u] /\ down' = [down EXCEPT ![c] = <<>>]
    BY <2>3, <2>5
  <2>9. <<>> \in Seq(AgentFrames) OBVIOUS
  <2>10. QED BY <1>g, <2>3, <2>4, <2>6, <2>7, <2>8, <2>9, ClientSteps
<1>2. CASE ~(down[c] # <<>> /\ Head(down[c]) = "hello")
  <2>1. PICK res : /\ res = (IF kind[c] = "session" THEN "identity" ELSE Unconnected(c))
                      \/ res = (IF kind[c] = "session" THEN "transport" ELSE Unconnected(c))
                   /\ Finish(c, res) /\ UNCHANGED up
                   /\ down' = down \/ (down[c] # <<>> /\ down' = [down EXCEPT ![c] = Tail(down[c])])
    BY <1>2 DEF ReadGreeting
  <2>2. ag[c].pc = "gone"
    <3>1. CASE down[c] = <<>> /\ AgentGone(c) BY <3>1 DEF AgentGone
    <3>2. CASE down[c] # <<>> /\ Head(down[c]) # "hello"
      <4>1. down[c] # <<"hello">> BY <3>2
      <4>2. QED BY <1>g, <3>2, <4>1
    <3>3. QED BY <1>2, <3>1, <3>2 DEF ReadGreeting
  <2>3. res \in {"identity", "transport", "retry", "unavailable", "false", "unreachable"}
    BY <1>r, <2>1, UnconnectedIs
  <2>4. res \in Outcomes BY <2>3 DEF Outcomes
  <2>5. QED BY <1>g, <2>1, <2>2, <2>3, <2>4, Finishes
<1>3. QED BY <1>1, <1>2

\* The client takes a frame of its session: one more chunk, or the end.
LEMMA ReadFrameInv ==
    ASSUME SessionInv, NEW c \in Conns, ReadFrame(c)
    PROVE  SessionInv'
<1>r. /\ kind[c] \in CallKinds /\ own[c] \in BOOLEAN /\ cli[c] \in Clients
      /\ up[c] \in Seq(ClientFrames) /\ down[c] \in Seq(AgentFrames)
      /\ ag[c] \in Handlers /\ proc[c] \in Processes
      /\ Sound(kind[c], own[c], cli[c], up[c], down[c], ag[c], proc[c],
               poweroff, c \in trim.trimmed)
  BY Reads
<1>g. cli[c].pc = "stream" /\ UNCHANGED <<fixedVars, up, ag, guestVars>>
  BY DEF ReadFrame
<1>c. \A i \in 1 .. Len(down[c]) :
          /\ down[c][i] = "out" => cli[c].got + i <= proc[c].wrote
          /\ down[c][i] = "exit" => /\ cli[c].got + i = proc[c].wrote + 1
                                    /\ proc[c].leader # "running" /\ ag[c].pc = "gone"
          /\ down[c][i] = "error" => proc[c].leader = "none" /\ ag[c].pc = "gone"
  BY <1>g, <1>r DEF Sound, Carried, Streaming
<1>n. cli[c].got \in Nat /\ proc[c].wrote \in 0..MaxOut /\ MaxOut \in Nat
  BY <1>r, SessionAssumption DEF Clients, Processes
<1>1. CASE /\ down[c] # <<>> /\ Head(down[c]) = "out"
           /\ cli' = [cli EXCEPT ![c].got = @ + 1]
           /\ down' = [down EXCEPT ![c] = Tail(down[c])]
  <2>1. PICK h : h = [cli[c] EXCEPT !.got = cli[c].got + 1]
    OBVIOUS
  <2>2. PICK d : d = Tail(down[c])
    OBVIOUS
  <2>3. /\ d \in Seq(AgentFrames) /\ down[c][1] = "out" /\ Len(down[c]) \in Nat \ {0}
        /\ Len(d) = Len(down[c]) - 1
        /\ \A i \in 1 .. Len(d) : i + 1 \in 1 .. Len(down[c]) /\ d[i] = down[c][i + 1]
    BY <1>1, <1>r, <2>2, TailOf
  <2>4. cli[c].got + 1 <= proc[c].wrote
    <3>1. 1 \in 1 .. Len(down[c]) BY <2>3
    <3>2. QED BY <1>c, <2>3, <3>1
  <2>5. /\ h \in Clients /\ h.pc = "stream" /\ h.res = cli[c].res /\ h.got = cli[c].got + 1
    <3>1. cli[c].got + 1 \in 0..MaxOut BY <1>n, <2>4
    <3>2. QED BY <1>g, <1>r, <2>1, <3>1 DEF Clients
  <2>6. Sound(kind[c], own[c], h, up[c], d, ag[c], proc[c], poweroff, c \in trim.trimmed)
    <3>1. Phases(kind[c], own[c], h, up[c], d, ag[c])
      <4>1. ag[c].pc \notin {"none", "hello", "ready", "spawn"}
        BY <1>1, <1>g, <1>r DEF Sound, Phases, Streaming
      <4>2. QED BY <1>g, <1>r, <2>5, <4>1 DEF Sound, Phases
    <3>2. Started(kind[c], own[c], h, ag[c], proc[c]) BY <1>g, <1>r, <2>4, <2>5 DEF Sound, Started
    <3>3. Carried(h, d, ag[c], proc[c])
      <4>1. ag[c].pc \in Pumping => h.got + Len(d) + proc[c].pipe + InHand(ag[c]) = proc[c].wrote
        <5>1. proc[c].pipe \in Nat /\ InHand(ag[c]) \in Nat
          BY <1>r, SessionAssumption DEF Processes, InHand
        <5>2. ag[c].pc \in Pumping => cli[c].got + Len(down[c]) + proc[c].pipe + InHand(ag[c])
                                      = proc[c].wrote
          BY <1>g, <1>r DEF Sound, Carried, Streaming
        <5>3. PICK b, x, l, e, g : /\ b = proc[c].pipe /\ x = InHand(ag[c]) /\ l = Len(down[c])
                                   /\ e = Len(d) /\ g = cli[c].got
          OBVIOUS
        <5>4. b \in Nat /\ x \in Nat /\ l \in Nat /\ e = l - 1 /\ g \in Nat /\ h.got = g + 1
          BY <1>n, <2>3, <2>5, <5>1, <5>3
        <5>5. (g + 1) + e + b + x = g + l + b + x BY <5>4
        <5>6. QED BY <5>2, <5>3, <5>4, <5>5
      <4>2. ASSUME NEW i \in 1 .. Len(d)
            PROVE  /\ d[i] = "out" => h.got + i <= proc[c].wrote
                   /\ d[i] = "exit" => /\ h.got + i = proc[c].wrote + 1
                                       /\ proc[c].leader # "running" /\ ag[c].pc = "gone"
                   /\ d[i] = "error" => proc[c].leader = "none" /\ ag[c].pc = "gone"
        <5>1. i + 1 \in 1 .. Len(down[c]) /\ d[i] = down[c][i + 1] /\ i \in Nat BY <2>3, <4>2
        <5>2. h.got + i = cli[c].got + (i + 1)
          <6>1. PICK g \in Nat : g = cli[c].got BY <1>n
          <6>2. h.got = g + 1 BY <2>5, <6>1
          <6>3. PICK j \in Nat : j = i BY <5>1
          <6>4. (g + 1) + j = g + (j + 1) OBVIOUS
          <6>5. QED BY <6>1, <6>2, <6>3, <6>4
        <5>3. QED BY <1>c, <5>1, <5>2
      <4>3. QED BY <4>1, <4>2 DEF Carried
    <3>4. Framed(kind[c], up[c], d, poweroff, c \in trim.trimmed)
      BY <1>r, <2>3 DEF Sound, Framed
    <3>5. Concluded(kind[c], h, ag[c], proc[c], poweroff, c \in trim.trimmed)
      BY <1>g, <1>r, <2>5 DEF Sound, Phases, Concluded
    <3>6. QED BY <3>1, <3>2, <3>3, <3>4, <3>5 DEF Sound
  <2>7. /\ cli' = [cli EXCEPT ![c] = h] /\ down' = [down EXCEPT ![c] = d]
        /\ up' = [up EXCEPT ![c] = up[c]]
    BY <1>1, <1>g, <2>1, <2>2, SessionTypes DEF SessionInv
  <2>8. QED BY <1>g, <1>r, <2>3, <2>5, <2>6, <2>7, ClientSteps
<1>2. CASE /\ down[c] # <<>> /\ Head(down[c]) # "out"
           /\ Finish(c, CASE Head(down[c]) = "exit"  -> "exited"
                          [] Head(down[c]) = "error" -> "refused"
                          [] OTHER                   -> "lost")
           /\ down' = [down EXCEPT ![c] = Tail(down[c])]
  <2>1. Head(down[c]) = down[c][1] /\ 1 \in 1 .. Len(down[c]) BY <1>2, <1>r, TailOf
  <2>2. CASE Head(down[c]) = "exit"
    <3>1. Finish(c, "exited") BY <1>2, <2>2
    <3>2. cli[c].got = proc[c].wrote /\ proc[c].leader # "running" /\ ag[c].pc = "gone"
      BY <1>c, <1>n, <2>1, <2>2
    <3>3. QED BY <1>2, <1>g, <3>1, <3>2, Finishes DEF Outcomes
  <2>3. CASE Head(down[c]) = "error"
    <3>1. Finish(c, "refused") BY <1>2, <2>3
    <3>2. proc[c].leader = "none" /\ ag[c].pc = "gone" BY <1>c, <2>1, <2>3
    <3>3. QED BY <1>2, <1>g, <3>1, <3>2, Finishes DEF Outcomes
  <2>4. CASE Head(down[c]) \notin {"exit", "error"}
    <3>1. Finish(c, "lost") BY <1>2, <2>4
    <3>2. QED BY <1>2, <1>g, <3>1, Finishes DEF Outcomes
  <2>5. QED BY <2>2, <2>3, <2>4
<1>3. CASE /\ Finish(c, "transport") \/ Finish(c, "lost")
           /\ down' = down \/ (down[c] # <<>> /\ down' = [down EXCEPT ![c] = Tail(down[c])])
  BY <1>3, <1>g, Finishes DEF Outcomes
<1>4. QED BY <1>1, <1>2, <1>3 DEF ReadFrame
\* A client that reads on has concluded nothing; what it sends is input.
LEMMA InputSound ==
    ASSUME SessionInv, NEW c \in Conns, cli[c].pc \in Streaming,
           NEW h \in Clients, h.pc \in Streaming, h.res = cli[c].res, h.got = cli[c].got,
           NEW u, u = up[c] \/ u = Append(up[c], "stdin") \/ u = Append(up[c], "end")
    PROVE  /\ u \in Seq(ClientFrames)
           /\ Sound(kind[c], own[c], h, u, down[c], ag[c], proc[c], poweroff, c \in trim.trimmed)
<1>r. /\ kind[c] \in CallKinds /\ own[c] \in BOOLEAN /\ cli[c] \in Clients
      /\ up[c] \in Seq(ClientFrames) /\ down[c] \in Seq(AgentFrames)
      /\ ag[c] \in Handlers /\ proc[c] \in Processes
      /\ Sound(kind[c], own[c], cli[c], up[c], down[c], ag[c], proc[c],
               poweroff, c \in trim.trimmed)
  BY Reads
<1>1. u \in Seq(ClientFrames) /\ \A i \in 1 .. Len(u) : Admitted(u[i], kind[c])
  <2>1. \A i \in 1 .. Len(up[c]) : Admitted(up[c][i], kind[c])
    BY <1>r DEF Sound, Framed
  <2>2. ASSUME NEW f \in {"stdin", "end"}, u = Append(up[c], f)
        PROVE  u \in Seq(ClientFrames) /\ \A i \in 1 .. Len(u) : Admitted(u[i], kind[c])
    <3>1. f \in ClientFrames /\ Admitted(f, kind[c])
      BY <2>2 DEF ClientFrames, CallKinds, Admitted
    <3>2. /\ u \in Seq(ClientFrames) /\ u[Len(up[c]) + 1] = f
          /\ \A i \in 1 .. Len(u) :
                (i \in 1 .. Len(up[c]) /\ u[i] = up[c][i]) \/ (i = Len(up[c]) + 1)
      BY <1>r, <2>2, <3>1, Appended
    <3>3. QED BY <2>1, <3>1, <3>2
  <2>3. QED BY <1>r, <2>1, <2>2
<1>2. Phases(kind[c], own[c], h, u, down[c], ag[c])
  BY <1>r DEF Sound, Phases, Streaming
<1>3. Started(kind[c], own[c], h, ag[c], proc[c]) BY <1>r DEF Sound, Started, Streaming
<1>4. Carried(h, down[c], ag[c], proc[c]) BY <1>r DEF Sound, Carried
<1>5. Framed(kind[c], u, down[c], poweroff, c \in trim.trimmed) BY <1>1, <1>r DEF Sound, Framed
<1>6. Concluded(kind[c], h, ag[c], proc[c], poweroff, c \in trim.trimmed)
  BY <1>r DEF Sound, Concluded
<1>7. QED BY <1>1, <1>2, <1>3, <1>4, <1>5, <1>6 DEF Sound

\* Taking host input, and sending it or failing to.
LEMMA InputInv ==
    ASSUME SessionInv, NEW c \in Conns, TakeInput(c) \/ SendInput(c)
    PROVE  SessionInv'
<1>r. /\ cli[c] \in Clients /\ up[c] \in Seq(ClientFrames) /\ down[c] \in Seq(AgentFrames)
      /\ cli \in [Conns -> Clients] /\ up \in [Conns -> Seq(ClientFrames)]
      /\ down \in [Conns -> Seq(AgentFrames)]
  BY Reads, SessionTypes DEF SessionInv
<1>g. /\ cli[c].pc \in Streaming /\ UNCHANGED <<fixedVars, ag, guestVars>>
      /\ down' = [down EXCEPT ![c] = down[c]]
  BY <1>r DEF TakeInput, SendInput, Streaming
<1>1. CASE TakeInput(c)
  <2>0. PICK n : n = IF cli[c].left = 0 THEN 0 ELSE cli[c].left - 1
    OBVIOUS
  <2>i. n \in 0..MaxIn
    <3>1. cli[c].left \in 0..MaxIn /\ MaxIn \in Nat BY <1>r, SessionAssumption DEF Clients
    <3>2. QED BY <2>0, <3>1
  <2>e. PICK e \in BOOLEAN : e = (cli[c].left = 0)
    OBVIOUS
  <2>1. PICK h : h = [cli[c] EXCEPT !.pc = "sending", !.ended = e, !.left = n]
    OBVIOUS
  <2>2. /\ h \in Clients /\ h.pc \in Streaming /\ h.res = cli[c].res /\ h.got = cli[c].got
    BY <1>r, <2>1, <2>i DEF Clients, Streaming
  <2>3. cli' = [cli EXCEPT ![c] = h] BY <1>1, <2>0, <2>e, <2>1 DEF TakeInput
  <2>4. up' = [up EXCEPT ![c] = up[c]] BY <1>1, <1>r DEF TakeInput
  <2>5. Sound(kind[c], own[c], h, up[c], down[c], ag[c], proc[c], poweroff, c \in trim.trimmed)
    BY <1>g, <2>2, InputSound
  <2>6. QED BY <1>g, <1>r, <2>2, <2>3, <2>4, <2>5, ClientSteps
<1>2. CASE SendInput(c)
  <2>1. PICK h, u : /\ h = [cli[c] EXCEPT !.pc = "stream"]
                       \/ h = [cli[c] EXCEPT !.pc = "stream", !.ended = TRUE]
                    /\ u = up[c] \/ u = Append(up[c], "stdin") \/ u = Append(up[c], "end")
                    /\ cli' = [cli EXCEPT ![c] = h] /\ up' = [up EXCEPT ![c] = u]
    <3>1. CASE ~AgentGone(c)
      <4>1. /\ up' = [up EXCEPT ![c] = Append(up[c], IF cli[c].ended THEN "end" ELSE "stdin")]
            /\ cli' = [cli EXCEPT ![c] = [cli[c] EXCEPT !.pc = "stream"]]
        BY <1>2, <3>1 DEF SendInput
      <4>2. CASE cli[c].ended BY <4>1, <4>2
      <4>3. CASE ~cli[c].ended BY <4>1, <4>3
      <4>4. QED BY <4>2, <4>3
    <3>2. CASE AgentGone(c)
      <4>1. /\ up' = [up EXCEPT ![c] = up[c]]
            /\ cli' = [cli EXCEPT ![c] = [cli[c] EXCEPT !.pc = "stream", !.ended = TRUE]]
        BY <1>2, <1>r, <3>2 DEF SendInput
      <4>2. QED BY <4>1
    <3>3. QED BY <3>1, <3>2
  <2>2. /\ h \in Clients /\ h.pc \in Streaming /\ h.res = cli[c].res /\ h.got = cli[c].got
    BY <1>r, <2>1 DEF Clients, Streaming
  <2>3. /\ u \in Seq(ClientFrames)
        /\ Sound(kind[c], own[c], h, u, down[c], ag[c], proc[c], poweroff, c \in trim.trimmed)
    BY <1>g, <2>1, <2>2, InputSound
  <2>4. QED BY <1>g, <1>r, <2>1, <2>2, <2>3, ClientSteps
<1>3. QED BY <1>1, <1>2

\* A handshake is tried again on a connection of its own, or given up.
LEMMA RetryInv ==
    ASSUME SessionInv, NEW c \in Conns, Retry(c)
    PROVE  SessionInv'
<1>r. /\ kind[c] \in CallKinds /\ own[c] \in BOOLEAN /\ cli[c] \in Clients
      /\ ag[c] \in Handlers /\ proc[c] \in Processes
      /\ Sound(kind[c], own[c], cli[c], up[c], down[c], ag[c], proc[c],
               poweroff, c \in trim.trimmed)
  BY Reads
<1>1. CASE Finish(c, "readiness") /\ UNCHANGED <<up, down, ag>>
  BY <1>1, Finishes DEF Retry, Outcomes
<1>2. CASE /\ ag[c].pc \in {"none", "gone"}
           /\ cli' = [cli EXCEPT ![c].pc = "idle", ![c].res = "none"]
           /\ up' = [up EXCEPT ![c] = <<>>] /\ down' = [down EXCEPT ![c] = <<>>]
           /\ ag' = [ag EXCEPT ![c].pc = "none"]
  <2>1. PICK h, a : h = [cli[c] EXCEPT !.pc = "idle", !.res = "none"]
                    /\ a = [ag[c] EXCEPT !.pc = "none"]
    OBVIOUS
  <2>2. /\ h \in Clients /\ h.pc = "idle" /\ h.res = "none" /\ h.got = cli[c].got
        /\ a \in Handlers /\ a.pc = "none"
    BY <1>r, <2>1 DEF Clients, Handlers, HandlerSteps, Outcomes
  <2>3. proc[c].leader = "none" BY <1>r DEF Retry, Sound, Concluded, Started
  <2>4. Sound(kind[c], own[c], h, <<>>, <<>>, a, proc[c], poweroff, c \in trim.trimmed)
    BY <1>r, <2>2, <2>3
       DEF Sound, Phases, Started, Carried, Framed, Concluded, Streaming
  <2>5. /\ cli' = [cli EXCEPT ![c] = h] /\ ag' = [ag EXCEPT ![c] = a]
        /\ proc' = [proc EXCEPT ![c] = proc[c]] /\ UNCHANGED <<fixedVars, poweroff, trim, live>>
    BY <1>2, <2>1, SessionTypes DEF Retry, guestVars, SessionInv
  <2>6. a.pc \in Counting <=> ag[c].pc \in Counting BY <1>2, <2>2 DEF Counting, Pumping
  <2>7. <<>> \in Seq(ClientFrames) /\ <<>> \in Seq(AgentFrames) OBVIOUS
  <2>8. QED BY <1>2, <1>r, <2>2, <2>4, <2>5, <2>6, <2>7, ConnSteps
<1>3. QED BY <1>1, <1>2 DEF Retry
-----------------------------------------------------------------------------
(* The agent's handler before there is a process.                          *)

EarlySteps == {"ready", "spawn", "turn", "trimming"}

\* A handler that has greeted its client serves it without starting anything:
\* it takes a request, and ends with one answer that is true.
LEMMA ServeSound ==
    ASSUME SessionInv, NEW c \in Conns, ag[c].pc \in EarlySteps,
           up[c] # <<>> \/ ag[c].pc # "ready" \/ ~Connected(c),
           NEW a \in Handlers, a.pc \in EarlySteps \cup {"gone"},
           a.pc = "ready" => ag[c].pc = "ready",
           a.pc = "spawn" => ag[c].pc = "ready" /\ kind[c] = "session",
           NEW u, u = up[c] \/ (up[c] # <<>> /\ u = Tail(up[c])),
           poweroff => poweroff', trim.trimmed \subseteq trim'.trimmed,
           NEW f \in AgentFrames, f \notin {"out", "exit"},
           f = "ack" => poweroff', f = "trimack" => c \in trim'.trimmed,
           NEW d, d = down[c] \/ (a.pc = "gone" /\ d = Append(down[c], f))
    PROVE  /\ u \in Seq(ClientFrames) /\ d \in Seq(AgentFrames)
           /\ Sound(kind[c], own[c], cli[c], u, d, a, proc[c], poweroff', c \in trim'.trimmed)
<1>r. /\ kind[c] \in CallKinds /\ own[c] \in BOOLEAN /\ cli[c] \in Clients
      /\ up[c] \in Seq(ClientFrames) /\ down[c] \in Seq(AgentFrames)
      /\ ag[c] \in Handlers /\ proc[c] \in Processes
      /\ Sound(kind[c], own[c], cli[c], up[c], down[c], ag[c], proc[c],
               poweroff, c \in trim.trimmed)
  BY Reads
<1>g. cli[c].pc \notin {"greet", "idle"} /\ own[c] /\ proc[c].leader = "none"
  <2>1. Phases(kind[c], own[c], cli[c], up[c], down[c], ag[c])
        /\ Started(kind[c], own[c], cli[c], ag[c], proc[c])
    BY <1>r DEF Sound
  <2>2. cli[c].pc = "greet" => Connected(c) BY DEF Connected
  <2>3. QED BY <2>1, <2>2 DEF Phases, Started, Early, EarlySteps
<1>1. u \in Seq(ClientFrames) /\ \A i \in 1 .. Len(u) : Admitted(u[i], kind[c])
  <2>1. \A i \in 1 .. Len(up[c]) : Admitted(up[c][i], kind[c]) BY <1>r DEF Sound, Framed
  <2>2. CASE up[c] # <<>> /\ u = Tail(up[c])
    <3>1. /\ u \in Seq(ClientFrames)
          /\ \A i \in 1 .. Len(u) : i + 1 \in 1 .. Len(up[c]) /\ u[i] = up[c][i + 1]
      BY <1>r, <2>2, TailOf
    <3>2. QED BY <2>1, <3>1
  <2>3. QED BY <1>r, <2>1, <2>2
<1>2. /\ d \in Seq(AgentFrames)
      /\ \A i \in 1 .. Len(d) : (i \in 1 .. Len(down[c]) /\ d[i] = down[c][i])
                                \/ (d[i] = f /\ a.pc = "gone")
  <2>1. CASE d = down[c] BY <1>r, <2>1
  <2>2. CASE a.pc = "gone" /\ d = Append(down[c], f)
    <3>1. /\ d \in Seq(AgentFrames) /\ d[Len(down[c]) + 1] = f
          /\ \A i \in 1 .. Len(d) :
                (i \in 1 .. Len(down[c]) /\ d[i] = down[c][i]) \/ (i = Len(down[c]) + 1)
      BY <1>r, <2>2, Appended
    <3>2. QED BY <2>2, <3>1
  <2>3. QED BY <2>1, <2>2
<1>3. Phases(kind[c], own[c], cli[c], u, d, a)
  BY <1>r, <1>g DEF Sound, Phases, EarlySteps
<1>4. Started(kind[c], own[c], cli[c], a, proc[c])
  BY <1>r, <1>g DEF Sound, Started, EarlySteps
<1>5. Carried(cli[c], d, a, proc[c])
  <2>1. a.pc \notin Pumping BY DEF Pumping, EarlySteps
  <2>2. cli[c].pc \in Streaming => \A i \in 1 .. Len(down[c]) :
            down[c][i] \notin {"exit", "error"}
            /\ (down[c][i] = "out" => cli[c].got + i <= proc[c].wrote)
    BY <1>r DEF Sound, Carried, EarlySteps
  <2>3. QED BY <1>g, <1>2, <2>1, <2>2 DEF Carried
<1>6. Framed(kind[c], u, d, poweroff', c \in trim'.trimmed) BY <1>1, <1>2, <1>r DEF Sound, Framed
<1>7. Concluded(kind[c], cli[c], a, proc[c], poweroff', c \in trim'.trimmed)
  BY <1>r DEF Sound, Concluded, EarlySteps
<1>8. QED BY <1>1, <1>2, <1>3, <1>4, <1>5, <1>6, <1>7 DEF Sound

\* The same, as a step.
LEMMA Serves ==
    ASSUME SessionInv, NEW c \in Conns, UNCHANGED <<fixedVars, cli, proc>>,
           ag[c].pc \in EarlySteps,
           up[c] # <<>> \/ ag[c].pc # "ready" \/ ~Connected(c),
           NEW a \in Handlers, a.pc \in EarlySteps \cup {"gone"}, ag' = [ag EXCEPT ![c] = a],
           a.pc = "ready" => ag[c].pc = "ready",
           a.pc = "spawn" => ag[c].pc = "ready" /\ kind[c] = "session",
           up' = up \/ (up[c] # <<>> /\ up' = [up EXCEPT ![c] = Tail(up[c])]),
           NEW f \in AgentFrames, f \notin {"out", "exit"},
           f = "ack" => poweroff', f = "trimack" => c \in trim'.trimmed,
           down' = down \/ (a.pc = "gone" /\ Answer(c, f)),
           \/ live' = live /\ a.pc # "spawn" /\ ag[c].pc # "spawn"
           \/ live' = live + 1 /\ a.pc = "spawn" /\ ag[c].pc # "spawn"
           \/ live' = live - 1 /\ a.pc # "spawn" /\ ag[c].pc = "spawn",
           poweroff' \in BOOLEAN, poweroff => poweroff', PoweroffIsOwn',
           trim' \in TrimFiles, trim.trimmed \subseteq trim'.trimmed, TrimsAreOwn'
    PROVE  SessionInv'
<1>1. /\ cli[c] \in Clients /\ up[c] \in Seq(ClientFrames) /\ down[c] \in Seq(AgentFrames)
      /\ proc[c] \in Processes
  BY Reads
<1>2. /\ cli' = [cli EXCEPT ![c] = cli[c]] /\ proc' = [proc EXCEPT ![c] = proc[c]]
  BY SessionTypes DEF SessionInv
<1>3. PICK u : /\ u = up[c] \/ (up[c] # <<>> /\ u = Tail(up[c]))
               /\ up' = [up EXCEPT ![c] = u]
  BY SessionTypes DEF SessionInv
<1>4. PICK d : /\ d = down[c] \/ (a.pc = "gone" /\ d = Append(down[c], f))
               /\ down' = [down EXCEPT ![c] = d]
  BY SessionTypes DEF SessionInv, Answer
<1>8. /\ u \in Seq(ClientFrames) /\ d \in Seq(AgentFrames)
      /\ Sound(kind[c], own[c], cli[c], u, d, a, proc[c], poweroff', c \in trim'.trimmed)
  BY <1>3, <1>4, ServeSound, ZenonT(60)
<1>9. \/ live' = live /\ (a.pc \in Counting <=> ag[c].pc \in Counting)
      \/ live' = live + 1 /\ a.pc \in Counting /\ ag[c].pc \notin Counting
      \/ live' = live - 1 /\ a.pc \notin Counting /\ ag[c].pc \in Counting
  BY DEF EarlySteps, Counting, Pumping
<1>10. UNCHANGED fixedVars OBVIOUS
<1>11. QED BY <1>1, <1>2, <1>3, <1>4, <1>8, <1>9, <1>10, OneSteps, ZenonT(100)
\* The same for a step that triggers no poweroff and touches no trim file.
LEMMA ServesQuietly ==
    ASSUME SessionInv, NEW c \in Conns, UNCHANGED <<fixedVars, cli, proc, poweroff, trim>>,
           ag[c].pc \in EarlySteps,
           up[c] # <<>> \/ ag[c].pc # "ready" \/ ~Connected(c),
           NEW a \in Handlers, a.pc \in EarlySteps \cup {"gone"}, ag' = [ag EXCEPT ![c] = a],
           a.pc = "ready" => ag[c].pc = "ready",
           a.pc = "spawn" => ag[c].pc = "ready" /\ kind[c] = "session",
           up' = up \/ (up[c] # <<>> /\ up' = [up EXCEPT ![c] = Tail(up[c])]),
           NEW f \in AgentFrames, f \notin {"out", "exit", "ack", "trimack"},
           down' = down \/ (a.pc = "gone" /\ Answer(c, f)),
           \/ live' = live /\ a.pc # "spawn" /\ ag[c].pc # "spawn"
           \/ live' = live + 1 /\ a.pc = "spawn" /\ ag[c].pc # "spawn"
           \/ live' = live - 1 /\ a.pc # "spawn" /\ ag[c].pc = "spawn"
    PROVE  SessionInv'
<1>1. poweroff' = poweroff /\ trim' = trim /\ kind' = kind /\ own' = own
      /\ UNCHANGED <<fixedVars, cli, proc>>
  BY DEF fixedVars
<1>2. poweroff' \in BOOLEAN /\ trim' \in TrimFiles /\ (poweroff => poweroff')
      /\ trim.trimmed \subseteq trim'.trimmed
  BY <1>1, SessionTypes DEF SessionInv
<1>3. PoweroffIsOwn' /\ TrimsAreOwn'
  BY <1>1 DEF SessionInv, PoweroffIsOwn, TrimsAreOwn
<1>4. f \notin {"out", "exit"} /\ (f = "ack" => poweroff') /\ (f = "trimack" => c \in trim'.trimmed)
  OBVIOUS
<1>5. QED BY <1>1, <1>2, <1>3, <1>4, Serves, ZenonT(60)

\* The steps that take a request which is answered, refused or given up.
LEMMA RequestInv ==
    ASSUME SessionInv, NEW c \in Conns,
           ServeQuery(c) \/ ServeResize(c) \/ ServeStart(c) \/ Abandoned(c) \/ ServeTrim(c)
    PROVE  SessionInv'
<1>r. ag[c] \in Handlers /\ up[c] \in Seq(ClientFrames) /\ ag \in [Conns -> Handlers]
  BY Reads, SessionTypes DEF SessionInv
<1>g. /\ ag[c].pc = "ready" /\ ag[c].pc \in EarlySteps
      /\ UNCHANGED <<fixedVars, cli, proc, poweroff, trim>>
      /\ up[c] # <<>> \/ ~Connected(c)
  BY DEF ServeQuery, ServeResize, ServeStart, Abandoned, ServeTrim, EarlySteps, AtEof, guestVars
<1>a. ASSUME NEW x \in HandlerSteps
      PROVE  \E a \in Handlers : a = [ag[c] EXCEPT !.pc = x] /\ a.pc = x
  <2>1. PICK a : a = [ag[c] EXCEPT !.pc = x]
    OBVIOUS
  <2>2. a \in Handlers /\ a.pc = x BY <1>a, <1>r, <2>1 DEF Handlers
  <2>3. QED BY <2>1, <2>2
<1>1. CASE ServeQuery(c)
  <2>1. PICK a \in Handlers : a = [ag[c] EXCEPT !.pc = "gone"] /\ a.pc = "gone"
    BY <1>a DEF HandlerSteps
  <2>2. ag' = [ag EXCEPT ![c] = a] /\ live' = live
        /\ up[c] # <<>> /\ up' = [up EXCEPT ![c] = Tail(up[c])]
    BY <1>1, <2>1 DEF ServeQuery, Advance, guestVars
  <2>3. PICK f \in {"pong", "sessions", "report", "error"} : Answer(c, f)
    BY <1>1 DEF ServeQuery
  <2>4. f \in AgentFrames /\ f \notin {"out", "exit", "ack", "trimack"} BY <2>3 DEF AgentFrames
  <2>5. QED BY <1>g, <2>1, <2>2, <2>3, <2>4, ServesQuietly
<1>2. CASE ServeResize(c)
  <2>1. ag' = [ag EXCEPT ![c] = ag[c]] /\ live' = live /\ down' = down
        /\ up[c] # <<>> /\ up' = [up EXCEPT ![c] = Tail(up[c])]
    BY <1>2, <1>r DEF ServeResize, guestVars
  <2>2. "error" \in AgentFrames BY DEF AgentFrames
  <2>3. QED BY <1>g, <1>r, <2>1, <2>2, ServesQuietly
<1>3. CASE ServeStart(c)
  <2>1. PICK a \in Handlers : a = [ag[c] EXCEPT !.pc = "spawn"] /\ a.pc = "spawn"
    BY <1>a DEF HandlerSteps
  <2>2. ag' = [ag EXCEPT ![c] = a] /\ live' = live + 1 /\ down' = down
        /\ up[c] # <<>> /\ up' = [up EXCEPT ![c] = Tail(up[c])]
    BY <1>3, <2>1 DEF ServeStart, Advance
  <2>3. kind[c] = "session"
    <3>1. up[c][1] = "start" /\ 1 \in 1 .. Len(up[c]) BY <1>3, <1>r, TailOf DEF ServeStart
    <3>2. QED BY <3>1, Reads DEF Sound, Framed, Admitted
  <2>4. "error" \in AgentFrames BY DEF AgentFrames
  <2>5. a.pc \in EarlySteps BY <2>1 DEF EarlySteps
  <2>6. QED BY <1>g, <2>1, <2>2, <2>3, <2>4, <2>5, ServesQuietly
<1>4. CASE Abandoned(c)
  <2>1. PICK a \in Handlers : a = [ag[c] EXCEPT !.pc = "gone"] /\ a.pc = "gone"
    BY <1>a DEF HandlerSteps
  <2>2. ag' = [ag EXCEPT ![c] = a] /\ live' = live /\ UNCHANGED <<up, down>>
    BY <1>4, <2>1 DEF Abandoned, Advance, guestVars
  <2>3. "error" \in AgentFrames BY DEF AgentFrames
  <2>4. QED BY <1>g, <2>1, <2>2, <2>3, ServesQuietly
<1>5. CASE ServeTrim(c)
  <2>1. PICK x \in {"turn", "gone"} : Advance(c, x) /\ (down' = down \/ (x = "gone" /\ Answer(c, "error")))
    BY <1>5 DEF ServeTrim, EndTrim
  <2>2. PICK a \in Handlers : a = [ag[c] EXCEPT !.pc = x] /\ a.pc = x
    BY <1>a DEF HandlerSteps
  <2>3. ag' = [ag EXCEPT ![c] = a] /\ live' = live
        /\ up[c] # <<>> /\ up' = [up EXCEPT ![c] = Tail(up[c])]
    BY <1>5, <2>1, <2>2 DEF ServeTrim, Advance, guestVars
  <2>4. "error" \in AgentFrames BY DEF AgentFrames
  <2>5. a.pc \in EarlySteps \cup {"gone"} /\ a.pc \notin {"spawn", "ready"}
    BY <2>2 DEF EarlySteps
  <2>6. QED BY <1>g, <2>1, <2>2, <2>3, <2>4, <2>5, ServesQuietly
<1>6. QED BY <1>1, <1>2, <1>3, <1>4, <1>5

\* The trigger is written for a shutdown of this boot, and is there before it
\* is acknowledged.
LEMMA ShutdownInv ==
    ASSUME SessionInv, NEW c \in Conns, ServeShutdown(c)
    PROVE  SessionInv'
<1>r. /\ ag[c] \in Handlers /\ up[c] \in Seq(ClientFrames)
      /\ poweroff \in BOOLEAN /\ trim \in TrimFiles
  BY Reads, SessionTypes DEF SessionInv
<1>1. /\ ag[c].pc = "ready" /\ ag[c].pc \in EarlySteps /\ up[c] # <<>>
      /\ up' = [up EXCEPT ![c] = Tail(up[c])] /\ live' = live /\ trim' = trim
      /\ UNCHANGED <<fixedVars, cli, proc>> /\ kind' = kind /\ own' = own
  BY DEF ServeShutdown, EarlySteps, fixedVars
<1>2. PICK a : a = [ag[c] EXCEPT !.pc = "gone"]
  OBVIOUS
<1>3. a \in Handlers /\ a.pc = "gone" BY <1>2, <1>r DEF Handlers, HandlerSteps
<1>4. ag' = [ag EXCEPT ![c] = a] BY <1>2 DEF ServeShutdown, Advance
<1>5. own[c] /\ kind[c] = "shutdown"
  <2>1. up[c][1] = "shutdown" /\ 1 \in 1 .. Len(up[c]) BY <1>r, TailOf DEF ServeShutdown
  <2>2. Admitted("shutdown", kind[c]) BY <2>1, Reads DEF Sound, Framed
  <2>3. own[c] BY <1>1, Reads DEF Sound, Phases
  <2>4. QED BY <2>2, <2>3 DEF Admitted, CallKinds
<1>6. PoweroffIsOwn' /\ TrimsAreOwn'
  BY <1>1, <1>5 DEF PoweroffIsOwn, TrimsAreOwn, SessionInv
<1>7. PICK f \in {"ack", "error"} : Answer(c, f) /\ (f = "ack" => poweroff')
  BY DEF ServeShutdown
<1>8. poweroff' \in BOOLEAN /\ (poweroff => poweroff') /\ trim' \in TrimFiles
      /\ trim.trimmed \subseteq trim'.trimmed
  BY <1>1, <1>r DEF ServeShutdown
<1>9. f \in AgentFrames /\ f \notin {"out", "exit", "trimack"} BY <1>7 DEF AgentFrames
<1>10. QED BY <1>1, <1>3, <1>4, <1>6, <1>7, <1>8, <1>9, Serves
\* The trim files change hands under the turn, and only a marker of this very
\* request, which the unit made, is acknowledged.
LEMMA TrimInv ==
    ASSUME SessionInv, NEW c \in Conns, TakeTurn(c) \/ TakeMarker(c) \/ TrimTimesOut(c)
    PROVE  SessionInv'
<1>r. /\ ag[c] \in Handlers /\ ag \in [Conns -> Handlers] /\ up[c] \in Seq(ClientFrames)
      /\ poweroff \in BOOLEAN /\ trim \in TrimFiles /\ TrimsAreOwn /\ PoweroffIsOwn
  BY Reads, SessionTypes DEF SessionInv
<1>1. /\ ag[c].pc \in {"turn", "trimming"} /\ ag[c].pc \in EarlySteps
      /\ UNCHANGED <<fixedVars, cli, proc>> /\ up' = up /\ live' = live /\ poweroff' = poweroff
      /\ own' = own /\ kind' = kind
  BY DEF TakeTurn, TakeMarker, TrimTimesOut, EarlySteps, fixedVars
<1>2. own[c] BY <1>1, Reads DEF Sound, Phases
<1>3. poweroff' \in BOOLEAN /\ (poweroff => poweroff') /\ PoweroffIsOwn'
  BY <1>1, <1>r DEF PoweroffIsOwn
<1>4. /\ trim' \in TrimFiles /\ trim'.trimmed = trim.trimmed /\ TrimsAreOwn'
  <2>1. CASE TakeTurn(c)
    <3>1. \/ trim' = [trim EXCEPT !.turn = c, !.marker = {}, !.request = {c}]
          \/ trim' = [trim EXCEPT !.marker = {}]
      BY <2>1 DEF TakeTurn
    <3>2. /\ trim' \in TrimFiles /\ trim'.trimmed = trim.trimmed /\ trim'.marker = {}
          /\ trim'.active = trim.active /\ trim'.request \subseteq trim.request \cup {c}
      <4>1. CASE trim' = [trim EXCEPT !.turn = c, !.marker = {}, !.request = {c}]
        BY <1>r, <4>1 DEF TrimFiles
      <4>2. CASE trim' = [trim EXCEPT !.marker = {}]
        BY <1>r, <4>2 DEF TrimFiles
      <4>3. QED BY <3>1, <4>1, <4>2
    <3>3. QED BY <1>1, <1>2, <1>r, <3>2 DEF TrimsAreOwn
  <2>2. CASE TakeMarker(c)
    <3>1. PICK w \in {NoConn, trim.turn} : trim' = [trim EXCEPT !.marker = {}, !.turn = w]
      BY <2>2 DEF TakeMarker
    <3>2. trim.turn \in Conns \cup {NoConn} BY <1>r DEF TrimFiles
    <3>3. /\ trim' \in TrimFiles /\ trim'.trimmed = trim.trimmed /\ trim'.marker = {}
          /\ trim'.active = trim.active /\ trim'.request = trim.request
      BY <1>r, <3>1, <3>2 DEF TrimFiles
    <3>4. QED BY <1>1, <1>r, <3>3 DEF TrimsAreOwn
  <2>3. CASE TrimTimesOut(c)
    <3>1. trim' = [trim EXCEPT !.turn = NoConn] BY <2>3 DEF TrimTimesOut
    <3>2. /\ trim' \in TrimFiles /\ trim'.trimmed = trim.trimmed /\ trim'.marker = trim.marker
          /\ trim'.active = trim.active /\ trim'.request = trim.request
      BY <1>r, <3>1 DEF TrimFiles
    <3>3. QED BY <1>1, <1>r, <3>2 DEF TrimsAreOwn
  <2>4. QED BY <2>1, <2>2, <2>3
<1>5. PICK x \in {"trimming", "gone"}, f \in {"error", "trimack"} :
          /\ ag' = [ag EXCEPT ![c] = [ag[c] EXCEPT !.pc = x]]
          /\ down' = down \/ (x = "gone" /\ Answer(c, f))
          /\ f = "trimack" => c \in trim.trimmed
  <2>1. CASE TakeTurn(c) BY <2>1 DEF TakeTurn, EndTrim, Advance
  <2>2. CASE TakeMarker(c)
    <3>1. CASE c \in trim.marker /\ EndTrim(c, "trimack")
      BY <1>r, <3>1 DEF EndTrim, Advance, TrimsAreOwn
    <3>2. CASE UNCHANGED <<down, ag>>
      <4>1. ag[c].pc = "trimming" BY <2>2 DEF TakeMarker
      <4>2. [ag[c] EXCEPT !.pc = "trimming"] = ag[c] BY <1>r, <4>1 DEF Handlers
      <4>3. ag' = [ag EXCEPT ![c] = [ag[c] EXCEPT !.pc = "trimming"]] BY <1>r, <3>2, <4>2
      <4>4. QED BY <3>2, <4>3
    <3>3. QED BY <2>2, <3>1, <3>2 DEF TakeMarker
  <2>3. CASE TrimTimesOut(c) BY <2>3 DEF TrimTimesOut, EndTrim, Advance
  <2>4. QED BY <2>1, <2>2, <2>3
<1>6. PICK a : a = [ag[c] EXCEPT !.pc = x]
  OBVIOUS
<1>7. a \in Handlers /\ a.pc = x /\ a.pc \in EarlySteps \cup {"gone"}
      /\ a.pc \notin {"ready", "spawn"}
  BY <1>5, <1>6, <1>r DEF Handlers, HandlerSteps, EarlySteps
<1>8. f \in AgentFrames /\ f \notin {"out", "exit", "ack"}
      /\ (f = "trimack" => c \in trim'.trimmed) /\ trim.trimmed \subseteq trim'.trimmed
  BY <1>4, <1>5 DEF AgentFrames
<1>9. /\ ag' = [ag EXCEPT ![c] = a]
      /\ down' = down \/ (a.pc = "gone" /\ Answer(c, f))
      /\ ag[c].pc # "ready" /\ ag[c].pc # "spawn"
  BY <1>1, <1>5, <1>6, <1>7
<1>10. QED BY <1>1, <1>3, <1>4, <1>7, <1>8, <1>9, Serves

\* The unit works on what is in the files already.
LEMMA UnitInv ==
    ASSUME SessionInv, UnitTakes \/ UnitDone
    PROVE  SessionInv'
<1>r. trim \in TrimFiles /\ TrimsAreOwn /\ PoweroffIsOwn /\ CountIsRight
  BY SessionTypes DEF SessionInv
<1>1. /\ cli' = cli /\ up' = up /\ down' = down /\ ag' = ag /\ proc' = proc /\ live' = live
      /\ poweroff' = poweroff /\ kind' = kind /\ own' = own
  BY DEF UnitTakes, UnitDone, fixedVars
<1>2. trim' \in TrimFiles /\ trim.trimmed \subseteq trim'.trimmed /\ TrimsAreOwn'
  <2>1. CASE UnitTakes
    <3>1. /\ trim' \in TrimFiles /\ trim'.request = {} /\ trim'.active = trim.request
          /\ trim'.marker = trim.marker /\ trim'.trimmed = trim.trimmed
      BY <1>r, <2>1 DEF UnitTakes, TrimFiles
    <3>2. QED BY <1>1, <1>r, <3>1 DEF TrimsAreOwn
  <2>2. CASE UnitDone
    <3>1. /\ trim' \in TrimFiles /\ trim'.request = trim.request /\ trim'.active = {}
          /\ trim'.marker = trim.active /\ trim'.trimmed = trim.trimmed \cup trim.active
      BY <1>r, <2>2 DEF UnitDone, TrimFiles
    <3>2. QED BY <1>1, <1>r, <3>1 DEF TrimsAreOwn
  <2>3. QED BY <2>1, <2>2
<1>3. SessionTypeOK'
  BY <1>1, <1>2, SessionTypes
     DEF SessionInv, SessionTypeOK, Clients, Handlers, Processes, TrimFiles
<1>4. CountIsRight' /\ PoweroffIsOwn'
  BY <1>1, <1>r DEF CountIsRight, Open, PoweroffIsOwn
<1>5. ASSUME NEW e \in Conns
      PROVE  Sound(kind[e], own[e], cli[e], up[e], down[e], ag[e], proc[e],
                   poweroff, e \in trim.trimmed)'
  <2>1. Sound(kind[e], own[e], cli[e], up[e], down[e], ag[e], proc[e],
              poweroff, e \in trim.trimmed)
    BY Reads
  <2>2. e \in trim.trimmed => e \in trim'.trimmed BY <1>2
  <2>p. poweroff => poweroff' BY <1>1
  <2>3. Sound(kind[e], own[e], cli[e], up[e], down[e], ag[e], proc[e],
              poweroff', e \in trim'.trimmed)
    BY <2>1, <2>2, <2>p DEF Sound, Framed, Concluded
  <2>4. QED BY <1>1, <2>3
<1>6. QED BY <1>2, <1>3, <1>4, <1>5 DEF SessionInv
\* The greeting: only a client of this boot is let in, and what it is told is
\* the only frame under way.
LEMMA GreetInv ==
    ASSUME SessionInv, NEW c \in Conns, Greet(c)
    PROVE  SessionInv'
<1>r. /\ kind[c] \in CallKinds /\ own[c] \in BOOLEAN /\ cli[c] \in Clients
      /\ up[c] \in Seq(ClientFrames) /\ down[c] \in Seq(AgentFrames)
      /\ ag[c] \in Handlers /\ proc[c] \in Processes
      /\ Sound(kind[c], own[c], cli[c], up[c], down[c], ag[c], proc[c],
               poweroff, c \in trim.trimmed)
  BY Reads
<1>1. /\ ag[c].pc = "hello" /\ cli[c].pc \in {"greet", "done"} /\ down[c] = <<>>
      /\ up[c] = (IF own[c] THEN <<"hello">> ELSE <<"alien">>)
      /\ proc[c].leader = "none"
  BY <1>r DEF Greet, Sound, Phases, Started, Early
<1>2. up[c] # <<>> /\ Tail(up[c]) = <<>> /\ (Head(up[c]) = "hello" <=> own[c])
  BY <1>1
<1>3. PICK x : x = IF own[c] THEN "ready" ELSE "gone"
  OBVIOUS
<1>4. PICK a : a = [ag[c] EXCEPT !.pc = x]
  OBVIOUS
<1>5. PICK f : f = IF own[c] THEN "hello" ELSE "error"
  OBVIOUS
<1>6. PICK d : d = IF cli[c].pc = "greet" THEN <<f>> ELSE <<>>
  OBVIOUS
<1>7. /\ up' = [up EXCEPT ![c] = <<>>] /\ Answer(c, f) /\ Advance(c, x)
      /\ UNCHANGED <<fixedVars, cli, guestVars>>
  BY <1>2, <1>3, <1>5 DEF Greet, AtEof
<1>8. Append(down[c], f) = <<f>> BY <1>1
<1>9. down' = [down EXCEPT ![c] = d]
  <2>1. Connected(c) <=> cli[c].pc = "greet" BY <1>1 DEF Connected
  <2>2. CASE cli[c].pc = "greet"
    <3>1. down' = [down EXCEPT ![c] = Append(down[c], f)] BY <1>7, <2>1, <2>2 DEF Answer
    <3>2. QED BY <1>6, <1>8, <2>2, <3>1
  <2>3. CASE cli[c].pc # "greet"
    <3>1. down' = down /\ d = down[c] BY <1>1, <1>6, <1>7, <2>1, <2>3 DEF Answer
    <3>2. QED BY <3>1, SessionTypes DEF SessionInv
  <2>4. QED BY <2>2, <2>3
<1>10. /\ ag' = [ag EXCEPT ![c] = a] /\ cli' = [cli EXCEPT ![c] = cli[c]]
       /\ proc' = [proc EXCEPT ![c] = proc[c]] /\ UNCHANGED <<fixedVars, poweroff, trim, live>>
  BY <1>4, <1>7, SessionTypes DEF SessionInv, Advance, guestVars
<1>11. a \in Handlers /\ a.pc = x BY <1>3, <1>4, <1>r DEF Handlers, HandlerSteps
<1>12. f \in {"hello", "error"} /\ d \in Seq(AgentFrames)
       /\ \A i \in 1 .. Len(d) : d[i] \in {"hello", "error"}
  <2>1. f \in {"hello", "error"} /\ f \in AgentFrames BY <1>5 DEF AgentFrames
  <2>2. CASE cli[c].pc = "greet"
    <3>1. d = <<f>> BY <1>6, <2>2
    <3>2. d \in Seq(AgentFrames) /\ Len(d) = 1 /\ d[1] = f BY <2>1, <3>1
    <3>3. QED BY <2>1, <3>2
  <2>3. CASE cli[c].pc # "greet"
    <3>1. d = <<>> BY <1>6, <2>3
    <3>2. QED BY <2>1, <3>1
  <2>4. QED BY <2>2, <2>3
<1>13. Sound(kind[c], own[c], cli[c], <<>>, d, a, proc[c], poweroff, c \in trim.trimmed)
  <2>1. Phases(kind[c], own[c], cli[c], <<>>, d, a)
    BY <1>1, <1>3, <1>5, <1>6, <1>11, <1>r DEF Sound, Phases, Streaming
  <2>2. Started(kind[c], own[c], cli[c], a, proc[c])
    BY <1>1, <1>3, <1>11, <1>r DEF Sound, Started
  <2>3. Carried(cli[c], d, a, proc[c]) BY <1>1 DEF Carried, Streaming
  <2>4. Framed(kind[c], <<>>, d, poweroff, c \in trim.trimmed) BY <1>12 DEF Framed
  <2>5. Concluded(kind[c], cli[c], a, proc[c], poweroff, c \in trim.trimmed)
    BY <1>1, <1>3, <1>11, <1>r DEF Sound, Concluded
  <2>6. QED BY <2>1, <2>2, <2>3, <2>4, <2>5 DEF Sound
<1>14. a.pc \in Counting <=> ag[c].pc \in Counting BY <1>1, <1>3, <1>11 DEF Counting, Pumping
<1>15. <<>> \in Seq(ClientFrames) OBVIOUS
<1>16. QED BY <1>7, <1>9, <1>10, <1>11, <1>12, <1>13, <1>14, <1>15, <1>r, ConnSteps

\* The process is started with nothing written, or is not and that is said.
LEMMA SpawnInv ==
    ASSUME SessionInv, NEW c \in Conns, Spawn(c)
    PROVE  SessionInv'
<1>r. /\ kind[c] \in CallKinds /\ own[c] \in BOOLEAN /\ cli[c] \in Clients
      /\ up[c] \in Seq(ClientFrames) /\ down[c] \in Seq(AgentFrames)
      /\ ag[c] \in Handlers /\ proc[c] \in Processes
      /\ Sound(kind[c], own[c], cli[c], up[c], down[c], ag[c], proc[c],
               poweroff, c \in trim.trimmed)
  BY Reads
<1>1. /\ ag[c].pc = "spawn" /\ proc[c].leader = "none" /\ proc[c].wrote = 0 /\ proc[c].pipe = 0
      /\ cli[c].got = 0 /\ own[c] /\ kind[c] = "session" /\ cli[c].pc \notin {"idle", "greet"}
      /\ cli[c].pc \in Streaming => down[c] = <<>>
      /\ UNCHANGED <<fixedVars, cli, up, poweroff, trim>>
  <2>1. cli[c].got \in Nat BY <1>r, SessionAssumption DEF Clients
  <2>2. QED BY <1>r, <2>1 DEF Spawn, Sound, Phases, Started, Early
<1>2. CASE Answer(c, "error") /\ Advance(c, "gone") /\ live' = live - 1 /\ UNCHANGED proc
  <2>1. PICK a : a = [ag[c] EXCEPT !.pc = "gone"]
    OBVIOUS
  <2>2. a \in Handlers /\ a.pc = "gone" BY <1>r, <2>1 DEF Handlers, HandlerSteps
  <2>3. ag' = [ag EXCEPT ![c] = a] BY <1>2, <2>1 DEF Advance
  <2>4. "error" \in AgentFrames /\ ag[c].pc \in EarlySteps BY <1>1 DEF AgentFrames, EarlySteps
  <2>5. UNCHANGED <<fixedVars, cli, proc, poweroff, trim>> /\ up' = up BY <1>1, <1>2
  <2>6. QED BY <1>1, <1>2, <2>2, <2>3, <2>4, <2>5, ServesQuietly
<1>3. ASSUME NEW tty \in BOOLEAN, Advance(c, "session"), UNCHANGED <<down, live>>,
             proc' = [proc EXCEPT ![c].leader = "running", ![c].open = TRUE, ![c].tty = tty]
      PROVE  SessionInv'
  <2>1. PICK a, p : /\ a = [ag[c] EXCEPT !.pc = "session"]
                    /\ p = [proc[c] EXCEPT !.leader = "running", !.open = TRUE, !.tty = tty]
    OBVIOUS
  <2>2. /\ a \in Handlers /\ a.pc = "session" /\ p \in Processes
        /\ p.leader = "running" /\ p.wrote = 0 /\ p.pipe = 0
    BY <1>1, <1>3, <1>r, <2>1 DEF Handlers, HandlerSteps, Processes
  <2>3. /\ ag' = [ag EXCEPT ![c] = a] /\ proc' = [proc EXCEPT ![c] = p]
        /\ cli' = [cli EXCEPT ![c] = cli[c]] /\ up' = [up EXCEPT ![c] = up[c]]
        /\ down' = [down EXCEPT ![c] = down[c]]
    BY <1>1, <1>3, <2>1, SessionTypes DEF SessionInv, Advance
  <2>4. Sound(kind[c], own[c], cli[c], up[c], down[c], a, p, poweroff, c \in trim.trimmed)
    <3>1. Phases(kind[c], own[c], cli[c], up[c], down[c], a)
      BY <1>1, <1>r, <2>2 DEF Sound, Phases
    <3>2. Started(kind[c], own[c], cli[c], a, p)
      BY <1>1, <1>r, <2>2 DEF Sound, Started, Early
    <3>3. Carried(cli[c], down[c], a, p)
      BY <1>1, <2>2 DEF Carried, InHand, Pumping
    <3>4. Framed(kind[c], up[c], down[c], poweroff, c \in trim.trimmed)
      BY <1>r DEF Sound
    <3>5. Concluded(kind[c], cli[c], a, p, poweroff, c \in trim.trimmed)
      BY <1>1, <1>r DEF Sound, Concluded
    <3>6. QED BY <3>1, <3>2, <3>3, <3>4, <3>5 DEF Sound
  <2>5. a.pc \in Counting <=> ag[c].pc \in Counting BY <1>1, <2>2 DEF Counting, Pumping
  <2>6. UNCHANGED <<fixedVars, poweroff, trim>> /\ live' = live BY <1>1, <1>3
  <2>7. QED BY <1>r, <2>2, <2>3, <2>4, <2>5, <2>6, ConnSteps
<1>4. QED BY <1>2, <1>3 DEF Spawn

-----------------------------------------------------------------------------
(* The session.                                                            *)

\* A step that leaves handler a, process p and frames d loses no chunk, and
\* writes an exit status behind the last one.
Conserves(c, a, p, d) ==
    /\ p.wrote = proc[c].wrote /\ p.pipe <= proc[c].pipe
    /\ p.leader = proc[c].leader \/ (proc[c].leader = "running" /\ p.leader = "killed")
    /\ a.pc \in {"drain", "drainemit"} => p.leader # "running"
    /\ \/ d = down[c]
       \/ /\ d = Append(down[c], "out")
          /\ cli[c].pc \in Streaming => cli[c].got + Len(down[c]) + 1 <= p.wrote
       \/ /\ d = Append(down[c], "exit")
          /\ cli[c].pc \in Streaming => /\ cli[c].got + Len(down[c]) = p.wrote
                                        /\ p.leader # "running" /\ a.pc = "gone"
    /\ cli[c].pc \in Streaming /\ a.pc \in Pumping =>
          cli[c].got + Len(d) + p.pipe + InHand(a) = p.wrote

\* A handler that pumps a session stays sound if no chunk is lost on the way
\* and an exit status is written behind the last one.
LEMMA PumpSound ==
    ASSUME SessionInv, NEW c \in Conns, ag[c].pc \in Pumping \cup {"ending"},
           NEW a \in Handlers, a.pc \in Pumping \cup {"ending", "gone"},
           NEW u, u = up[c] \/ (up[c] # <<>> /\ u = Tail(up[c])),
           NEW p \in Processes, NEW d, Conserves(c, a, p, d)
    PROVE  /\ u \in Seq(ClientFrames) /\ d \in Seq(AgentFrames)
           /\ Sound(kind[c], own[c], cli[c], u, d, a, p, poweroff, c \in trim.trimmed)
<1>r. /\ kind[c] \in CallKinds /\ own[c] \in BOOLEAN /\ cli[c] \in Clients
      /\ up[c] \in Seq(ClientFrames) /\ down[c] \in Seq(AgentFrames)
      /\ ag[c] \in Handlers /\ proc[c] \in Processes
      /\ Sound(kind[c], own[c], cli[c], up[c], down[c], ag[c], proc[c],
               poweroff, c \in trim.trimmed)
  BY Reads
<1>0. PICK f \in {"out", "exit"} :
          /\ p.wrote = proc[c].wrote /\ p.pipe <= proc[c].pipe
          /\ p.leader = proc[c].leader \/ (proc[c].leader = "running" /\ p.leader = "killed")
          /\ a.pc \in {"drain", "drainemit"} => p.leader # "running"
          /\ d = down[c] \/ d = Append(down[c], f)
          /\ d # down[c] /\ f = "out" /\ cli[c].pc \in Streaming
                => cli[c].got + Len(down[c]) + 1 <= p.wrote
          /\ d # down[c] /\ f = "exit" /\ cli[c].pc \in Streaming
                => cli[c].got + Len(down[c]) = p.wrote /\ p.leader # "running" /\ a.pc = "gone"
          /\ cli[c].pc \in Streaming /\ a.pc \in Pumping =>
                cli[c].got + Len(d) + p.pipe + InHand(a) = p.wrote
  <2>1. "out" \in {"out", "exit"} /\ "exit" \in {"out", "exit"} /\ "out" # "exit"
    OBVIOUS
  <2>2. CASE d = down[c] BY <2>1, <2>2 DEF Conserves
  <2>3. CASE d = Append(down[c], "out") /\ d # down[c]
             /\ (cli[c].pc \in Streaming => cli[c].got + Len(down[c]) + 1 <= p.wrote)
    BY <2>1, <2>3 DEF Conserves
  <2>4. CASE d = Append(down[c], "exit") /\ d # down[c]
             /\ (cli[c].pc \in Streaming => cli[c].got + Len(down[c]) = p.wrote
                                            /\ p.leader # "running" /\ a.pc = "gone")
    BY <2>1, <2>4 DEF Conserves
  <2>5. QED BY <2>2, <2>3, <2>4 DEF Conserves
<1>g. cli[c].pc \notin {"greet", "idle"} /\ own[c] /\ cli[c].res \notin
          {"exited", "refused", "identity", "notlistening"}
  BY <1>r DEF Sound, Phases, Concluded, Pumping
<1>1. u \in Seq(ClientFrames) /\ \A i \in 1 .. Len(u) : Admitted(u[i], kind[c])
  <2>1. \A i \in 1 .. Len(up[c]) : Admitted(up[c][i], kind[c]) BY <1>r DEF Sound, Framed
  <2>2. CASE up[c] # <<>> /\ u = Tail(up[c])
    <3>1. /\ u \in Seq(ClientFrames)
          /\ \A i \in 1 .. Len(u) : i + 1 \in 1 .. Len(up[c]) /\ u[i] = up[c][i + 1]
      BY <1>r, <2>2, TailOf
    <3>2. QED BY <2>1, <3>1
  <2>3. QED BY <1>r, <2>1, <2>2
<1>2. /\ d \in Seq(AgentFrames)
      /\ \A i \in 1 .. Len(d) : (i \in 1 .. Len(down[c]) /\ d[i] = down[c][i])
                                \/ (d[i] = f /\ i = Len(down[c]) + 1 /\ d # down[c])
  <2>1. CASE d = down[c] BY <1>r, <2>1
  <2>2. CASE d = Append(down[c], f)
    <3>1. f \in AgentFrames BY DEF AgentFrames
    <3>2. /\ d \in Seq(AgentFrames) /\ d[Len(down[c]) + 1] = f
          /\ Len(d) = Len(down[c]) + 1 /\ Len(down[c]) \in Nat
          /\ \A i \in 1 .. Len(d) :
                (i \in 1 .. Len(down[c]) /\ d[i] = down[c][i]) \/ (i = Len(down[c]) + 1)
      BY <1>r, <2>2, <3>1, Appended
    <3>3. Len(d) # Len(down[c]) BY <3>2
    <3>4. d # down[c] BY <3>3
    <3>5. QED BY <3>2, <3>4
  <2>3. QED BY <1>0, <2>1, <2>2
<1>3. Phases(kind[c], own[c], cli[c], u, d, a)
  BY <1>r, <1>g DEF Sound, Phases, Pumping
<1>4. Started(kind[c], own[c], cli[c], a, p)
  <2>1. proc[c].pipe \in Nat /\ p.pipe \in Nat BY <1>r, SessionAssumption DEF Processes
  <2>2. Started(kind[c], own[c], cli[c], ag[c], proc[c]) /\ a.pc \notin Early
    BY <1>r DEF Sound, Early, Pumping
  <2>3. p.leader = "none" <=> proc[c].leader = "none" BY <1>0
  <2>4. p.leader = "none" => p.wrote = 0 /\ p.pipe = 0 BY <1>0, <2>1, <2>2, <2>3 DEF Started
  <2>5. QED BY <1>0, <1>g, <2>2, <2>3, <2>4 DEF Started
<1>5. Carried(cli[c], d, a, p)
  <2>1. SUFFICES ASSUME cli[c].pc \in Streaming PROVE Carried(cli[c], d, a, p)
    BY DEF Carried
  <2>2. \A i \in 1 .. Len(down[c]) :
            down[c][i] \notin {"exit", "error"}
            /\ (down[c][i] = "out" => cli[c].got + i <= proc[c].wrote)
    BY <1>r, <2>1 DEF Sound, Carried, Pumping
  <2>3. ASSUME NEW i \in 1 .. Len(d)
        PROVE  /\ d[i] = "out" => cli[c].got + i <= p.wrote
               /\ d[i] = "exit" => /\ cli[c].got + i = p.wrote + 1
                                   /\ p.leader # "running" /\ a.pc = "gone"
               /\ d[i] # "error"
    <3>1. CASE i \in 1 .. Len(down[c]) /\ d[i] = down[c][i] BY <1>0, <2>2, <3>1
    <3>2. CASE d[i] = f /\ i = Len(down[c]) + 1 /\ d # down[c]
      <4>1. cli[c].got \in Nat /\ Len(down[c]) \in Nat
        BY <1>r, SessionAssumption, LenProperties DEF Clients
      <4>2. CASE f = "out"
        <5>1. cli[c].got + Len(down[c]) + 1 <= p.wrote BY <1>0, <2>1, <3>2, <4>2
        <5>2. cli[c].got + i = cli[c].got + Len(down[c]) + 1 BY <3>2, <4>1
        <5>3. QED BY <3>2, <4>2, <5>1, <5>2
      <4>3. CASE f = "exit" BY <1>0, <2>1, <3>2, <4>1, <4>3
      <4>4. QED BY <4>2, <4>3
    <3>3. QED BY <1>2, <2>3, <3>1, <3>2
  <2>4. QED BY <1>0, <2>1, <2>3 DEF Carried
<1>6. Framed(kind[c], u, d, poweroff, c \in trim.trimmed) BY <1>0, <1>1, <1>2, <1>r DEF Sound, Framed
<1>7. Concluded(kind[c], cli[c], a, p, poweroff, c \in trim.trimmed)
  BY <1>r, <1>g DEF Sound, Concluded
<1>8. QED BY <1>1, <1>2, <1>3, <1>4, <1>5, <1>6, <1>7 DEF Sound
\* The same, as a step: a handler that returns is no longer counted.
LEMMA Pumps ==
    ASSUME SessionInv, NEW c \in Conns, ag[c].pc \in Pumping \cup {"ending"},
           UNCHANGED <<fixedVars, cli, poweroff, trim>>,
           NEW a \in Handlers, a.pc \in Pumping \cup {"ending", "gone"},
           ag' = [ag EXCEPT ![c] = a],
           live' = IF a.pc = "gone" THEN live - 1 ELSE live,
           up' = up \/ (up[c] # <<>> /\ up' = [up EXCEPT ![c] = Tail(up[c])]),
           NEW p \in Processes, proc' = [proc EXCEPT ![c] = p],
           NEW d, down' = [down EXCEPT ![c] = d], Conserves(c, a, p, d)
    PROVE  SessionInv'
<1>1. cli[c] \in Clients BY Reads
<1>2. cli' = [cli EXCEPT ![c] = cli[c]]
  BY SessionTypes DEF SessionInv
<1>3. PICK u : /\ u = up[c] \/ (up[c] # <<>> /\ u = Tail(up[c]))
               /\ up' = [up EXCEPT ![c] = u]
  BY SessionTypes DEF SessionInv
<1>4. /\ u \in Seq(ClientFrames) /\ d \in Seq(AgentFrames)
      /\ Sound(kind[c], own[c], cli[c], u, d, a, p, poweroff, c \in trim.trimmed)
  BY <1>3, PumpSound
<1>5. \/ live' = live /\ (a.pc \in Counting <=> ag[c].pc \in Counting)
      \/ live' = live + 1 /\ a.pc \in Counting /\ ag[c].pc \notin Counting
      \/ live' = live - 1 /\ a.pc \notin Counting /\ ag[c].pc \in Counting
  BY DEF Counting, Pumping
<1>6. UNCHANGED <<fixedVars, poweroff, trim>> OBVIOUS
<1>7. QED BY <1>1, <1>2, <1>3, <1>4, <1>5, <1>6, ConnSteps, ZenonT(60)

\* What a session's handler reads of its connection.
LEMMA SessionReads ==
    ASSUME SessionInv, NEW c \in Conns, ag[c].pc \in Pumping \cup {"ending"}
    PROVE  /\ ag[c] \in Handlers /\ proc[c] \in Processes /\ cli[c] \in Clients
           /\ up[c] \in Seq(ClientFrames) /\ down[c] \in Seq(AgentFrames)
           /\ ag \in [Conns -> Handlers] /\ proc \in [Conns -> Processes]
           /\ down \in [Conns -> Seq(AgentFrames)]
           /\ cli[c].got \in Nat /\ proc[c].pipe \in Nat /\ proc[c].wrote \in Nat
           /\ Len(down[c]) \in Nat /\ PipeCap \in Nat
           /\ cli[c].pc \in Streaming /\ ag[c].pc \in Pumping =>
                 cli[c].got + Len(down[c]) + proc[c].pipe + InHand(ag[c]) = proc[c].wrote
           /\ ag[c].pc \in {"drain", "drainemit"} => proc[c].leader # "running"
           /\ Connected(c) <=> cli[c].pc \in Streaming \cup {"ask"}
<1>1. /\ ag[c] \in Handlers /\ proc[c] \in Processes /\ cli[c] \in Clients
      /\ up[c] \in Seq(ClientFrames) /\ down[c] \in Seq(AgentFrames)
      /\ Sound(kind[c], own[c], cli[c], up[c], down[c], ag[c], proc[c],
               poweroff, c \in trim.trimmed)
  BY Reads
<1>2. cli[c].got \in Nat /\ proc[c].pipe \in Nat /\ proc[c].wrote \in Nat
      /\ Len(down[c]) \in Nat /\ PipeCap \in Nat
  BY <1>1, SessionAssumption, LenProperties DEF Clients, Processes
<1>3. /\ cli[c].pc \in Streaming /\ ag[c].pc \in Pumping =>
            cli[c].got + Len(down[c]) + proc[c].pipe + InHand(ag[c]) = proc[c].wrote
  BY <1>1 DEF Sound, Carried
<1>4. ag[c].pc \in {"drain", "drainemit"} => proc[c].leader # "running"
  BY <1>1 DEF Sound, Started
<1>5. Connected(c) <=> cli[c].pc \in Streaming \cup {"ask"}
  BY <1>1 DEF Sound, Phases, Connected, Streaming, Pumping
<1>6. QED BY <1>1, <1>2, <1>3, <1>4, <1>5, SessionTypes DEF SessionInv

\* A handler that returns before the leader was waited for.
LEMMA LeaveInv ==
    ASSUME SessionInv, NEW c \in Conns, ag[c].pc \in Pumping \cup {"ending"},
           Leave(c), UNCHANGED <<fixedVars, cli, down, poweroff, trim>>,
           up' = up \/ (up[c] # <<>> /\ up' = [up EXCEPT ![c] = Tail(up[c])]),
           NEW p \in Processes, proc' = [proc EXCEPT ![c] = p],
           p.wrote = proc[c].wrote, p.pipe = proc[c].pipe,
           p.leader = proc[c].leader \/ (proc[c].leader = "running" /\ p.leader = "killed")
    PROVE  SessionInv'
<1>s. ag[c] \in Handlers /\ down \in [Conns -> Seq(AgentFrames)] /\ proc[c].pipe \in Nat
  BY SessionReads
<1>1. PICK a : a = [ag[c] EXCEPT !.pc = "gone"]
  OBVIOUS
<1>2. a \in Handlers /\ a.pc = "gone" /\ a.pc \notin Pumping
  BY <1>1, <1>s DEF Handlers, HandlerSteps, Pumping
<1>3. /\ ag' = [ag EXCEPT ![c] = a] /\ live' = (IF a.pc = "gone" THEN live - 1 ELSE live)
      /\ down' = [down EXCEPT ![c] = down[c]] /\ p.pipe <= proc[c].pipe
      /\ UNCHANGED <<fixedVars, cli, poweroff, trim>>
  BY <1>1, <1>2, <1>s DEF Leave, Advance
<1>4. a.pc \in Pumping \cup {"ending", "gone"} /\ Conserves(c, a, p, down[c])
  BY <1>2, <1>3 DEF Conserves
<1>5. QED BY <1>2, <1>3, <1>4, Pumps

\* The leader is killed with its handler.
LEMMA DropInv ==
    ASSUME SessionInv, NEW c \in Conns, ag[c].pc \in Pumping \cup {"ending"},
           Leave(c), KillOnDrop(c), UNCHANGED <<fixedVars, cli, down, poweroff, trim>>,
           up' = up \/ (up[c] # <<>> /\ up' = [up EXCEPT ![c] = Tail(up[c])])
    PROVE  SessionInv'
<1>1. proc[c] \in Processes BY SessionReads
<1>2. PICK l : l = IF proc[c].leader = "running" THEN "killed" ELSE proc[c].leader
  OBVIOUS
<1>3. PICK s \in BOOLEAN : s = (proc[c].signalled \/ proc[c].tty)
  OBVIOUS
<1>4. PICK p : p = [proc[c] EXCEPT !.leader = l, !.open = FALSE, !.signalled = s]
  OBVIOUS
<1>5. /\ p \in Processes /\ p.wrote = proc[c].wrote /\ p.pipe = proc[c].pipe
      /\ p.leader = proc[c].leader \/ (proc[c].leader = "running" /\ p.leader = "killed")
  BY <1>1, <1>2, <1>3, <1>4 DEF Processes
<1>6. proc' = [proc EXCEPT ![c] = p]
  BY <1>2, <1>3, <1>4 DEF KillOnDrop
<1>7. QED BY <1>5, <1>6, LeaveInv

\* Handler steps in the session's loop, and those they lead to
Attending == {"session", "writing"}
Onward    == {"session", "writing", "ending", "drain"}

\* The steps that neither read nor write output.
LEMMA PumpsOn ==
    ASSUME SessionInv, NEW c \in Conns, ag[c].pc \in Attending,
           UNCHANGED <<fixedVars, cli, down, live, poweroff, trim>>,
           NEW a \in Handlers, a.pc \in Onward,
           ag' = [ag EXCEPT ![c] = a],
           up' = up \/ (up[c] # <<>> /\ up' = [up EXCEPT ![c] = Tail(up[c])]),
           NEW p \in Processes, proc' = [proc EXCEPT ![c] = p],
           p.wrote = proc[c].wrote, p.pipe = proc[c].pipe, p.leader = proc[c].leader,
           a.pc = "drain" => p.leader # "running"
    PROVE  SessionInv'
<1>1. ag[c].pc \in Pumping /\ a.pc \in Pumping \cup {"ending", "gone"} /\ a.pc # "gone"
      /\ (a.pc \in {"drain", "drainemit"} => p.leader # "running")
  BY DEF Pumping, Attending, Onward
<1>2. InHand(a) = InHand(ag[c]) BY DEF InHand, Attending, Onward
<1>3. /\ down' = [down EXCEPT ![c] = down[c]] /\ p.pipe <= proc[c].pipe
      /\ live' = (IF a.pc = "gone" THEN live - 1 ELSE live)
      /\ UNCHANGED <<fixedVars, cli, poweroff, trim>>
  BY <1>1, SessionReads
<1>4. cli[c].pc \in Streaming /\ a.pc \in Pumping =>
          cli[c].got + Len(down[c]) + p.pipe + InHand(a) = p.wrote
  BY <1>1, <1>2, SessionReads
<1>5. Conserves(c, a, p, down[c]) BY <1>1, <1>3, <1>4 DEF Conserves
<1>6. ag[c].pc \in Pumping \cup {"ending"} /\ a.pc \in Pumping \cup {"ending", "gone"} BY <1>1
<1>7. QED BY <1>3, <1>5, <1>6, Pumps

\* Input and the end of it, a torn read, a lost prefix, a disconnect.
LEMMA StdinInv ==
    ASSUME SessionInv, NEW c \in Conns,
           ReadHalf(c) \/ ReadGarbage(c) \/ TakeStdin(c) \/ WriteStdin(c) \/ TakeEnd(c)
    PROVE  SessionInv'
<1>1. ag[c].pc \in Attending /\ ag[c].pc \in Pumping
  BY DEF ReadHalf, ReadGarbage, TakeStdin, WriteStdin, TakeEnd, Pumping, Attending
<1>s. /\ ag[c] \in Handlers /\ proc[c] \in Processes
      /\ ag \in [Conns -> Handlers] /\ proc \in [Conns -> Processes] /\ PipeCap \in Nat
  BY <1>1, SessionReads
<1>2. CASE ReadHalf(c)
  <2>1. PICK a : a = [ag[c] EXCEPT !.half = TRUE]
    OBVIOUS
  <2>2. a \in Handlers /\ a.pc = ag[c].pc /\ a.pc # "drain"
        /\ a.pc \in Onward
    BY <1>1, <1>s, <2>1 DEF Handlers, Attending, Onward
  <2>3. /\ ag' = [ag EXCEPT ![c] = a] /\ proc' = [proc EXCEPT ![c] = proc[c]] /\ up' = up
        /\ UNCHANGED <<fixedVars, cli, down, live, poweroff, trim>>
    BY <1>2, <1>s, <2>1 DEF ReadHalf, guestVars
  <2>4. QED BY <1>1, <1>s, <2>2, <2>3, PumpsOn, ZenonT(60)
<1>3. CASE ReadGarbage(c)
  BY <1>1, <1>3, DropInv DEF ReadGarbage
<1>4. CASE TakeStdin(c)
  <2>1. up[c] # <<>> /\ up' = [up EXCEPT ![c] = Tail(up[c])]
        /\ UNCHANGED <<fixedVars, cli, down, poweroff, trim>>
    BY <1>4 DEF TakeStdin
  <2>2. CASE Leave(c) /\ KillOnDrop(c) BY <1>1, <2>1, <2>2, DropInv
  <2>3. CASE ag' = [ag EXCEPT ![c].half = FALSE, ![c].pc = "writing"] /\ UNCHANGED <<proc, live>>
    <3>1. PICK a : a = [ag[c] EXCEPT !.half = FALSE, !.pc = "writing"]
      OBVIOUS
    <3>2. a \in Handlers /\ a.pc = "writing" /\ a.pc # "drain"
          /\ a.pc \in Onward
      BY <1>s, <3>1 DEF Handlers, HandlerSteps, Onward
    <3>3. /\ ag' = [ag EXCEPT ![c] = a] /\ proc' = [proc EXCEPT ![c] = proc[c]]
          /\ UNCHANGED <<fixedVars, cli, down, live, poweroff, trim>>
      BY <1>s, <2>1, <2>3, <3>1
    <3>4. QED BY <1>1, <1>s, <2>1, <3>2, <3>3, PumpsOn, ZenonT(60)
  <2>4. QED BY <1>4, <2>2, <2>3 DEF TakeStdin
<1>5. CASE WriteStdin(c)
  <2>1. up' = up /\ UNCHANGED <<fixedVars, cli, down, poweroff, trim>>
    BY <1>5 DEF WriteStdin
  <2>2. CASE Leave(c) /\ KillOnDrop(c) BY <1>1, <2>1, <2>2, DropInv
  <2>3. CASE /\ proc[c].input < PipeCap /\ proc' = [proc EXCEPT ![c].input = @ + 1]
             /\ Advance(c, "session") /\ UNCHANGED live
    <3>1. PICK a, p : /\ a = [ag[c] EXCEPT !.pc = "session"]
                      /\ p = [proc[c] EXCEPT !.input = proc[c].input + 1]
      OBVIOUS
    <3>2. a \in Handlers /\ a.pc = "session" /\ a.pc # "drain"
          /\ a.pc \in Onward
      BY <1>s, <3>1 DEF Handlers, HandlerSteps, Onward
    <3>3. proc[c].input + 1 \in 0..PipeCap BY <1>s, <2>3 DEF Processes
    <3>4. p \in Processes /\ p.wrote = proc[c].wrote /\ p.pipe = proc[c].pipe
          /\ p.leader = proc[c].leader
      BY <1>s, <3>1, <3>3 DEF Processes
    <3>5. /\ ag' = [ag EXCEPT ![c] = a] /\ proc' = [proc EXCEPT ![c] = p]
          /\ UNCHANGED <<fixedVars, cli, down, live, poweroff, trim>>
      BY <2>1, <2>3, <3>1 DEF Advance
    <3>6. QED BY <1>1, <2>1, <3>2, <3>4, <3>5, PumpsOn, ZenonT(60)
  <2>4. QED BY <1>5, <2>2, <2>3 DEF WriteStdin
<1>6. CASE TakeEnd(c)
  <2>1. PICK a, p : a = [ag[c] EXCEPT !.half = FALSE] /\ p = [proc[c] EXCEPT !.open = FALSE]
    OBVIOUS
  <2>2. a \in Handlers /\ a.pc = ag[c].pc /\ a.pc # "drain"
        /\ a.pc \in Onward
    BY <1>1, <1>s, <2>1 DEF Handlers, Attending, Onward
  <2>3. p \in Processes /\ p.wrote = proc[c].wrote /\ p.pipe = proc[c].pipe
        /\ p.leader = proc[c].leader
    BY <1>s, <2>1 DEF Processes
  <2>4. /\ ag' = [ag EXCEPT ![c] = a] /\ proc' = [proc EXCEPT ![c] = p]
        /\ up[c] # <<>> /\ up' = [up EXCEPT ![c] = Tail(up[c])]
        /\ UNCHANGED <<fixedVars, cli, down, live, poweroff, trim>>
    BY <1>6, <2>1 DEF TakeEnd
  <2>5. QED BY <1>1, <2>2, <2>3, <2>4, PumpsOn, ZenonT(60)
<1>7. QED BY <1>2, <1>3, <1>4, <1>5, <1>6

\* The end of a session whose client is gone, and the exit of its leader.
LEMMA EndingInv ==
    ASSUME SessionInv, NEW c \in Conns, SeeDisconnect(c) \/ EndSession(c) \/ SeeExit(c)
    PROVE  SessionInv'
<1>1. ag[c].pc \in {"session", "ending"} /\ ag[c].pc \in Pumping \cup {"ending"}
  BY DEF SeeDisconnect, EndSession, SeeExit, Pumping
<1>s. /\ ag[c] \in Handlers /\ proc[c] \in Processes
      /\ ag \in [Conns -> Handlers] /\ proc \in [Conns -> Processes]
  BY <1>1, SessionReads
<1>2. CASE SeeDisconnect(c)
  <2>1. PICK a, p : /\ a = [ag[c] EXCEPT !.pc = "ending"]
                    /\ p = [proc[c] EXCEPT !.open = FALSE, !.signalled = TRUE]
    OBVIOUS
  <2>2. a \in Handlers /\ a.pc = "ending" /\ a.pc # "drain"
        /\ a.pc \in Onward
    BY <1>s, <2>1 DEF Handlers, HandlerSteps, Attending, Onward
  <2>3. p \in Processes /\ p.wrote = proc[c].wrote /\ p.pipe = proc[c].pipe
        /\ p.leader = proc[c].leader
    BY <1>s, <2>1 DEF Processes
  <2>4. /\ ag' = [ag EXCEPT ![c] = a] /\ proc' = [proc EXCEPT ![c] = p] /\ up' = up
        /\ UNCHANGED <<fixedVars, cli, down, live, poweroff, trim>>
        /\ ag[c].pc \in Attending
    BY <1>2, <2>1 DEF SeeDisconnect, Advance, Attending
  <2>5. QED BY <2>2, <2>3, <2>4, PumpsOn, ZenonT(60)
<1>3. CASE EndSession(c)
  <2>1. PICK p : p = IF proc[c].leader = "running"
                     THEN [proc[c] EXCEPT !.leader = "killed", !.kids = FALSE] ELSE proc[c]
    OBVIOUS
  <2>2. /\ p \in Processes /\ p.wrote = proc[c].wrote /\ p.pipe = proc[c].pipe
        /\ p.leader = proc[c].leader \/ (proc[c].leader = "running" /\ p.leader = "killed")
    BY <1>s, <2>1 DEF Processes
  <2>3. /\ proc' = [proc EXCEPT ![c] = p] /\ Leave(c) /\ up' = up
        /\ UNCHANGED <<fixedVars, cli, down, poweroff, trim>>
    BY <1>3, <1>s, <2>1 DEF EndSession
  <2>4. QED BY <1>1, <2>2, <2>3, LeaveInv, ZenonT(60)
<1>4. CASE SeeExit(c)
  <2>1. PICK a : a = [ag[c] EXCEPT !.pc = "drain"]
    OBVIOUS
  <2>2. a \in Handlers /\ a.pc = "drain" /\ a.pc \in Onward
    BY <1>s, <2>1 DEF Handlers, HandlerSteps, Attending, Onward
  <2>3. /\ ag' = [ag EXCEPT ![c] = a] /\ proc' = [proc EXCEPT ![c] = proc[c]] /\ up' = up
        /\ UNCHANGED <<fixedVars, cli, down, live, poweroff, trim>>
        /\ ag[c].pc \in Attending /\ proc[c].leader # "running"
    BY <1>4, <1>s, <2>1 DEF SeeExit, Advance, guestVars, Attending
  <2>4. QED BY <1>s, <2>2, <2>3, PumpsOn, ZenonT(60)
<1>5. QED BY <1>2, <1>3, <1>4
\* A chunk is read from the pipe, written to the client, and the exit status
\* after the last one.
LEMMA OutputInv ==
    ASSUME SessionInv, NEW c \in Conns, ReadOutput(c) \/ EmitOutput(c) \/ ReportExit(c)
    PROVE  SessionInv'
<1>1. ag[c].pc \in Pumping /\ ag[c].pc \in Pumping \cup {"ending"}
      /\ UNCHANGED <<fixedVars, cli, poweroff, trim>> /\ up' = up
  BY DEF ReadOutput, EmitOutput, ReportExit, Pumping
<1>s. /\ ag[c] \in Handlers /\ proc[c] \in Processes /\ cli[c] \in Clients
      /\ down[c] \in Seq(AgentFrames)
      /\ ag \in [Conns -> Handlers] /\ proc \in [Conns -> Processes]
      /\ down \in [Conns -> Seq(AgentFrames)]
      /\ cli[c].got \in Nat /\ proc[c].pipe \in Nat /\ proc[c].wrote \in Nat
      /\ Len(down[c]) \in Nat /\ PipeCap \in Nat
      /\ cli[c].pc \in Streaming =>
            cli[c].got + Len(down[c]) + proc[c].pipe + InHand(ag[c]) = proc[c].wrote
      /\ ag[c].pc \in {"drain", "drainemit"} => proc[c].leader # "running"
  BY <1>1, SessionReads
<1>2. CASE ReadOutput(c)
  <2>1. PICK x : x = IF ag[c].pc = "drain" THEN "drainemit" ELSE "emit"
    OBVIOUS
  <2>2. PICK a : a = [Interrupted(c) EXCEPT !.pc = x]
    OBVIOUS
  <2>3. /\ Interrupted(c) \in Handlers /\ Interrupted(c).pc = ag[c].pc
    BY <1>s DEF Interrupted, Handlers
  <2>4. a \in Handlers /\ a.pc = x BY <2>1, <2>2, <2>3 DEF Handlers, HandlerSteps
  <2>5. PICK p : p = [proc[c] EXCEPT !.pipe = proc[c].pipe - 1]
    OBVIOUS
  <2>6. proc[c].pipe - 1 \in 0..PipeCap BY <1>2, <1>s DEF ReadOutput, Processes
  <2>7. /\ p \in Processes /\ p.pipe = proc[c].pipe - 1 /\ p.wrote = proc[c].wrote
        /\ p.leader = proc[c].leader
    BY <1>s, <2>5, <2>6 DEF Processes
  <2>8. InHand(a) = 1 /\ InHand(ag[c]) = 0 BY <1>2, <2>1, <2>4 DEF InHand, ReadOutput
  <2>9. cli[c].pc \in Streaming =>
            cli[c].got + Len(down[c]) + p.pipe + InHand(a) = p.wrote
    <3>1. cli[c].got + Len(down[c]) + (proc[c].pipe - 1) + 1
              = cli[c].got + Len(down[c]) + proc[c].pipe + 0
      <4>1. PICK g, l, b : g = cli[c].got /\ l = Len(down[c]) /\ b = proc[c].pipe
        OBVIOUS
      <4>2. g \in Nat /\ l \in Nat /\ b \in Nat BY <1>s, <4>1
      <4>3. g + l + (b - 1) + 1 = g + l + b + 0 BY <4>2
      <4>4. QED BY <4>1, <4>3
    <3>2. QED BY <1>s, <2>7, <2>8, <3>1, Zenon
  <2>10. Conserves(c, a, p, down[c])
    BY <1>s, <2>1, <2>4, <2>7, <2>9 DEF Conserves
  <2>11. ag' = [ag EXCEPT ![c] = a]
    <3>1. ag' = [ag EXCEPT ![c] = [Interrupted(c) EXCEPT
                                   !.pc = IF Interrupted(c).pc = "drain" THEN "drainemit" ELSE "emit"]]
      BY <1>2 DEF ReadOutput
    <3>2. QED BY <2>1, <2>2, <2>3, <3>1
  <2>12. /\ proc' = [proc EXCEPT ![c] = p] /\ down' = [down EXCEPT ![c] = down[c]] /\ live' = live
    BY <1>2, <1>s, <2>5 DEF ReadOutput
  <2>13. a.pc \in Pumping \cup {"ending", "gone"} /\ a.pc # "gone" BY <2>1, <2>4 DEF Pumping
  <2>14. live' = (IF a.pc = "gone" THEN live - 1 ELSE live) BY <2>12, <2>13
  <2>15. QED BY <1>1, <2>4, <2>7, <2>10, <2>11, <2>12, <2>13, <2>14, Pumps
<1>3. CASE EmitOutput(c)
  <2>1. CASE Leave(c) /\ KillOnDrop(c) /\ UNCHANGED down
    BY <1>1, <2>1, DropInv
  <2>2. CASE /\ Connected(c) /\ down' = [down EXCEPT ![c] = Append(down[c], "out")]
             /\ Advance(c, IF ag[c].pc = "emit" THEN "session" ELSE "drain")
             /\ UNCHANGED <<proc, live>>
    <3>1. PICK x : x = IF ag[c].pc = "emit" THEN "session" ELSE "drain"
      OBVIOUS
    <3>2. PICK a : a = [ag[c] EXCEPT !.pc = x]
      OBVIOUS
    <3>3. a \in Handlers /\ a.pc = x BY <1>s, <3>1, <3>2 DEF Handlers, HandlerSteps
    <3>4. PICK d : d = Append(down[c], "out")
      OBVIOUS
    <3>5. Len(d) = Len(down[c]) + 1
      <4>1. "out" \in AgentFrames BY DEF AgentFrames
      <4>2. QED BY <1>s, <3>4, <4>1, Appended
    <3>6. InHand(a) = 0 /\ InHand(ag[c]) = 1 BY <1>3, <3>1, <3>3 DEF InHand, EmitOutput
    <3>7. cli[c].pc \in Streaming =>
              /\ cli[c].got + Len(d) + proc[c].pipe + InHand(a) = proc[c].wrote
              /\ cli[c].got + Len(down[c]) + 1 <= proc[c].wrote
      <4>1. /\ cli[c].got + (Len(down[c]) + 1) + proc[c].pipe + 0
                   = cli[c].got + Len(down[c]) + proc[c].pipe + 1
            /\ cli[c].got + Len(down[c]) + 1 <= cli[c].got + Len(down[c]) + proc[c].pipe + 1
        <5>1. PICK g, l, b : g = cli[c].got /\ l = Len(down[c]) /\ b = proc[c].pipe
          OBVIOUS
        <5>2. g \in Nat /\ l \in Nat /\ b \in Nat BY <1>s, <5>1
        <5>3. g + (l + 1) + b + 0 = g + l + b + 1 /\ g + l + 1 <= g + l + b + 1 BY <5>2
        <5>4. QED BY <5>1, <5>3
      <4>2. QED BY <1>s, <3>5, <3>6, <4>1, Zenon
    <3>8. a.pc \in {"drain", "drainemit"} => proc[c].leader # "running"
      BY <1>3, <1>s, <3>1, <3>3 DEF EmitOutput
    <3>9. Conserves(c, a, proc[c], d) BY <1>s, <3>4, <3>7, <3>8 DEF Conserves
    <3>10. a.pc \in Pumping \cup {"ending", "gone"} /\ a.pc # "gone" BY <3>1, <3>3 DEF Pumping
    <3>11. /\ ag' = [ag EXCEPT ![c] = a] /\ proc' = [proc EXCEPT ![c] = proc[c]]
           /\ down' = [down EXCEPT ![c] = d]
           /\ live' = (IF a.pc = "gone" THEN live - 1 ELSE live)
      BY <1>s, <2>2, <3>1, <3>2, <3>4, <3>10 DEF Advance
    <3>12. QED BY <1>1, <1>s, <3>3, <3>9, <3>10, <3>11, Pumps
  <2>3. QED BY <1>3, <2>1, <2>2 DEF EmitOutput
<1>4. CASE ReportExit(c)
  <2>1. PICK a : a = [ag[c] EXCEPT !.pc = "gone"]
    OBVIOUS
  <2>2. a \in Handlers /\ a.pc = "gone" /\ a.pc \notin Pumping
    BY <1>s, <2>1 DEF Handlers, HandlerSteps, Pumping
  <2>3. PICK d : /\ d = down[c] \/ d = Append(down[c], "exit")
                 /\ down' = [down EXCEPT ![c] = d]
    BY <1>4, <1>s DEF ReportExit, Answer
  <2>4. ag[c].pc = "drain" /\ proc[c].pipe = 0 /\ proc[c].leader # "running" /\ InHand(ag[c]) = 0
    BY <1>4, <1>s DEF ReportExit, InHand
  <2>5. cli[c].pc \in Streaming => cli[c].got + Len(down[c]) = proc[c].wrote
    BY <1>s, <2>4
  <2>6. Conserves(c, a, proc[c], d)
    BY <1>s, <2>2, <2>3, <2>4, <2>5 DEF Conserves
  <2>7. /\ ag' = [ag EXCEPT ![c] = a] /\ proc' = [proc EXCEPT ![c] = proc[c]]
        /\ live' = (IF a.pc = "gone" THEN live - 1 ELSE live)
        /\ a.pc \in Pumping \cup {"ending", "gone"}
    BY <1>4, <1>s, <2>1, <2>2 DEF ReportExit, Leave, Advance
  <2>8. QED BY <1>1, <1>s, <2>2, <2>3, <2>6, <2>7, Pumps
<1>5. QED BY <1>2, <1>3, <1>4

\* The process does as it likes, and only what runs writes.
LEMMA GuestInv ==
    ASSUME SessionInv, NEW c \in Conns, Guest(c)
    PROVE  SessionInv'
<1>r. /\ kind[c] \in CallKinds /\ own[c] \in BOOLEAN /\ cli[c] \in Clients
      /\ up[c] \in Seq(ClientFrames) /\ down[c] \in Seq(AgentFrames)
      /\ ag[c] \in Handlers /\ proc[c] \in Processes
      /\ Sound(kind[c], own[c], cli[c], up[c], down[c], ag[c], proc[c],
               poweroff, c \in trim.trimmed)
  BY Reads
<1>n. /\ cli[c].got \in Nat /\ proc[c].pipe \in 0..PipeCap /\ proc[c].wrote \in 0..MaxOut
      /\ proc[c].input \in 0..PipeCap
      /\ PipeCap \in Nat /\ MaxOut \in Nat /\ Len(down[c]) \in Nat /\ InHand(ag[c]) \in Nat
  BY <1>r, SessionAssumption, LenProperties DEF Clients, Processes, InHand
<1>1. /\ cli' = [cli EXCEPT ![c] = cli[c]] /\ up' = [up EXCEPT ![c] = up[c]]
      /\ down' = [down EXCEPT ![c] = down[c]] /\ ag' = [ag EXCEPT ![c] = ag[c]]
      /\ UNCHANGED <<fixedVars, poweroff, trim, live>>
  BY SessionTypes
     DEF SessionInv, Guest, ProcessWrites, ProcessReads, ProcessForks, ProcessExits, KidsEnd
<1>2. ASSUME NEW p \in Processes, proc' = [proc EXCEPT ![c] = p],
             Sound(kind[c], own[c], cli[c], up[c], down[c], ag[c], p, poweroff, c \in trim.trimmed)
      PROVE  SessionInv'
  BY <1>1, <1>2, <1>r, ConnSteps
<1>3. CASE ProcessWrites(c)
  <2>1. PICK p : p = [proc[c] EXCEPT !.pipe = proc[c].pipe + 1, !.wrote = proc[c].wrote + 1]
    OBVIOUS
  <2>2. proc' = [proc EXCEPT ![c] = p] BY <1>3, <2>1 DEF ProcessWrites
  <2>3. proc[c].pipe + 1 \in 0..PipeCap /\ proc[c].wrote + 1 \in 0..MaxOut
    BY <1>3, <1>n DEF ProcessWrites
  <2>4. /\ p \in Processes /\ p.pipe = proc[c].pipe + 1 /\ p.wrote = proc[c].wrote + 1
        /\ p.leader = "running" /\ proc[c].leader = "running"
    BY <1>3, <1>r, <2>1, <2>3 DEF ProcessWrites, Processes
  <2>5. Started(kind[c], own[c], cli[c], ag[c], p)
    BY <1>n, <1>r, <2>4 DEF Sound, Started
  <2>6. Carried(cli[c], down[c], ag[c], p)
    <3>1. SUFFICES ASSUME cli[c].pc \in Streaming PROVE Carried(cli[c], down[c], ag[c], p)
      BY DEF Carried
    <3>2. /\ ag[c].pc \in Pumping =>
                cli[c].got + Len(down[c]) + proc[c].pipe + InHand(ag[c]) = proc[c].wrote
          /\ \A i \in 1 .. Len(down[c]) :
                /\ down[c][i] = "out" => cli[c].got + i <= proc[c].wrote
                /\ down[c][i] # "exit" /\ down[c][i] # "error"
      BY <1>r, <2>4, <3>1 DEF Sound, Carried
    <3>3. ag[c].pc \in Pumping => cli[c].got + Len(down[c]) + p.pipe + InHand(ag[c]) = p.wrote
      <4>1. cli[c].got + Len(down[c]) + (proc[c].pipe + 1) + InHand(ag[c])
                = (cli[c].got + Len(down[c]) + proc[c].pipe + InHand(ag[c])) + 1
        <5>1. PICK g, l, b, x : /\ g = cli[c].got /\ l = Len(down[c]) /\ b = proc[c].pipe
                                /\ x = InHand(ag[c])
          OBVIOUS
        <5>2. g \in Nat /\ l \in Nat /\ b \in Nat /\ x \in Nat BY <1>n, <5>1
        <5>3. g + l + (b + 1) + x = (g + l + b + x) + 1 BY <5>2
        <5>4. QED BY <5>1, <5>3
      <4>2. QED BY <2>4, <3>2, <4>1, Zenon
    <3>4. \A i \in 1 .. Len(down[c]) : down[c][i] = "out" => cli[c].got + i <= p.wrote
      BY <1>n, <2>4, <3>2
    <3>5. QED BY <3>2, <3>3, <3>4 DEF Carried
  <2>7. Concluded(kind[c], cli[c], ag[c], p, poweroff, c \in trim.trimmed)
    BY <1>r, <2>4 DEF Sound, Concluded
  <2>8. QED BY <1>2, <1>r, <2>2, <2>4, <2>5, <2>6, <2>7 DEF Sound
<1>4. ASSUME NEW p \in Processes, proc' = [proc EXCEPT ![c] = p],
             p.pipe = proc[c].pipe, p.wrote = proc[c].wrote,
             p.leader = proc[c].leader \/ (proc[c].leader = "running" /\ p.leader = "exited")
      PROVE  SessionInv'
  <2>1. Started(kind[c], own[c], cli[c], ag[c], p) BY <1>4, <1>r DEF Sound, Started
  <2>2. Carried(cli[c], down[c], ag[c], p) BY <1>4, <1>r DEF Sound, Carried
  <2>3. Concluded(kind[c], cli[c], ag[c], p, poweroff, c \in trim.trimmed)
    BY <1>4, <1>r DEF Sound, Concluded
  <2>4. QED BY <1>2, <1>4, <1>r, <2>1, <2>2, <2>3 DEF Sound
<1>5. CASE ProcessReads(c)
  <2>1. PICK p : p = [proc[c] EXCEPT !.input = proc[c].input - 1]
    OBVIOUS
  <2>2. proc' = [proc EXCEPT ![c] = p] /\ proc[c].input - 1 \in 0..PipeCap
    BY <1>5, <1>n, <2>1 DEF ProcessReads
  <2>3. p \in Processes /\ p.pipe = proc[c].pipe /\ p.wrote = proc[c].wrote
        /\ p.leader = proc[c].leader
    BY <1>r, <2>1, <2>2 DEF Processes
  <2>4. QED BY <1>4, <2>2, <2>3
<1>6. CASE ProcessForks(c) \/ ProcessExits(c) \/ KidsEnd(c)
  <2>1. PICK p : /\ proc' = [proc EXCEPT ![c] = p]
                 /\ \/ p = [proc[c] EXCEPT !.kids = TRUE] \/ p = [proc[c] EXCEPT !.kids = FALSE]
                    \/ p = [proc[c] EXCEPT !.leader = "exited"] /\ proc[c].leader = "running"
    BY <1>6 DEF ProcessForks, ProcessExits, KidsEnd
  <2>2. p \in Processes /\ p.pipe = proc[c].pipe /\ p.wrote = proc[c].wrote
        /\ (p.leader = proc[c].leader \/ (proc[c].leader = "running" /\ p.leader = "exited"))
    BY <1>r, <2>1 DEF Processes
  <2>3. QED BY <1>4, <2>1, <2>2
<1>7. QED BY <1>3, <1>5, <1>6 DEF Guest
-----------------------------------------------------------------------------
(* The invariant, and what it shows.                                       *)

\* Before the first connection.
LEMMA SessionInitInv == SessionInit => SessionInv
<1> SUFFICES ASSUME SessionInit PROVE SessionInv
  OBVIOUS
<1>a. MaxIn \in Nat /\ MaxOut \in Nat /\ PipeCap \in Nat BY SessionAssumption
<1>1. SessionTypeOK
  <2>1. ASSUME NEW x \in {"idle", "done"}
        PROVE  [pc |-> x, res |-> "none", left |-> MaxIn, ended |-> FALSE, got |-> 0] \in Clients
    BY <1>a DEF Clients, Outcomes
  <2>2. cli \in [Conns -> Clients] BY <2>1 DEF SessionInit
  <2>3. ag \in [Conns -> Handlers] BY DEF SessionInit, Handlers, HandlerSteps
  <2>4. proc \in [Conns -> Processes] BY <1>a DEF SessionInit, NoProcess, Processes
  <2>5. up \in [Conns -> Seq(ClientFrames)] /\ down \in [Conns -> Seq(AgentFrames)]
    BY DEF SessionInit
  <2>6. trim \in TrimFiles BY DEF SessionInit, TrimFiles
  <2>7. QED BY <2>2, <2>3, <2>4, <2>5, <2>6, SessionTypes DEF SessionInit
<1>2. CountIsRight
  <2>1. Open = {} BY DEF Open, SessionInit, Counting, Pumping
  <2>2. QED BY <2>1, FS_EmptySet DEF CountIsRight, SessionInit
<1>3. TrimsAreOwn /\ PoweroffIsOwn BY DEF TrimsAreOwn, PoweroffIsOwn, SessionInit
<1>4. ASSUME NEW c \in Conns
      PROVE  Sound(kind[c], own[c], cli[c], up[c], down[c], ag[c], proc[c],
                   poweroff, c \in trim.trimmed)
  <2>1. /\ cli[c].pc \in {"idle", "done"} /\ cli[c].res = "none" /\ cli[c].got = 0
        /\ up[c] = <<>> /\ down[c] = <<>> /\ ag[c].pc = "none"
        /\ proc[c].leader = "none" /\ proc[c].wrote = 0 /\ proc[c].pipe = 0
    BY DEF SessionInit, NoProcess
  <2>2. QED BY <2>1
    DEF Sound, Phases, Started, Carried, Framed, Concluded, Streaming
<1>5. QED BY <1>1, <1>2, <1>3, <1>4 DEF SessionInv

\* Every step keeps the invariant.
LEMMA SessionStepInv == SessionInv /\ [SessionNext]_sessionVars => SessionInv'
<1> SUFFICES ASSUME SessionInv, [SessionNext]_sessionVars PROVE SessionInv'
  OBVIOUS
<1>1. ASSUME NEW c \in Conns, Client(c) \/ CallTimesOut(c) \/ Interrupt(c) PROVE SessionInv'
  BY <1>1, ConnectInv, GivesUpInv, ReadGreetingInv, ReadAnswerInv, ReadFrameInv, InputInv, RetryInv
     DEF Client
<1>2. ASSUME NEW c \in Conns, Handler(c) \/ ReadHalf(c) PROVE SessionInv'
  BY <1>2, GreetInv, RequestInv, ShutdownInv, SpawnInv, TrimInv, StdinInv, EndingInv, OutputInv
     DEF Handler
<1>3. ASSUME NEW c \in Conns, Guest(c) PROVE SessionInv'
  BY <1>3, GuestInv
<1>4. CASE UnitTakes \/ UnitDone BY <1>4, UnitInv
<1>5. CASE UNCHANGED sessionVars
  <2>1. /\ cli' = cli /\ up' = up /\ down' = down /\ ag' = ag /\ proc' = proc /\ live' = live
        /\ poweroff' = poweroff /\ kind' = kind /\ own' = own /\ trim' = trim
    BY <1>5 DEF sessionVars
  <2>2. SessionTypeOK' BY <2>1 DEF SessionInv, SessionTypeOK
  <2>3. CountIsRight' /\ TrimsAreOwn' /\ PoweroffIsOwn'
    BY <2>1 DEF SessionInv, CountIsRight, Open, TrimsAreOwn, PoweroffIsOwn
  <2>4. QED BY <2>1, <2>2, <2>3 DEF SessionInv
<1>6. QED BY <1>1, <1>2, <1>3, <1>4, <1>5 DEF SessionNext

\* The inductive invariant holds throughout.
THEOREM SessionInvariance == SessionSpec => []SessionInv
BY SessionInitInv, SessionStepInv, PTL DEF SessionSpec

\* What a client concludes is true, however its frames are torn, its output is
\* drained, its call times out and other calls interleave: an exit status is
\* behind all the output, a refusal means that no process was started, another
\* boot's client did nothing, and an acknowledged shutdown or trim happened.
THEOREM SessionIsSafe == SessionSpec => []SessionSafe
<1>1. SessionInv => SessionSafe
  <2> SUFFICES ASSUME SessionInv PROVE SessionSafe
    OBVIOUS
  <2>1. SessionTypeOK BY DEF SessionInv
  <2>2. OutputBeforeExit BY Reads DEF OutputBeforeExit, Sound, Concluded
  <2>3. RefusalMeansNoProcess BY Reads DEF RefusalMeansNoProcess, Sound, Concluded
  <2>4. OwnBootOnly
    <3>1. \A c \in Conns : ~own[c] => proc[c].leader = "none" BY Reads DEF Sound, Started
    <3>2. QED BY <3>1 DEF SessionInv, OwnBootOnly, TrimsAreOwn, PoweroffIsOwn
  <2>5. AckIsTruthful BY Reads DEF AckIsTruthful, Sound, Concluded
  <2>6. QED BY <2>1, <2>2, <2>3, <2>4, <2>5 DEF SessionSafe
<1>2. QED BY <1>1, SessionInvariance, PTL

\* The agent's count of live sessions, which `viv status` reports (cli/lifecycle.rs),
\* is the number of connections that hold one: no way out of a session leaks
\* the count or drops it twice.
THEOREM SessionsAreCounted ==
    SessionSpec => [](live = Cardinality({c \in Conns : ag[c].pc \in Counting}))
<1>1. SessionInv => live = Cardinality({c \in Conns : ag[c].pc \in Counting})
  BY DEF SessionInv, CountIsRight, Open
<1>2. QED BY <1>1, SessionInvariance, PTL
=============================================================================
