---------------------------- MODULE ChannelProofs ----------------------------
(***************************************************************************)
(* Theorems of the channels between the guest and the host: the credential *)
(* relay and the console capture, for every set of workers and any number  *)
(* of chunks, polls and files; and what the guest may reach, what it may   *)
(* ask and what it is told, for every allowlist, every set of names,       *)
(* addresses and datagrams, and any number of permits.                     *)
(***************************************************************************)
EXTENDS Relay, Console, Egress, SequenceTheorems, FiniteSetTheorems, TLAPS

-----------------------------------------------------------------------------
(* The relay.                                                              *)

\* Nothing parked or offered belongs to a worker that is between connections.
HoldersAreParked ==
    /\ \A i \in DOMAIN pool : pool[i] \in Workers => worker[pool[i]] \in {"parked", "relay"}
    /\ offered \in Workers => worker[offered] \in {"parked", "relay"}

\* Live connections of the pool are pairwise different, and none is offered.
NoTwin ==
    /\ \A i, j \in DOMAIN pool : pool[i] = pool[j] /\ pool[i] # Dead => i = j
    /\ \A i \in DOMAIN pool : pool[i] = offered => pool[i] = Dead

\* The inductive invariant, position by position.
RelayInv == RelayTypeOK /\ ParkedIsBounded /\ HoldersAreParked /\ NoTwin

\* The pool's size is a number.
LEMMA PoolSizeNat == PoolSize \in Nat
BY RelayAssumption, FS_CardinalityType DEF PoolSize

\* What closing a stream does to the pool: the same places, the worker's dead.
LEMMA Closed ==
    ASSUME NEW w \in Workers, pool \in Seq(Streams), offered \in Streams \cup {NoStream},
           CloseStream(w)
    PROVE  /\ pool' \in Seq(Streams) /\ Len(pool') = Len(pool) /\ DOMAIN pool' = DOMAIN pool
           /\ offered' \in Streams \cup {NoStream}
           /\ offered' # w
           /\ \A i \in DOMAIN pool : /\ pool'[i] # w
                                     /\ pool'[i] = pool[i] \/ pool'[i] = Dead
           /\ offered' = offered \/ offered' = Dead
<1>1. DOMAIN pool = 1 .. Len(pool) /\ Len(pool) \in Nat BY LenProperties
<1>2. \A i \in 1 .. Len(pool) : pool[i] \in Streams BY ElementOfSeq
<1>3. pool' = [i \in 1 .. Len(pool) |-> IF pool[i] = w THEN Dead ELSE pool[i]]
  BY <1>1 DEF CloseStream
<1>4. \A i \in 1 .. Len(pool) : pool'[i] \in Streams BY <1>2, <1>3 DEF Streams
<1>5. pool' \in [1 .. Len(pool) -> Streams] BY <1>3, <1>4
<1>6. pool' \in Seq(Streams) BY <1>1, <1>5
<1>7. Len(pool') = Len(pool) BY <1>1, <1>3
<1>8. QED BY <1>1, <1>3, <1>6, <1>7, RelayAssumption DEF CloseStream, Streams

\* Nothing is parked at first.
LEMMA RelayInitInv == RelayInit => RelayInv
<1> SUFFICES ASSUME RelayInit PROVE RelayInv
  OBVIOUS
<1>1. pool \in Seq(Streams) /\ Len(pool) = 0 /\ DOMAIN pool = {}
  BY EmptySeq DEF RelayInit
<1>2. RelayTypeOK BY <1>1 DEF RelayInit, RelayTypeOK
<1>3. ParkedIsBounded BY <1>1, PoolSizeNat DEF ParkedIsBounded
<1>4. HoldersAreParked /\ NoTwin
  BY <1>1, RelayAssumption DEF RelayInit, HoldersAreParked, NoTwin
<1>5. QED BY <1>2, <1>3, <1>4 DEF RelayInv

\* A worker that closes its stream leaves nothing of it behind.
LEMMA CloseInv ==
    ASSUME RelayInv, NEW w \in Workers, CloseStream(w),
           NEW step \in {"connect", "relay", "stopped"},
           worker' = [worker EXCEPT ![w] = step],
           UNCHANGED <<announced, client, hostUp, ending>>
    PROVE  RelayInv'
<1>1. /\ pool' \in Seq(Streams) /\ Len(pool') = Len(pool) /\ DOMAIN pool' = DOMAIN pool
      /\ offered' \in Streams \cup {NoStream}
      /\ offered' # w
      /\ \A i \in DOMAIN pool : /\ pool'[i] # w
                                /\ pool'[i] = pool[i] \/ pool'[i] = Dead
      /\ offered' = offered \/ offered' = Dead
  BY Closed DEF RelayInv, RelayTypeOK
<1>2. RelayTypeOK' /\ ParkedIsBounded'
  BY <1>1 DEF RelayInv, RelayTypeOK, ParkedIsBounded, PoolSize
<1>3. HoldersAreParked'
  BY <1>1, RelayAssumption DEF RelayInv, RelayTypeOK, HoldersAreParked
<1>4. NoTwin' BY <1>1 DEF RelayInv, NoTwin
<1>5. QED BY <1>2, <1>3, <1>4 DEF RelayInv

\* Every step keeps the invariant.
LEMMA RelayStepInv == RelayInv /\ [RelayNext]_relayVars => RelayInv'
<1> SUFFICES ASSUME RelayInv, [RelayNext]_relayVars PROVE RelayInv'
  OBVIOUS
<1>p. pool \in Seq(Streams) /\ DOMAIN pool = 1 .. Len(pool) /\ Len(pool) \in Nat
      /\ \A i \in 1 .. Len(pool) : pool[i] \in Streams
  BY LenProperties, ElementOfSeq DEF RelayInv, RelayTypeOK
<1> USE DEF PoolSize
<1>1. ASSUME NEW w \in Workers, Knock(w) PROVE RelayInv'
  BY <1>1 DEF Knock, RelayInv, RelayTypeOK, ParkedIsBounded, HoldersAreParked, NoTwin
<1>2. ASSUME NEW w \in Workers, Park(w) PROVE RelayInv'
  <2>1. /\ pool' \in Seq(Streams) /\ Len(pool') = Len(pool) + 1
        /\ \A i \in 1 .. Len(pool) : pool'[i] = pool[i]
        /\ pool'[Len(pool) + 1] = w
    BY <1>2, <1>p, AppendProperties DEF Park, Streams
  <2>2. DOMAIN pool' = 1 .. (Len(pool) + 1) BY <2>1, LenProperties
  <2>3. w # offered /\ \A i \in 1 .. Len(pool) : pool[i] # w
    BY <1>2, <1>p DEF Park, RelayInv, HoldersAreParked
  <2>4. RelayTypeOK' BY <1>2, <2>1 DEF Park, RelayInv, RelayTypeOK
  <2>5. ParkedIsBounded' BY <1>2, <1>p, <2>1, PoolSizeNat DEF Park, ParkedIsBounded
  <2>6. HoldersAreParked'
    BY <1>2, <1>p, <2>1, <2>2 DEF Park, RelayInv, RelayTypeOK, HoldersAreParked
  <2>7. NoTwin' BY <1>2, <1>p, <2>1, <2>2, <2>3 DEF Park, RelayInv, NoTwin
  <2>8. QED BY <2>4, <2>5, <2>6, <2>7 DEF RelayInv
<1>3. ASSUME NEW w \in Workers, ConnectHost(w) PROVE RelayInv'
  <2>1. CASE hostUp /\ UNCHANGED <<pool, offered>>
    BY <1>3, <2>1 DEF ConnectHost, RelayInv, RelayTypeOK, ParkedIsBounded, HoldersAreParked, NoTwin
  <2>2. CASE ~hostUp BY <1>3, <2>2, CloseInv DEF ConnectHost
  <2>3. QED BY <1>3, <2>1, <2>2 DEF ConnectHost
<1>4. ASSUME NEW w \in Workers, RelayEnds(w) PROVE RelayInv'
  BY <1>4, CloseInv DEF RelayEnds
<1>5. ASSUME NEW w \in Workers, Stop(w) PROVE RelayInv'
  BY <1>5, CloseInv DEF Stop
<1>6. CASE Offer
  <2>1. /\ pool' \in Seq(Streams) /\ Len(pool') = Len(pool) - 1 /\ Len(pool) > 0
        /\ \A i \in 1 .. Len(pool') : pool'[i] = pool[i + 1]
        /\ offered' = pool[1]
    BY <1>6, <1>p, HeadTailProperties, EmptySeq DEF Offer
  <2>2. DOMAIN pool' = 1 .. (Len(pool) - 1) BY <2>1, LenProperties
  <2>3. RelayTypeOK' BY <1>6, <1>p, <2>1 DEF Offer, RelayInv, RelayTypeOK
  <2>4. ParkedIsBounded' BY <1>p, <2>1, PoolSizeNat DEF ParkedIsBounded, RelayInv
  <2>5. \A i \in DOMAIN pool' : i + 1 \in DOMAIN pool /\ i + 1 # 1 /\ pool'[i] = pool[i + 1]
    BY <1>p, <2>1, <2>2
  <2>6. 1 \in DOMAIN pool BY <1>p, <2>1
  <2>7. HoldersAreParked' BY <1>6, <2>1, <2>5, <2>6 DEF Offer, RelayInv, HoldersAreParked
  <2>8. NoTwin'
    <3>1. ASSUME NEW i \in DOMAIN pool', NEW j \in DOMAIN pool', pool'[i] = pool'[j], pool'[i] # Dead
          PROVE i = j
      <4>1. i + 1 = j + 1 BY <2>5, <3>1 DEF RelayInv, NoTwin
      <4>2. QED BY <1>p, <2>1, <2>2, <4>1
    <3>2. ASSUME NEW i \in DOMAIN pool', pool'[i] = offered' PROVE pool'[i] = Dead
      BY <2>1, <2>5, <2>6, <3>2 DEF RelayInv, NoTwin
    <3>3. QED BY <3>1, <3>2 DEF NoTwin
  <2>9. QED BY <2>3, <2>4, <2>7, <2>8 DEF RelayInv
<1>7. CASE AcceptClient
  <2>1. \A i \in DOMAIN pool : pool[i] # NoStream \/ pool[i] = Dead
    BY <1>p, RelayAssumption DEF Streams
  <2>2. RelayTypeOK' BY <1>7 DEF AcceptClient, RelayInv, RelayTypeOK
  <2>3. QED BY <1>7, <2>1, <2>2, RelayAssumption
    DEF AcceptClient, RelayInv, ParkedIsBounded, HoldersAreParked, NoTwin
<1>8. CASE ClientArrives \/ HostFlips \/ RelayEnding \/ UNCHANGED relayVars
  BY <1>8 DEF ClientArrives, HostFlips, RelayEnding, relayVars, RelayInv, RelayTypeOK,
              ParkedIsBounded, HoldersAreParked, NoTwin
<1>9. QED
  BY <1>1, <1>2, <1>3, <1>4, <1>5, <1>6, <1>7, <1>8 DEF RelayNext, WorkerStep, AgentStep

\* One host connection for one guest client: for any number of workers, a live
\* connection is parked once, it belongs to a worker that waits or relays, and
\* the pool never outgrows its size, however often the host was unreachable.
THEOREM RelayIsSafe == RelaySpec => []RelaySafe
<1>1. RelayInv => RelaySafe
  BY DEF RelayInv, RelaySafe, HoldersAreParked, NoTwin, ParkedOnce, Range
<1>2. QED BY <1>1, RelayInitInv, RelayStepInv, PTL DEF RelaySpec

-----------------------------------------------------------------------------
(* The console.                                                            *)

\* Positions of a file that hold a chunk
Cells(f) == 1 .. Len(capture.data[f])

\* The names lead to the newest inode only, later inodes and later places
\* hold later chunks, and inodes not handed out yet are empty.
CaptureInOrder ==
    /\ capture.log \in {NoFile, capture.used}
    /\ \A f \in Files : f > capture.used => capture.data[f] = <<>>
    /\ \A f, g \in Files : \A i \in Cells(f), j \in Cells(g) :
          f < g \/ (f = g /\ i < j) => capture.data[f][i] < capture.data[g][j]

\* The sink appends to the newest inode, every rotation is paid for with a
\* chunk, and what is still to land is later than all that has landed and than
\* all that is due to the terminal.
SinkInOrder ==
    /\ sink.pc # "closed" => sink.file = capture.used /\ sink.file # NoFile
    /\ sink.pc = "closed" => /\ capture.used = capture.log /\ capture.used <= 1 /\ sink.pending = 0
                             /\ \A f \in Files : \A i \in Cells(f) : capture.data[f][i] = 0
    /\ capture.used <= sink.chunk + 1
    /\ sink.pc \in {"shift", "rename", "reopen"} => capture.used <= sink.chunk
    /\ sink.pc = "reopen" => capture.log = NoFile
    /\ sink.pc = "done" => sink.pending = 0
    /\ vm = "down" => sink.pc = "done"
    /\ sink.pending <= sink.chunk
    /\ sink.pc \in {"shift", "rename", "reopen", "write"} => sink.pending < sink.chunk
    /\ \A f \in Files : \A i \in Cells(f) :
          /\ capture.data[f][i] <= sink.chunk
          /\ sink.pending # 0 => capture.data[f][i] < sink.pending
          /\ sink.pc \in {"shift", "rename", "reopen", "write"} => capture.data[f][i] < sink.chunk
    /\ \A c \in follower.due :
          /\ c <= sink.chunk
          /\ sink.pending # 0 => c < sink.pending
          /\ sink.pc \in {"shift", "rename", "reopen", "write"} => c < sink.chunk

\* A chunk of this boot that is later than all the terminal got
Ahead(c) == c > 0 /\ \A k \in 1 .. Len(follower.out) : follower.out[k] < c

\* A place the follower has still to come to
Unread(f, i) ==
    \/ follower.file # NoFile /\ f > follower.file
    \/ follower.file # NoFile /\ f = follower.file /\ i > follower.pos
    \/ follower.file = NoFile /\ f = capture.log

\* Whatever the follower has still to come to is ahead of the terminal.
FollowerInOrder ==
    /\ follower.pc = "none" => follower.out = <<>> /\ sink.pc = "closed" /\ follower.file = NoFile
    /\ follower.pc \in {"read", "check"} => follower.file # NoFile
    /\ follower.pc = "open" => follower.file = NoFile
    /\ follower.file <= capture.used
    /\ follower.file # NoFile => follower.pos <= Len(capture.data[follower.file])
    /\ follower.pc # "none" => \A f \in Files : \A i \in Cells(f) :
                                  Unread(f, i) => Ahead(capture.data[f][i])
    /\ sink.pending # 0 => Ahead(sink.pending)
    /\ sink.pc \in {"shift", "rename", "reopen", "write"} => Ahead(sink.chunk)
    /\ \A k \in 1 .. Len(follower.out) : follower.out[k] <= sink.chunk
    /\ ForwardedInOrder

\* A chunk the terminal got, or one of an earlier boot
Passed(c) == c = 0 \/ \E k \in 1 .. Len(follower.out) : follower.out[k] = c

\* What is due of a file, the terminal got.
DueIsPassed(f) ==
    \A i \in Cells(f) : capture.data[f][i] \in follower.due => Passed(capture.data[f][i])

\* What the follower passed in its file went to the terminal, or is of an
\* earlier boot; and the last drain gets all that was due of the file it holds,
\* then of the file the capture's name leads to.
FollowerDrains ==
    /\ follower.file # NoFile => \A i \in 1 .. follower.pos : Passed(capture.data[follower.file][i])
    /\ follower.last # "ended" => follower.quiet < StablePolls
    /\ follower.pc = "none" => follower.last = "no"
    /\ follower.pc = "ended" => follower.last = "ended"
    /\ follower.last = "ended" /\ follower.pc = "check" => DueIsPassed(follower.file)
    /\ follower.last = "ended" /\ follower.pc \in {"polled", "ended"} /\ capture.log # NoFile
          => DueIsPassed(capture.log)

\* The inductive invariant.
ConsoleInv ==
    ConsoleTypeOK /\ CaptureInOrder /\ SinkInOrder /\ FollowerInOrder /\ FollowerDrains

\* The types of the five variables
CaptureType == [log : 0..MaxFiles, one : 0..MaxFiles, two : 0..MaxFiles,
                data : [Files -> Seq(0..MaxChunks)], used : 0..MaxFiles]
SinkType == [pc : {"closed", "idle", "shift", "rename", "reopen", "write", "done"},
             file : 0..MaxFiles, written : Nat, chunk : 0..MaxChunks, pending : 0..MaxChunks]
FollowerType ==
    [pc : {"none", "open", "read", "check", "polled", "ended", "detached", "broken"},
     file : 0..MaxFiles, pos : Nat, forwarded : BOOLEAN, quiet : 0..StablePolls,
     last : {"no", "ended", "detached"}, due : SUBSET (0..MaxChunks), out : Seq(0..MaxChunks)]
AttachType == [booted : BOOLEAN, cancel : BOOLEAN, exit : {"none", "success", "signal", "failed"}]

\* The type invariant, variable by variable.
LEMMA ConsoleTypes ==
    ConsoleTypeOK <=> /\ capture \in CaptureType /\ sink \in SinkType
                      /\ vm \in {"launching", "up", "stopping", "dead", "ending", "down"}
                      /\ follower \in FollowerType /\ attach \in AttachType
BY DEF ConsoleTypeOK, CaptureType, SinkType, FollowerType, AttachType

\* The same of the next state.
LEMMA ConsoleTypesNext ==
    ASSUME capture' \in CaptureType, sink' \in SinkType, follower' \in FollowerType,
           vm' \in {"launching", "up", "stopping", "dead", "ending", "down"}, attach' \in AttachType
    PROVE  ConsoleTypeOK'
BY DEF ConsoleTypeOK, CaptureType, SinkType, FollowerType, AttachType

\* The numbers and sequences of a state of the right type.
Fields ==
    /\ MaxFiles \in Nat \ {0} /\ MaxChunks \in Nat /\ StablePolls \in Nat \ {0}
    /\ capture.log \in Nat /\ capture.used \in Nat
    /\ capture.data \in [Files -> Seq(0..MaxChunks)]
    /\ \A f \in Files : f \in Nat \ {0} /\ Len(capture.data[f]) \in Nat
    /\ \A f \in Files : \A i \in Cells(f) : capture.data[f][i] \in Nat
    /\ sink.file \in Nat /\ sink.chunk \in Nat /\ sink.pending \in Nat /\ sink.written \in Nat
    /\ follower.file \in Nat /\ follower.pos \in Nat /\ follower.quiet \in Nat
    /\ follower.out \in Seq(0..MaxChunks) /\ Len(follower.out) \in Nat
    /\ \A k \in 1 .. Len(follower.out) : follower.out[k] \in Nat
    /\ \A c \in follower.due : c \in Nat

\* They follow from the type invariant.
LEMMA ConsoleFields == ConsoleTypeOK => Fields
<1> SUFFICES ASSUME ConsoleTypeOK PROVE Fields
  OBVIOUS
<1>1. capture.data \in [Files -> Seq(0..MaxChunks)] /\ follower.out \in Seq(0..MaxChunks)
  BY DEF ConsoleTypeOK
<1>2. \A f \in Files : capture.data[f] \in Seq(0..MaxChunks) BY <1>1
<1>3. \A f \in Files : Len(capture.data[f]) \in Nat BY <1>2, LenProperties
<1>4. \A f \in Files : \A i \in Cells(f) : capture.data[f][i] \in 0..MaxChunks
  BY <1>2, ElementOfSeq DEF Cells
<1>5. Len(follower.out) \in Nat /\ \A k \in 1 .. Len(follower.out) : follower.out[k] \in 0..MaxChunks
  BY <1>1, ElementOfSeq, LenProperties
<1>6. MaxFiles \in Nat \ {0} /\ MaxChunks \in Nat /\ StablePolls \in Nat \ {0}
  BY ConsoleAssumption
<1>7. /\ capture.log \in Nat /\ capture.used \in Nat /\ sink.file \in Nat /\ sink.chunk \in Nat
      /\ sink.pending \in Nat /\ sink.written \in Nat /\ follower.file \in Nat
      /\ follower.pos \in Nat /\ follower.quiet \in Nat
  BY <1>6 DEF ConsoleTypeOK
<1>8. \A f \in Files : f \in Nat \ {0} BY <1>6 DEF Files
<1>9. \A c \in 0..MaxChunks : c \in Nat BY <1>6
<1>d. follower.due \subseteq 0..MaxChunks BY DEF ConsoleTypeOK
<1>10. QED BY <1>1, <1>3, <1>4, <1>5, <1>6, <1>7, <1>8, <1>9, <1>d DEF Fields

\* At first there is at most one file, of an earlier boot.
LEMMA ConsoleInitInv == ConsoleInit => ConsoleInv
<1> SUFFICES ASSUME ConsoleInit PROVE ConsoleInv
  OBVIOUS
<1>a. MaxFiles \in Nat \ {0} /\ StablePolls \in Nat \ {0} /\ MaxChunks \in Nat
  BY ConsoleAssumption
<1>0. PICK old \in {0, 1} :
          capture = [log |-> old, one |-> NoFile, two |-> NoFile, used |-> old,
                     data |-> [f \in Files |-> IF f <= old THEN <<0>> ELSE <<>>]]
  BY DEF ConsoleInit
<1>1. <<0>> \in Seq(0..MaxChunks) /\ <<>> \in Seq(0..MaxChunks) /\ Len(<<0>>) = 1 /\ Len(<<>>) = 0
      /\ <<0>>[1] = 0
  BY <1>a
<1>2. ConsoleTypeOK
  <2>1. [f \in Files |-> IF f <= old THEN <<0>> ELSE <<>>] \in [Files -> Seq(0..MaxChunks)] BY <1>1
  <2>2. old \in 0..MaxFiles /\ 0 \in 0..MaxFiles BY <1>a
  <2>3. QED BY <1>0, <1>1, <1>a, <2>1, <2>2 DEF ConsoleInit, ConsoleTypeOK, NoFile
<1>3. \A f \in Files : \A i \in Cells(f) : i = 1 /\ f = old /\ capture.data[f][i] = 0
  <2> SUFFICES ASSUME NEW f \in Files, NEW i \in Cells(f)
               PROVE  i = 1 /\ f = old /\ capture.data[f][i] = 0
    OBVIOUS
  <2>1. capture.data[f] = IF f <= old THEN <<0>> ELSE <<>> BY <1>0
  <2>2. f <= old BY <1>1, <2>1 DEF Cells
  <2>3. capture.data[f] = <<0>> BY <2>1, <2>2
  <2>4. i = 1 BY <1>1, <2>3 DEF Cells
  <2>5. f = old BY <1>a, <2>2 DEF Files
  <2>6. QED BY <1>1, <2>3, <2>4, <2>5
<1>4. CaptureInOrder
  <2>1. capture.log = old /\ capture.used = old BY <1>0
  <2>2. \A f \in Files : f > old => ~(f <= old) BY <1>a DEF Files
  <2>3. \A f \in Files : f > capture.used => capture.data[f] = <<>> BY <1>0, <2>1, <2>2
  <2>4. QED BY <1>3, <2>1, <2>3 DEF CaptureInOrder
<1>5. SinkInOrder
  BY <1>0, <1>3, <1>a DEF SinkInOrder, ConsoleInit, NoFile
<1>6. FollowerInOrder
  BY <1>0, <1>1, <1>a DEF FollowerInOrder, ConsoleInit, NoFile, ForwardedInOrder
<1>7. FollowerDrains
  BY <1>0, <1>1, <1>a DEF FollowerDrains, ConsoleInit, NoFile
<1>8. QED BY <1>2, <1>4, <1>5, <1>6, <1>7 DEF ConsoleInv

\* Opening the capture hands out an inode at most once per call, and only if
\* no file has the name; the new file is empty.
LEMMA OpenedFile ==
    ASSUME ConsoleInv, sink.pc \in {"closed", "reopen"}
    PROVE  LET o == SecureOpen IN
           /\ o \in CaptureType
           /\ o.data = capture.data /\ o.log = o.used /\ o.log # NoFile
           /\ o.used >= capture.used /\ o.used <= sink.chunk + 1
           /\ capture.log # NoFile => o.log = capture.log
           /\ capture.log = NoFile => o.log = capture.used + 1
<1>1. /\ capture.used \in Nat /\ capture.log \in Nat /\ sink.chunk \in 0..MaxChunks
      /\ MaxFiles \in Nat /\ MaxChunks \in Nat /\ MaxFiles > MaxChunks
  BY ConsoleFields, ConsoleTypes, ConsoleAssumption DEF ConsoleInv, Fields, SinkType
<1>t. capture \in CaptureType BY ConsoleTypes DEF ConsoleInv
<1>2. CASE capture.log # NoFile
  BY <1>1, <1>2, <1>t DEF SecureOpen, ConsoleInv, CaptureInOrder, SinkInOrder
<1>3. CASE capture.log = NoFile
  <2>1. capture.used + 1 <= sink.chunk + 1
    BY <1>1, <1>3 DEF ConsoleInv, SinkInOrder, NoFile
  <2>2. capture.used + 1 \in 0..MaxFiles BY <1>1, <2>1
  <2>3. SecureOpen = [capture EXCEPT !.log = capture.used + 1, !.used = capture.used + 1]
    BY <1>3 DEF SecureOpen
  <2>4. SecureOpen \in CaptureType BY <1>t, <2>2, <2>3 DEF CaptureType
  <2>5. /\ SecureOpen.data = capture.data /\ SecureOpen.log = capture.used + 1
        /\ SecureOpen.used = capture.used + 1
    BY <1>t, <2>3 DEF CaptureType
  <2> HIDE DEF SecureOpen
  <2>6. QED BY <1>1, <1>3, <2>1, <2>4, <2>5 DEF NoFile
<1>4. QED BY <1>2, <1>3

\* The sink's open and reopen.
LEMMA SinkOpensInv == ASSUME ConsoleInv, SinkOpen \/ SinkReopens PROVE ConsoleInv'
<1>o. PICK o : o = SecureOpen OBVIOUS
<1>s. sink.pc \in {"closed", "reopen"} BY DEF SinkOpen, SinkReopens
<1>1. /\ o \in CaptureType
      /\ o.data = capture.data /\ o.log = o.used /\ o.log # NoFile
      /\ o.used >= capture.used /\ o.used <= sink.chunk + 1
      /\ capture.log # NoFile => o.log = capture.log
      /\ capture.log = NoFile => o.log = capture.used + 1
  BY <1>o, <1>s, OpenedFile
<1>c. capture' = o BY <1>o DEF SinkOpen, SinkReopens
<1>f. ConsoleTypeOK /\ CaptureInOrder /\ SinkInOrder /\ FollowerInOrder /\ FollowerDrains
  BY DEF ConsoleInv
<1>t. Fields /\ sink \in SinkType BY <1>f, ConsoleFields, ConsoleTypes
<1>l. o.log \in Files BY <1>1, ConsoleAssumption DEF CaptureType, Files, NoFile
<1>2. PICK pc \in {"idle", "write"}, n \in Nat :
         /\ sink' = [sink EXCEPT !.pc = pc, !.file = o.log, !.written = n]
         /\ pc = "write" => sink.pc = "reopen"
  <2>1. CASE SinkOpen
    <3>1. Len(capture.data[o.log]) \in Nat BY <1>l, <1>t DEF Fields
    <3>2. QED BY <1>o, <2>1, <3>1 DEF SinkOpen
  <2>2. CASE SinkReopens BY <1>o, <2>2 DEF SinkReopens
  <2>3. QED BY <2>1, <2>2
<1>3. UNCHANGED <<vm, follower, attach>> BY DEF SinkOpen, SinkReopens
<1>4. /\ sink'.pc = pc /\ sink'.file = o.log /\ sink'.chunk = sink.chunk
      /\ sink'.pending = sink.pending
  BY <1>2, <1>t DEF SinkType
<1>5. ConsoleTypeOK'
  <2>1. o.log \in 0..MaxFiles BY <1>1 DEF CaptureType
  <2>2. sink' \in SinkType BY <1>2, <1>t, <2>1 DEF SinkType
  <2>3. QED BY <1>1, <1>3, <1>c, <1>f, <2>2, ConsoleTypes, ConsoleTypesNext
<1>d. capture'.data = capture.data /\ capture'.log = o.log /\ capture'.used = o.used
  BY <1>1, <1>c
<1>e. \A f : Cells(f)' = Cells(f) BY <1>d DEF Cells
<1>n. o.used \in Nat /\ capture.used \in Nat /\ \A f \in Files : f \in Nat
  BY <1>1, <1>t, <1>l DEF Fields, Files
<1> HIDE DEF Fields
<1>6. CaptureInOrder'
  <2>1. \A f \in Files : f > o.used => f > capture.used BY <1>1, <1>n
  <2>2. QED BY <1>1, <1>d, <1>e, <1>f, <2>1 DEF CaptureInOrder
<1>7. SinkInOrder'
  <2>1. sink'.pc \notin {"closed", "shift", "rename", "reopen", "done"} BY <1>4
  <2>2. sink'.pc = "write" => sink.pc = "reopen" BY <1>2, <1>4
  <2>3. vm # "down" BY <1>f, <1>s DEF SinkInOrder
  <2>4. QED BY <1>1, <1>3, <1>4, <1>d, <1>e, <1>f, <2>1, <2>2, <2>3 DEF SinkInOrder
<1>8. FollowerInOrder'
  <2>1. ASSUME NEW f \in Files, NEW i \in Cells(f), Unread(f, i)'
        PROVE  Unread(f, i)
    <3>1. CASE capture.log = NoFile
      <4>1. f # o.log
        BY <1>1, <1>n, <1>f, <2>1, <3>1 DEF CaptureInOrder, Cells, NoFile
      <4>2. QED BY <1>3, <1>d, <2>1, <4>1 DEF Unread
    <3>2. CASE capture.log # NoFile BY <1>1, <1>3, <1>d, <2>1, <3>2 DEF Unread
    <3>3. QED BY <3>1, <3>2
  <2>2. \A c : Ahead(c)' <=> Ahead(c) BY <1>3 DEF Ahead
  <2>4. follower.pc # "none" BY <1>f, <1>s DEF FollowerInOrder, SinkOpen, SinkReopens
  <2>5. follower.file <= o.used BY <1>1, <1>n, <1>t, <1>f DEF FollowerInOrder, Fields
  <2>6. ForwardedInOrder' BY <1>3, <1>f DEF FollowerInOrder, ForwardedInOrder
  <2>7. sink'.pc \in {"shift", "rename", "reopen", "write"} => sink.pc = "reopen" BY <1>2, <1>4
  <2>8. QED
    BY <1>3, <1>4, <1>d, <1>e, <1>f, <2>1, <2>2, <2>4, <2>5, <2>6, <2>7 DEF FollowerInOrder
<1>9. FollowerDrains'
  <2>1. \A f : DueIsPassed(f)' <=> DueIsPassed(f) BY <1>3, <1>d, <1>e DEF DueIsPassed, Passed
  <2>2. capture.log = NoFile => DueIsPassed(o.log)
    <3> SUFFICES ASSUME capture.log = NoFile PROVE Cells(o.log) = {}
      BY DEF DueIsPassed
    <3>1. capture.data[o.log] = <<>> BY <1>1, <1>f, <1>l, <1>n DEF CaptureInOrder
    <3>2. QED BY <3>1 DEF Cells
  <2>3. QED BY <1>1, <1>3, <1>d, <1>f, <2>1, <2>2 DEF FollowerDrains, Passed
<1>10. QED BY <1>5, <1>6, <1>7, <1>8, <1>9 DEF ConsoleInv

\* Steps that write no file, open none, and leave the follower alone: the
\* capture's names may go away and the sink may move on.
LEMMA QuietSinkInv ==
    ASSUME ConsoleInv, ConsoleTypeOK', SinkInOrder', UNCHANGED follower,
           capture'.data = capture.data, capture'.used = capture.used,
           capture'.log \in {capture.log, NoFile},
           follower.pc = "none" => sink'.pc = "closed",
           sink'.pending # 0 => Ahead(sink'.pending),
           sink'.pc \in {"shift", "rename", "reopen", "write"} => Ahead(sink'.chunk),
           sink'.chunk >= sink.chunk
    PROVE  ConsoleInv'
<1>f. ConsoleTypeOK /\ CaptureInOrder /\ SinkInOrder /\ FollowerInOrder /\ FollowerDrains
  BY DEF ConsoleInv
<1>t. Fields BY <1>f, ConsoleFields
<1>1. CaptureInOrder' BY <1>f DEF CaptureInOrder, Cells
<1>2. \A c : Ahead(c)' <=> Ahead(c) BY DEF Ahead
<1>3. \A f \in Files : Cells(f)' = Cells(f) /\ \A i \in Cells(f) : Unread(f, i)' => Unread(f, i)
  BY <1>t DEF Unread, Cells, Files, NoFile, Fields
<1>4. \A k \in 1 .. Len(follower.out) : follower.out[k] <= sink'.chunk
  <2>1. sink'.chunk \in Nat BY DEF ConsoleTypeOK
  <2>2. sink.chunk \in Nat /\ \A k \in 1 .. Len(follower.out) : follower.out[k] \in Nat
    BY <1>t DEF Fields
  <2>3. \A k \in 1 .. Len(follower.out) : follower.out[k] <= sink.chunk
    BY <1>f DEF FollowerInOrder
  <2>4. QED BY <2>1, <2>2, <2>3
<1>5. FollowerInOrder' BY <1>f, <1>2, <1>3, <1>4 DEF FollowerInOrder, ForwardedInOrder
<1>6. FollowerDrains' BY <1>f DEF FollowerDrains, DueIsPassed, Passed, NoFile, Cells
<1>7. QED BY <1>1, <1>5, <1>6 DEF ConsoleInv

\* Steps of the sink that neither open nor write a file, and the VM's end.
LEMMA SinkMovesInv ==
    ASSUME ConsoleInv,
           \/ SinkReads \/ SinkShifts \/ SinkRenames \/ SinkWrites \/ SinkEnds \/ SinkFails
           \/ UnitStops \/ VmmDies \/ Sweep \/ SupervisorKilled
    PROVE  ConsoleInv'
<1>f. ConsoleTypeOK /\ CaptureInOrder /\ SinkInOrder /\ FollowerInOrder /\ FollowerDrains
  BY DEF ConsoleInv
<1>t. capture \in CaptureType /\ sink \in SinkType /\ follower \in FollowerType /\ attach \in AttachType
      /\ vm \in {"launching", "up", "stopping", "dead", "ending", "down"}
  BY <1>f, ConsoleTypes
<1>n. Fields BY <1>f, ConsoleFields
<1>z. 0 \in 0..MaxFiles /\ 0 \in 0..MaxChunks BY <1>n DEF Fields
<1>1. CASE SinkReads
  <2>1. PICK pc \in {"shift", "write"} : sink' = [sink EXCEPT !.chunk = @ + 1, !.pc = pc]
    BY <1>1 DEF SinkReads
  <2>0. sink.chunk + 1 \in 0..MaxChunks
    <3>1. sink.chunk < MaxChunks /\ sink.chunk \in Nat /\ MaxChunks \in Nat
      BY <1>1, <1>n DEF SinkReads, Fields
    <3>2. QED BY <3>1
  <2>2. sink' \in SinkType BY <1>t, <2>0, <2>1 DEF SinkType
  <2>3. ConsoleTypeOK' BY <1>1, <1>t, <2>2, ConsoleTypesNext DEF SinkReads
  <2>4. /\ sink'.pc = pc /\ sink'.chunk = sink.chunk + 1 /\ sink'.pending = sink.pending
        /\ sink'.file = sink.file
    BY <1>t, <2>1 DEF SinkType
  <2>5. \A f \in Files : \A i \in Cells(f) : capture.data[f][i] < sink.chunk + 1
    BY <1>n, <1>f DEF Fields, SinkInOrder
  <2>6. SinkInOrder'
    <3>1. /\ sink.pending < sink.chunk + 1 /\ capture.used <= sink.chunk + 1
          /\ capture.used <= sink.chunk + 1 + 1 /\ sink.pending <= sink.chunk + 1
          /\ \A f \in Files : \A i \in Cells(f) : capture.data[f][i] <= sink.chunk + 1
      <4>1. /\ sink.chunk \in Nat /\ sink.pending \in Nat /\ capture.used \in Nat
            /\ sink.pending <= sink.chunk /\ capture.used <= sink.chunk + 1
        BY <1>f, <1>n DEF SinkInOrder, Fields
      <4>2. \A f \in Files : \A i \in Cells(f) : capture.data[f][i] <= sink.chunk
                                               /\ capture.data[f][i] \in Nat
        BY <1>f, <1>n DEF SinkInOrder, Fields
      <4>3. QED BY <4>1, <4>2
    <3>5. \A c \in follower.due : c < sink.chunk + 1 /\ c <= sink.chunk + 1
      BY <1>f, <1>n DEF SinkInOrder, Fields
    <3>2. capture' = capture /\ vm' = vm /\ follower' = follower /\ sink.pc = "idle" BY <1>1 DEF SinkReads
    <3>3. \A f : Cells(f)' = Cells(f) BY <3>2 DEF Cells
    <3>4. QED BY <1>f, <2>4, <2>5, <3>1, <3>2, <3>3, <3>5 DEF SinkInOrder
  <2>7. Ahead(sink.chunk + 1) BY <1>n, <1>f DEF Fields, FollowerInOrder, Ahead
  <2>8. QED
    BY <1>1, <1>f, <1>n, <2>3, <2>4, <2>6, <2>7, QuietSinkInv
       DEF SinkReads, ConsoleInv, FollowerInOrder, Fields
<1>2. CASE SinkShifts
  <2>1. /\ capture' \in CaptureType /\ capture'.log = capture.log /\ capture'.used = capture.used
        /\ capture'.data = capture.data
    BY <1>2, <1>t, <1>z DEF SinkShifts, CaptureType, NoFile
  <2>2. /\ sink' \in SinkType /\ sink'.pc = "rename" /\ sink'.chunk = sink.chunk
        /\ sink'.pending = sink.pending /\ sink'.file = sink.file /\ sink.pc = "shift"
    BY <1>2, <1>t DEF SinkShifts, SinkType
  <2>3. UNCHANGED <<vm, follower, attach>> BY <1>2 DEF SinkShifts
  <2>4. ConsoleTypeOK' BY <1>t, <2>1, <2>2, <2>3, ConsoleTypesNext
  <2>5. \A f : Cells(f)' = Cells(f) BY <2>1 DEF Cells
  <2>6. SinkInOrder' BY <1>f, <2>1, <2>2, <2>3, <2>5 DEF SinkInOrder
  <2>7. QED
    BY <1>f, <1>n, <2>1, <2>2, <2>3, <2>4, <2>6, QuietSinkInv DEF ConsoleInv, FollowerInOrder, Fields
<1>3. CASE SinkRenames
  <2>1. /\ capture' \in CaptureType /\ capture'.log = NoFile /\ capture'.used = capture.used
        /\ capture'.data = capture.data
    BY <1>3, <1>t, <1>z DEF SinkRenames, CaptureType, NoFile
  <2>2. /\ sink' \in SinkType /\ sink'.pc = "reopen" /\ sink'.chunk = sink.chunk
        /\ sink'.pending = sink.pending /\ sink'.file = sink.file /\ sink.pc = "rename"
    BY <1>3, <1>t DEF SinkRenames, SinkType
  <2>3. UNCHANGED <<vm, follower, attach>> BY <1>3 DEF SinkRenames
  <2>4. ConsoleTypeOK' BY <1>t, <2>1, <2>2, <2>3, ConsoleTypesNext
  <2>5. \A f : Cells(f)' = Cells(f) BY <2>1 DEF Cells
  <2>6. SinkInOrder' BY <1>f, <2>1, <2>2, <2>3, <2>5 DEF SinkInOrder
  <2>7. QED
    BY <1>f, <1>n, <2>1, <2>2, <2>3, <2>4, <2>6, QuietSinkInv DEF ConsoleInv, FollowerInOrder, Fields
<1>4. CASE SinkWrites
  <2>1. capture' = capture BY <1>4 DEF SinkWrites
  <2>2. /\ sink' \in SinkType /\ sink'.pc = "idle" /\ sink'.chunk = sink.chunk
        /\ sink'.pending = sink.chunk /\ sink'.file = sink.file /\ sink.pc = "write"
    <3>1. sink' = [sink EXCEPT !.pc = "idle", !.pending = sink.chunk, !.written = sink.written + 1]
          /\ sink.pc = "write"
      BY <1>4 DEF SinkWrites
    <3>2. sink.written + 1 \in Nat /\ sink.chunk \in 0..MaxChunks BY <1>n, <1>t DEF Fields, SinkType
    <3>3. QED BY <1>t, <3>1, <3>2 DEF SinkType
  <2>3. UNCHANGED <<vm, follower, attach>> BY <1>4 DEF SinkWrites
  <2>4. ConsoleTypeOK' BY <1>t, <2>1, <2>2, <2>3, ConsoleTypesNext
  <2>5. \A f : Cells(f)' = Cells(f) BY <2>1 DEF Cells
  <2>6. SinkInOrder' BY <1>f, <1>n, <2>1, <2>2, <2>3, <2>5 DEF SinkInOrder, Fields
  <2>7. QED
    BY <1>f, <1>n, <2>1, <2>2, <2>3, <2>4, <2>6, QuietSinkInv DEF ConsoleInv, FollowerInOrder, Fields
<1>5. CASE SinkEnds \/ SinkFails
  <2>1. capture' = capture BY <1>5 DEF SinkEnds, SinkFails
  <2>2. /\ sink' \in SinkType /\ sink'.pc = "done" /\ sink'.chunk = sink.chunk
        /\ sink'.pending = 0 /\ sink'.file = sink.file /\ sink.pc # "closed"
    BY <1>5, <1>t DEF SinkEnds, SinkFails, SinkType
  <2>3. UNCHANGED <<vm, follower, attach>> BY <1>5 DEF SinkEnds, SinkFails
  <2>4. ConsoleTypeOK' BY <1>t, <2>1, <2>2, <2>3, ConsoleTypesNext
  <2>5. \A f : Cells(f)' = Cells(f) BY <2>1 DEF Cells
  <2>6. SinkInOrder' BY <1>f, <1>n, <2>1, <2>2, <2>3, <2>5 DEF SinkInOrder, Fields
  <2>7. QED
    BY <1>f, <1>n, <2>1, <2>2, <2>3, <2>4, <2>6, QuietSinkInv DEF ConsoleInv, FollowerInOrder, Fields
<1>6. CASE UnitStops \/ VmmDies
  <2>1. capture' = capture /\ sink' = sink /\ UNCHANGED <<follower, attach>>
        /\ vm' \in {"stopping", "dead", "ending"}
    BY <1>6 DEF UnitStops, VmmDies
  <2>2. ConsoleTypeOK' BY <1>t, <2>1, ConsoleTypesNext
  <2>3. SinkInOrder' BY <1>f, <2>1 DEF SinkInOrder, Cells
  <2>4. QED
    BY <1>f, <1>n, <2>1, <2>2, <2>3, QuietSinkInv DEF ConsoleInv, FollowerInOrder, Fields
<1>7. CASE Sweep
  <2>1. /\ capture' \in CaptureType /\ capture'.log = NoFile /\ capture'.used = capture.used
        /\ capture'.data = capture.data
    BY <1>7, <1>t, <1>z DEF Sweep, CaptureType, NoFile
  <2>2. /\ UNCHANGED <<sink, follower, attach>> /\ vm' = "down"
        /\ sink.pc = "done"
    BY <1>7 DEF Sweep
  <2>4. ConsoleTypeOK' BY <1>t, <2>1, <2>2, ConsoleTypesNext
  <2>5. \A f : Cells(f)' = Cells(f) BY <2>1 DEF Cells
  <2>6. SinkInOrder' BY <1>f, <2>1, <2>2, <2>5 DEF SinkInOrder
  <2>7. QED
    BY <1>f, <1>n, <2>1, <2>2, <2>4, <2>6, QuietSinkInv DEF ConsoleInv, FollowerInOrder, Fields
<1>8. CASE SupervisorKilled
  <2>1. capture' = capture /\ UNCHANGED <<follower, attach>> /\ vm' = "down"
        /\ vm # "down" /\ sink.pc # "closed"
    BY <1>8 DEF SupervisorKilled
  <2>2. /\ sink' \in SinkType /\ sink'.pc = "done" /\ sink'.chunk = sink.chunk
        /\ sink'.pending = 0 /\ sink'.file = sink.file
    BY <1>8, <1>t, <1>z DEF SupervisorKilled, SinkType
  <2>4. ConsoleTypeOK' BY <1>t, <2>1, <2>2, ConsoleTypesNext
  <2>5. \A f : Cells(f)' = Cells(f) BY <2>1 DEF Cells
  <2>6. SinkInOrder' BY <1>f, <1>n, <2>1, <2>2, <2>5 DEF SinkInOrder, Fields
  <2>7. QED
    BY <1>f, <1>n, <2>1, <2>2, <2>4, <2>6, QuietSinkInv DEF ConsoleInv, FollowerInOrder, Fields
<1>9. QED BY <1>1, <1>2, <1>3, <1>4, <1>5, <1>6, <1>7, <1>8

\* The blocking pool's write: one more chunk at the end of the newest file.
LEMMA WriteLandsInv == ASSUME ConsoleInv, WriteLands PROVE ConsoleInv'
<1> DEFINE F == sink.file
           n == Len(capture.data[F])
<1>f. ConsoleTypeOK /\ CaptureInOrder /\ SinkInOrder /\ FollowerInOrder /\ FollowerDrains
  BY DEF ConsoleInv
<1>t. capture \in CaptureType /\ sink \in SinkType /\ follower \in FollowerType /\ attach \in AttachType
      /\ vm \in {"launching", "up", "stopping", "dead", "ending", "down"}
  BY <1>f, ConsoleTypes
<1>n. Fields BY <1>f, ConsoleFields
<1>1. sink.pending # 0 /\ UNCHANGED <<vm, follower, attach>> BY DEF WriteLands
<1>2. sink.pc # "closed" /\ sink.pc # "done" /\ vm # "down" /\ F = capture.used /\ F # NoFile
  BY <1>1, <1>f DEF SinkInOrder
<1>3. F \in Files BY <1>2, <1>t, ConsoleAssumption DEF SinkType, Files, NoFile
<1>4. /\ sink' \in SinkType /\ sink'.pc = sink.pc /\ sink'.chunk = sink.chunk
      /\ sink'.pending = 0 /\ sink'.file = sink.file
  <2>1. sink' = [sink EXCEPT !.pending = 0] BY DEF WriteLands
  <2>2. 0 \in 0..MaxChunks BY ConsoleAssumption
  <2>3. QED BY <1>t, <2>1, <2>2 DEF SinkType
<1>5. /\ capture'.log = capture.log /\ capture'.used = capture.used
      /\ capture'.data = [capture.data EXCEPT ![F] = Append(capture.data[F], sink.pending)]
      /\ capture' = [capture EXCEPT !.data = capture'.data]
  BY <1>t, <1>3 DEF WriteLands, CaptureType
<1>6. /\ Append(capture.data[F], sink.pending) \in Seq(0..MaxChunks)
      /\ n \in Nat
      /\ Len(Append(capture.data[F], sink.pending)) = n + 1
      /\ \A i \in 1 .. n : Append(capture.data[F], sink.pending)[i] = capture.data[F][i]
      /\ Append(capture.data[F], sink.pending)[n + 1] = sink.pending
  <2>1. capture.data[F] \in Seq(0..MaxChunks) /\ sink.pending \in 0..MaxChunks
    BY <1>3, <1>t DEF CaptureType, SinkType
  <2>2. QED BY <2>1, AppendProperties, LenProperties
<1>7. ConsoleTypeOK'
  <2>1. capture'.data \in [Files -> Seq(0..MaxChunks)] BY <1>5, <1>6, <1>n DEF Fields
  <2>2. capture' \in CaptureType BY <1>5, <1>t, <2>1 DEF CaptureType
  <2>3. QED BY <1>1, <1>4, <1>t, <2>2, ConsoleTypesNext
<1>8. /\ \A f \in Files : f # F => capture'.data[f] = capture.data[f] /\ Cells(f)' = Cells(f)
      /\ Len(capture'.data[F]) = n + 1
      /\ \A i \in 1 .. n : capture'.data[F][i] = capture.data[F][i]
      /\ capture'.data[F][n + 1] = sink.pending
  <2>1. capture'.data[F] = Append(capture.data[F], sink.pending) BY <1>3, <1>5, <1>n DEF Fields
  <2>2. \A f \in Files : f # F => capture'.data[f] = capture.data[f] BY <1>5, <1>n DEF Fields
  <2>3. QED BY <1>6, <2>1, <2>2 DEF Cells
\* A place of the next state is one of this state, or the new one.
<1>9. \A f \in Files : \A i \in Cells(f)' :
         \/ i \in Cells(f) /\ capture'.data[f][i] = capture.data[f][i]
         \/ f = F /\ i = n + 1 /\ capture'.data[f][i] = sink.pending
  <2> SUFFICES ASSUME NEW f \in Files, NEW i \in Cells(f)'
               PROVE  \/ i \in Cells(f) /\ capture'.data[f][i] = capture.data[f][i]
                      \/ f = F /\ i = n + 1 /\ capture'.data[f][i] = sink.pending
    OBVIOUS
  <2>1. CASE f # F BY <1>8, <2>1
  <2>2. CASE f = F
    <3>1. i \in 1 .. (n + 1) BY <1>8, <2>2 DEF Cells
    <3>2. i \in 1 .. n \/ i = n + 1 BY <1>6, <3>1
    <3>3. Cells(F) = 1 .. n BY DEF Cells
    <3>4. QED BY <1>8, <2>2, <3>2, <3>3
  <2>3. QED BY <2>1, <2>2
<1>l. \A f \in Files : \A i \in Cells(f) : capture.data[f][i] < sink.pending
  BY <1>1, <1>f DEF SinkInOrder
<1>i. \A f \in Files : \A i \in Cells(f) : i \in Nat BY <1>n DEF Fields, Cells
<1>c. \A i \in Cells(F) : i < n + 1 BY <1>6 DEF Cells
<1>e. \A g \in Files : F < g => Cells(g) = {}
  <2> SUFFICES ASSUME NEW g \in Files, F < g PROVE Cells(g) = {}
    OBVIOUS
  <2>1. g > capture.used BY <1>2, <1>3, <1>n DEF Fields
  <2>2. capture.data[g] = <<>> BY <1>f, <2>1 DEF CaptureInOrder
  <2>3. QED BY <2>2 DEF Cells
<1> HIDE DEF F, n
<1>10. CaptureInOrder'
  <2>1. ASSUME NEW f \in Files, f > capture.used PROVE capture'.data[f] = <<>>
    <3>1. f # F BY <1>2, <1>n, <2>1 DEF Fields
    <3>2. QED BY <1>8, <1>f, <2>1, <3>1 DEF CaptureInOrder
  <2>2. ASSUME NEW f \in Files, NEW g \in Files, NEW i \in Cells(f)', NEW j \in Cells(g)',
               f < g \/ (f = g /\ i < j)
        PROVE  capture'.data[f][i] < capture'.data[g][j]
    <3>1. CASE i \in Cells(f) /\ capture'.data[f][i] = capture.data[f][i]
               /\ j \in Cells(g) /\ capture'.data[g][j] = capture.data[g][j]
      BY <1>f, <2>2, <3>1 DEF CaptureInOrder
    <3>2. CASE i \in Cells(f) /\ capture'.data[f][i] = capture.data[f][i]
               /\ g = F /\ j = n + 1 /\ capture'.data[g][j] = sink.pending
      BY <1>l, <3>2
    <3>3. CASE f = F /\ i = n + 1 /\ j \in Cells(g)
      <4>1. g # F BY <1>3, <1>6, <1>c, <1>i, <1>n, <2>2, <3>3 DEF Fields
      <4>2. F < g BY <2>2, <3>3, <4>1
      <4>3. QED BY <1>e, <3>3, <4>2
    <3>4. CASE f = F /\ i = n + 1 /\ g = F /\ j = n + 1
      BY <1>3, <1>6, <1>n, <2>2, <3>4 DEF Fields
    <3>5. QED BY <1>9, <3>1, <3>2, <3>3, <3>4
  <2>3. QED BY <1>5, <1>f, <2>1, <2>2 DEF CaptureInOrder
<1>11. SinkInOrder'
  <2>1. sink.pending <= sink.chunk /\ (sink.pc \in {"shift", "rename", "reopen", "write"} => sink.pending < sink.chunk)
    BY <1>f DEF SinkInOrder
  <2>2. \A f \in Files : \A i \in Cells(f)' :
          /\ capture'.data[f][i] <= sink.chunk
          /\ sink.pc \in {"shift", "rename", "reopen", "write"} => capture'.data[f][i] < sink.chunk
    BY <1>9, <1>f, <2>1 DEF SinkInOrder
  <2>3. 0 <= sink.chunk /\ (sink.pc \in {"shift", "rename", "reopen", "write"} => 0 < sink.chunk)
    BY <1>n, <2>1 DEF Fields
  <2>4. QED BY <1>1, <1>2, <1>4, <1>5, <1>f, <2>2, <2>3 DEF SinkInOrder, F
<1>12. FollowerInOrder'
  <2>1. \A c : Ahead(c)' <=> Ahead(c) BY <1>1 DEF Ahead
  <2>2. \A f, i : Unread(f, i)' <=> Unread(f, i) BY <1>1, <1>5 DEF Unread
  <2>3. Ahead(sink.pending) BY <1>1, <1>f DEF FollowerInOrder
  <2>4. follower.pc # "none" => \A f \in Files : \A i \in Cells(f)' :
                                  Unread(f, i)' => Ahead(capture.data[f][i])'
    BY <1>9, <1>f, <2>1, <2>2, <2>3 DEF FollowerInOrder
  <2>5. follower.file # NoFile => follower.pos <= Len(capture'.data[follower.file])
    <3> SUFFICES ASSUME follower.file # NoFile PROVE follower.pos <= Len(capture'.data[follower.file])
      OBVIOUS
    <3>1. follower.file \in Files BY <1>t, ConsoleAssumption DEF FollowerType, Files, NoFile
    <3>2. follower.pos <= Len(capture.data[follower.file]) BY <1>f DEF FollowerInOrder
    <3>3. CASE follower.file # F BY <1>8, <3>1, <3>2, <3>3
    <3>4. CASE follower.file = F
      BY <1>6, <1>8, <1>n, <3>2, <3>4 DEF Fields, n
    <3>5. QED BY <3>3, <3>4
  <2>6. ForwardedInOrder' BY <1>1, <1>f DEF FollowerInOrder, ForwardedInOrder
  <2>7. QED BY <1>1, <1>2, <1>4, <1>5, <1>f, <2>1, <2>4, <2>5, <2>6 DEF FollowerInOrder
<1>13. FollowerDrains'
  <2>1. \A f \in Files : DueIsPassed(f) => DueIsPassed(f)'
    <3>1. sink.pending \notin follower.due BY <1>1, <1>f, <1>n DEF SinkInOrder, Fields
    <3>2. QED BY <1>1, <1>9, <3>1 DEF DueIsPassed, Passed
  <2>5. \A f \in 0..MaxFiles : f # NoFile => f \in Files BY ConsoleAssumption DEF Files, NoFile
  <2>6. capture.log \in 0..MaxFiles /\ follower.file \in 0..MaxFiles
    BY <1>t DEF CaptureType, FollowerType
  <2>7. follower.pc = "check" => follower.file # NoFile BY <1>f DEF FollowerInOrder
  <2>2. ASSUME follower.file # NoFile, NEW i \in 1 .. follower.pos
        PROVE  capture'.data[follower.file][i] = capture.data[follower.file][i]
    <3>1. follower.file \in Files BY <1>t, <2>2, ConsoleAssumption DEF FollowerType, Files, NoFile
    <3>2. follower.pos <= Len(capture.data[follower.file]) BY <1>f, <2>2 DEF FollowerInOrder
    <3>3. follower.file = F => i \in 1 .. n BY <1>6, <1>n, <3>2 DEF Fields, n
    <3>4. QED BY <1>8, <3>1, <3>3
  <2>3. \A c : Passed(c)' <=> Passed(c) BY <1>1 DEF Passed
  <2>4. QED BY <1>1, <1>5, <1>f, <2>1, <2>2, <2>3, <2>5, <2>6, <2>7 DEF FollowerDrains
<1>14. QED BY <1>7, <1>10, <1>11, <1>12, <1>13 DEF ConsoleInv

\* Chunks that are due already, or lie in a file
Landed(due) ==
    \A c \in due : c \in follower.due \/ \E f \in Files : \E i \in Cells(f) : c = capture.data[f][i]

\* Steps of the follower: the capture, the sink and the VM stay.
LEMMA FollowerStepInv ==
    ASSUME ConsoleInv, follower' \in FollowerType, UNCHANGED <<capture, sink, vm, attach>>,
           FollowerInOrder', FollowerDrains', Landed(follower'.due)
    PROVE  ConsoleInv'
<1>1. ConsoleTypeOK' BY ConsoleTypes, ConsoleTypesNext DEF ConsoleInv
<1>c. \A f : Cells(f)' = Cells(f) BY DEF Cells
<1>2. CaptureInOrder' /\ SinkInOrder'
  BY <1>c DEF ConsoleInv, CaptureInOrder, SinkInOrder, Landed
<1>3. QED BY <1>1, <1>2 DEF ConsoleInv

\* The follower forwards its file to the end: one of the ways of PollReads.
Forwards ==
    LET data == capture.data[follower.file] IN
    /\ follower.pc = "read" /\ follower.pos < Len(data)
    /\ follower' = [follower EXCEPT !.out = @ \o SubSeq(data, follower.pos + 1, Len(data)),
                                    !.pos = Len(data), !.forwarded = TRUE]
    /\ UNCHANGED <<capture, sink, vm, attach>>

\* It keeps the order of the terminal.
LEMMA ForwardInv == ASSUME ConsoleInv, Forwards PROVE ConsoleInv'
<1>v. PICK F : F = follower.file OBVIOUS
<1>w. PICK data : data = capture.data[F] OBVIOUS
<1>x. PICK n, p : n = Len(data) /\ p = follower.pos OBVIOUS
<1>y. PICK out : out = follower.out OBVIOUS
<1>z. PICK m, res : m = Len(out) /\ res = out \o SubSeq(data, p + 1, n) OBVIOUS
<1>0. /\ F = follower.file /\ data = capture.data[F] /\ n = Len(data) /\ p = follower.pos /\ p < n
      /\ out = follower.out /\ m = Len(out) /\ res = out \o SubSeq(data, p + 1, n)
      /\ follower' = [follower EXCEPT !.out = res, !.pos = n, !.forwarded = TRUE]
      /\ follower.pc = "read"
  <2>1. /\ follower.pc = "read" /\ follower.pos < Len(capture.data[follower.file])
        /\ follower' = [follower EXCEPT
              !.out = follower.out \o SubSeq(capture.data[follower.file], follower.pos + 1,
                                             Len(capture.data[follower.file])),
              !.pos = Len(capture.data[follower.file]), !.forwarded = TRUE]
    BY DEF Forwards
  <2>2. p < n BY <1>v, <1>w, <1>x, <2>1, Zenon
  <2>3. res = follower.out \o SubSeq(capture.data[follower.file], follower.pos + 1,
                                     Len(capture.data[follower.file]))
    BY <1>v, <1>w, <1>x, <1>y, <1>z, Zenon
  <2>4. follower' = [follower EXCEPT !.out = res, !.pos = n, !.forwarded = TRUE]
    <3>1. n = Len(capture.data[follower.file]) BY <1>v, <1>w, <1>x, Zenon
    <3>2. QED BY <2>1, <2>3, <3>1
  <2>5. QED BY <1>v, <1>w, <1>x, <1>y, <1>z, <2>1, <2>2, <2>4, Zenon
<1>u. UNCHANGED <<capture, sink, vm, attach>> BY DEF Forwards
<1>f. ConsoleTypeOK /\ CaptureInOrder /\ SinkInOrder /\ FollowerInOrder /\ FollowerDrains
  BY DEF ConsoleInv
<1>n. Fields /\ follower \in FollowerType BY <1>f, ConsoleFields, ConsoleTypes
<1>1. F # NoFile /\ F \in Files
  BY <1>0, <1>f, <1>n, ConsoleAssumption DEF FollowerInOrder, FollowerType, Files, NoFile
<1>2. data \in Seq(0..MaxChunks) /\ p \in Nat /\ out \in Seq(0..MaxChunks)
  BY <1>0, <1>1, <1>n, <1>f DEF Fields, FollowerInOrder
<1>3. /\ res \in Seq(0..MaxChunks) /\ Len(res) = m + (n - p) /\ m \in Nat /\ n \in Nat /\ p < n
      /\ \A k \in 1 .. m : res[k] = out[k]
      /\ \A i \in (p + 1) .. n : res[m + (i - p)] = data[i]
  <2>1. n = Len(data) /\ p < n /\ m = Len(out) /\ res = out \o SubSeq(data, p + 1, n) BY <1>0
  <2>2. PICK more : more = SubSeq(data, p + 1, n) OBVIOUS
  <2>3. n \in Nat /\ m \in Nat BY <1>2, <2>1, LenProperties
  <2>4. \A i \in (p + 1) .. n : data[i] \in 0..MaxChunks
    <3>1. \A i \in (p + 1) .. n : i \in 1 .. Len(data) BY <1>2, <2>1, <2>3
    <3>2. QED BY <1>2, <3>1, ElementOfSeq
  <2>5. /\ more \in Seq(0..MaxChunks) /\ Len(more) = n - p
        /\ \A k \in 1 .. (n - p) : more[k] = data[p + k]
    <3>1. p + 1 \in Int /\ n \in Int BY <1>2, <2>3
    <3>2. /\ more \in Seq(0..MaxChunks)
          /\ Len(more) = IF p + 1 <= n THEN n - (p + 1) + 1 ELSE 0
          /\ \A k \in 1 .. n - (p + 1) + 1 : more[k] = data[p + 1 + k - 1]
      BY <2>2, <2>4, <3>1, SubSeqProperties
    <3>3. p + 1 <= n /\ n - (p + 1) + 1 = n - p BY <1>2, <2>1, <2>3
    <3>4. \A k \in 1 .. (n - p) : p + 1 + k - 1 = p + k BY <1>2, <2>3
    <3>5. QED BY <3>2, <3>3, <3>4
  <2>6. /\ res \in Seq(0..MaxChunks) /\ Len(res) = m + Len(more)
        /\ \A i \in 1 .. m + Len(more) : res[i] = IF i <= m THEN out[i] ELSE more[i - m]
    <3>1. more \in Seq(0..MaxChunks) BY <2>5
    <3>2. /\ out \o more \in Seq(0..MaxChunks) /\ Len(out \o more) = Len(out) + Len(more)
          /\ \A i \in 1 .. Len(out) + Len(more) :
                (out \o more)[i] = IF i <= Len(out) THEN out[i] ELSE more[i - Len(out)]
      BY <1>2, <3>1, ConcatProperties
    <3>3. res = out \o more /\ m = Len(out) BY <2>1, <2>2
    <3> QED BY <3>2, <3>3, Zenon
  <2>7. \A k \in 1 .. m : res[k] = out[k]
    <3>1. \A k \in 1 .. m : k \in 1 .. m + Len(more) /\ k <= m BY <1>2, <2>1, <2>3, <2>5
    <3>2. QED BY <2>6, <3>1
  <2>8. ASSUME NEW i \in (p + 1) .. n PROVE res[m + (i - p)] = data[i]
    <3>1. i - p \in 1 .. (n - p) /\ p + (i - p) = i BY <1>2, <2>3
    <3>2. more[i - p] = data[i] BY <2>5, <3>1
    <3>3. PICK j : j = m + (i - p) OBVIOUS
    <3>4. j \in 1 .. m + Len(more) /\ ~(j <= m) /\ j - m = i - p
      BY <1>2, <2>3, <2>5, <3>1, <3>3
    <3>5. res[j] = more[j - m] BY <2>6, <3>4
    <3>6. QED BY <3>2, <3>3, <3>4, <3>5
  <2>9. Len(res) = m + (n - p) BY <2>5, <2>6
  <2>10. QED BY <2>1, <2>3, <2>6, <2>7, <2>8, <2>9
<1>4. /\ follower'.out = res /\ follower'.pos = n /\ follower'.pc = "read"
      /\ follower'.file = F /\ follower'.last = follower.last /\ follower'.quiet = follower.quiet
      /\ follower'.due = follower.due
  BY <1>0, <1>n DEF FollowerType
<1>5. follower' \in FollowerType BY <1>0, <1>3, <1>n DEF FollowerType
\* What the terminal has got by then: what it had, and the rest of the file.
<1>6. ASSUME NEW k \in 1 .. Len(res)
      PROVE  \/ k \in 1 .. m /\ res[k] = out[k]
             \/ \E i \in (p + 1) .. n : k = m + (i - p) /\ res[k] = data[i]
  <2>1. CASE k <= m BY <1>3, <2>1
  <2>2. CASE ~(k <= m)
    <3>1. k - m + p \in (p + 1) .. n /\ k = m + ((k - m + p) - p) BY <1>2, <1>3, <2>2
    <3>2. QED BY <1>3, <3>1
  <2>3. QED BY <2>1, <2>2
<1>c. Cells(F) = 1 .. n BY <1>0 DEF Cells
<1>i. \A i \in (p + 1) .. n : i \in Cells(F) /\ i > p /\ i \in Nat BY <1>2, <1>3, <1>c
<1>7. \A i \in (p + 1) .. n : Ahead(data[i])
  <2>1. \A i \in (p + 1) .. n : Unread(F, i) BY <1>0, <1>1, <1>i DEF Unread
  <2>2. QED BY <1>0, <1>1, <1>f, <1>i, <2>1 DEF FollowerInOrder
<1>d. \A i \in (p + 1) .. n : data[i] \in Nat BY <1>0, <1>1, <1>i, <1>n DEF Fields
<1>o. m = Len(follower.out) /\ \A k \in 1 .. m : out[k] \in Nat BY <1>0, <1>n DEF Fields
<1>8. \A c : Ahead(c)' <=> Ahead(c) /\ \A i \in (p + 1) .. n : data[i] < c
  <2> SUFFICES ASSUME NEW c
               PROVE  Ahead(c)' <=> Ahead(c) /\ \A i \in (p + 1) .. n : data[i] < c
    OBVIOUS
  <2>1. Ahead(c)' <=> c > 0 /\ \A k \in 1 .. Len(res) : res[k] < c BY <1>4 DEF Ahead
  <2>2. Ahead(c) <=> c > 0 /\ \A k \in 1 .. m : out[k] < c BY <1>0, <1>o DEF Ahead
  <2>3. ASSUME \A k \in 1 .. Len(res) : res[k] < c
        PROVE  (\A k \in 1 .. m : out[k] < c) /\ \A i \in (p + 1) .. n : data[i] < c
    <3>1. \A k \in 1 .. m : k \in 1 .. Len(res) BY <1>2, <1>3
    <3>2. \A i \in (p + 1) .. n : m + (i - p) \in 1 .. Len(res) BY <1>2, <1>3
    <3>3. QED BY <1>3, <2>3, <3>1, <3>2
  <2>4. ASSUME \A k \in 1 .. m : out[k] < c, \A i \in (p + 1) .. n : data[i] < c
        PROVE  \A k \in 1 .. Len(res) : res[k] < c
    BY <1>6, <2>4
  <2>5. QED BY <2>1, <2>2, <2>3, <2>4
<1>9. ForwardedInOrder'
  <2> SUFFICES ASSUME NEW k \in 1 .. Len(res)
               PROVE  res[k] > (IF k = 1 THEN 0 ELSE res[k - 1])
    BY <1>4 DEF ForwardedInOrder
  <2>1. CASE k \in 1 .. m
    <3>1. res[k] = out[k] /\ (k # 1 => res[k - 1] = out[k - 1]) BY <1>3, <2>1
    <3>2. out[k] > (IF k = 1 THEN 0 ELSE out[k - 1])
      BY <1>0, <1>f, <1>o, <2>1 DEF FollowerInOrder, ForwardedInOrder
    <3>3. QED BY <3>1, <3>2
  <2>2. ASSUME NEW i \in (p + 1) .. n, k = m + (i - p), res[k] = data[i]
        PROVE  res[k] > (IF k = 1 THEN 0 ELSE res[k - 1])
    <3>1. data[i] > 0 /\ \A j \in 1 .. m : out[j] < data[i] BY <1>0, <1>7, <1>o DEF Ahead
    <3>2. CASE k = 1 BY <2>2, <3>1, <3>2
    <3>3. CASE k # 1 /\ i = p + 1
      <4>1. k - 1 = m /\ m \in 1 .. m BY <1>2, <1>3, <2>2, <3>3
      <4>2. res[k - 1] = out[m] BY <1>3, <4>1
      <4>3. out[m] < data[i] /\ out[m] \in Nat /\ data[i] \in Nat BY <1>d, <1>o, <3>1, <4>1
      <4>4. QED BY <2>2, <3>3, <4>2, <4>3
    <3>4. CASE k # 1 /\ i # p + 1
      <4>1. i - 1 \in (p + 1) .. n /\ k - 1 = m + ((i - 1) - p) /\ i - 1 < i BY <1>2, <1>3, <2>2, <3>4
      <4>2. res[k - 1] = data[i - 1] BY <1>3, <4>1
      <4>3. data[i - 1] < data[i] BY <1>0, <1>1, <1>f, <1>i, <4>1 DEF CaptureInOrder
      <4>4. data[i - 1] \in Nat /\ data[i] \in Nat BY <1>d, <4>1
      <4>5. QED BY <2>2, <3>4, <4>2, <4>3, <4>4
    <3>5. QED BY <3>2, <3>3, <3>4
  <2>3. QED BY <1>6, <2>1, <2>2
<1>10. FollowerInOrder'
  <2>1. ASSUME NEW f \in Files, NEW i \in Cells(f), Unread(f, i)' PROVE Ahead(capture.data[f][i])'
    <3>1. f > F \/ (f = F /\ i > n) BY <1>1, <1>4, <2>1 DEF Unread
    <3>2. f > F BY <1>3, <1>c, <2>1, <3>1
    <3>3. Unread(f, i) BY <1>0, <1>1, <3>2 DEF Unread
    <3>4. Ahead(capture.data[f][i]) BY <1>0, <1>f, <2>1, <3>3 DEF FollowerInOrder
    <3>5. F < f BY <1>0, <1>1, <1>n, <3>2 DEF Fields
    <3>6. \A j \in (p + 1) .. n : data[j] < capture.data[f][i]
      BY <1>0, <1>1, <1>f, <1>i, <2>1, <3>5 DEF CaptureInOrder
    <3>7. PICK c : c = capture.data[f][i] OBVIOUS
    <3>8. Ahead(c)' BY <1>8, <3>4, <3>6, <3>7
    <3>9. QED BY <1>u, <3>7, <3>8 DEF Ahead
  <2>2. sink.pending # 0 => Ahead(sink.pending)'
    BY <1>0, <1>1, <1>8, <1>f, <1>i, <1>u DEF FollowerInOrder, SinkInOrder
  <2>3. sink.pc \in {"shift", "rename", "reopen", "write"} => Ahead(sink.chunk)'
    BY <1>0, <1>1, <1>8, <1>f, <1>i, <1>u DEF FollowerInOrder, SinkInOrder
  <2>4. \A k \in 1 .. Len(res) : res[k] <= sink.chunk
    <3>1. \A k \in 1 .. m : out[k] <= sink.chunk BY <1>0, <1>f DEF FollowerInOrder
    <3>2. \A i \in (p + 1) .. n : data[i] <= sink.chunk BY <1>0, <1>1, <1>f, <1>i DEF SinkInOrder
    <3>3. QED BY <1>6, <3>1, <3>2
  <2>5. \A f : Cells(f)' = Cells(f) BY <1>u DEF Cells
  <2>6. n <= n BY <1>3
  <2>7. QED BY <1>0, <1>1, <1>4, <1>9, <1>f, <1>u, <2>1, <2>2, <2>3, <2>4, <2>5, <2>6 DEF FollowerInOrder
<1>11. FollowerDrains'
  <2>1. ASSUME NEW i \in 1 .. n PROVE Passed(data[i])'
    <3>1. CASE i \in 1 .. p
      <4>1. Passed(data[i]) BY <1>0, <1>1, <1>f, <3>1 DEF FollowerDrains
      <4>2. \A k \in 1 .. m : k \in 1 .. Len(res) /\ res[k] = out[k] BY <1>2, <1>3
      <4>3. data[i] = 0 \/ \E k \in 1 .. m : out[k] = data[i] BY <1>0, <4>1 DEF Passed
      <4>4. QED BY <1>4, <4>2, <4>3 DEF Passed
    <3>2. CASE i \notin 1 .. p
      <4>1. i \in (p + 1) .. n BY <1>2, <1>3, <3>2
      <4>2. m + (i - p) \in 1 .. Len(res) BY <1>2, <1>3, <4>1
      <4>3. res[m + (i - p)] = data[i] BY <1>3, <4>1
      <4>4. QED BY <1>4, <4>2, <4>3 DEF Passed
    <3>3. QED BY <3>1, <3>2
  <2>2. QED BY <1>0, <1>1, <1>4, <1>f, <1>u, <2>1 DEF FollowerDrains
<1>12. QED BY <1>4, <1>5, <1>u, <1>10, <1>11, FollowerStepInv DEF Landed

\* Steps of the follower that leave its place and the terminal as they are.
LEMMA SamePlaceInv ==
    ASSUME ConsoleInv, follower' \in FollowerType, UNCHANGED <<capture, sink, vm, attach>>,
           follower.pc # "none", follower'.pc # "none", follower'.file = follower.file,
           follower'.pos = follower.pos, follower'.out = follower.out,
           follower'.pc \in {"read", "check"} => follower.file # NoFile,
           follower'.pc = "open" => follower.file = NoFile,
           follower'.last # "ended" => follower'.quiet < StablePolls,
           follower'.pc = "ended" => follower'.last = "ended",
           Landed(follower'.due),
           \/ follower'.pc \notin {"check", "polled", "ended"}
           \/ follower'.last # "ended"
           \/ /\ follower'.due = follower.due
              /\ follower'.pc = "check" => DueIsPassed(follower.file)
              /\ follower'.pc # "check" /\ capture.log # NoFile => DueIsPassed(capture.log)
    PROVE  ConsoleInv'
<1>f. FollowerInOrder /\ FollowerDrains BY DEF ConsoleInv
<1>1. FollowerInOrder'
  BY <1>f DEF FollowerInOrder, ForwardedInOrder, Unread, Ahead, Cells
<1>2. FollowerDrains' BY <1>f DEF FollowerDrains, DueIsPassed, Passed, Cells
<1>3. QED BY <1>1, <1>2, FollowerStepInv

\* The follower's steps.
LEMMA FollowerMovesInv ==
    ASSUME ConsoleInv, Resume \/ PollOpens \/ PollReads \/ PollChecks \/ StreamStep
    PROVE  ConsoleInv'
<1>f. ConsoleTypeOK /\ CaptureInOrder /\ SinkInOrder /\ FollowerInOrder /\ FollowerDrains
  BY DEF ConsoleInv
<1>t. capture \in CaptureType /\ follower \in FollowerType BY <1>f, ConsoleTypes
<1>n. Fields BY <1>f, ConsoleFields
<1>u. UNCHANGED <<capture, sink, vm, attach>> BY DEF Resume, PollOpens, PollReads, PollChecks, StreamStep
<1>c. \A f : Cells(f)' = Cells(f) BY <1>u DEF Cells
<1>z. capture.log \in 0..MaxFiles /\ 0 \in 0..MaxFiles /\ 0 \in Nat
  BY <1>t, ConsoleAssumption DEF CaptureType
<1>l. capture.log # NoFile => capture.log \in Files /\ capture.log = capture.used
                             /\ Len(capture.data[capture.log]) \in Nat
  <2>1. capture.log # NoFile => capture.log \in Files BY <1>z, ConsoleAssumption DEF Files, NoFile
  <2>2. QED BY <1>f, <1>n, <2>1 DEF CaptureInOrder, Fields
\* No file is newer than the one of the capture's name.
<1>e. capture.log # NoFile => \A f \in Files : f > capture.log => Cells(f) = {}
  <2> SUFFICES ASSUME capture.log # NoFile, NEW f \in Files, f > capture.log PROVE Cells(f) = {}
    OBVIOUS
  <2>1. capture.data[f] = <<>> BY <1>f, <1>l DEF CaptureInOrder
  <2>2. QED BY <2>1 DEF Cells
<1>1. CASE Resume
  <2>1. follower.out = <<>> /\ sink.pc = "closed" BY <1>1, <1>f DEF Resume, FollowerInOrder
  <2>2. PICK pc \in {"open", "read"}, p \in Nat :
           /\ follower' = [follower EXCEPT !.pc = pc, !.file = capture.log, !.pos = p]
           /\ pc = "open" <=> capture.log = NoFile
           /\ capture.log # NoFile => p = Len(capture.data[capture.log])
    <3>1. CASE capture.log = NoFile
      <4>1. follower' = [follower EXCEPT !.pc = "open", !.file = capture.log, !.pos = 0]
        BY <1>1, <3>1 DEF Resume
      <4>2. QED BY <1>z, <3>1, <4>1
    <3>2. CASE capture.log # NoFile
      <4>1. follower' = [follower EXCEPT !.pc = "read", !.file = capture.log,
                                         !.pos = Len(capture.data[capture.log])]
        BY <1>1, <3>2 DEF Resume
      <4>2. QED BY <1>l, <3>2, <4>1
    <3>3. QED BY <3>1, <3>2
  <2>3. /\ follower' \in FollowerType /\ follower'.pc = pc /\ follower'.file = capture.log
        /\ follower'.pos = p /\ follower'.out = <<>> /\ follower'.last = follower.last
        /\ follower'.quiet = follower.quiet /\ follower'.due = follower.due
    BY <1>t, <1>z, <2>1, <2>2 DEF FollowerType
  <2>4. FollowerInOrder'
    <3>1. \A f \in Files : \A i \in Cells(f) : ~Unread(f, i)'
      <4> SUFFICES ASSUME NEW f \in Files, NEW i \in Cells(f), Unread(f, i)' PROVE FALSE
        OBVIOUS
      <4>1. CASE capture.log = NoFile BY <1>n, <1>u, <2>3, <4>1 DEF Unread, Fields, NoFile
      <4>2. CASE capture.log # NoFile
        <5>1. f > capture.log \/ (f = capture.log /\ i > p) BY <1>u, <2>3, <4>2 DEF Unread
        <5>2. ~(f > capture.log) BY <1>e, <4>2
        <5>3. i \in 1 .. p /\ i > p BY <2>2, <4>2, <5>1, <5>2 DEF Cells
        <5>4. QED BY <5>3
      <4>3. QED BY <4>1, <4>2
    <3>2. Len(<<>>) = 0 OBVIOUS
    <3>3. \A k \in 1 .. Len(follower'.out) : FALSE BY <2>3, <3>2
    <3>4. capture.log <= capture.used BY <1>f, <1>n DEF CaptureInOrder, Fields, NoFile
    <3>5. capture.log # NoFile => p <= Len(capture.data[capture.log]) BY <1>l, <2>2
    <3>6. sink.pending = 0 BY <1>f, <2>1 DEF SinkInOrder
    <3>7. QED BY <1>c, <1>u, <2>1, <2>2, <2>3, <3>1, <3>3, <3>4, <3>5, <3>6
              DEF FollowerInOrder, ForwardedInOrder
  <2>5. FollowerDrains'
    <3>1. \A f \in Files : \A i \in Cells(f) : capture.data[f][i] = 0 BY <1>f, <2>1 DEF SinkInOrder
    <3>2. capture.log # NoFile => \A i \in 1 .. p : Passed(capture.data[capture.log][i])'
      BY <1>l, <1>u, <2>2, <3>1 DEF Cells, Passed
    <3>3. follower.last # "ended" BY <1>1, <1>f DEF FollowerDrains, Resume
    <3>4. QED BY <1>f, <1>u, <2>2, <2>3, <3>2, <3>3 DEF FollowerDrains
  <2>6. QED BY <1>u, <2>3, <2>4, <2>5, FollowerStepInv DEF Landed
<1>2. CASE PollOpens
  <2>0. follower.pc = "open" /\ follower.file = NoFile BY <1>2, <1>f DEF PollOpens, FollowerInOrder
  <2>1. CASE capture.log = NoFile
    <3>1. follower' = [follower EXCEPT !.pc = "polled"] BY <1>2, <2>1 DEF PollOpens
    <3>2. /\ follower' \in FollowerType /\ follower'.pc = "polled" /\ follower'.file = follower.file
          /\ follower'.pos = follower.pos /\ follower'.out = follower.out
          /\ follower'.last = follower.last /\ follower'.quiet = follower.quiet
          /\ follower'.due = follower.due
      BY <1>t, <3>1 DEF FollowerType
    <3>3. QED BY <1>f, <1>u, <2>0, <2>1, <3>2, SamePlaceInv DEF ConsoleInv, FollowerDrains, Landed
  <2>2. CASE capture.log # NoFile
    <3>1. follower' = [follower EXCEPT !.pc = "read", !.file = capture.log, !.pos = 0]
      BY <1>2, <2>2 DEF PollOpens
    <3>2. /\ follower' \in FollowerType /\ follower'.pc = "read" /\ follower'.file = capture.log
          /\ follower'.pos = 0 /\ follower'.out = follower.out
          /\ follower'.last = follower.last /\ follower'.quiet = follower.quiet
          /\ follower'.due = follower.due
      BY <1>t, <1>z, <3>1 DEF FollowerType
    <3>3. \A f \in Files : \A i \in Cells(f) : Unread(f, i)' => Unread(f, i)
      BY <1>e, <1>u, <2>0, <2>2, <3>2 DEF Unread
    <3>4. \A c : (Ahead(c)' <=> Ahead(c)) BY <3>2 DEF Ahead
    <3>5. 0 <= Len(capture.data[capture.log]) /\ capture.log <= capture.used
      BY <1>l, <1>n, <2>2 DEF Fields
    <3>6. FollowerInOrder'
      BY <1>c, <1>f, <1>u, <2>0, <2>2, <3>2, <3>3, <3>4, <3>5 DEF FollowerInOrder, ForwardedInOrder
    <3>7. FollowerDrains' BY <1>f, <1>u, <3>2 DEF FollowerDrains
    <3>8. QED BY <1>u, <3>2, <3>6, <3>7, FollowerStepInv DEF Landed
  <2>3. QED BY <2>1, <2>2
<1>3. CASE PollReads
  <2>0. follower.pc = "read" /\ follower.file # NoFile BY <1>3, <1>f DEF PollReads, FollowerInOrder
  <2>1. CASE Forwards BY <2>1, ForwardInv
  <2>2. ASSUME NEW pc \in {"broken", "check"}, follower' = [follower EXCEPT !.pc = pc],
               pc = "check" => follower.pos = Len(capture.data[follower.file])
        PROVE  ConsoleInv'
    <3>1. /\ follower' \in FollowerType /\ follower'.pc = pc /\ follower'.file = follower.file
          /\ follower'.pos = follower.pos /\ follower'.out = follower.out
          /\ follower'.last = follower.last /\ follower'.quiet = follower.quiet
          /\ follower'.due = follower.due
      BY <1>t, <2>2 DEF FollowerType
    <3>2. pc = "check" => DueIsPassed(follower.file)
      BY <1>f, <2>0, <2>2 DEF FollowerDrains, DueIsPassed, Cells
    <3>3. QED BY <1>f, <1>u, <2>0, <2>2, <3>1, <3>2, SamePlaceInv DEF ConsoleInv, FollowerDrains, Landed
  <2>3. QED BY <1>3, <1>u, <2>0, <2>1, <2>2 DEF PollReads, Forwards
<1>4. CASE PollChecks
  <2>0. follower.pc = "check" /\ follower.file # NoFile BY <1>4, <1>f DEF PollChecks, FollowerInOrder
  <2>1. CASE capture.log = follower.file
    <3>1. follower' = [follower EXCEPT !.pc = "polled"] BY <1>4, <2>1 DEF PollChecks
    <3>2. /\ follower' \in FollowerType /\ follower'.pc = "polled" /\ follower'.file = follower.file
          /\ follower'.pos = follower.pos /\ follower'.out = follower.out
          /\ follower'.last = follower.last /\ follower'.quiet = follower.quiet
          /\ follower'.due = follower.due
      BY <1>t, <3>1 DEF FollowerType
    <3>3. QED BY <1>f, <1>u, <2>0, <2>1, <3>2, SamePlaceInv DEF ConsoleInv, FollowerDrains, Landed
  <2>2. CASE capture.log # follower.file
    <3>1. PICK pc \in {"polled", "open"} :
             follower' = [follower EXCEPT !.pc = pc, !.file = NoFile]
             /\ (pc = "polled" => capture.log = NoFile)
      BY <1>4, <2>0, <2>2 DEF PollChecks
    <3>2. /\ follower' \in FollowerType /\ follower'.pc = pc /\ follower'.file = NoFile
          /\ follower'.pos = follower.pos /\ follower'.out = follower.out
          /\ follower'.last = follower.last /\ follower'.quiet = follower.quiet
          /\ follower'.due = follower.due
      BY <1>t, <1>z, <3>1 DEF FollowerType, NoFile
    <3>3. capture.log # NoFile => capture.log > follower.file
      BY <1>f, <1>l, <1>n, <2>2 DEF FollowerInOrder, Fields
    <3>4. \A f \in Files : \A i \in Cells(f) : Unread(f, i)' => Unread(f, i)
      BY <1>n, <1>u, <2>0, <3>2, <3>3 DEF Unread, Fields, NoFile
    <3>5. \A c : (Ahead(c)' <=> Ahead(c)) BY <3>2 DEF Ahead
    <3>6. NoFile <= capture.used BY <1>n DEF Fields, NoFile
    <3>7. FollowerInOrder'
      BY <1>c, <1>f, <1>u, <2>0, <3>1, <3>2, <3>4, <3>5, <3>6 DEF FollowerInOrder, ForwardedInOrder
    <3>8. FollowerDrains' BY <1>f, <1>u, <3>1, <3>2 DEF FollowerDrains
    <3>9. QED BY <1>u, <3>2, <3>7, <3>8, FollowerStepInv DEF Landed
  <2>3. QED BY <2>1, <2>2
<1>5. CASE StreamStep
  <2>0. follower.pc = "polled" BY <1>5 DEF StreamStep
  <2>1. CASE follower.last # "no"
    <3>1. follower' = [follower EXCEPT !.pc = follower.last] BY <1>5, <2>1 DEF StreamStep
    <3>2. /\ follower' \in FollowerType /\ follower'.pc = follower.last /\ follower'.file = follower.file
          /\ follower'.pos = follower.pos /\ follower'.out = follower.out
          /\ follower'.last = follower.last /\ follower'.quiet = follower.quiet
          /\ follower'.due = follower.due /\ follower.last \in {"ended", "detached"}
      BY <1>t, <2>1, <3>1 DEF FollowerType
    <3>3. QED BY <1>f, <1>u, <2>0, <3>2, SamePlaceInv DEF ConsoleInv, FollowerDrains, Landed
  <2>2. CASE follower.last = "no"
    <3>1. follower.quiet < StablePolls /\ follower.quiet \in Nat /\ StablePolls \in Nat \ {0}
      BY <1>f, <1>n, <2>2 DEF FollowerDrains, Fields
    <3>2. PICK last \in {"no", "ended", "detached"}, quiet \in 0..StablePolls :
            /\ follower' = NextPoll(last, quiet)
            /\ last # "ended" => quiet < StablePolls
      <4>f. PICK found \in ReadsGone : StreamStep!(found) BY <1>5 DEF StreamStep
      <4> DEFINE gone  == attach.booted /\ ~follower.forwarded /\ found
                 quiet == IF gone THEN follower.quiet + 1
                          ELSE IF follower.forwarded \/ attach.booted THEN 0 ELSE follower.quiet
      <4>1. quiet \in 0..StablePolls BY <3>1
      <4>2. CASE quiet >= StablePolls
        <5>1. ~(quiet < StablePolls) BY <3>1, <4>1, <4>2
        <5>2. follower' = NextPoll("ended", quiet) BY <4>f, <2>2, <4>2, <5>1 DEF StreamStep
        <5>3. QED BY <4>1, <4>2, <5>2
      <4>3. CASE ~(quiet >= StablePolls)
        <5>1. quiet < StablePolls BY <3>1, <4>1, <4>3
        <5>2. follower' = NextPoll(IF attach.cancel THEN "detached" ELSE "no", quiet)
          BY <4>f, <2>2, <4>3, <5>1 DEF StreamStep
        <5>3. QED BY <4>1, <5>1, <5>2
      <4>4. QED BY <4>2, <4>3
    <3>d. PICK due \in SUBSET (0..MaxChunks) :
            /\ due = IF last = "ended" /\ capture.log # NoFile
                     THEN Range(capture.data[capture.log]) ELSE {}
            /\ Landed(due)
      <4>1. CASE last = "ended" /\ capture.log # NoFile
        <5>1. capture.data[capture.log] \in Seq(0..MaxChunks) BY <1>l, <1>n, <4>1 DEF Fields
        <5>2. DOMAIN capture.data[capture.log] = Cells(capture.log) BY <5>1, LenProperties DEF Cells
        <5>3. Range(capture.data[capture.log]) \subseteq 0..MaxChunks
          BY <5>1, <5>2, ElementOfSeq DEF Range, Cells
        <5>4. Landed(Range(capture.data[capture.log])) BY <1>l, <4>1, <5>2 DEF Landed, Range
        <5>5. QED BY <4>1, <5>3, <5>4
      <4>2. CASE ~(last = "ended" /\ capture.log # NoFile)
        <5>1. {} \in SUBSET (0..MaxChunks) /\ Landed({}) BY DEF Landed
        <5>2. QED BY <4>2, <5>1
      <4>3. QED BY <4>1, <4>2
    <3>3. PICK pc \in {"open", "read"} :
            /\ follower' = [follower EXCEPT !.pc = pc, !.forwarded = FALSE, !.quiet = quiet,
                                            !.last = last, !.due = due]
            /\ pc = "open" <=> follower.file = NoFile
      BY <3>2, <3>d DEF NextPoll
    <3>4. /\ follower' \in FollowerType /\ follower'.pc = pc /\ follower'.file = follower.file
          /\ follower'.pos = follower.pos /\ follower'.out = follower.out
          /\ follower'.last = last /\ follower'.quiet = quiet /\ follower'.due = due
      BY <1>t, <3>3 DEF FollowerType
    <3>5. QED BY <1>f, <1>u, <2>0, <3>2, <3>3, <3>4, <3>d, SamePlaceInv DEF ConsoleInv
  <2>3. QED BY <2>1, <2>2
<1>6. QED BY <1>1, <1>2, <1>3, <1>4, <1>5

\* The command's steps.
LEMMA AttachInv ==
    ASSUME ConsoleInv, StreamReturns \/ BootReturns \/ SignalArrives
    PROVE  ConsoleInv'
<1>f. ConsoleTypeOK /\ SinkInOrder /\ FollowerInOrder BY DEF ConsoleInv
<1>t. capture \in CaptureType /\ sink \in SinkType /\ follower \in FollowerType /\ attach \in AttachType
      /\ vm \in {"launching", "up", "stopping", "dead", "ending", "down"}
  BY <1>f, ConsoleTypes
<1>u. UNCHANGED <<capture, sink, follower>> BY DEF StreamReturns, BootReturns, SignalArrives
<1>1. vm' = vm \/ (vm = "launching" /\ vm' = "up") BY Zenon DEF StreamReturns, BootReturns, SignalArrives
<1>2. attach' \in AttachType
  <2>1. CASE StreamReturns BY <1>t, <2>1 DEF StreamReturns, AttachType
  <2>2. CASE BootReturns BY <1>t, <2>2 DEF BootReturns, AttachType
  <2>3. CASE SignalArrives
    <3>1. PICK exit \in {"success", "signal"} : attach' = [attach EXCEPT !.cancel = TRUE, !.exit = exit]
      BY <2>3 DEF SignalArrives
    <3>2. QED BY <1>t, <3>1 DEF AttachType
  <2>4. QED BY <2>1, <2>2, <2>3
<1>3. ConsoleTypeOK' BY <1>1, <1>2, <1>t, <1>u, ConsoleTypesNext
<1>4. SinkInOrder' BY <1>1, <1>f, <1>u DEF SinkInOrder, Cells
<1>5. sink.chunk >= sink.chunk BY <1>f, ConsoleFields DEF Fields
<1>6. QED BY <1>1, <1>3, <1>4, <1>5, <1>f, <1>u, QuietSinkInv DEF FollowerInOrder

\* The invariant is inductive.
LEMMA ConsoleStepInv == ConsoleInv /\ [ConsoleNext]_consoleVars => ConsoleInv'
<1> SUFFICES ASSUME ConsoleInv, [ConsoleNext]_consoleVars PROVE ConsoleInv'
  OBVIOUS
<1>1. CASE UNCHANGED consoleVars
  <2>1. follower' \in FollowerType BY <1>1, ConsoleTypes DEF consoleVars, ConsoleInv
  <2>2. FollowerInOrder' /\ FollowerDrains'
    BY <1>1 DEF consoleVars, ConsoleInv, FollowerInOrder, FollowerDrains, ForwardedInOrder, Unread,
                Ahead, Cells, Passed, DueIsPassed
  <2>3. Landed(follower'.due) BY <1>1 DEF consoleVars, Landed
  <2>4. QED BY <1>1, <2>1, <2>2, <2>3, FollowerStepInv DEF consoleVars
<1>2. QED
  BY <1>1, SinkOpensInv, SinkMovesInv, WriteLandsInv, FollowerMovesInv, AttachInv
     DEF ConsoleNext, SinkStep, FollowerStep

\* What `viv start --attach' shows of a boot, for any number of chunks and any
\* rotation size: this boot's output in order and once, and, when the stream
\* ends by itself, all that console.log held when the last drain began.
THEOREM ConsoleIsSafe == ConsoleSpec => []ConsoleSafe
<1>1. ConsoleInv => ConsoleSafe
  <2> SUFFICES ASSUME ConsoleInv PROVE LastDrainIsComplete
    BY DEF ConsoleInv, ConsoleSafe, FollowerInOrder
  <2>f. ConsoleTypeOK /\ FollowerDrains /\ CaptureInOrder BY DEF ConsoleInv
  <2> SUFFICES ASSUME follower.pc = "ended", capture.log # NoFile,
                      NEW k \in Range(capture.data[capture.log]) \cap follower.due, k # 0
               PROVE  k \in Range(follower.out)
    BY DEF LastDrainIsComplete
  <2>1. DueIsPassed(capture.log) BY <2>f DEF FollowerDrains
  <2>2. capture.log \in Files BY <2>f, ConsoleTypes, ConsoleAssumption DEF CaptureType, Files, NoFile
  <2>3. /\ capture.data[capture.log] \in Seq(0..MaxChunks) /\ follower.out \in Seq(0..MaxChunks)
    BY <2>2, <2>f, ConsoleFields DEF Fields
  <2>4. PICK i \in 1 .. Len(capture.data[capture.log]) : k = capture.data[capture.log][i]
    BY <2>3, LenProperties DEF Range
  <2>5. Passed(k) BY <2>1, <2>4 DEF DueIsPassed, Cells
  <2>6. PICK j \in 1 .. Len(follower.out) : follower.out[j] = k BY <2>5 DEF Passed
  <2>7. DOMAIN follower.out = 1 .. Len(follower.out) BY <2>3, LenProperties
  <2>8. QED BY <2>6, <2>7 DEF Range
<1>2. QED BY <1>1, ConsoleInitInv, ConsoleStepInv, PTL DEF ConsoleSpec

-----------------------------------------------------------------------------
(* The egress filter and the gating resolver.                              *)

\* A datagram and its task
Task == [pc : {"unsent", "sent", "gate", "upstream", "lock", "install", "reply", "done"},
         shape : Shapes, name : Names, aaaa : BOOLEAN, code : Codes, addrs : SUBSET Addrs]

\* Addresses the upstream gave for names the policy permits
Granted == {p[2] : p \in {r \in answered : Permitted(r[1])}}

\* The guest runs behind the table only, and nothing flows before it runs.
Filtered ==
    /\ link \in {"table", "literals", "guest"} => rules
    /\ link # "guest" => flows = {}

\* Both kinds of sets hold only what they may.
SetsAreGranted == literal \subseteq LiteralDestinations /\ timed \subseteq Granted

\* A task past the gate carries one permitted question; from the lock on, the
\* addresses it will install are the upstream's answer to that very name; and
\* the code it decided on is REFUSED exactly if the policy denies the name.
TaskIsGated(m) ==
    /\ m.pc \in {"upstream", "lock", "install"} => m.shape = "query" /\ Permitted(m.name)
    /\ m.pc \in {"lock", "install"} => \A a \in m.addrs : <<m.name, a>> \in answered
    /\ m.pc \in {"reply", "done"} /\ m.shape = "query"
          => (m.code = "refused" <=> ~Permitted(m.name))

\* The inductive invariant.
EgressInv ==
    /\ EgressTypeOK /\ Filtered /\ SetsAreGranted /\ FlowsWereGranted /\ DeniedStaysLocal
    /\ \A q \in Queries : TaskIsGated(query[q])

-----------------------------------------------------------------------------
(* The matcher.                                                            *)

\* What is left once a suffix is stripped, in the three cases.
LEMMA StemCases ==
    ASSUME NEW name \in Seq(Labels), NEW suffix \in Seq(Labels) \ {<<>>},
           NEW cut, cut = Len(name) - Len(suffix)
    PROVE  /\ cut \in Int /\ Len(name) \in Nat /\ Len(suffix) \in Nat \ {0}
           /\ cut > 0 /\ SubSeq(name, cut + 1, Len(name)) = suffix
                => Len(Stem(name, suffix)) = cut /\ Stem(name, suffix) # <<>>
           /\ ~(cut > 0 /\ SubSeq(name, cut + 1, Len(name)) = suffix)
                => Stem(name, suffix) = <<>>
<1>1. Len(name) \in Nat /\ Len(suffix) \in Nat /\ Len(suffix) # 0
  BY EmptySeq, LenProperties
<1>2. cut \in Int BY <1>1
<1>3. ASSUME cut > 0 PROVE Len(SubSeq(name, 1, cut)) = cut
  <2>1. \A i \in 1 .. cut : name[i] \in Labels
    BY <1>1, <1>2, ElementOfSeq
  <2>2. QED BY <1>2, <1>3, <2>1, SubSeqProperties
<1>4. Len(suffix) < Len(name) <=> cut > 0 BY <1>1
<1>5. ASSUME cut > 0, SubSeq(name, cut + 1, Len(name)) = suffix
      PROVE  Len(Stem(name, suffix)) = cut /\ Stem(name, suffix) # <<>>
  <2>1. Stem(name, suffix) = SubSeq(name, 1, cut) BY <1>4, <1>5 DEF Stem
  <2>2. Len(<<>>) = 0 OBVIOUS
  <2>3. Len(Stem(name, suffix)) = cut BY <2>1, <1>3, <1>5, Zenon
  <2>4. cut # 0 BY <1>2, <1>5
  <2>5. QED BY <2>2, <2>3, <2>4, Zenon
<1>6. ASSUME ~(cut > 0 /\ SubSeq(name, cut + 1, Len(name)) = suffix)
      PROVE  Stem(name, suffix) = <<>>
  BY <1>4, <1>6 DEF Stem
<1>7. QED BY <1>1, <1>2, <1>5, <1>6

\* The matcher strips suffixes; the policy compares what is left over.
LEMMA MatcherIsPolicy ==
    ASSUME NEW name \in Names
    PROVE  MatchesName(name) <=> Permitted(name)
<1> DEFINE Matches(e) == CASE e.form = "exact" -> name = e.suffix
                           [] e.form = "one"   -> Len(Stem(name, e.suffix)) = 1
                           [] e.form = "many"  -> Stem(name, e.suffix) # <<>>
                           [] e.form = "addr"  -> FALSE
           Permits(e) ==
              \/ e.form = "exact" /\ name = e.suffix
              \/ e.form = "one" /\ Len(name) = Len(e.suffix) + 1 /\ Tail(name) = e.suffix
              \/ e.form = "many" /\ \E k \in 1..(Len(name) - 1) : SubSeq(name, k + 1, Len(name)) = e.suffix
<1>n. name \in Seq(Labels) BY EgressAssumption
<1>1. ASSUME NEW e \in Entries PROVE Matches(e) <=> Permits(e)
  <2>1. CASE e.form = "addr" BY <2>1
  <2>2. CASE e.form = "exact" BY <2>2
  <2>3. CASE e.form \in {"one", "many"}
    <3>0. PICK cut : cut = Len(name) - Len(e.suffix) OBVIOUS
    <3> DEFINE rest == SubSeq(name, cut + 1, Len(name))
               stem == Stem(name, e.suffix)
    <3>1. e.suffix \in Seq(Labels) \ {<<>>} BY <2>3, EgressAssumption
    <3>2. /\ cut \in Int /\ Len(name) \in Nat /\ Len(e.suffix) \in Nat \ {0}
          /\ cut > 0 /\ rest = e.suffix => Len(stem) = cut /\ stem # <<>>
          /\ ~(cut > 0 /\ rest = e.suffix) => stem = <<>>
      BY <1>n, <3>0, <3>1, StemCases
    <3>3. CASE e.form = "one"
      <4>1. cut = 1 => rest = Tail(name)
        <5>1. cut = 1 => Len(name) # 0 BY <3>0, <3>2
        <5>2. Len(name) # 0 => Tail(name) = SubSeq(name, 2, Len(name))
          BY <1>n, TailIsSubSeq, EmptySeq
        <5>3. cut = 1 => cut + 1 = 2 OBVIOUS
        <5>4. QED BY <5>1, <5>2, <5>3, Zenon
      <4>2. cut = 1 <=> Len(name) = Len(e.suffix) + 1 BY <3>0, <3>2
      <4>3. cut = 1 => cut > 0 OBVIOUS
      <4>4. Len(<<>>) = 0 /\ 0 # 1 OBVIOUS
      <4>5. Len(stem) = 1 <=> cut = 1 /\ rest = e.suffix BY <3>2, <4>3, <4>4, Zenon
      <4>6. Matches(e) <=> Len(stem) = 1 BY <3>3
      <4>7. Permits(e) <=> Len(name) = Len(e.suffix) + 1 /\ Tail(name) = e.suffix BY <3>3
      <4>8. QED BY <4>1, <4>2, <4>5, <4>6, <4>7, Zenon
    <3>4. CASE e.form = "many"
      <4>1. ASSUME NEW k \in 1..(Len(name) - 1), SubSeq(name, k + 1, Len(name)) = e.suffix
            PROVE  cut > 0 /\ rest = e.suffix
        <5>1. \A i \in k + 1 .. Len(name) : name[i] \in Labels
          BY <1>n, <3>2, ElementOfSeq
        <5>2. Len(SubSeq(name, k + 1, Len(name))) = Len(name) - k
          BY <3>2, <5>1, SubSeqProperties
        <5>3. Len(e.suffix) = Len(name) - k BY <4>1, <5>2, Zenon
        <5>4. k = cut /\ cut > 0
          <6> HIDE DEF rest, stem
          <6>1. QED BY <3>0, <3>2, <5>3
        <5>5. QED BY <4>1, <5>4, Zenon
      <4>2. cut > 0 => cut \in 1..(Len(name) - 1)
        <5> HIDE DEF rest, stem
        <5>1. QED BY <3>0, <3>2
      <4>3. Matches(e) <=> stem # <<>> BY <3>4
      <4>4. Permits(e) <=> \E k \in 1..(Len(name) - 1) : SubSeq(name, k + 1, Len(name)) = e.suffix
        BY <3>4
      <4>5. QED BY <3>2, <4>1, <4>2, <4>3, <4>4, Zenon
    <3>5. QED BY <2>3, <3>3, <3>4
  <2>4. QED BY <2>1, <2>2, <2>3, EgressAssumption
<1>2. MatchesName(name) <=> \E e \in Entries : Matches(e) BY DEF MatchesName
<1>3. Permitted(name) <=> \E e \in Entries : Permits(e) BY DEF Permitted
<1> HIDE DEF Matches, Permits
<1>4. QED BY <1>1, <1>2, <1>3

-----------------------------------------------------------------------------
(* The inductive invariant.                                                *)

\* The literal sets hold addresses.
LEMMA LiteralsAreAddrs == LiteralDestinations \subseteq Addrs
BY EgressAssumption DEF LiteralDestinations

\* Before the launch nothing is reachable, asked or answered.
LEMMA EgressInitInv == EgressInit => EgressInv
<1> SUFFICES ASSUME EgressInit PROVE EgressInv
  OBVIOUS
<1>1. (CHOOSE n \in Names : TRUE) \in Names BY EgressAssumption
<1>2. EgressTypeOK BY <1>1 DEF EgressInit, EgressTypeOK, Shapes, Codes
<1>3. QED
  BY <1>2 DEF EgressInit, EgressInv, Filtered, SetsAreGranted, FlowsWereGranted,
              DeniedStaysLocal, TaskIsGated

\* A step of bring_up_network: the table is there before the guest, and the
\* literal sets are the allowlist's.
LEMMA BringUpInv == ASSUME EgressInv, BringUp PROVE EgressInv'
<1> USE DEF EgressInv, EgressTypeOK, Filtered, SetsAreGranted, FlowsWereGranted,
            DeniedStaysLocal, TaskIsGated, Granted, resolverVars
<1>1. CASE NetworkFails BY <1>1 DEF NetworkFails
<1>2. CASE PairDistinct BY <1>2 DEF PairDistinct
<1>3. CASE TapUp BY <1>3 DEF TapUp
<1>4. CASE ApplyRuleset BY <1>4 DEF ApplyRuleset
<1>5. CASE ApplyLiterals BY <1>5, LiteralsAreAddrs DEF ApplyLiterals
<1>6. CASE StartGuest BY <1>6 DEF StartGuest
<1>7. QED BY <1>1, <1>2, <1>3, <1>4, <1>5, <1>6 DEF BringUp

\* A step of the kernel: what it accepts is a flow already granted, or an
\* address of one of the sets.
LEMMA KernelInv ==
    ASSUME EgressInv, NEW addr \in Addrs,
           Expire(addr) \/ FlowEnds(addr) \/ \E tcp \in BOOLEAN : GuestSends(addr, tcp)
    PROVE  EgressInv'
<1> USE DEF EgressInv, EgressTypeOK, Filtered, SetsAreGranted, FlowsWereGranted,
            DeniedStaysLocal, TaskIsGated, Granted, resolverVars
<1>1. CASE Expire(addr) BY <1>1 DEF Expire
<1>2. CASE FlowEnds(addr) BY <1>2 DEF FlowEnds
<1>3. ASSUME NEW tcp \in BOOLEAN, GuestSends(addr, tcp) PROVE EgressInv'
  <2>1. addr \in flows \cup timed \cup literal
    BY <1>3 DEF GuestSends, Verdict
  <2>2. QED BY <1>3, <2>1 DEF GuestSends
<1>4. QED BY <1>1, <1>2, <1>3

\* Gating: only a permitted question reaches the upstream.
LEMMA GateInv == ASSUME EgressInv, NEW q \in Queries, Gate(q) PROVE EgressInv'
<1> DEFINE m == query[q]
           n == query'[q]
<1>m. m \in Task BY DEF EgressInv, EgressTypeOK, Task
<1>p. MatchesName(m.name) <=> Permitted(m.name) BY <1>m, MatcherIsPolicy DEF Task
<1>n. n = CASE m.shape \in {"garbage", "response"} -> [m EXCEPT !.pc = "done"]
            [] m.shape \in {"opcode", "none"}      -> [m EXCEPT !.pc = "reply", !.code = "notimp"]
            [] m.shape = "many"                    -> [m EXCEPT !.pc = "reply", !.code = "formerr"]
            [] m.shape = "query" /\ ~MatchesName(m.name) -> [m EXCEPT !.pc = "reply", !.code = "refused"]
            [] m.shape = "query" /\ MatchesName(m.name) /\ m.aaaa
                                                   -> [m EXCEPT !.pc = "reply", !.code = "empty"]
            [] OTHER                               -> [m EXCEPT !.pc = "upstream"]
  BY DEF Gate, EgressInv, EgressTypeOK
<1>f. query' = [query EXCEPT ![q] = n] /\ answered' = answered
  BY DEF Gate, EgressInv, EgressTypeOK
<1> DEFINE Decided ==
       /\ n \in Task /\ n.name = m.name
       /\ n.pc \in {"done", "reply", "upstream"}
       /\ n.pc = "upstream" => n.shape = "query" /\ Permitted(n.name)
       /\ n.pc # "upstream" /\ n.shape = "query" => (n.code = "refused" <=> ~Permitted(n.name))
<1> USE DEF Task
<1> HIDE DEF m, n
<1>1. Decided
  <2>1. CASE m.shape \in {"garbage", "response"}
    <3>1. n = [m EXCEPT !.pc = "done"] BY <1>n, <2>1
    <3>2. QED BY <1>m, <2>1, <3>1
  <2>2. CASE m.shape \in {"opcode", "none"}
    <3>1. n = [m EXCEPT !.pc = "reply", !.code = "notimp"] BY <1>n, <2>2
    <3>2. QED BY <1>m, <2>2, <3>1 DEF Codes
  <2>3. CASE m.shape = "many"
    <3>1. n = [m EXCEPT !.pc = "reply", !.code = "formerr"] BY <1>n, <2>3
    <3>2. QED BY <1>m, <2>3, <3>1 DEF Codes
  <2>4. CASE m.shape = "query" /\ ~MatchesName(m.name)
    <3>1. n = [m EXCEPT !.pc = "reply", !.code = "refused"] BY <1>n, <2>4
    <3>2. QED BY <1>m, <1>p, <2>4, <3>1 DEF Codes
  <2>5. CASE m.shape = "query" /\ MatchesName(m.name) /\ m.aaaa
    <3>1. n = [m EXCEPT !.pc = "reply", !.code = "empty"] BY <1>n, <2>5
    <3>2. QED BY <1>m, <1>p, <2>5, <3>1 DEF Codes
  <2>6. CASE m.shape = "query" /\ MatchesName(m.name) /\ ~m.aaaa
    <3>1. n = [m EXCEPT !.pc = "upstream"] BY <1>n, <2>6
    <3>2. QED BY <1>m, <1>p, <2>6, <3>1
  <2>7. QED BY <1>m, <2>1, <2>2, <2>3, <2>4, <2>5, <2>6 DEF Shapes
<1>2. upstream' = IF n.pc = "upstream" THEN upstream \cup {m.name} ELSE upstream
  BY DEF Gate, m, n
<1>3. EgressTypeOK'
  BY <1>1, <1>2, <1>f DEF EgressInv, EgressTypeOK, Gate, kernelVars
<1>4. DeniedStaysLocal' BY <1>1, <1>2 DEF DeniedStaysLocal, EgressInv
<1>5. \A p \in Queries : TaskIsGated(query[p])'
  BY <1>1, <1>f DEF TaskIsGated, EgressInv, EgressTypeOK
<1>6. Filtered' /\ SetsAreGranted' /\ FlowsWereGranted'
  BY DEF EgressInv, Filtered, SetsAreGranted, FlowsWereGranted, Granted, Gate, kernelVars
<1>7. QED BY <1>3, <1>4, <1>5, <1>6 DEF EgressInv

\* A task's step that leaves the filter and the histories as they are.
LEMMA TaskStepInv ==
    ASSUME EgressInv, NEW q \in Queries, NEW n \in Task, query' = [query EXCEPT ![q] = n],
           UNCHANGED <<kernelVars, timed, upstream, answered>>, lock' \in Queries \cup {NoQuery},
           TaskIsGated(n)
    PROVE  EgressInv'
<1>1. EgressTypeOK' BY DEF EgressInv, EgressTypeOK, kernelVars, Task
<1>2. \A p \in Queries : TaskIsGated(query[p])'
  BY DEF EgressInv, EgressTypeOK, TaskIsGated
<1>3. QED
  BY <1>1, <1>2 DEF EgressInv, Filtered, SetsAreGranted, FlowsWereGranted, DeniedStaysLocal,
                    Granted, kernelVars

\* The resolver's other steps: what is installed is what was answered.
LEMMA ResolverInv ==
    ASSUME EgressInv, NEW q \in Queries, GuestAsks(q) \/ ResolverStep(q)
    PROVE  EgressInv'
<1>0. CASE Gate(q) BY <1>0, GateInv
<1>t. query[q] \in Task /\ query \in [Queries -> Task] /\ lock \in Queries \cup {NoQuery}
  BY DEF EgressInv, EgressTypeOK, Task
<1>g. TaskIsGated(query[q]) BY DEF EgressInv
<1>1. CASE GuestAsks(q)
  <2>1. PICK shape \in Shapes, name \in Names, aaaa \in BOOLEAN :
           query' = [query EXCEPT ![q].pc = "sent", ![q].shape = shape, ![q].name = name,
                                  ![q].aaaa = aaaa]
    BY <1>1, Zenon DEF GuestAsks
  <2> DEFINE n == [query[q] EXCEPT !.pc = "sent", !.shape = shape, !.name = name, !.aaaa = aaaa]
  <2>2. query' = [query EXCEPT ![q] = n] BY <1>t, <2>1
  <2>3. n \in Task /\ n.pc = "sent" BY <1>t DEF Task
  <2> HIDE DEF n
  <2>4. TaskIsGated(n) BY <2>3 DEF TaskIsGated
  <2>5. QED BY <1>1, <1>t, <2>2, <2>3, <2>4, TaskStepInv DEF GuestAsks
<1>2. CASE Receive(q)
  <2> DEFINE n == [query[q] EXCEPT !.pc = "gate"]
  <2>2. query' = [query EXCEPT ![q] = n] BY <1>2, <1>t DEF Receive, Step
  <2>3. n \in Task /\ n.pc = "gate" BY <1>t DEF Task
  <2> HIDE DEF n
  <2>4. TaskIsGated(n) BY <2>3 DEF TaskIsGated
  <2>5. QED BY <1>2, <1>t, <2>2, <2>3, <2>4, TaskStepInv DEF Receive
<1>3. CASE UpstreamAnswers(q)
  <2>1. ASSUME NEW code \in {"servfail", "nxdomain"}, Decide(q, code), UNCHANGED answered
        PROVE  EgressInv'
    <3> DEFINE n == [query[q] EXCEPT !.pc = "reply", !.code = code]
    <3>1. query' = [query EXCEPT ![q] = n] BY <2>1, <1>t DEF Decide
    <3>2. n \in Task BY <1>t DEF Task, Codes
    <3>3. TaskIsGated(n) BY <1>3, <1>t, <1>g DEF UpstreamAnswers, TaskIsGated, Task
    <3> HIDE DEF n
    <3>4. QED BY <1>3, <2>1, <1>t, <3>1, <3>2, <3>3, TaskStepInv DEF UpstreamAnswers
  <2>2. ASSUME NEW addrs \in SUBSET Addrs,
               query' = [query EXCEPT ![q].pc = "lock", ![q].addrs = addrs],
               answered' = answered \cup ({query[q].name} \X addrs)
        PROVE  EgressInv'
    <3>1. answered \subseteq answered' /\ \A a \in addrs : <<query[q].name, a>> \in answered'
      BY <2>2
    <3>2. answered' \subseteq Names \X Addrs
      BY <1>t, <2>2 DEF EgressInv, EgressTypeOK, Task
    <3>3. Granted \subseteq Granted' BY <3>1 DEF Granted
    <3>4. query' \in [Queries -> Task] BY <1>t, <2>2 DEF Task
    <3>5. EgressTypeOK'
      BY <1>3, <3>2, <3>4 DEF UpstreamAnswers, EgressInv, EgressTypeOK, Task, kernelVars
    <3>6. \A p \in Queries : TaskIsGated(query[p])'
      <4>1. query'[q] = [query[q] EXCEPT !.pc = "lock", !.addrs = addrs]
            /\ \A p \in Queries : p # q => query'[p] = query[p]
        BY <1>t, <2>2
      <4>2. query'[q].pc = "lock" /\ query'[q].addrs = addrs /\ query'[q].name = query[q].name
            /\ query'[q].shape = query[q].shape
        BY <1>t, <4>1 DEF Task
      <4>3. query[q].shape = "query" /\ Permitted(query[q].name)
        BY <1>3, <1>g DEF TaskIsGated, UpstreamAnswers
      <4>4. TaskIsGated(query[q])' BY <3>1, <4>2, <4>3 DEF TaskIsGated
      <4>5. QED BY <3>1, <4>1, <4>4 DEF TaskIsGated, EgressInv
    <3>7. QED
      BY <1>3, <3>3, <3>5, <3>6
         DEF UpstreamAnswers, EgressInv, Filtered, SetsAreGranted, FlowsWereGranted,
             DeniedStaysLocal, Granted, kernelVars
  <2>3. QED BY <1>3, <2>1, <2>2 DEF UpstreamAnswers
<1>4. CASE TakeLock(q)
  <2> DEFINE n == [query[q] EXCEPT !.pc = "install"]
  <2>2. query' = [query EXCEPT ![q] = n] BY <1>4, <1>t DEF TakeLock, Step
  <2>3. n \in Task BY <1>t DEF Task
  <2>4. TaskIsGated(n) BY <1>4, <1>t, <1>g DEF TakeLock, TaskIsGated, Task
  <2> HIDE DEF n
  <2>5. QED BY <1>4, <1>t, <2>2, <2>3, <2>4, TaskStepInv DEF TakeLock
<1>5. CASE Install(q)
  <2>1. query[q].addrs \subseteq Granted
    <3>1. Permitted(query[q].name) /\ \A a \in query[q].addrs : <<query[q].name, a>> \in answered
      BY <1>5, <1>g DEF Install, TaskIsGated
    <3>2. \A a \in query[q].addrs : <<query[q].name, a>> \in {r \in answered : Permitted(r[1])}
                                     /\ a = <<query[q].name, a>>[2]
      BY <3>1
    <3>3. QED BY ONLY <3>2 DEF Granted
  <2>2. PICK code \in {"noerror", "servfail"} : Decide(q, code) BY <1>5 DEF Install
  <2> DEFINE n == [query[q] EXCEPT !.pc = "reply", !.code = code]
  <2>3. query' = [query EXCEPT ![q] = n] BY <2>2, <1>t DEF Decide
  <2>4. n \in Task BY <1>t DEF Task, Codes
  <2>5. TaskIsGated(n) BY <1>5, <1>t, <1>g DEF Install, TaskIsGated, Task
  <2> HIDE DEF n
  <2>6. timed' \subseteq timed \cup query[q].addrs BY <1>5 DEF Install
  <2>7. EgressTypeOK'
    BY <1>5, <1>t, <2>3, <2>4, <2>6 DEF Install, EgressInv, EgressTypeOK, Task, kernelVars
  <2>8. \A p \in Queries : TaskIsGated(query[p])'
    BY <1>5, <1>t, <2>3, <2>5 DEF Install, EgressInv, TaskIsGated
  <2>9. QED
    BY <1>5, <2>1, <2>6, <2>7, <2>8
       DEF Install, EgressInv, Filtered, SetsAreGranted, FlowsWereGranted, DeniedStaysLocal,
           Granted, kernelVars
<1>6. CASE Release(q)
  <2> DEFINE n == [query[q] EXCEPT !.pc = "done"]
  <2>2. query' = [query EXCEPT ![q] = n] BY <1>6, <1>t DEF Release, Step
  <2>3. n \in Task BY <1>t DEF Task
  <2>4. TaskIsGated(n) BY <1>6, <1>t, <1>g DEF Release, TaskIsGated, Task
  <2> HIDE DEF n
  <2>5. QED BY <1>6, <1>t, <2>2, <2>3, <2>4, TaskStepInv DEF Release
<1>7. QED BY <1>0, <1>1, <1>2, <1>3, <1>4, <1>5, <1>6 DEF ResolverStep

\* The invariant is inductive.
LEMMA EgressStepInv == EgressInv /\ [EgressNext]_egressVars => EgressInv'
<1> SUFFICES ASSUME EgressInv, [EgressNext]_egressVars PROVE EgressInv'
  OBVIOUS
<1>1. CASE UNCHANGED egressVars
  BY <1>1 DEF egressVars, EgressInv, EgressTypeOK, Filtered, SetsAreGranted, FlowsWereGranted,
              DeniedStaysLocal, TaskIsGated, Granted
<1>2. QED BY <1>1, BringUpInv, KernelInv, ResolverInv DEF EgressNext

\* gate_query and the filter, for every allowlist: the guest is only ever
\* connected to a literal destination or to an address the upstream gave for
\* a permitted name, a denied name never leaves the host, and REFUSED is what
\* the guest is told exactly for a denied name.
THEOREM EgressIsSafe == EgressSpec => []EgressSafe
<1>1. EgressInv => EgressSafe
  BY DEF EgressInv, EgressSafe, TaskIsGated, RefusedMeansPolicy
<1>2. QED BY <1>1, EgressInitInv, EgressStepInv, PTL DEF EgressSpec
=============================================================================
