------------------------------- MODULE Relay -------------------------------
(***************************************************************************)
(* The relay of one credential socket: the supervisor's workers, each of   *)
(* which parks one connection in the guest agent's pool and then connects  *)
(* it to the host's agent socket, and the agent, which hands a parked      *)
(* connection to each guest client in turn.  Pools of different            *)
(* credentials share nothing.                                              *)
(***************************************************************************)
EXTENDS Naturals, Sequences, FiniteSets, SequencesExt

CONSTANTS
    Workers,    \* the CREDENTIAL_POOL_SIZE workers of the credential
    Dead        \* a parked connection its worker has closed

NoStream == [stream |-> "none"]

ASSUME RelayAssumption ==
    /\ Workers # {} /\ IsFiniteSet(Workers)
    /\ Dead \notin Workers /\ NoStream \notin Workers

VARIABLES
    worker,     \* each worker's step
    announced,  \* workers whose first relay was established
    pool,       \* the agent's channel of parked connections, oldest first
    offered,    \* the connection serve_local holds for the next client
    client,     \* the guest client that is waiting, or what it was given
    hostUp,     \* does the host's agent socket answer?
    ending      \* the VM is gone and the workers are cancelled

relayVars == <<worker, announced, pool, offered, client, hostUp, ending>>

PoolSize == Cardinality(Workers)
Streams  == Workers \cup {Dead}

RelayTypeOK ==
    /\ worker \in [Workers -> {"connect", "knock", "parked", "relay", "stopped"}]
    /\ announced \subseteq Workers
    /\ pool \in Seq(Streams)
    /\ offered \in Streams \cup {NoStream}
    /\ client \in {"away", "waiting", "served", "dropped"}
    /\ {hostUp, ending} \subseteq BOOLEAN

RelayInit ==
    /\ worker = [w \in Workers |-> "connect"]
    /\ announced = {}
    /\ pool = <<>>
    /\ offered = NoStream
    /\ client = "away"
    /\ hostUp \in BOOLEAN
    /\ ending = FALSE

\* The worker's end of its connection closes, wherever the other end is.
CloseStream(w) ==
    /\ pool' = [i \in DOMAIN pool |-> IF pool[i] = w THEN Dead ELSE pool[i]]
    /\ offered' = IF offered = w THEN Dead ELSE offered

\* establish: hybrid::connect and the setup byte; a failure is retried.
Knock(w) ==
    /\ worker[w] = "connect" /\ ~ending
    /\ worker' = [worker EXCEPT ![w] = "knock"]
    /\ UNCHANGED <<announced, pool, offered, client, hostUp, ending>>

\* The agent reserves a slot, acknowledges and parks; with no slot it waits,
\* and so does the worker, without a bound.
Park(w) ==
    /\ worker[w] = "knock" /\ Len(pool) < PoolSize /\ ~ending
    /\ pool' = Append(pool, w)
    /\ worker' = [worker EXCEPT ![w] = "parked"]
    /\ UNCHANGED <<announced, offered, client, hostUp, ending>>

\* Mutant: a worker that could not reach the host gives up.
ConnectHostOnce(w) ==
    /\ worker[w] = "parked"
    /\ \/ /\ hostUp
          /\ worker' = [worker EXCEPT ![w] = "relay"]
          /\ announced' = announced \cup {w}
          /\ UNCHANGED <<pool, offered>>
       \/ /\ ~hostUp
          /\ worker' = [worker EXCEPT ![w] = "stopped"]
          /\ CloseStream(w)
          /\ UNCHANGED announced
    /\ UNCHANGED <<client, hostUp, ending>>

\* The host socket is connected after the guest side was parked: a failure
\* leaves a dead connection in the pool, and the worker tries again.
ConnectHost(w) ==
    /\ worker[w] = "parked"
    /\ \/ /\ hostUp
          /\ worker' = [worker EXCEPT ![w] = "relay"]
          /\ announced' = announced \cup {w}
          /\ UNCHANGED <<pool, offered>>
       \/ /\ ~hostUp
          /\ worker' = [worker EXCEPT ![w] = "connect"]
          /\ CloseStream(w)
          /\ UNCHANGED announced
    /\ UNCHANGED <<client, hostUp, ending>>

\* copy_bidirectional returns: the guest client or the host closed its end.
RelayEnds(w) ==
    /\ worker[w] = "relay"
    /\ w \notin Range(pool) \cup {offered} \/ ~hostUp
    /\ worker' = [worker EXCEPT ![w] = "connect"]
    /\ CloseStream(w)
    /\ UNCHANGED <<announced, client, hostUp, ending>>

\* Mutant: a worker looks at the cancellation only where it relays.
StopWhileRelaying(w) ==
    /\ ending /\ worker[w] = "relay"
    /\ worker' = [worker EXCEPT ![w] = "stopped"]
    /\ CloseStream(w)
    /\ UNCHANGED <<announced, client, hostUp, ending>>

\* The cancellation is looked at before a connection is made and while one is
\* relayed; the wait for the acknowledgement ends because the guest is gone.
Stop(w) ==
    /\ ending /\ worker[w] \in {"connect", "knock", "relay"}
    /\ worker' = [worker EXCEPT ![w] = "stopped"]
    /\ CloseStream(w)
    /\ UNCHANGED <<announced, client, hostUp, ending>>

\* Mutant: the connection offered stays in the channel.
OfferAndKeep ==
    /\ offered = NoStream /\ pool # <<>>
    /\ offered' = Head(pool)
    /\ UNCHANGED <<worker, announced, pool, client, hostUp, ending>>

\* serve_local takes the oldest connection before it has a client for it.
Offer ==
    /\ offered = NoStream /\ pool # <<>>
    /\ offered' = Head(pool) /\ pool' = Tail(pool)
    /\ UNCHANGED <<worker, announced, client, hostUp, ending>>

\* One client takes it; a dead one is a client dropped at once.
AcceptClient ==
    /\ client = "waiting" /\ offered # NoStream /\ ~ending
    /\ client' = IF offered = Dead THEN "dropped" ELSE "served"
    /\ offered' = NoStream
    /\ UNCHANGED <<worker, announced, pool, hostUp, ending>>

\* A guest process connects to the local socket, and later tries again.
ClientArrives ==
    /\ client # "waiting"
    /\ client' = "waiting"
    /\ UNCHANGED <<worker, announced, pool, offered, hostUp, ending>>

\* The host's agent goes away or comes back.
HostFlips ==
    /\ hostUp' = ~hostUp
    /\ UNCHANGED <<worker, announced, pool, offered, client, ending>>

\* The supervisor ends the VM and cancels the workers.
RelayEnding ==
    /\ ~ending /\ ending' = TRUE
    /\ UNCHANGED <<worker, announced, pool, offered, client, hostUp>>

WorkerStep(w) == Knock(w) \/ ConnectHost(w) \/ Stop(w)
AgentStep == (\E w \in Workers : Park(w)) \/ Offer \/ AcceptClient
RelayNext == (\E w \in Workers : WorkerStep(w) \/ RelayEnds(w)) \/ AgentStep
             \/ ClientArrives \/ HostFlips \/ RelayEnding

\* The workers' tasks and the agent's are scheduled; the host's agent and the
\* guest's clients owe nothing.
RelaySpec == RelayInit /\ [][RelayNext]_relayVars /\ WF_relayVars(AgentStep)
             /\ \A w \in Workers : WF_relayVars(WorkerStep(w)) /\ WF_relayVars(Park(w))

-----------------------------------------------------------------------------
(* Properties.                                                             *)

\* However often the host was unreachable, the agent never parks more than the
\* pool and the one connection it offers.
ParkedIsBounded == Len(pool) <= PoolSize

\* A live connection is parked once and belongs to one worker, so no two
\* guest clients are ever joined to one connection of the host's agent.
ParkedOnce ==
    /\ \A i, j \in DOMAIN pool : pool[i] = pool[j] /\ pool[i] # Dead => i = j
    /\ offered # NoStream /\ offered # Dead => offered \notin Range(pool)
    /\ \A w \in Range(pool) \cup {offered} :
          w \in Workers => worker[w] \in {"parked", "relay"}

\* A guest client was handed the worker's connection and still holds it.
Held(w) == worker[w] = "relay" /\ w \notin Range(pool) \cup {offered}

\* Dead connections are used up: if the host's agent stays up, guest clients
\* keep coming and none keeps its connection for ever, they are served again
\* and again, however many connections died in the pool before.
ServedOnceUp ==
    /\ <>[]hostUp /\ []~ending
    /\ []<>(client = "waiting") /\ \A w \in Workers : []<>~Held(w)
    => []<>(client = "served")

\* The supervisor's join of the workers returns, also when the pool is full of
\* dead connections and every worker waits for an acknowledgement.
WorkersJoin == ending ~> \A w \in Workers : worker[w] = "stopped"

\* One host connection for one guest client, within the pool's size.
RelaySafe == RelayTypeOK /\ ParkedIsBounded /\ ParkedOnce
=============================================================================
