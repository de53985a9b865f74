---------------------------- MODULE MCChannels ----------------------------
(***************************************************************************)
(* Four channels between guest and host, for TLC: the control sessions,    *)
(* the console capture, the credential relay and the egress filter.  They  *)
(* share no state, so a behaviour is one of one channel: focus says which, *)
(* and the others rest in an initial state.                                *)
(***************************************************************************)
EXTENDS Session, Console, Relay, Egress, TLC

CONSTANTS c1, c2, a1, a2

VARIABLE focus

channelVars == <<focus, sessionVars, consoleVars, relayVars, egressVars>>

ConstNames == {<<"a", "x">>, <<"b", "a", "x">>}
ConstEntries == {[form |-> "one", suffix |-> <<"x">>], [form |-> "addr", addr |-> a1]}

\* One session, or two calls at once
SessionCalls == {<<"trim", "trim">>, <<"shutdown", "memory">>, <<"ping", "count">>}
SessionStart ==
    \/ /\ kind = (c1 :> "session" @@ c2 :> "count")
       /\ cli[c1].pc = "idle" /\ cli[c2].pc = "done" /\ own[c2]
    \/ /\ <<kind[c1], kind[c2]>> \in SessionCalls
       /\ \A c \in Conns : cli[c].pc = "idle"

\* The channel at rest
SessionRest == \A c \in Conns : kind[c] = "ping" /\ own[c] /\ cli[c].pc = "done"
ConsoleRest == capture.log = NoFile
RelayRest   == hostUp

Init ==
    /\ focus \in {"session", "console", "relay", "egress"}
    /\ SessionInit /\ (IF focus = "session" THEN SessionStart ELSE SessionRest)
    /\ ConsoleInit /\ (focus = "console" \/ ConsoleRest)
    /\ RelayInit   /\ (focus = "relay" \/ RelayRest)
    /\ EgressInit

Next ==
    \/ focus = "session" /\ SessionNext /\ UNCHANGED <<focus, consoleVars, relayVars, egressVars>>
    \/ focus = "console" /\ ConsoleNext /\ UNCHANGED <<focus, sessionVars, relayVars, egressVars>>
    \/ focus = "relay"   /\ RelayNext   /\ UNCHANGED <<focus, sessionVars, consoleVars, egressVars>>
    \/ focus = "egress"  /\ EgressNext  /\ UNCHANGED <<focus, sessionVars, consoleVars, relayVars>>

\* The fairness of each channel's own specification; Egress has none.
Fairness ==
    /\ \A c \in Conns : /\ WF_sessionVars(focus = "session" /\ Handler(c))
                        /\ WF_sessionVars(focus = "session" /\ Client(c))
    /\ WF_consoleVars(focus = "console" /\ SinkStep)
    /\ WF_consoleVars(focus = "console" /\ FollowerStep)
    /\ WF_relayVars(focus = "relay" /\ AgentStep)
    /\ \A w \in Workers : /\ WF_relayVars(focus = "relay" /\ WorkerStep(w))
                          /\ WF_relayVars(focus = "relay" /\ Park(w))

Spec == Init /\ [][Next]_channelVars /\ Fairness
=============================================================================
