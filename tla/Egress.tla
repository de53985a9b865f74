------------------------------- MODULE Egress -------------------------------
(***************************************************************************)
(* The guest's network under allowlist mode: bring_up_network, the kernel  *)
(* filter in the VM's namespace, and the gating resolver, which answers a  *)
(* permitted name only once its addresses are in the filter.               *)
(*                                                                         *)
(* A name is the sequence of its labels; an entry of the allowlist is      *)
(* [form, suffix] or [form |-> "addr", addr].                              *)
(***************************************************************************)
EXTENDS Naturals, Sequences, FiniteSets

CONSTANTS
    Queries,        \* DNS datagrams the guest sends
    NoQuery,        \* holder of the programmer's lock when it is free
    Labels,         \* the labels names are made of
    Names,          \* names they ask for: sequences of labels
    Addrs,          \* addresses the upstream answers with
    Entries,        \* egress.allow, parsed
    MaxInFlight     \* MAX_IN_FLIGHT

ASSUME EgressAssumption ==
    /\ NoQuery \notin Queries
    /\ MaxInFlight \in Nat \ {0}
    /\ Names # {} /\ Names \subseteq Seq(Labels)
    \* normalize_name: an entry's name has a label; an address is one of Addrs
    /\ \A e \in Entries :
          \/ e.form \in {"exact", "one", "many"} /\ e.suffix \in Seq(Labels) \ {<<>>}
          \/ e.form = "addr" /\ e.addr \in Addrs

VARIABLES
    link,       \* how far bring_up_network has come
    rules,      \* is the default-deny table in the kernel?
    literal,    \* addresses of the literal sets
    timed,      \* addresses of the timed sets
    flows,      \* connections the guest opened: the addresses they go to
    query,      \* each datagram and its task
    lock,       \* the task that holds the programmer
    upstream,   \* history: names the upstream was asked for
    answered    \* history: the addresses it answered each name with

egressVars == <<link, rules, literal, timed, flows, query, lock, upstream, answered>>

Shapes == {"garbage", "response", "opcode", "many", "none", "query"}
Codes  == {"none", "notimp", "formerr", "refused", "empty", "servfail", "nxdomain", "noerror"}

EgressTypeOK ==
    /\ link \in {"holder", "pair", "tap", "table", "literals", "guest", "failed"}
    /\ rules \in BOOLEAN
    /\ literal \subseteq Addrs /\ timed \subseteq Addrs /\ flows \subseteq Addrs
    /\ query \in [Queries -> [pc : {"unsent", "sent", "gate", "upstream", "lock", "install",
                                    "reply", "done"},
                              shape : Shapes, name : Names, aaaa : BOOLEAN, code : Codes,
                              addrs : SUBSET Addrs]]
    /\ lock \in Queries \cup {NoQuery}
    /\ upstream \subseteq Names
    /\ answered \subseteq Names \X Addrs

EgressInit ==
    /\ link = "holder"
    /\ rules = FALSE
    /\ literal = {} /\ timed = {} /\ flows = {}
    /\ query = [q \in Queries |-> [pc |-> "unsent", shape |-> "query", aaaa |-> FALSE,
                                   name |-> CHOOSE n \in Names : TRUE, code |-> "none",
                                   addrs |-> {}]]
    /\ lock = NoQuery
    /\ upstream = {} /\ answered = {}

resolverVars == <<query, lock, upstream, answered>>

-----------------------------------------------------------------------------
(* The allowlist: AllowEntry, Allowlist::matches_name.                     *)

\* What is left of a name once a suffix is stripped; <<>> if it is no suffix
\* of it, or all of it
Stem(name, suffix) ==
    LET cut == Len(name) - Len(suffix) IN
    IF Len(suffix) < Len(name) /\ SubSeq(name, cut + 1, Len(name)) = suffix
    THEN SubSeq(name, 1, cut) ELSE <<>>

MatchesName(name) ==
    \E e \in Entries : CASE e.form = "exact" -> name = e.suffix
                         [] e.form = "one"   -> Len(Stem(name, e.suffix)) = 1
                         [] e.form = "many"  -> Stem(name, e.suffix) # <<>>
                         [] e.form = "addr"  -> FALSE

LiteralDestinations == {e.addr : e \in {f \in Entries : f.form = "addr"}}

-----------------------------------------------------------------------------
(* bring_up_network: netns.rs, tap.rs, nft.rs.  A step that fails ends the *)
(* launch.                                                                 *)

NetworkFails ==
    /\ link \in {"holder", "pair", "tap", "table", "literals"}
    /\ link' = "failed"
    /\ UNCHANGED <<rules, literal, timed, flows, resolverVars>>

\* await_pair: both namespaces of the holder are its own.
PairDistinct ==
    /\ link = "holder" /\ link' = "pair"
    /\ UNCHANGED <<rules, literal, timed, flows, resolverVars>>

\* net-init, setup_sequences, assert_tap_up
TapUp ==
    /\ link = "pair" /\ link' = "tap"
    /\ UNCHANGED <<rules, literal, timed, flows, resolverVars>>

\* Mutant: the guest is started first, and the table applied beside it.
GuestBeforeRuleset ==
    /\ link = "tap" /\ link' = "guest"
    /\ rules' \in BOOLEAN
    /\ UNCHANGED <<literal, timed, flows, resolverVars>>

\* base_ruleset, in one nft transaction
ApplyRuleset ==
    /\ link = "tap" /\ link' = "table"
    /\ rules' = TRUE
    /\ UNCHANGED <<literal, timed, flows, resolverVars>>

\* literal_elements, if there are any
ApplyLiterals ==
    /\ link = "table" /\ link' = "literals"
    /\ literal' = LiteralDestinations
    /\ UNCHANGED <<rules, timed, flows, resolverVars>>

\* The uplink, the resolver and the VMM are started.
StartGuest ==
    /\ link = "literals" /\ link' = "guest"
    /\ UNCHANGED <<rules, literal, timed, flows, resolverVars>>

-----------------------------------------------------------------------------
(* The kernel: the table's rules in their order.                           *)

\* Established flows first, then TCP into one of the sets, then rejects
Verdict(addr, tcp) ==
    CASE ~rules                                -> "accept"
      [] rules /\ addr \in flows               -> "accept"
      [] rules /\ addr \notin flows /\ tcp /\ addr \in timed \cup literal -> "accept"
      [] OTHER                                 -> "reject"

\* The guest opens a connection, or sends a datagram, to an address.
GuestSends(addr, tcp) ==
    /\ link = "guest" /\ Verdict(addr, tcp) = "accept"
    /\ flows' = flows \cup {addr}
    /\ UNCHANGED <<link, rules, literal, timed, resolverVars>>

\* A flow ends; its addresses may have expired meanwhile.
FlowEnds(addr) ==
    /\ addr \in flows
    /\ flows' = flows \ {addr}
    /\ UNCHANGED <<link, rules, literal, timed, resolverVars>>

\* An element's timeout: the TTL of the record it came from
Expire(addr) ==
    /\ addr \in timed
    /\ timed' = timed \ {addr}
    /\ UNCHANGED <<link, rules, literal, flows, resolverVars>>

-----------------------------------------------------------------------------
(* The resolver: serve, gate_query, exchange_upstream.                     *)

kernelVars == <<link, rules, literal, flows>>

\* Tasks that hold a permit
InFlight == {q \in Queries : query[q].pc \in {"gate", "upstream", "lock", "install", "reply"}}

Step(q, pc) == query' = [query EXCEPT ![q].pc = pc]

\* The answer a task has decided on
Decide(q, code) == query' = [query EXCEPT ![q].pc = "reply", ![q].code = code]

GuestAsks(q) ==
    /\ link = "guest" /\ query[q].pc = "unsent"
    /\ \E shape \in Shapes, name \in Names, aaaa \in BOOLEAN :
          /\ shape # "query" => ~aaaa /\ name = query[q].name
          /\ query' = [query EXCEPT ![q].pc = "sent", ![q].shape = shape, ![q].name = name,
                                    ![q].aaaa = aaaa]
    /\ UNCHANGED <<kernelVars, timed, lock, upstream, answered>>

\* A permit is taken before the datagram is.
Receive(q) ==
    /\ query[q].pc = "sent" /\ Cardinality(InFlight) < MaxInFlight
    /\ Step(q, "gate")
    /\ UNCHANGED <<kernelVars, timed, lock, upstream, answered>>

\* gate_query up to its forward: everything but one permitted question is
\* answered, or dropped, without the upstream.
Gate(q) ==
    LET m == query[q] IN
    /\ m.pc = "gate"
    /\ query' = [query EXCEPT ![q] =
          CASE m.shape \in {"garbage", "response"} -> [m EXCEPT !.pc = "done"]
            [] m.shape \in {"opcode", "none"}      -> [m EXCEPT !.pc = "reply", !.code = "notimp"]
            [] m.shape = "many"                    -> [m EXCEPT !.pc = "reply", !.code = "formerr"]
            [] m.shape = "query" /\ ~MatchesName(m.name) -> [m EXCEPT !.pc = "reply", !.code = "refused"]
            [] m.shape = "query" /\ MatchesName(m.name) /\ m.aaaa
                                                   -> [m EXCEPT !.pc = "reply", !.code = "empty"]
            [] OTHER                               -> [m EXCEPT !.pc = "upstream"]]
    /\ upstream' = IF query'[q].pc = "upstream" THEN upstream \cup {m.name} ELSE upstream
    /\ UNCHANGED <<kernelVars, timed, lock, answered>>

\* The upstream's answer: none in time or one that does not parse is SERVFAIL,
\* and so is its REFUSED; other errors pass; addresses go to the filter.
UpstreamAnswers(q) ==
    /\ query[q].pc = "upstream"
    /\ \/ \E code \in {"servfail", "nxdomain"} : Decide(q, code) /\ UNCHANGED answered
       \/ \E addrs \in SUBSET Addrs :
             /\ query' = [query EXCEPT ![q].pc = "lock", ![q].addrs = addrs]
             /\ answered' = answered \cup ({query[q].name} \X addrs)
    /\ UNCHANGED <<kernelVars, timed, lock, upstream>>

\* SharedProgrammer: one installation at a time
TakeLock(q) ==
    /\ query[q].pc = "lock" /\ lock = NoQuery
    /\ lock' = q
    /\ Step(q, "install")
    /\ UNCHANGED <<kernelVars, timed, upstream, answered>>

\* NftProgrammer::install: all elements in one transaction, or none; an answer
\* without addresses needs none.
Install(q) ==
    /\ query[q].pc = "install"
    /\ \/ timed' = timed \cup query[q].addrs /\ Decide(q, "noerror")
       \/ query[q].addrs # {} /\ UNCHANGED timed /\ Decide(q, "servfail")
    /\ lock' = NoQuery
    /\ UNCHANGED <<kernelVars, upstream, answered>>

\* The answer is sent, and the permit given back.
Release(q) ==
    /\ query[q].pc = "reply"
    /\ Step(q, "done")
    /\ UNCHANGED <<kernelVars, timed, lock, upstream, answered>>

ResolverStep(q) == Receive(q) \/ Gate(q) \/ UpstreamAnswers(q) \/ TakeLock(q) \/ Install(q)
                   \/ Release(q)

BringUp == PairDistinct \/ TapUp \/ ApplyRuleset \/ ApplyLiterals \/ StartGuest \/ NetworkFails

EgressNext ==
    \/ BringUp
    \/ \E addr \in Addrs : Expire(addr) \/ FlowEnds(addr) \/ \E tcp \in BOOLEAN : GuestSends(addr, tcp)
    \/ \E q \in Queries : GuestAsks(q) \/ ResolverStep(q)

EgressSpec == EgressInit /\ [][EgressNext]_egressVars

-----------------------------------------------------------------------------
(* Properties.                                                             *)

\* spec/05's table, said without stripping: the name, one label before it, or
\* at least one
Permitted(name) ==
    \E e \in Entries :
        \/ e.form = "exact" /\ name = e.suffix
        \/ e.form = "one" /\ Len(name) = Len(e.suffix) + 1 /\ Tail(name) = e.suffix
        \/ e.form = "many" /\ \E k \in 1..(Len(name) - 1) : SubSeq(name, k + 1, Len(name)) = e.suffix

\* The guest is never connected to an address that is neither a literal of the
\* allowlist nor one the upstream gave for a permitted name: not while the
\* network comes up, and whatever was asked, answered or expired before.
FlowsWereGranted ==
    flows \subseteq LiteralDestinations \cup {p[2] : p \in {r \in answered : Permitted(r[1])}}

\* A name the policy denies never leaves the host, in no shape of packet.
DeniedStaysLocal == \A name \in upstream : Permitted(name)

\* REFUSED means vivarium's policy: the guest sees it for a denied name only,
\* and always for one.
RefusedMeansPolicy ==
    \A q \in Queries : query[q].pc = "done" /\ query[q].shape = "query"
        => (query[q].code = "refused" <=> ~Permitted(query[q].name))

\* What the guest may reach, what it may ask, and what it is told.
EgressSafe == EgressTypeOK /\ FlowsWereGranted /\ DeniedStaysLocal /\ RefusedMeansPolicy
=============================================================================
