------------------------------ MODULE Launch ------------------------------
(***************************************************************************)
(* From the declared sources of a launch to the daemons that serve them.   *)
(*                                                                         *)
(* `viv start` resolves the workspaces and the credential sockets and      *)
(* builds, or boots a build it retained; records the build as the running  *)
(* one; resolves every mount the build declares; renders launch.json, and  *)
(* hands it to the supervisor, which validates it again and spawns one     *)
(* daemon per share.  Minutes pass between the first look at a path and    *)
(* the last one; the user may replace what it names at any moment.         *)
(*                                                                         *)
(* A path is a sequence of components.  fs gives each path of interest the *)
(* object it names and where it leads: to itself, or elsewhere when it is  *)
(* a symbolic link or a directory on its way is one.  A path links lead to *)
(* is not itself a link, nor reached through one.                          *)
(***************************************************************************)
EXTENDS Naturals, Sequences, FiniteSets, SequencesExt

CONSTANTS
    Workspaces,   \* paths of the manifest's [[workspaces]]
    Mounts,       \* paths of the other declared mounts
    Agents,       \* paths of the declared credential sockets
    Elsewhere,    \* other paths a link may lead to
    SessionRoots, \* /tmp, /var/tmp and the runtime directory
    GuestRoots,   \* what the guest owns (GUEST_OWNED_PATHS)
    History,      \* the contracts of the retained builds
    MaxTouches    \* bound on the user's replacements

Paths == Workspaces \cup Mounts \cup Agents \cup Elsewhere

ASSUME LaunchAssumption ==
    /\ MaxTouches \in Nat
    /\ History \subseteq [shares : SUBSET Paths, agents : SUBSET Agents]
    /\ \A p \in Paths \cup SessionRoots \cup GuestRoots : Len(p) \in Nat

VARIABLES
    fs,        \* what each path names: [kind, to]
    touches,   \* replacements so far
    moved,     \* the paths replaced since the workspaces were resolved
    replaced,  \* the paths replaced since they were last resolved
    step,      \* where the launch is
    found,     \* the workspaces resolution found
    contract,  \* what the selected build declares: [shares, agents]
    plan,      \* per declared token, the share planned for it
    legs,      \* per declared credential, the socket the launch will relay
    made,      \* what the launch has created
    record,    \* launch.json: [body, mode]
    served,    \* per token, what its daemon serves
    code       \* how the launch ended

launchVars == <<fs, touches, moved, replaced, step, found, contract, plan, legs, made, record,
                served, code>>

\* "foreign" is a socket of another user.  A path is "through" a link when a
\* directory on its way is one.
Kinds == {"dir", "file", "socket", "foreign", "none"}
Objects(p) == {[kind |-> k, to |-> p] : k \in Kinds}
              \cup {[kind |-> k, to |-> q] : k \in {"link", "through"}, q \in Elsewhere}

(***************************************************************************)
(* Path predicates                                                         *)
(***************************************************************************)
Overlaps(p, q) == IsPrefix(p, q) \/ IsPrefix(q, p)

\* std::fs::canonicalize, metadata through the link, and symlink_metadata of the
\* last component.
Canonical(p) == fs[p].to
KindAt(p) == fs[fs[p].to].kind
OwnKind(p) == IF fs[p].kind = "link" THEN "link" ELSE KindAt(p)

\* guest_owned_collision and nested_pair.
GuestOwned(p) == Len(p) = 0 \/ \E r \in GuestRoots : Overlaps(p, r)
NestedPair(ps) == \E p, q \in ps : p # q /\ Overlaps(p, q)
\* reject_session_source, and the same rule in classify_source.
InSession(p) == \E r \in SessionRoots : Overlaps(p, r)

LaunchInit ==
    /\ fs \in [Paths -> UNION {Objects(p) : p \in Paths}]
    /\ \A p \in Paths : fs[p] \in Objects(p)
    /\ \A p \in Elsewhere : fs[p].to = p
    /\ touches = 0 /\ replaced = {} /\ moved = {}
    /\ step = "resolve" /\ found = {} /\ contract = [shares |-> {}, agents |-> {}]
    /\ plan = <<>> /\ legs = <<>>
    /\ made = {} /\ served = <<>> /\ code = "none"
    /\ record = [body |-> "none", mode |-> "loose"]

Refuse(why) == step' = "over" /\ code' = why
Advance(next) == step' = next /\ UNCHANGED code
held == <<fs, touches>>
chosen == <<found, contract, moved>>

(***************************************************************************)
(* Resolution, before the build                                            *)
(***************************************************************************)

\* workspace::resolve: every workspace is a directory, is taken at its canonical
\* path, belongs to the host, and contains no other.
ResolveWorkspaces ==
    /\ step = "resolve"
    /\ LET resolved == {Canonical(w) : w \in Workspaces}
           sound == /\ \A w \in Workspaces : KindAt(w) = "dir" /\ ~GuestOwned(Canonical(w))
                    /\ ~NestedPair(resolved)
                    /\ Cardinality(resolved) = Cardinality(Workspaces) IN
       \/ /\ sound
          /\ found' = resolved /\ moved' = {}
          /\ Advance("select")
       \/ ~sound /\ Refuse("workspace") /\ UNCHANGED <<found, moved>>
    /\ UNCHANGED <<held, replaced, contract, plan, legs, made, record, served>>

\* agent_source::resolve_and_check: the exact socket object, owned by this user.
SocketOk(p) == OwnKind(p) = "socket"

\* The evaluating path: resolve_declared_agent_sockets refuses by name before
\* anything is built; the build declares the workspaces at the path resolution
\* found, and the other mounts as they were written.
EvaluateAndBuild ==
    /\ step = "select"
    /\ \/ /\ \A p \in Agents : SocketOk(p)
          /\ contract' = [shares |-> found \cup Mounts, agents |-> Agents]
          /\ Advance("record")
       \/ (\E p \in Agents : ~SocketOk(p)) /\ Refuse("credential") /\ UNCHANGED contract
    /\ UNCHANGED <<held, moved, found, replaced, plan, legs, made, record, served>>

\* --no-rebuild and --generation evaluate nothing: the contract is an older
\* build's, and the one gate of the credentials is the later one.
BootRetained ==
    /\ step = "select"
    /\ \/ contract' \in History /\ Advance("record")
       \/ Refuse("nobuild") /\ UNCHANGED contract
    /\ UNCHANGED <<held, moved, found, replaced, plan, legs, made, record, served>>

(***************************************************************************)
(* launch and execute_runner                                               *)
(***************************************************************************)

\* require_current_contract refuses a build of another schema; then the build is
\* recorded as the running one, ahead of every other refusal.
RecordBuild ==
    /\ step = "record"
    /\ \/ made' = made \cup {"running-build"} /\ Advance("mounts")
       \/ Refuse("skew") /\ UNCHANGED made
    /\ UNCHANGED <<held, chosen, replaced, plan, legs, record, served>>

\* classify_source: refused in a session directory, as spelled and as resolved.
ClassifyDefect(p) ==
    \/ InSession(p) \/ InSession(Canonical(p))
    \/ KindAt(p) \notin {"dir", "file"}

\* Mutant: a mount is planned at the path it was declared with.
PlanAsSpelled(t) ==
    [source |-> t,
     kind |-> IF KindAt(t) = "file" THEN "file" ELSE IF t \in found THEN "tree" ELSE "dir"]

\* classify_source's answer for one token, and the kind execute_runner relays: a
\* directory this resolution calls a workspace is a tree.
PlanFor(t) ==
    LET source == Canonical(t) IN
    [source |-> source,
     kind |-> IF KindAt(t) = "file" THEN "file"
              ELSE IF source \in found THEN "tree" ELSE "dir"]

\* resolve_declared_mounts, over what the selected build declares.
ResolveMounts ==
    /\ step = "mounts"
    /\ \/ /\ \A t \in contract.shares : ~ClassifyDefect(t)
          /\ plan' = [t \in contract.shares |-> PlanFor(t)]
          /\ replaced' = {}
          /\ Advance("sockets")
       \/ /\ \E t \in contract.shares : ClassifyDefect(t)
          /\ Refuse("source") /\ UNCHANGED <<plan, replaced>>
    /\ UNCHANGED <<held, chosen, legs, made, record, served>>

\* The declared credentials, which is what the launch carries: the last component
\* untouched, its directory resolved.
ResolveAgents ==
    /\ step = "sockets"
    /\ \/ /\ \A p \in contract.agents : SocketOk(p)
          /\ legs' = [p \in contract.agents |-> Canonical(p)]
          /\ Advance("render")
       \/ (\E p \in contract.agents : ~SocketOk(p)) /\ Refuse("credential") /\ UNCHANGED legs
    /\ UNCHANGED <<held, chosen, replaced, plan, made, record, served>>

\* The volume directory, then the built runner, which writes launch.json and
\* closes its mode; it may fail on the way.
RenderSpec ==
    /\ step = "render"
    /\ made' = made \cup {"volumes", "spec"}
    /\ \/ record' = [body |-> "rendered", mode |-> "private"] /\ Advance("handoff")
       \/ record' = [body |-> "torn", mode |-> "loose"] /\ Refuse("software")
    /\ UNCHANGED <<held, chosen, replaced, plan, legs, served>>

(***************************************************************************)
(* LaunchSpec::validate, on the launcher's side and on the supervisor's    *)
(***************************************************************************)
ShareDefect(t) ==
    LET s == plan[t] IN
    \/ InSession(s.source)
    \/ s.kind = "tree" /\ (GuestOwned(s.source) \/ s.source # t)
    \/ KindAt(s.source) # (IF s.kind = "file" THEN "file" ELSE "dir")

\* The other rules of the validation (programs, network, sockets, tags, volumes)
\* read only the record, which both sides hold: no rendered record breaks them.
SpecDefect ==
    \/ \E t \in DOMAIN plan : ShareDefect(t)
    \/ NestedPair({plan[t].source : t \in {u \in DOMAIN plan : plan[u].kind = "tree"}})
    \/ \E p \in DOMAIN legs : OwnKind(legs[p]) \notin {"socket", "foreign"}
    \/ \E p, q \in DOMAIN legs : p # q /\ legs[p] = legs[q]

\* handoff: read back and validate, then rewrite the record privately: the file
\* is truncated first.
ValidateHandoff ==
    /\ step = "handoff"
    /\ \/ /\ ~SpecDefect
          /\ record' = [record EXCEPT !.body = "torn"]
          /\ Advance("write")
       \/ SpecDefect /\ Refuse("usage") /\ UNCHANGED record
    /\ UNCHANGED <<held, chosen, replaced, plan, legs, made, served>>

WriteSpec ==
    /\ step = "write"
    /\ \/ record' = [record EXCEPT !.body = "validated"] /\ Advance("clear")
       \/ Refuse("ioerr") /\ UNCHANGED record
    /\ UNCHANGED <<held, chosen, replaced, plan, legs, made, served>>

\* clear_readiness_path (a socket is replaced, anything else refused), bind, and
\* the transient unit, which systemd may reject.
SubmitUnit ==
    /\ step = "clear"
    /\ \/ made' = made \cup {"unit"} /\ Advance("supervise")
       \/ \E why \in {"usage", "ioerr", "software"} : Refuse(why) /\ UNCHANGED made
    /\ UNCHANGED <<held, chosen, replaced, plan, legs, record, served>>

(***************************************************************************)
(* The supervisor                                                          *)
(***************************************************************************)

\* validate_metadata, from_json and the path comparison; prepare_runtime and
\* ConfinementProfile::new validate the same specification again.
Admissible == record = [body |-> "validated", mode |-> "private"] /\ ~SpecDefect
AdmitSpec ==
    /\ step \in {"supervise", "prepare", "profile"}
    /\ \/ /\ Admissible
          /\ Advance(CASE step = "supervise" -> "prepare" [] step = "prepare" -> "profile"
                       [] OTHER -> "open")
       \/ ~Admissible /\ Refuse("software")
    /\ UNCHANGED <<held, chosen, replaced, plan, legs, made, record, served>>

\* open_share_roots: the type of every source through a descriptor.
OpenRoots ==
    /\ step = "open"
    /\ LET typed == \A t \in DOMAIN plan :
                      KindAt(plan[t].source) = (IF plan[t].kind = "file" THEN "file" ELSE "dir") IN
       \/ typed /\ Advance("spawn")
       \/ ~typed /\ Refuse("software")
    /\ UNCHANGED <<held, chosen, replaced, plan, legs, made, record, served>>

\* One daemon opens its root by path; a staged one (stage_share) binds the file
\* as the only entry of its own export root, sealed read-only.
SpawnDaemon ==
    /\ step = "spawn"
    /\ \E t \in DOMAIN plan \ DOMAIN served :
         LET source == plan[t].source
             fits == KindAt(source) = (IF plan[t].kind = "file" THEN "file" ELSE "dir") IN
         \/ /\ fits
            /\ served' = [u \in DOMAIN served \cup {t} |->
                            IF u = t THEN [at |-> Canonical(source), kind |-> plan[t].kind,
                                           root |-> IF plan[t].kind = "file" THEN "stage" ELSE "source"]
                            ELSE served[u]]
            /\ UNCHANGED <<step, code>>
         \/ ~fits /\ Refuse("software") /\ UNCHANGED served
    /\ UNCHANGED <<held, chosen, replaced, plan, legs, made, record>>

\* Every daemon is up: prepare_boot_metadata records the trees as the boot's
\* workspace set.
RecordBoot ==
    /\ step = "spawn" /\ DOMAIN served = DOMAIN plan
    /\ step' = "over" /\ code' = "success"
    /\ made' = made \cup {"boot"}
    /\ UNCHANGED <<held, chosen, replaced, plan, legs, record, served>>

BootSet == {plan[t].source : t \in {u \in DOMAIN plan : plan[u].kind = "tree"}}

(***************************************************************************)
(* The environment                                                         *)
(***************************************************************************)

\* The user replaces what a path names, or a directory on its way.
Touch(p) ==
    /\ touches < MaxTouches
    /\ touches' = touches + 1
    /\ \E o \in Objects(p) \ {fs[p]} :
         (p \in Elsewhere => o.to = p) /\ fs' = [fs EXCEPT ![p] = o]
    /\ replaced' = replaced \cup {p} /\ moved' = moved \cup {p}
    /\ step # "over"
    /\ UNCHANGED <<step, found, contract, plan, legs, made, record, served, code>>

LaunchNext ==
    \/ ResolveWorkspaces \/ EvaluateAndBuild \/ BootRetained \/ RecordBuild
    \/ ResolveMounts \/ ResolveAgents \/ RenderSpec
    \/ ValidateHandoff \/ WriteSpec \/ SubmitUnit \/ AdmitSpec \/ OpenRoots \/ SpawnDaemon
    \/ RecordBoot
    \/ \E p \in Paths : Touch(p)

LaunchSpec == LaunchInit /\ [][LaunchNext]_launchVars
----------------------------------------------------------------------------
LaunchTypeOK ==
    /\ \A p \in Paths : fs[p] \in Objects(p)
    /\ replaced \subseteq Paths /\ moved \subseteq Paths /\ found \subseteq Paths
    /\ contract \in [shares : SUBSET Paths, agents : SUBSET Agents]
    /\ DOMAIN legs \subseteq contract.agents
    /\ made \subseteq {"running-build", "volumes", "spec", "unit", "boot"}
    /\ DOMAIN served \subseteq DOMAIN plan
    /\ code \in {"none", "workspace", "credential", "nobuild", "skew", "source", "software",
                "usage", "ioerr", "success"}

\* A daemon serves what was vetted last, from whichever build the declarations
\* come: the resolved path itself, outside every session directory, and for a
\* tree outside what the guest owns.  Only a replacement of that path, or of a
\* directory on its way, between resolve_declared_mounts and the daemon's own
\* open can change this: open_share_roots reads the type again, not the place.
ServedIsVetted ==
    \A t \in DOMAIN served : plan[t].source \notin replaced =>
        /\ served[t].at = plan[t].source
        /\ ~InSession(served[t].at)
        /\ served[t].kind = "tree" => ~GuestOwned(served[t].at)

\* "Before anything is created": a launch refused for a source or a credential
\* of the selected build has left no volume directory, no launch.json and no
\* unit.  The record of the running build it has left: launch writes that ahead
\* of execute_runner, and only a refused workspace, build or contract schema
\* leaves nothing at all.
RefusedLeavesNothing ==
    /\ code \in {"workspace", "nobuild", "skew"} => made = {}
    /\ code \in {"source", "credential"} => made \subseteq {"running-build"}

\* The set a boot records is the set resolution found, which reusable() compares
\* it with on every later exec, when the selected build declares that set: no
\* spelling of a path unmakes a workspace.  An older build may declare fewer, and
\* then the boot records fewer; no boot records a tree resolution did not find.
BootSetAgrees ==
    "boot" \in made =>
        /\ BootSet \subseteq found
        /\ found \cap moved = {} /\ found \subseteq contract.shares => BootSet = found

\* A booted guest has every credential its build declares: none is silently
\* absent, and none is relayed from two declarations at once.
CredentialsCarried ==
    "boot" \in made => /\ DOMAIN legs = contract.agents
                       /\ \A p, q \in DOMAIN legs : legs[p] = legs[q] => p = q

\* No two trees of one guest contain each other, whatever the links led to.
TreesAreDisjoint ==
    "boot" \in made => \A p, q \in BootSet : p # q => ~Overlaps(p, q)

\* Nobody supervises a record that was not validated and written in full: a
\* launcher that stopped in the middle of the rewrite has submitted no unit.
RunsValidatedSpec ==
    "unit" \in made => record = [body |-> "validated", mode |-> "private"]

\* The promises of a launch at every state: the six above.
LaunchSafe ==
    /\ LaunchTypeOK
    /\ ServedIsVetted /\ RefusedLeavesNothing /\ BootSetAgrees
    /\ CredentialsCarried /\ TreesAreDisjoint /\ RunsValidatedSpec
=============================================================================
