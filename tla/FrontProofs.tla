----------------------------- MODULE FrontProofs -----------------------------
(***************************************************************************)
(* Theorems of what stands before and around a guest.  Launch: which       *)
(* sources a daemon may serve, for any set of workspaces, mounts, links    *)
(* and credential sockets, and any number of replacements under its feet.  *)
(* Fleet: what stop --all and status claim of any number of sandboxes.     *)
(***************************************************************************)
EXTENDS Launch, Fleet, SequenceTheorems, FiniteSetTheorems, TLAPS

\* The steps of a launch, in order
Choosing  == {"resolve", "select", "record"}
Resolving == Choosing \cup {"mounts"}
Unmade    == Resolving \cup {"sockets", "render"}
Written   == {"clear", "supervise", "prepare", "profile", "open", "spawn"}
Steps     == Unmade \cup {"handoff", "write"} \cup Written \cup {"over"}

ObjectType == [kind : Kinds \cup {"link", "through"}, to : Paths]

Codes == {"none", "workspace", "credential", "nobuild", "skew", "source", "software", "usage",
          "ioerr", "success"}
Things == {"running-build", "volumes", "spec", "unit", "boot"}

LaunchTypes ==
    /\ fs \in [Paths -> ObjectType] /\ \A p \in Paths : fs[p] \in Objects(p)
    /\ \A p \in Elsewhere : fs[p].to = p
    /\ replaced \subseteq Paths /\ moved \subseteq Paths /\ found \subseteq Paths
    /\ contract \in [shares : SUBSET Paths, agents : SUBSET Agents]
    /\ DOMAIN legs \subseteq contract.agents
    /\ made \subseteq Things
    /\ record \in [body : {"none", "torn", "rendered", "validated"}, mode : {"loose", "private"}]
    /\ DOMAIN served \subseteq DOMAIN plan
    /\ code \in Codes
    /\ step \in Steps

\* What resolution found belongs to the host and is not nested; a workspace that
\* nobody replaced since is the directory it was.
FoundIsSound ==
    /\ \A w \in found : ~GuestOwned(w)
    /\ ~NestedPair(found)
    /\ \A w \in found \ moved : fs[w] = [kind |-> "dir", to |-> w]

\* Every planned source was resolved, and is where it was unless it was replaced;
\* the trees are workspaces this resolution found.
PlanIsSound ==
    \A t \in DOMAIN plan :
        /\ ~InSession(plan[t].source)
        /\ plan[t].kind = "tree" => plan[t].source \in found
        /\ plan[t].source \in Paths
        /\ plan[t].source \notin replaced => Canonical(plan[t].source) = plan[t].source

\* Every workspace the build declares and nobody replaced is planned as a tree,
\* at its own path.
PlanIsComplete ==
    \A w \in (found \cap contract.shares) \ moved :
        w \in DOMAIN plan /\ plan[w].source = w /\ plan[w].kind = "tree"

LegsDiffer == \A p, q \in DOMAIN legs : legs[p] = legs[q] => p = q

\* What each step has behind it and what it has not done yet
InOrder ==
    /\ step # "over" => code = "none" /\ "boot" \notin made
    /\ step \in Choosing => made = {}
    /\ step \in Unmade => made \subseteq {"running-build"}
    /\ step \in Choosing \cup {"mounts", "sockets"} => DOMAIN legs = {}
    /\ step \in Resolving => DOMAIN plan = {}
    /\ step \notin {"spawn", "over"} => DOMAIN served = {}
    /\ step \notin Resolving \cup {"over"} => PlanIsComplete
    /\ step \notin Resolving \cup {"sockets", "over"} => DOMAIN legs = contract.agents
    /\ step \in {"handoff", "write", "clear"} => "unit" \notin made
    /\ step \in {"write"} \cup Written => LegsDiffer
    /\ step \in {"handoff", "write"} => record.mode = "private"
    /\ step \in Written => record = [body |-> "validated", mode |-> "private"]

\* The inductive invariant.
LaunchInv ==
    /\ LaunchTypes /\ FoundIsSound /\ PlanIsSound /\ InOrder
    /\ ServedIsVetted /\ RefusedLeavesNothing /\ BootSetAgrees
    /\ CredentialsCarried /\ RunsValidatedSpec

-----------------------------------------------------------------------------
(* Canonical paths.                                                        *)

\* Links lead to paths that are their own: canonicalization is idempotent.
LEMMA CanonicalFacts ==
    ASSUME LaunchTypes, NEW p \in Paths
    PROVE  /\ Canonical(p) \in Paths
           /\ Canonical(Canonical(p)) = Canonical(p)
<1>1. fs[p].to = p \/ fs[p].to \in Elsewhere BY DEF LaunchTypes, Objects
<1>2. ASSUME NEW q \in Elsewhere PROVE fs[q].to = q /\ q \in Paths
  BY DEF LaunchTypes, Paths
<1>3. QED BY <1>1, <1>2 DEF Canonical

-----------------------------------------------------------------------------
(* The steps.                                                              *)

\* A step that resolves, plans and serves nothing.
LEMMA QuietStep ==
    ASSUME LaunchInv, UNCHANGED <<fs, moved, replaced, found, plan, served>>
    PROVE  /\ FoundIsSound' /\ PlanIsSound' /\ ServedIsVetted'
           /\ contract' = contract => (PlanIsComplete' <=> PlanIsComplete)
           /\ BootSet' = BootSet
BY DEF LaunchInv, FoundIsSound, PlanIsSound, PlanIsComplete, ServedIsVetted, Canonical, BootSet

\* A refusal keeps what was made, and that is little enough for its code.
LEMMA RefuseInv ==
    ASSUME LaunchInv, NEW why \in Codes \ {"none", "success"}, Refuse(why), step # "over",
           UNCHANGED <<fs, moved, replaced, found, contract, plan, legs, served>>,
           made' \subseteq Things, "boot" \notin made',
           record' \in [body : {"none", "torn", "rendered", "validated"},
                        mode : {"loose", "private"}],
           why \in {"workspace", "nobuild", "skew"} => made' = {},
           why \in {"source", "credential"} => made' \subseteq {"running-build"},
           "unit" \in made' => record' = [body |-> "validated", mode |-> "private"]
    PROVE  LaunchInv'
<1>1. step' = "over" /\ code' = why BY DEF Refuse
<1>2. LaunchTypes' BY <1>1 DEF LaunchInv, LaunchTypes, Steps, Codes
<1>3. InOrder' BY <1>1 DEF InOrder, Unmade, Resolving, Choosing, Written
<1>4. QED
  BY <1>1, <1>2, <1>3, QuietStep
  DEF LaunchInv, RefusedLeavesNothing, BootSetAgrees, CredentialsCarried, RunsValidatedSpec

\* A step that goes on.
LEMMA AdvanceInv ==
    ASSUME LaunchInv, NEW next \in Steps \ {"over"}, Advance(next), step # "over",
           UNCHANGED <<fs, moved, replaced, found, contract, plan, served>>,
           made' \subseteq Things, "boot" \notin made', DOMAIN legs' \subseteq contract.agents,
           record' \in [body : {"none", "torn", "rendered", "validated"},
                        mode : {"loose", "private"}],
           InOrder', "unit" \in made' => record' = [body |-> "validated", mode |-> "private"]
    PROVE  LaunchInv'
<1>1. step' = next /\ code' = "none" BY DEF Advance, LaunchInv, InOrder
<1>2. LaunchTypes' BY <1>1 DEF LaunchInv, LaunchTypes, Codes
<1>3. QED
  BY <1>1, <1>2, QuietStep
  DEF LaunchInv, RefusedLeavesNothing, BootSetAgrees, CredentialsCarried, RunsValidatedSpec

\* Resolution of the workspaces.
LEMMA WorkspacesInv ==
    ASSUME LaunchInv, ResolveWorkspaces
    PROVE  LaunchInv'
<1> DEFINE resolved == {Canonical(w) : w \in Workspaces}
<1>1. /\ step = "resolve"
      /\ UNCHANGED <<fs, touches, replaced, contract, plan, legs, made, record, served>>
      /\ code = "none" /\ made = {} /\ DOMAIN plan = {} /\ DOMAIN served = {} /\ DOMAIN legs = {}
  BY DEF ResolveWorkspaces, held, LaunchInv, InOrder, Unmade, Resolving, Choosing
<1>2. CASE /\ \A w \in Workspaces : KindAt(w) = "dir" /\ ~GuestOwned(Canonical(w))
           /\ ~NestedPair(resolved)
           /\ found' = resolved /\ moved' = {}
           /\ Advance("select")
  <2>1. step' = "select" /\ code' = "none" BY <1>1, <1>2 DEF Advance
  <2>2. ASSUME NEW w \in Workspaces
        PROVE  /\ Canonical(w) \in Paths /\ ~GuestOwned(Canonical(w))
               /\ fs[Canonical(w)] = [kind |-> "dir", to |-> Canonical(w)]
    <3>1. w \in Paths BY DEF Paths
    <3>2. Canonical(w) \in Paths /\ Canonical(Canonical(w)) = Canonical(w)
      BY <3>1, CanonicalFacts DEF LaunchInv
    <3>3. fs[Canonical(w)].kind = "dir" /\ fs[Canonical(w)].to = Canonical(w)
      BY <1>2, <3>2 DEF KindAt, Canonical
    <3>4. fs[Canonical(w)] \in ObjectType BY <3>2 DEF LaunchInv, LaunchTypes
    <3>5. QED BY <1>2, <3>2, <3>3, <3>4 DEF ObjectType
  <2>3. LaunchTypes'
    <3>1. found' \subseteq Paths BY <1>2, <2>2
    <3>2. moved' \subseteq Paths /\ step' \in Steps /\ code' \in Codes
      BY <1>2, <2>1 DEF Steps, Unmade, Resolving, Choosing, Codes
    <3>3. LaunchTypes BY DEF LaunchInv
    <3>4. QED BY ONLY <1>1, <3>1, <3>2, <3>3 DEF LaunchTypes, Objects
  <2>4. FoundIsSound' BY <1>1, <1>2, <2>2 DEF FoundIsSound
  <2>5. PlanIsSound' /\ ServedIsVetted' BY <1>1 DEF PlanIsSound, ServedIsVetted
  <2>6. InOrder' BY <1>1, <2>1 DEF InOrder, Unmade, Resolving, Choosing, Written
  <2>7. QED
    BY <1>1, <2>1, <2>3, <2>4, <2>5, <2>6
    DEF LaunchInv, RefusedLeavesNothing, BootSetAgrees, CredentialsCarried, RunsValidatedSpec
<1>3. CASE Refuse("workspace") /\ UNCHANGED <<found, moved>>
  BY <1>1, <1>3, RefuseInv DEF LaunchInv, LaunchTypes, Codes
<1>4. QED BY <1>2, <1>3 DEF ResolveWorkspaces

\* The build is selected: evaluated and built, or taken from the history.
LEMMA SelectInv ==
    ASSUME LaunchInv, EvaluateAndBuild \/ BootRetained
    PROVE  LaunchInv'
<1>1. /\ step = "select"
      /\ UNCHANGED <<fs, touches, moved, replaced, found, plan, legs, made, record, served>>
      /\ code = "none" /\ made = {} /\ DOMAIN plan = {} /\ DOMAIN served = {} /\ DOMAIN legs = {}
  BY DEF EvaluateAndBuild, BootRetained, held, LaunchInv, InOrder, Unmade, Resolving, Choosing
<1>2. ASSUME NEW why \in {"credential", "nobuild"}, Refuse(why), UNCHANGED contract
      PROVE  LaunchInv'
  BY <1>1, <1>2, RefuseInv DEF LaunchInv, LaunchTypes, Codes
<1>3. ASSUME Advance("record"), contract' \in [shares : SUBSET Paths, agents : SUBSET Agents]
      PROVE  LaunchInv'
  <2>1. step' = "record" /\ code' = "none" BY <1>1, <1>3 DEF Advance
  <2>2. LaunchTypes'
    BY <1>1, <1>3, <2>1 DEF LaunchInv, LaunchTypes, Steps, Unmade, Resolving, Choosing
  <2>3. InOrder' BY <1>1, <2>1 DEF InOrder, Unmade, Resolving, Choosing, Written
  <2>4. QED
    BY <1>1, <2>1, <2>2, <2>3, QuietStep
    DEF LaunchInv, RefusedLeavesNothing, BootSetAgrees, CredentialsCarried, RunsValidatedSpec
<1>4. CASE EvaluateAndBuild
  <2>1. found \cup Mounts \subseteq Paths BY DEF LaunchInv, LaunchTypes, Paths
  <2>2. [shares |-> found \cup Mounts, agents |-> Agents]
          \in [shares : SUBSET Paths, agents : SUBSET Agents]
    BY <2>1
  <2>3. QED BY <1>2, <1>3, <1>4, <2>2 DEF EvaluateAndBuild
<1>5. CASE BootRetained BY <1>2, <1>3, <1>5, LaunchAssumption DEF BootRetained
<1>6. QED BY <1>4, <1>5

\* The other steps of the launcher and of the supervisor that only look, write a
\* record, or create something.
LEMMA LookInv ==
    ASSUME LaunchInv,
           \/ RecordBuild \/ ResolveAgents \/ RenderSpec \/ ValidateHandoff \/ WriteSpec
           \/ SubmitUnit \/ AdmitSpec \/ OpenRoots
    PROVE  LaunchInv'
<1>1. UNCHANGED <<fs, touches, moved, replaced, found, contract, plan, served>>
  BY DEF RecordBuild, ResolveAgents, RenderSpec, ValidateHandoff, WriteSpec, SubmitUnit,
         AdmitSpec, OpenRoots, held, chosen
<1>2. step # "over" /\ code = "none" /\ "boot" \notin made
  BY DEF RecordBuild, ResolveAgents, RenderSpec, ValidateHandoff, WriteSpec, SubmitUnit,
         AdmitSpec, OpenRoots, LaunchInv, InOrder
<1>3. /\ made \subseteq Things /\ DOMAIN legs \subseteq contract.agents
      /\ record \in [body : {"none", "torn", "rendered", "validated"}, mode : {"loose", "private"}]
      /\ InOrder /\ RunsValidatedSpec
  BY DEF LaunchInv, LaunchTypes
<1>4. PlanIsComplete' <=> PlanIsComplete BY <1>1, QuietStep
<1>5. ASSUME NEW why \in Codes \ {"none", "success"}, Refuse(why), UNCHANGED <<legs, record, made>>,
             why \in {"workspace", "nobuild", "skew"} => made = {},
             why \in {"source", "credential"} => made \subseteq {"running-build"}
      PROVE  LaunchInv'
  BY <1>1, <1>2, <1>3, <1>5, RefuseInv DEF RunsValidatedSpec
<1>6. CASE RecordBuild
  <2>1. /\ step = "record" /\ UNCHANGED <<legs, record>> /\ made = {}
        /\ DOMAIN plan = {} /\ DOMAIN served = {} /\ DOMAIN legs = {}
    BY <1>3, <1>6 DEF RecordBuild, InOrder, Unmade, Resolving, Choosing
  <2>2. CASE Refuse("skew") /\ UNCHANGED made BY <1>5, <2>1, <2>2 DEF Codes
  <2>3. CASE made' = made \cup {"running-build"} /\ Advance("mounts")
    <3>1. step' = "mounts" /\ code' = code /\ made' = {"running-build"}
      BY <2>1, <2>3 DEF Advance
    <3>2. InOrder'
      BY <1>1, <1>2, <2>1, <3>1 DEF InOrder, Unmade, Resolving, Choosing, Written
    <3>3. QED
      BY <1>1, <1>2, <1>3, <2>1, <2>3, <3>1, <3>2, AdvanceInv
      DEF Things, Steps, Unmade, Resolving
  <2>4. QED BY <1>6, <2>2, <2>3 DEF RecordBuild
<1>7. CASE ResolveAgents
  <2>1. /\ step = "sockets" /\ UNCHANGED <<made, record>> /\ made \subseteq {"running-build"}
        /\ PlanIsComplete /\ DOMAIN served = {}
    BY <1>3, <1>7 DEF ResolveAgents, InOrder, Unmade, Resolving, Choosing
  <2>2. CASE Refuse("credential") /\ UNCHANGED legs BY <1>5, <2>1, <2>2 DEF Codes
  <2>3. CASE legs' = [p \in contract.agents |-> Canonical(p)] /\ Advance("render")
    <3>1. step' = "render" /\ code' = code BY <2>3 DEF Advance
    <3>2. DOMAIN legs' = contract.agents BY <2>3
    <3>3. InOrder'
      BY <1>1, <1>2, <1>4, <2>1, <3>1, <3>2 DEF InOrder, Unmade, Resolving, Choosing, Written
    <3>4. QED
      BY <1>1, <1>2, <1>3, <2>1, <2>3, <3>1, <3>2, <3>3, AdvanceInv
      DEF Things, Steps, Unmade, Resolving
  <2>4. QED BY <1>7, <2>2, <2>3 DEF ResolveAgents
<1>8. CASE RenderSpec
  <2>1. /\ step = "render" /\ UNCHANGED legs /\ made' = made \cup {"volumes", "spec"}
        /\ made \subseteq {"running-build"}
        /\ PlanIsComplete /\ DOMAIN legs = contract.agents /\ DOMAIN served = {}
    BY <1>3, <1>8 DEF RenderSpec, InOrder, Unmade, Resolving, Choosing
  <2>2. made' \subseteq Things /\ "boot" \notin made' /\ "unit" \notin made' BY <2>1 DEF Things
  <2>3. CASE record' = [body |-> "torn", mode |-> "loose"] /\ Refuse("software")
    BY <1>1, <1>2, <2>1, <2>2, <2>3, RefuseInv DEF Codes
  <2>4. CASE record' = [body |-> "rendered", mode |-> "private"] /\ Advance("handoff")
    <3>1. step' = "handoff" /\ code' = code BY <2>4 DEF Advance
    <3>2. record'.mode = "private" BY <2>4
    <3>3. InOrder'
      BY <1>1, <1>2, <1>4, <2>1, <2>2, <3>1, <3>2 DEF InOrder, Unmade, Resolving, Choosing, Written
    <3>4. QED
      BY <1>1, <1>2, <1>3, <2>1, <2>2, <2>4, <3>1, <3>3, AdvanceInv DEF Steps
  <2>5. QED BY <1>8, <2>3, <2>4 DEF RenderSpec
<1>9. CASE ValidateHandoff
  <2>1. /\ step = "handoff" /\ UNCHANGED <<legs, made>> /\ "unit" \notin made
        /\ PlanIsComplete /\ DOMAIN legs = contract.agents /\ record.mode = "private"
        /\ DOMAIN served = {}
    BY <1>3, <1>9 DEF ValidateHandoff, InOrder, Unmade, Resolving, Choosing
  <2>2. CASE Refuse("usage") /\ UNCHANGED record BY <1>5, <2>1, <2>2 DEF Codes
  <2>3. CASE ~SpecDefect /\ record' = [record EXCEPT !.body = "torn"] /\ Advance("write")
    <3>1. step' = "write" /\ code' = code BY <2>3 DEF Advance
    <3>2. /\ record'.mode = "private"
          /\ record' \in [body : {"none", "torn", "rendered", "validated"},
                          mode : {"loose", "private"}]
      BY <1>3, <2>1, <2>3
    <3>3. LegsDiffer' BY <2>1, <2>3 DEF SpecDefect, LegsDiffer
    <3>4. InOrder'
      BY <1>1, <1>2, <1>4, <2>1, <3>1, <3>2, <3>3
      DEF InOrder, Unmade, Resolving, Choosing, Written
    <3>5. QED
      BY <1>1, <1>2, <1>3, <2>1, <2>3, <3>1, <3>2, <3>4, AdvanceInv DEF Steps
  <2>4. QED BY <1>9, <2>2, <2>3 DEF ValidateHandoff
<1>10. CASE WriteSpec
  <2>1. /\ step = "write" /\ UNCHANGED <<legs, made>> /\ "unit" \notin made
        /\ PlanIsComplete /\ DOMAIN legs = contract.agents /\ record.mode = "private"
        /\ DOMAIN served = {} /\ LegsDiffer
    BY <1>3, <1>10 DEF WriteSpec, InOrder, Unmade, Resolving, Choosing
  <2>2. CASE Refuse("ioerr") /\ UNCHANGED record BY <1>5, <2>1, <2>2 DEF Codes
  <2>3. CASE record' = [record EXCEPT !.body = "validated"] /\ Advance("clear")
    <3>1. step' = "clear" /\ code' = code BY <2>3 DEF Advance
    <3>2. record' = [body |-> "validated", mode |-> "private"] BY <1>3, <2>1, <2>3
    <3>3. InOrder'
      BY <1>1, <1>2, <1>4, <2>1, <3>1, <3>2
      DEF InOrder, Unmade, Resolving, Choosing, Written, LegsDiffer
    <3>4. QED
      BY <1>1, <1>2, <1>3, <2>1, <2>3, <3>1, <3>2, <3>3, AdvanceInv DEF Steps, Written
  <2>4. QED BY <1>10, <2>2, <2>3 DEF WriteSpec
<1>11. ASSUME step \in Written, UNCHANGED <<legs, record>>
       PROVE  /\ record = [body |-> "validated", mode |-> "private"]
              /\ PlanIsComplete /\ DOMAIN legs = contract.agents /\ LegsDiffer /\ LegsDiffer'
  BY <1>3, <1>11 DEF InOrder, Unmade, Resolving, Choosing, Written, LegsDiffer
<1>12. CASE SubmitUnit
  <2>1. step = "clear" /\ UNCHANGED <<legs, record>> BY <1>12 DEF SubmitUnit
  <2>2. step \in Written /\ DOMAIN served = {} BY <1>3, <2>1 DEF Written, InOrder
  <2>3. ASSUME NEW why \in {"usage", "ioerr", "software"}, Refuse(why), UNCHANGED made
        PROVE  LaunchInv'
    BY <1>5, <2>1, <2>3 DEF Codes
  <2>4. CASE made' = made \cup {"unit"} /\ Advance("supervise")
    <3>1. /\ step' = "supervise" /\ code' = code /\ "boot" \notin made' /\ made' \subseteq Things
      BY <1>2, <1>3, <2>4 DEF Advance, Things
    <3>2. InOrder'
      BY <1>1, <1>2, <1>4, <1>11, <2>1, <2>2, <3>1
      DEF InOrder, Unmade, Resolving, Choosing, Written
    <3>3. QED
      BY <1>1, <1>2, <1>3, <1>11, <2>1, <2>2, <2>4, <3>1, <3>2, AdvanceInv DEF Steps, Written
  <2>5. QED BY <1>12, <2>3, <2>4 DEF SubmitUnit
<1>13. CASE AdmitSpec \/ OpenRoots
  <2>1. /\ step \in {"supervise", "prepare", "profile", "open"} /\ UNCHANGED <<legs, made, record>>
    BY <1>13 DEF AdmitSpec, OpenRoots
  <2>2. step \in Written /\ DOMAIN served = {} BY <1>3, <2>1 DEF Written, InOrder
  <2>3. CASE Refuse("software") BY <1>5, <2>1, <2>3 DEF Codes
  <2>4. ASSUME NEW next \in {"prepare", "profile", "open", "spawn"}, Advance(next)
        PROVE  LaunchInv'
    <3>1. step' = next /\ code' = code BY <2>4 DEF Advance
    <3>2. InOrder'
      BY <1>1, <1>2, <1>4, <1>11, <2>1, <2>2, <3>1
      DEF InOrder, Unmade, Resolving, Choosing, Written
    <3>3. QED
      BY <1>1, <1>2, <1>3, <1>11, <2>1, <2>2, <2>4, <3>1, <3>2, AdvanceInv DEF Steps, Written
  <2>5. QED BY <1>13, <2>3, <2>4 DEF AdmitSpec, OpenRoots
<1>14. QED BY <1>6, <1>7, <1>8, <1>9, <1>10, <1>12, <1>13

\* The boot is recorded: every daemon of a complete plan is up.
LEMMA BootInv ==
    ASSUME LaunchInv, RecordBoot
    PROVE  LaunchInv'
<1>1. /\ step = "spawn" /\ step' = "over" /\ code' = "success" /\ made' = made \cup {"boot"}
      /\ UNCHANGED <<fs, touches, moved, replaced, found, contract, plan, served, legs, record>>
  BY DEF RecordBoot, held, chosen
<1>2. /\ record = [body |-> "validated", mode |-> "private"]
      /\ PlanIsComplete /\ DOMAIN legs = contract.agents /\ LegsDiffer
  BY <1>1 DEF LaunchInv, InOrder, Unmade, Resolving, Choosing, Written
<1>3. LaunchTypes' BY <1>1 DEF LaunchInv, LaunchTypes, Steps, Codes, Things
<1>4. InOrder' BY <1>1 DEF InOrder, Unmade, Resolving, Choosing, Written
<1>5. BootSetAgrees'
  <2>1. found \cap moved = {} /\ found \subseteq contract.shares => found \subseteq BootSet
    BY <1>2 DEF PlanIsComplete, BootSet
  <2>2. BootSet \subseteq found BY DEF LaunchInv, PlanIsSound, BootSet
  <2>3. BootSet' = BootSet BY <1>1, QuietStep
  <2>4. QED BY <1>1, <2>1, <2>2, <2>3 DEF BootSetAgrees
<1>6. CredentialsCarried' BY <1>1, <1>2 DEF CredentialsCarried, LegsDiffer
<1>7. QED
  BY <1>1, <1>2, <1>3, <1>4, <1>5, <1>6, QuietStep
  DEF LaunchInv, RefusedLeavesNothing, RunsValidatedSpec

\* The declared mounts are resolved: a workspace that nobody replaced is planned
\* where it was found, as a tree.
LEMMA MountsInv ==
    ASSUME LaunchInv, ResolveMounts
    PROVE  LaunchInv'
<1>1. /\ step = "mounts"
      /\ UNCHANGED <<fs, touches, moved, found, contract, legs, made, record, served>>
      /\ code = "none" /\ made \subseteq {"running-build"} /\ DOMAIN plan = {}
      /\ DOMAIN served = {} /\ DOMAIN legs = {}
  BY DEF ResolveMounts, held, chosen, LaunchInv, InOrder, Unmade, Resolving
<1> DEFINE Declared == contract.shares
<1>2. CASE /\ \A t \in Declared : ~ClassifyDefect(t)
           /\ plan' = [t \in Declared |-> PlanFor(t)]
           /\ replaced' = {}
           /\ Advance("sockets")
  <2>1. step' = "sockets" /\ code' = "none" BY <1>1, <1>2 DEF Advance
  <2>2. Declared \subseteq Paths BY DEF LaunchInv, LaunchTypes
  <2>3. ASSUME NEW t \in Declared
        PROVE  /\ plan'[t].source = Canonical(t)
               /\ plan'[t].kind = (IF KindAt(t) = "file" THEN "file"
                                   ELSE IF Canonical(t) \in found THEN "tree" ELSE "dir")
    BY <1>2 DEF PlanFor
  <2>4. DOMAIN plan' = Declared BY <1>2
  <2>5. LaunchTypes'
    BY <1>1, <1>2, <2>1 DEF LaunchInv, LaunchTypes, Steps, Unmade, Resolving, Codes
  <2>6. FoundIsSound' BY <1>1 DEF LaunchInv, FoundIsSound
  <2>7. PlanIsSound'
    <3>1. ASSUME NEW t \in Declared
          PROVE  /\ ~InSession(plan'[t].source)
                 /\ plan'[t].kind = "tree" => plan'[t].source \in found
                 /\ plan'[t].source \in Paths
                 /\ fs[plan'[t].source].to = plan'[t].source
      <4>1. Canonical(t) \in Paths /\ Canonical(Canonical(t)) = Canonical(t)
        BY <2>2, CanonicalFacts DEF LaunchInv
      <4>2. ~InSession(Canonical(t)) BY <1>2 DEF ClassifyDefect
      <4>3. QED BY <2>3, <4>1, <4>2 DEF Canonical
    <3>2. QED BY <1>1, <2>4, <3>1 DEF PlanIsSound, Canonical
  <2>8. PlanIsComplete'
    <3>1. ASSUME NEW w \in found \cap Declared, w \notin moved
          PROVE  w \in Declared /\ plan'[w].source = w /\ plan'[w].kind = "tree"
      <4>1. fs[w] = [kind |-> "dir", to |-> w] BY <3>1 DEF LaunchInv, FoundIsSound
      <4>2. Canonical(w) = w /\ KindAt(w) = "dir" BY <4>1 DEF Canonical, KindAt
      <4>3. QED BY <2>3, <3>1, <4>2
    <3>2. QED BY <1>1, <2>4, <3>1 DEF PlanIsComplete
  <2>9. InOrder' BY <1>1, <2>1, <2>8 DEF InOrder, Unmade, Resolving, Choosing, Written
  <2>10. QED
    BY <1>1, <2>1, <2>5, <2>6, <2>7, <2>9
    DEF LaunchInv, ServedIsVetted, RefusedLeavesNothing, BootSetAgrees, CredentialsCarried,
        RunsValidatedSpec
<1>3. CASE Refuse("source") /\ UNCHANGED <<plan, replaced>>
  <2>1. made \subseteq Things /\ "boot" \notin made /\ "unit" \notin made BY <1>1 DEF Things
  <2>2. QED BY <1>1, <1>3, <2>1, RefuseInv DEF LaunchInv, LaunchTypes, Codes
<1>4. QED BY <1>2, <1>3 DEF ResolveMounts

\* A daemon opens its root: what it serves is the planned source, unless that
\* was replaced.
LEMMA SpawnInv ==
    ASSUME LaunchInv, SpawnDaemon
    PROVE  LaunchInv'
<1>1. /\ step = "spawn" /\ code = "none" /\ "boot" \notin made
      /\ UNCHANGED <<fs, touches, moved, replaced, found, contract, plan, legs, made, record>>
  BY DEF SpawnDaemon, held, chosen, LaunchInv, InOrder
<1>2. FoundIsSound' /\ PlanIsSound' /\ (PlanIsComplete' <=> PlanIsComplete)
  BY <1>1 DEF LaunchInv, FoundIsSound, PlanIsSound, PlanIsComplete, Canonical
<1>3. CASE Refuse("software") /\ UNCHANGED served
  BY <1>1, <1>3, RefuseInv DEF LaunchInv, LaunchTypes, RunsValidatedSpec, Codes
<1>4. ASSUME NEW t \in DOMAIN plan \ DOMAIN served, UNCHANGED <<step, code>>,
             served' = [u \in DOMAIN served \cup {t} |->
                          IF u = t THEN [at |-> Canonical(plan[t].source), kind |-> plan[t].kind,
                                         root |-> IF plan[t].kind = "file" THEN "stage" ELSE "source"]
                          ELSE served[u]]
      PROVE  LaunchInv'
  <2>1. /\ DOMAIN served' = DOMAIN served \cup {t}
        /\ served'[t].at = Canonical(plan[t].source) /\ served'[t].kind = plan[t].kind
        /\ \A u \in DOMAIN served : u # t => served'[u] = served[u]
    BY <1>4
  <2>2. LaunchTypes' BY <1>1, <1>4, <2>1 DEF LaunchInv, LaunchTypes
  <2>3. ServedIsVetted'
    <3>1. ASSUME plan[t].source \notin replaced
          PROVE  /\ served'[t].at = plan[t].source
                 /\ ~InSession(served'[t].at)
                 /\ served'[t].kind = "tree" => ~GuestOwned(served'[t].at)
      BY <2>1, <3>1 DEF LaunchInv, PlanIsSound, FoundIsSound
    <3>2. QED BY <1>1, <2>1, <3>1 DEF ServedIsVetted, LaunchInv
  <2>4. InOrder'
    BY <1>1, <1>2, <1>4 DEF LaunchInv, InOrder, Unmade, Resolving, Choosing, Written, LegsDiffer
  <2>5. QED
    BY <1>1, <1>2, <1>4, <2>2, <2>3, <2>4
    DEF LaunchInv, RefusedLeavesNothing, BootSetAgrees, CredentialsCarried, RunsValidatedSpec
<1>5. QED BY <1>3, <1>4 DEF SpawnDaemon

\* The user replaces what a path names: what rests on that path is marked so.
LEMMA TouchInv ==
    ASSUME LaunchInv, NEW p \in Paths, Touch(p)
    PROVE  LaunchInv'
<1>1. PICK o \in Objects(p) : (p \in Elsewhere => o.to = p) /\ fs' = [fs EXCEPT ![p] = o]
  BY DEF Touch
<1>2. /\ replaced' = replaced \cup {p} /\ moved' = moved \cup {p} /\ step # "over"
      /\ UNCHANGED <<step, found, contract, plan, legs, made, record, served, code>>
  BY DEF Touch
<1>3. o \in ObjectType BY DEF Objects, ObjectType, Paths
<1>4. /\ fs' \in [Paths -> ObjectType] /\ fs'[p] = o
      /\ \A q \in Paths : q # p => fs'[q] = fs[q]
  BY <1>1, <1>3 DEF LaunchInv, LaunchTypes
<1>5. LaunchTypes'
  <2>1. \A q \in Paths : fs'[q] \in Objects(q) BY <1>1, <1>4 DEF LaunchInv, LaunchTypes
  <2>2. \A q \in Elsewhere : fs'[q].to = q
    BY <1>1, <1>4 DEF Paths, LaunchInv, LaunchTypes
  <2>3. QED BY <1>2, <1>4, <2>1, <2>2 DEF LaunchInv, LaunchTypes
<1>6. FoundIsSound'
  BY <1>2, <1>4 DEF LaunchInv, LaunchTypes, FoundIsSound
<1>7. PlanIsSound' BY <1>2, <1>4 DEF LaunchInv, PlanIsSound, Canonical
<1>8. PlanIsComplete => PlanIsComplete' BY <1>2 DEF PlanIsComplete
<1>9. InOrder' BY <1>2, <1>8 DEF LaunchInv, InOrder, LegsDiffer
<1>10. ServedIsVetted' BY <1>2 DEF LaunchInv, ServedIsVetted
<1>11. BootSetAgrees' /\ CredentialsCarried'
  BY <1>2 DEF LaunchInv, InOrder, BootSetAgrees, CredentialsCarried
<1>12. QED
  BY <1>2, <1>5, <1>6, <1>7, <1>9, <1>10, <1>11
  DEF LaunchInv, RefusedLeavesNothing, RunsValidatedSpec

LEMMA LaunchStepInv ==
    ASSUME LaunchInv, [LaunchNext]_launchVars
    PROVE  LaunchInv'
<1>1. CASE UNCHANGED launchVars
  <2>1. UNCHANGED <<fs, moved, replaced, found, contract, plan, served, step, code, legs, made,
                    record>>
    BY <1>1 DEF launchVars
  <2>2. LaunchTypes' /\ InOrder'
    BY <2>1, QuietStep DEF LaunchInv, LaunchTypes, InOrder, LegsDiffer
  <2>3. QED
    BY <2>1, <2>2, QuietStep
    DEF LaunchInv, RefusedLeavesNothing, BootSetAgrees, CredentialsCarried, RunsValidatedSpec
<1>2. QED
  BY <1>1, WorkspacesInv, SelectInv, LookInv, BootInv, MountsInv, SpawnInv, TouchInv
  DEF LaunchNext

LEMMA LaunchInitInv ==
    ASSUME LaunchInit
    PROVE  LaunchInv
<1>1. /\ \A p \in Paths : fs[p] \in Objects(p) /\ fs[p] \in ObjectType
      /\ DOMAIN plan = {} /\ DOMAIN served = {} /\ DOMAIN legs = {}
  BY DEF LaunchInit, Objects, ObjectType, Paths
<1>2. fs \in [Paths -> ObjectType] BY <1>1 DEF LaunchInit
<1>3. LaunchTypes
  BY <1>1, <1>2 DEF LaunchInit, LaunchTypes, Steps, Unmade, Resolving, Choosing, Codes
<1>4. InOrder BY <1>1 DEF LaunchInit, InOrder, Unmade, Resolving, Choosing, Written
<1>5. QED
  BY <1>1, <1>3, <1>4
  DEF LaunchInit, LaunchInv, FoundIsSound, NestedPair, PlanIsSound, ServedIsVetted,
      RefusedLeavesNothing, BootSetAgrees, CredentialsCarried, RunsValidatedSpec

\* Whatever the user replaces while a launch is under way, and whichever build it
\* boots: a daemon serves the path that was vetted unless that very path was
\* replaced since, a refusal for a declared source leaves at most the record of
\* the running build, the boot records only trees resolution found, and all of
\* them if the build declares them, with every credential the build declares and
\* no tree inside another, and only a validated record is supervised
\* (workspace::resolve, classify_source, LaunchSpec::validate, handoff).
THEOREM LaunchIsSafe == LaunchSpec => []LaunchSafe
<1>1. ASSUME LaunchInv PROVE LaunchSafe
  <2>1. LaunchTypeOK BY <1>1 DEF LaunchInv, LaunchTypes, LaunchTypeOK, Things, Codes
  <2>2. TreesAreDisjoint
    <3>1. BootSet \subseteq found BY <1>1 DEF LaunchInv, PlanIsSound, BootSet
    <3>2. QED BY <1>1, <3>1 DEF LaunchInv, FoundIsSound, NestedPair, TreesAreDisjoint
  <2>3. QED BY <1>1, <2>1, <2>2 DEF LaunchInv, LaunchSafe
<1>2. QED BY <1>1, LaunchInitInv, LaunchStepInv, PTL DEF LaunchSpec

-----------------------------------------------------------------------------
(* Fleet: what a verb says of sandboxes that change while it walks them.   *)

Phases     == {"absent", "built"} \cup Residue
VmType     == [phase : Phases, boot : Nat, charge : 1 .. Ceiling,
               answers : SUBSET Questions, obeys : BOOLEAN]
TallyType  == [running : Nat, measured : Nat, sum : Nat, complete : BOOLEAN, available : Int]
SweepType  == [given : Seq(Members), force : BOOLEAN, timeout : Int, failures : Seq(Members)]
RowType    == [sandbox : Members, state : Phases, record : Int, memory : Int, counted : Int]
Stopping   == {"sweep", "asking", "waiting"}
Reporting  == {"report", "record", "readings"}
Measures   == {"admit", "suggest"}

FleetTypes ==
    /\ vm \in [Members -> VmType] /\ listable \in BOOLEAN
    /\ events \in 0 .. MaxEvents /\ \A t \in Members : vm[t].boot \in 1 .. 1 + events
    /\ todo \in Seq(Members) /\ touched \subseteq Members
    /\ tally \in TallyType /\ sweep \in SweepType /\ rows \in Seq(RowType)
    /\ verb \in {"none", "stop", "status"} \cup Measures

\* Where each verb may be, and what it has said there.
Courses ==
    /\ place \in {"idle", "measure", "done"} \cup Stopping \cup Reporting
    /\ place = "idle" <=> verb = "none"
    /\ verb = "stop" => place \in Stopping \cup {"done"}
    /\ verb = "status" => place \in Reporting \cup {"done"}
    /\ verb \in Measures => place \in {"measure", "done"}
    /\ verb # "stop" => sweep.failures = <<>>
    /\ place # "done" => verdict = "none"
    /\ place = "done" => todo = <<>>
    /\ place = "done" /\ verb = "stop" =>
          verdict = IF sweep.failures = <<>> THEN "ok" ELSE Head(sweep.failures)
    /\ place = "done" /\ verb = "status" => verdict = "ok"
    /\ place = "done" /\ verb \in Measures => verdict \in {"refuse", "warn", "proceed"}
    /\ place = "done" /\ verb = "admit" => verdict = Admit(tally.available, FleetSum(tally))

\* A sandbox that a stop was given is still to come, down or overlooked, or on
\* record as failed.
Settled(t) == vm[t].phase \notin Residue \/ Overlooked(t)
Attempts ==
    verb = "stop" =>
        /\ ToSet(todo) \subseteq ToSet(sweep.given)
        /\ ToSet(sweep.failures) \subseteq ToSet(sweep.given)
        /\ place \in {"asking", "waiting"} => todo # <<>>
        /\ \A t \in ToSet(sweep.given) \ touched :
              t \in ToSet(todo) \/ Settled(t) \/ t \in ToSet(sweep.failures)

\* Nobody is counted twice, and a charge is never nothing.
Counts ==
    /\ tally.measured <= tally.running /\ tally.measured <= tally.sum
    /\ IF verb \in Measures
         THEN IsInjective(todo) /\ tally.running + Len(todo) <= Cardinality(Members)
         ELSE tally = NoTally

\* A measurement that was not refused at once, and what it has left to look at.
Measured == verb \in Measures /\ (verb = "admit" => Admit(tally.available, Unknown) # "refuse")
Seen     == {t \in Members : vm[t].phase \in Up /\ t \notin ToSet(todo)}

\* Who is up, can be asked about and was left alone has been counted or is still to be.
Coverage ==
    Measured /\ tally.complete =>
        \A t \in Members \ touched :
            vm[t].phase \in Up /\ ~Unread(t) => t \in ToSet(todo) \/ tally.running > 0

\* Over a fleet that holds still and answers, the sum is that of the sandboxes
\* seen, and the host's reading is still true.
Sums ==
    (/\ verb = "admit" /\ Measured /\ touched = {} /\ listable /\ tally.available # Unknown
     /\ \A t \in Members : vm[t].phase \in Up => vm[t].answers = Questions) =>
        /\ tally.complete /\ tally.available = Available
        /\ tally.measured = tally.running /\ tally.sum = ChargeOf(Seen)

\* The row that is being read has no session count yet.
Rows ==
    /\ place \in {"record", "readings"} => rows # <<>>
    /\ place = "record" => rows[Len(rows)].counted = Unknown
    /\ place \in {"record", "readings"} => todo # <<>>
    /\ CountsItsOwnBoot

FleetInv == FleetTypes /\ Courses /\ Attempts /\ Counts /\ Coverage /\ Sums /\ Rows

\* A sequence is walked by its head and its tail.
LEMMA Walk ==
    ASSUME NEW S, NEW s \in Seq(S)
    PROVE  /\ ToSet(s) \subseteq S
           /\ ToSet(<<>>) = {}
           /\ s # <<>> =>
                /\ Head(s) \in S /\ Tail(s) \in Seq(S) /\ Len(Tail(s)) + 1 = Len(s)
                /\ ToSet(s) = {Head(s)} \cup ToSet(Tail(s))
                /\ IsInjective(s) => IsInjective(Tail(s)) /\ Head(s) \notin ToSet(Tail(s))
<1>1. ToSet(s) \subseteq S /\ ToSet(<<>>) = {} BY DEF ToSet
<1>2. ASSUME s # <<>>
      PROVE  /\ Head(s) \in S /\ Tail(s) \in Seq(S) /\ Len(Tail(s)) + 1 = Len(s)
             /\ ToSet(s) = {Head(s)} \cup ToSet(Tail(s))
             /\ IsInjective(s) => IsInjective(Tail(s)) /\ Head(s) \notin ToSet(Tail(s))
  <2>1. /\ Head(s) \in S /\ Tail(s) \in Seq(S) /\ Len(Tail(s)) + 1 = Len(s)
        /\ Head(s) = s[1] /\ Len(s) \in Nat /\ Len(s) >= 1
        /\ \A i \in 1 .. Len(s) - 1 : Tail(s)[i] = s[i + 1]
    BY <1>2
  <2>2. DOMAIN s = 1 .. Len(s) /\ DOMAIN Tail(s) = 1 .. Len(s) - 1 BY <2>1
  <2>3. ToSet(s) \subseteq {Head(s)} \cup ToSet(Tail(s))
    <3> SUFFICES ASSUME NEW i \in 1 .. Len(s), i # 1 PROVE s[i] \in ToSet(Tail(s))
      BY <2>1, <2>2 DEF ToSet
    <3>1. i - 1 \in 1 .. Len(s) - 1 /\ Tail(s)[i - 1] = s[i] BY <2>1
    <3>2. QED BY <3>1, <2>2 DEF ToSet
  <2>4. {Head(s)} \cup ToSet(Tail(s)) \subseteq ToSet(s)
    <3>1. Head(s) \in ToSet(s) BY <2>1, <2>2 DEF ToSet
    <3>2. ASSUME NEW i \in 1 .. Len(s) - 1 PROVE Tail(s)[i] \in ToSet(s)
      <4>1. i + 1 \in 1 .. Len(s) /\ Tail(s)[i] = s[i + 1] BY <2>1
      <4>2. QED BY <4>1, <2>2 DEF ToSet
    <3>3. QED BY <3>1, <3>2, <2>2 DEF ToSet
  <2>5. ASSUME IsInjective(s) PROVE IsInjective(Tail(s)) /\ Head(s) \notin ToSet(Tail(s))
    <3>1. \A i, j \in 1 .. Len(s) : s[i] = s[j] => i = j BY <2>5, <2>2 DEF IsInjective
    <3>2. ASSUME NEW i \in 1 .. Len(s) - 1, NEW j \in 1 .. Len(s) - 1, Tail(s)[i] = Tail(s)[j]
          PROVE  i = j
      <4>1. i + 1 \in 1 .. Len(s) /\ j + 1 \in 1 .. Len(s) /\ s[i + 1] = s[j + 1]
        BY <2>1, <3>2
      <4>2. i + 1 = j + 1 BY <3>1, <4>1
      <4>3. QED BY <4>2
    <3>3. ASSUME NEW i \in 1 .. Len(s) - 1 PROVE Tail(s)[i] # Head(s)
      <4>1. i + 1 \in 1 .. Len(s) /\ 1 \in 1 .. Len(s) /\ Tail(s)[i] = s[i + 1] /\ i + 1 # 1
        BY <2>1
      <4>2. QED BY <2>1, <3>1, <4>1
    <3>4. QED BY <3>2, <3>3, <2>2 DEF IsInjective, ToSet
  <2>6. QED BY <2>1, <2>3, <2>4, <2>5
<1>3. QED BY <1>1, <1>2

\* What is appended is added.
LEMMA Appended ==
    ASSUME NEW S, NEW s \in Seq(S), NEW e \in S
    PROVE  Append(s, e) \in Seq(S) /\ Append(s, e) # <<>> /\ ToSet(Append(s, e)) = ToSet(s) \cup {e}
<1>1. /\ Append(s, e) \in Seq(S) /\ Len(Append(s, e)) = Len(s) + 1 /\ Len(s) \in Nat
      /\ \A i \in 1 .. Len(s) : Append(s, e)[i] = s[i]
      /\ Append(s, e)[Len(s) + 1] = e
  BY AppendProperties
<1>2. DOMAIN s = 1 .. Len(s) /\ DOMAIN Append(s, e) = 1 .. Len(s) + 1 BY <1>1
<1>3. ToSet(Append(s, e)) \subseteq ToSet(s) \cup {e}
  <2> SUFFICES ASSUME NEW i \in 1 .. Len(s) + 1, i # Len(s) + 1 PROVE Append(s, e)[i] \in ToSet(s)
    BY <1>1, <1>2 DEF ToSet
  <2>1. i \in 1 .. Len(s) BY <1>1
  <2>2. QED BY <2>1, <1>1, <1>2 DEF ToSet
<1>4. ToSet(s) \cup {e} \subseteq ToSet(Append(s, e))
  <2>1. Len(s) + 1 \in 1 .. Len(s) + 1 /\ \A i \in 1 .. Len(s) : i \in 1 .. Len(s) + 1 BY <1>1
  <2>2. e \in ToSet(Append(s, e)) BY <2>1, <1>1, <1>2 DEF ToSet
  <2>3. ASSUME NEW i \in 1 .. Len(s) PROVE s[i] \in ToSet(Append(s, e))
    BY <2>1, <1>1, <1>2 DEF ToSet
  <2>4. QED BY <2>2, <2>3, <1>2 DEF ToSet
<1>5. QED BY <1>1, <1>3, <1>4

\* A finite set becomes a sequence of each of its elements once.
LEMMA Listed ==
    ASSUME NEW S, IsFiniteSet(S)
    PROVE  /\ SetToSeq(S) \in Seq(S) /\ ToSet(SetToSeq(S)) = S
           /\ IsInjective(SetToSeq(S)) /\ Len(SetToSeq(S)) = Cardinality(S)
<1>1. Cardinality(S) \in Nat /\ ExistsBijection(1 .. Cardinality(S), S) BY FS_CardinalityType
<1> DEFINE n == Cardinality(S)
<1>2. \E f \in [1 .. n -> S] : IsInjective(f)
  BY <1>1 DEF ExistsBijection, Bijection, Injection
<1>3. SetToSeq(S) \in [1 .. n -> S] /\ IsInjective(SetToSeq(S)) BY <1>2 DEF SetToSeq
<1> DEFINE s == SetToSeq(S)
<1>4. s \in Seq(S) /\ Len(s) = n BY <1>1, <1>3, IsASeq, LenProperties
<1>5. IsFiniteSet(1 .. n) /\ Cardinality(1 .. n) = n
  BY <1>1, FS_Interval
<1>6. s \in Injection(1 .. n, S) BY <1>3 DEF Injection
<1>7. s \in Surjection(1 .. n, S) BY <1>5, <1>6, FS_Injection
<1>8. ToSet(s) = S
  <2>1. DOMAIN s = 1 .. n BY <1>3
  <2>2. QED BY <2>1, <1>7 DEF Surjection, ToSet
<1>9. QED BY <1>3, <1>4, <1>8

\* The host has finitely many sandboxes, indexed or not.
LEMMA FleetIsFinite ==
    /\ Index \in Seq(Members) /\ ToSet(Index) \subseteq Members
    /\ IsFiniteSet(Members) /\ Cardinality(Members) \in Nat
    /\ \A A \in SUBSET Members : IsFiniteSet(A) /\ Cardinality(A) \in Nat
                                 /\ Cardinality(A) <= Cardinality(Members)
<1>1. Index \in Seq(ToSet(Index)) /\ IsFiniteSet(Unindexed) BY FleetAssumption
<1>2. Len(Index) \in Nat /\ DOMAIN Index = 1 .. Len(Index) BY <1>1
<1>3. Index \in Surjection(1 .. Len(Index), ToSet(Index))
  BY <1>1, <1>2 DEF Surjection, ToSet
<1>4. IsFiniteSet(1 .. Len(Index)) BY <1>2, FS_Interval
<1>5. IsFiniteSet(ToSet(Index)) BY <1>3, <1>4, FS_Surjection
<1>6. IsFiniteSet(Members) BY <1>1, <1>5, FS_Union DEF Members
<1>7. ToSet(Index) \subseteq Members BY DEF Members
<1>8. Index \in Seq(Members) BY <1>1, <1>7, SeqMonotonic
<1>9. QED BY <1>6, <1>7, <1>8, FS_Subset, FS_CardinalityType

\* The sum of the charges is a sum.
LEMMA ChargeAdds ==
    ASSUME FleetTypes, NEW A \in SUBSET Members
    PROVE  /\ ChargeOf(A) \in Nat /\ ChargeOf({}) = 0
           /\ \A t \in Members \ A : ChargeOf(A \cup {t}) = ChargeOf(A) + vm[t].charge
<1> DEFINE Units(B) == {unit \in B \X (1 .. Ceiling) : unit[2] <= vm[unit[1]].charge}
<1>1. Ceiling \in Nat BY FleetAssumption
<1>2. ASSUME NEW B \in SUBSET Members PROVE IsFiniteSet(Units(B)) /\ Cardinality(Units(B)) \in Nat
  <2>1. IsFiniteSet(B) BY FleetIsFinite
  <2>2. IsFiniteSet(1 .. Ceiling) BY <1>1, FS_Interval
  <2>3. IsFiniteSet(B \X (1 .. Ceiling)) BY <2>1, <2>2, FS_Product
  <2>4. Units(B) \in SUBSET (B \X (1 .. Ceiling)) OBVIOUS
  <2>5. IsFiniteSet(Units(B)) BY <2>3, <2>4, FS_Subset
  <2>6. QED BY <2>5, FS_CardinalityType
<1>3. ChargeOf(A) \in Nat BY <1>2 DEF ChargeOf
<1>4. ChargeOf({}) = 0
  <2>1. Units({}) = {} OBVIOUS
  <2>2. QED BY <2>1, FS_EmptySet DEF ChargeOf
<1>5. ASSUME NEW t \in Members \ A PROVE ChargeOf(A \cup {t}) = ChargeOf(A) + vm[t].charge
  <2>1. PICK c \in 1 .. Ceiling : c = vm[t].charge BY DEF FleetTypes, VmType
  <2>2. Units({t}) = {t} \X (1 .. c)
    <3>1. ASSUME NEW u \in Units({t}) PROVE u \in {t} \X (1 .. c) BY <1>1, <2>1
    <3>2. ASSUME NEW u \in {t} \X (1 .. c) PROVE u \in Units({t}) BY <1>1, <2>1
    <3>3. QED BY <3>1, <3>2
  <2>3. Cardinality(Units({t})) = c
    <3>1. c \in Nat /\ 1 <= c BY <1>1, <2>1
    <3>2. IsFiniteSet(1 .. c) /\ Cardinality(1 .. c) = c BY <3>1, FS_Interval
    <3>3. IsFiniteSet({t}) /\ Cardinality({t}) = 1 BY FS_Singleton
    <3>4. Cardinality({t} \X (1 .. c)) = 1 * c BY <3>2, <3>3, FS_Product
    <3>5. QED BY <2>2, <3>1, <3>4
  <2>4. Units(A \cup {t}) = Units(A) \cup Units({t}) OBVIOUS
  <2>5. Units(A) \cap Units({t}) = {} OBVIOUS
  <2> HIDE DEF Units
  <2>6. Cardinality(Units(A) \cup Units({t})) = Cardinality(Units(A)) + c - 0
    <3>1. IsFiniteSet(Units(A)) /\ IsFiniteSet(Units({t})) BY <1>2
    <3>2. QED BY <3>1, <2>3, <2>5, FS_Union, FS_EmptySet
  <2>7. Cardinality(Units(A)) \in Nat /\ c \in Nat BY <1>1, <1>2, <2>1
  <2>8. Cardinality(Units(A \cup {t})) = Cardinality(Units(A)) + c
    <3>1. \A k, m \in Nat : k + m - 0 = k + m OBVIOUS
    <3>2. Cardinality(Units(A)) + c - 0 = Cardinality(Units(A)) + c BY <2>7, <3>1
    <3>3. Cardinality(Units(A \cup {t})) = Cardinality(Units(A) \cup Units({t})) BY <2>4, Zenon
    <3>4. QED BY <2>6, <3>2, <3>3
  <2>9. QED BY <2>1, <2>8 DEF ChargeOf, Units
<1>6. QED BY <1>3, <1>4, <1>5

\* The initial states satisfy the invariant.
LEMMA FleetInitInv == FleetInit => FleetInv
<1> SUFFICES ASSUME FleetInit PROVE FleetInv
  OBVIOUS
<1>1. HostMemory \in Nat /\ Ceiling \in Nat /\ Ceiling > 0 /\ MaxEvents \in Nat
  BY FleetAssumption
<1>2. FleetTypes
  <2>1. vm \in [Members -> VmType] /\ \A t \in Members : vm[t].boot = 1
    BY <1>1 DEF FleetInit, VmType, Phases
  <2>2. tally \in TallyType BY DEF FleetInit, NoTally, TallyType, Unknown
  <2>3. sweep \in SweepType BY DEF FleetInit, NoSweep, SweepType
  <2>4. QED BY <1>1, <2>1, <2>2, <2>3 DEF FleetInit, FleetTypes
<1>3. Courses BY DEF FleetInit, Courses, Measures, Stopping, Reporting, NoSweep
<1>4. Counts BY DEF FleetInit, Counts, NoTally, Measures
<1>5. Attempts /\ Coverage /\ Sums /\ Rows
  BY DEF FleetInit, Attempts, Coverage, Sums, Measured, Measures, Rows, CountsItsOwnBoot
<1>6. QED BY <1>2, <1>3, <1>4, <1>5 DEF FleetInv

\* Another command, the guest or the manager changes one sandbox, which from
\* then on counts as touched.
LEMMA ChangeInv ==
    ASSUME FleetInv, NEW t \in Members, NEW entry \in VmType,
           entry.boot \in 1 .. 2 + events, Change(t, entry)
    PROVE  FleetInv'
<1>1. /\ vm' = [vm EXCEPT ![t] = entry] /\ touched' = touched \cup {t}
      /\ events' = events + 1 /\ events < MaxEvents /\ place # "done"
      /\ UNCHANGED <<listable, verb, place, todo, tally, sweep, rows, verdict>>
  BY DEF Change
<1>2. FleetTypes'
  <2>1. MaxEvents \in Nat BY FleetAssumption
  <2>2. vm' \in [Members -> VmType] BY <1>1 DEF FleetInv, FleetTypes
  <2>3. events' \in 0 .. MaxEvents /\ 1 + events' = 2 + events
    BY <1>1, <2>1 DEF FleetInv, FleetTypes
  <2>4. ASSUME NEW s \in Members PROVE vm'[s].boot \in 1 .. 1 + events'
    <3>1. vm[s].boot \in 1 .. 1 + events /\ events \in Nat BY DEF FleetInv, FleetTypes
    <3>2. CASE s = t BY <1>1, <2>3, <3>2 DEF FleetInv, FleetTypes
    <3>3. CASE s # t
      <4>1. vm'[s] = vm[s] BY <1>1, <3>3 DEF FleetInv, FleetTypes
      <4>2. 1 .. 1 + events \subseteq 1 .. 2 + events BY <3>1
      <4>3. QED BY <2>3, <3>1, <4>1, <4>2
    <3>4. QED BY <3>2, <3>3
  <2>5. QED BY <1>1, <2>2, <2>3, <2>4 DEF FleetInv, FleetTypes
<1>3. \A s \in Members \ touched' : s \in Members \ touched /\ vm'[s] = vm[s]
  BY <1>1 DEF FleetInv, FleetTypes
<1>4. Courses' BY <1>1 DEF FleetInv, Courses
<1>5. Attempts'
  <2> SUFFICES ASSUME verb = "stop"
               PROVE  \A s \in ToSet(sweep.given) \ touched' :
                         s \in ToSet(todo) \/ Settled(s)' \/ s \in ToSet(sweep.failures)
    BY <1>1 DEF FleetInv, Attempts
  <2>1. ToSet(sweep.given) \subseteq Members BY Walk DEF FleetInv, FleetTypes, SweepType
  <2>2. QED BY <1>1, <1>3, <2>1 DEF FleetInv, Attempts, Settled, Overlooked, Unread
<1>6. Counts' BY <1>1 DEF FleetInv, Counts
<1>7. Coverage' BY <1>1, <1>3 DEF FleetInv, Coverage, Measured, Unread
<1>8. Sums' BY <1>1 DEF Sums
<1>9. Rows' BY <1>1 DEF FleetInv, Rows, CountsItsOwnBoot
<1>10. QED BY <1>2, <1>4, <1>5, <1>6, <1>7, <1>8, <1>9 DEF FleetInv

\* The world.
LEMMA WorldInv == ASSUME FleetInv, World PROVE FleetInv'
<1>1. PICK t \in Members :
        \/ Boots(t) \/ Grows(t) \/ GoesSilent(t)
        \/ \E phase \in {"built", "failed"} : EndsAs(t, phase)
  BY DEF World
<1>2. /\ vm[t] \in VmType /\ vm[t].boot \in 1 .. 1 + events /\ events \in Nat
      /\ Ceiling \in Nat /\ Ceiling > 0
  BY FleetAssumption DEF FleetInv, FleetTypes
<1>3. vm[t].boot \in 1 .. 2 + events /\ vm[t].boot + 1 \in 1 .. 2 + events BY <1>2
<1>4. CASE Boots(t)
  <2> DEFINE r == [vm[t] EXCEPT !.phase = "running", !.boot = @ + 1]
  <2>1. r \in VmType /\ r.boot = vm[t].boot + 1
    <3>1. PICK b \in Nat : b = vm[t].boot BY <1>2 DEF VmType
    <3>2. r = [vm[t] EXCEPT !.phase = "running", !.boot = b + 1] BY <3>1
    <3>3. b + 1 \in Nat BY <3>1
    <3>4. r \in VmType /\ r.boot = b + 1 BY <1>2, <3>2, <3>3 DEF VmType, Phases, Residue, Up
    <3>5. QED BY <3>1, <3>4
  <2>2. Change(t, r) BY <1>4 DEF Boots
  <2> HIDE DEF r
  <2>3. QED BY <1>3, <2>1, <2>2, ChangeInv
<1>5. CASE Grows(t)
  <2> DEFINE r == [vm[t] EXCEPT !.charge = Ceiling]
  <2>1. r \in VmType /\ r.boot = vm[t].boot BY <1>2 DEF VmType
  <2>2. Change(t, r) BY <1>5 DEF Grows
  <2> HIDE DEF r
  <2>3. QED BY <1>3, <2>1, <2>2, ChangeInv
<1>6. CASE GoesSilent(t)
  <2>0. PICK question \in vm[t].answers :
          Change(t, [vm[t] EXCEPT !.answers = @ \ {question}])
    BY <1>6 DEF GoesSilent
  <2> DEFINE r == [vm[t] EXCEPT !.answers = @ \ {question}]
  <2>1. r \in VmType /\ r.boot = vm[t].boot BY <1>2 DEF VmType
  <2>2. Change(t, r) BY <2>0
  <2> HIDE DEF r
  <2>3. QED BY <1>3, <2>1, <2>2, ChangeInv
<1>7. ASSUME NEW phase \in {"built", "failed"}, EndsAs(t, phase) PROVE FleetInv'
  <2> DEFINE r == [vm[t] EXCEPT !.phase = phase]
  <2>1. r \in VmType /\ r.boot = vm[t].boot BY <1>2 DEF VmType, Phases, Residue
  <2>2. Change(t, r) BY <1>7 DEF EndsAs
  <2> HIDE DEF r
  <2>3. QED BY <1>3, <2>1, <2>2, ChangeInv
<1>8. QED BY <1>1, <1>4, <1>5, <1>6, <1>7

\* What a sandbox is taken for is a state; it is taken for up only when it is, and
\* for one at rest only when it is that or is overlooked.
LEMMA TakenFor ==
    ASSUME FleetInv, NEW t \in Members
    PROVE  /\ Discriminate(t) \subseteq Phases
           /\ (Discriminate(t) \subseteq Up) <=> (vm[t].phase \in Up /\ ~Unread(t))
           /\ \A state \in Discriminate(t) : state \notin Residue => Settled(t)
<1>1. vm[t].phase \in Phases BY DEF FleetInv, FleetTypes, VmType
<1>2. CASE ~Unread(t)
  BY <1>1, <1>2 DEF Discriminate, Settled
<1>3. CASE Unread(t)
  BY <1>1, <1>3 DEF Discriminate, Settled, Phases, Residue, Up
<1>4. QED BY <1>2, <1>3

\* A verb that measures nothing leaves the measurement alone.
LEMMA NoMeasure ==
    ASSUME FleetInv, verb' \notin Measures, tally' = NoTally
    PROVE  Counts' /\ Coverage' /\ Sums'
BY DEF Counts, NoTally, Coverage, Sums, Measured, Measures

\* A stop takes its next sandbox, which is its first and one of those it was given.
LEMMA StopReads ==
    ASSUME FleetInv, place \in Stopping
    PROVE  /\ verb = "stop" /\ tally = NoTally /\ verdict = "none"
           /\ todo # <<>> =>
                /\ Head(todo) \in Members /\ Head(todo) \in ToSet(sweep.given)
                /\ Tail(todo) \in Seq(Members) /\ ToSet(Tail(todo)) \subseteq ToSet(sweep.given)
                /\ ToSet(todo) = {Head(todo)} \cup ToSet(Tail(todo))
<1>1. verb = "stop" /\ verdict = "none"
  BY DEF FleetInv, FleetTypes, Courses, Stopping, Reporting, Measures
<1>2. tally = NoTally BY <1>1 DEF FleetInv, Counts, Measures
<1>3. ASSUME todo # <<>>
      PROVE  /\ Head(todo) \in Members /\ Tail(todo) \in Seq(Members)
             /\ ToSet(todo) = {Head(todo)} \cup ToSet(Tail(todo))
  <2>1. todo \in Seq(Members) BY DEF FleetInv, FleetTypes
  <2>2. QED BY <1>3, <2>1, Walk
<1>4. ToSet(todo) \subseteq ToSet(sweep.given) BY <1>1 DEF FleetInv, Attempts
<1>5. QED BY <1>1, <1>2, <1>3, <1>4

\* A failure is recorded and the sweep goes on.
LEMMA FailedInv ==
    ASSUME FleetInv, place \in {"asking", "waiting"}, Failed(Head(todo)),
           UNCHANGED <<vm, listable, verb, tally, rows, verdict, touched, events>>
    PROVE  FleetInv'
<1> DEFINE t == Head(todo)
<1>1. todo # <<>> /\ place \in Stopping
  <2>1. place \in Stopping BY DEF Stopping
  <2>2. verb = "stop" BY <2>1, StopReads
  <2>3. QED BY <2>1, <2>2 DEF FleetInv, Attempts
<1>2. /\ verb = "stop" /\ tally = NoTally /\ verdict = "none"
      /\ t \in Members /\ t \in ToSet(sweep.given)
      /\ Tail(todo) \in Seq(Members) /\ ToSet(Tail(todo)) \subseteq ToSet(sweep.given)
      /\ ToSet(todo) = {t} \cup ToSet(Tail(todo))
  BY <1>1, StopReads
<1>3. /\ sweep' = [sweep EXCEPT !.failures = Append(@, t)]
      /\ place' = "sweep" /\ todo' = Tail(todo)
  BY DEF Failed
<1>4. PICK f \in Seq(Members) : f = sweep.failures BY DEF FleetInv, FleetTypes, SweepType
<1>5. Append(f, t) \in Seq(Members) /\ ToSet(Append(f, t)) = ToSet(f) \cup {t}
  BY <1>2, <1>4, Appended
<1>6. /\ sweep' \in SweepType /\ sweep'.given = sweep.given
      /\ ToSet(sweep'.failures) = ToSet(sweep.failures) \cup {t}
  BY <1>3, <1>4, <1>5 DEF FleetInv, FleetTypes, SweepType
<1>7. FleetTypes' BY <1>2, <1>3, <1>6 DEF FleetInv, FleetTypes
<1>8. Courses' BY <1>2, <1>3 DEF FleetInv, Courses, Stopping, Reporting, Measures
<1>9. Attempts'
  BY <1>2, <1>3, <1>6 DEF FleetInv, Attempts, Settled, Overlooked, Unread
<1>10. Counts' /\ Coverage' /\ Sums' BY <1>2, NoMeasure DEF Measures
<1>11. Rows' BY <1>3 DEF FleetInv, Rows, CountsItsOwnBoot
<1>12. QED BY <1>7, <1>8, <1>9, <1>10, <1>11 DEF FleetInv

\* A sandbox that needs no stopping, or was stopped, is passed.
LEMMA PassedInv ==
    ASSUME FleetInv, place \in Stopping, todo # <<>>, place' = "sweep", todo' = Tail(todo),
           vm' \in [Members -> VmType], \A t \in Members : vm'[t].boot = vm[t].boot,
           NEW h \in Members, h = Head(todo), Settled(h)',
           \A t \in Members : t # h => vm'[t] = vm[t],
           UNCHANGED <<listable, verb, tally, sweep, rows, verdict, touched, events>>
    PROVE  FleetInv'
<1>1. /\ verb = "stop" /\ tally = NoTally /\ verdict = "none"
      /\ h \in Members /\ h \in ToSet(sweep.given)
      /\ Tail(todo) \in Seq(Members) /\ ToSet(Tail(todo)) \subseteq ToSet(sweep.given)
      /\ ToSet(todo) = {h} \cup ToSet(Tail(todo))
  BY StopReads
<1>2. FleetTypes' BY <1>1 DEF FleetInv, FleetTypes
<1>3. Courses' BY <1>1 DEF FleetInv, Courses, Stopping, Reporting, Measures
<1>4. Attempts'
  <2>1. ToSet(sweep.given) \subseteq Members BY Walk DEF FleetInv, FleetTypes, SweepType
  <2>2. ASSUME NEW t \in ToSet(sweep.given) \ touched
        PROVE  t \in ToSet(Tail(todo)) \/ Settled(t)' \/ t \in ToSet(sweep.failures)
    <3>1. CASE t = h BY <3>1
    <3>2. CASE t # h
      <4>1. Settled(t)' <=> Settled(t) BY <2>1, <3>2 DEF Settled, Overlooked, Unread
      <4>2. QED BY <1>1, <3>2, <4>1 DEF FleetInv, Attempts
    <3>3. QED BY <3>1, <3>2
  <2>3. QED BY <1>1, <2>2 DEF FleetInv, Attempts
<1>5. Counts' /\ Coverage' /\ Sums' BY <1>1, NoMeasure DEF Measures
<1>6. Rows' BY DEF FleetInv, Rows, CountsItsOwnBoot
<1>7. QED BY <1>2, <1>3, <1>4, <1>5, <1>6 DEF FleetInv

\* A stop moves on with the sandbox it has in hand.
LEMMA StopMovesInv ==
    ASSUME FleetInv, place \in Stopping, place' \in Stopping, todo # <<>>,
           UNCHANGED <<vm, listable, verb, todo, tally, sweep, rows, verdict, touched, events>>
    PROVE  FleetInv'
<1>1. verb = "stop" /\ tally = NoTally /\ verdict = "none" BY StopReads
<1>2. FleetTypes' BY <1>1 DEF FleetInv, FleetTypes
<1>3. Courses' BY <1>1 DEF FleetInv, Courses, Stopping, Reporting, Measures
<1>4. Attempts' BY <1>1 DEF FleetInv, Attempts, Settled, Overlooked, Unread
<1>5. Counts' /\ Coverage' /\ Sums' BY <1>1, NoMeasure DEF Measures
<1>6. Rows' BY DEF FleetInv, Rows, CountsItsOwnBoot, Stopping
<1>7. QED BY <1>2, <1>3, <1>4, <1>5, <1>6 DEF FleetInv

\* The steps of viv stop and of viv stop --all.
LEMMA StopInv == ASSUME FleetInv, StopStep PROVE FleetInv'
<1>1. CASE SweepNext
  <2>1. place \in Stopping /\ todo # <<>> BY <1>1 DEF SweepNext, Stopping
  <2>r. PICK state \in Discriminate(Head(todo)) :
          IF state \in Residue THEN place' = "asking" /\ UNCHANGED todo
                               ELSE todo' = Tail(todo) /\ UNCHANGED place
    BY <1>1 DEF SweepNext
  <2>2. CASE state \in Residue
    BY <1>1, <2>1, <2>r, <2>2, StopMovesInv DEF SweepNext, Stopping
  <2>3. CASE state \notin Residue
    <3>1. vm \in [Members -> VmType] BY DEF FleetInv, FleetTypes
    <3>2. vm' = vm /\ place' = "sweep" /\ todo' = Tail(todo)
          /\ UNCHANGED <<listable, verb, tally, sweep, rows, verdict, touched, events>>
      BY <1>1, <2>r, <2>3 DEF SweepNext
    <3>3. PICK h \in Members : h = Head(todo) BY <2>1, StopReads
    <3>4. Settled(h) BY <2>r, <2>3, <3>3, TakenFor
    <3>5. Settled(h)' BY <3>2, <3>4 DEF Settled, Overlooked, Unread
    <3>6. QED BY <2>1, <3>1, <3>2, <3>3, <3>5, PassedInv
  <2>4. QED BY <2>2, <2>3
<1>2. ASSUME NEW reached \in BOOLEAN, AskStop(reached) PROVE FleetInv'
  <2>1. place = "asking" /\ place \in Stopping BY <1>2 DEF AskStop, Stopping
  <2>2. verb = "stop" BY <2>1, StopReads
  <2>3. todo # <<>> BY <2>1, <2>2 DEF FleetInv, Attempts
  <2>4. CASE reached
    BY <1>2, <2>1, <2>3, <2>4, StopMovesInv DEF AskStop, Stopping
  <2>5. CASE ~reached
    BY <1>2, <2>1, <2>5, FailedInv DEF AskStop
  <2>6. QED BY <2>4, <2>5
<1>3. ASSUME NEW t \in Members, NEW gone \in BOOLEAN, StopEnd(t, gone) PROVE FleetInv'
  <2>1. place = "waiting" /\ place \in Stopping /\ t = Head(todo) BY <1>3 DEF StopEnd, Stopping
  <2>2. verb = "stop" BY <2>1, StopReads
  <2>3. todo # <<>> BY <2>1, <2>2 DEF FleetInv, Attempts
  <2>4. CASE gone
    <3>1. /\ \/ vm' = [vm EXCEPT ![t].phase = IF @ \in Residue THEN "built" ELSE @]
             \/ Overlooked(t) /\ vm' = vm
          /\ place' = "sweep" /\ todo' = Tail(todo)
          /\ UNCHANGED <<listable, verb, tally, sweep, rows, verdict, touched, events>>
      BY <1>3, <2>4 DEF StopEnd
    <3>2. vm \in [Members -> VmType] BY DEF FleetInv, FleetTypes
    <3>3. CASE Overlooked(t) /\ vm' = vm
      <4>1. Settled(t)' BY <3>3 DEF Settled, Overlooked, Unread
      <4>2. QED BY <2>1, <2>3, <3>1, <3>2, <3>3, <4>1, PassedInv
    <3>4. CASE vm' = [vm EXCEPT ![t].phase = IF @ \in Residue THEN "built" ELSE @]
      <4>1. PICK r \in VmType : vm' = [vm EXCEPT ![t] = r] /\ r.boot = vm[t].boot
                                /\ r.phase \notin Residue
        <5> DEFINE q == [vm[t] EXCEPT !.phase = IF @ \in Residue THEN "built" ELSE @]
        <5>1. q \in VmType BY <3>2 DEF VmType, Phases
        <5>2. q.boot = vm[t].boot /\ q.phase \notin Residue
          BY <3>2 DEF VmType, Residue, Up
        <5>3. vm' = [vm EXCEPT ![t] = q] BY <3>2, <3>4
        <5>4. QED BY <5>1, <5>2, <5>3
      <4>2. vm' \in [Members -> VmType] /\ vm'[t] = r BY <3>2, <4>1
      <4>3. \A s \in Members : s # t => vm'[s] = vm[s] BY <3>2, <4>1
      <4>4. \A s \in Members : vm'[s].boot = vm[s].boot BY <4>1, <4>2, <4>3
      <4>5. Settled(t)' BY <4>1, <4>2 DEF Settled
      <4>6. QED BY <2>1, <2>3, <3>1, <4>2, <4>3, <4>4, <4>5, PassedInv
    <3>5. QED BY <3>1, <3>3, <3>4
  <2>5. CASE ~gone
    BY <1>3, <2>1, <2>5, FailedInv DEF StopEnd
  <2>6. QED BY <2>4, <2>5
<1>4. CASE SweepDone
  <2>1. /\ place \in Stopping /\ todo = <<>> /\ place' = "done"
        /\ verdict' = IF sweep.failures = <<>> THEN "ok" ELSE Head(sweep.failures)
        /\ UNCHANGED <<vm, listable, verb, todo, tally, sweep, rows, touched, events>>
    BY <1>4 DEF SweepDone, Stopping
  <2>2. verb = "stop" /\ tally = NoTally BY <2>1, StopReads
  <2>3. FleetTypes' BY <2>1 DEF FleetInv, FleetTypes
  <2>4. Courses' BY <2>1, <2>2 DEF FleetInv, Courses, Stopping, Reporting, Measures
  <2>5. Attempts' BY <2>1, <2>2 DEF FleetInv, Attempts, Settled, Overlooked, Unread
  <2>6. Counts' /\ Coverage' /\ Sums' BY <2>1, <2>2, NoMeasure DEF Measures
  <2>7. Rows' BY <2>1 DEF FleetInv, Rows, CountsItsOwnBoot
  <2>8. QED BY <2>3, <2>4, <2>5, <2>6, <2>7 DEF FleetInv
<1>5. QED BY <1>1, <1>2, <1>3, <1>4 DEF StopStep

\* A step of a report: it changes rows, and keeps every other row a row.
LEMMA ReportMovesInv ==
    ASSUME FleetInv, place \in Reporting, place' \in Reporting \cup {"done"},
           todo' \in Seq(Members), place' = "done" => todo' = <<>> /\ verdict' = "ok",
           place' # "done" => verdict' = verdict,
           rows' \in Seq(RowType), Rows',
           UNCHANGED <<vm, listable, verb, tally, sweep, touched, events>>
    PROVE  FleetInv'
<1>1. verb = "status" /\ verdict = "none"
  BY DEF FleetInv, FleetTypes, Courses, Stopping, Reporting, Measures
<1>2. tally = NoTally BY <1>1 DEF FleetInv, Counts, Measures
<1>3. FleetTypes' BY DEF FleetInv, FleetTypes
<1>4. Courses' BY <1>1 DEF FleetInv, Courses, Stopping, Reporting, Measures
<1>5. Attempts' BY <1>1 DEF Attempts
<1>6. Counts' /\ Coverage' /\ Sums' BY <1>1, <1>2, NoMeasure DEF Measures
<1>7. QED BY <1>3, <1>4, <1>5, <1>6 DEF FleetInv

\* The last row is replaced by one that keeps its promise.
LEMMA LastRowChanges ==
    ASSUME FleetInv, rows # <<>>, NEW row \in RowType,
           rows' = [rows EXCEPT ![Len(rows)] = row], row.counted \in {Unknown, row.record}
    PROVE  /\ rows' \in Seq(RowType) /\ rows' # <<>> /\ rows'[Len(rows')] = row
           /\ CountsItsOwnBoot'
<1>1. rows \in Seq(RowType) /\ Len(rows) \in 1 .. Len(rows)
  BY DEF FleetInv, FleetTypes
<1>2. rows' \in Seq(RowType) /\ Len(rows') = Len(rows) /\ rows'[Len(rows)] = row
      /\ \A i \in 1 .. Len(rows) : i # Len(rows) => rows'[i] = rows[i]
  BY <1>1, ExceptSeq
<1>3. DOMAIN rows' = 1 .. Len(rows) /\ DOMAIN rows = 1 .. Len(rows) /\ rows' # <<>>
  <2>1. DOMAIN rows' = 1 .. Len(rows') BY <1>2, LenProperties
  <2>2. DOMAIN rows = 1 .. Len(rows) BY <1>1, LenProperties
  <2>3. Len(rows) # 0 BY <1>1
  <2>4. rows' # <<>>
    <3>1. SUFFICES ASSUME rows' = <<>> PROVE Len(rows') = 0 BY <1>2, <2>3
    <3>2. QED BY <3>1, EmptySeq
  <2>5. QED BY <1>2, <2>1, <2>2, <2>4
<1>4. CountsItsOwnBoot'
  <2> SUFFICES ASSUME NEW i \in 1 .. Len(rows) PROVE rows'[i].counted \in {Unknown, rows'[i].record}
    BY <1>3 DEF CountsItsOwnBoot
  <2>1. CASE i = Len(rows) BY <1>2, <2>1
  <2>2. CASE i # Len(rows) BY <1>2, <1>3, <2>2 DEF FleetInv, Rows, CountsItsOwnBoot
  <2>3. QED BY <2>1, <2>2
<1>5. QED BY <1>2, <1>3, <1>4

\* The steps of viv status and of viv status -g.
LEMMA StatusInv == ASSUME FleetInv, StatusStep PROVE FleetInv'
<1>t. /\ todo \in Seq(Members) /\ rows \in Seq(RowType) /\ vm \in [Members -> VmType]
      /\ CountsItsOwnBoot
  BY DEF FleetInv, FleetTypes, Rows
<1>w. todo # <<>> => Head(todo) \in Members /\ Tail(todo) \in Seq(Members) BY <1>t
<1>1. CASE ReadState
  <2>1. /\ place = "report" /\ todo # <<>>
        /\ UNCHANGED <<vm, listable, verb, tally, sweep, verdict, touched, events>>
    BY <1>1 DEF ReadState
  <2>2. CASE vm[Head(todo)].phase = "absent"
    <3>1. place' = "report" /\ rows' = rows /\ todo' = Tail(todo)
      BY <1>1, <2>1, <2>2 DEF ReadState
    <3>2. Rows' BY <1>t, <3>1 DEF Rows, CountsItsOwnBoot
    <3>3. QED BY <1>t, <1>w, <2>1, <3>1, <3>2, ReportMovesInv DEF Reporting
  <2>3. CASE vm[Head(todo)].phase # "absent"
    <3>0. PICK state \in Discriminate(Head(todo)) :
            rows' = Append(rows, [sandbox |-> Head(todo), state |-> state,
                                  record |-> Unknown, memory |-> Unknown, counted |-> Unknown])
      BY <1>1, <2>3 DEF ReadState
    <3> DEFINE row == [sandbox |-> Head(todo), state |-> state,
                       record |-> Unknown, memory |-> Unknown, counted |-> Unknown]
    <3>1. place' = "record" /\ todo' = todo /\ rows' = Append(rows, row)
      BY <1>1, <2>1, <2>3, <3>0 DEF ReadState
    <3>2. row \in RowType /\ row.counted = Unknown
      <4>1. state \in Phases BY <1>w, <2>1, <3>0, TakenFor
      <4>2. QED BY <1>w, <2>1, <4>1 DEF RowType, Unknown
    <3> HIDE DEF row
    <3>3. /\ rows' \in Seq(RowType) /\ Len(rows') = Len(rows) + 1 /\ Len(rows) \in Nat
          /\ rows'[Len(rows')] = row
          /\ \A i \in 1 .. Len(rows) : rows'[i] = rows[i]
      BY <1>t, <3>1, <3>2, AppendProperties
    <3>4. rows' # <<>> BY <3>3
    <3>5. CountsItsOwnBoot'
      <4> SUFFICES ASSUME NEW i \in 1 .. Len(rows) + 1
                   PROVE  rows'[i].counted \in {Unknown, rows'[i].record}
        BY <3>3 DEF CountsItsOwnBoot
      <4>1. CASE i = Len(rows) + 1 BY <3>2, <3>3, <4>1
      <4>2. CASE i \in 1 .. Len(rows) BY <1>t, <3>3, <4>2 DEF CountsItsOwnBoot
      <4>3. QED BY <3>3, <4>1, <4>2
    <3>6. Rows' BY <2>1, <3>1, <3>2, <3>3, <3>4, <3>5 DEF Rows
    <3>7. QED BY <1>t, <2>1, <3>1, <3>3, <3>6, ReportMovesInv DEF Reporting
  <2>4. QED BY <2>2, <2>3
<1>2. CASE ReadRecord
  <2>1. /\ place = "record" /\ place' = "readings" /\ todo' = todo
        /\ UNCHANGED <<vm, listable, verb, tally, sweep, verdict, touched, events>>
    BY <1>2 DEF ReadRecord
  <2>2. rows # <<>> /\ LastRow.counted = Unknown /\ todo # <<>>
    BY <2>1 DEF FleetInv, Rows, LastRow
  <2>3. LastRow \in RowType BY <1>t, <2>2 DEF LastRow
  <2>4. PICK k \in Int : rows' = [rows EXCEPT ![Len(rows)].record = k]
    <3> DEFINE k == IF LastRow.state \in Up /\ vm[LastRow.sandbox].phase \in Residue
                    THEN vm[LastRow.sandbox].boot ELSE Unknown
    <3>1. k \in Int BY <1>t, <2>3 DEF RowType, VmType, Unknown
    <3>2. rows' = [rows EXCEPT ![Len(rows)].record = k] BY <1>2 DEF ReadRecord
    <3> HIDE DEF k
    <3>3. QED BY <3>1, <3>2
  <2> DEFINE row == [LastRow EXCEPT !.record = k]
  <2>5. rows' = [rows EXCEPT ![Len(rows)] = row] BY <1>t, <2>2, <2>4 DEF LastRow
  <2>6. row \in RowType /\ row.counted = Unknown BY <2>2, <2>3 DEF RowType
  <2> HIDE DEF row
  <2>7. rows' \in Seq(RowType) /\ rows' # <<>> /\ CountsItsOwnBoot'
    BY <2>2, <2>5, <2>6, LastRowChanges
  <2>8. Rows' BY <2>1, <2>2, <2>7 DEF Rows
  <2>9. QED BY <1>t, <2>1, <2>7, <2>8, ReportMovesInv DEF Reporting
<1>3. ASSUME NEW answered \in BOOLEAN, ReadRuntime(answered) PROVE FleetInv'
  <2>1. /\ place = "readings" /\ place' = "report" /\ todo' = Tail(todo)
        /\ UNCHANGED <<vm, listable, verb, tally, sweep, verdict, touched, events>>
    BY <1>3 DEF ReadRuntime
  <2>2. rows # <<>> /\ todo # <<>> BY <2>1 DEF FleetInv, Rows
  <2>3. LastRow \in RowType BY <1>t, <2>2 DEF LastRow
  <2>4. PICK m \in Int : m = IF LastRow.state \in Up THEN Reading(LastRow.sandbox) ELSE Unknown
    <3>1. PICK s \in Members : s = LastRow.sandbox BY <2>3 DEF RowType
    <3>2. vm[s].charge \in Int BY <1>t DEF VmType
    <3>3. Unknown \in Int BY DEF Unknown
    <3>4. QED BY <3>1, <3>2, <3>3 DEF Reading
  <2>5. PICK n \in {Unknown, LastRow.record} :
          n = IF answered THEN SessionCount(LastRow.sandbox, LastRow.record) ELSE Unknown
    BY DEF SessionCount
  <2> DEFINE row == [LastRow EXCEPT !.memory = m, !.counted = n]
  <2>6. rows' = [rows EXCEPT ![Len(rows)].memory = m, ![Len(rows)].counted = n]
    BY <1>3, <2>4, <2>5 DEF ReadRuntime
  <2>7. rows' = [rows EXCEPT ![Len(rows)] = row] BY <1>t, <2>2, <2>6 DEF LastRow
  <2>8. row \in RowType /\ row.counted \in {Unknown, row.record}
    <3>1. Unknown \in Int BY DEF Unknown
    <3>2. n \in Int BY <2>3, <2>5, <3>1 DEF RowType
    <3>3. row \in RowType BY <2>3, <2>4, <3>2 DEF RowType
    <3>4. row.counted = n /\ row.record = LastRow.record BY <2>3 DEF RowType
    <3>5. QED BY <2>5, <3>3, <3>4
  <2> HIDE DEF row
  <2>9. rows' \in Seq(RowType) /\ CountsItsOwnBoot'
    BY <2>2, <2>7, <2>8, LastRowChanges
  <2>10. Rows' BY <2>1, <2>9 DEF Rows
  <2>11. QED BY <1>w, <2>1, <2>2, <2>9, <2>10, ReportMovesInv DEF Reporting
<1>4. CASE ReportDone
  <2>1. /\ place = "report" /\ todo = <<>> /\ place' = "done" /\ verdict' = "ok"
        /\ UNCHANGED <<vm, listable, verb, todo, tally, sweep, rows, touched, events>>
    BY <1>4 DEF ReportDone
  <2>2. Rows' BY <1>t, <2>1 DEF Rows, CountsItsOwnBoot
  <2>3. QED BY <1>t, <2>1, <2>2, ReportMovesInv DEF Reporting
<1>5. QED BY <1>1, <1>2, <1>3, <1>4 DEF StatusStep

\* What the host has left is a number, perhaps a negative one.
LEMMA AvailableType == ASSUME FleetTypes PROVE Available \in Int /\ Unknown \in Int
<1> DEFINE U == {t \in Members : vm[t].phase \in Up}
<1>1. U \in SUBSET Members OBVIOUS
<1>2. ChargeOf(U) \in Nat BY <1>1, ChargeAdds
<1>3. HostMemory \in Nat BY FleetAssumption
<1> HIDE DEF U
<1>4. HostMemory - ChargeOf(U) \in Int BY <1>2, <1>3
<1>5. QED BY <1>4 DEF Available, Unknown, U

\* An admission answers.
LEMMA AdmitAnswers ==
    ASSUME NEW a, NEW u PROVE Admit(a, u) \in {"refuse", "warn", "proceed"}
BY DEF Admit

\* A measurement visits the library and what the walk found, each sandbox once;
\* a walk that met no error has found whatever is up.
LEMMA DomainIsWhole ==
    ASSUME FleetInv, NEW met \in SUBSET Members, Walked(met), NEW who \in Domains(met)
    PROVE  /\ who \in Seq(Members) /\ IsInjective(who) /\ Len(who) <= Cardinality(Members)
           /\ listable => \A t \in Members : vm[t].phase \in Up => t \in ToSet(who)
<1>1. CASE who = SetToSeq(ToSet(Index) \cup met)
  <2> DEFINE D == ToSet(Index) \cup met
  <2>1. D \in SUBSET Members BY FleetIsFinite
  <2>2. IsFiniteSet(D) /\ Cardinality(D) <= Cardinality(Members) BY <2>1, FleetIsFinite
  <2>3. ASSUME listable, NEW t \in Members, vm[t].phase \in Up PROVE t \in D
    BY <2>3 DEF Walked, Residue
  <2>4. who = SetToSeq(D) BY <1>1
  <2> HIDE DEF D
  <2>5. who \in Seq(D) /\ ToSet(who) = D /\ IsInjective(who) /\ Len(who) = Cardinality(D)
    BY <2>2, <2>4, Listed
  <2>6. who \in Seq(Members) BY <2>1, <2>5, SeqMonotonic
  <2>7. QED BY <2>2, <2>3, <2>5, <2>6
<1>2. CASE ~listable /\ who = <<>>
  <2>1. Cardinality(Members) \in Nat BY FleetIsFinite
  <2>2. QED BY <1>2, <2>1 DEF IsInjective
<1>3. QED BY <1>1, <1>2 DEF Domains

\* A measurement begins with nothing counted.
LEMMA BeginMeasureInv ==
    ASSUME FleetInv, NEW met \in SUBSET Members, Walked(met), NEW who \in Domains(met),
           NEW name \in Measures, NEW reading \in {Available, Unknown}, NEW list,
           list = who \/ (name = "admit" /\ Admit(reading, Unknown) = "refuse" /\ list = <<>>),
           Give(name, "measure", list), sweep' = sweep,
           tally' = [NoTally EXCEPT !.available = reading, !.complete = listable]
    PROVE  FleetInv'
<1>1. /\ place = "idle" /\ verb' = name /\ place' = "measure" /\ todo' = list
      /\ UNCHANGED <<vm, listable, rows, verdict, touched, events>>
  BY DEF Give
<1>2. /\ who \in Seq(Members) /\ IsInjective(who) /\ Len(who) <= Cardinality(Members)
      /\ listable => \A t \in Members : vm[t].phase \in Up => t \in ToSet(who)
  BY DomainIsWhole
<1>3. todo' \in Seq(Members) /\ IsInjective(todo') /\ Len(todo') <= Cardinality(Members)
  <2>1. Cardinality(Members) \in Nat BY FleetIsFinite
  <2>2. CASE list = who BY <1>1, <1>2, <2>2
  <2>3. CASE list = <<>> BY <1>1, <2>1, <2>3 DEF IsInjective
  <2>4. QED BY <2>2, <2>3
<1>4. /\ tally' \in TallyType /\ tally'.running = 0 /\ tally'.measured = 0 /\ tally'.sum = 0
      /\ tally'.complete = listable /\ tally'.available = reading
  BY AvailableType DEF FleetInv, FleetTypes, NoTally, TallyType
<1>5. FleetTypes' BY <1>1, <1>3, <1>4 DEF FleetInv, FleetTypes
<1>6. Courses'
  BY <1>1 DEF FleetInv, Courses, Measures, Stopping, Reporting
<1>7. Attempts' BY <1>1 DEF Attempts, Measures
<1>8. Counts'
  <2>1. 0 + Len(todo') <= Cardinality(Members) BY <1>3
  <2>2. QED BY <1>1, <1>3, <1>4, <2>1 DEF Counts
<1>9. ASSUME Measured', listable, NEW t \in Members, vm[t].phase \in Up PROVE t \in ToSet(todo')
  BY <1>1, <1>2, <1>4, <1>9 DEF Measured
<1>10. Coverage' BY <1>1, <1>4, <1>9 DEF Coverage
<1>11. Sums'
  <2> SUFFICES ASSUME Measured', listable', tally'.available # Unknown
               PROVE  /\ tally'.complete /\ tally'.available = Available'
                      /\ tally'.measured = tally'.running /\ tally'.sum = ChargeOf(Seen)'
    BY DEF Sums
  <2>1. Available' = Available /\ ChargeOf({})' = ChargeOf({})
    BY <1>1 DEF Available, ChargeOf
  <2>2. Seen' = {} BY <1>1, <1>9 DEF Seen
  <2>3. ChargeOf(Seen)' = ChargeOf({}) BY <1>1, <2>2 DEF ChargeOf
  <2>4. ChargeOf({}) = 0
    <3>1. {} \in SUBSET Members OBVIOUS
    <3>2. QED BY <3>1, ChargeAdds DEF FleetInv
  <2>5. QED BY <1>1, <1>4, <2>1, <2>3, <2>4
<1>12. Rows' BY <1>1 DEF FleetInv, Rows, CountsItsOwnBoot
<1>13. QED BY <1>5, <1>6, <1>7, <1>8, <1>10, <1>11, <1>12 DEF FleetInv

\* The beginnings of the verbs.
LEMMA BeginInv ==
    ASSUME FleetInv,
           \/ \E force \in BOOLEAN, timeout \in {Infinite, 0, 10} : BeginStop(force, timeout)
           \/ BeginAdmission \/ BeginStatus \/ \E t \in ToSet(Index) : BeginSuggestion(t)
    PROVE  FleetInv'
<1>1. ASSUME NEW t \in ToSet(Index) PROVE <<t>> \in Seq(Members)
  BY FleetIsFinite
<1>2. ASSUME NEW force \in BOOLEAN, NEW timeout \in {Infinite, 0, 10}, BeginStop(force, timeout)
      PROVE  FleetInv'
  <2>1. PICK who \in {Index} \cup {<<t>> : t \in ToSet(Index)} :
          /\ Give("stop", "sweep", who) /\ tally' = tally
          /\ sweep' = [NoSweep EXCEPT !.given = who, !.force = force, !.timeout = timeout]
    BY <1>2 DEF BeginStop
  <2>2. /\ place = "idle" /\ verb' = "stop" /\ place' = "sweep" /\ todo' = who
        /\ UNCHANGED <<vm, listable, rows, verdict, touched, events>>
    BY <2>1 DEF Give
  <2>3. who \in Seq(Members) BY <1>1, FleetIsFinite
  <2>4. verb = "none" BY <2>2 DEF FleetInv, Courses
  <2>5. tally' = NoTally BY <2>1, <2>4 DEF FleetInv, Counts, Measures
  <2>6. sweep' \in SweepType /\ sweep'.given = who /\ sweep'.failures = <<>>
    <3>1. timeout \in Int BY DEF Infinite
    <3>2. sweep' = [given |-> who, force |-> force, timeout |-> timeout, failures |-> <<>>]
      BY <2>1 DEF NoSweep
    <3>3. QED BY <2>3, <3>1, <3>2 DEF SweepType
  <2>7. FleetTypes' BY <2>1, <2>2, <2>3, <2>6 DEF FleetInv, FleetTypes
  <2>8. Courses' BY <2>2 DEF FleetInv, Courses, Measures, Stopping, Reporting
  <2>9. Attempts'
    <3>1. ToSet(<<>>) = {} BY DEF ToSet
    <3>2. QED BY <2>2, <2>6, <3>1 DEF Attempts
  <2>10. Counts' /\ Coverage' /\ Sums' BY <2>2, <2>5, NoMeasure DEF Measures
  <2>11. Rows' BY <2>2 DEF FleetInv, Rows, CountsItsOwnBoot
  <2>12. QED BY <2>7, <2>8, <2>9, <2>10, <2>11 DEF FleetInv
<1>3. CASE BeginStatus
  <2>1. PICK who \in {Index} \cup {<<t>> : t \in ToSet(Index)} :
          Give("status", "report", who) /\ UNCHANGED <<tally, sweep>>
    BY <1>3 DEF BeginStatus
  <2>2. /\ place = "idle" /\ verb' = "status" /\ place' = "report" /\ todo' = who
        /\ UNCHANGED <<vm, listable, rows, verdict, touched, events>>
    BY <2>1 DEF Give
  <2>3. who \in Seq(Members) BY <1>1, FleetIsFinite
  <2>4. verb = "none" BY <2>2 DEF FleetInv, Courses
  <2>5. tally' = NoTally BY <2>1, <2>4 DEF FleetInv, Counts, Measures
  <2>6. FleetTypes' BY <2>1, <2>2, <2>3 DEF FleetInv, FleetTypes
  <2>7. Courses' BY <2>1, <2>2, <2>4 DEF FleetInv, Courses, Measures, Stopping, Reporting
  <2>8. Attempts' BY <2>2 DEF Attempts
  <2>9. Counts' /\ Coverage' /\ Sums' BY <2>2, <2>5, NoMeasure DEF Measures
  <2>10. Rows' BY <2>2 DEF FleetInv, Rows, CountsItsOwnBoot
  <2>11. QED BY <2>6, <2>7, <2>8, <2>9, <2>10 DEF FleetInv
<1>4. CASE BeginAdmission
  <2>1. PICK met \in SUBSET Members, reading \in HostReadings :
          /\ Walked(met)
          /\ \E who \in Domains(met) :
               Give("admit", "measure", IF Admit(reading, Unknown) = "refuse" THEN <<>> ELSE who)
          /\ tally' = [NoTally EXCEPT !.available = reading, !.complete = listable]
          /\ UNCHANGED sweep
    BY <1>4 DEF BeginAdmission
  <2>2. PICK who \in Domains(met) :
          Give("admit", "measure", IF Admit(reading, Unknown) = "refuse" THEN <<>> ELSE who)
    BY <2>1
  <2>3. CASE Admit(reading, Unknown) = "refuse"
    BY <2>1, <2>2, <2>3, BeginMeasureInv DEF HostReadings, Measures
  <2>4. CASE Admit(reading, Unknown) # "refuse"
    BY <2>1, <2>2, <2>4, BeginMeasureInv DEF HostReadings, Measures
  <2>5. QED BY <2>3, <2>4
<1>5. ASSUME NEW t \in ToSet(Index), BeginSuggestion(t) PROVE FleetInv'
  <2>1. PICK met \in SUBSET Members :
          /\ Walked(met) /\ \E who \in Domains(met) : Give("suggest", "measure", who)
          /\ tally' = [NoTally EXCEPT !.complete = listable] /\ UNCHANGED sweep
    BY <1>5 DEF BeginSuggestion
  <2>2. PICK who \in Domains(met) : Give("suggest", "measure", who) BY <2>1
  <2>3. tally' = [NoTally EXCEPT !.available = Unknown, !.complete = listable]
    <3>1. NoTally \in TallyType /\ NoTally.available = Unknown
      BY DEF NoTally, TallyType, Unknown
    <3>2. [NoTally EXCEPT !.available = Unknown] = NoTally BY <3>1 DEF TallyType
    <3>3. [NoTally EXCEPT !.available = Unknown, !.complete = listable]
            = [[NoTally EXCEPT !.available = Unknown] EXCEPT !.complete = listable]
      BY Zenon DEF NoTally
    <3>4. QED BY <2>1, <3>2, <3>3
  <2>4. QED BY <2>1, <2>2, <2>3, BeginMeasureInv DEF Measures
<1>6. QED BY <1>2, <1>3, <1>4, <1>5

\* One sandbox is measured: it is counted if it is up, and only now.
LEMMA MeasureNextInv == ASSUME FleetInv, MeasureNext PROVE FleetInv'
<1>1. /\ place = "measure" /\ todo # <<>> /\ todo' = Tail(todo)
      /\ UNCHANGED <<vm, listable, verb, place, sweep, rows, verdict, touched, events>>
  BY DEF MeasureNext
<1>2. verb \in Measures
  BY <1>1 DEF FleetInv, FleetTypes, Courses, Stopping, Reporting, Measures
<1>3. PICK h \in Members : h = Head(todo)
  BY <1>1 DEF FleetInv, FleetTypes
<1>4. /\ todo' \in Seq(Members) /\ Len(todo') + 1 = Len(todo) /\ Len(todo') \in Nat
      /\ ToSet(todo) = {h} \cup ToSet(todo') /\ IsInjective(todo') /\ h \notin ToSet(todo')
  <2>1. todo \in Seq(Members) /\ IsInjective(todo)
    BY <1>2 DEF FleetInv, FleetTypes, Counts
  <2>2. QED BY <1>1, <1>3, <2>1, Walk
<1>5. PICK c \in Nat : c = vm[h].charge /\ c >= 1 /\ c # Unknown
  BY FleetAssumption DEF FleetInv, FleetTypes, VmType, Unknown
<1> DEFINE up == vm[h].phase \in Up /\ ~Unread(h)
           measured == up /\ "memory" \in vm[h].answers
<1>6. /\ measured <=> up /\ Reading(h) # Unknown
      /\ up <=> Discriminate(h) \subseteq Up
  BY <1>5, TakenFor DEF Reading
<1>7. PICK r \in Nat, m \in Nat, s \in Nat :
        /\ r = tally.running /\ m = tally.measured /\ s = tally.sum
        /\ m <= r /\ m <= s /\ r + Len(todo) <= Cardinality(Members)
  BY <1>2 DEF FleetInv, FleetTypes, TallyType, Counts
<1>8. /\ tally' \in TallyType
      /\ tally'.running = IF up THEN r + 1 ELSE r
      /\ tally'.measured = IF measured THEN m + 1 ELSE m
      /\ tally'.sum = IF measured THEN s + c ELSE s
      /\ tally'.complete = tally.complete /\ tally'.available = tally.available
  <2>1. tally' = [tally EXCEPT !.running = IF up THEN @ + 1 ELSE @,
                               !.measured = IF measured THEN @ + 1 ELSE @,
                               !.sum = IF measured THEN @ + vm[h].charge ELSE @]
    BY <1>3, <1>6 DEF MeasureNext
  <2>2. tally' = [tally EXCEPT !.running = IF up THEN r + 1 ELSE r,
                               !.measured = IF measured THEN m + 1 ELSE m,
                               !.sum = IF measured THEN s + c ELSE s]
    BY <1>5, <1>7, <2>1
  <2>3. r + 1 \in Nat /\ m + 1 \in Nat /\ s + c \in Nat OBVIOUS
  <2>4. tally \in TallyType BY DEF FleetInv, FleetTypes
  <2> HIDE DEF up, measured
  <2>5. QED BY <2>2, <2>3, <2>4 DEF TallyType
<1>9. FleetTypes' BY <1>1, <1>4, <1>8 DEF FleetInv, FleetTypes
<1>10. Courses' BY <1>1, <1>2 DEF FleetInv, Courses, Measures
<1>11. Attempts' BY <1>1, <1>2 DEF Attempts, Measures
<1>12. Counts'
  <2>1. tally'.measured <= tally'.running BY <1>7, <1>8
  <2>2. tally'.measured <= tally'.sum BY <1>5, <1>7, <1>8
  <2>3. Cardinality(Members) \in Nat BY FleetIsFinite
  <2>4. tally'.running + Len(todo') <= Cardinality(Members) BY <1>4, <1>7, <1>8, <2>3
  <2>5. QED BY <1>1, <1>2, <1>4, <2>1, <2>2, <2>4 DEF Counts
<1>13. Measured' => Measured BY <1>1, <1>8 DEF Measured
<1>14. Coverage'
  <2> SUFFICES ASSUME Measured, tally.complete, NEW t \in Members \ touched,
                      vm[t].phase \in Up, ~Unread(t)
               PROVE  t \in ToSet(todo') \/ tally'.running > 0
    BY <1>1, <1>8, <1>13 DEF Coverage, Unread
  <2>1. t \in ToSet(todo) \/ tally.running > 0 BY DEF FleetInv, Coverage
  <2>2. CASE t = h BY <1>7, <1>8, <2>2
  <2>3. CASE t # h BY <1>4, <1>7, <1>8, <2>1, <2>3
  <2>4. QED BY <2>2, <2>3
<1>15. Sums'
  <2> SUFFICES ASSUME verb = "admit", Measured, touched = {}, listable, tally.available # Unknown,
                      \A t \in Members : vm[t].phase \in Up => vm[t].answers = Questions
               PROVE  /\ tally'.complete /\ tally'.available = Available'
                      /\ tally'.measured = tally'.running /\ tally'.sum = ChargeOf(Seen)'
    BY <1>1, <1>8, <1>13 DEF Sums
  <2>1. /\ tally.complete /\ tally.available = Available
        /\ tally.measured = tally.running /\ tally.sum = ChargeOf(Seen)
    BY DEF FleetInv, Sums
  <2>2. Available' = Available BY <1>1 DEF Available, ChargeOf
  <2>3. ChargeOf(Seen)' = ChargeOf(Seen') BY <1>1 DEF ChargeOf
  <2>4. Seen \in SUBSET Members /\ h \notin Seen BY <1>4 DEF Seen
  <2>u. vm[h].phase \in Up => up /\ measured BY DEF Unread, Questions
  <2>5. CASE up
    <3>1. Seen' = Seen \cup {h} BY <1>1, <1>4, <2>5 DEF Seen
    <3>2. ChargeOf(Seen \cup {h}) = ChargeOf(Seen) + c
      BY <1>5, <2>4, ChargeAdds DEF FleetInv
    <3>3. measured BY <2>5, <2>u
    <3>4. QED BY <1>7, <1>8, <2>1, <2>2, <2>3, <2>5, <3>1, <3>2, <3>3
  <2>6. CASE ~up
    <3>1. Seen' = Seen BY <1>1, <1>4, <2>6, <2>u DEF Seen
    <3>2. QED BY <1>7, <1>8, <2>1, <2>2, <2>3, <2>6, <3>1
  <2>7. QED BY <2>5, <2>6
<1>16. Rows' BY <1>1 DEF FleetInv, Rows, CountsItsOwnBoot
<1>17. QED BY <1>9, <1>10, <1>11, <1>12, <1>14, <1>15, <1>16 DEF FleetInv

\* The measurement is concluded.
LEMMA MeasureDoneInv == ASSUME FleetInv, MeasureDone PROVE FleetInv'
<1>1. PICK reading \in IF verb = "admit" THEN {tally.available} ELSE HostReadings :
        verdict' = Admit(reading, FleetSum(tally))
  BY DEF MeasureDone
<1>2. /\ place = "measure" /\ todo = <<>> /\ place' = "done"
      /\ UNCHANGED <<vm, listable, verb, todo, tally, sweep, rows, touched, events>>
  BY DEF MeasureDone
<1>3. verb \in Measures
  BY <1>2 DEF FleetInv, FleetTypes, Courses, Stopping, Reporting, Measures
<1>4. verdict' \in {"refuse", "warn", "proceed"} BY <1>1, AdmitAnswers
<1>5. FleetTypes' BY <1>2 DEF FleetInv, FleetTypes
<1>6. FleetSum(tally)' = FleetSum(tally) BY <1>2 DEF FleetSum
<1>7. verb = "admit" => verdict' = Admit(tally.available, FleetSum(tally))' BY <1>1, <1>2, <1>6
<1>8. Courses' BY <1>2, <1>3, <1>4, <1>7 DEF FleetInv, Courses, Measures, Stopping, Reporting
<1>9. Attempts' BY <1>2, <1>3 DEF Attempts, Measures
<1>10. Counts' /\ Coverage' /\ Sums'
  BY <1>2 DEF FleetInv, Counts, Coverage, Sums, Measured, Available, ChargeOf, Seen, Unread
<1>11. Rows' BY <1>2 DEF FleetInv, Rows, CountsItsOwnBoot
<1>12. QED BY <1>5, <1>8, <1>9, <1>10, <1>11 DEF FleetInv

\* Every step preserves the invariant.
LEMMA FleetStepInv == FleetInv /\ [FleetNext]_fleetVars => FleetInv'
<1> SUFFICES ASSUME FleetInv, [FleetNext]_fleetVars PROVE FleetInv'
  OBVIOUS
<1>1. CASE World BY <1>1, WorldInv
<1>2. CASE StopStep BY <1>2, StopInv
<1>3. CASE MeasureStep BY <1>3, MeasureNextInv, MeasureDoneInv DEF MeasureStep
<1>4. CASE StatusStep BY <1>4, StatusInv
<1>5. CASE UNCHANGED fleetVars
  BY <1>5 DEF fleetVars, FleetInv, FleetTypes, Courses, Attempts, Counts, Coverage, Sums, Measured,
              Available, ChargeOf, Seen, Rows, CountsItsOwnBoot, FleetSum, Settled, Overlooked, Unread
<1>6. QED BY <1>1, <1>2, <1>3, <1>4, <1>5, BeginInv DEF FleetNext

\* What the verbs over all sandboxes promise, for any number of them and of
\* changes under way, and whatever the service manager does not answer: a stop
\* leaves nobody behind, and one that exits 0 left everybody down, but for a unit
\* in transition nobody can be asked about; a fleet whose units' states can be
\* asked is not taken for an empty one; a start admitted in silence over a fleet
\* that held still and answered fits above the reserve; and a session count is of
\* the boot its row names (stop_all, measured_use, admit, row).
THEOREM FleetIsSafe == FleetSpec => []FleetSafe
<1>1. ASSUME FleetInv PROVE FleetSafe
  <2> USE <1>1
  <2>t. FleetTypes /\ Courses /\ Attempts /\ Counts /\ Coverage /\ Sums /\ Rows BY DEF FleetInv
  <2>v. Answers \cap Members = {} BY FleetAssumption
  <2>f. ToSet(sweep.failures) \subseteq Members /\ ToSet(todo) \subseteq Members
        /\ ToSet(<<>>) = {}
    BY <2>t, Walk DEF FleetTypes, SweepType
  <2>h. sweep.failures # <<>> => Head(sweep.failures) \in Members
    BY <2>t DEF FleetTypes, SweepType
  <2>1. FleetTypeOK
    <3>1. vm \in [Members -> [phase : {"absent", "built"} \cup Residue, boot : 1 .. 1 + MaxEvents,
                              charge : 0 .. Ceiling, answers : SUBSET Questions, obeys : BOOLEAN]]
      <4>1. MaxEvents \in Nat /\ Ceiling \in Nat BY FleetAssumption
      <4>2. ASSUME NEW t \in Members
            PROVE  vm[t].boot \in 1 .. 1 + MaxEvents /\ vm[t].charge \in 0 .. Ceiling
        BY <2>t, <4>1 DEF FleetTypes, VmType
      <4>3. QED BY <2>t, <4>2 DEF FleetTypes, VmType, Phases
    <3>2. tally.running <= Cardinality(Members)
      <4>1. Cardinality(Members) \in Nat BY FleetIsFinite
      <4>2. Len(todo) \in Nat /\ tally.running \in Nat BY <2>t DEF FleetTypes, TallyType
      <4>3. CASE verb \in Measures BY <2>t, <4>1, <4>2, <4>3 DEF Counts
      <4>4. CASE verb \notin Measures BY <2>t, <4>1, <4>4 DEF Counts, NoTally
      <4>5. QED BY <4>3, <4>4
    <3>3. verdict \in Answers \cup Members
      BY <2>t, <2>h DEF Courses, Answers, Measures, Stopping, Reporting, FleetTypes
    <3>4. ToSet(sweep.failures) \subseteq ToSet(sweep.given)
      BY <2>t, <2>f DEF Attempts, Courses
    <3>5. QED BY <2>t, <2>f, <3>1, <3>2, <3>3, <3>4
              DEF FleetTypeOK, FleetTypes, Courses, Stopping, Reporting, Counts
  <2>2. SweepLeavesNoneBehind
    BY <2>t, <2>f DEF SweepLeavesNoneBehind, Courses, Attempts, Settled
  <2>3. OkMeansDown
    <3> SUFFICES ASSUME verb = "stop", verdict = "ok", NEW t \in ToSet(sweep.given) \ touched
                 PROVE  Settled(t)
      BY DEF OkMeansDown, Settled
    <3>1. place = "done" /\ todo = <<>> BY <2>t DEF Courses
    <3>2. sweep.failures = <<>> BY <2>t, <2>h, <2>v, <3>1 DEF Courses, Answers
    <3>3. QED BY <2>t, <2>f, <3>1, <3>2 DEF Attempts
  <2>4. ZeroMeansEmpty
    <3> SUFFICES ASSUME place = "done", verdict \in {"warn", "proceed"}, FleetSum(tally) = 0,
                        NEW t \in Members \ touched, vm[t].phase \in Up, ~Unread(t)
                 PROVE  FALSE
      BY DEF ZeroMeansEmpty
    <3>1. verb \in Measures /\ todo = <<>>
      BY <2>t, <2>h, <2>v DEF Courses, Answers, FleetTypes, Measures
    <3>2. Measured
      <4>1. ASSUME NEW a \in Int, NEW u, Admit(a, u) # "refuse"
            PROVE  Admit(a, Unknown) # "refuse"
        <5>0. MemoryReserve \in Nat BY FleetAssumption
        <5>1. a = Unknown \/ ~(a < MemoryReserve) BY <4>1, <5>0 DEF Admit
        <5>2. QED BY <5>1 DEF Admit
      <4>a. tally.available \in Int BY <2>t DEF FleetTypes, TallyType
      <4>2. verb = "admit" => Admit(tally.available, FleetSum(tally)) # "refuse"
        BY <2>t, <3>1 DEF Courses
      <4>3. QED BY <3>1, <4>1, <4>a, <4>2 DEF Measured
    <3>3. PICK r \in Nat, m \in Nat, s \in Nat :
            r = tally.running /\ m = tally.measured /\ s = tally.sum /\ m <= s
      BY <2>t DEF FleetTypes, TallyType, Counts
    <3>4. r = 0 /\ tally.complete
      BY <3>3 DEF FleetSum, Unknown
    <3>5. QED BY <2>t, <2>f, <3>1, <3>2, <3>3, <3>4 DEF Coverage
  <2>5. SilenceMeansRoom
    <3> DEFINE U == {t \in Members : vm[t].phase \in Up}
    <3> SUFFICES ASSUME verb = "admit", verdict = "proceed", touched = {}, listable,
                        tally.available # Unknown,
                        \A t \in Members : vm[t].phase \in Up => vm[t].answers = Questions
                 PROVE  ChargeOf(U) <= Available - MemoryReserve
      BY DEF SilenceMeansRoom
    <3>1. place = "done" /\ todo = <<>> /\ Admit(tally.available, FleetSum(tally)) = "proceed"
      BY <2>t DEF Courses, Measures
    <3>2. Measured BY <3>1 DEF Measured, Admit, Measures
    <3>3. /\ tally.complete /\ tally.available = Available
          /\ tally.measured = tally.running /\ tally.sum = ChargeOf(Seen)
      BY <2>t, <3>2 DEF Sums
    <3>4. Seen = U BY <2>f, <3>1 DEF Seen
    <3>5. U \in SUBSET Members OBVIOUS
    <3>6. ChargeOf(U) \in Nat /\ ChargeOf({}) = 0 BY <2>t, <3>5, ChargeAdds
    <3>7. PICK r \in Nat : r = tally.running BY <2>t DEF FleetTypes, TallyType
    <3>8. r = 0 => U = {}
      <4>1. \A t \in U : ~Unread(t) BY DEF Unread, Questions
      <4>2. QED BY <2>t, <2>f, <3>1, <3>2, <3>3, <3>7, <4>1 DEF Coverage
    <3> HIDE DEF U
    <3>9. FleetSum(tally) = ChargeOf(U)
      BY <3>3, <3>4, <3>6, <3>7, <3>8 DEF FleetSum
    <3>10. Available \in Int /\ MemoryReserve \in Nat BY <2>t, AvailableType, FleetAssumption
    <3>11. QED BY <3>1, <3>3, <3>6, <3>9, <3>10 DEF Admit, Unknown
  <2>6. CountsItsOwnBoot BY <2>t DEF Rows
  <2>7. QED BY <2>1, <2>2, <2>3, <2>4, <2>5, <2>6 DEF FleetSafe
<1>2. QED BY <1>1, FleetInitInv, FleetStepInv, PTL DEF FleetSpec
==============================================================================
