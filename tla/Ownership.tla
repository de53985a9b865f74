---------------------------- MODULE Ownership ----------------------------
(***************************************************************************)
(* Which manifest owns the working directory, and the derived index that   *)
(* answers it.                                                             *)
(*                                                                         *)
(* The manifest library is a directory its author edits while commands     *)
(* run.  Every resolving command stamps each manifest (a hash of its bytes *)
(* and its mtime), reuses the cached index when the stamps agree, rebuilds *)
(* and publishes it (without a lock) when they do not, and reads every     *)
(* candidate again before it accepts an owner.  A manifest's content is    *)
(* abstracted to what resolution tells apart: it claims the invoking       *)
(* directory, it claims another one, or it does not parse.                 *)
(***************************************************************************)
EXTENDS Naturals, FiniteSets

CONSTANTS Manifests, Resolvers,
          Drafts,      \* the manifests their author is editing
          NoIndex,
          MaxEdits,    \* bound on the author's edits
          Reverts      \* whether a rewrite that keeps the mtime may bring bytes back

ASSUME OwnershipAssumption ==
    /\ Drafts \subseteq Manifests
    /\ MaxEdits \in Nat /\ Reverts \in BOOLEAN

VARIABLES
    library,     \* the manifests on disk: content and mtime
    index,       \* workspace-index.json: stamps and derived content
    edits,       \* the author's edits so far, also the clock of mtimes
    past,        \* the texts each manifest has already had
    find         \* per resolver: how far it is and what it read

ownVars == <<library, index, edits, past, find>>

Contents == {"claims", "other", "broken", "gone"}
Version == [text : Contents, mtime : 0..MaxEdits]

Idle == [pc |-> "idle", todo |-> {}, stamps |-> <<>>, entries |-> <<>>,
         matches |-> {}, steady |-> {}, answer |-> "none"]

OwnInit ==
    /\ library \in [Manifests -> [text : {"claims", "other"}, mtime : {0}]]
    /\ index = NoIndex
    /\ edits = 0
    /\ past = [m \in Manifests |-> {library[m].text}]
    /\ find = [p \in Resolvers |-> Idle]

(***************************************************************************)
(* Functions over the manifests read so far, as partial functions          *)
(***************************************************************************)
With(f, m, v) == [x \in DOMAIN f \cup {m} |-> IF x = m THEN v ELSE f[x]]

\* The names are sorted; which order that is, no property tells.
NextName(todo) == CHOOSE m \in todo : TRUE

Present(m) == library[m].text # "gone"

OwnAt(p, pc) == find[p].pc = pc
Advance(p, rec) == find' = [find EXCEPT ![p] = rec]

(***************************************************************************)
(* manifest_stamps                                                         *)
(***************************************************************************)

\* read_dir: the names there are now.
Enumerate(p) ==
    /\ OwnAt(p, "idle")
    /\ Advance(p, [Idle EXCEPT !.pc = "stamp", !.steady = Manifests,
                           !.todo = {m \in Manifests : Present(m)}])
    /\ UNCHANGED <<library, index, edits, past>>

\* Mutant: The stamp is the mtime alone.
StampName(p) ==
    /\ OwnAt(p, "stamp") /\ find[p].todo # {}
    /\ LET m == NextName(find[p].todo) IN
       Advance(p, [find[p] EXCEPT !.pc = "mtime",
                 !.stamps = With(@, m, [text |-> "other", mtime |-> 0])])
    /\ UNCHANGED <<library, index, edits, past>>

\* ManifestStamp::read, first half: the bytes are hashed. A manifest that has
\* vanished is skipped.
StampBytes(p) ==
    /\ OwnAt(p, "stamp") /\ find[p].todo # {}
    /\ LET m == NextName(find[p].todo) IN
       Advance(p, IF Present(m)
              THEN [find[p] EXCEPT !.pc = "mtime",
                      !.stamps = With(@, m, [text |-> library[m].text, mtime |-> 0])]
              ELSE [find[p] EXCEPT !.todo = @ \ {m}])
    /\ UNCHANGED <<library, index, edits, past>>

\* Second half: the modification time, of whatever file is there by now.
StampTime(p) ==
    /\ OwnAt(p, "mtime")
    /\ LET m == NextName(find[p].todo)
           s == find[p].stamps IN
       Advance(p, [find[p] EXCEPT !.pc = "stamp", !.todo = @ \ {m},
                 !.stamps = IF Present(m)
                            THEN With(s, m, [s[m] EXCEPT !.mtime = library[m].mtime])
                            ELSE [x \in DOMAIN s \ {m} |-> s[x]]])
    /\ UNCHANGED <<library, index, edits, past>>

(***************************************************************************)
(* load_or_rebuild                                                         *)
(***************************************************************************)

\* The cached index answers only for exactly these stamps.
Hit(stamps) == IF index = NoIndex THEN FALSE ELSE index.stamps = stamps

Load(p) ==
    /\ OwnAt(p, "stamp") /\ find[p].todo = {}
    /\ Advance(p, IF Hit(find[p].stamps)
              THEN [find[p] EXCEPT !.pc = "match", !.entries = index.entries, !.stamps = <<>>]
              ELSE [find[p] EXCEPT !.pc = "derive"])
    /\ UNCHANGED <<library, index, edits, past>>

\* The derive closure resolves and parses each manifest again; one that is gone
\* or does not parse contributes no entry.
Parsed(ms) == {m \in ms : library[m].text \in {"claims", "other"}}

Derive(p) ==
    /\ OwnAt(p, "derive")
    /\ Advance(p, [find[p] EXCEPT !.pc = "publish",
              !.entries = [m \in Parsed(DOMAIN find[p].stamps) |-> library[m].text]])
    /\ UNCHANGED <<library, index, edits, past>>

\* registry::publish: a staged sibling renamed over the cache, last writer wins.
PublishIndex(p) ==
    /\ OwnAt(p, "publish")
    /\ index' = [stamps |-> find[p].stamps, entries |-> find[p].entries]
    /\ Advance(p, [find[p] EXCEPT !.pc = "match", !.stamps = <<>>])
    /\ UNCHANGED <<library, edits, past>>

(***************************************************************************)
(* resolve_manifest_and_workspace                                          *)
(***************************************************************************)

\* The candidates of the index, read again, that still claim the directory
Owners(p) == {m \in DOMAIN find[p].entries :
                 find[p].entries[m] = "claims" /\ library[m].text = "claims"}

\* One owner, several, or none is the answer.
Rematch(p) ==
    /\ OwnAt(p, "match")
    /\ LET owners == Owners(p) IN
       Advance(p, [find[p] EXCEPT !.pc = "decided", !.entries = <<>>, !.matches = owners,
                     !.answer = CASE Cardinality(owners) > 1 -> "ambiguous"
                                  [] owners = {} -> "unbound"
                                  [] OTHER -> "owner"])
    /\ UNCHANGED <<library, index, edits, past>>

(***************************************************************************)
(* The author                                                              *)
(***************************************************************************)

\* An edit, a removal, or a rewrite that preserves the mtime (a restore, `cp -p`,
\* two writes inside one tick), which brings bytes back only when Reverts.
EditManifest(m) ==
    /\ edits < MaxEdits
    /\ edits' = edits + 1
    /\ \E text \in Contents \ {library[m].text}, mtime \in {edits + 1, library[m].mtime} :
         /\ Reverts \/ mtime = edits + 1 \/ text \notin past[m]
         /\ library' = [library EXCEPT ![m] = [text |-> text, mtime |-> mtime]]
         /\ past' = [past EXCEPT ![m] = @ \cup {text}]
    /\ find' = [p \in Resolvers |-> [find[p] EXCEPT !.steady = @ \ {m}]]
    /\ UNCHANGED index

\* The cache root is disposable: anyone may delete the index.
LoseIndex ==
    /\ index # NoIndex
    /\ index' = NoIndex
    /\ UNCHANGED <<library, edits, past, find>>

ResolverStep(p) ==
    \/ Enumerate(p) \/ StampBytes(p) \/ StampTime(p) \/ Load(p) \/ Derive(p)
    \/ PublishIndex(p) \/ Rematch(p)

OwnNext ==
    \/ \E p \in Resolvers : ResolverStep(p)
    \/ \E m \in Drafts : EditManifest(m)
    \/ LoseIndex

OwnSpec == OwnInit /\ [][OwnNext]_ownVars
----------------------------------------------------------------------------
Partial(S) == UNION {[D -> S] : D \in SUBSET Manifests}

OwnTypeOK ==
    /\ library \in [Manifests -> Version]
    /\ index \in [stamps : Partial(Version), entries : Partial({"claims", "other"})]
                 \cup {NoIndex}
    /\ edits \in 0..MaxEdits
    /\ \A p \in Resolvers :
         /\ find[p].stamps \in Partial(Version)
         /\ find[p].entries \in Partial({"claims", "other"})
         /\ find[p].matches \subseteq Manifests

\* The manifests that claimed the directory from the command's first step to
\* its last.
SteadyClaims(p) == {m \in find[p].steady : library[m].text = "claims"}

\* A command never settles on an owner, or on nobody, while another manifest
\* claimed the directory throughout: it answers ambiguous, or that manifest.
\* The index may miss, it may not hide a claim.
NoHiddenClaim ==
    \A p \in Resolvers : find[p].pc = "decided" =>
        /\ find[p].answer = "owner" => SteadyClaims(p) \subseteq find[p].matches
        /\ find[p].answer = "unbound" => SteadyClaims(p) = {}

\* The promise of the lookup at every state: the one above.
OwnershipSafe == OwnTypeOK /\ NoHiddenClaim
=============================================================================
