------------------------------ MODULE MCStore ------------------------------
(***************************************************************************)
(* The durable state of a target, for TLC: its generations, when destroy   *)
(* may be cut short, its pin and generated tree, the manifest index, and   *)
(* its volumes.  No two of them share state here, so a behaviour is one of *)
(* one part: focus says which, and the others rest in an initial state.    *)
(***************************************************************************)
EXTENDS Generations, Publication, Ownership, Volumes, TLC

CONSTANTS r1, s1, u1, m1, m2, p1, p2, q1, n1, home

VARIABLE focus

storeVars == <<focus, vars, pubVars, ownVars, volVars>>

ConstReaders   == {r1}
ConstStarters  == {s1}
ConstUpdaters  == {u1}
ConstManifests == {m1, m2}
ConstResolvers == {p1, p2}
ConstDrafts    == {m1}
ConstPieces    == {q1}
ConstNames     == {n1}
ConstReserved  == {home}

\* Builds, lock contents, processes and pieces are interchangeable.
Symmetry == Permutations(Builds) \cup Permutations(Locks)
            \cup Permutations({p1, p2})

\* The part at rest
PubRest == owned = NoPin /\ override = NoPin
OwnRest == \A m \in Manifests : library[m].text = "other"
VolRest == record = NoRecord /\ layers = [manifest |-> {}, pieces |-> {}, of |-> [q \in Pieces |-> {}]]

StoreInit ==
    /\ focus \in {"generations", "publication", "ownership", "volumes"}
    /\ Init
    /\ PubInit /\ (focus = "publication" \/ PubRest)
    /\ OwnInit /\ (focus = "ownership" \/ OwnRest)
    /\ VolInit /\ (focus = "volumes" \/ VolRest)

StoreNext ==
    \/ focus = "generations" /\ Next    /\ UNCHANGED <<focus, pubVars, ownVars, volVars>>
    \/ focus = "publication" /\ PubNext /\ UNCHANGED <<focus, vars, ownVars, volVars>>
    \/ focus = "ownership"   /\ OwnNext /\ UNCHANGED <<focus, vars, pubVars, volVars>>
    \/ focus = "volumes"     /\ VolNext /\ UNCHANGED <<focus, vars, pubVars, ownVars>>

StoreSpec == StoreInit /\ [][StoreNext]_storeVars
=============================================================================
