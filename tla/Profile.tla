------------------------------- MODULE Profile -------------------------------
(***************************************************************************)
(* What the generation profile of one target promises, without its files:  *)
(* a set of numbered builds and a pointer to one of them.  A new entry is  *)
(* numbered past every retained one, an entry never changes, only an entry *)
(* the pointer is not on is dropped, and the pointer moves between         *)
(* retained entries.                                                       *)
(***************************************************************************)
EXTENDS Naturals

CONSTANTS Numbers, Builds

VARIABLES entries, cur

Init == entries = {} /\ cur = 0

Record ==
    \E n \in Numbers, b \in Builds :
        /\ \A e \in entries : e[1] < n
        /\ entries' = entries \cup {<<n, b>>}
        /\ cur' = cur

Point ==
    \E e \in entries : cur' = e[1] /\ entries' = entries

Drop ==
    \E e \in entries : e[1] # cur /\ entries' = entries \ {e} /\ cur' = cur

Clear == entries' = {} /\ cur' = 0

Next == Record \/ Point \/ Drop \/ Clear

Spec == Init /\ [][Next]_<<entries, cur>>
=============================================================================
