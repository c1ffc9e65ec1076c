-------------------------- MODULE BlueprintForest --------------------------
(***************************************************************************)
(* What the registry of blueprints promises to its users: blueprints form  *)
(* a forest.  A new blueprint is a root or the child of a live one, and    *)
(* only a blueprint with no live child is removed, for good.               *)
(***************************************************************************)
CONSTANTS Blueprint, NoBlue

VARIABLES live,     \* the blueprints that exist
          planted,  \* the identifiers given so far
          parentOf  \* the parent of each of them

forest == <<live, planted, parentOf>>

Init ==
    /\ live = {}
    /\ planted = {}
    /\ parentOf = [b \in Blueprint |-> NoBlue]

Plant(b, p) ==
    /\ b \in Blueprint \ planted
    /\ p \in live \cup {NoBlue}
    /\ live' = live \cup {b}
    /\ planted' = planted \cup {b}
    /\ parentOf' = [parentOf EXCEPT ![b] = p]

Remove(b) ==
    /\ b \in live
    /\ \A c \in live : parentOf[c] # b
    /\ live' = live \ {b}
    /\ UNCHANGED <<planted, parentOf>>

Next ==
    \/ \E b \in Blueprint, p \in Blueprint \cup {NoBlue} : Plant(b, p)
    \/ \E b \in Blueprint : Remove(b)

Spec == Init /\ [][Next]_forest
=============================================================================
