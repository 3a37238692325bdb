-------------------------- MODULE TagWalkContract --------------------------
(***************************************************************************)
(* What the tag walk of one service promises to those who read its result: *)
(* whatever happens on the way, the result on display changes in one step, *)
(* at the end of a walk, and then to nothing, or to final releases that    *)
(* the registry has offered, the target no newer than the latest.  A walk  *)
(* that fails leaves it as it is.                                          *)
(***************************************************************************)
EXTENDS Integers

CONSTANTS
    None,
    Version(_)  \* the place of a release among the versions

VARIABLES
    walking,   \* a walk is in progress
    offered,   \* the releases the registry has ever offered
    shown      \* TagWalkCoordinator.data of the service

vars == <<walking, offered, shown>>

Nothing == [latest |-> None, target |-> None]

Found(r) ==
    /\ r.latest = None => r.target = None
    /\ r.latest # None => r.latest \in offered
    /\ r.target # None => /\ r.target \in offered
                          /\ Version(r.target) <= Version(r.latest)

Init == walking = FALSE /\ shown = Nothing

Offer == offered \subseteq offered' /\ UNCHANGED <<walking, shown>>

Begin == ~walking /\ walking' = TRUE /\ UNCHANGED <<offered, shown>>

End ==
    /\ walking
    /\ walking' = FALSE
    /\ shown' = shown \/ shown' = Nothing \/ Found(shown')
    /\ UNCHANGED offered

Spec == Init /\ [][Offer \/ Begin \/ End]_vars
=============================================================================
