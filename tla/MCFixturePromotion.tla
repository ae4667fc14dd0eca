------------------------- MODULE MCFixturePromotion -------------------------
(***************************************************************************)
(* Instances of FixturePromotion for TLC: the same run is turned into a    *)
(* test twice.                                                             *)
(***************************************************************************)
EXTENDS FixturePromotion, TLC

CONSTANTS c1, c2, t1, t2, rA, sA

MCRunOf == [c \in Clicks |-> rA]
MCSlugOf == rA :> sA

NoFaults == [k \in FaultKinds |-> 0]

Symmetry == Permutations(Clicks)

\* Everything fails once.
AllFaults == [k \in FaultKinds |-> 1]
=============================================================================
