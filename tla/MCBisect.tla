------------------------------ MODULE MCBisect ------------------------------
(***************************************************************************)
(* Instances of Bisect for TLC.                                            *)
(***************************************************************************)
EXTENDS Bisect

CONSTANT r1

\* The command fails in every way it can, once.
AllFaults == [k \in FaultKinds |-> 1]
=============================================================================
