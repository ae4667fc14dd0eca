----------------------------- MODULE MCLiveSpans -----------------------------
(***************************************************************************)
(* Instances of LiveSpans for TLC.                                         *)
(***************************************************************************)
EXTENDS LiveSpans

CONSTANTS s1, s2, c1, c2

\* Each kind of failure happens once.
OneOfEach == [k \in FaultKinds |-> 1]
=============================================================================
