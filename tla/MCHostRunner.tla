---------------------------- MODULE MCHostRunner ----------------------------
(***************************************************************************)
(* Instances of HostRunner for TLC.                                        *)
(***************************************************************************)
EXTENDS HostRunner, TLC

CONSTANTS jCi, jBisect, w1

MCKind ==
    LET kind == (jCi :> "ci") @@ (jBisect :> "bisect")
    IN  [j \in Jobs |-> kind[j]]

MCGood == [j \in BisectJobs |-> 1]

\* A worker is lost or stopped, or finds no runner.
WorkerFaults ==
    [k \in FaultKinds |-> IF k \in {"crash", "sigterm", "setup"} THEN 1 ELSE 0]

\* A checkout or a restore fails, a bisect takes too long.
TreeFaults == [k \in {"checkout", "restore", "kill"} |-> 1]

\* The last commit broke the fixture, or the one before it.
BrokenAt(f) == [c \in 1 .. N |-> {c < f}]

MCInit == HostInit /\ verdicts \in {BrokenAt(N - 1), BrokenAt(N)}

MCSpec == MCInit /\ [][HostNext]_hostVars
=============================================================================
