---------------------------- MODULE MCRunnerJobs ----------------------------
(***************************************************************************)
(* Instances of RunnerJobs for TLC.                                        *)
(***************************************************************************)
EXTENDS RunnerJobs, TLC

CONSTANTS jCi, jBisect, w1, w2

MCKind ==
    LET kind == (jCi :> "ci") @@ (jBisect :> "bisect")
    IN  [j \in Jobs |-> kind[j]]

NoFaults == [k \in FaultKinds |-> 0]

\* Workers crash and are stopped, and each kind of failure happens once.
WorkerFaults == [NoFaults EXCEPT !["crash"] = 2, !["sigterm"] = 1,
                                 !["setup"] = 1, !["db"] = 1, !["enqueue"] = 1]
=============================================================================
