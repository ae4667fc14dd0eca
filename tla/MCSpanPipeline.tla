--------------------------- MODULE MCSpanPipeline ---------------------------
(***************************************************************************)
(* Instances of SpanPipeline for TLC: four spans, of which sTwo shares a  *)
(* body with sOne, sOld was encoded by an earlier build and no normalizer  *)
(* takes sBad.                                                             *)
(***************************************************************************)
EXTENDS SpanPipeline, TLC

CONSTANTS sOne, sTwo, sOld, sBad, bA, bB, rBatch, rJson, rGrpc

MCBodiesOf ==
    LET bodies == (sOne :> {bA}) @@ (sTwo :> {bA, bB}) @@ (sOld :> {bB})
                    @@ (sBad :> {})
    IN  [s \in Spans |-> bodies[s]]

\* An OTLP batch, a single span over JSON and one over gRPC, as far as the
\* instance has their spans.
MCRequestSpans ==
    LET content == (rBatch :> <<sOne, sTwo>>) @@ (rJson :> <<sOld>>)
                     @@ (rGrpc :> <<sOne, sBad>>)
    IN  [r \in Requests |->
            SelectSeq(content[r], LAMBDA s : s \in Spans)]

MCTransport ==
    LET receiver == (rBatch :> "http") @@ (rJson :> "json") @@ (rGrpc :> "grpc")
    IN  [r \in Requests |-> receiver[r]]

NoFaults == [k \in FaultKinds |-> 0]

\* Redis and the process fail, and ClickHouse refuses one insert.
ProcessFaults == [NoFaults EXCEPT !["xadd"] = 1, !["read"] = 1, !["xack"] = 1,
                                  !["dlq"] = 1, !["crash"] = 1, !["group"] = 1,
                                  !["permanent"] = 1]

\* ClickHouse fails: an outage, a late error, and up to three refusals; an
\* announcement fails.
StorageFaults == [NoFaults EXCEPT !["outage"] = 1, !["transient"] = 1,
                                  !["permanent"] = 3, !["live"] = 1]

\* ClickHouse fails, the process is told to stop or crashes, and everything
\* that can leave an entry pending or unread happens.
ShutdownFaults == [NoFaults EXCEPT !["outage"] = 1, !["sigterm"] = 1,
                                   !["crash"] = 1, !["connect"] = 1,
                                   !["group"] = 1, !["read"] = 1,
                                   !["xack"] = 1]

\* One outage and one orderly restart.
RestartFaults == [NoFaults EXCEPT !["outage"] = 1, !["sigterm"] = 1]
=============================================================================
