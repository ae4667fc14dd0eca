SPECIFICATION Spec
CONSTANTS
    sOne = sOne
    sTwo = sTwo
    sOld = sOld
    sBad = sBad
    bA = bA
    bB = bB
    rBatch = rBatch
    rJson = rJson
    rGrpc = rGrpc
    Spans = {sOne, sTwo, sOld, sBad}
    Bodies = {bA, bB}
    Rejected = {sBad}
    Undecodable = {sOld}
    Requests = {rBatch, rJson}
    BATCH_SIZE = 2
    MAX_RETRIES = 1
    BodiesOf <- MCBodiesOf
    RequestSpans <- MCRequestSpans
    Transport <- MCTransport
    MaxFaults <- ProcessFaults
INVARIANTS
    AckedIsAccountedFor
PROPERTIES
    ImplementsDelivery
