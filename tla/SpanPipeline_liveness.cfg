SPECIFICATION FairSpec
CONSTANTS
    sOne = sOne
    sTwo = sTwo
    sOld = sOld
    sBad = sBad
    bA = bA
    bB = bB
    rBatch = rBatch
    rJson = rJson
    rGrpc = rGrpc
    Spans = {sOne, sOld}
    Bodies = {bA, bB}
    Rejected = {}
    Undecodable = {sOld}
    Requests = {rJson, rGrpc}
    BATCH_SIZE = 2
    MAX_RETRIES = 1
    BodiesOf <- MCBodiesOf
    RequestSpans <- MCRequestSpans
    Transport <- MCTransport
    MaxFaults <- ShutdownFaults
PROPERTIES
    ShutdownStopsWriter
    EveryEntrySettles
CHECK_DEADLOCK FALSE
