---------------------------- MODULE SpanPipeline ----------------------------
(***************************************************************************)
(* The ingester process: the OTLP and JSON handlers that publish spans to  *)
(* the Redis stream halley:spans, the writer task that moves them into     *)
(* ClickHouse, and main(), which starts, drains and stops both.            *)
(*                                                                         *)
(* A stream entry is named by its position in the stream.  The consumer    *)
(* group is the pair (delivered, pel): the last position handed out and    *)
(* the entries handed out but not acknowledged.  Redis and ClickHouse      *)
(* outlive the process; every call to them may fail, with or without       *)
(* having taken effect, as often as MaxFaults allows for that kind of call.*)
(***************************************************************************)
EXTENDS Integers, Sequences, FiniteSets

CONSTANTS
    Spans,          \* the spans clients may send
    Bodies,         \* content-addressed bodies, named by their hash
    BodiesOf,       \* the bodies a span refers to
    Rejected,       \* the spans no normalizer accepts
    Undecodable,    \* the spans whose stream entry decode_entry refuses
    Requests,       \* the export requests clients send
    RequestSpans,   \* the spans of each request, in order
    Transport,      \* the receiver each request arrives at
    BATCH_SIZE,     \* pipeline/mod.rs, the COUNT of XREADGROUP
    MAX_RETRIES,    \* pipeline/mod.rs, attempts at a permanent error
    MaxFaults       \* the bound on each kind of fault

FaultKinds == {"connect", "group", "read", "xadd", "xack", "dlq", "live",
               "transient", "permanent", "outage", "crash", "sigterm"}

Transports == {"http", "grpc", "json"}

ASSUME ConstantsAssumption ==
    /\ BodiesOf \in [Spans -> SUBSET Bodies]
    /\ Rejected \subseteq Spans
    /\ Undecodable \subseteq Spans
    /\ RequestSpans \in [Requests -> Seq(Spans)]
    /\ Transport \in [Requests -> Transports]
    /\ BATCH_SIZE \in Nat \ {0}
    /\ MAX_RETRIES \in Nat \ {0}
    /\ MaxFaults \in [FaultKinds -> Nat]

\* post_span takes exactly one span.
ASSUME JsonAssumption ==
    \A r \in Requests : Transport[r] = "json" => Len(RequestSpans[r]) = 1

VARIABLES
    stream,      \* Redis: the entries of halley:spans
    group,       \* Redis: whether the consumer group exists
    delivered,   \* Redis: the group's last-delivered position
    pel,         \* Redis: the group's pending entries
    dlq,         \* Redis: the entries copied to halley:spans:dlq
    dlqLost,     \* the entries whose XADD to the dead-letter stream failed
    live         \* Redis: the spans announced on halley:live:<run>

redisVars == <<stream, group, delivered, pel, dlq, dlqLost, live>>

VARIABLES
    chUp,        \* whether ClickHouse can be reached
    bodyRows,    \* ClickHouse: hashes in observation_body
    obsRows      \* ClickHouse: number of rows of each span in observations

chVars == <<chUp, bodyRows, obsRows>>

VARIABLES
    server,      \* main(): serving, draining, stopping or down
    shutdown,    \* the watch channel the writer observes
    handler      \* the progress of each request

serverVars == <<server, shutdown, handler>>

VARIABLES
    pc,          \* where the writer task is
    batch,       \* the entries of the batch still to be dealt with
    bad,         \* the entries of the batch that did not decode
    left,        \* the entries still to be dead-lettered
    attempt,     \* permanent_attempt
    bodiesResult \* what insert_bodies_batch returned

writerVars == <<pc, batch, bad, left, attempt, bodiesResult>>

VARIABLE faults  \* how many faults of each kind have happened

vars == <<redisVars, chVars, serverVars, writerVars, faults>>

Results == {"ok", "transient", "permanent"}

PCs == {"start", "group", "loop", "reading", "deadletter", "deadletterAck",
        "bodies", "observations", "backoff", "live", "ack", "giveup",
        "giveupAck", "exited"}

Answers == {"none", "ok", "error", "lost"}

\* A request: its next span (0 before it arrives), the errors counted so far
\* and what the client was told.
Progress == [next : Nat, errors : Nat, answer : Answers]

TypeOK ==
    /\ stream \in Seq(Spans)
    /\ group \in BOOLEAN
    /\ delivered \in 0 .. Len(stream)
    /\ pel \subseteq 1 .. delivered
    /\ dlq \subseteq 1 .. delivered
    /\ dlqLost \subseteq 1 .. delivered
    /\ live \subseteq Spans
    /\ chUp \in BOOLEAN
    /\ bodyRows \subseteq Bodies
    /\ obsRows \in [Spans -> Nat]
    /\ server \in {"serving", "draining", "stopping", "down"}
    /\ shutdown \in BOOLEAN
    /\ handler \in [Requests -> Progress]
    /\ pc \in PCs
    /\ batch \subseteq 1 .. delivered
    /\ bad \subseteq 1 .. delivered
    /\ left \subseteq 1 .. delivered
    /\ attempt \in Nat
    /\ bodiesResult \in Results
    /\ faults \in [FaultKinds -> Nat]

-----------------------------------------------------------------------------

\* The bodies of a batch, each once however many spans refer to it.
HashesOf(ids) == UNION {BodiesOf[stream[i]] : i \in ids}

Decodable(ids) == {i \in ids : stream[i] \notin Undecodable}

\* A span whose row and bodies a query finds.
Durable(s) == obsRows[s] > 0 /\ BodiesOf[s] \subseteq bodyRows

Acked == (1 .. delivered) \ pel

InFlight(r) == handler[r].next > 0 /\ handler[r].answer = "none"

Fault(kind) ==
    /\ faults[kind] < MaxFaults[kind]
    /\ faults' = [faults EXCEPT ![kind] = @ + 1]

NoFault == UNCHANGED faults

Init ==
    /\ stream = << >> /\ group = FALSE /\ delivered = 0 /\ pel = {}
    /\ dlq = {} /\ dlqLost = {} /\ live = {}
    /\ chUp = TRUE /\ bodyRows = {} /\ obsRows = [s \in Spans |-> 0]
    /\ server = "serving" /\ shutdown = FALSE
    /\ handler = [r \in Requests |->
                     [next |-> 0, errors |-> 0, answer |-> "none"]]
    /\ pc = "start" /\ batch = {} /\ bad = {} /\ left = {}
    /\ attempt = 0 /\ bodiesResult = "ok"
    /\ faults = [k \in FaultKinds |-> 0]

-----------------------------------------------------------------------------
(* The receivers.                                                          *)

\* A request reaches its receiver.  axum takes no new HTTP request once the
\* shutdown signal has fired; tonic serves until main() aborts it.
Arrive(r) ==
    /\ handler[r].next = 0
    /\ \/ server = "serving"
       \/ Transport[r] = "grpc" /\ server \in {"draining", "stopping"}
    /\ handler' = [handler EXCEPT ![r].next = 1]
    /\ UNCHANGED <<redisVars, chVars, server, shutdown, writerVars, faults>>

HasSpan(r) ==
    /\ server # "down"
    /\ InFlight(r)
    /\ handler[r].next <= Len(RequestSpans[r])

NextSpan(r) == RequestSpans[r][handler[r].next]

\* normalize or into_rows refuses the span: counted, and the loop goes on.
RejectSpan(r) ==
    /\ HasSpan(r)
    /\ NextSpan(r) \in Rejected
    /\ handler' = [handler EXCEPT ![r].next = @ + 1, ![r].errors = @ + 1]
    /\ UNCHANGED <<redisVars, chVars, server, shutdown, writerVars, faults>>

\* XADD halley:spans.
PublishSpan(r) ==
    /\ HasSpan(r)
    /\ NextSpan(r) \notin Rejected
    /\ stream' = Append(stream, NextSpan(r))
    /\ handler' = [handler EXCEPT ![r].next = @ + 1]
    /\ UNCHANGED <<group, delivered, pel, dlq, dlqLost, live, chVars,
                   server, shutdown, writerVars, faults>>

\* XADD fails, or succeeds and its reply is lost.
PublishSpanFails(r) ==
    /\ HasSpan(r)
    /\ NextSpan(r) \notin Rejected
    /\ Fault("xadd")
    /\ stream' \in {stream, Append(stream, NextSpan(r))}
    /\ handler' = [handler EXCEPT ![r].next = @ + 1, ![r].errors = @ + 1]
    /\ UNCHANGED <<group, delivered, pel, dlq, dlqLost, live, chVars,
                   server, shutdown, writerVars>>

\* OTLP answers success whatever the error count; post_span reports it.
Answer(r) ==
    /\ server # "down"
    /\ InFlight(r)
    /\ handler[r].next > Len(RequestSpans[r])
    /\ handler' = [handler EXCEPT ![r].answer =
                      IF Transport[r] = "json" /\ handler[r].errors > 0
                      THEN "error" ELSE "ok"]
    /\ UNCHANGED <<redisVars, chVars, server, shutdown, writerVars, faults>>

Handle(r) ==
    \/ Arrive(r) \/ RejectSpan(r) \/ PublishSpan(r) \/ PublishSpanFails(r)
    \/ Answer(r)

-----------------------------------------------------------------------------
(* The writer task, one action per await.                                  *)

WriterFrame == UNCHANGED serverVars

Goto(l) == pc' = l

\* Writer::run opens its connection; on failure the task ends for good.
Connect ==
    /\ pc = "start"
    /\ \/ Goto("group") /\ NoFault
       \/ Goto("exited") /\ Fault("connect")
    /\ UNCHANGED <<redisVars, chVars, batch, bad, left, attempt, bodiesResult>>
    /\ WriterFrame

\* XGROUP CREATE ... 0 MKSTREAM, its result ignored.
CreateGroup ==
    /\ pc = "group"
    /\ Goto("loop")
    /\ \/ group' = TRUE /\ NoFault
       \/ UNCHANGED group /\ Fault("group")
    /\ UNCHANGED <<stream, delivered, pel, dlq, dlqLost, live, chVars,
                   batch, bad, left, attempt, bodiesResult>>
    /\ WriterFrame

CheckShutdown ==
    /\ pc = "loop"
    /\ Goto(IF shutdown THEN "exited" ELSE "reading")
    /\ UNCHANGED <<redisVars, chVars, batch, bad, left, attempt, bodiesResult,
                   faults>>
    /\ WriterFrame

\* The entries an XREADGROUP ... ">" hands out now, and how far they reach.
ReadLimit == IF delivered + BATCH_SIZE < Len(stream)
             THEN delivered + BATCH_SIZE
             ELSE Len(stream)

Fresh == (delivered + 1) .. ReadLimit

\* Mutant: XREADGROUP with NOACK.
TakeFreshNoAck == pel' = pel /\ delivered' = ReadLimit

TakeFresh == pel' = pel \cup Fresh /\ delivered' = ReadLimit

\* Where the writer goes once a batch is decoded and its bad entries are gone.
AfterDecode(ids) == IF ids = {} THEN "loop" ELSE "bodies"

\* XREADGROUP returns a batch; decode_entry sorts it into good and bad.
ReadBatch ==
    /\ pc = "reading"
    /\ group
    /\ Fresh # {}
    /\ TakeFresh
    /\ batch' = Decodable(Fresh)
    /\ bad' = Fresh \ Decodable(Fresh)
    /\ Goto(IF bad' # {} THEN "deadletter" ELSE AfterDecode(batch'))
    /\ attempt' = 0
    /\ UNCHANGED <<stream, group, dlq, dlqLost, live, chVars, left,
                   bodiesResult, faults>>
    /\ WriterFrame

\* BLOCK_MS passes with nothing to read.
ReadNothing ==
    /\ pc = "reading"
    /\ group
    /\ Fresh = {}
    /\ Goto("loop")
    /\ UNCHANGED <<redisVars, chVars, batch, bad, left, attempt, bodiesResult,
                   faults>>
    /\ WriterFrame

\* XREADGROUP errors: there is no group, the call fails, or its reply is
\* lost after Redis has made the entries pending.
ReadFails ==
    /\ pc = "reading"
    /\ Goto("loop")
    /\ \/ ~group /\ NoFault /\ UNCHANGED <<delivered, pel>>
       \/ group /\ Fault("read") /\ (TakeFresh \/ UNCHANGED <<delivered, pel>>)
    /\ UNCHANGED <<stream, group, dlq, dlqLost, live, chVars,
                   batch, bad, left, attempt, bodiesResult>>
    /\ WriterFrame

\* XADD to the dead-letter stream for one entry, its result ignored.
DeadLetter(i) ==
    \/ dlq' = dlq \cup {i} /\ UNCHANGED dlqLost /\ NoFault
    \/ dlqLost' = dlqLost \cup {i} /\ UNCHANGED dlq /\ Fault("dlq")

First(ids, i) == i \in ids /\ \A j \in ids : i <= j

DeadLetterBad ==
    /\ pc = "deadletter"
    /\ \E i \in bad : First(bad, i) /\ DeadLetter(i)
    /\ Goto("deadletterAck")
    /\ UNCHANGED <<stream, group, delivered, pel, live, chVars,
                   batch, bad, left, attempt, bodiesResult>>
    /\ WriterFrame

\* Mutant: everything pending is acknowledged, the entries of an earlier,
\* interrupted batch included.
XackAll(ids) == pel' = {} /\ NoFault

\* XACK: the entries leave the PEL, or the call fails (perhaps after it did).
Xack(ids) ==
    \/ pel' = pel \ ids /\ NoFault
    \/ pel' \in {pel, pel \ ids} /\ Fault("xack")

AckBad ==
    /\ pc = "deadletterAck"
    /\ \E i \in bad :
          /\ First(bad, i)
          /\ Xack({i})
          /\ bad' = bad \ {i}
    /\ Goto(IF bad' # {} THEN "deadletter" ELSE AfterDecode(batch))
    /\ UNCHANGED <<stream, group, delivered, dlq, dlqLost, live, chVars,
                   batch, left, attempt, bodiesResult>>
    /\ WriterFrame

\* One ClickHouse insert of rows: what it returns, and whether it stored.
\* A connection that breaks late leaves the rows stored and the caller with
\* an error; a refused batch stores nothing; no rows means no call.
Insert(isEmpty, result, stored) ==
    \/ result = "ok" /\ stored /\ (isEmpty \/ chUp) /\ NoFault
    \/ result = "transient" /\ ~isEmpty /\ ~chUp /\ ~stored /\ NoFault
    \/ result = "transient" /\ ~isEmpty /\ chUp /\ Fault("transient")
    \/ result = "permanent" /\ ~isEmpty /\ chUp /\ ~stored /\ Fault("permanent")

InsertBodies ==
    /\ pc = "bodies"
    /\ \E result \in Results, stored \in BOOLEAN :
          /\ Insert(HashesOf(batch) = {}, result, stored)
          /\ bodiesResult' = result
          /\ bodyRows' = IF stored THEN bodyRows \cup HashesOf(batch)
                                   ELSE bodyRows
    /\ Goto("observations")
    /\ UNCHANGED <<redisVars, chUp, obsRows, batch, bad, left, attempt>>
    /\ WriterFrame

\* Mutant: one row for each body.
RowPerBody(s) ==
    Cardinality({e \in batch \X Bodies :
                    stream[e[1]] = s /\ e[2] \in BodiesOf[s]})

\* The number of rows a batch adds for span s.
RowsFor(s) == Cardinality({i \in batch : stream[i] = s})

\* Mutant: every error counts as an attempt.
EveryErrorCounts(result) ==
    IF result = "ok"
    THEN Goto("live") /\ UNCHANGED <<attempt, left>>
    ELSE /\ attempt' = attempt + 1
         /\ IF attempt + 1 < MAX_RETRIES
            THEN Goto("backoff") /\ UNCHANGED left
            ELSE Goto("giveup") /\ left' = batch

\* Where an insert outcome leads; only a permanent error counts as an attempt.
AfterInsert(result) ==
    CASE result = "ok" -> Goto("live") /\ UNCHANGED <<attempt, left>>
      [] result = "transient" -> Goto("backoff") /\ UNCHANGED <<attempt, left>>
      [] result = "permanent" ->
            /\ attempt' = attempt + 1
            /\ IF attempt + 1 < MAX_RETRIES
               THEN Goto("backoff") /\ UNCHANGED left
               ELSE Goto("giveup") /\ left' = batch

\* Mutant: the result of the bodies is dropped.
SecondOnly(first, second) == second

\* The two results joined by Result::and: the first error wins.
Both(first, second) == IF first = "ok" THEN second ELSE first

\* insert_observations_batch is an argument of Result::and, so it runs
\* whatever insert_bodies_batch returned.
InsertObservations ==
    /\ pc = "observations"
    /\ \E result \in Results, stored \in BOOLEAN :
          /\ Insert(FALSE, result, stored)
          /\ obsRows' = IF stored
                        THEN [s \in Spans |-> obsRows[s] + RowsFor(s)]
                        ELSE obsRows
          /\ AfterInsert(Both(bodiesResult, result))
    /\ UNCHANGED <<redisVars, chUp, bodyRows, batch, bad, bodiesResult>>
    /\ WriterFrame

\* Mutant: a retry goes back to XREADGROUP.
BackoffRereads ==
    /\ pc = "backoff"
    /\ Goto("loop")
    /\ batch' = {}
    /\ UNCHANGED <<redisVars, chVars, bad, left, attempt, bodiesResult, faults>>
    /\ WriterFrame

BackoffElapses ==
    /\ pc = "backoff"
    /\ Goto("bodies")
    /\ UNCHANGED <<redisVars, chVars, batch, bad, left, attempt, bodiesResult,
                   faults>>
    /\ WriterFrame

\* Mutant: the select does not watch the channel.
BackoffDeaf == FALSE /\ UNCHANGED vars

\* shutdown.changed() wins the select: the batch stays in the PEL.
BackoffInterrupted ==
    /\ pc = "backoff"
    /\ shutdown
    /\ Goto("exited")
    /\ batch' = {}
    /\ UNCHANGED <<redisVars, chVars, bad, left, attempt, bodiesResult, faults>>
    /\ WriterFrame

\* The pipelined PUBLISHes, fire and forget.
PublishLive ==
    /\ pc = "live"
    /\ Goto("ack")
    /\ \/ live' = live \cup {stream[i] : i \in batch} /\ NoFault
       \/ \E some \in SUBSET batch :
             live' = live \cup {stream[i] : i \in some} /\ Fault("live")
    /\ UNCHANGED <<stream, group, delivered, pel, dlq, dlqLost, chVars,
                   batch, bad, left, attempt, bodiesResult>>
    /\ WriterFrame

AckBatch ==
    /\ pc = "ack"
    /\ Xack(batch)
    /\ Goto("loop")
    /\ batch' = {}
    /\ UNCHANGED <<stream, group, delivered, dlq, dlqLost, live, chVars,
                   bad, left, attempt, bodiesResult>>
    /\ WriterFrame

\* PermanentFailure: dead-letter every entry, then acknowledge them all.
GiveUp ==
    /\ pc = "giveup"
    /\ \E i \in left :
          /\ First(left, i)
          /\ DeadLetter(i)
          /\ left' = left \ {i}
    /\ Goto(IF left' = {} THEN "giveupAck" ELSE "giveup")
    /\ UNCHANGED <<stream, group, delivered, pel, live, chVars,
                   batch, bad, attempt, bodiesResult>>
    /\ WriterFrame

AckGivenUp ==
    /\ pc = "giveupAck"
    /\ Xack(batch)
    /\ Goto("loop")
    /\ batch' = {}
    /\ UNCHANGED <<stream, group, delivered, dlq, dlqLost, live, chVars,
                   bad, left, attempt, bodiesResult>>
    /\ WriterFrame

WriterStep ==
    \/ Connect \/ CreateGroup \/ CheckShutdown
    \/ ReadBatch \/ ReadNothing \/ ReadFails
    \/ DeadLetterBad \/ AckBad
    \/ InsertBodies \/ InsertObservations
    \/ BackoffElapses \/ BackoffInterrupted
    \/ PublishLive \/ AckBatch \/ GiveUp \/ AckGivenUp

Write == server # "down" /\ WriterStep

-----------------------------------------------------------------------------
(* main() and its environment.                                             *)

Outage ==
    /\ chUp /\ Fault("outage")
    /\ chUp' = FALSE
    /\ UNCHANGED <<redisVars, bodyRows, obsRows, serverVars, writerVars>>

Recover ==
    /\ ~chUp
    /\ chUp' = TRUE
    /\ UNCHANGED <<redisVars, bodyRows, obsRows, serverVars, writerVars, faults>>

\* SIGINT or SIGTERM: axum stops taking requests.
Signal ==
    /\ server = "serving" /\ Fault("sigterm")
    /\ server' = "draining"
    /\ UNCHANGED <<redisVars, chVars, shutdown, handler, writerVars>>

\* axum has answered every HTTP request in flight; main() tells the writer.
StopHttp ==
    /\ server = "draining"
    /\ \A r \in Requests : InFlight(r) => Transport[r] = "grpc"
    /\ server' = "stopping"
    /\ shutdown' = TRUE
    /\ UNCHANGED <<redisVars, chVars, handler, writerVars, faults>>

\* Everything in the process's memory is gone.
Die ==
    /\ server' = "down"
    /\ handler' = [r \in Requests |->
                     IF InFlight(r) THEN [handler[r] EXCEPT !.answer = "lost"]
                                    ELSE handler[r]]
    /\ pc' = "exited"
    /\ batch' = {} /\ bad' = {} /\ left' = {}
    /\ UNCHANGED <<redisVars, chVars, shutdown, attempt, bodiesResult>>

\* main() returns: the writer has exited, or the 10 s are over.
Exit == server = "stopping" /\ Die /\ NoFault

Crash == server # "down" /\ Die /\ Fault("crash")

\* The supervisor starts the ingester again.
Restart ==
    /\ server = "down"
    /\ server' = "serving"
    /\ shutdown' = FALSE
    /\ pc' = "start"
    /\ UNCHANGED <<redisVars, chVars, handler, batch, bad, left, attempt,
                   bodiesResult, faults>>

Environment == Outage \/ Recover \/ Signal \/ StopHttp \/ Exit \/ Crash \/ Restart

Next == (\E r \in Requests : Handle(r)) \/ Write \/ Environment

Spec == Init /\ [][Next]_vars

(***************************************************************************)
(* Fairness.  tokio polls a task whose await has completed, so the writer  *)
(* and every request in flight go on; main() returns once the writer it    *)
(* waits for has exited, and the supervisor restarts the process.  SF on   *)
(* the interrupted backoff: a select that takes the timer although the     *)
(* channel has changed finds the channel ready at its next poll, long      *)
(* before a new timer can be.                                              *)
(***************************************************************************)
Serve(r) == RejectSpan(r) \/ PublishSpan(r) \/ Answer(r)

Fairness ==
    /\ WF_vars(Write)
    /\ SF_vars(server # "down" /\ BackoffInterrupted)
    /\ \A r \in Requests : WF_vars(Serve(r))
    /\ WF_vars(StopHttp)
    /\ WF_vars(Exit /\ pc = "exited")
    /\ WF_vars(Restart)

\* ClickHouse may stay away for ever, and no writer is cut off for certain: a
\* stop ends because the writer does.
FairSpec == Spec /\ Fairness

\* Every ClickHouse outage ends, and main() waits 10 s and no longer.
RecoveringSpec == FairSpec /\ WF_vars(Recover) /\ WF_vars(Exit)

-----------------------------------------------------------------------------
(* Safety.                                                                 *)

\* Acknowledging is what makes Redis forget: an entry the writer has
\* acknowledged can be queried in full, or was handed to the dead-letter
\* stream (writer.rs lines 145-155, 253-325).
AckedIsAccountedFor ==
    \A i \in Acked : Durable(stream[i]) \/ i \in dlq \cup dlqLost

\* A live update is only sent for a span that a query already finds with its
\* bodies (writer.rs lines 253-277): the dashboard may follow it up at once.
LiveIsDurable == \A s \in live : Durable(s)

\* D30: no outage, however long, dead-letters a span that decodes; that takes
\* MAX_RETRIES permanent errors (writer.rs lines 193-249).
OutageNeverDeadLetters ==
    \A i \in dlq \cup dlqLost :
        \/ stream[i] \in Undecodable
        \/ faults["permanent"] >= MAX_RETRIES

Copies(s) == Cardinality({i \in 1 .. Len(stream) : stream[i] = s})

\* observations does not deduplicate: a span has one row for each time it was
\* published, and more only after an insert error, once per error at most.
RowsRepeatOnlyAfterErrors ==
    \A s \in Spans :
        obsRows[s] <= Copies(s) * (1 + faults["transient"]
                                     + faults["permanent"] + faults["outage"])

\* An entry leaves the PEL for good, and the consumer group never goes back:
\* nothing acknowledged is read again, whatever fails in between.
AckedStaysAcked == [][Acked \subseteq Acked']_vars

\* Where the writer is says what is already true of its batch.
BatchInv ==
    /\ pc = "observations" /\ bodiesResult = "ok" => HashesOf(batch) \subseteq bodyRows
    /\ pc \in {"live", "ack"} => \A i \in batch : Durable(stream[i])
    /\ pc \in {"giveup", "giveupAck"} => batch \ left \subseteq dlq \cup dlqLost
    /\ pc = "giveup" => left \subseteq batch
    /\ pc = "giveupAck" => left = {}
    /\ pc = "deadletterAck" => \A i \in bad : First(bad, i) => i \in dlq \cup dlqLost

\* What a batch holds is still pending, and only its bad entries do not decode.
HeldInv ==
    /\ batch \cup bad \subseteq pel
    /\ \A i \in bad : stream[i] \in Undecodable
    /\ \A i \in batch : stream[i] \notin Undecodable

\* permanent_attempt counts permanent errors and nothing else.
AttemptInv ==
    /\ attempt <= faults["permanent"]
    /\ pc = "observations" /\ bodiesResult = "permanent"
          => attempt < faults["permanent"]
    /\ pc \in {"giveup", "giveupAck"} => attempt >= MAX_RETRIES

\* The inductive invariant of the safety proofs.
PipelineInv ==
    /\ BatchInv /\ HeldInv /\ AttemptInv
    /\ AckedIsAccountedFor /\ LiveIsDurable /\ OutageNeverDeadLetters

-----------------------------------------------------------------------------
(* The abstract specification.                                             *)

Delivery == INSTANCE SpanDelivery WITH
    Span     <- Spans,
    accepted <- stream,
    taken    <- delivered,
    owed     <- pel,
    readable <- {s \in Spans : Durable(s)},
    refused  <- dlq \cup dlqLost

\* The pipeline keeps the promise of SpanDelivery whatever fails: entries are
\* handed out in order, rows stay visible, only an owed entry is given up and
\* only a readable or refused one is settled.
ImplementsDelivery == Delivery!Spec

-----------------------------------------------------------------------------
(* Liveness.                                                               *)

Published(s) == \E i \in 1 .. Len(stream) : stream[i] = s

EntriesOf(s) == {i \in 1 .. Len(stream) : stream[i] = s}

\* Pending in Redis, and nobody holds it: the read takes ">" only, so no writer
\* comes back to it.
Forgotten(i) == i \in pel \ (batch \cup bad)

\* What may leave an entry pending for ever: the reply that handed it out was
\* lost, the process ended with it in hand, or its XACK failed, and then it has
\* been stored or handed to the dead-letter stream all the same.
Excused(i) ==
    /\ Forgotten(i)
    /\ \/ faults["read"] + faults["crash"] + faults["sigterm"] > 0
       \/ /\ faults["xack"] > 0
          /\ Durable(stream[i]) \/ i \in dlq \cup dlqLost

\* The process serves on without a reader: the writer could not connect and
\* ended, or XGROUP CREATE failed and every read finds no group.
Readerless ==
    \/ server = "serving" /\ pc = "exited" /\ faults["connect"] > 0
    \/ ~group /\ faults["group"] > 0

\* If ClickHouse keeps coming back, every entry of the stream is acknowledged,
\* after a restart too if need be (writer.rs lines 75-326), but for the entries
\* that a named fault left pending, and unless nobody reads the stream.
EveryEntrySettles ==
    []<>chUp => \A s \in Spans :
        Published(s) ~> \/ \A i \in EntriesOf(s) : i \in Acked \/ Excused(i)
                        \/ Readerless

\* The shutdown signal ends the writer even while ClickHouse stays away
\* (writer.rs lines 28-29 and 206-216).
ShutdownStopsWriter == shutdown ~> pc = "exited"

-----------------------------------------------------------------------------
(* What the comments and the decisions record claim.                       *)

Orphaned(s) == server = "down" /\ \E i \in EntriesOf(s) : i \in pel

\* writer.rs lines 26-27: entries read but not acknowledged "will be
\* re-delivered to the next consumer on restart (PEL semantics)".  What is
\* pending when the process ends is acknowledged in the end.
PendingIsRedelivered == \A s \in Spans : Orphaned(s) ~> EntriesOf(s) \subseteq Acked
=============================================================================
