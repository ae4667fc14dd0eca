------------------------- MODULE SpanPipelineProofs -------------------------
(***************************************************************************)
(* Proofs about SpanPipeline, for every set of spans, every batch size and *)
(* any number of faults.                                                   *)
(***************************************************************************)
EXTENDS SpanPipeline, FiniteSetTheorems, TLAPS

-----------------------------------------------------------------------------
(* Type correctness.                                                       *)

\* What Fresh hands out lies inside the stream.
LEMMA FreshBounds ==
    ASSUME TypeOK
    PROVE  /\ ReadLimit \in delivered .. Len(stream)
           /\ Fresh \subseteq 1 .. ReadLimit
           /\ Fresh \cap (1 .. delivered) = {}
  BY ConstantsAssumption DEF TypeOK, ReadLimit, Fresh

LEMMA RowsForType == ASSUME TypeOK, NEW s \in Spans PROVE RowsFor(s) \in Nat
<1>1. IsFiniteSet(1 .. delivered)
  BY FS_Interval DEF TypeOK
<1>2. IsFiniteSet({i \in batch : stream[i] = s})
  BY <1>1, FS_Subset DEF TypeOK
<1> QED
  BY <1>2, FS_CardinalityType DEF RowsFor

LEMMA FaultType ==
    ASSUME TypeOK, NEW kind \in FaultKinds, Fault(kind)
    PROVE  faults' \in [FaultKinds -> Nat]
  BY DEF TypeOK, Fault

\* A longer stream keeps what it held, and every position in it.
LEMMA AppendKeeps ==
    ASSUME TypeOK, NEW s \in Spans
    PROVE  /\ Append(stream, s) \in Seq(Spans)
           /\ delivered \in 0 .. Len(Append(stream, s))
           /\ \A i \in 1 .. delivered : Append(stream, s)[i] = stream[i]
  BY DEF TypeOK

LEMMA NextSpanType ==
    ASSUME TypeOK, NEW r \in Requests, HasSpan(r)
    PROVE  NextSpan(r) \in Spans
<1>1. RequestSpans[r] \in Seq(Spans)
  BY ConstantsAssumption
<1>2. handler[r].next \in Nat
  BY DEF TypeOK, Progress
<1>3. handler[r].next \in 1 .. Len(RequestSpans[r])
  BY <1>1, <1>2 DEF HasSpan, InFlight
<1> QED
  BY <1>1, <1>3 DEF NextSpan

LEMMA HandleType == TypeOK /\ (\E r \in Requests : Handle(r)) => TypeOK'
<1> SUFFICES ASSUME TypeOK, NEW r \in Requests, Handle(r) PROVE TypeOK'
  OBVIOUS
<1>1. CASE Arrive(r)
  BY <1>1 DEF TypeOK, Arrive, redisVars, chVars, writerVars, Progress, Answers
<1>2. CASE RejectSpan(r)
  BY <1>2 DEF TypeOK, RejectSpan, redisVars, chVars, writerVars, Progress, Answers
<1>3. CASE PublishSpan(r)
  <2>1. NextSpan(r) \in Spans
    BY <1>3, NextSpanType DEF PublishSpan
  <2>2. stream' \in Seq(Spans) /\ delivered' \in 0 .. Len(stream')
    BY <1>3, <2>1, AppendKeeps DEF PublishSpan
  <2>3. handler' \in [Requests -> Progress]
    <3>1. [handler[r] EXCEPT !.next = @ + 1] \in Progress
      <4>1. handler[r] \in Progress
        BY DEF TypeOK
      <4> QED
        BY <4>1 DEF Progress
    <3> QED
      BY <1>3, <3>1 DEF TypeOK, PublishSpan
  <2> QED
    BY <1>3, <2>2, <2>3 DEF TypeOK, PublishSpan, chVars, writerVars
<1>4. CASE PublishSpanFails(r)
  <2>1. NextSpan(r) \in Spans
    BY <1>4, NextSpanType DEF PublishSpanFails
  <2>2. faults' \in [FaultKinds -> Nat]
    BY <1>4, FaultType DEF PublishSpanFails, FaultKinds
  <2>3. stream' \in Seq(Spans) /\ delivered' \in 0 .. Len(stream')
    BY <1>4, <2>1, AppendKeeps DEF TypeOK, PublishSpanFails
  <2>4. handler' \in [Requests -> Progress]
    BY <1>4 DEF TypeOK, PublishSpanFails, Progress
  <2> QED
    BY <1>4, <2>2, <2>3, <2>4 DEF TypeOK, PublishSpanFails, chVars, writerVars
<1>5. CASE Answer(r)
  BY <1>5 DEF TypeOK, Answer, redisVars, chVars, writerVars, Progress, Answers
<1> QED
  BY <1>1, <1>2, <1>3, <1>4, <1>5 DEF Handle

\* Every call the writer makes keeps the types.
LEMMA WriterType == TypeOK /\ WriterStep => TypeOK'
<1> SUFFICES ASSUME TypeOK, WriterStep PROVE TypeOK'
  OBVIOUS
<1> USE DEF TypeOK, PCs, Goto, NoFault, WriterFrame, serverVars
<1>1. CASE Connect
  <2>1. faults' \in [FaultKinds -> Nat]
    BY <1>1, FaultType DEF Connect, FaultKinds
  <2> QED
    BY <1>1, <2>1 DEF Connect, redisVars, chVars
<1>2. CASE CreateGroup
  <2>1. faults' \in [FaultKinds -> Nat]
    BY <1>2, FaultType DEF CreateGroup, FaultKinds
  <2> QED
    BY <1>2, <2>1 DEF CreateGroup, chVars
<1>3. CASE CheckShutdown
  BY <1>3 DEF CheckShutdown, redisVars, chVars
<1>4. CASE ReadBatch
  <2>1. /\ delivered' \in delivered .. Len(stream)
        /\ Fresh \subseteq 1 .. delivered'
        /\ pel' = pel \cup Fresh
    BY <1>4, FreshBounds DEF ReadBatch, TakeFresh
  <2>2. batch' \subseteq Fresh /\ bad' \subseteq Fresh /\ pc' \in PCs
    BY <1>4 DEF ReadBatch, Decodable, AfterDecode
  <2>3. /\ pel' \subseteq 1 .. delivered' /\ batch' \subseteq 1 .. delivered'
        /\ bad' \subseteq 1 .. delivered' /\ dlq' \subseteq 1 .. delivered'
        /\ left' \subseteq 1 .. delivered' /\ dlqLost' \subseteq 1 .. delivered'
    <3>1. 1 .. delivered \subseteq 1 .. delivered'
      BY <2>1
    <3> QED
      BY <1>4, <2>1, <2>2, <3>1 DEF ReadBatch
  <2> QED
    BY <1>4, <2>1, <2>2, <2>3 DEF ReadBatch, chVars
<1>5. CASE ReadNothing
  BY <1>5 DEF ReadNothing, redisVars, chVars
<1>6. CASE ReadFails
  <2>1. faults' \in [FaultKinds -> Nat]
    BY <1>6, FaultType DEF ReadFails, FaultKinds
  <2>2. CASE TakeFresh
    <3>1. /\ delivered' \in delivered .. Len(stream)
          /\ 1 .. delivered \subseteq 1 .. delivered'
          /\ Fresh \subseteq 1 .. delivered'
      BY <2>2, FreshBounds DEF TakeFresh
    <3>2. pel' \subseteq 1 .. delivered'
      BY <2>2, <3>1 DEF TakeFresh
    <3> QED
      BY <1>6, <2>1, <3>1, <3>2 DEF ReadFails, chVars
  <2>3. CASE UNCHANGED <<delivered, pel>>
    BY <1>6, <2>1, <2>3 DEF ReadFails, chVars
  <2> QED
    BY <1>6, <2>2, <2>3 DEF ReadFails
<1>7. CASE DeadLetterBad
  <2>1. faults' \in [FaultKinds -> Nat]
    BY <1>7, FaultType DEF DeadLetterBad, DeadLetter, FaultKinds
  <2> QED
    BY <1>7, <2>1 DEF DeadLetterBad, DeadLetter, chVars
<1>8. CASE AckBad
  <2>1. faults' \in [FaultKinds -> Nat]
    BY <1>8, FaultType DEF AckBad, Xack, FaultKinds
  <2> QED
    BY <1>8, <2>1 DEF AckBad, Xack, AfterDecode, chVars
<1>9. CASE InsertBodies
  <2>1. faults' \in [FaultKinds -> Nat]
    BY <1>9, FaultType DEF InsertBodies, Insert, FaultKinds
  <2>2. HashesOf(batch) \subseteq Bodies
    BY ConstantsAssumption DEF HashesOf
  <2> QED
    BY <1>9, <2>1, <2>2 DEF InsertBodies, redisVars
<1>10. CASE InsertObservations
  <2>1. faults' \in [FaultKinds -> Nat]
    BY <1>10, FaultType DEF InsertObservations, Insert, FaultKinds
  <2>2. obsRows' \in [Spans -> Nat]
    <3>1. \A s \in Spans : RowsFor(s) \in Nat
      BY RowsForType
    <3> QED
      BY <1>10, <3>1 DEF InsertObservations
  <2>3. /\ pc' \in PCs
        /\ attempt' \in Nat
        /\ left' \subseteq 1 .. delivered
    <3>1. PICK result \in Results : AfterInsert(result)
      BY <1>10 DEF InsertObservations, Both
    <3>2. CASE result = "ok"
      BY <1>10, <3>1, <3>2 DEF InsertObservations, AfterInsert
    <3>3. CASE result = "transient"
      BY <1>10, <3>1, <3>3 DEF InsertObservations, AfterInsert
    <3>4. CASE result = "permanent"
      BY <1>10, <3>1, <3>4 DEF InsertObservations, AfterInsert
    <3> QED
      BY <3>2, <3>3, <3>4 DEF Results
  <2> QED
    BY <1>10, <2>1, <2>2, <2>3 DEF InsertObservations, redisVars
<1>11. CASE BackoffElapses
  BY <1>11 DEF BackoffElapses, redisVars, chVars
<1>12. CASE BackoffInterrupted
  BY <1>12 DEF BackoffInterrupted, redisVars, chVars
<1>13. CASE PublishLive
  <2>1. faults' \in [FaultKinds -> Nat]
    BY <1>13, FaultType DEF PublishLive, FaultKinds
  <2>2. \A i \in batch : stream[i] \in Spans
    OBVIOUS
  <2>3. live' \subseteq Spans
    <3>1. PICK some \in SUBSET batch : live' = live \cup {stream[i] : i \in some}
      BY <1>13 DEF PublishLive
    <3> QED
      BY <2>2, <3>1
  <2> QED
    BY <1>13, <2>1, <2>3 DEF PublishLive, chVars
<1>14. CASE AckBatch
  <2>1. faults' \in [FaultKinds -> Nat]
    BY <1>14, FaultType DEF AckBatch, Xack, FaultKinds
  <2> QED
    BY <1>14, <2>1 DEF AckBatch, Xack, chVars
<1>15. CASE GiveUp
  <2>1. faults' \in [FaultKinds -> Nat]
    BY <1>15, FaultType DEF GiveUp, DeadLetter, FaultKinds
  <2> QED
    BY <1>15, <2>1 DEF GiveUp, DeadLetter, chVars
<1>16. CASE AckGivenUp
  <2>1. faults' \in [FaultKinds -> Nat]
    BY <1>16, FaultType DEF AckGivenUp, Xack, FaultKinds
  <2> QED
    BY <1>16, <2>1 DEF AckGivenUp, Xack, chVars
<1> QED
  BY <1>1, <1>2, <1>3, <1>4, <1>5, <1>6, <1>7, <1>8, <1>9, <1>10, <1>11,
     <1>12, <1>13, <1>14, <1>15, <1>16 DEF WriterStep

\* Outages, signals, crashes and restarts keep the types.
LEMMA EnvironmentType == TypeOK /\ Environment => TypeOK'
<1> SUFFICES ASSUME TypeOK, Environment PROVE TypeOK'
  OBVIOUS
<1> USE DEF TypeOK
<1>1. faults' \in [FaultKinds -> Nat]
  BY FaultType
  DEF Environment, Outage, Recover, Signal, StopHttp, Exit, Crash, Restart,
      NoFault, FaultKinds
<1>2. CASE Outage \/ Recover
  BY <1>1, <1>2 DEF Outage, Recover, redisVars, serverVars, writerVars
<1>3. CASE Signal \/ StopHttp
  BY <1>1, <1>3 DEF Signal, StopHttp, redisVars, chVars, writerVars
<1>4. CASE Die
  <2>1. handler' \in [Requests -> Progress]
    BY <1>4 DEF Die, Progress, Answers
  <2> QED
    BY <1>1, <1>4, <2>1 DEF Die, PCs, redisVars, chVars
<1>5. CASE Restart
  BY <1>1, <1>5 DEF Restart, PCs, redisVars, chVars
<1> QED
  BY <1>2, <1>3, <1>4, <1>5 DEF Environment, Exit, Crash

LEMMA InitType == Init => TypeOK
<1> SUFFICES ASSUME Init PROVE TypeOK
  OBVIOUS
<1>1. stream \in Seq(Spans) /\ Len(stream) = 0
  BY DEF Init
<1>2. handler \in [Requests -> Progress]
  BY DEF Init, Progress, Answers
<1>3. obsRows \in [Spans -> Nat] /\ faults \in [FaultKinds -> Nat]
  BY DEF Init
<1>4. delivered \in 0 .. Len(stream) /\ attempt \in Nat
  BY <1>1 DEF Init
<1> QED
  BY <1>1, <1>2, <1>3, <1>4 DEF Init, TypeOK, PCs, Results

LEMMA NextType == TypeOK /\ [Next]_vars => TypeOK'
<1> SUFFICES ASSUME TypeOK, [Next]_vars PROVE TypeOK'
  OBVIOUS
<1>1. CASE UNCHANGED vars
  BY <1>1 DEF vars, redisVars, chVars, serverVars, writerVars, TypeOK
<1> QED
  BY <1>1, HandleType, WriterType, EnvironmentType DEF Next, Write

\* Every variable keeps its type: positions stay inside the stream, and the
\* pending, refused and batched entries are ones the group handed out.
THEOREM TypeCorrect == Spec => []TypeOK
  BY InitType, NextType, PTL DEF Spec

-----------------------------------------------------------------------------
(* What no step undoes.                                                    *)

\* The stream only grows at its end.
LEMMA StreamKeeps ==
    ASSUME TypeOK, [Next]_vars
    PROVE  \A i \in 1 .. delivered : stream'[i] = stream[i]
<1>1. CASE \E r \in Requests : PublishSpan(r) \/ PublishSpanFails(r)
  <2>1. PICK r \in Requests : PublishSpan(r) \/ PublishSpanFails(r)
    BY <1>1
  <2>2. NextSpan(r) \in Spans
    BY <2>1, NextSpanType DEF PublishSpan, PublishSpanFails
  <2>3. stream' \in {stream, Append(stream, NextSpan(r))}
    BY <2>1 DEF PublishSpan, PublishSpanFails
  <2> QED
    BY <2>2, <2>3, AppendKeeps
<1>2. CASE ~(\E r \in Requests : PublishSpan(r) \/ PublishSpanFails(r))
  <2>1. CASE \E r \in Requests : Handle(r)
    BY <1>2, <2>1 DEF Handle, Arrive, RejectSpan, Answer, redisVars
  <2>2. CASE WriterStep
    BY <2>2
    DEF WriterStep, Connect, CreateGroup, CheckShutdown, ReadBatch, ReadNothing,
        ReadFails, DeadLetterBad, AckBad, InsertBodies, InsertObservations,
        BackoffElapses, BackoffInterrupted, PublishLive, AckBatch, GiveUp,
        AckGivenUp, redisVars
  <2>3. CASE Environment
    BY <2>3
    DEF Environment, Outage, Recover, Signal, StopHttp, Exit, Crash, Die,
        Restart, redisVars
  <2>4. CASE UNCHANGED vars
    BY <2>4 DEF vars, redisVars
  <2> QED
    BY <2>1, <2>2, <2>3, <2>4 DEF Next, Write
<1> QED
  BY <1>1, <1>2

\* ClickHouse never loses a row.
LEMMA StorageKeeps ==
    ASSUME TypeOK, [Next]_vars
    PROVE  /\ bodyRows \subseteq bodyRows'
           /\ \A s \in Spans : obsRows[s] <= obsRows'[s]
<1>0. \A s \in Spans : obsRows[s] \in Nat
  BY DEF TypeOK
<1>1. CASE UNCHANGED <<bodyRows, obsRows>>
  BY <1>0, <1>1
<1>2. CASE InsertBodies
  BY <1>0, <1>2 DEF InsertBodies
<1>3. CASE InsertObservations
  <2>1. \A s \in Spans : RowsFor(s) \in Nat
    BY RowsForType
  <2> QED
    BY <1>0, <1>3, <2>1 DEF InsertObservations
<1>4. CASE \E r \in Requests : Handle(r)
  BY <1>1, <1>4
  DEF Handle, Arrive, RejectSpan, PublishSpan, PublishSpanFails, Answer, chVars
<1>5. CASE WriterStep
  BY <1>1, <1>2, <1>3, <1>5
  DEF WriterStep, Connect, CreateGroup, CheckShutdown, ReadBatch, ReadNothing,
      ReadFails, DeadLetterBad, AckBad, BackoffElapses, BackoffInterrupted,
      PublishLive, AckBatch, GiveUp, AckGivenUp, chVars
<1>6. CASE Environment
  BY <1>1, <1>6
  DEF Environment, Outage, Recover, Signal, StopHttp, Exit, Crash, Die, Restart,
      chVars
<1>7. CASE UNCHANGED vars
  BY <1>1, <1>7 DEF vars, chVars
<1> QED
  BY <1>4, <1>5, <1>6, <1>7 DEF Next, Write

LEMMA DurableKeeps ==
    ASSUME TypeOK, TypeOK', [Next]_vars, NEW s \in Spans, Durable(s)
    PROVE  Durable(s)'
<1>1. obsRows[s] \in Nat /\ obsRows'[s] \in Nat
  BY DEF TypeOK
<1> QED
  BY <1>1, StorageKeeps DEF Durable

\* The writer's steps that reach the dead-letter stream or count a fault.
LEMMA RefusedKeeps ==
    ASSUME TypeOK, [Next]_vars
    PROVE  /\ dlq \cup dlqLost \subseteq (dlq \cup dlqLost)'
           /\ faults["permanent"] <= faults'["permanent"]
           /\ delivered <= delivered'
<1>0. faults["permanent"] \in Nat /\ delivered \in Nat /\ ReadLimit \in Nat
      /\ delivered <= ReadLimit
  <2>1. faults["permanent"] \in Nat
    BY DEF TypeOK, FaultKinds
  <2>2. delivered \in Nat /\ ReadLimit \in Nat /\ delivered <= ReadLimit
    <3>1. delivered \in Nat /\ Len(stream) \in Nat
      BY DEF TypeOK
    <3> QED
      BY <3>1, FreshBounds
  <2> QED
    BY <2>1, <2>2
<1>1. \A kind \in FaultKinds : Fault(kind) => faults["permanent"] <= faults'["permanent"]
  BY <1>0 DEF Fault, TypeOK, FaultKinds
<1>2. CASE \E r \in Requests : Handle(r)
  BY <1>0, <1>1, <1>2
  DEF Handle, Arrive, RejectSpan, PublishSpan, PublishSpanFails, Answer,
      redisVars, FaultKinds
<1>3. CASE WriterStep
  <2> USE <1>0, <1>1 DEF NoFault, FaultKinds
  <2>1. CASE DeadLetterBad
    BY <2>1 DEF DeadLetterBad, DeadLetter
  <2>2. CASE GiveUp
    BY <2>2 DEF GiveUp, DeadLetter
  <2>3. CASE InsertBodies
    BY <2>3 DEF InsertBodies, Insert, redisVars
  <2>4. CASE InsertObservations
    BY <2>4 DEF InsertObservations, Insert, redisVars
  <2>5. CASE ReadBatch \/ ReadFails
    BY <2>5 DEF ReadBatch, ReadFails, TakeFresh
  <2>6. CASE AckBad \/ AckBatch \/ AckGivenUp
    BY <2>6 DEF AckBad, AckBatch, AckGivenUp, Xack
  <2>7. CASE Connect \/ CreateGroup \/ PublishLive
    BY <2>7 DEF Connect, CreateGroup, PublishLive, redisVars
  <2>8. CASE CheckShutdown \/ ReadNothing \/ BackoffElapses \/ BackoffInterrupted
    BY <2>8
    DEF CheckShutdown, ReadNothing, BackoffElapses, BackoffInterrupted, redisVars
  <2> QED
    BY <1>3, <2>1, <2>2, <2>3, <2>4, <2>5, <2>6, <2>7, <2>8 DEF WriterStep
<1>4. CASE Environment
  <2>1. CASE Outage \/ Signal
    BY <1>0, <1>1, <2>1 DEF Outage, Signal, redisVars, FaultKinds
  <2>2. CASE Recover \/ StopHttp \/ Restart
    BY <1>0, <2>2 DEF Recover, StopHttp, Restart, redisVars
  <2>3. CASE Exit \/ Crash
    BY <1>0, <1>1, <2>3 DEF Exit, Crash, Die, redisVars, NoFault, FaultKinds
  <2> QED
    BY <1>4, <2>1, <2>2, <2>3 DEF Environment
<1>5. CASE UNCHANGED vars
  BY <1>0, <1>5 DEF vars, redisVars
<1> QED
  BY <1>2, <1>3, <1>4, <1>5 DEF Next, Write

-----------------------------------------------------------------------------
(* The safety invariant, one lemma per conjunct.                           *)

\* Entries are acknowledged by AckBad, AckBatch and AckGivenUp only, each after
\* the entry was stored or refused.
LEMMA AccountsStep ==
    ASSUME TypeOK, TypeOK', PipelineInv, [Next]_vars
    PROVE  AckedIsAccountedFor'
<1> DEFINE Fine(i) == Durable(stream[i]) \/ i \in dlq \cup dlqLost
<1>1. ASSUME \A i \in Acked' : i \in 1 .. delivered /\ Fine(i)
      PROVE  AckedIsAccountedFor'
  <2> SUFFICES ASSUME NEW i \in Acked'
               PROVE  Durable(stream[i])' \/ i \in (dlq \cup dlqLost)'
    BY DEF AckedIsAccountedFor
  <2>1. i \in 1 .. delivered /\ Fine(i) /\ stream'[i] = stream[i]
    BY <1>1, StreamKeeps
  <2>2. stream[i] \in Spans
    BY <2>1 DEF TypeOK
  <2>3. CASE Durable(stream[i])
    BY <2>1, <2>2, <2>3, DurableKeeps DEF Durable
  <2>4. CASE i \in dlq \cup dlqLost
    BY <2>4, RefusedKeeps
  <2> QED
    BY <2>1, <2>3, <2>4
<1>2. \A i \in Acked : i \in 1 .. delivered /\ Fine(i)
  BY DEF PipelineInv, AckedIsAccountedFor, Acked
<1>3. CASE UNCHANGED <<delivered, pel>>
  BY <1>1, <1>2, <1>3 DEF Acked
<1>4. CASE TakeFresh
  BY <1>1, <1>2, <1>4, FreshBounds DEF TakeFresh, Acked, Fresh, TypeOK
<1>5. ASSUME NEW ids \in SUBSET (1 .. delivered), Xack(ids), \A i \in ids : Fine(i),
             UNCHANGED delivered
      PROVE  AckedIsAccountedFor'
  BY <1>1, <1>2, <1>5 DEF Xack, Acked
<1>6. CASE AckBad
  <2>1. PICK i \in bad : First(bad, i) /\ Xack({i})
    BY <1>6 DEF AckBad
  <2>2. Fine(i)
    BY <1>6, <2>1 DEF AckBad, PipelineInv, BatchInv
  <2> QED
    BY <1>5, <1>6, <2>1, <2>2 DEF AckBad, TypeOK
<1>7. CASE AckBatch
  BY <1>5, <1>7 DEF AckBatch, PipelineInv, BatchInv, TypeOK
<1>8. CASE AckGivenUp
  BY <1>5, <1>8 DEF AckGivenUp, PipelineInv, BatchInv, TypeOK
<1>9. CASE ReadBatch \/ ReadFails
  BY <1>3, <1>4, <1>9 DEF ReadBatch, ReadFails
<1>10. CASE \E r \in Requests : Handle(r)
  BY <1>3, <1>10
  DEF Handle, Arrive, RejectSpan, PublishSpan, PublishSpanFails, Answer, redisVars
<1>11. CASE WriterStep
  BY <1>3, <1>6, <1>7, <1>8, <1>9, <1>11
  DEF WriterStep, Connect, CreateGroup, CheckShutdown, ReadNothing, DeadLetterBad,
      InsertBodies, InsertObservations, BackoffElapses, BackoffInterrupted,
      PublishLive, GiveUp, redisVars
<1>12. CASE Environment
  BY <1>3, <1>12
  DEF Environment, Outage, Recover, Signal, StopHttp, Exit, Crash, Die, Restart,
      redisVars
<1>13. CASE UNCHANGED vars
  BY <1>3, <1>13 DEF vars, redisVars
<1> QED
  BY <1>10, <1>11, <1>12, <1>13 DEF Next, Write

\* PublishLive runs only where the whole batch is durable.
LEMMA LiveStep ==
    ASSUME TypeOK, TypeOK', PipelineInv, [Next]_vars
    PROVE  LiveIsDurable'
<1>1. ASSUME \A s \in live' : s \in Spans /\ Durable(s)
      PROVE  LiveIsDurable'
  BY <1>1, DurableKeeps DEF LiveIsDurable
<1>2. \A s \in live : s \in Spans /\ Durable(s)
  BY DEF PipelineInv, LiveIsDurable, TypeOK
<1>3. CASE UNCHANGED live
  BY <1>1, <1>2, <1>3
<1>4. CASE PublishLive
  <2>1. \A i \in batch : stream[i] \in Spans /\ Durable(stream[i])
    BY <1>4 DEF PublishLive, PipelineInv, BatchInv, TypeOK
  <2>2. PICK some \in SUBSET batch : live' = live \cup {stream[i] : i \in some}
    BY <1>4 DEF PublishLive
  <2> QED
    BY <1>1, <1>2, <2>1, <2>2
<1>5. CASE \E r \in Requests : Handle(r)
  BY <1>3, <1>5
  DEF Handle, Arrive, RejectSpan, PublishSpan, PublishSpanFails, Answer, redisVars
<1>6. CASE WriterStep
  BY <1>3, <1>4, <1>6
  DEF WriterStep, Connect, CreateGroup, CheckShutdown, ReadBatch, ReadNothing,
      ReadFails, DeadLetterBad, AckBad, InsertBodies, InsertObservations,
      BackoffElapses, BackoffInterrupted, AckBatch, GiveUp, AckGivenUp, redisVars
<1>7. CASE Environment
  BY <1>3, <1>7
  DEF Environment, Outage, Recover, Signal, StopHttp, Exit, Crash, Die, Restart,
      redisVars
<1>8. CASE UNCHANGED vars
  BY <1>3, <1>8 DEF vars, redisVars
<1> QED
  BY <1>5, <1>6, <1>7, <1>8 DEF Next, Write

\* An entry is refused because it does not decode, or at the end of a run of
\* permanent errors.
LEMMA RefusedStep ==
    ASSUME TypeOK, TypeOK', PipelineInv, [Next]_vars
    PROVE  OutageNeverDeadLetters'
<1> DEFINE Due(i) == stream[i] \in Undecodable \/ faults["permanent"] >= MAX_RETRIES
           Refused == dlq \cup dlqLost
<1>0. /\ faults["permanent"] \in Nat /\ faults'["permanent"] \in Nat
      /\ MAX_RETRIES \in Nat /\ attempt \in Nat
  BY ConstantsAssumption DEF TypeOK, FaultKinds
<1>1. ASSUME \A i \in Refused' : i \in 1 .. delivered /\ Due(i)
      PROVE  OutageNeverDeadLetters'
  <2>1. \A i \in Refused' : stream'[i] = stream[i]
    BY <1>1, StreamKeeps
  <2>2. faults["permanent"] <= faults'["permanent"]
    BY RefusedKeeps
  <2> QED
    BY <1>0, <1>1, <2>1, <2>2 DEF OutageNeverDeadLetters
<1>2. \A i \in Refused : i \in 1 .. delivered /\ Due(i)
  BY DEF PipelineInv, OutageNeverDeadLetters, TypeOK
<1>3. CASE UNCHANGED <<dlq, dlqLost>>
  BY <1>1, <1>2, <1>3
<1>4. CASE DeadLetterBad
  <2>1. PICK i \in bad : Refused' = Refused \cup {i}
    BY <1>4 DEF DeadLetterBad, DeadLetter, First
  <2>2. i \in 1 .. delivered /\ Due(i)
    BY DEF PipelineInv, HeldInv, TypeOK
  <2> QED
    BY <1>1, <1>2, <2>1, <2>2
<1>5. CASE GiveUp
  <2>1. PICK i \in left : Refused' = Refused \cup {i}
    BY <1>5 DEF GiveUp, DeadLetter, First
  <2>2. i \in 1 .. delivered /\ Due(i)
    BY <1>0, <1>5 DEF GiveUp, PipelineInv, AttemptInv, TypeOK
  <2> QED
    BY <1>1, <1>2, <2>1, <2>2
<1>6. CASE \E r \in Requests : Handle(r)
  BY <1>3, <1>6
  DEF Handle, Arrive, RejectSpan, PublishSpan, PublishSpanFails, Answer, redisVars
<1>7. CASE WriterStep
  BY <1>3, <1>4, <1>5, <1>7
  DEF WriterStep, Connect, CreateGroup, CheckShutdown, ReadBatch, ReadNothing,
      ReadFails, AckBad, InsertBodies, InsertObservations,
      BackoffElapses, BackoffInterrupted, PublishLive, AckBatch, AckGivenUp,
      redisVars
<1>8. CASE Environment
  BY <1>3, <1>8
  DEF Environment, Outage, Recover, Signal, StopHttp, Exit, Crash, Die, Restart,
      redisVars
<1>9. CASE UNCHANGED vars
  BY <1>3, <1>9 DEF vars, redisVars
<1> QED
  BY <1>6, <1>7, <1>8, <1>9 DEF Next, Write

\* Where the writer stands still or lets go of its batch, what it holds is
\* still pending and still decodes as it did.
LEMMA HeldKeeps ==
    ASSUME TypeOK, HeldInv, [Next]_vars,
           batch' \subseteq batch, bad' \subseteq bad, batch' \cup bad' \subseteq pel'
    PROVE  HeldInv'
<1>1. \A i \in batch \cup bad : stream'[i] = stream[i]
  BY StreamKeeps DEF TypeOK
<1> QED
  BY <1>1 DEF HeldInv

LEMMA HeldStep ==
    ASSUME TypeOK, HeldInv, [Next]_vars
    PROVE  HeldInv'
<1>1. batch \cup bad \subseteq pel /\ batch \cap bad = {}
  BY DEF HeldInv
<1>2. CASE UNCHANGED <<batch, bad, pel>>
  BY <1>1, <1>2, HeldKeeps
<1>3. CASE ReadBatch
  <2>1. /\ batch' = Decodable(Fresh) /\ bad' = Fresh \ Decodable(Fresh)
        /\ pel' = pel \cup Fresh /\ stream' = stream
    BY <1>3 DEF ReadBatch, TakeFresh
  <2> QED
    BY <2>1 DEF HeldInv, Decodable
<1>4. CASE ReadFails
  BY <1>1, <1>4, HeldKeeps DEF ReadFails, TakeFresh
<1>5. CASE AckBad
  <2>1. PICK i \in bad : Xack({i}) /\ bad' = bad \ {i}
    BY <1>5 DEF AckBad
  <2>2. batch' = batch
    BY <1>5 DEF AckBad
  <2> QED
    BY <1>1, <2>1, <2>2, HeldKeeps DEF Xack
<1>6. CASE AckBatch \/ AckGivenUp
  <2>1. Xack(batch) /\ batch' = {} /\ bad' = bad
    BY <1>6 DEF AckBatch, AckGivenUp
  <2> QED
    BY <1>1, <2>1, HeldKeeps DEF Xack
<1>7. CASE BackoffInterrupted
  BY <1>1, <1>7, HeldKeeps DEF BackoffInterrupted, redisVars
<1>8. CASE Exit \/ Crash
  BY <1>1, <1>8, HeldKeeps DEF Exit, Crash, Die, redisVars
<1>9. CASE \E r \in Requests : Handle(r)
  BY <1>2, <1>9
  DEF Handle, Arrive, RejectSpan, PublishSpan, PublishSpanFails, Answer,
      redisVars, writerVars
<1>10. CASE WriterStep
  BY <1>2, <1>3, <1>4, <1>5, <1>6, <1>7, <1>10
  DEF WriterStep, Connect, CreateGroup, CheckShutdown, ReadNothing, DeadLetterBad,
      InsertBodies, InsertObservations, BackoffElapses, PublishLive, GiveUp,
      redisVars
<1>11. CASE Environment
  BY <1>2, <1>8, <1>11
  DEF Environment, Outage, Recover, Signal, StopHttp, Restart, redisVars, writerVars
<1>12. CASE UNCHANGED vars
  BY <1>2, <1>12 DEF vars, redisVars, writerVars
<1> QED
  BY <1>9, <1>10, <1>11, <1>12 DEF Next, Write

\* Only a permanent error raises permanent_attempt, and only at MAX_RETRIES
\* does the writer give up.
LEMMA AttemptStep ==
    ASSUME TypeOK, TypeOK', AttemptInv, [Next]_vars
    PROVE  AttemptInv'
<1>1. /\ attempt \in Nat /\ MAX_RETRIES \in Nat
      /\ faults["permanent"] \in Nat /\ faults'["permanent"] \in Nat
      /\ faults["permanent"] <= faults'["permanent"]
  BY RefusedKeeps, ConstantsAssumption DEF TypeOK, FaultKinds
<1>2. CASE /\ attempt' = attempt
           /\ pc' \in {"giveup", "giveupAck"} => pc \in {"giveup", "giveupAck"}
           /\ pc' = "observations" => pc = "observations" /\ bodiesResult' = bodiesResult
  BY <1>1, <1>2 DEF AttemptInv
<1>3. CASE ReadBatch
  BY <1>1, <1>3 DEF ReadBatch, AttemptInv, AfterDecode, Goto
<1>4. CASE InsertBodies
  <2>1. bodiesResult' = "permanent" => Fault("permanent")
    BY <1>4 DEF InsertBodies, Insert
  <2>2. Fault("permanent") => faults'["permanent"] = faults["permanent"] + 1
    BY DEF Fault, TypeOK, FaultKinds
  <2> QED
    BY <1>1, <1>4, <2>1, <2>2 DEF InsertBodies, AttemptInv, Goto
<1>5. CASE InsertObservations
  <2>1. PICK result \in Results, stored \in BOOLEAN :
           Insert(FALSE, result, stored) /\ AfterInsert(Both(bodiesResult, result))
    BY <1>5 DEF InsertObservations
  <2>2. CASE Both(bodiesResult, result) \in {"ok", "transient"}
    BY <1>2, <2>1, <2>2 DEF AfterInsert, Goto
  <2>3. CASE Both(bodiesResult, result) = "permanent"
    <3>1. /\ attempt' = attempt + 1
          /\ pc' \in {"giveup", "giveupAck"} => attempt + 1 >= MAX_RETRIES
          /\ pc' # "observations"
      BY <1>1, <2>1, <2>3 DEF AfterInsert, Goto
    <3>2. attempt + 1 <= faults'["permanent"]
      <4>1. CASE bodiesResult = "permanent"
        BY <1>1, <1>5, <4>1 DEF InsertObservations, AttemptInv
      <4>2. CASE bodiesResult # "permanent"
        <5>1. Fault("permanent")
          BY <2>1, <2>3, <4>2 DEF Both, Insert
        <5>2. faults'["permanent"] = faults["permanent"] + 1
          BY <5>1 DEF Fault, TypeOK, FaultKinds
        <5> QED
          BY <1>1, <5>2 DEF AttemptInv
      <4> QED
        BY <4>1, <4>2
    <3> QED
      BY <1>1, <3>1, <3>2 DEF AttemptInv
  <2> QED
    BY <2>1, <2>2, <2>3 DEF Both, Results, TypeOK
<1>6. CASE \E r \in Requests : Handle(r)
  BY <1>2, <1>6
  DEF Handle, Arrive, RejectSpan, PublishSpan, PublishSpanFails, Answer, writerVars
<1>7. CASE WriterStep
  BY <1>2, <1>3, <1>4, <1>5, <1>7
  DEF WriterStep, Connect, CreateGroup, CheckShutdown, ReadNothing, ReadFails,
      DeadLetterBad, AckBad, BackoffElapses, BackoffInterrupted,
      PublishLive, AckBatch, GiveUp, AckGivenUp, Goto, AfterDecode
<1>8. CASE Environment
  BY <1>2, <1>8
  DEF Environment, Outage, Recover, Signal, StopHttp, Exit, Crash, Die, Restart,
      writerVars
<1>9. CASE UNCHANGED vars
  BY <1>2, <1>9 DEF vars, writerVars
<1> QED
  BY <1>6, <1>7, <1>8, <1>9 DEF Next, Write

\* What holds of a whole batch goes on holding while the writer stands still.
LEMMA BatchKeeps ==
    ASSUME TypeOK, TypeOK', BatchInv, [Next]_vars,
           UNCHANGED <<pc, batch, bad, left, bodiesResult>>
    PROVE  BatchInv'
<1>1. \A i \in batch \cup bad : stream'[i] = stream[i] /\ stream[i] \in Spans
  <2>1. \A i \in batch \cup bad : i \in 1 .. delivered /\ stream[i] \in Spans
    BY DEF TypeOK
  <2> QED
    BY <2>1, StreamKeeps
<1>2. HashesOf(batch)' = HashesOf(batch)
  BY <1>1 DEF HashesOf
<1>3. \A i \in batch : Durable(stream[i]) => Durable(stream[i])'
  BY <1>1, DurableKeeps DEF Durable
<1>4. bodyRows \subseteq bodyRows' /\ dlq \cup dlqLost \subseteq (dlq \cup dlqLost)'
  BY StorageKeeps, RefusedKeeps
<1>5. pc' \in {"live", "ack"} => \A i \in batch' : Durable(stream[i])'
  BY <1>3 DEF BatchInv
<1>6. \A i : First(bad, i)' <=> First(bad, i)
  BY DEF First
<1>7. pc' = "observations" /\ bodiesResult' = "ok" => HashesOf(batch)' \subseteq bodyRows'
  BY <1>2, <1>4 DEF BatchInv
<1> QED
  BY <1>4, <1>5, <1>6, <1>7 DEF BatchInv

\* Where the writer is in none of the places BatchInv speaks of.
LEMMA BatchVacuous ==
    ASSUME pc' \notin {"observations", "live", "ack", "giveup", "giveupAck",
                      "deadletterAck"}
    PROVE  BatchInv'
  BY DEF BatchInv

\* The rows of a batch make its spans visible once their bodies are there.
LEMMA InsertMakesDurable ==
    ASSUME TypeOK, InsertObservations, HashesOf(batch) \subseteq bodyRows,
           \A s \in Spans : obsRows'[s] = obsRows[s] + RowsFor(s),
           NEW i \in batch
    PROVE  Durable(stream[i])'
<1>1. stream[i] \in Spans /\ obsRows[stream[i]] \in Nat
  BY DEF TypeOK
<1>2. RowsFor(stream[i]) >= 1
  <2> DEFINE same == {j \in batch : stream[j] = stream[i]}
  <2>1. IsFiniteSet(1 .. delivered)
    BY FS_Interval DEF TypeOK
  <2>2. IsFiniteSet(same)
    BY <2>1, FS_Subset DEF TypeOK
  <2>3. Cardinality(same) \in Nat /\ Cardinality(same) # 0
    BY <2>2, FS_CardinalityType, FS_EmptySet
  <2> QED
    BY <2>3 DEF RowsFor
<1>3. RowsFor(stream[i]) \in Nat
  BY <1>1, RowsForType
<1>4. BodiesOf[stream[i]] \subseteq bodyRows
  BY DEF HashesOf
<1>5. stream' = stream /\ bodyRows' = bodyRows
  BY DEF InsertObservations, redisVars
<1> QED
  BY <1>1, <1>2, <1>3, <1>4, <1>5 DEF Durable

LEMMA BatchStep ==
    ASSUME TypeOK, TypeOK', BatchInv, [Next]_vars
    PROVE  BatchInv'
<1>1. CASE UNCHANGED <<pc, batch, bad, left, bodiesResult>>
  BY <1>1, BatchKeeps
<1>2. CASE DeadLetterBad
  <2>1. PICK i \in bad : First(bad, i) /\ i \in (dlq \cup dlqLost)'
    BY <1>2 DEF DeadLetterBad, DeadLetter, First
  <2>2. \A j \in bad : First(bad, j) => j = i
    BY <2>1 DEF First, TypeOK
  <2> QED
    BY <1>2, <2>1, <2>2 DEF DeadLetterBad, BatchInv, Goto, First
<1>3. CASE InsertBodies
  <2>1. bodiesResult' = "ok" => HashesOf(batch) \subseteq bodyRows'
    BY <1>3 DEF InsertBodies, Insert
  <2>2. HashesOf(batch)' = HashesOf(batch)
    BY <1>3 DEF InsertBodies, HashesOf, redisVars
  <2> QED
    BY <1>3, <2>1, <2>2 DEF InsertBodies, BatchInv, Goto
<1>4. CASE InsertObservations
  <2>1. PICK result \in Results, stored \in BOOLEAN :
           /\ Insert(FALSE, result, stored)
           /\ obsRows' = IF stored THEN [s \in Spans |-> obsRows[s] + RowsFor(s)] ELSE obsRows
           /\ AfterInsert(Both(bodiesResult, result))
    BY <1>4 DEF InsertObservations
  <2>2. CASE Both(bodiesResult, result) = "ok"
    <3>1. bodiesResult = "ok" /\ result = "ok"
      BY <2>2 DEF Both
    <3>2. \A s \in Spans : obsRows'[s] = obsRows[s] + RowsFor(s)
      BY <2>1, <3>1 DEF Insert
    <3>3. \A i \in batch : Durable(stream[i])'
      BY <1>4, <3>1, <3>2, InsertMakesDurable DEF InsertObservations, BatchInv
    <3>4. pc' = "live" /\ batch' = batch
      BY <1>4, <2>1, <2>2 DEF InsertObservations, AfterInsert, Goto
    <3> QED
      BY <3>3, <3>4 DEF BatchInv
  <2>3. CASE Both(bodiesResult, result) = "transient"
    BY <2>1, <2>3, BatchVacuous DEF AfterInsert, Goto
  <2>4. CASE Both(bodiesResult, result) = "permanent"
    <3>1. pc' = "backoff" \/ (pc' = "giveup" /\ left' = batch)
      BY <2>1, <2>4 DEF AfterInsert, Goto
    <3>2. batch' = batch
      BY <1>4 DEF InsertObservations
    <3> QED
      BY <3>1, <3>2 DEF BatchInv
  <2> QED
    BY <2>1, <2>2, <2>3, <2>4 DEF Both, Results, TypeOK
<1>5. CASE PublishLive
  <2>1. \A i \in batch : Durable(stream[i])'
    BY <1>5 DEF PublishLive, BatchInv, Durable, chVars
  <2> QED
    BY <1>5, <2>1 DEF PublishLive, BatchInv, Goto
<1>6. CASE GiveUp
  <2>1. PICK i \in left : left' = left \ {i} /\ i \in (dlq \cup dlqLost)'
    BY <1>6 DEF GiveUp, DeadLetter
  <2>2. dlq \cup dlqLost \subseteq (dlq \cup dlqLost)'
    BY RefusedKeeps
  <2>3. batch' = batch /\ pc' = IF left' = {} THEN "giveupAck" ELSE "giveup"
    BY <1>6 DEF GiveUp, Goto
  <2> QED
    BY <1>6, <2>1, <2>2, <2>3 DEF GiveUp, BatchInv
<1>7. CASE WriterStep
  BY <1>1, <1>2, <1>3, <1>4, <1>5, <1>6, <1>7, BatchVacuous
  DEF WriterStep, Connect, CreateGroup, CheckShutdown, ReadBatch, ReadNothing,
      ReadFails, AckBad, BackoffElapses, BackoffInterrupted, AckBatch, AckGivenUp,
      Goto, AfterDecode
<1>8. CASE \E r \in Requests : Handle(r)
  BY <1>1, <1>8
  DEF Handle, Arrive, RejectSpan, PublishSpan, PublishSpanFails, Answer, writerVars
<1>9. CASE Environment
  BY <1>1, <1>9, BatchVacuous
  DEF Environment, Outage, Recover, Signal, StopHttp, Exit, Crash, Die, Restart,
      writerVars
<1>10. CASE UNCHANGED vars
  BY <1>1, <1>10 DEF vars, writerVars
<1> QED
  BY <1>7, <1>8, <1>9, <1>10 DEF Next, Write

LEMMA InitSafe == Init => PipelineInv
<1> SUFFICES ASSUME Init PROVE PipelineInv
  OBVIOUS
<1>1. Acked = {} /\ attempt = 0 /\ faults["permanent"] = 0
  BY DEF Init, Acked, FaultKinds
<1> QED
  BY <1>1
  DEF Init, PipelineInv, BatchInv, HeldInv, AttemptInv, AckedIsAccountedFor,
      LiveIsDurable, OutageNeverDeadLetters

\* The strengthened invariant: what each place of the writer knows of its batch
\* makes the three safety properties inductive.
THEOREM PipelineSafe == Spec => []PipelineInv
<1>1. TypeOK /\ TypeOK' /\ PipelineInv /\ [Next]_vars => PipelineInv'
  BY AccountsStep, LiveStep, RefusedStep, BatchStep, HeldStep, AttemptStep
  DEF PipelineInv
<1> QED
  BY <1>1, InitSafe, TypeCorrect, PTL DEF Spec

\* An acknowledged entry is durable or was refused, for any batch size, any
\* bodies and any number of faults of any kind.
THEOREM AckedIsSafe == Spec => []AckedIsAccountedFor
<1>1. PipelineInv => AckedIsAccountedFor
  BY DEF PipelineInv
<1> QED
  BY <1>1, PipelineSafe, PTL

\* A live update never runs ahead of the rows it announces.
THEOREM LiveFollowsStorage == Spec => []LiveIsDurable
<1>1. PipelineInv => LiveIsDurable
  BY DEF PipelineInv
<1> QED
  BY <1>1, PipelineSafe, PTL

\* However often ClickHouse goes away, only MAX_RETRIES permanent errors can
\* dead-letter a span that decodes.
THEOREM OutagesDoNotDeadLetter == Spec => []OutageNeverDeadLetters
<1>1. PipelineInv => OutageNeverDeadLetters
  BY DEF PipelineInv
<1> QED
  BY <1>1, PipelineSafe, PTL

-----------------------------------------------------------------------------
(* How often a span has a row.                                             *)

\* The errors that make the writer insert a batch again.
Errors == faults["transient"] + faults["permanent"] + faults["outage"]

\* How often s is among the entries whose batches are over.
Past(s) == Cardinality({i \in (1 .. delivered) \ batch : stream[i] = s})

\* How often, at most, the batch has been stored: once for each error so far,
\* but for the one that the attempt in progress will fail on.
Stored ==
    CASE pc \in {"bodies", "backoff"} -> IF chUp THEN Errors ELSE Errors - 1
      [] pc = "observations" ->
            IF chUp /\ bodiesResult = "ok" THEN Errors ELSE Errors - 1
      [] pc \in {"live", "ack", "giveup", "giveupAck"} -> Errors + 1
      [] OTHER -> 0

\* Where the writer has no batch, and when there must have been an error.
RowsFrame ==
    /\ pc \in {"start", "group", "loop", "reading", "exited"} => batch = {}
    /\ server = "down" => batch = {}
    /\ ~chUp => faults["outage"] > 0
    /\ pc = "observations" /\ bodiesResult # "ok" => Errors > 0

RowsInv ==
    /\ RowsFrame
    /\ \A s \in Spans :
          obsRows[s] <= Past(s) * (1 + Errors) + RowsFor(s) * Stored

LEMMA ErrorsType ==
    ASSUME TypeOK
    PROVE  /\ Errors \in Nat
           /\ faults["transient"] \in Nat /\ faults["permanent"] \in Nat
           /\ faults["outage"] \in Nat
  BY DEF TypeOK, FaultKinds, Errors

\* The batch is stored at most once more than there were errors.
LEMMA StoredType ==
    ASSUME TypeOK, RowsFrame
    PROVE  Stored \in Nat /\ Stored <= Errors + 1
  <1>1. Errors \in Nat /\ (~chUp => Errors > 0)
    BY ErrorsType DEF RowsFrame, Errors
  <1> QED BY <1>1 DEF Stored, RowsFrame

LEMMA PastType == ASSUME TypeOK, NEW s \in Spans PROVE Past(s) \in Nat
  <1>1. IsFiniteSet(1 .. delivered)
    BY FS_Interval DEF TypeOK
  <1>2. IsFiniteSet({i \in (1 .. delivered) \ batch : stream[i] = s})
    BY <1>1, FS_Subset
  <1> QED BY <1>2, FS_CardinalityType DEF Past

\* A fault adds one to its kind.
LEMMA FaultCounts ==
    ASSUME TypeOK, NEW kind \in FaultKinds, Fault(kind)
    PROVE  /\ kind \notin {"transient", "permanent", "outage"} => Errors' = Errors
           /\ kind \in {"transient", "permanent", "outage"} => Errors' = Errors + 1
           /\ kind # "outage" => faults'["outage"] = faults["outage"]
           /\ kind = "outage" => faults'["outage"] > 0
  BY DEF TypeOK, Fault, FaultKinds, Errors

\* What a step can do to the rows and to what allows them.
Keeps == batch' = batch /\ obsRows' = obsRows /\ Stored <= Stored'
Drops == batch' = {} /\ obsRows' = obsRows
Reads == batch = {} /\ obsRows' = obsRows /\ batch' \cap (1 .. delivered) = {}
Stores ==
    /\ batch' = batch /\ Stored + 1 <= Stored'
    /\ \A s \in Spans : obsRows'[s] = obsRows[s] + RowsFor(s)

\* What an insert returns says whether an error was counted for it, or an outage
\* before it.
LEMMA Insertion ==
    ASSUME TypeOK, NEW empty \in BOOLEAN, NEW result \in Results, NEW stored \in BOOLEAN,
           Insert(empty, result, stored)
    PROVE  /\ Errors' \in {Errors, Errors + 1}
           /\ faults'["outage"] = faults["outage"]
           /\ result = "ok" => stored /\ (empty \/ chUp) /\ Errors' = Errors
           /\ result = "transient" /\ ~chUp => ~stored /\ Errors' = Errors
           /\ result # "ok" /\ chUp => Errors' = Errors + 1
           /\ result = "permanent" => ~stored /\ chUp
  <1>1. NoFault => Errors' = Errors /\ faults'["outage"] = faults["outage"]
    BY DEF NoFault, Errors
  <1>2. Fault("transient") \/ Fault("permanent") =>
           Errors' = Errors + 1 /\ faults'["outage"] = faults["outage"]
    BY FaultCounts DEF FaultKinds
  <1> QED BY <1>1, <1>2 DEF Insert, Results

\* The writer's awaits: only the insert of the rows adds any, and an insert that
\* will be repeated is one for which an error was counted.
LEMMA RowsOfWriter ==
    ASSUME TypeOK, TypeOK', RowsFrame, Write
    PROVE  RowsFrame' /\ Errors <= Errors' /\ (Keeps \/ Drops \/ Reads \/ Stores)
  <1>0. Errors \in Nat /\ Errors' \in Nat /\ Stored \in Nat /\ server # "down"
    <2>0. faults' \in [FaultKinds -> Nat]
      BY DEF TypeOK
    <2>1. Errors' \in Nat
      BY <2>0 DEF FaultKinds, Errors
    <2> QED BY <2>1, ErrorsType, StoredType DEF Write
  <1> USE DEF WriterFrame, serverVars, Goto, RowsFrame
  <1>a. NoFault => Errors' = Errors /\ faults'["outage"] = faults["outage"]
    BY DEF NoFault, Errors
  <1>b. ASSUME NEW kind \in FaultKinds \ {"transient", "permanent", "outage"}, Fault(kind)
        PROVE  Errors' = Errors /\ faults'["outage"] = faults["outage"]
    BY <1>b, FaultCounts
  <1>1. CASE Connect \/ CreateGroup \/ CheckShutdown \/ ReadNothing \/ ReadFails
    <2>1. Errors' = Errors /\ faults'["outage"] = faults["outage"]
      BY <1>1, <1>a, <1>b DEF Connect, CreateGroup, CheckShutdown, ReadNothing, ReadFails,
                              NoFault, FaultKinds
    <2> QED BY <1>0, <1>1, <2>1 DEF Connect, CreateGroup, CheckShutdown, ReadNothing, ReadFails,
                              redisVars, chVars, Keeps, Stored
  <1>2. CASE ReadBatch
    <2>1. Errors' = Errors /\ faults'["outage"] = faults["outage"]
      BY <1>2, <1>a DEF ReadBatch, NoFault
    <2>2. batch = {} /\ batch' \subseteq Fresh
      BY <1>2 DEF ReadBatch, Decodable
    <2>3. Reads
      BY <1>2, <2>2, FreshBounds DEF ReadBatch, chVars, Reads
    <2>4. RowsFrame'
      BY <1>0, <1>2, <2>1 DEF ReadBatch, AfterDecode, chVars
    <2> QED BY <1>0, <2>1, <2>3, <2>4
  <1>3. CASE DeadLetterBad \/ AckBad
    <2>1. Errors' = Errors /\ faults'["outage"] = faults["outage"]
      BY <1>3, <1>a, <1>b DEF DeadLetterBad, AckBad, DeadLetter, Xack, FaultKinds
    <2>2. RowsFrame'
      BY <1>0, <1>3, <2>1 DEF DeadLetterBad, AckBad, AfterDecode, chVars
    <2>3. Stored = 0 /\ Stored' \in Nat
      <3>1. Stored = 0 /\ pc' \in {"deadletter", "deadletterAck", "loop", "bodies"}
        BY <1>3 DEF DeadLetterBad, AckBad, AfterDecode, Stored
      <3>2. ~chUp' => Errors' > 0
        <4>1. faults' \in [FaultKinds -> Nat]
          BY DEF TypeOK
        <4> QED BY <2>2, <4>1 DEF FaultKinds, Errors
      <3> QED BY <1>0, <3>1, <3>2 DEF Stored
    <2>4. Keeps
      BY <1>3, <2>3 DEF DeadLetterBad, AckBad, chVars, Keeps
    <2> QED BY <1>0, <2>1, <2>2, <2>4
  <1>4. CASE InsertBodies
    <2>1. PICK result \in Results, stored \in BOOLEAN :
             Insert(HashesOf(batch) = {}, result, stored) /\ bodiesResult' = result
      BY <1>4 DEF InsertBodies
    <2>2. /\ Errors' \in {Errors, Errors + 1}
          /\ faults'["outage"] = faults["outage"]
          /\ result = "ok" => Errors' = Errors
          /\ result = "transient" /\ ~chUp => Errors' = Errors
          /\ result # "ok" /\ chUp => Errors' = Errors + 1
          /\ result = "permanent" => chUp
      BY <2>1, Insertion
    <2>3. pc = "bodies" /\ pc' = "observations" /\ chUp' = chUp /\ batch' = batch
          /\ obsRows' = obsRows
      BY <1>4 DEF InsertBodies
    <2>4. ~chUp => Errors > 0
      BY ErrorsType DEF Errors
    <2>5. RowsFrame'
      BY <1>0, <1>4, <2>1, <2>2, <2>3, <2>4 DEF InsertBodies, Results
    <2>6. Stored <= Stored'
      BY <1>0, <2>1, <2>2, <2>3 DEF Stored, Results
    <2> QED BY <1>0, <2>2, <2>3, <2>5, <2>6 DEF Keeps
  <1>5. CASE InsertObservations
    <2>1. PICK result \in Results, stored \in BOOLEAN :
             /\ Insert(FALSE, result, stored)
             /\ obsRows' = IF stored THEN [s \in Spans |-> obsRows[s] + RowsFor(s)]
                                     ELSE obsRows
             /\ AfterInsert(Both(bodiesResult, result))
      BY <1>5 DEF InsertObservations
    <2>2. /\ Errors' \in {Errors, Errors + 1}
          /\ faults'["outage"] = faults["outage"]
          /\ result = "ok" => chUp /\ stored /\ Errors' = Errors
          /\ result = "transient" /\ ~chUp => ~stored /\ Errors' = Errors
          /\ result # "ok" /\ chUp => Errors' = Errors + 1
          /\ result = "permanent" => ~stored /\ chUp
      BY <2>1, Insertion
    <2>3. pc = "observations" /\ chUp' = chUp /\ batch' = batch /\ server' = server
      BY <1>5 DEF InsertObservations
    <2>4. /\ bodiesResult = "ok" /\ result = "ok" => pc' = "live"
          /\ bodiesResult # "ok" \/ result # "ok" => pc' \in {"backoff", "giveup"}
      BY <2>1 DEF AfterInsert, Both, TypeOK, Results
    <2>5. RowsFrame'
      BY <2>2, <2>3, <2>4
    <2>6. Stored = IF chUp /\ bodiesResult = "ok" THEN Errors ELSE Errors - 1
      BY <2>3 DEF Stored
    <2>7. /\ pc' = "backoff" => Stored' = IF chUp THEN Errors' ELSE Errors' - 1
          /\ pc' \in {"live", "giveup"} => Stored' = Errors' + 1
      BY <2>3 DEF Stored
    <2>8. CASE stored
      <3>1. Stored + 1 <= Stored'
        BY <1>0, <2>2, <2>4, <2>6, <2>7, <2>8 DEF Results
      <3>2. \A s \in Spans : obsRows'[s] = obsRows[s] + RowsFor(s)
        BY <2>1, <2>8
      <3> QED BY <1>0, <2>2, <2>3, <2>5, <3>1, <3>2 DEF Stores
    <2>9. CASE ~stored
      <3>1. Stored <= Stored'
        BY <1>0, <2>2, <2>4, <2>6, <2>7, <2>9 DEF Results
      <3> QED BY <1>0, <2>1, <2>2, <2>3, <2>5, <2>9, <3>1 DEF Keeps
    <2> QED BY <2>8, <2>9
  <1>6. CASE BackoffElapses \/ PublishLive \/ GiveUp
    <2>1. Errors' = Errors /\ faults'["outage"] = faults["outage"]
      BY <1>6, <1>a, <1>b DEF BackoffElapses, PublishLive, GiveUp, DeadLetter, NoFault, FaultKinds
    <2> QED BY <1>0, <1>6, <2>1 DEF BackoffElapses, PublishLive, GiveUp, redisVars, chVars,
                              Keeps, Stored
  <1>7. CASE BackoffInterrupted \/ AckBatch \/ AckGivenUp
    <2>1. Errors' = Errors /\ faults'["outage"] = faults["outage"]
      BY <1>7, <1>a, <1>b DEF BackoffInterrupted, AckBatch, AckGivenUp, Xack, NoFault, FaultKinds
    <2> QED BY <1>0, <1>7, <2>1 DEF BackoffInterrupted, AckBatch, AckGivenUp, redisVars, chVars,
                              Drops
  <1> QED BY <1>1, <1>2, <1>3, <1>4, <1>5, <1>6, <1>7 DEF Write, WriterStep

\* Everybody else leaves the rows alone.
LEMMA RowsOfOthers ==
    ASSUME TypeOK, TypeOK', RowsFrame,
           (\E r \in Requests : Handle(r)) \/ Environment \/ UNCHANGED vars
    PROVE  RowsFrame' /\ Errors <= Errors' /\ (Keeps \/ Drops \/ Reads)
  <1>0. Errors \in Nat /\ Errors' \in Nat /\ Stored \in Nat
    <2>0. faults' \in [FaultKinds -> Nat]
      BY DEF TypeOK
    <2>1. Errors' \in Nat
      BY <2>0 DEF FaultKinds, Errors
    <2> QED BY <2>1, ErrorsType, StoredType
  <1> USE DEF RowsFrame
  <1>1. NoFault => Errors' = Errors /\ faults'["outage"] = faults["outage"]
    BY DEF NoFault, Errors
  <1>2. ASSUME NEW kind \in FaultKinds \ {"transient", "permanent", "outage"}, Fault(kind)
        PROVE  Errors' = Errors /\ faults'["outage"] = faults["outage"]
    BY <1>2, FaultCounts
  <1>3. CASE \E r \in Requests : Handle(r)
    <2>1. /\ UNCHANGED <<chVars, writerVars, server>>
          /\ Errors' = Errors /\ faults'["outage"] = faults["outage"]
      BY <1>1, <1>2, <1>3 DEF Handle, Arrive, RejectSpan, PublishSpan, PublishSpanFails, Answer,
                              NoFault, FaultKinds
    <2> QED BY <1>0, <2>1 DEF chVars, writerVars, Keeps, Stored
  <1>4. CASE Outage
    <2>1. Errors' = Errors + 1 /\ faults'["outage"] > 0
      BY <1>4, FaultCounts DEF Outage, FaultKinds
    <2> QED BY <1>0, <1>4, <2>1 DEF Outage, serverVars, writerVars, Keeps, Stored
  <1>5. CASE Recover \/ Signal \/ StopHttp
    <2>1. Errors' = Errors /\ faults'["outage"] = faults["outage"]
      BY <1>5, <1>1, <1>2 DEF Recover, Signal, StopHttp, NoFault, FaultKinds
    <2> QED BY <1>0, <1>5, <2>1 DEF Recover, Signal, StopHttp, chVars, serverVars, writerVars,
                                    Keeps, Stored
  <1>6. CASE Exit \/ Crash
    <2>1. Errors' = Errors /\ faults'["outage"] = faults["outage"]
      BY <1>6, <1>1, <1>2 DEF Exit, Crash, FaultKinds
    <2> QED BY <1>0, <1>6, <2>1 DEF Exit, Crash, Die, chVars, Drops
  <1>7. CASE Restart
    <2>1. Errors' = Errors /\ faults'["outage"] = faults["outage"]
      BY <1>7 DEF Restart, Errors
    <2> QED BY <1>0, <1>7, <2>1 DEF Restart, chVars, Reads
  <1>8. CASE UNCHANGED vars
    BY <1>0, <1>8 DEF vars, chVars, serverVars, writerVars, Keeps, Stored, Errors
  <1> QED BY <1>3, <1>4, <1>5, <1>6, <1>7, <1>8 DEF Environment

\* What counts the entries of a span, before and after a step.
LEMMA PastGrows ==
    ASSUME TypeOK, TypeOK', [Next]_vars, NEW s \in Spans
    PROVE  /\ batch' \cap (1 .. delivered) \subseteq batch => Past(s) <= Past(s)'
           /\ batch' = batch => RowsFor(s)' = RowsFor(s)
           /\ batch' = {} => Past(s) + RowsFor(s) <= Past(s)'
           /\ Past(s) \in Nat /\ Past(s)' \in Nat /\ RowsFor(s) \in Nat /\ RowsFor(s)' \in Nat
           /\ batch = {} => RowsFor(s) = 0
           /\ batch' = {} => RowsFor(s)' = 0
  <1> DEFINE P == {i \in (1 .. delivered) \ batch : stream[i] = s}
             B == {i \in batch : stream[i] = s}
             Q == {i \in (1 .. delivered') \ batch' : stream'[i] = s}
             C == {i \in batch' : stream'[i] = s}
  <1>1. /\ delivered \in Nat /\ delivered' \in Nat /\ delivered <= delivered'
        /\ batch \subseteq 1 .. delivered /\ batch' \subseteq 1 .. delivered'
        /\ \A i \in 1 .. delivered : stream'[i] = stream[i]
    <2>1. delivered <= delivered' /\ \A i \in 1 .. delivered : stream'[i] = stream[i]
      BY RefusedKeeps, StreamKeeps
    <2>2. delivered \in Nat /\ batch \subseteq 1 .. delivered
      BY DEF TypeOK
    <2>3. delivered' \in Nat /\ batch' \subseteq 1 .. delivered'
      BY DEF TypeOK
    <2> QED BY <2>1, <2>2, <2>3
  <1>2. IsFiniteSet(1 .. delivered) /\ IsFiniteSet(1 .. delivered')
    BY <1>1, FS_Interval
  <1>3. IsFiniteSet(P) /\ IsFiniteSet(B) /\ IsFiniteSet(Q) /\ IsFiniteSet(C)
    BY <1>1, <1>2, FS_Subset
  <1>4. /\ Past(s) = Cardinality(P) /\ Past(s)' = Cardinality(Q)
        /\ RowsFor(s) = Cardinality(B) /\ RowsFor(s)' = Cardinality(C)
    BY DEF Past, RowsFor
  <1>5. /\ batch' \cap (1 .. delivered) \subseteq batch => P \subseteq Q
        /\ batch' = batch => C = B
        /\ batch' = {} => P \cup B \subseteq Q
        /\ P \cap B = {}
        /\ batch = {} => B = {}
        /\ batch' = {} => C = {}
    <2>1. 1 .. delivered \subseteq 1 .. delivered'
      BY <1>1
    <2>2. ASSUME batch' \cap (1 .. delivered) \subseteq batch PROVE P \subseteq Q
      BY <1>1, <2>1, <2>2
    <2>3. batch' = batch => C = B
      BY <1>1
    <2>4. batch' = {} => P \cup B \subseteq Q
      BY <1>1, <2>1
    <2>5. P \cap B = {} /\ (batch = {} => B = {}) /\ (batch' = {} => C = {})
      OBVIOUS
    <2> HIDE DEF P, B, Q, C
    <2> QED BY <2>2, <2>3, <2>4, <2>5
  <1> HIDE DEF P, B, Q, C
  <1>6. /\ Cardinality(P) \in Nat /\ Cardinality(Q) \in Nat
        /\ Cardinality(B) \in Nat /\ Cardinality(C) \in Nat
    BY <1>3, FS_CardinalityType
  <1>7. Cardinality(P \cup B) = Cardinality(P) + Cardinality(B)
    <2>1. Cardinality(P \cap B) = 0
      BY <1>5, FS_EmptySet
    <2>2. Cardinality(P \cup B) = Cardinality(P) + Cardinality(B) - Cardinality(P \cap B)
      BY <1>3, FS_Union
    <2> QED BY <1>6, <2>1, <2>2
  <1>8. /\ P \subseteq Q => Cardinality(P) <= Cardinality(Q)
        /\ P \cup B \subseteq Q => Cardinality(P \cup B) <= Cardinality(Q)
    BY <1>3, FS_Subset
  <1>9. Cardinality({}) = 0
    BY FS_EmptySet
  <1> QED BY <1>4, <1>5, <1>6, <1>7, <1>8, <1>9

\* More entries, errors or allowance allow more rows.
LEMMA AllowsMore ==
    ASSUME NEW p \in Nat, NEW q \in Nat, p <= q, NEW e \in Nat, NEW f \in Nat, e <= f,
           NEW b \in Nat, NEW g \in Nat, NEW h \in Nat, g <= h
    PROVE  p * (1 + e) + b * g <= q * (1 + f) + b * h
  <1>1. p * (1 + e) <= q * (1 + f)
    <2>1. p * (1 + e) <= q * (1 + e)
      BY Z3
    <2>2. q * (1 + e) <= q * (1 + f)
      BY Z3
    <2>3. p * (1 + e) \in Nat /\ q * (1 + e) \in Nat /\ q * (1 + f) \in Nat
      OBVIOUS
    <2> QED BY <2>1, <2>2, <2>3
  <1>2. b * g <= b * h
    BY Z3
  <1>3. p * (1 + e) \in Nat /\ q * (1 + f) \in Nat /\ b * g \in Nat /\ b * h \in Nat
    OBVIOUS
  <1> QED BY <1>1, <1>2, <1>3

\* The arithmetic: a step that adds rows uses up what allows them.
LEMMA RowsStep ==
    ASSUME TypeOK, TypeOK', RowsInv, [Next]_vars PROVE RowsInv'
  <1>1. RowsFrame' /\ Errors <= Errors' /\ (Keeps \/ Drops \/ Reads \/ Stores)
    <2>1. CASE Write
      BY <2>1, RowsOfWriter DEF RowsInv
    <2>2. CASE (\E r \in Requests : Handle(r)) \/ Environment \/ UNCHANGED vars
      BY <2>2, RowsOfOthers DEF RowsInv
    <2> QED BY <2>1, <2>2 DEF Next
  <1>2. /\ Errors \in Nat /\ Errors' \in Nat /\ Stored \in Nat /\ Stored' \in Nat
        /\ Stored <= Errors + 1
    <2>1. Errors \in Nat /\ Stored \in Nat /\ Stored <= Errors + 1
      BY ErrorsType, StoredType DEF RowsInv
    <2>2. faults' \in [FaultKinds -> Nat]
      BY DEF TypeOK
    <2>3. Errors' \in Nat /\ (~chUp' => Errors' > 0)
      BY <1>1, <2>2 DEF FaultKinds, Errors, RowsFrame
    <2>4. Stored' \in Nat
      BY <1>1, <2>3 DEF Stored, RowsFrame
    <2> QED BY <2>1, <2>3, <2>4
  <1>3. ASSUME NEW s \in Spans
        PROVE  obsRows'[s] <= Past(s)' * (1 + Errors') + RowsFor(s)' * Stored'
    <2> DEFINE p == Past(s)
               q == Past(s)'
               b == RowsFor(s)
               c == RowsFor(s)'
               rows == obsRows[s]
               then == obsRows'[s]
               e == Errors
               f == Errors'
               g == Stored
               h == Stored'
    <2>1. rows \in Nat /\ then \in Nat
      BY DEF TypeOK
    <2>2. p \in Nat /\ q \in Nat /\ b \in Nat /\ c \in Nat
      BY PastGrows
    <2>3. e \in Nat /\ f \in Nat /\ e <= f /\ g \in Nat /\ h \in Nat /\ g <= e + 1
      BY <1>1, <1>2
    <2>4. rows <= p * (1 + e) + b * g
      BY DEF RowsInv
    <2>5. /\ Keeps => p <= q /\ c = b /\ g <= h /\ then = rows
          /\ Drops => p + b <= q /\ c = 0 /\ then = rows
          /\ Reads => p <= q /\ b = 0 /\ then = rows
          /\ Stores => p <= q /\ c = b /\ g + 1 <= h /\ then = rows + b
      BY PastGrows DEF Keeps, Drops, Reads, Stores
    <2> HIDE DEF p, q, b, c, rows, then, e, f, g, h
    <2>6. /\ p * (1 + e) \in Nat /\ q * (1 + f) \in Nat /\ b * g \in Nat /\ c * h \in Nat
      BY <2>2, <2>3
    <2>7. CASE Keeps
      <3>1. p * (1 + e) + b * g <= q * (1 + f) + b * h
        BY <2>2, <2>3, <2>5, <2>7, AllowsMore
      <3>2. then <= q * (1 + f) + b * h
        BY <2>1, <2>4, <2>5, <2>6, <2>7, <3>1
      <3> QED BY <2>5, <2>7, <3>2 DEF q, c, then, f, h
    <2>8. CASE Stores
      <3>1. p * (1 + e) + b * (g + 1) <= q * (1 + f) + b * h
        BY <2>2, <2>3, <2>5, <2>8, AllowsMore
      <3>2. b * (g + 1) = b * g + b
        BY <2>2, <2>3, Z3
      <3>3. then <= q * (1 + f) + b * h
        BY <2>1, <2>2, <2>4, <2>5, <2>6, <2>8, <3>1, <3>2
      <3> QED BY <2>5, <2>8, <3>3 DEF q, c, then, f, h
    <2>9. CASE Reads
      <3>1. p * (1 + e) + 0 * g <= q * (1 + f) + 0 * g
        BY <2>2, <2>3, <2>5, <2>9, AllowsMore
      <3>2. 0 * g = 0 /\ b * g = 0
        BY <2>3, <2>5, <2>9
      <3>3. then <= q * (1 + f) + c * h
        BY <2>1, <2>4, <2>5, <2>6, <2>9, <3>1, <3>2
      <3> QED BY <3>3 DEF q, c, then, f, h
    <2>10. CASE Drops
      <3>1. p * (1 + e) + b * g <= p * (1 + e) + b * (1 + e)
        BY <2>2, <2>3, AllowsMore
      <3>2. p * (1 + e) + b * (1 + e) = (p + b) * (1 + e) + 0 * g
        BY <2>2, <2>3, Z3
      <3>3. (p + b) * (1 + e) + 0 * g <= q * (1 + f) + 0 * g
        BY <2>2, <2>3, <2>5, <2>10, AllowsMore
      <3>4. 0 * g = 0
        BY <2>3
      <3>5. then <= q * (1 + f) + c * h
        BY <2>1, <2>2, <2>3, <2>4, <2>5, <2>6, <2>10, <3>1, <3>2, <3>3, <3>4
      <3> QED BY <3>5 DEF q, c, then, f, h
    <2> QED BY <1>1, <2>7, <2>8, <2>9, <2>10
  <1> QED BY <1>1, <1>3 DEF RowsInv

\* For any spans, batches and faults: a span's rows are bounded by how often it
\* was published and by the errors that made the writer insert again.
THEOREM RowsAreBounded == Spec => []RowsRepeatOnlyAfterErrors
  <1>1. Init => RowsInv
    <2> SUFFICES ASSUME Init PROVE RowsInv
      OBVIOUS
    <2>1. RowsFrame
      BY DEF Init, RowsFrame
    <2>2. ASSUME NEW s \in Spans
          PROVE  obsRows[s] <= Past(s) * (1 + Errors) + RowsFor(s) * Stored
      <3>1. Past(s) \in Nat /\ RowsFor(s) \in Nat /\ Errors \in Nat
        BY InitType, PastType, RowsForType, ErrorsType
      <3>2. obsRows[s] = 0 /\ Stored = 0
        BY DEF Init, Stored
      <3>3. Past(s) * (1 + Errors) \in Nat /\ RowsFor(s) * Stored \in Nat
        BY <3>1, <3>2
      <3> QED BY <3>2, <3>3
    <2> QED BY <2>1, <2>2 DEF RowsInv
  <1>2. TypeOK /\ RowsInv => RowsRepeatOnlyAfterErrors
    <2> SUFFICES ASSUME TypeOK, RowsInv, NEW s \in Spans
                 PROVE  obsRows[s] <= Copies(s) * (1 + Errors)
      BY ErrorsType DEF RowsRepeatOnlyAfterErrors, Errors
    <2> DEFINE P == {i \in (1 .. delivered) \ batch : stream[i] = s}
               B == {i \in batch : stream[i] = s}
               A == {i \in 1 .. Len(stream) : stream[i] = s}
    <2>1. /\ delivered \in 0 .. Len(stream) /\ Len(stream) \in Nat
          /\ batch \subseteq 1 .. delivered
      BY DEF TypeOK
    <2>2. IsFiniteSet(1 .. Len(stream))
      BY <2>1, FS_Interval
    <2>3. P \cup B \subseteq A /\ P \cap B = {} /\ A \subseteq 1 .. Len(stream)
      <3>1. 1 .. delivered \subseteq 1 .. Len(stream)
        BY <2>1
      <3>2. P \subseteq A /\ B \subseteq A
        BY <2>1, <3>1
      <3>3. P \cap B = {} /\ A \subseteq 1 .. Len(stream)
        OBVIOUS
      <3> HIDE DEF P, B, A
      <3> QED BY <3>2, <3>3
    <2>4. Past(s) = Cardinality(P) /\ RowsFor(s) = Cardinality(B) /\ Copies(s) = Cardinality(A)
      BY DEF Past, RowsFor, Copies
    <2> HIDE DEF P, B, A
    <2>5. IsFiniteSet(A) /\ IsFiniteSet(P) /\ IsFiniteSet(B) /\ IsFiniteSet(P \cup B)
      BY <2>2, <2>3, FS_Subset
    <2>6. Cardinality(P \cup B) = Cardinality(P) + Cardinality(B) - 0
      BY <2>3, <2>5, FS_Union, FS_EmptySet
    <2>7. Cardinality(P \cup B) <= Cardinality(A)
      BY <2>3, <2>5, FS_Subset
    <2>8. Cardinality(P) \in Nat /\ Cardinality(B) \in Nat /\ Cardinality(A) \in Nat
      BY <2>5, FS_CardinalityType
    <2> DEFINE p == Past(s)
               b == RowsFor(s)
               n == Copies(s)
               e == Errors
               g == Stored
               rows == obsRows[s]
    <2>9. /\ p \in Nat /\ b \in Nat /\ n \in Nat /\ p + b <= n
          /\ e \in Nat /\ g \in Nat /\ g <= e + 1 /\ rows \in Nat
          /\ rows <= p * (1 + e) + b * g
      <3>1. p \in Nat /\ b \in Nat /\ n \in Nat /\ p + b <= n
        BY <2>4, <2>6, <2>7, <2>8
      <3>2. e \in Nat /\ g \in Nat /\ g <= e + 1
        BY ErrorsType, StoredType DEF RowsInv
      <3>3. rows \in Nat
        BY DEF TypeOK
      <3>4. rows <= p * (1 + e) + b * g
        BY DEF RowsInv
      <3> QED BY <3>1, <3>2, <3>3, <3>4
    <2> HIDE DEF p, b, n, e, g, rows
    <2>10. p * (1 + e) + b * g <= p * (1 + e) + b * (1 + e)
      BY <2>9, AllowsMore
    <2>11. p * (1 + e) + b * (1 + e) = (p + b) * (1 + e) + 0 * g
      BY <2>9, Z3
    <2>12. (p + b) * (1 + e) + 0 * g <= n * (1 + e) + 0 * g
      BY <2>9, AllowsMore
    <2>13. 0 * g = 0 /\ p * (1 + e) \in Nat /\ b * g \in Nat /\ n * (1 + e) \in Nat
      BY <2>9
    <2>14. rows <= n * (1 + e)
      BY <2>9, <2>10, <2>11, <2>12, <2>13
    <2> QED BY <2>14 DEF n, e, rows
  <1>3. TypeOK /\ TypeOK' /\ RowsInv /\ [Next]_vars => RowsInv'
    BY RowsStep
  <1> QED BY <1>1, <1>2, <1>3, TypeCorrect, PTL DEF Spec

=============================================================================
