------------------------ MODULE SpanPipelineRefines -------------------------
(***************************************************************************)
(* SpanPipeline implements SpanDelivery: each of its steps is a step of the *)
(* abstract specification or leaves the abstract state alone.              *)
(***************************************************************************)
EXTENDS SpanPipelineProofs

readableSpans == {s \in Spans : Durable(s)}

absVars == <<stream, delivered, pel, readableSpans, dlq \cup dlqLost>>

\* A span stays readable.
LEMMA ReadableKeeps ==
    ASSUME TypeOK, TypeOK', [Next]_vars
    PROVE  readableSpans \subseteq readableSpans'
  BY DurableKeeps DEF readableSpans

\* What a query finds changes with the two tables only.
LEMMA ReadableStays ==
    ASSUME UNCHANGED <<bodyRows, obsRows>>
    PROVE  UNCHANGED readableSpans
  BY DEF readableSpans, Durable

LEMMA InitRefines == Init => Delivery!Init
  BY DEF Init, Delivery!Init, readableSpans

LEMMA StepRefines ==
    ASSUME TypeOK, TypeOK', PipelineInv, [Next]_vars
    PROVE  Delivery!Next \/ UNCHANGED absVars
<1> USE DEF absVars
<1>1. ASSUME NEW s \in Spans, stream' = Append(stream, s),
             UNCHANGED <<delivered, pel, dlq, dlqLost, bodyRows, obsRows>>
      PROVE  Delivery!Accept
  BY <1>1, ReadableStays DEF Delivery!Accept, readableSpans
<1>2. CASE \E r \in Requests : Handle(r)
  <2>1. PICK r \in Requests : Handle(r)
    BY <1>2
  <2>2. CASE PublishSpan(r) \/ PublishSpanFails(r)
    <3>1. NextSpan(r) \in Spans
      BY <2>2, NextSpanType DEF PublishSpan, PublishSpanFails
    <3>2. UNCHANGED <<delivered, pel, dlq, dlqLost, bodyRows, obsRows>>
      BY <2>2 DEF PublishSpan, PublishSpanFails, chVars
    <3>3. CASE stream' = stream
      BY <3>2, <3>3, ReadableStays
    <3>4. CASE stream' = Append(stream, NextSpan(r))
      BY <1>1, <3>1, <3>2, <3>4 DEF Delivery!Next
    <3> QED
      BY <2>2, <3>3, <3>4 DEF PublishSpan, PublishSpanFails
  <2>3. CASE Arrive(r) \/ RejectSpan(r) \/ Answer(r)
    BY <2>3, ReadableStays DEF Arrive, RejectSpan, Answer, redisVars, chVars
  <2> QED
    BY <2>1, <2>2, <2>3 DEF Handle
<1>3. ASSUME TakeFresh, UNCHANGED <<stream, dlq, dlqLost, bodyRows, obsRows>>
      PROVE  Delivery!Take
  <2>1. ReadLimit \in delivered .. Len(stream)
    BY FreshBounds
  <2>2. delivered' = ReadLimit /\ pel' = pel \cup ((delivered + 1) .. ReadLimit)
    BY <1>3 DEF TakeFresh, Fresh
  <2>3. UNCHANGED readableSpans
    BY <1>3, ReadableStays
  <2> QED
    BY <1>3, <2>1, <2>2, <2>3 DEF Delivery!Take, readableSpans
<1>4. ASSUME NEW ids \in SUBSET pel, Xack(ids),
             \A i \in ids : Durable(stream[i]) \/ i \in dlq \cup dlqLost,
             UNCHANGED <<stream, delivered, dlq, dlqLost, bodyRows, obsRows>>
      PROVE  Delivery!Settle \/ UNCHANGED absVars
  <2>1. UNCHANGED readableSpans
    BY <1>4, ReadableStays
  <2>2. \A i \in ids : stream[i] \in readableSpans \/ i \in dlq \cup dlqLost
    BY <1>4 DEF readableSpans, TypeOK
  <2>3. CASE pel' = pel
    BY <1>4, <2>1, <2>3
  <2>4. CASE pel' = pel \ ids
    BY <1>4, <2>1, <2>2, <2>4 DEF Delivery!Settle, readableSpans
  <2> QED
    BY <1>4, <2>3, <2>4 DEF Xack
<1>5. ASSUME NEW i \in pel, DeadLetter(i),
             UNCHANGED <<stream, delivered, pel, bodyRows, obsRows>>
      PROVE  Delivery!Refuse
  <2>1. (dlq \cup dlqLost)' = (dlq \cup dlqLost) \cup {i}
    BY <1>5 DEF DeadLetter
  <2> QED
    BY <1>5, <2>1, ReadableStays DEF Delivery!Refuse, readableSpans
<1>6. ASSUME UNCHANGED <<stream, delivered, pel, dlq, dlqLost>>
      PROVE  Delivery!Store
  BY <1>6, ReadableKeeps DEF Delivery!Store, readableSpans
<1>7. CASE DeadLetterBad
  <2>1. PICK i \in bad : DeadLetter(i)
    BY <1>7 DEF DeadLetterBad
  <2>2. i \in pel
    BY DEF PipelineInv, HeldInv
  <2> QED
    BY <1>5, <1>7, <2>1, <2>2 DEF DeadLetterBad, chVars, Delivery!Next
<1>8. CASE GiveUp
  <2>1. PICK i \in left : DeadLetter(i)
    BY <1>8 DEF GiveUp
  <2>2. i \in pel
    BY <1>8 DEF GiveUp, PipelineInv, BatchInv, HeldInv
  <2> QED
    BY <1>5, <1>8, <2>1, <2>2 DEF GiveUp, chVars, Delivery!Next
<1>9. CASE AckBad
  <2>1. PICK i \in bad : First(bad, i) /\ Xack({i})
    BY <1>9 DEF AckBad
  <2>2. i \in pel /\ i \in dlq \cup dlqLost
    BY <1>9, <2>1 DEF AckBad, PipelineInv, HeldInv, BatchInv
  <2> QED
    BY <1>4, <1>9, <2>1, <2>2 DEF AckBad, chVars, Delivery!Next
<1>10. CASE AckBatch \/ AckGivenUp
  <2>1. batch \in SUBSET pel /\ Xack(batch)
    BY <1>10 DEF AckBatch, AckGivenUp, PipelineInv, HeldInv
  <2>2. \A i \in batch : Durable(stream[i]) \/ i \in dlq \cup dlqLost
    BY <1>10 DEF AckBatch, AckGivenUp, PipelineInv, BatchInv
  <2> QED
    BY <1>4, <1>10, <2>1, <2>2 DEF AckBatch, AckGivenUp, chVars, Delivery!Next
<1>11. CASE ReadBatch \/ ReadFails
  <2>1. UNCHANGED <<stream, dlq, dlqLost, bodyRows, obsRows>>
    BY <1>11 DEF ReadBatch, ReadFails, chVars
  <2>2. TakeFresh \/ UNCHANGED <<delivered, pel>>
    BY <1>11 DEF ReadBatch, ReadFails
  <2> QED
    BY <1>3, <2>1, <2>2, ReadableStays DEF Delivery!Next
<1>12. CASE InsertBodies \/ InsertObservations
  BY <1>6, <1>12 DEF InsertBodies, InsertObservations, redisVars, Delivery!Next
<1>13. CASE WriterStep
  BY <1>7, <1>8, <1>9, <1>10, <1>11, <1>12, <1>13, ReadableStays
  DEF WriterStep, Connect, CreateGroup, CheckShutdown, ReadNothing,
      BackoffElapses, BackoffInterrupted, PublishLive, redisVars, chVars
<1>14. CASE Environment
  BY <1>14, ReadableStays
  DEF Environment, Outage, Recover, Signal, StopHttp, Exit, Crash, Die, Restart,
      redisVars, chVars
<1>15. CASE UNCHANGED vars
  BY <1>15, ReadableStays DEF vars, redisVars, chVars
<1> QED
  BY <1>2, <1>13, <1>14, <1>15 DEF Next, Write

\* Whatever fails and in whatever order, the pipeline keeps the promise of
\* SpanDelivery.
THEOREM PipelineImplementsDelivery == Spec => ImplementsDelivery
<1>1. TypeOK /\ TypeOK' /\ PipelineInv /\ [Next]_vars => [Delivery!Next]_(Delivery!vars)
  BY StepRefines DEF Delivery!vars, absVars, readableSpans
<1> QED
  BY <1>1, InitRefines, TypeCorrect, PipelineSafe, PTL
  DEF Spec, ImplementsDelivery, Delivery!Spec

\* Nothing acknowledged is ever pending again.
THEOREM AcknowledgedForGood == Spec => AckedStaysAcked
<1>1. ASSUME TypeOK, TypeOK', PipelineInv, [Next]_vars
      PROVE  Acked \subseteq Acked'
  <2>1. CASE UNCHANGED absVars
    BY <2>1 DEF absVars, Acked
  <2>2. CASE Delivery!Take
    <3>1. PICK n \in delivered .. Len(stream) :
             delivered' = n /\ pel' = pel \cup ((delivered + 1) .. n)
      BY <2>2 DEF Delivery!Take
    <3>2. delivered \in Nat /\ n \in Nat /\ delivered <= n
      <4>1. Len(stream) \in Nat /\ delivered \in 0 .. Len(stream)
        BY <1>1 DEF TypeOK
      <4> QED
        BY <3>1, <4>1
    <3> QED
      BY <3>1, <3>2 DEF Acked
  <2>3. CASE Delivery!Accept \/ Delivery!Store \/ Delivery!Refuse \/ Delivery!Settle
    BY <2>3 DEF Delivery!Accept, Delivery!Store, Delivery!Refuse, Delivery!Settle, Acked
  <2> QED
    BY <1>1, StepRefines, <2>1, <2>2, <2>3 DEF Delivery!Next
<1>2. TypeOK /\ TypeOK' /\ PipelineInv /\ [Next]_vars => [Acked \subseteq Acked']_vars
  BY <1>1
<1> QED
  BY <1>2, TypeCorrect, PipelineSafe, PTL DEF Spec, AckedStaysAcked
=============================================================================
