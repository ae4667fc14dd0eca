--------------------------- MODULE ReceiverProofs ---------------------------
(***************************************************************************)
(* Proofs about Receiver, for all sets of keys, requests and spans.        *)
(***************************************************************************)
EXTENDS Receiver, TLAPS

-----------------------------------------------------------------------------
(* The inductive invariant. *)

\* A request that is checked has a key, and one that was let in has the
\* project of its key's row.
RequestInv ==
    \A r \in Requests :
        /\ pc[r] \in {"cache", "table", "fill"} => header[r] \in Keys
        /\ project[r] = IF pc[r] \in {"fill", "spans"} /\ header[r] # Nothing
                        THEN KeyProject[header[r]] ELSE DevProject

\* A cache entry holds the project of the key's row.
CacheInv == \A k \in Keys : cache[k] # Nothing => cache[k] = KeyProject[k]

\* The life that the entry of a revoked key has left, and the time since it
\* was revoked, are no more than the TTL together, unless it was stored late.
AgeInv ==
    \A k \in Keys :
        /\ keys[k] # "revoked" => age[k] = 0
        /\ keys[k] = "revoked" /\ ttl[k] > 0 /\ k \notin lateFill => ttl[k] + age[k] <= Ttl

Inv == TypeOK /\ RequestInv /\ CacheInv /\ AgeInv

-----------------------------------------------------------------------------
(* The steps of the dashboard and of time. *)

\* What the invariant says of the keys and the cache.
KeyPart ==
    /\ keys \in [Keys -> {"absent", "active", "revoked"}]
    /\ cache \in [Keys -> Projects \cup {Nothing}]
    /\ ttl \in [Keys -> 0 .. Ttl]
    /\ \A k \in Keys : (cache[k] # Nothing) <=> (ttl[k] > 0)
    /\ age \in [Keys -> 0 .. Ttl + 1]
    /\ lateFill \subseteq {k \in Keys : keys[k] = "revoked"}
    /\ CacheInv
    /\ AgeInv

\* What it says of the requests.
RequestPart ==
    /\ pc \in [Requests -> {"idle", "cache", "table", "fill", "spans"}]
    /\ route \in [Requests -> {"json", "otlp", Nothing}]
    /\ header \in [Requests -> Keys \cup {Nothing}]
    /\ project \in [Requests -> Projects]
    /\ left \in [Requests -> 0 .. MaxSpans \cup {1}]
    /\ faulted \in [Requests -> BOOLEAN]
    /\ RequestInv

\* The invariant has these two parts.
LEMMA Parts == Inv <=> authRequired \in BOOLEAN /\ KeyPart /\ RequestPart
    BY DEF Inv, TypeOK, KeyPart, RequestPart

\* They hold at the start.
LEMMA InitInv == Init => Inv
<1> SUFFICES ASSUME Init PROVE authRequired \in BOOLEAN /\ KeyPart /\ RequestPart
    BY Parts
<1>1. KeyPart
    BY ReceiverAssumption DEF Init, KeyPart, CacheInv, AgeInv
<1>2. RequestPart
    BY ReceiverAssumption DEF Init, RequestPart, RequestInv
<1> QED BY <1>1, <1>2 DEF Init

\* A step that leaves the requests alone keeps what is said of them.
LEMMA RequestsKept == RequestPart /\ UNCHANGED requestVars => RequestPart'
    BY DEF RequestPart, RequestInv, requestVars

\* A step that leaves the keys and the cache alone keeps what is said of them.
LEMMA KeysKept == KeyPart /\ UNCHANGED keyVars => KeyPart'
    BY DEF KeyPart, CacheInv, AgeInv, keyVars

\* The dashboard's two operations keep what is said of the keys.
LEMMA DashboardKeepsKeys ==
    ASSUME KeyPart, NEW k \in Keys, CreateKey(k) \/ RevokeKey(k)
    PROVE  KeyPart'
<1> USE ReceiverAssumption
<1>1. CASE CreateKey(k)
    BY <1>1 DEF CreateKey, KeyPart, CacheInv, AgeInv
<1>2. CASE RevokeKey(k)
    BY <1>2 DEF RevokeKey, KeyPart, CacheInv, AgeInv
<1> QED BY <1>1, <1>2

\* So does time: what an entry loses of its life, the age of a key gains.
LEMMA TickKeepsKeys == KeyPart /\ Tick => KeyPart'
<1> SUFFICES ASSUME KeyPart, Tick PROVE KeyPart'
    OBVIOUS
<1> USE ReceiverAssumption
<1>1. /\ keys' = keys /\ lateFill' = lateFill
      /\ \A k \in Keys : /\ ttl'[k] = IF ttl[k] > 0 THEN ttl[k] - 1 ELSE 0
                         /\ cache'[k] = IF ttl[k] > 1 THEN cache[k] ELSE Nothing
                         /\ age'[k] = IF keys[k] = "revoked" /\ age[k] <= Ttl
                                      THEN age[k] + 1 ELSE age[k]
    BY DEF Tick
<1>2. ttl' \in [Keys -> 0 .. Ttl]
    BY DEF Tick, KeyPart
<1>3. cache' \in [Keys -> Projects \cup {Nothing}]
    BY DEF Tick, KeyPart
<1>4. age' \in [Keys -> 0 .. Ttl + 1]
    BY DEF Tick, KeyPart
<1>5. \A k \in Keys : (cache'[k] # Nothing) <=> (ttl'[k] > 0)
    BY <1>1 DEF KeyPart
<1>6. CacheInv'
    BY <1>1 DEF KeyPart, CacheInv
<1>7. AgeInv'
    BY <1>1 DEF KeyPart, AgeInv
<1> QED BY <1>1, <1>2, <1>3, <1>4, <1>5, <1>6, <1>7 DEF KeyPart

-----------------------------------------------------------------------------
(* The steps of the requests. *)

\* Only FillCache writes to the cache, and what it writes is the project of
\* the row; an entry for a key that is revoked by now is marked as late.
LEMMA FillKeepsKeys ==
    ASSUME KeyPart, RequestPart, NEW r \in Requests, FillCache(r)
    PROVE  KeyPart'
<1> USE ReceiverAssumption
<1> DEFINE k == header[r]
<1>1. k \in Keys /\ project[r] = KeyProject[k] /\ project[r] \in Projects /\ k # Nothing
    BY DEF FillCache, RequestPart, RequestInv
<1>2. CASE UNCHANGED <<cache, ttl, lateFill>>
    BY <1>2 DEF FillCache, KeyPart, CacheInv, AgeInv
<1>3. CASE /\ cache' = [cache EXCEPT ![k] = project[r]]
           /\ ttl' = [ttl EXCEPT ![k] = Ttl]
           /\ lateFill' = IF keys[k] = "revoked" THEN lateFill \cup {k} ELSE lateFill
    <2>1. keys' = keys /\ age' = age
        BY DEF FillCache
    <2>2. /\ cache' \in [Keys -> Projects \cup {Nothing}] /\ ttl' \in [Keys -> 0 .. Ttl]
          /\ \A j \in Keys : (cache'[j] # Nothing) <=> (ttl'[j] > 0)
        BY <1>1, <1>3 DEF KeyPart
    <2>3. lateFill' \subseteq {j \in Keys : keys'[j] = "revoked"}
        BY <1>1, <1>3, <2>1 DEF KeyPart
    <2>4. CacheInv'
        BY <1>1, <1>3 DEF KeyPart, CacheInv
    <2>5. AgeInv'
        BY <1>1, <1>3, <2>1 DEF KeyPart, AgeInv
    <2> QED BY <2>1, <2>2, <2>3, <2>4, <2>5 DEF KeyPart
<1> QED BY <1>2, <1>3 DEF FillCache

\* A request that is over leaves nothing behind.
LEMMA OverKeepsRequests ==
    ASSUME RequestPart, NEW r \in Requests, Over(r), faulted' \in [Requests -> BOOLEAN]
    PROVE  RequestPart'
<1> USE ReceiverAssumption
<1>1. /\ pc' = [pc EXCEPT ![r] = "idle"] /\ header' = [header EXCEPT ![r] = Nothing]
      /\ project' = [project EXCEPT ![r] = DevProject]
    BY DEF Over
<1>2. RequestInv'
    BY <1>1 DEF RequestPart, RequestInv
<1>3. route' \in [Requests -> {"json", "otlp", Nothing}] /\ left' \in [Requests -> 0 .. MaxSpans \cup {1}]
    BY DEF Over, RequestPart
<1>4. /\ pc' \in [Requests -> {"idle", "cache", "table", "fill", "spans"}]
      /\ header' \in [Requests -> Keys \cup {Nothing}] /\ project' \in [Requests -> Projects]
    BY <1>1 DEF RequestPart
<1> QED BY <1>2, <1>3, <1>4 DEF RequestPart

\* A request that arrives.
LEMMA ArriveKeepsRequests ==
    ASSUME RequestPart, NEW r \in Requests, Arrive(r)
    PROVE  RequestPart'
<1> USE ReceiverAssumption
<1>1. PICK h \in Keys \cup {Nothing}, way \in {"json", "otlp"}, n \in 0 .. MaxSpans \cup {1} :
        /\ route' = [route EXCEPT ![r] = way]
        /\ header' = [header EXCEPT ![r] = h]
        /\ left' = [left EXCEPT ![r] = n]
        /\ pc' = [pc EXCEPT ![r] = IF h = Nothing THEN "spans" ELSE "cache"]
    BY DEF Arrive
<1>2. pc[r] = "idle" /\ project' = project /\ faulted' = [faulted EXCEPT ![r] = FALSE]
    BY DEF Arrive
<1> QED BY <1>1, <1>2 DEF RequestPart, RequestInv

\* The steps of the check.
LEMMA CheckKeepsRequests ==
    ASSUME KeyPart, RequestPart, NEW r \in Requests, AskCache(r) \/ AskTable(r) \/ FillCache(r)
    PROVE  RequestPart'
<1> USE ReceiverAssumption
<1>1. pc[r] \in {"cache", "table", "fill"} /\ header[r] \in Keys /\ header[r] # Nothing
    BY DEF AskCache, AskTable, FillCache, RequestPart, RequestInv
<1>2. \A b \in BOOLEAN : Refuse(r, b) => RequestPart'
    BY OverKeepsRequests DEF Refuse, RequestPart
<1>3. CASE AskCache(r)
    <2>1. CASE /\ cache[header[r]] # Nothing
               /\ project' = [project EXCEPT ![r] = cache[header[r]]]
               /\ Continue(r, "spans")
               /\ UNCHANGED <<left, faulted>>
        BY <1>1, <2>1 DEF Continue, KeyPart, CacheInv, RequestPart, RequestInv
    <2>2. CASE Continue(r, "table") /\ UNCHANGED <<project, left>> /\ faulted' \in [Requests -> BOOLEAN]
        BY <1>1, <1>3, <2>2 DEF AskCache, Continue, RequestPart, RequestInv
    <2>3. faulted' \in [Requests -> BOOLEAN] \/ Refuse(r, TRUE)
        BY <1>3 DEF AskCache, RequestPart
    <2> QED BY <1>2, <1>3, <2>1, <2>2, <2>3 DEF AskCache
<1>4. CASE AskTable(r)
    <2>1. CASE /\ project' = [project EXCEPT ![r] = KeyProject[header[r]]]
               /\ Continue(r, "fill")
               /\ faulted' = [faulted EXCEPT ![r] = FALSE]
               /\ UNCHANGED left
        BY <1>1, <2>1 DEF Continue, RequestPart, RequestInv
    <2> QED BY <1>2, <1>4, <2>1 DEF AskTable
<1>5. CASE FillCache(r)
    BY <1>1, <1>5 DEF FillCache, Continue, RequestPart, RequestInv
<1> QED BY <1>3, <1>4, <1>5

\* The step that publishes a span.
LEMMA PublishKeepsRequests ==
    ASSUME RequestPart, NEW r \in Requests, NEW span, NEW origin, PublishSpan(r, span, origin)
    PROVE  RequestPart'
<1> USE ReceiverAssumption
<1>1. faulted' = faulted
    BY DEF PublishSpan
<1>2. CASE route[r] = "json"
    BY <1>1, <1>2, OverKeepsRequests DEF PublishSpan, RequestPart
<1>3. CASE route[r] # "json"
    <2>1. left' = [left EXCEPT ![r] = left[r] - 1] /\ Continue(r, "spans") /\ project' = project
        BY <1>3 DEF PublishSpan
    <2>2. pc[r] = "spans" /\ left[r] > 0
        BY DEF PublishSpan
    <2>3. left' \in [Requests -> 0 .. MaxSpans \cup {1}]
        BY <2>1, <2>2 DEF RequestPart
    <2> QED BY <1>1, <2>1, <2>2, <2>3 DEF Continue, RequestPart, RequestInv
<1> QED BY <1>2, <1>3

-----------------------------------------------------------------------------
(* The invariant, and what follows from it. *)

\* Every step keeps the invariant.
LEMMA StepInv == Inv /\ [Next]_vars => Inv'
<1> SUFFICES ASSUME authRequired \in BOOLEAN, KeyPart, RequestPart, [Next]_vars
             PROVE  authRequired' \in BOOLEAN /\ KeyPart' /\ RequestPart'
    BY DEF Inv, TypeOK, KeyPart, RequestPart
<1>1. CASE \E k \in Keys : CreateKey(k) \/ RevokeKey(k)
    <2>1. UNCHANGED requestVars /\ UNCHANGED authRequired
        BY <1>1 DEF CreateKey, RevokeKey
    <2> QED BY <1>1, <2>1, DashboardKeepsKeys, RequestsKept
<1>2. CASE Tick
    <2>1. UNCHANGED requestVars /\ UNCHANGED authRequired
        BY <1>2 DEF Tick
    <2> QED BY <1>2, <2>1, TickKeepsKeys, RequestsKept
<1>3. CASE \E r \in Requests : Arrive(r)
    <2>1. UNCHANGED keyVars
        BY <1>3 DEF Arrive
    <2> QED BY <1>3, <2>1, KeysKept, ArriveKeepsRequests DEF keyVars
<1>4. CASE \E r \in Requests : AskCache(r) \/ AskTable(r)
    <2>1. UNCHANGED keyVars
        BY <1>4 DEF AskCache, AskTable
    <2> QED BY <1>4, <2>1, KeysKept, CheckKeepsRequests DEF keyVars
<1>5. CASE \E r \in Requests : FillCache(r)
    <2>1. UNCHANGED authRequired
        BY <1>5 DEF FillCache
    <2> QED BY <1>5, <2>1, FillKeepsKeys, CheckKeepsRequests
<1>6. ASSUME NEW r \in Requests, PublishRaw(r) \/ PublishExported(r)
      PROVE  authRequired' \in BOOLEAN /\ KeyPart' /\ RequestPart'
    <2>1. PICK span, origin : PublishSpan(r, span, origin)
        BY <1>6 DEF PublishRaw, PublishExported
    <2>2. UNCHANGED keyVars
        BY <2>1 DEF PublishSpan
    <2> QED BY <2>1, <2>2, KeysKept, PublishKeepsRequests DEF keyVars
<1>7. ASSUME NEW r \in Requests, Finish(r)
      PROVE  authRequired' \in BOOLEAN /\ KeyPart' /\ RequestPart'
    <2>1. UNCHANGED keyVars /\ Over(r) /\ faulted' = faulted
        BY <1>7 DEF Finish
    <2> QED BY <2>1, KeysKept, OverKeepsRequests DEF keyVars, RequestPart
<1>8. CASE UNCHANGED vars
    BY <1>8, KeysKept, RequestsKept DEF vars, keyVars
<1> QED BY <1>1, <1>2, <1>3, <1>4, <1>5, <1>6, <1>7, <1>8 DEF Next, Handle

\* The invariant holds in every state.
LEMMA Invariance == Spec => []Inv
    BY InitInv, StepInv, PTL DEF Spec

\* Every variable keeps its type.
THEOREM ReceiverTypeCorrect == Spec => []TypeOK
<1>1. Inv => TypeOK
    BY DEF Inv
<1> QED BY <1>1, Invariance, PTL

\* The cache lets a key in for longer than the TTL after it was revoked only if a
\* request stored it after that; from the sum of the two times in AgeInv.
THEOREM StaleOnlyIfStoredLate == Spec => []StaleWithinTtl
<1>1. Inv => StaleWithinTtl
    <2> SUFFICES ASSUME Inv, NEW k \in Keys, keys[k] = "revoked", age[k] >= Ttl,
                        cache[k] # Nothing
                 PROVE  k \in lateFill
        BY DEF StaleWithinTtl
    <2>1. ttl[k] > 0 /\ ttl[k] \in Nat /\ age[k] \in Nat
        BY DEF Inv, TypeOK
    <2> QED BY <2>1, ReceiverAssumption DEF Inv, AgeInv
<1> QED BY <1>1, Invariance, PTL

\* A key that is shut out stays out: nobody has it in the cache or has read its
\* row, and who asks the table now is refused.
THEOREM RevokedStaysOut == Spec => ShutOutForGood
<1>1. Inv /\ [Next]_vars => [\A k \in Keys : ShutOut(k) => ShutOut(k)']_vars
    <2> SUFFICES ASSUME Inv, Next, NEW k \in Keys, ShutOut(k) PROVE ShutOut(k)'
        OBVIOUS
    <2> USE DEF ShutOut
    <2>1. CASE \E j \in Keys : CreateKey(j) \/ RevokeKey(j)
        BY <2>1 DEF CreateKey, RevokeKey, requestVars, Inv, TypeOK
    <2>2. CASE Tick
        BY <2>2 DEF Tick, requestVars
    <2>3. CASE \E r \in Requests : Arrive(r)
        BY <2>3, ReceiverAssumption DEF Arrive, keyVars, Inv, TypeOK
    <2>4. CASE \E r \in Requests : AskCache(r) \/ AskTable(r)
        BY <2>4, ReceiverAssumption
           DEF AskCache, AskTable, Refuse, Over, Continue, keyVars, Inv, TypeOK
    <2>5. CASE \E r \in Requests : FillCache(r)
        <3>1. PICK r \in Requests : FillCache(r)
            BY <2>5
        <3>2. header[r] # k /\ keys' = keys /\ header' = header
            BY <3>1 DEF FillCache, Continue
        <3>3. cache'[k] = cache[k]
            BY <3>1, <3>2 DEF FillCache, Inv, TypeOK
        <3> QED BY <3>1, <3>2, <3>3 DEF FillCache, Continue, Inv, TypeOK
    <2>6. ASSUME NEW r \in Requests, PublishRaw(r) \/ PublishExported(r) \/ Finish(r)
          PROVE  ShutOut(k)'
        <3>1. UNCHANGED keyVars /\ pc[r] = "spans" /\ (Over(r) \/ Continue(r, "spans"))
            BY <2>6 DEF PublishRaw, PublishExported, PublishSpan, Finish
        <3> QED BY <3>1, ReceiverAssumption DEF Over, Continue, keyVars, Inv, TypeOK
    <2> QED BY <2>1, <2>2, <2>3, <2>4, <2>5, <2>6 DEF Next, Handle
<1> QED BY <1>1, Invariance, PTL DEF Spec, ShutOutForGood

\* A key that is active is refused only by a failure of Redis or Postgres.
THEOREM ActiveKeysAreRefusedByFaults == Spec => RefusalNeedsAFault
<1>1. Inv /\ [Next]_vars =>
        [\A r \in Requests :
            pc[r] \in {"cache", "table"} /\ pc'[r] = "idle" /\ keys[header[r]] = "active"
                => faulted'[r]]_vars
    <2> SUFFICES ASSUME Inv, Next, NEW r \in Requests,
                        pc[r] \in {"cache", "table"}, pc'[r] = "idle", keys[header[r]] = "active"
                 PROVE  faulted'[r]
        OBVIOUS
    <2>1. pc \in [Requests -> {"idle", "cache", "table", "fill", "spans"}]
            /\ faulted \in [Requests -> BOOLEAN]
        BY DEF Inv, TypeOK
    <2>2. PICK q \in Requests : Arrive(q) \/ Handle(q)
        <3>1. (\E k \in Keys : CreateKey(k) \/ RevokeKey(k)) \/ Tick => pc' = pc
            BY DEF CreateKey, RevokeKey, Tick, requestVars
        <3> QED BY <3>1 DEF Next
    <2>3. q = r
        <3>1. Arrive(q) => \E place : pc' = [pc EXCEPT ![q] = place]
            BY DEF Arrive
        <3>2. AskCache(q) \/ AskTable(q) \/ FillCache(q) \/ Finish(q) =>
                \E place : pc' = [pc EXCEPT ![q] = place]
            BY DEF AskCache, AskTable, FillCache, Finish, Refuse, Over, Continue
        <3>3. PublishRaw(q) \/ PublishExported(q) => \E place : pc' = [pc EXCEPT ![q] = place]
            BY DEF PublishRaw, PublishExported, PublishSpan, Over, Continue
        <3> QED BY <2>1, <2>2, <3>1, <3>2, <3>3 DEF Handle
    <2>4. AskCache(r) \/ AskTable(r)
        BY <2>2, <2>3 DEF Arrive, Handle, FillCache, PublishRaw, PublishExported, PublishSpan, Finish
    <2>5. Refuse(r, TRUE)
        BY <2>1, <2>4 DEF AskCache, AskTable, Refuse, Continue
    <2> QED BY <2>1, <2>5 DEF Refuse
<1> QED BY <1>1, Invariance, PTL DEF Spec, RefusalNeedsAFault

-----------------------------------------------------------------------------
(* The rows. *)

\* The least of some of the first five numbers is one of them.
LEMMA MinOfFive ==
    ASSUME NEW S \in SUBSET (1 .. 5), S # {}
    PROVE  Seqs!Min(S) \in S
<1>1. \E x \in S : \A y \in S : x <= y
    <2>1. \A i \in 1 .. 5 : i \in S /\ (\A y \in S : i <= y) => \E x \in S : \A y \in S : x <= y
        OBVIOUS
    <2>2. 1 \in S => \A y \in S : 1 <= y
        OBVIOUS
    <2>3. 1 \notin S => \A y \in S : 2 <= y
        OBVIOUS
    <2>4. 1 \notin S /\ 2 \notin S => \A y \in S : 3 <= y
        OBVIOUS
    <2>5. 1 \notin S /\ 2 \notin S /\ 3 \notin S => \A y \in S : 4 <= y
        OBVIOUS
    <2>6. 1 \notin S /\ 2 \notin S /\ 3 \notin S /\ 4 \notin S => 5 \in S /\ \A y \in S : 5 <= y
        <3>1. PICK e : e \in S
            OBVIOUS
        <3> QED BY <3>1
    <2> QED BY <2>1, <2>2, <2>3, <2>4, <2>5, <2>6
<1> QED BY <1>1 DEF Seqs!Min

\* What an adapter returns has the fields that into_rows reads.
LEMMA AdaptedFields ==
    ASSUME NEW span, NEW dialect \in {Priority[i] : i \in 1 .. 5}
    PROVE  {"project", "body"} \subseteq DOMAIN Adapt(dialect, span)
<1> DEFINE Fields(canonical) == {"project", "body"} \subseteq DOMAIN canonical
<1>2. Fields(HalleyRaw(span))
    BY DEF HalleyRaw
<1>3. Fields(OtelGenAi(span))
    BY DEF OtelGenAi, FromOtlp
<1>4. Fields(OpenLLMetry(span))
    BY DEF OpenLLMetry, FromOtlp
<1>5. Fields(OpenInference(span))
    BY DEF OpenInference, FromOtlp
<1>6. Fields(VercelAi(span))
    BY DEF VercelAi, FromOtlp
<1>7. dialect \in {"halley-raw", "openllmetry", "openinference", "vercel-ai", "otel-genai"}
    BY DEF Priority
<1> QED BY <1>2, <1>3, <1>4, <1>5, <1>6, <1>7 DEF Adapt

\* The places in Priority of the adapters that know a span.
Detecting(span) == {i \in 1 .. 5 : Detects(Priority[i], span.attributes)}

\* The normalizer takes the first of them.
LEMMA FirstDetects ==
    ASSUME NEW span
    PROVE  Normalize(span) = IF Detecting(span) # {}
                             THEN Adapt(Priority[Seqs!Min(Detecting(span))], span)
                             ELSE UnknownDialect
<1> DEFINE I == {i \in 1 .. Len(Priority) : Detects(Priority[i], span.attributes)}
<1>1. Len(Priority) = 5
    BY DEF Priority
<1>2. I # {} => Seqs!Min(I) # 0
    BY <1>1, MinOfFive
<1>3. I = Detecting(span)
    BY <1>1 DEF Detecting
<1>4. Normalize(span) = IF I # {} THEN Adapt(Priority[Seqs!Min(I)], span) ELSE UnknownDialect
    BY <1>2 DEF Normalize, Seqs!SelectInSeq
<1> QED BY <1>3, <1>4

\* So has what the normalizer returns, unless it failed.
LEMMA NormalizedFields ==
    ASSUME NEW span, ~Failed(Normalize(span))
    PROVE  {"project", "body"} \subseteq DOMAIN Normalize(span)
<1> DEFINE I == Detecting(span)
<1>1. I # {}
    <2>1. Failed(UnknownDialect)
        BY DEF Failed, UnknownDialect
    <2> QED BY <2>1, FirstDetects
<1>2. Seqs!Min(I) \in 1 .. 5
    BY <1>1, MinOfFive DEF Detecting
<1> QED BY <1>1, <1>2, FirstDetects, AdaptedFields

\* The project that a handler puts on a span is that of its row and of the
\* rows of its bodies.
LEMMA ProjectIsPutOn ==
    ASSUME NEW canonical, {"project", "body"} \subseteq DOMAIN canonical, NEW p
    PROVE  LET rows == Publishable(canonical, p)
           IN  /\ ~Failed(rows)
               /\ rows.observation.project = p
               /\ \A f \in BodyFields : rows.observation.body[f] # None =>
                    [hash |-> rows.observation.body[f], project |-> p] \in rows.bodies
<1> DEFINE given == [canonical EXCEPT !.project = p]
           row == [column \in {"run_id"} \cup DOMAIN given |->
                    IF column = "run_id" THEN given.ids["trace_id"] ELSE given[column]]
           rows == Publishable(canonical, p)
<1>1. given.project = p /\ {"project", "body"} \subseteq DOMAIN given
    OBVIOUS
<1>2. row.project = p /\ row.body = given.body
    BY <1>1
<1>3. /\ rows.observation = row /\ DOMAIN rows = {"observation", "bodies"}
      /\ rows.bodies = {[hash |-> given.body[f], project |-> given.project] :
                            f \in {g \in BodyFields : given.body[g] # None}}
    BY DEF Publishable, IntoRows
<1> HIDE DEF rows, row, given
<1> QED BY <1>1, <1>2, <1>3 DEF Failed, rows

\* What RowsAreInTheKeysProject says of one published span.
Owned(l) ==
    LET row == l.rows.observation
        p == IF l.key = Nothing THEN DevProject ELSE KeyProject[l.key]
    IN  /\ row.project = p
        /\ \A f \in BodyFields : row.body[f] # None =>
                [hash |-> row.body[f], project |-> row.project] \in l.rows.bodies

\* The rows of a span, if there are any, have the project that they are made for.
LEMMA RowsHaveTheProject ==
    ASSUME NEW span, NEW p, ~Failed(RowsFor(span, p))
    PROVE  LET rows == RowsFor(span, p)
           IN  /\ rows.observation.project = p
               /\ \A f \in BodyFields : rows.observation.body[f] # None =>
                    [hash |-> rows.observation.body[f], project |-> p] \in rows.bodies
<1>1. ~Failed(Normalize(span)) /\ RowsFor(span, p) = Publishable(Normalize(span), p)
    BY DEF RowsFor
<1>2. {"project", "body"} \subseteq DOMAIN Normalize(span)
    BY <1>1, NormalizedFields
<1> QED BY <1>1, <1>2, ProjectIsPutOn

\* A step that publishes a span gives it the project of the request's key.
LEMMA PublishedIsOwned ==
    ASSUME Inv, NEW r \in Requests, NEW span, NEW origin, PublishSpan(r, span, origin),
           last' # Nothing, ~Failed(last'.rows)
    PROVE  Owned(last')
<1> DEFINE rows == RowsFor(span, project[r])
<1>1. last' = [origin |-> origin, key |-> header[r], rows |-> rows]
    BY DEF PublishSpan
<1>2. last'.key = header[r] /\ last'.rows = rows
    BY <1>1
<1>3. project[r] = IF header[r] # Nothing THEN KeyProject[header[r]] ELSE DevProject
    BY DEF PublishSpan, Inv, RequestInv
<1>4. /\ rows.observation.project = project[r]
      /\ \A f \in BodyFields : rows.observation.body[f] # None =>
            [hash |-> rows.observation.body[f], project |-> project[r]] \in rows.bodies
    BY <1>2, RowsHaveTheProject
<1> HIDE DEF rows
<1> QED BY <1>2, <1>3, <1>4 DEF Owned

\* Whatever a span says and whichever dialect it is in, its row and its
\* bodies go to the project of the key that came with it.
THEOREM RowsBelongToTheKey == Spec => []RowsAreInTheKeysProject
<1>1. RowsAreInTheKeysProject <=> (last # Nothing /\ ~Failed(last.rows) => Owned(last))
    BY DEF RowsAreInTheKeysProject, Published, Owned
<1>2. Init => RowsAreInTheKeysProject
    BY <1>1 DEF Init
<1>3. Inv /\ RowsAreInTheKeysProject /\ [Next]_vars => RowsAreInTheKeysProject'
    <2> SUFFICES ASSUME Inv, RowsAreInTheKeysProject, [Next]_vars,
                        last' # Nothing, ~Failed(last'.rows)
                 PROVE  Owned(last')
        BY DEF RowsAreInTheKeysProject, Published, Owned
    <2>1. CASE UNCHANGED vars
        BY <1>1, <2>1 DEF vars
    <2>2. ASSUME NEW r \in Requests, PublishRaw(r) \/ PublishExported(r)
          PROVE  Owned(last')
        <3>1. PICK span, origin : PublishSpan(r, span, origin)
            BY <2>2 DEF PublishRaw, PublishExported
        <3> QED BY <3>1, PublishedIsOwned
    <2>3. ASSUME Next, \A r \in Requests : ~PublishRaw(r) /\ ~PublishExported(r)
          PROVE  last' = Nothing
        BY <2>3 DEF Next, Handle, CreateKey, RevokeKey, Tick, Arrive, AskCache, AskTable,
            FillCache, Finish
    <2> QED BY <2>1, <2>2, <2>3
<1> QED BY <1>2, <1>3, Invariance, PTL DEF Spec

-----------------------------------------------------------------------------
(* The JSON route. *)

\* What a RawSpan is, in the words of RawSpanAssumption, when no attribute of
\* the caller has the name of a field.
Wellformed(raw) ==
    /\ raw.texts \in [TextFields -> STRING] /\ raw.status \in STRING
    /\ raw.tokens \in [TokenFields -> 0 .. TwoTo32 - 1]
    /\ raw.body \in [BodyFields -> {None} \cup [json : JsonText]]
    /\ raw.attributes \in [DOMAIN raw.attributes -> STRING]
    /\ DOMAIN raw.attributes \cap RawKeys = {}

\* The names of the fields are different from each other.
LEMMA FieldNames ==
    /\ TextFields \cap TokenFields = {} /\ TextFields \cap BodyFields = {}
    /\ TokenFields \cap BodyFields = {}
    /\ {"source_dialect", "run_id", "project_id", "status"} \cap
            (TextFields \cup TokenFields \cup BodyFields) = {}
    /\ {"source_dialect", "run_id", "project_id", "status"} \cup TextFields \cup TokenFields
            \cup BodyFields \subseteq RawKeys
    /\ "halley.run.kind" \notin RawKeys
    BY DEF TextFields, TokenFields, BodyFields, RawKeys

\* f @@ g has the keys of both, and the values of f where f has one.
LEMMA Overlay ==
    ASSUME NEW f, NEW g
    PROVE  /\ DOMAIN (f @@ g) = DOMAIN f \cup DOMAIN g
           /\ \A x \in DOMAIN f : (f @@ g)[x] = f[x]
           /\ \A x \in DOMAIN g \ DOMAIN f : (f @@ g)[x] = g[x]
    BY DEF @@

\* The attribute for a body is its text; without the body there is none.
BodyIsWritten(attrs, key, body) ==
    IF body = None THEN key \notin DOMAIN attrs
    ELSE key \in DOMAIN attrs /\ attrs[key] = Str(body.json)

\* Each field of a RawSpan becomes the attribute of its name.
LEMMA FieldsAreAttributes ==
    ASSUME NEW raw, Wellformed(raw)
    PROVE  LET attrs == RawAttributes(raw)
           IN  /\ DOMAIN attrs \ RawKeys = DOMAIN raw.attributes
               /\ "source_dialect" \in DOMAIN attrs /\ attrs["source_dialect"] = Str("halley-raw")
               /\ "status" \in DOMAIN attrs /\ attrs["status"] = Str(raw.status)
               /\ \A f \in TextFields : f \in DOMAIN attrs /\ attrs[f] = Str(raw.texts[f])
               /\ \A f \in TokenFields : f \in DOMAIN attrs /\ attrs[f] = [int |-> raw.tokens[f]]
               /\ \A f \in BodyFields : BodyIsWritten(attrs, f, raw.body[f])
               /\ \A key \in DOMAIN raw.attributes : attrs[key] = Str(raw.attributes[key])
<1> DEFINE marks == "source_dialect" :> Str("halley-raw") @@ "project_id" :> Str(raw.project)
                        @@ "status" :> Str(raw.status)
           ids   == [f \in IF raw.run_id = << >> THEN {} ELSE {"run_id"} |-> Str(Seqs!ToString(raw.run_id))]
           texts == [f \in TextFields |-> Str(raw.texts[f])]
           toks  == [f \in TokenFields |-> [int |-> raw.tokens[f]]]
           bods  == [f \in {g \in BodyFields : raw.body[g] # None} |-> Str(raw.body[f].json)]
           own   == [key \in DOMAIN raw.attributes |-> Str(raw.attributes[key])]
           two   == marks @@ ids
           three == two @@ texts
           four  == three @@ toks
           five  == four @@ bods
<1>1. RawAttributes(raw) = five @@ own
    BY DEF RawAttributes
<1>2. /\ DOMAIN marks = {"source_dialect", "project_id", "status"}
      /\ marks["source_dialect"] = Str("halley-raw") /\ marks["status"] = Str(raw.status)
    <2> DEFINE m1 == "source_dialect" :> Str("halley-raw")
               m2 == "project_id" :> Str(raw.project)
               m3 == "status" :> Str(raw.status)
    <2>1. /\ DOMAIN m1 = {"source_dialect"} /\ DOMAIN m2 = {"project_id"} /\ DOMAIN m3 = {"status"}
          /\ m1["source_dialect"] = Str("halley-raw") /\ m3["status"] = Str(raw.status)
        BY DEF :>
    <2> HIDE DEF m1, m2, m3
    <2>2. /\ DOMAIN (m1 @@ m2) = DOMAIN m1 \cup DOMAIN m2
          /\ \A x \in DOMAIN m1 : (m1 @@ m2)[x] = m1[x]
        BY Overlay
    <2>3. /\ DOMAIN ((m1 @@ m2) @@ m3) = DOMAIN (m1 @@ m2) \cup DOMAIN m3
          /\ \A x \in DOMAIN (m1 @@ m2) : ((m1 @@ m2) @@ m3)[x] = (m1 @@ m2)[x]
          /\ \A x \in DOMAIN m3 \ DOMAIN (m1 @@ m2) : ((m1 @@ m2) @@ m3)[x] = m3[x]
        BY Overlay
    <2>4. marks = (m1 @@ m2) @@ m3
        BY DEF marks, m1, m2, m3
    <2> QED BY <2>1, <2>2, <2>3, <2>4
<1>3. DOMAIN ids \subseteq {"run_id"} /\ DOMAIN texts = TextFields /\ DOMAIN toks = TokenFields
    OBVIOUS
<1>4. /\ DOMAIN bods = {g \in BodyFields : raw.body[g] # None} /\ DOMAIN own = DOMAIN raw.attributes
      /\ \A f \in TextFields : texts[f] = Str(raw.texts[f])
      /\ \A f \in TokenFields : toks[f] = [int |-> raw.tokens[f]]
      /\ \A f \in DOMAIN bods : bods[f] = Str(raw.body[f].json)
      /\ \A key \in DOMAIN own : own[key] = Str(raw.attributes[key])
    OBVIOUS
<1> HIDE DEF marks, ids, texts, toks, bods, own
<1>5. /\ DOMAIN two = DOMAIN marks \cup DOMAIN ids
      /\ \A x \in DOMAIN marks : two[x] = marks[x]
    BY Overlay
<1> HIDE DEF two
<1>6. /\ DOMAIN three = DOMAIN two \cup DOMAIN texts
      /\ \A x \in DOMAIN two : three[x] = two[x]
      /\ \A x \in DOMAIN texts \ DOMAIN two : three[x] = texts[x]
    BY Overlay
<1> HIDE DEF three
<1>7. /\ DOMAIN four = DOMAIN three \cup DOMAIN toks
      /\ \A x \in DOMAIN three : four[x] = three[x]
      /\ \A x \in DOMAIN toks \ DOMAIN three : four[x] = toks[x]
    BY Overlay
<1> HIDE DEF four
<1>8. /\ DOMAIN five = DOMAIN four \cup DOMAIN bods
      /\ \A x \in DOMAIN four : five[x] = four[x]
      /\ \A x \in DOMAIN bods \ DOMAIN four : five[x] = bods[x]
    BY Overlay
<1> HIDE DEF five
<1> DEFINE all == five @@ own
<1>9. /\ DOMAIN all = DOMAIN five \cup DOMAIN own
      /\ \A x \in DOMAIN five : all[x] = five[x]
      /\ \A x \in DOMAIN own \ DOMAIN five : all[x] = own[x]
    BY Overlay
<1> HIDE DEF all
<1>10. DOMAIN raw.attributes \cap RawKeys = {}
    BY DEF Wellformed
<1>11. DOMAIN five \subseteq RawKeys
    BY <1>2, <1>3, <1>4, <1>5, <1>6, <1>7, <1>8, FieldNames
<1>12. /\ "source_dialect" \in DOMAIN all /\ all["source_dialect"] = Str("halley-raw")
       /\ "status" \in DOMAIN all /\ all["status"] = Str(raw.status)
    BY <1>2, <1>5, <1>6, <1>7, <1>8, <1>9
<1>13. \A f \in TextFields : f \in DOMAIN all /\ all[f] = Str(raw.texts[f])
    BY <1>2, <1>3, <1>4, <1>5, <1>6, <1>7, <1>8, <1>9, FieldNames
<1>14. \A f \in TokenFields : f \in DOMAIN all /\ all[f] = [int |-> raw.tokens[f]]
    <2>1. \A f \in TokenFields : f \in DOMAIN four /\ four[f] = toks[f]
        BY <1>2, <1>3, <1>5, <1>6, <1>7, FieldNames
    <2> QED BY <1>4, <1>8, <1>9, <2>1
<1>15. ASSUME NEW f \in BodyFields
       PROVE  BodyIsWritten(all, f, raw.body[f])
    <2>1. f \notin DOMAIN four /\ f \notin DOMAIN own
        BY <1>2, <1>3, <1>4, <1>5, <1>6, <1>7, <1>10, FieldNames
    <2> QED BY <1>4, <1>8, <1>9, <2>1 DEF BodyIsWritten
<1>16. \A key \in DOMAIN raw.attributes : key \in DOMAIN all /\ all[key] = Str(raw.attributes[key])
    BY <1>4, <1>9, <1>10, <1>11
<1>17. DOMAIN all \ RawKeys = DOMAIN raw.attributes
    BY <1>4, <1>9, <1>10, <1>11
<1>18. all = RawAttributes(raw)
    BY <1>1 DEF all
<1> QED BY <1>12, <1>13, <1>14, <1>15, <1>16, <1>17, <1>18
\* A text attribute is read as it was written.
LEMMA TextIsRead ==
    ASSUME NEW attrs, NEW key, NEW s, key \in DOMAIN attrs, attrs[key] = Str(s)
    PROVE  StrAttr(attrs, key) = s
    BY DEF StrAttr, Has, IsString, Str

\* What the remainder of a number that fits is.
LEMMA SmallRemainder ==
    ASSUME NEW m \in Nat \ {0}, NEW n \in 0 .. m - 1
    PROVE  n % m = n
    OBVIOUS

\* A number that fits is read as it was written.
LEMMA NumberIsRead ==
    ASSUME NEW attrs, NEW key, NEW n \in 0 .. TwoTo32 - 1,
           key \in DOMAIN attrs, attrs[key] = [int |-> n]
    PROVE  U32Attr(attrs, <<key>>) = n
<1> DEFINE I == {i \in 1 .. Len(<<key>>) : Has(attrs, <<key>>[i]) /\ IsInt(attrs[<<key>>[i]])}
<1>1. Has(attrs, key) /\ IsInt(attrs[key]) /\ attrs[key].int = n
    BY DEF Has, IsInt
<1>2. I = {1}
    BY <1>1
<1>3. Seqs!Min({1}) = 1
    BY DEF Seqs!Min
<1>4. U32Attr(attrs, <<key>>) = AsU32(n)
    BY <1>1, <1>2, <1>3 DEF U32Attr, Seqs!SelectInSeq
<1>5. n % TwoTo32 = n
    BY NormalizerAssumption, SmallRemainder
<1> QED BY <1>4, <1>5 DEF AsU32

\* A body is read as it was written.
LEMMA BodyIsRead ==
    ASSUME NEW attrs, NEW key, NEW body \in {None} \cup [json : JsonText],
           BodyIsWritten(attrs, key, body)
    PROVE  AnyJson(attrs, key) = body
<1> USE DEF BodyIsWritten
<1>1. CASE body = None
    <2>1. ~Has(attrs, key)
        BY <1>1 DEF Has
    <2>2. ParsedAttr(attrs, key) = None
        BY <2>1, NormalizerAssumption DEF ParsedAttr, StrAttr
    <2> QED BY <1>1, <2>1, <2>2 DEF AnyJson
<1>2. CASE body # None
    <2>1. /\ body.json \in JsonText /\ body = [json |-> body.json]
          /\ key \in DOMAIN attrs /\ attrs[key] = Str(body.json)
        BY <1>2
    <2>2. StrAttr(attrs, key) = body.json /\ attrs[key].string = body.json
        BY <2>1, TextIsRead DEF Str
    <2>3. ParsedAttr(attrs, key) = body
        BY <2>1, <2>2 DEF ParsedAttr
    <2> QED BY <1>2, <2>1, <2>3 DEF AnyJson, Has
<1> QED BY <1>1, <1>2

\* What the adapter for the JSON route makes of a RawSpan's attributes.
LEMMA RawIsRead ==
    ASSUME NEW raw, Wellformed(raw), NEW span, span.attributes = RawAttributes(raw), span.ids = raw.ids
    PROVE  LET canonical == HalleyRaw(span)
           IN  /\ canonical.ids = raw.ids /\ canonical.texts = raw.texts
               /\ canonical.tokens = raw.tokens /\ canonical.body = raw.body
               /\ canonical.status = StatusOfText(raw.status)
               /\ canonical.attributes = raw.attributes
               /\ canonical.is_run_root = (raw.texts["gen_ai_operation"] = "invoke_agent"
                    \/ ("halley.run.kind" \in DOMAIN raw.attributes
                            /\ raw.attributes["halley.run.kind"] = "agent"))
<1> DEFINE attrs == RawAttributes(raw)
<1> USE FieldsAreAttributes
<1>1. [f \in TextFields |-> StrAttr(attrs, f)] = raw.texts
    <2>1. \A f \in TextFields : StrAttr(attrs, f) = raw.texts[f]
        BY TextIsRead
    <2> QED BY <2>1 DEF Wellformed
<1>2. [f \in TokenFields |-> U32Attr(attrs, <<f>>)] = raw.tokens
    <2>1. ASSUME NEW f \in TokenFields PROVE U32Attr(attrs, <<f>>) = raw.tokens[f]
        <3>1. raw.tokens[f] \in 0 .. TwoTo32 - 1
            BY DEF Wellformed
        <3>2. f \in DOMAIN attrs /\ attrs[f] = [int |-> raw.tokens[f]]
            OBVIOUS
        <3> HIDE DEF attrs
        <3> QED BY <3>1, <3>2, NumberIsRead
    <2> QED BY <2>1 DEF Wellformed
<1>3. [f \in BodyFields |-> AnyJson(attrs, f)] = raw.body
    <2>1. ASSUME NEW f \in BodyFields PROVE AnyJson(attrs, f) = raw.body[f]
        <3>1. raw.body[f] \in {None} \cup [json : JsonText]
            BY DEF Wellformed
        <3>2. BodyIsWritten(attrs, f, raw.body[f])
            BY DEF BodyIsWritten
        <3> HIDE DEF attrs
        <3> QED BY <3>1, <3>2, BodyIsRead
    <2> QED BY <2>1 DEF Wellformed
<1>4. StrAttr(attrs, "status") = raw.status
    BY TextIsRead
<1>5. Unconsumed(attrs, RawKeys) = raw.attributes
    <2>1. \A key \in DOMAIN raw.attributes : AttrString(attrs[key]) = raw.attributes[key]
        <3>1. \A s : AttrString(Str(s)) = s
            BY DEF AttrString, IsString, IsInt, Str
        <3> QED BY <3>1
    <2>2. raw.attributes = [key \in DOMAIN raw.attributes |-> raw.attributes[key]]
        BY DEF Wellformed
    <2>3. DOMAIN attrs \ RawKeys = DOMAIN raw.attributes
        OBVIOUS
    <2> HIDE DEF attrs
    <2> QED BY <2>1, <2>2, <2>3 DEF Unconsumed
<1>6. StrAttr(attrs, "gen_ai_operation") = raw.texts["gen_ai_operation"]
    BY TextIsRead DEF TextFields
<1>7. RunKindIsAgent(attrs) = ("halley.run.kind" \in DOMAIN raw.attributes
                                    /\ raw.attributes["halley.run.kind"] = "agent")
    <2>1. CASE "halley.run.kind" \in DOMAIN raw.attributes
        <3>1. /\ "halley.run.kind" \in DOMAIN attrs
              /\ attrs["halley.run.kind"] = Str(raw.attributes["halley.run.kind"])
            BY <2>1
        <3>2. StrAttr(attrs, "halley.run.kind") = raw.attributes["halley.run.kind"]
            BY <3>1, TextIsRead
        <3> QED BY <2>1, <3>2 DEF RunKindIsAgent
    <2>2. CASE "halley.run.kind" \notin DOMAIN raw.attributes
        <3>1. "halley.run.kind" \notin DOMAIN attrs
            BY <2>2, FieldNames
        <3> QED BY <2>2, <3>1 DEF RunKindIsAgent, StrAttr, Has
    <2> QED BY <2>1, <2>2
<1> HIDE DEF attrs
<1> QED BY <1>1, <1>2, <1>3, <1>4, <1>5, <1>6, <1>7 DEF HalleyRaw, attrs

\* An adapter that knows a span gets it if none before it does.
LEMMA FirstWins ==
    ASSUME NEW span, NEW n \in 1 .. 5, n \in Detecting(span),
           \A i \in 1 .. n - 1 : i \notin Detecting(span)
    PROVE  Normalize(span) = Adapt(Priority[n], span)
<1> DEFINE I == Detecting(span)
<1>1. I \in SUBSET (1 .. 5)
    BY DEF Detecting
<1> HIDE DEF I
<1>2. \A x \in I : (\A y \in I : x <= y) <=> x = n
    BY <1>1 DEF I
<1>3. Seqs!Min(I) = n
    BY <1>2 DEF Seqs!Min, I
<1> QED BY <1>3, FirstDetects DEF I

\* The adapter for the JSON route is asked first, and takes what the route made.
LEMMA RawIsDetected ==
    ASSUME NEW raw, Wellformed(raw), NEW span, span.attributes = RawAttributes(raw)
    PROVE  Normalize(span) = HalleyRaw(span)
<1>1. StrAttr(span.attributes, "source_dialect") = "halley-raw"
    BY FieldsAreAttributes, TextIsRead
<1>2. Priority[1] = "halley-raw"
    BY DEF Priority
<1>3. Detects("halley-raw", span.attributes)
    BY <1>1 DEF Detects
<1>4. 1 \in Detecting(span)
    BY <1>2, <1>3 DEF Detecting
<1>5. Normalize(span) = Adapt(Priority[1], span)
    BY <1>4, FirstWins
<1> QED BY <1>2, <1>5 DEF Adapt

\* The columns of the row that are the caller's, and those of the former one.
Callers == {"ids", "texts", "tokens", "body", "status", "attributes", "is_run_root"}

\* A row has, in the caller's columns, what the former conversion put there.
LEMMA FormerColumns ==
    ASSUME NEW raw
    PROVE  LET former == FormerRows(raw).observation
           IN  /\ DOMAIN former \ {"project", "run_id", "dialect"} = Callers
               /\ former.ids = raw.ids /\ former.texts = raw.texts /\ former.tokens = raw.tokens
               /\ former.body = raw.body /\ former.status = StatusOfText(raw.status)
               /\ former.attributes = raw.attributes
               /\ former.is_run_root = (raw.texts["gen_ai_operation"] = "invoke_agent"
                    \/ ("halley.run.kind" \in DOMAIN raw.attributes
                            /\ raw.attributes["halley.run.kind"] = "agent"))
<1> DEFINE root == raw.texts["gen_ai_operation"] = "invoke_agent"
                        \/ ("halley.run.kind" \in DOMAIN raw.attributes
                                /\ raw.attributes["halley.run.kind"] = "agent")
           canonical == [dialect |-> raw.source_dialect, ids |-> raw.ids, texts |-> raw.texts,
                         tokens |-> raw.tokens, body |-> raw.body, project |-> raw.project,
                         status |-> StatusOfText(raw.status), attributes |-> raw.attributes,
                         is_run_root |-> root]
           row == [column \in {"run_id"} \cup DOMAIN canonical |->
                    IF column = "run_id" THEN canonical.ids["trace_id"] ELSE canonical[column]]
           rows == IntoRows(canonical)
<1>1. rows.observation = row /\ DOMAIN rows = {"observation", "bodies"}
    BY DEF IntoRows
<1>2. FormerRows(raw) = IF raw.run_id = << >> THEN rows
                        ELSE [rows EXCEPT !.observation.run_id = raw.run_id]
    BY DEF FormerRows
<1>3. /\ DOMAIN row = Callers \cup {"project", "run_id", "dialect"}
      /\ row.ids = raw.ids /\ row.texts = raw.texts /\ row.tokens = raw.tokens
      /\ row.body = raw.body /\ row.status = StatusOfText(raw.status)
      /\ row.attributes = raw.attributes /\ row.is_run_root = root
    BY DEF Callers
<1> HIDE DEF row, rows, root
<1>4. /\ DOMAIN FormerRows(raw).observation = DOMAIN row
      /\ \A column \in Callers : FormerRows(raw).observation[column] = row[column]
    BY <1>1, <1>2, <1>3 DEF Callers
<1> QED BY <1>3, <1>4 DEF Callers, root

\* What the route for JSON spans makes of a span that it does not refuse.
LEMMA RawRow ==
    ASSUME NEW raw, Wellformed(raw), NEW p, ~Failed(RowsFor(RawSpanToOtlp(raw), p))
    PROVE  \A column \in Callers :
                RowsFor(RawSpanToOtlp(raw), p).observation[column]
                    = FormerRows(raw).observation[column]
<1> DEFINE span == RawSpanToOtlp(raw)
           canonical == HalleyRaw(span)
           given == [canonical EXCEPT !.project = p]
           row == [column \in {"run_id"} \cup DOMAIN given |->
                    IF column = "run_id" THEN given.ids["trace_id"] ELSE given[column]]
<1>1. ~Failed(span)
    BY DEF RowsFor
<1>2. span.attributes = RawAttributes(raw) /\ span.ids = raw.ids
    <2>1. Failed(BadRequest)
        BY DEF Failed, BadRequest
    <2> HIDE DEF span
    <2>2. ValidIds(raw.ids)
        BY <1>1, <2>1 DEF RawSpanToOtlp, span
    <2> QED BY <2>2 DEF RawSpanToOtlp, span
<1> HIDE DEF span
<1>3. Normalize(span) = canonical
    BY <1>2, RawIsDetected
<1>4. DOMAIN canonical = Callers \cup {"project", "dialect"}
    BY DEF HalleyRaw, Callers
<1> HIDE DEF canonical
<1>5. ~Failed(canonical)
    BY <1>4 DEF Failed, Callers
<1>6. RowsFor(span, p) = IntoRows(given)
    BY <1>1, <1>3, <1>5 DEF RowsFor, Publishable
<1>7. \A column \in Callers : given[column] = canonical[column] /\ column \in DOMAIN given
    BY <1>4 DEF Callers
<1>8. \A column \in Callers : row[column] = canonical[column]
    BY <1>7 DEF Callers
<1>9. IntoRows(given).observation = row
    BY DEF IntoRows
<1> HIDE DEF row, given
<1>10. /\ canonical.ids = raw.ids /\ canonical.texts = raw.texts
       /\ canonical.tokens = raw.tokens /\ canonical.body = raw.body
       /\ canonical.status = StatusOfText(raw.status)
       /\ canonical.attributes = raw.attributes
       /\ canonical.is_run_root = (raw.texts["gen_ai_operation"] = "invoke_agent"
                    \/ ("halley.run.kind" \in DOMAIN raw.attributes
                            /\ raw.attributes["halley.run.kind"] = "agent"))
    BY <1>2, RawIsRead DEF canonical
<1>11. \A column \in Callers : canonical[column] = FormerRows(raw).observation[column]
    BY <1>10, FormerColumns DEF Callers
<1> QED BY <1>6, <1>8, <1>9, <1>11 DEF span

\* What SameAsBeforeTheNormalizer says of one published span.
LikeFormer(l) ==
    l # Nothing /\ ~Failed(l.rows) /\ "raw" \in DOMAIN l.origin
        /\ DOMAIN l.origin.raw.attributes \cap RawKeys = {} =>
            \A column \in DOMAIN FormerRows(l.origin.raw).observation
                                \ {"project", "run_id", "dialect"} :
                l.rows.observation[column] = FormerRows(l.origin.raw).observation[column]

\* The JSON route, which now goes through the normalizer like every other,
\* still makes the rows of the conversion it had before: for any span whose own
\* attributes leave the names of the fields alone.
THEOREM RawRowsAreAsBefore == Spec => []SameAsBeforeTheNormalizer
<1>1. SameAsBeforeTheNormalizer <=> LikeFormer(last)
    BY DEF SameAsBeforeTheNormalizer, LikeFormer, Published, FromRaw
<1>2. Init => SameAsBeforeTheNormalizer
    BY <1>1 DEF Init, LikeFormer
<1>3. SameAsBeforeTheNormalizer /\ [Next]_vars => SameAsBeforeTheNormalizer'
    <2> SUFFICES ASSUME LikeFormer(last), [Next]_vars PROVE LikeFormer(last')
        BY DEF SameAsBeforeTheNormalizer, LikeFormer, Published, FromRaw
    <2>1. CASE UNCHANGED vars
        BY <2>1 DEF vars
    <2>2. ASSUME NEW r \in Requests, PublishRaw(r)
          PROVE  LikeFormer(last')
        <3>1. PICK raw \in RawSpans : PublishSpan(r, RawSpanToOtlp(raw), [raw |-> raw])
            BY <2>2 DEF PublishRaw
        <3> DEFINE rows == RowsFor(RawSpanToOtlp(raw), project[r])
        <3>2. last' = Nothing \/ last' = [origin |-> [raw |-> raw], key |-> header[r], rows |-> rows]
            BY <3>1 DEF PublishSpan
        <3>3. last' # Nothing => last'.origin.raw = raw /\ last'.rows = rows
            BY <3>2
        <3>4. DOMAIN raw.attributes \cap RawKeys = {} => Wellformed(raw)
            BY RawSpanAssumption DEF Wellformed
        <3> HIDE DEF rows
        <3> SUFFICES ASSUME last' # Nothing, ~Failed(rows), DOMAIN raw.attributes \cap RawKeys = {}
                     PROVE  \A column \in DOMAIN FormerRows(raw).observation
                                                \ {"project", "run_id", "dialect"} :
                                rows.observation[column] = FormerRows(raw).observation[column]
            BY <3>3 DEF LikeFormer
        <3> QED BY <3>4, RawRow, FormerColumns DEF rows
    <2>3. ASSUME NEW r \in Requests, PublishExported(r)
          PROVE  LikeFormer(last')
        <3>1. PICK e \in Exports : PublishSpan(r, ProtoSpanToOtlp(e.span), [export |-> e])
            BY <2>3 DEF PublishExported
        <3>2. last' = Nothing \/ last'.origin = [export |-> e]
            BY <3>1 DEF PublishSpan
        <3> QED BY <3>2 DEF LikeFormer
    <2>4. ASSUME Next, \A r \in Requests : ~PublishRaw(r) /\ ~PublishExported(r)
          PROVE  last' = Nothing
        BY <2>4 DEF Next, Handle, CreateKey, RevokeKey, Tick, Arrive, AskCache, AskTable,
            FillCache, Finish
    <2> QED BY <2>1, <2>2, <2>3, <2>4 DEF LikeFormer
<1> QED BY <1>2, <1>3, PTL DEF Spec
-----------------------------------------------------------------------------
(* The OTLP routes: how the adapters read what an instrumentation wrote. *)

\* A key with a value, and the attributes that are there.
Says(attrs, key, value) == Has(attrs, key) /\ attrs[key] = value

\* What an instrumentation writes is there.
LEMMA Told ==
    ASSUME NEW attrs, NEW dialect, NEW call, Tells(attrs, dialect, call),
           NEW key, NEW value, KV(key, value) \in AttributesIn(dialect, call)
    PROVE  Says(attrs, key, value)
<1>1. KV(key, value).key = key /\ KV(key, value).value = value
    BY DEF KV
<1> QED BY <1>1 DEF Tells, Says

\* What neither it nor the gen_ai.* attributes have is not.
LEMMA Untold ==
    ASSUME NEW attrs, NEW dialect, NEW call, Tells(attrs, dialect, call),
           NEW key \in AdapterKeys,
           \A kv \in AttributesIn(dialect, call) \cup GenAiAttributes(call) : kv.key # key
    PROVE  ~Has(attrs, key)
<1> SUFFICES ASSUME Has(attrs, key) PROVE FALSE
    OBVIOUS
<1>1. KV(key, attrs[key]) \in AttributesIn(dialect, call) \cup GenAiAttributes(call)
    BY DEF Tells, Has
<1>2. KV(key, attrs[key]).key = key
    BY DEF KV
<1> QED BY <1>1, <1>2

\* A key that only the gen_ai.* attributes have is there with their value or not.
LEMMA PerhapsTold ==
    ASSUME NEW attrs, NEW dialect, NEW call, Tells(attrs, dialect, call),
           NEW key \in AdapterKeys, NEW value,
           \A kv \in AttributesIn(dialect, call) \cup GenAiAttributes(call) :
                kv.key = key => kv.value = value
    PROVE  Has(attrs, key) => attrs[key] = value
<1> SUFFICES ASSUME Has(attrs, key) PROVE attrs[key] = value
    OBVIOUS
<1>1. KV(key, attrs[key]) \in AttributesIn(dialect, call) \cup GenAiAttributes(call)
    BY DEF Tells, Has
<1>2. KV(key, attrs[key]).key = key /\ KV(key, attrs[key]).value = attrs[key]
    BY DEF KV
<1> QED BY <1>1, <1>2

\* The text of an attribute.
LEMMA TextSaid ==
    ASSUME NEW attrs, NEW key
    PROVE  /\ \A s : Says(attrs, key, Str(s)) => StrAttr(attrs, key) = s
           /\ ~Has(attrs, key) => StrAttr(attrs, key) = ""
    BY TextIsRead DEF Says, StrAttr, Has

\* The first key that is there is read.
LEMMA FirstIsRead ==
    ASSUME NEW attrs, NEW names, Len(names) \in 1 .. 5
    PROVE  /\ \A n \in 1 .. Len(names) :
                Has(attrs, names[n]) /\ (\A i \in 1 .. n - 1 : ~Has(attrs, names[i]))
                    => FirstPresent(attrs, names) = names[n]
           /\ (\A i \in 1 .. Len(names) : ~Has(attrs, names[i]))
                    => FirstPresent(attrs, names) = Head(names)
<1> DEFINE I == {i \in 1 .. Len(names) : Has(attrs, names[i])}
<1>1. I \in SUBSET (1 .. 5)
    OBVIOUS
<1>2. I # {} => Seqs!Min(I) \in I
    BY <1>1, MinOfFive
<1>3. FirstPresent(attrs, names) = IF I # {} THEN names[Seqs!Min(I)] ELSE Head(names)
    BY <1>2 DEF FirstPresent, Seqs!SelectInSeq
<1>4. ASSUME NEW n \in 1 .. Len(names), Has(attrs, names[n]), \A i \in 1 .. n - 1 : ~Has(attrs, names[i])
      PROVE  FirstPresent(attrs, names) = names[n]
    <2>1. n \in I /\ (\A i \in I : i >= n)
        BY <1>4
    <2> HIDE DEF I
    <2>2. \A x \in I : (\A y \in I : x <= y) <=> x = n
        BY <1>1, <2>1
    <2>3. Seqs!Min(I) = n
        BY <2>1, <2>2 DEF Seqs!Min
    <2> QED BY <1>3, <2>1, <2>3
<1>5. (\A i \in 1 .. Len(names) : ~Has(attrs, names[i])) => I = {}
    OBVIOUS
<1> HIDE DEF I
<1> QED BY <1>3, <1>4, <1>5

\* Some of the first few numbers are some of the first five.
LEMMA WithinFive ==
    ASSUME NEW n \in 1 .. 5, NEW S \in SUBSET (1 .. n)
    PROVE  S \in SUBSET (1 .. 5)
    OBVIOUS

\* A key has a text, or none, and the keys for a text do not contradict each other.
Reads(attrs, key, s) == StrAttr(attrs, key) = s
MayRead(attrs, key, s) == StrAttr(attrs, key) = s \/ StrAttr(attrs, key) = ""
Agreed(attrs, names, s) ==
    /\ \A i \in 1 .. Len(names) : MayRead(attrs, names[i], s)
    /\ \E i \in 1 .. Len(names) : Reads(attrs, names[i], s)

\* Then the text is read.
LEMMA TextsAgree ==
    ASSUME NEW attrs, NEW names, Len(names) \in 1 .. 5, NEW s, Agreed(attrs, names, s)
    PROVE  Preferred(attrs, names) = s
<1> DEFINE Text(i) == StrAttr(attrs, names[i])
           I == {i \in 1 .. Len(names) : Text(i) # ""}
<1>1. Preferred(attrs, names) = IF I # {} THEN
            IF Seqs!Min(I) = 0 THEN "" ELSE Text(Seqs!Min(I)) ELSE ""
    BY DEF Preferred, Seqs!SelectInSeq
<1>2. \A i \in 1 .. Len(names) : (Text(i) = s \/ Text(i) = "")
    BY DEF Agreed, MayRead
<1>3. \E i \in 1 .. Len(names) : Text(i) = s
    BY DEF Agreed, Reads
<1> HIDE DEF Text
<1>4. I = {} => s = ""
    BY <1>3
<1>5. \A i \in I : Text(i) = s
    BY <1>2, Zenon
<1>6. I \in SUBSET (1 .. Len(names))
    BY Zenon
<1> HIDE DEF I
<1>7. I \in SUBSET (1 .. 5)
    BY <1>6, WithinFive
<1>8. I # {} => Seqs!Min(I) \in I /\ Seqs!Min(I) # 0
    BY <1>7, MinOfFive
<1> QED BY <1>1, <1>4, <1>5, <1>8

\* If the keys for a number do not contradict each other, the number is read.
LEMMA NumbersAgree ==
    ASSUME NEW attrs, NEW names, Len(names) \in 1 .. 5, NEW n \in 0 .. TwoTo32 - 1,
           \A i \in 1 .. Len(names) : Has(attrs, names[i]) => attrs[names[i]] = Num(n),
           \E i \in 1 .. Len(names) : Has(attrs, names[i])
    PROVE  U32Attr(attrs, names) = n
<1> DEFINE I == {i \in 1 .. Len(names) : Has(attrs, names[i]) /\ IsInt(attrs[names[i]])}
<1>1. I \in SUBSET (1 .. 5) /\ IsInt(Num(n)) /\ Num(n).int = n
    BY DEF IsInt, Num
<1>2. I # {} /\ Seqs!Min(I) \in I
    BY <1>1, MinOfFive
<1>3. U32Attr(attrs, names) = AsU32(attrs[names[Seqs!Min(I)]].int)
    BY <1>2 DEF U32Attr, Seqs!SelectInSeq
<1>4. U32Attr(attrs, names) = AsU32(n)
    BY <1>1, <1>2, <1>3
<1>5. n % TwoTo32 = n
    BY NormalizerAssumption, SmallRemainder
<1> QED BY <1>4, <1>5 DEF AsU32

\* How text is read as a body, where there is an attribute for it and where not.
LEMMA BodySaid ==
    ASSUME NEW attrs, NEW key
    PROVE  /\ \A s \in JsonText : Says(attrs, key, Str(s)) =>
                    ParsedAttr(attrs, key) = BodyOf(s) /\ AnyJson(attrs, key) = BodyOf(s)
           /\ \A s \in STRING : Says(attrs, key, Str(s)) => JsonOrWrapped(attrs, key) = BodyOf(s)
           /\ ~Has(attrs, key) => /\ ParsedAttr(attrs, key) = None /\ AnyJson(attrs, key) = None
                                  /\ JsonOrWrapped(attrs, key) = None
<1>1. ASSUME ~Has(attrs, key)
      PROVE  /\ ParsedAttr(attrs, key) = None /\ AnyJson(attrs, key) = None
             /\ JsonOrWrapped(attrs, key) = None
    <2>1. ParsedAttr(attrs, key) = None
        BY <1>1, TextSaid, NormalizerAssumption DEF ParsedAttr
    <2>2. AnyJson(attrs, key) = None
        BY <1>1, <2>1 DEF AnyJson
    <2> QED BY <1>1, <2>1, <2>2 DEF JsonOrWrapped
<1>2. ASSUME NEW s, Says(attrs, key, Str(s))
      PROVE  /\ Has(attrs, key) /\ IsString(attrs[key]) /\ attrs[key].string = s
             /\ ParsedAttr(attrs, key) = IF s \in JsonText THEN [json |-> s] ELSE None
    <2>1. Has(attrs, key) /\ IsString(attrs[key]) /\ attrs[key].string = s
        BY <1>2 DEF Says, Str, IsString
    <2>2. StrAttr(attrs, key) = s
        BY <1>2, TextSaid
    <2> QED BY <2>1, <2>2 DEF ParsedAttr
<1>3. \A s : [json |-> s] # None
    BY DEF None
<1>4. ASSUME NEW s \in JsonText, Says(attrs, key, Str(s))
      PROVE  ParsedAttr(attrs, key) = BodyOf(s) /\ AnyJson(attrs, key) = BodyOf(s)
    <2>1. ParsedAttr(attrs, key) = BodyOf(s) /\ ParsedAttr(attrs, key) # None /\ Has(attrs, key)
        BY <1>2, <1>3, <1>4 DEF BodyOf
    <2> QED BY <2>1 DEF AnyJson
<1>5. ASSUME NEW s, Says(attrs, key, Str(s))
      PROVE  JsonOrWrapped(attrs, key) = BodyOf(s)
    <2>1. CASE s \in JsonText
        BY <1>2, <1>3, <1>4, <1>5, <2>1 DEF JsonOrWrapped, BodyOf
    <2>2. CASE s \notin JsonText
        BY <1>2, <1>5, <2>2 DEF JsonOrWrapped, BodyOf
    <2> QED BY <2>1, <2>2
<1> QED BY <1>1, <1>4, <1>5
\* Texts read from one to three keys.
LEMMA TextOfOne ==
    ASSUME NEW attrs, NEW a, NEW s, Reads(attrs, a, s)
    PROVE  Preferred(attrs, <<a>>) = s
<1>1. MayRead(attrs, a, s)
    BY DEF MayRead, Reads
<1>2. Agreed(attrs, <<a>>, s)
    BY <1>1 DEF Agreed
<1>3. Len(<<a>>) \in 1 .. 5
    OBVIOUS
<1> QED BY <1>2, <1>3, TextsAgree

\* The text of two keys that do not contradict each other.
LEMMA TextOfTwo ==
    ASSUME NEW attrs, NEW a, NEW b, NEW s, MayRead(attrs, a, s), MayRead(attrs, b, s),
           Reads(attrs, a, s) \/ Reads(attrs, b, s)
    PROVE  Preferred(attrs, <<a, b>>) = s
<1>1. Agreed(attrs, <<a, b>>, s)
    BY DEF Agreed
<1>2. Len(<<a, b>>) \in 1 .. 5
    OBVIOUS
<1> QED BY <1>1, <1>2, TextsAgree

\* The text of three keys of which the first has one.
LEMMA TextOfThree ==
    ASSUME NEW attrs, NEW a, NEW b, NEW c, NEW s, MayRead(attrs, a, s),
           MayRead(attrs, b, s), MayRead(attrs, c, s), Reads(attrs, a, s)
    PROVE  Preferred(attrs, <<a, b, c>>) = s
<1>1. Agreed(attrs, <<a, b, c>>, s)
    BY DEF Agreed
<1>2. Len(<<a, b, c>>) \in 1 .. 5
    OBVIOUS
<1> QED BY <1>1, <1>2, TextsAgree

\* Numbers read from one key, or two.
LEMMA NumberOfOne ==
    ASSUME NEW attrs, NEW a, NEW n \in 0 .. TwoTo32 - 1, Says(attrs, a, Num(n))
    PROVE  U32Attr(attrs, <<a>>) = n
    BY NumbersAgree DEF Says

\* The number of two keys of which the first has one.
LEMMA NumberOfTwo ==
    ASSUME NEW attrs, NEW a, NEW b, NEW n \in 0 .. TwoTo32 - 1, Says(attrs, a, Num(n)),
           Has(attrs, b) => attrs[b] = Num(n)
    PROVE  U32Attr(attrs, <<a, b>>) = n
    BY NumbersAgree DEF Says

\* The first of two keys that is there.
LEMMA FirstOfTwo ==
    ASSUME NEW attrs, NEW a, NEW b
    PROVE  /\ Has(attrs, a) => FirstPresent(attrs, <<a, b>>) = a
           /\ ~Has(attrs, a) /\ Has(attrs, b) => FirstPresent(attrs, <<a, b>>) = b
           /\ ~Has(attrs, a) /\ ~Has(attrs, b) => FirstPresent(attrs, <<a, b>>) = a
    BY FirstIsRead

\* The only key is the first one.
LEMMA FirstOfOne ==
    ASSUME NEW attrs, NEW a
    PROVE  FirstPresent(attrs, <<a>>) = a
    BY FirstIsRead

\* A column that a table of keys is read for.
LEMMA TextColumn ==
    ASSUME NEW attrs, NEW table, NEW f \in DOMAIN table
    PROVE  f \in DOMAIN Texts(attrs, table) /\ Texts(attrs, table)[f] = Preferred(attrs, table[f])
    BY DEF Texts

\* The bodies that a call has to have, column by column.
LEMMA BodiesAre ==
    ASSUME NEW by, NEW call, NEW body, body = [f \in BodyFields |-> body[f]],
           body.input_body = IF IsTool(call) THEN None ELSE BodyOf(call.prompt),
           body.output_body = IF IsTool(call) /\ by # "openinference" THEN None
                              ELSE BodyOf(call.answer),
           body.tool_input = IF IsTool(call) THEN BodyOf(call.prompt) ELSE None,
           body.tool_output = IF IsTool(call) /\ by # "openinference" THEN BodyOf(call.answer)
                              ELSE None
    PROVE  body = BodiesOf(by, call)
<1> DEFINE none == [f \in BodyFields |-> None]
           some == CASE ~IsTool(call) ->
                        [input_body |-> BodyOf(call.prompt), output_body |-> BodyOf(call.answer)]
                     [] IsTool(call) /\ by = "openinference" ->
                        [tool_input |-> BodyOf(call.prompt), output_body |-> BodyOf(call.answer)]
                     [] OTHER ->
                        [tool_input |-> BodyOf(call.prompt), tool_output |-> BodyOf(call.answer)]
<1>1. BodiesOf(by, call) = some @@ none
    BY DEF BodiesOf
<1>2. some @@ none = [f \in DOMAIN some \cup BodyFields |->
                        IF f \in DOMAIN some THEN some[f] ELSE None]
    BY DEF @@
<1>3. CASE ~IsTool(call)
    <2>1. some = [input_body |-> BodyOf(call.prompt), output_body |-> BodyOf(call.answer)]
        BY <1>3
    <2> QED BY <1>1, <1>2, <1>3, <2>1 DEF BodyFields
<1>4. CASE IsTool(call) /\ by = "openinference"
    <2>1. some = [tool_input |-> BodyOf(call.prompt), output_body |-> BodyOf(call.answer)]
        BY <1>4
    <2> QED BY <1>1, <1>2, <1>4, <2>1 DEF BodyFields
<1>5. CASE IsTool(call) /\ by # "openinference"
    <2>1. some = [tool_input |-> BodyOf(call.prompt), tool_output |-> BodyOf(call.answer)]
        BY <1>5
    <2> QED BY <1>1, <1>2, <1>5, <2>1 DEF BodyFields
<1> QED BY <1>3, <1>4, <1>5

\* What SameCallSameRow says of a row.
Reported(row, by, call) ==
    /\ row.dialect = by
    /\ \A f \in Carried(by) : row.texts[f] = TextsOf(by, call)[f]
    /\ row.body = BodiesOf(by, call)
    /\ row.tokens = [gen_ai_usage_input_tokens |-> call.input,
                     gen_ai_usage_output_tokens |-> call.output]
    /\ row.is_run_root <=> call.operation = "invoke_agent"

\* What is said can be read, and what is not there is no text.
LEMMA SaidIsRead ==
    ASSUME NEW attrs, NEW key
    PROVE  /\ \A s : Says(attrs, key, Str(s)) => Reads(attrs, key, s) /\ MayRead(attrs, key, s)
           /\ ~Has(attrs, key) => Reads(attrs, key, "") /\ \A s : MayRead(attrs, key, s)
           /\ \A s : (Has(attrs, key) => attrs[key] = Str(s)) => MayRead(attrs, key, s)
    BY TextSaid DEF Reads, MayRead, Says

\* Keys that are not among those of the dialect are not there.
LEMMA UntoldBut ==
    ASSUME NEW attrs, NEW dialect, NEW call, Tells(attrs, dialect, call), NEW names,
           \A kv \in AttributesIn(dialect, call) \cup GenAiAttributes(call) : kv.key \in names
    PROVE  \A key \in AdapterKeys : key \notin names => ~Has(attrs, key)
    BY Untold

\* The columns of an OTLP adapter's result.
LEMMA OtlpColumns ==
    ASSUME NEW span, NEW dialect, NEW texts, NEW tokens, NEW body, NEW kept, NEW root
    PROVE  LET row == FromOtlp(span, dialect, texts, tokens, body, kept, root)
           IN  /\ DOMAIN row = Callers \cup {"project", "dialect"}
               /\ row.dialect = dialect /\ row.tokens = tokens /\ row.body = body
               /\ row.attributes = kept
               /\ row.is_run_root = (root \/ RunKindIsAgent(span.attributes))
               /\ \A f \in DOMAIN texts : row.texts[f] = texts[f]
<1>1. \A f \in DOMAIN texts : (texts @@ [error_message |-> span.message])[f] = texts[f]
    BY Overlay
<1> QED BY <1>1 DEF FromOtlp, Callers

\* What each adapter takes out of the attributes.
Consumed(by, attrs) ==
    CASE by = "openllmetry"   -> GenAiKeys \cup TraceloopKeys \cup HalleyKeys
      [] by = "openinference" -> (OpenInferenceKeys \cup HalleyKeys) \ PutBack(attrs)
      [] by = "vercel-ai"     -> VercelKeys \cup HalleyKeys
      [] by = "otel-genai"    -> GenAiKeys \cup HalleyKeys

\* It keeps the others, in a row that has the columns of every row.
KeepsTheRest(row, span, by) ==
    /\ DOMAIN row = Callers \cup {"project", "dialect"}
    /\ row.attributes = Unconsumed(span.attributes, Consumed(by, span.attributes))

\* Without messages in its events a span's body is in its attributes.
Silent(span) ==
    \A i \in DOMAIN span.events : span.events[i].name \notin InputEvents \cup OutputEvents

\* The messages of such a span are in its attributes.
LEMMA SilentBody ==
    ASSUME NEW span, Silent(span), NEW names \in {InputEvents, OutputEvents}, NEW places
    PROVE  MessageBody(span, names, places)
                = ParsedAttr(span.attributes, FirstPresent(span.attributes, places))
    BY DEF MessageBody, Silent

\* No dialect says what kind of run it is.
LEMMA NoRunKind ==
    ASSUME NEW attrs, ~Has(attrs, "halley.run.kind")
    PROVE  ~RunKindIsAgent(attrs)
    BY TextSaid DEF RunKindIsAgent

-----------------------------------------------------------------------------
(* The gen_ai.* dialect. *)

\* The keys that an OpenTelemetry span for a call has.
OtelNames(call) ==
    {"gen_ai.provider.name", "gen_ai.request.model", "gen_ai.usage.input_tokens",
     "gen_ai.usage.output_tokens", "gen_ai.operation.name", "gen_ai.response.model",
     "gen_ai.response.finish_reasons"}
    \cup IF IsTool(call)
         THEN {"gen_ai.tool.name", "gen_ai.tool.call.arguments", "gen_ai.tool.call.result"}
         ELSE {"gen_ai.input.messages", "gen_ai.output.messages"}

\* What the attributes of an OpenTelemetry span for a call say.
LEMMA OtelSaid ==
    ASSUME NEW attrs, NEW call, Tells(attrs, "otel-genai", call)
    PROVE  /\ Says(attrs, "gen_ai.provider.name", Str(call.system))
           /\ Says(attrs, "gen_ai.operation.name", Str(call.operation))
           /\ Says(attrs, "gen_ai.request.model", Str(call.model))
           /\ Says(attrs, "gen_ai.response.model", Str(call.answered_by))
           /\ Says(attrs, "gen_ai.response.finish_reasons", [array |-> <<Str(call.finish)>>])
           /\ Says(attrs, "gen_ai.usage.input_tokens", Num(call.input))
           /\ Says(attrs, "gen_ai.usage.output_tokens", Num(call.output))
           /\ IsTool(call) =>
                /\ Says(attrs, "gen_ai.tool.name", Str("search"))
                /\ Says(attrs, "gen_ai.tool.call.arguments", Str(call.prompt))
                /\ Says(attrs, "gen_ai.tool.call.result", Str(call.answer))
           /\ ~IsTool(call) =>
                /\ Says(attrs, "gen_ai.input.messages", Str(call.prompt))
                /\ Says(attrs, "gen_ai.output.messages", Str(call.answer))
           /\ \A key \in AdapterKeys : key \notin OtelNames(call) => ~Has(attrs, key)
<1>1. AttributesIn("otel-genai", call) = OtelAttributes(call)
    BY DEF AttributesIn
<1>2. \A kv \in OtelAttributes(call) \cup GenAiAttributes(call) : kv.key \in OtelNames(call)
    BY DEF OtelAttributes, GenAiAttributes, ToolAttributes, OtelNames, KV
<1>3. \A key \in AdapterKeys : key \notin OtelNames(call) => ~Has(attrs, key)
    BY <1>1, <1>2, UntoldBut
<1>4. \A key, value : KV(key, value) \in OtelAttributes(call) => Says(attrs, key, value)
    BY <1>1, Told
<1>5. GenAiAttributes(call) \subseteq OtelAttributes(call)
    BY DEF OtelAttributes
<1>6. IsTool(call) => ToolAttributes(call) \subseteq OtelAttributes(call)
    BY DEF OtelAttributes
<1>7. /\ KV("gen_ai.provider.name", Str(call.system)) \in GenAiAttributes(call)
      /\ KV("gen_ai.request.model", Str(call.model)) \in GenAiAttributes(call)
      /\ KV("gen_ai.usage.input_tokens", Num(call.input)) \in GenAiAttributes(call)
      /\ KV("gen_ai.usage.output_tokens", Num(call.output)) \in GenAiAttributes(call)
    BY DEF GenAiAttributes
<1>8. /\ KV("gen_ai.tool.name", Str("search")) \in ToolAttributes(call)
      /\ KV("gen_ai.tool.call.arguments", Str(call.prompt)) \in ToolAttributes(call)
      /\ KV("gen_ai.tool.call.result", Str(call.answer)) \in ToolAttributes(call)
    BY DEF ToolAttributes
<1>9. /\ KV("gen_ai.operation.name", Str(call.operation)) \in OtelAttributes(call)
      /\ KV("gen_ai.response.model", Str(call.answered_by)) \in OtelAttributes(call)
      /\ KV("gen_ai.response.finish_reasons", [array |-> <<Str(call.finish)>>])
            \in OtelAttributes(call)
    BY DEF OtelAttributes
<1>10. ~IsTool(call) =>
        /\ KV("gen_ai.input.messages", Str(call.prompt)) \in OtelAttributes(call)
        /\ KV("gen_ai.output.messages", Str(call.answer)) \in OtelAttributes(call)
    BY DEF OtelAttributes
<1> QED BY <1>3, <1>4, <1>5, <1>6, <1>7, <1>8, <1>9, <1>10
\* The calls of a dialect.
LEMMA CallFields ==
    ASSUME NEW by, NEW call \in CallsIn(by)
    PROVE  /\ call.input \in 0 .. TwoTo32 - 1 /\ call.output \in 0 .. TwoTo32 - 1
           /\ call.prompt \in STRING /\ call.answer \in STRING
           /\ call.operation \in {"chat", "execute_tool", "invoke_agent"}
           /\ by \notin {"openinference", "vercel-ai"} \/ IsTool(call) =>
                call.prompt \in JsonText /\ call.answer \in JsonText
    BY DEF CallsIn

\* The columns that OtelGenAi and OpenLLMetry read from the same keys.
LEMMA GenAiColumns ==
    ASSUME NEW attrs, NEW table,
           \A f \in DOMAIN GenAiTexts : f \in DOMAIN table /\ table[f] = GenAiTexts[f]
    PROVE  LET texts == Texts(attrs, table)
           IN  /\ {"gen_ai_system", "gen_ai_operation", "gen_ai_request_model",
                   "gen_ai_response_model", "tool_name"} \subseteq DOMAIN texts
               /\ texts["gen_ai_system"]
                    = Preferred(attrs, <<"gen_ai.provider.name", "gen_ai.system">>)
               /\ texts["gen_ai_operation"] = Preferred(attrs, <<"gen_ai.operation.name">>)
               /\ texts["gen_ai_request_model"] = Preferred(attrs, <<"gen_ai.request.model">>)
               /\ texts["gen_ai_response_model"] = Preferred(attrs, <<"gen_ai.response.model">>)
               /\ texts["tool_name"] = Preferred(attrs, <<"gen_ai.tool.name">>)
<1>2. \A f \in DOMAIN GenAiTexts :
            f \in DOMAIN Texts(attrs, table) /\ Texts(attrs, table)[f] = Preferred(attrs, GenAiTexts[f])
    BY TextColumn
<1>3. /\ DOMAIN GenAiTexts = {"gen_ai_system", "gen_ai_operation", "gen_ai_request_model",
                              "gen_ai_response_model", "tool_name"}
      /\ GenAiTexts["gen_ai_system"] = <<"gen_ai.provider.name", "gen_ai.system">>
      /\ GenAiTexts["gen_ai_operation"] = <<"gen_ai.operation.name">>
      /\ GenAiTexts["gen_ai_request_model"] = <<"gen_ai.request.model">>
      /\ GenAiTexts["gen_ai_response_model"] = <<"gen_ai.response.model">>
      /\ GenAiTexts["tool_name"] = <<"gen_ai.tool.name">>
    BY DEF GenAiTexts
<1> QED BY <1>2, <1>3

\* The bodies of a tool, which they also read alike.
LEMMA GenAiToolBodies ==
    ASSUME NEW attrs, NEW call, call.prompt \in JsonText, call.answer \in JsonText,
           IsTool(call) => /\ Says(attrs, "gen_ai.tool.call.arguments", Str(call.prompt))
                           /\ Says(attrs, "gen_ai.tool.call.result", Str(call.answer)),
           ~IsTool(call) => /\ ~Has(attrs, "gen_ai.tool.call.arguments")
                            /\ ~Has(attrs, "gen_ai.tool.call.result")
    PROVE  /\ DOMAIN GenAiToolBody(attrs) = {"tool_input", "tool_output"}
           /\ GenAiToolBody(attrs).tool_input = IF IsTool(call) THEN BodyOf(call.prompt) ELSE None
           /\ GenAiToolBody(attrs).tool_output = IF IsTool(call) THEN BodyOf(call.answer) ELSE None
<1>1. AnyJson(attrs, "gen_ai.tool.call.arguments") = IF IsTool(call) THEN BodyOf(call.prompt) ELSE None
    BY BodySaid
<1>2. AnyJson(attrs, "gen_ai.tool.call.result") = IF IsTool(call) THEN BodyOf(call.answer) ELSE None
    BY BodySaid
<1> QED BY <1>1, <1>2 DEF GenAiToolBody

\* The tokens of the two.
LEMMA GenAiTokenCounts ==
    ASSUME NEW attrs, NEW call, call.input \in 0 .. TwoTo32 - 1, call.output \in 0 .. TwoTo32 - 1,
           Says(attrs, "gen_ai.usage.input_tokens", Num(call.input)),
           Says(attrs, "gen_ai.usage.output_tokens", Num(call.output))
    PROVE  Tokens(attrs, GenAiTokens) = [gen_ai_usage_input_tokens  |-> call.input,
                                         gen_ai_usage_output_tokens |-> call.output]
<1>1. U32Attr(attrs, <<"gen_ai.usage.input_tokens">>) = call.input
    BY NumberOfOne
<1>2. U32Attr(attrs, <<"gen_ai.usage.output_tokens">>) = call.output
    BY NumberOfOne
<1>3. /\ GenAiTokens["gen_ai_usage_input_tokens"] = <<"gen_ai.usage.input_tokens">>
      /\ GenAiTokens["gen_ai_usage_output_tokens"] = <<"gen_ai.usage.output_tokens">>
    BY DEF GenAiTokens
<1> QED BY <1>1, <1>2, <1>3 DEF Tokens, TokenFields

\* The texts that most dialects carry, column by column.
LEMMA CarriedAre ==
    ASSUME NEW by \in {"otel-genai", "openllmetry", "vercel-ai"}, NEW call, NEW texts,
           {"gen_ai_system", "gen_ai_operation", "gen_ai_request_model", "gen_ai_response_model",
            "gen_ai_response_finish_reason", "tool_name"} \subseteq DOMAIN texts,
           texts["gen_ai_system"] = call.system,
           texts["gen_ai_operation"] = IF by = "vercel-ai" /\ call.operation = "invoke_agent"
                                       THEN "ai.agent.run" ELSE call.operation,
           texts["gen_ai_request_model"] = call.model,
           texts["gen_ai_response_model"] = call.answered_by,
           texts["gen_ai_response_finish_reason"] = call.finish,
           texts["tool_name"] = IF IsTool(call) THEN "search" ELSE ""
    PROVE  \A f \in Carried(by) : f \in DOMAIN texts /\ texts[f] = TextsOf(by, call)[f]
<1>1. Carried(by) = {"gen_ai_system", "gen_ai_operation", "gen_ai_request_model",
            "tool_name", "gen_ai_response_model", "gen_ai_response_finish_reason"}
    BY DEF Carried
<1>2. LET t == TextsOf(by, call)
      IN  /\ t["gen_ai_system"] = call.system
          /\ t["gen_ai_operation"] = IF by = "vercel-ai" /\ call.operation = "invoke_agent"
                                     THEN "ai.agent.run" ELSE call.operation
          /\ t["gen_ai_request_model"] = call.model
          /\ t["gen_ai_response_model"] = call.answered_by
          /\ t["gen_ai_response_finish_reason"] = call.finish
          /\ t["tool_name"] = IF IsTool(call) THEN "search" ELSE ""
    BY DEF TextsOf
<1> QED BY <1>1, <1>2

\* Its adapter reports the call.
LEMMA OtelRow ==
    ASSUME NEW span, NEW call \in CallsIn("otel-genai"),
           Tells(span.attributes, "otel-genai", call), Silent(span)
    PROVE  /\ Reported(OtelGenAi(span), "otel-genai", call)
           /\ KeepsTheRest(OtelGenAi(span), span, "otel-genai")
<1> DEFINE attrs == span.attributes
           texts == Texts(attrs, GenAiTexts @@ HalleyTexts)
           all == texts @@ [gen_ai_response_finish_reason |-> FinishReason(attrs)]
           tokens == Tokens(attrs, GenAiTokens)
           messages == [input_body  |-> MessageBody(span, InputEvents, <<"gen_ai.input.messages">>),
                        output_body |-> MessageBody(span, OutputEvents, <<"gen_ai.output.messages">>)]
           body == messages @@ GenAiToolBody(attrs)
           kept == Unconsumed(attrs, GenAiKeys \cup HalleyKeys)
           root == texts.gen_ai_operation = "invoke_agent"
           row == OtelGenAi(span)
<1>1. row = FromOtlp(span, "otel-genai", all, tokens, body, kept, root)
    BY DEF OtelGenAi
<1>a. attrs = span.attributes
    OBVIOUS
<1>b. Tells(attrs, "otel-genai", call)
    OBVIOUS
<1> HIDE DEF attrs
<1>2. /\ Says(attrs, "gen_ai.provider.name", Str(call.system))
      /\ Says(attrs, "gen_ai.operation.name", Str(call.operation))
      /\ Says(attrs, "gen_ai.request.model", Str(call.model))
      /\ Says(attrs, "gen_ai.response.model", Str(call.answered_by))
      /\ Says(attrs, "gen_ai.response.finish_reasons", [array |-> <<Str(call.finish)>>])
      /\ Says(attrs, "gen_ai.usage.input_tokens", Num(call.input))
      /\ Says(attrs, "gen_ai.usage.output_tokens", Num(call.output))
      /\ IsTool(call) =>
           /\ Says(attrs, "gen_ai.tool.name", Str("search"))
           /\ Says(attrs, "gen_ai.tool.call.arguments", Str(call.prompt))
           /\ Says(attrs, "gen_ai.tool.call.result", Str(call.answer))
      /\ ~IsTool(call) =>
           /\ Says(attrs, "gen_ai.input.messages", Str(call.prompt))
           /\ Says(attrs, "gen_ai.output.messages", Str(call.answer))
    BY <1>b, OtelSaid
<1>3. /\ ~Has(attrs, "gen_ai.system") /\ ~Has(attrs, "halley.run.kind")
      /\ IsTool(call) => /\ ~Has(attrs, "gen_ai.input.messages")
                         /\ ~Has(attrs, "gen_ai.output.messages")
      /\ ~IsTool(call) => /\ ~Has(attrs, "gen_ai.tool.name")
                          /\ ~Has(attrs, "gen_ai.tool.call.arguments")
                          /\ ~Has(attrs, "gen_ai.tool.call.result")
    <2>1. \A key \in AdapterKeys : key \notin OtelNames(call) => ~Has(attrs, key)
        BY <1>b, OtelSaid
    <2> QED BY <2>1 DEF AdapterKeys, GenAiKeys, OtelNames
<1>4. /\ call.input \in 0 .. TwoTo32 - 1 /\ call.output \in 0 .. TwoTo32 - 1
      /\ call.prompt \in JsonText /\ call.answer \in JsonText
    BY CallFields
<1>5. /\ Preferred(attrs, <<"gen_ai.provider.name", "gen_ai.system">>) = call.system
      /\ Preferred(attrs, <<"gen_ai.operation.name">>) = call.operation
      /\ Preferred(attrs, <<"gen_ai.request.model">>) = call.model
      /\ Preferred(attrs, <<"gen_ai.response.model">>) = call.answered_by
      /\ Preferred(attrs, <<"gen_ai.tool.name">>) = IF IsTool(call) THEN "search" ELSE ""
    <2>1. /\ Reads(attrs, "gen_ai.provider.name", call.system)
          /\ MayRead(attrs, "gen_ai.provider.name", call.system)
          /\ MayRead(attrs, "gen_ai.system", call.system)
          /\ Reads(attrs, "gen_ai.operation.name", call.operation)
          /\ Reads(attrs, "gen_ai.request.model", call.model)
          /\ Reads(attrs, "gen_ai.response.model", call.answered_by)
        BY <1>2, <1>3, SaidIsRead
    <2>2. Reads(attrs, "gen_ai.tool.name", IF IsTool(call) THEN "search" ELSE "")
        BY <1>2, <1>3, SaidIsRead
    <2> QED BY <2>1, <2>2, TextOfOne, TextOfTwo
<1>6. FinishReason(attrs) = call.finish
    BY <1>2 DEF FinishReason, Says, Str, IsString
<1>7. /\ {"gen_ai_system", "gen_ai_operation", "gen_ai_request_model", "gen_ai_response_model",
          "tool_name"} \subseteq DOMAIN texts
      /\ texts["gen_ai_system"] = call.system /\ texts["gen_ai_operation"] = call.operation
      /\ texts["gen_ai_request_model"] = call.model
      /\ texts["gen_ai_response_model"] = call.answered_by
      /\ texts["tool_name"] = IF IsTool(call) THEN "search" ELSE ""
    <2> DEFINE table == GenAiTexts @@ HalleyTexts
    <2>1. \A f \in DOMAIN GenAiTexts : f \in DOMAIN table /\ table[f] = GenAiTexts[f]
        BY Overlay
    <2> HIDE DEF table
    <2>2. LET t == Texts(attrs, table)
          IN  /\ {"gen_ai_system", "gen_ai_operation", "gen_ai_request_model",
                  "gen_ai_response_model", "tool_name"} \subseteq DOMAIN t
              /\ t["gen_ai_system"] = call.system /\ t["gen_ai_operation"] = call.operation
              /\ t["gen_ai_request_model"] = call.model
              /\ t["gen_ai_response_model"] = call.answered_by
              /\ t["tool_name"] = IF IsTool(call) THEN "search" ELSE ""
        BY <1>5, <2>1, GenAiColumns
    <2> QED BY <2>2 DEF table
<1>8. "gen_ai_response_finish_reason" \notin DOMAIN texts
    <2>1. DOMAIN texts = DOMAIN (GenAiTexts @@ HalleyTexts)
        BY DEF Texts
    <2>2. DOMAIN (GenAiTexts @@ HalleyTexts) = DOMAIN GenAiTexts \cup DOMAIN HalleyTexts
        BY Overlay
    <2> HIDE DEF texts
    <2> QED BY <2>1, <2>2 DEF GenAiTexts, HalleyTexts
<1> HIDE DEF texts
<1>9. /\ \A f \in DOMAIN texts : f \in DOMAIN all /\ all[f] = texts[f]
      /\ "gen_ai_response_finish_reason" \in DOMAIN all
      /\ all["gen_ai_response_finish_reason"] = call.finish
    <2> DEFINE finish == [gen_ai_response_finish_reason |-> FinishReason(attrs)]
    <2>1. /\ DOMAIN finish = {"gen_ai_response_finish_reason"}
          /\ finish["gen_ai_response_finish_reason"] = call.finish
        BY <1>6
    <2>2. all = texts @@ finish
        OBVIOUS
    <2> HIDE DEF finish
    <2>3. /\ DOMAIN (texts @@ finish) = DOMAIN texts \cup DOMAIN finish
          /\ \A x \in DOMAIN texts : (texts @@ finish)[x] = texts[x]
          /\ \A x \in DOMAIN finish \ DOMAIN texts : (texts @@ finish)[x] = finish[x]
        BY Overlay
    <2> HIDE DEF all
    <2> QED BY <1>8, <2>1, <2>2, <2>3
<1> HIDE DEF all
<1>10. \A f \in Carried("otel-genai") : f \in DOMAIN all /\ all[f] = TextsOf("otel-genai", call)[f]
    <2>1. /\ {"gen_ai_system", "gen_ai_operation", "gen_ai_request_model", "gen_ai_response_model",
              "gen_ai_response_finish_reason", "tool_name"} \subseteq DOMAIN all
          /\ all["gen_ai_system"] = call.system /\ all["gen_ai_operation"] = call.operation
          /\ all["gen_ai_request_model"] = call.model
          /\ all["gen_ai_response_model"] = call.answered_by
          /\ all["gen_ai_response_finish_reason"] = call.finish
          /\ all["tool_name"] = IF IsTool(call) THEN "search" ELSE ""
        BY <1>7, <1>9
    <2> QED BY <2>1, CarriedAre
<1>11. tokens = [gen_ai_usage_input_tokens |-> call.input, gen_ai_usage_output_tokens |-> call.output]
    BY <1>2, <1>4, GenAiTokenCounts
<1>12. /\ messages.input_body = ParsedAttr(attrs, "gen_ai.input.messages")
       /\ messages.output_body = ParsedAttr(attrs, "gen_ai.output.messages")
    BY <1>a, SilentBody, FirstOfOne
<1>13. /\ messages.input_body = IF IsTool(call) THEN None ELSE BodyOf(call.prompt)
       /\ messages.output_body = IF IsTool(call) THEN None ELSE BodyOf(call.answer)
    BY <1>2, <1>3, <1>4, <1>12, BodySaid
<1>14. /\ DOMAIN GenAiToolBody(attrs) = {"tool_input", "tool_output"}
       /\ GenAiToolBody(attrs).tool_input = IF IsTool(call) THEN BodyOf(call.prompt) ELSE None
       /\ GenAiToolBody(attrs).tool_output = IF IsTool(call) THEN BodyOf(call.answer) ELSE None
    BY <1>2, <1>3, <1>4, GenAiToolBodies
<1>15. DOMAIN messages = {"input_body", "output_body"}
    OBVIOUS
<1> HIDE DEF messages
<1>16. body = BodiesOf("otel-genai", call)
    <2>1. /\ body = [f \in BodyFields |-> body[f]]
          /\ body.input_body = messages.input_body /\ body.output_body = messages.output_body
          /\ body.tool_input = GenAiToolBody(attrs).tool_input
          /\ body.tool_output = GenAiToolBody(attrs).tool_output
        BY <1>14, <1>15 DEF @@, BodyFields
    <2> HIDE DEF body
    <2> QED BY <1>13, <1>14, <2>1, BodiesAre
<1>17. root <=> call.operation = "invoke_agent"
    BY <1>7
<1>18. ~RunKindIsAgent(attrs)
    BY <1>3, NoRunKind
<1> HIDE DEF body, tokens, root, kept, row
<1>19. /\ row.dialect = "otel-genai" /\ row.tokens = tokens /\ row.body = body
       /\ row.is_run_root = (root \/ RunKindIsAgent(attrs))
       /\ \A f \in DOMAIN all : row.texts[f] = all[f]
       /\ row.attributes = kept /\ DOMAIN row = Callers \cup {"project", "dialect"}
    BY <1>1, <1>a, OtlpColumns
<1>20. Reported(row, "otel-genai", call)
    BY <1>10, <1>11, <1>16, <1>17, <1>18, <1>19 DEF Reported
<1>21. kept = Unconsumed(span.attributes, Consumed("otel-genai", span.attributes))
    BY <1>a DEF kept, Consumed
<1> QED BY <1>19, <1>20, <1>21 DEF KeepsTheRest, row
-----------------------------------------------------------------------------
(* OpenLLMetry. *)

\* The keys that an OpenLLMetry span for a call has.
OpenLLMetryNames(call) ==
    {"gen_ai.provider.name", "gen_ai.system", "gen_ai.request.model", "gen_ai.response.model",
     "gen_ai.usage.input_tokens", "gen_ai.usage.output_tokens", "gen_ai.response.finish_reason",
     "traceloop.span.kind"}
    \cup IF IsTool(call)
         THEN {"gen_ai.tool.name", "gen_ai.tool.call.arguments", "gen_ai.tool.call.result"}
         ELSE {"traceloop.entity.input", "traceloop.entity.output"}

\* The kind that it says the call is of.
TraceloopKind(call) ==
    IF IsTool(call) THEN "tool" ELSE IF call.operation = "chat" THEN "llm" ELSE "agent"

\* What the attributes of an OpenLLMetry span for a call say.
LEMMA OpenLLMetrySaid ==
    ASSUME NEW attrs, NEW call, Tells(attrs, "openllmetry", call)
    PROVE  /\ Says(attrs, "gen_ai.system", Str(call.system))
           /\ Has(attrs, "gen_ai.provider.name") =>
                    attrs["gen_ai.provider.name"] = Str(call.system)
           /\ Says(attrs, "gen_ai.request.model", Str(call.model))
           /\ Says(attrs, "gen_ai.response.model", Str(call.answered_by))
           /\ Says(attrs, "gen_ai.response.finish_reason", Str(call.finish))
           /\ Says(attrs, "gen_ai.usage.input_tokens", Num(call.input))
           /\ Says(attrs, "gen_ai.usage.output_tokens", Num(call.output))
           /\ Says(attrs, "traceloop.span.kind", Str(TraceloopKind(call)))
           /\ IsTool(call) =>
                /\ Says(attrs, "gen_ai.tool.name", Str("search"))
                /\ Says(attrs, "gen_ai.tool.call.arguments", Str(call.prompt))
                /\ Says(attrs, "gen_ai.tool.call.result", Str(call.answer))
           /\ ~IsTool(call) =>
                /\ Says(attrs, "traceloop.entity.input", Str(call.prompt))
                /\ Says(attrs, "traceloop.entity.output", Str(call.answer))
           /\ \A key \in AdapterKeys : key \notin OpenLLMetryNames(call) => ~Has(attrs, key)
<1>1. AttributesIn("openllmetry", call) = OpenLLMetryAttributes(call)
    BY DEF AttributesIn
<1>2. \A kv \in OpenLLMetryAttributes(call) \cup GenAiAttributes(call) :
            kv.key \in OpenLLMetryNames(call)
    BY DEF OpenLLMetryAttributes, GenAiAttributes, ToolAttributes, OpenLLMetryNames, KV
<1>3. \A key \in AdapterKeys : key \notin OpenLLMetryNames(call) => ~Has(attrs, key)
    BY <1>1, <1>2, UntoldBut
<1>4. \A key, value : KV(key, value) \in OpenLLMetryAttributes(call) => Says(attrs, key, value)
    BY <1>1, Told
<1>5. Has(attrs, "gen_ai.provider.name") => attrs["gen_ai.provider.name"] = Str(call.system)
    <2>1. \A kv \in OpenLLMetryAttributes(call) \cup GenAiAttributes(call) :
                kv.key = "gen_ai.provider.name" => kv.value = Str(call.system)
        BY DEF OpenLLMetryAttributes, GenAiAttributes, ToolAttributes, KV
    <2>2. "gen_ai.provider.name" \in AdapterKeys
        BY DEF AdapterKeys, GenAiKeys
    <2> QED BY <1>1, <2>1, <2>2, PerhapsTold
<1>6. IsTool(call) => ToolAttributes(call) \subseteq OpenLLMetryAttributes(call)
    BY DEF OpenLLMetryAttributes
<1>7. TraceloopKind(call) =
        CASE IsTool(call) -> "tool" [] call.operation = "chat" -> "llm" [] OTHER -> "agent"
    BY DEF TraceloopKind, IsTool
<1>8. /\ KV("gen_ai.tool.name", Str("search")) \in ToolAttributes(call)
      /\ KV("gen_ai.tool.call.arguments", Str(call.prompt)) \in ToolAttributes(call)
      /\ KV("gen_ai.tool.call.result", Str(call.answer)) \in ToolAttributes(call)
    BY DEF ToolAttributes
<1>9. /\ KV("gen_ai.system", Str(call.system)) \in OpenLLMetryAttributes(call)
      /\ KV("gen_ai.request.model", Str(call.model)) \in OpenLLMetryAttributes(call)
      /\ KV("gen_ai.response.model", Str(call.answered_by)) \in OpenLLMetryAttributes(call)
      /\ KV("gen_ai.response.finish_reason", Str(call.finish)) \in OpenLLMetryAttributes(call)
      /\ KV("gen_ai.usage.input_tokens", Num(call.input)) \in OpenLLMetryAttributes(call)
      /\ KV("gen_ai.usage.output_tokens", Num(call.output)) \in OpenLLMetryAttributes(call)
      /\ KV("traceloop.span.kind", Str(TraceloopKind(call))) \in OpenLLMetryAttributes(call)
    BY <1>7 DEF OpenLLMetryAttributes
<1>10. ~IsTool(call) =>
        /\ KV("traceloop.entity.input", Str(call.prompt)) \in OpenLLMetryAttributes(call)
        /\ KV("traceloop.entity.output", Str(call.answer)) \in OpenLLMetryAttributes(call)
    BY DEF OpenLLMetryAttributes
<1> QED BY <1>3, <1>4, <1>5, <1>6, <1>8, <1>9, <1>10

\* The kind of a span is translated to the operation.
LEMMA TraceloopOperation ==
    ASSUME NEW call, call.operation \in {"chat", "execute_tool", "invoke_agent"}
    PROVE  /\ Translate(TraceloopKinds, TraceloopKind(call)) = call.operation
           /\ TraceloopKind(call) = "agent" <=> call.operation = "invoke_agent"
    BY DEF Translate, TraceloopKinds, TraceloopKind, IsTool

\* The row of an OpenLLMetry span reports its call.
LEMMA OpenLLMetryRow ==
    ASSUME NEW span, NEW call \in CallsIn("openllmetry"),
           Tells(span.attributes, "openllmetry", call), Silent(span)
    PROVE  /\ Reported(OpenLLMetry(span), "openllmetry", call)
           /\ KeepsTheRest(OpenLLMetry(span), span, "openllmetry")
<1> DEFINE attrs == span.attributes
           kind == StrAttr(attrs, "traceloop.span.kind")
           named == StrAttr(attrs, "gen_ai.operation.name")
           operation == IF named = "" THEN Translate(TraceloopKinds, kind) ELSE named
           table == [run_name |-> <<"halley.run_name", "traceloop.entity.name">>]
                        @@ GenAiTexts @@ HalleyTexts
           texts == Texts(attrs, table)
           computed == [gen_ai_operation |-> operation,
                        gen_ai_response_finish_reason |-> FinishReason(attrs)]
           all == computed @@ texts
           tokens == Tokens(attrs, GenAiTokens)
           inputs == <<"gen_ai.input.messages", "traceloop.entity.input">>
           outputs == <<"gen_ai.output.messages", "traceloop.entity.output">>
           messages == [input_body  |-> MessageBody(span, InputEvents, inputs),
                        output_body |-> MessageBody(span, OutputEvents, outputs)]
           body == messages @@ GenAiToolBody(attrs)
           kept == Unconsumed(attrs, GenAiKeys \cup TraceloopKeys \cup HalleyKeys)
           root == operation = "invoke_agent" \/ kind = "agent"
           row == OpenLLMetry(span)
<1>1. row = FromOtlp(span, "openllmetry", all, tokens, body, kept, root)
    BY DEF OpenLLMetry
<1>a. attrs = span.attributes
    OBVIOUS
<1>b. Tells(attrs, "openllmetry", call)
    OBVIOUS
<1> HIDE DEF attrs
<1>2. /\ Says(attrs, "gen_ai.system", Str(call.system))
      /\ Has(attrs, "gen_ai.provider.name") =>
               attrs["gen_ai.provider.name"] = Str(call.system)
      /\ Says(attrs, "gen_ai.request.model", Str(call.model))
      /\ Says(attrs, "gen_ai.response.model", Str(call.answered_by))
      /\ Says(attrs, "gen_ai.response.finish_reason", Str(call.finish))
      /\ Says(attrs, "gen_ai.usage.input_tokens", Num(call.input))
      /\ Says(attrs, "gen_ai.usage.output_tokens", Num(call.output))
      /\ Says(attrs, "traceloop.span.kind", Str(TraceloopKind(call)))
      /\ IsTool(call) =>
           /\ Says(attrs, "gen_ai.tool.name", Str("search"))
           /\ Says(attrs, "gen_ai.tool.call.arguments", Str(call.prompt))
           /\ Says(attrs, "gen_ai.tool.call.result", Str(call.answer))
      /\ ~IsTool(call) =>
           /\ Says(attrs, "traceloop.entity.input", Str(call.prompt))
           /\ Says(attrs, "traceloop.entity.output", Str(call.answer))
    BY <1>b, OpenLLMetrySaid
<1>3. /\ ~Has(attrs, "gen_ai.operation.name") /\ ~Has(attrs, "gen_ai.response.finish_reasons")
      /\ ~Has(attrs, "gen_ai.input.messages") /\ ~Has(attrs, "gen_ai.output.messages")
      /\ ~Has(attrs, "halley.run.kind")
      /\ IsTool(call) => /\ ~Has(attrs, "traceloop.entity.input")
                         /\ ~Has(attrs, "traceloop.entity.output")
      /\ ~IsTool(call) => /\ ~Has(attrs, "gen_ai.tool.name")
                          /\ ~Has(attrs, "gen_ai.tool.call.arguments")
                          /\ ~Has(attrs, "gen_ai.tool.call.result")
    <2>1. \A key \in AdapterKeys : key \notin OpenLLMetryNames(call) => ~Has(attrs, key)
        BY <1>b, OpenLLMetrySaid
    <2> QED BY <2>1 DEF AdapterKeys, GenAiKeys, TraceloopNamespace, TraceloopKeys,
        OpenLLMetryNames
<1>4. /\ call.input \in 0 .. TwoTo32 - 1 /\ call.output \in 0 .. TwoTo32 - 1
      /\ call.prompt \in JsonText /\ call.answer \in JsonText
      /\ call.operation \in {"chat", "execute_tool", "invoke_agent"}
    BY CallFields
<1>5. /\ Preferred(attrs, <<"gen_ai.provider.name", "gen_ai.system">>) = call.system
      /\ Preferred(attrs, <<"gen_ai.request.model">>) = call.model
      /\ Preferred(attrs, <<"gen_ai.response.model">>) = call.answered_by
      /\ Preferred(attrs, <<"gen_ai.tool.name">>) = IF IsTool(call) THEN "search" ELSE ""
    <2>1. /\ Reads(attrs, "gen_ai.system", call.system)
          /\ MayRead(attrs, "gen_ai.provider.name", call.system)
          /\ MayRead(attrs, "gen_ai.system", call.system)
          /\ Reads(attrs, "gen_ai.request.model", call.model)
          /\ Reads(attrs, "gen_ai.response.model", call.answered_by)
        BY <1>2, <1>3, SaidIsRead
    <2>2. Reads(attrs, "gen_ai.tool.name", IF IsTool(call) THEN "search" ELSE "")
        BY <1>2, <1>3, SaidIsRead
    <2> QED BY <2>1, <2>2, TextOfOne, TextOfTwo
<1>6. FinishReason(attrs) = call.finish
    BY <1>2, <1>3, TextSaid DEF FinishReason
<1>7. kind = TraceloopKind(call) /\ named = ""
    BY <1>2, <1>3, TextSaid
<1>8. operation = call.operation /\ (kind = "agent" <=> call.operation = "invoke_agent")
    <2> HIDE DEF kind, named
    <2>1. operation = Translate(TraceloopKinds, TraceloopKind(call))
        BY <1>7
    <2> HIDE DEF operation
    <2>2. kind = "agent" <=> TraceloopKind(call) = "agent"
        BY <1>7
    <2> QED BY <1>4, <2>1, <2>2, TraceloopOperation
<1>9. /\ {"gen_ai_system", "gen_ai_operation", "gen_ai_request_model", "gen_ai_response_model",
          "tool_name"} \subseteq DOMAIN texts
      /\ texts["gen_ai_system"] = call.system
      /\ texts["gen_ai_request_model"] = call.model
      /\ texts["gen_ai_response_model"] = call.answered_by
      /\ texts["tool_name"] = IF IsTool(call) THEN "search" ELSE ""
    <2> DEFINE named2 == [run_name |-> <<"halley.run_name", "traceloop.entity.name">>]
    <2>1. DOMAIN named2 = {"run_name"} /\ table = (named2 @@ GenAiTexts) @@ HalleyTexts
        OBVIOUS
    <2> HIDE DEF named2
    <2>2. /\ DOMAIN (named2 @@ GenAiTexts) = DOMAIN named2 \cup DOMAIN GenAiTexts
          /\ \A x \in DOMAIN GenAiTexts \ DOMAIN named2 : (named2 @@ GenAiTexts)[x] = GenAiTexts[x]
        BY Overlay
    <2>3. "run_name" \notin DOMAIN GenAiTexts
        BY DEF GenAiTexts
    <2>4. /\ DOMAIN table = DOMAIN (named2 @@ GenAiTexts) \cup DOMAIN HalleyTexts
          /\ \A x \in DOMAIN (named2 @@ GenAiTexts) : table[x] = (named2 @@ GenAiTexts)[x]
        BY Overlay DEF named2
    <2> HIDE DEF table
    <2>5. \A f \in DOMAIN GenAiTexts : f \in DOMAIN table /\ table[f] = GenAiTexts[f]
        BY <2>1, <2>2, <2>3, <2>4
    <2> QED BY <1>5, <2>5, GenAiColumns
<1>10. /\ DOMAIN computed = {"gen_ai_operation", "gen_ai_response_finish_reason"}
       /\ computed["gen_ai_operation"] = call.operation
       /\ computed["gen_ai_response_finish_reason"] = call.finish
    BY <1>6, <1>8
<1> HIDE DEF texts, computed
<1>11. /\ DOMAIN all = DOMAIN computed \cup DOMAIN texts
       /\ \A x \in DOMAIN computed : all[x] = computed[x]
       /\ \A x \in DOMAIN texts \ DOMAIN computed : all[x] = texts[x]
    BY Overlay
<1> HIDE DEF all
<1>12. \A f \in Carried("openllmetry") :
            f \in DOMAIN all /\ all[f] = TextsOf("openllmetry", call)[f]
    <2>1. /\ {"gen_ai_system", "gen_ai_operation", "gen_ai_request_model", "gen_ai_response_model",
              "gen_ai_response_finish_reason", "tool_name"} \subseteq DOMAIN all
          /\ all["gen_ai_system"] = call.system /\ all["gen_ai_operation"] = call.operation
          /\ all["gen_ai_request_model"] = call.model
          /\ all["gen_ai_response_model"] = call.answered_by
          /\ all["gen_ai_response_finish_reason"] = call.finish
          /\ all["tool_name"] = IF IsTool(call) THEN "search" ELSE ""
        BY <1>9, <1>10, <1>11
    <2> QED BY <2>1, CarriedAre
<1>13. tokens = [gen_ai_usage_input_tokens |-> call.input, gen_ai_usage_output_tokens |-> call.output]
    BY <1>2, <1>4, GenAiTokenCounts
<1>14. /\ messages.input_body = ParsedAttr(attrs, FirstPresent(attrs, inputs))
       /\ messages.output_body = ParsedAttr(attrs, FirstPresent(attrs, outputs))
    BY <1>a, SilentBody
<1>15. /\ messages.input_body = IF IsTool(call) THEN None ELSE BodyOf(call.prompt)
       /\ messages.output_body = IF IsTool(call) THEN None ELSE BodyOf(call.answer)
    <2>1. CASE IsTool(call)
        <3>1. /\ FirstPresent(attrs, inputs) = "gen_ai.input.messages"
              /\ FirstPresent(attrs, outputs) = "gen_ai.output.messages"
            BY <1>3, <2>1, FirstOfTwo
        <3> QED BY <1>3, <1>14, <2>1, <3>1, BodySaid
    <2>2. CASE ~IsTool(call)
        <3>1. /\ FirstPresent(attrs, inputs) = "traceloop.entity.input"
              /\ FirstPresent(attrs, outputs) = "traceloop.entity.output"
            BY <1>2, <1>3, <2>2, FirstOfTwo DEF Says
        <3> QED BY <1>2, <1>4, <1>14, <2>2, <3>1, BodySaid
    <2> QED BY <2>1, <2>2
<1>16. /\ DOMAIN GenAiToolBody(attrs) = {"tool_input", "tool_output"}
       /\ GenAiToolBody(attrs).tool_input = IF IsTool(call) THEN BodyOf(call.prompt) ELSE None
       /\ GenAiToolBody(attrs).tool_output = IF IsTool(call) THEN BodyOf(call.answer) ELSE None
    BY <1>2, <1>3, <1>4, GenAiToolBodies
<1>17. DOMAIN messages = {"input_body", "output_body"}
    OBVIOUS
<1> HIDE DEF messages
<1>18. body = BodiesOf("openllmetry", call)
    <2>1. /\ body = [f \in BodyFields |-> body[f]]
          /\ body.input_body = messages.input_body /\ body.output_body = messages.output_body
          /\ body.tool_input = GenAiToolBody(attrs).tool_input
          /\ body.tool_output = GenAiToolBody(attrs).tool_output
        BY <1>16, <1>17 DEF @@, BodyFields
    <2> HIDE DEF body
    <2> QED BY <1>15, <1>16, <2>1, BodiesAre
<1>19. root <=> call.operation = "invoke_agent"
    BY <1>8
<1>20. ~RunKindIsAgent(attrs)
    BY <1>3, NoRunKind
<1> HIDE DEF body, tokens, root, kept, row
<1>21. /\ row.dialect = "openllmetry" /\ row.tokens = tokens /\ row.body = body
       /\ row.is_run_root = (root \/ RunKindIsAgent(attrs))
       /\ \A f \in DOMAIN all : row.texts[f] = all[f]
       /\ row.attributes = kept /\ DOMAIN row = Callers \cup {"project", "dialect"}
    BY <1>1, <1>a, OtlpColumns
<1>22. Reported(row, "openllmetry", call)
    BY <1>12, <1>13, <1>18, <1>19, <1>20, <1>21 DEF Reported
<1>23. kept = Unconsumed(span.attributes, Consumed("openllmetry", span.attributes))
    BY <1>a DEF kept, Consumed
<1> QED BY <1>21, <1>22, <1>23 DEF KeepsTheRest, row
-----------------------------------------------------------------------------
(* OpenInference. *)

\* The keys that an OpenInference span for a call may have.
OpenInferenceNames(call) ==
    {"llm.system", "llm.model_name", "llm.token_count.prompt", "llm.token_count.completion",
     "llm.token_count.total", "llm.invocation_parameters", "openinference.span.kind",
     "output.value", "output.mime_type", "gen_ai.provider.name", "gen_ai.request.model",
     "gen_ai.usage.input_tokens", "gen_ai.usage.output_tokens"}
    \cup IF IsTool(call) THEN {"tool.name", "tool.parameters"}
         ELSE {"input.value", "input.mime_type"}

\* The kind that it says the call is of.
OpenInferenceKind(call) ==
    IF IsTool(call) THEN "TOOL" ELSE IF call.operation = "chat" THEN "LLM" ELSE "AGENT"

\* What the attributes of an OpenInference span for a call say.
LEMMA OpenInferenceSaid ==
    ASSUME NEW attrs, NEW call, Tells(attrs, "openinference", call)
    PROVE  /\ Says(attrs, "llm.system", Str(call.system))
           /\ Says(attrs, "llm.model_name", Str(call.model))
           /\ Says(attrs, "llm.token_count.prompt", Num(call.input))
           /\ Says(attrs, "llm.token_count.completion", Num(call.output))
           /\ Says(attrs, "openinference.span.kind", Str(OpenInferenceKind(call)))
           /\ Says(attrs, "output.value", Str(call.answer))
           /\ Says(attrs, "output.mime_type", Str(Mime(call.answer)))
           /\ IsTool(call) =>
                /\ Says(attrs, "tool.name", Str("search"))
                /\ Says(attrs, "tool.parameters", Str(call.prompt))
           /\ ~IsTool(call) =>
                /\ Says(attrs, "input.value", Str(call.prompt))
                /\ Says(attrs, "input.mime_type", Str(Mime(call.prompt)))
           /\ \A key \in AdapterKeys : key \notin OpenInferenceNames(call) => ~Has(attrs, key)
<1>1. AttributesIn("openinference", call) = OpenInferenceAttributes(call)
    BY DEF AttributesIn
<1>2. \A kv \in OpenInferenceAttributes(call) \cup GenAiAttributes(call) :
            kv.key \in OpenInferenceNames(call)
    BY DEF OpenInferenceAttributes, GenAiAttributes, OpenInferenceNames, KV
<1>3. \A key \in AdapterKeys : key \notin OpenInferenceNames(call) => ~Has(attrs, key)
    BY <1>1, <1>2, UntoldBut
<1>4. \A key, value : KV(key, value) \in OpenInferenceAttributes(call) => Says(attrs, key, value)
    BY <1>1, Told
<1>5. OpenInferenceKind(call) =
        CASE IsTool(call) -> "TOOL" [] call.operation = "chat" -> "LLM" [] OTHER -> "AGENT"
    BY DEF OpenInferenceKind, IsTool
<1>6. /\ KV("llm.system", Str(call.system)) \in OpenInferenceAttributes(call)
      /\ KV("llm.model_name", Str(call.model)) \in OpenInferenceAttributes(call)
      /\ KV("llm.token_count.prompt", Num(call.input)) \in OpenInferenceAttributes(call)
      /\ KV("llm.token_count.completion", Num(call.output)) \in OpenInferenceAttributes(call)
      /\ KV("openinference.span.kind", Str(OpenInferenceKind(call)))
            \in OpenInferenceAttributes(call)
      /\ KV("output.value", Str(call.answer)) \in OpenInferenceAttributes(call)
      /\ KV("output.mime_type", Str(Mime(call.answer))) \in OpenInferenceAttributes(call)
    BY <1>5 DEF OpenInferenceAttributes
<1>7. IsTool(call) =>
        /\ KV("tool.name", Str("search")) \in OpenInferenceAttributes(call)
        /\ KV("tool.parameters", Str(call.prompt)) \in OpenInferenceAttributes(call)
    BY DEF OpenInferenceAttributes
<1>8. ~IsTool(call) =>
        /\ KV("input.value", Str(call.prompt)) \in OpenInferenceAttributes(call)
        /\ KV("input.mime_type", Str(Mime(call.prompt))) \in OpenInferenceAttributes(call)
    BY DEF OpenInferenceAttributes
<1> QED BY <1>3, <1>4, <1>6, <1>7, <1>8

\* The kind of a span is translated to the operation.
LEMMA OpenInferenceOperation ==
    ASSUME NEW call, call.operation \in {"chat", "execute_tool", "invoke_agent"}
    PROVE  Translate(OpenInferenceKinds, OpenInferenceKind(call)) = call.operation
    BY DEF Translate, OpenInferenceKinds, OpenInferenceKind, IsTool

\* A value with the type of its text is a body.
LEMMA MimeSaid ==
    ASSUME NEW attrs, NEW value, NEW mime
    PROVE  /\ \A s \in STRING : Says(attrs, value, Str(s)) /\ Says(attrs, mime, Str(Mime(s)))
                    => MimeBody(attrs, value, mime) = BodyOf(s)
           /\ ~Has(attrs, value) => MimeBody(attrs, value, mime) = None
<1>1. ASSUME NEW s \in STRING, Says(attrs, value, Str(s)), Says(attrs, mime, Str(Mime(s)))
      PROVE  MimeBody(attrs, value, mime) = BodyOf(s)
    <2>1. Has(attrs, value) /\ IsString(attrs[value]) /\ attrs[value].string = s
        BY <1>1 DEF Says, Str, IsString
    <2>2. StrAttr(attrs, mime) = Mime(s)
        BY <1>1, TextSaid
    <2>3. JsonOrWrapped(attrs, value) = BodyOf(s)
        BY <1>1, BodySaid
    <2>4. Mime(s) # "application/json" => BodyOf(s) = [text |-> s]
        BY DEF Mime, BodyOf
    <2> QED BY <2>1, <2>2, <2>3, <2>4 DEF MimeBody
<1> QED BY <1>1 DEF MimeBody

\* The row of an OpenInference span reports its call.
LEMMA OpenInferenceRow ==
    ASSUME NEW span, NEW call \in CallsIn("openinference"),
           Tells(span.attributes, "openinference", call)
    PROVE  /\ Reported(OpenInference(span), "openinference", call)
           /\ KeepsTheRest(OpenInference(span), span, "openinference")
<1> DEFINE attrs == span.attributes
           kind == StrAttr(attrs, "openinference.span.kind")
           operation == Translate(OpenInferenceKinds, kind)
           own == [gen_ai_system         |-> <<"llm.system">>,
                   gen_ai_request_model  |-> <<"llm.model_name">>,
                   gen_ai_response_model |-> <<"llm.model_name">>,
                   tool_name             |-> <<"tool.name">>]
           table == own @@ HalleyTexts
           texts == Texts(attrs, table)
           computed == [gen_ai_operation |-> operation, gen_ai_response_finish_reason |-> ""]
           all == computed @@ texts
           tokens == Tokens(attrs, [gen_ai_usage_input_tokens  |-> <<"llm.token_count.prompt">>,
                                    gen_ai_usage_output_tokens |-> <<"llm.token_count.completion">>])
           body == [input_body  |-> MimeBody(attrs, "input.value", "input.mime_type"),
                    output_body |-> MimeBody(attrs, "output.value", "output.mime_type"),
                    tool_input  |-> AnyJson(attrs, "tool.parameters"),
                    tool_output |-> None]
           kept == Unconsumed(attrs, (OpenInferenceKeys \cup HalleyKeys) \ PutBack(attrs))
           root == operation = "invoke_agent"
           row == OpenInference(span)
<1>1. row = FromOtlp(span, "openinference", all, tokens, body, kept, root)
    BY DEF OpenInference
<1>a. attrs = span.attributes
    OBVIOUS
<1>b. Tells(attrs, "openinference", call)
    OBVIOUS
<1> HIDE DEF attrs
<1>2. /\ Says(attrs, "llm.system", Str(call.system))
      /\ Says(attrs, "llm.model_name", Str(call.model))
      /\ Says(attrs, "llm.token_count.prompt", Num(call.input))
      /\ Says(attrs, "llm.token_count.completion", Num(call.output))
      /\ Says(attrs, "openinference.span.kind", Str(OpenInferenceKind(call)))
      /\ Says(attrs, "output.value", Str(call.answer))
      /\ Says(attrs, "output.mime_type", Str(Mime(call.answer)))
      /\ IsTool(call) =>
           /\ Says(attrs, "tool.name", Str("search"))
           /\ Says(attrs, "tool.parameters", Str(call.prompt))
      /\ ~IsTool(call) =>
           /\ Says(attrs, "input.value", Str(call.prompt))
           /\ Says(attrs, "input.mime_type", Str(Mime(call.prompt)))
    BY <1>b, OpenInferenceSaid
<1>3. /\ ~Has(attrs, "halley.run.kind")
      /\ IsTool(call) => ~Has(attrs, "input.value")
      /\ ~IsTool(call) => ~Has(attrs, "tool.name") /\ ~Has(attrs, "tool.parameters")
    <2>1. \A key \in AdapterKeys : key \notin OpenInferenceNames(call) => ~Has(attrs, key)
        BY <1>b, OpenInferenceSaid
    <2> QED BY <2>1 DEF AdapterKeys, OpenInferenceKeys, OpenInferenceNames
<1>4. /\ call.input \in 0 .. TwoTo32 - 1 /\ call.output \in 0 .. TwoTo32 - 1
      /\ call.prompt \in STRING /\ call.answer \in STRING
      /\ IsTool(call) => call.prompt \in JsonText
      /\ call.operation \in {"chat", "execute_tool", "invoke_agent"}
    BY CallFields
<1>5. /\ Preferred(attrs, <<"llm.system">>) = call.system
      /\ Preferred(attrs, <<"llm.model_name">>) = call.model
      /\ Preferred(attrs, <<"tool.name">>) = IF IsTool(call) THEN "search" ELSE ""
    <2>1. /\ Reads(attrs, "llm.system", call.system) /\ Reads(attrs, "llm.model_name", call.model)
          /\ Reads(attrs, "tool.name", IF IsTool(call) THEN "search" ELSE "")
        BY <1>2, <1>3, SaidIsRead
    <2> QED BY <2>1, TextOfOne
<1>6. operation = call.operation
    <2>1. kind = OpenInferenceKind(call)
        BY <1>2, TextSaid
    <2> HIDE DEF kind
    <2> QED BY <1>4, <2>1, OpenInferenceOperation
<1>7. /\ {"gen_ai_system", "gen_ai_request_model", "tool_name"} \subseteq DOMAIN texts
      /\ texts["gen_ai_system"] = call.system
      /\ texts["gen_ai_request_model"] = call.model
      /\ texts["tool_name"] = IF IsTool(call) THEN "search" ELSE ""
    <2>1. /\ {"gen_ai_system", "gen_ai_request_model", "tool_name"} \subseteq DOMAIN own
          /\ own["gen_ai_system"] = <<"llm.system">>
          /\ own["gen_ai_request_model"] = <<"llm.model_name">>
          /\ own["tool_name"] = <<"tool.name">>
        OBVIOUS
    <2> HIDE DEF own
    <2>2. DOMAIN own \subseteq DOMAIN table /\ \A x \in DOMAIN own : table[x] = own[x]
        BY Overlay
    <2> HIDE DEF table
    <2>3. \A f \in DOMAIN table : f \in DOMAIN texts /\ texts[f] = Preferred(attrs, table[f])
        BY TextColumn
    <2> HIDE DEF texts
    <2> QED BY <1>5, <2>1, <2>2, <2>3
<1>8. /\ DOMAIN computed = {"gen_ai_operation", "gen_ai_response_finish_reason"}
      /\ computed["gen_ai_operation"] = call.operation
    BY <1>6
<1> HIDE DEF texts, computed
<1>9. /\ DOMAIN all = DOMAIN computed \cup DOMAIN texts
      /\ \A x \in DOMAIN computed : all[x] = computed[x]
      /\ \A x \in DOMAIN texts \ DOMAIN computed : all[x] = texts[x]
    BY Overlay
<1> HIDE DEF all
<1>10. \A f \in Carried("openinference") :
            f \in DOMAIN all /\ all[f] = TextsOf("openinference", call)[f]
    <2>1. Carried("openinference")
            = {"gen_ai_system", "gen_ai_operation", "gen_ai_request_model", "tool_name"}
        BY DEF Carried
    <2>2. LET t == TextsOf("openinference", call)
          IN  /\ t["gen_ai_system"] = call.system /\ t["gen_ai_operation"] = call.operation
              /\ t["gen_ai_request_model"] = call.model
              /\ t["tool_name"] = IF IsTool(call) THEN "search" ELSE ""
        BY DEF TextsOf
    <2> QED BY <1>7, <1>8, <1>9, <2>1, <2>2
<1>11. tokens = [gen_ai_usage_input_tokens |-> call.input, gen_ai_usage_output_tokens |-> call.output]
    <2>1. /\ U32Attr(attrs, <<"llm.token_count.prompt">>) = call.input
          /\ U32Attr(attrs, <<"llm.token_count.completion">>) = call.output
        BY <1>2, <1>4, NumberOfOne
    <2> QED BY <2>1 DEF Tokens, TokenFields
<1>12. body = BodiesOf("openinference", call)
    <2>1. /\ body.input_body = IF IsTool(call) THEN None ELSE BodyOf(call.prompt)
          /\ body.output_body = BodyOf(call.answer)
        BY <1>2, <1>3, <1>4, MimeSaid
    <2>2. body.tool_input = IF IsTool(call) THEN BodyOf(call.prompt) ELSE None
        BY <1>2, <1>3, <1>4, BodySaid
    <2>3. body.tool_output = None /\ body = [f \in BodyFields |-> body[f]]
        BY DEF BodyFields
    <2> HIDE DEF body
    <2> QED BY <2>1, <2>2, <2>3, BodiesAre
<1>13. root <=> call.operation = "invoke_agent"
    BY <1>6
<1>14. ~RunKindIsAgent(attrs)
    BY <1>3, NoRunKind
<1> HIDE DEF body, tokens, root, kept, row
<1>15. /\ row.dialect = "openinference" /\ row.tokens = tokens /\ row.body = body
       /\ row.is_run_root = (root \/ RunKindIsAgent(attrs))
       /\ \A f \in DOMAIN all : row.texts[f] = all[f]
       /\ row.attributes = kept /\ DOMAIN row = Callers \cup {"project", "dialect"}
    BY <1>1, <1>a, OtlpColumns
<1>16. Reported(row, "openinference", call)
    BY <1>10, <1>11, <1>12, <1>13, <1>14, <1>15 DEF Reported
<1>17. kept = Unconsumed(span.attributes, Consumed("openinference", span.attributes))
    BY <1>a DEF kept, Consumed
<1> QED BY <1>15, <1>16, <1>17 DEF KeepsTheRest, row
-----------------------------------------------------------------------------
(* Vercel's AI SDK. *)

\* The keys that a span of Vercel's SDK for a call may have.
VercelNames(call) ==
    {"ai.model.provider", "ai.model.id", "ai.response.model", "ai.usage.promptTokens",
     "ai.usage.completionTokens", "ai.response.finishReason", "ai.operationId",
     "gen_ai.provider.name", "gen_ai.request.model", "gen_ai.usage.input_tokens",
     "gen_ai.usage.output_tokens"}
    \cup IF IsTool(call)
         THEN {"ai.toolCall.name", "ai.toolCall.id", "ai.toolCall.args", "ai.toolCall.result"}
         ELSE {"ai.prompt", "ai.response.text"}

\* The operation id that it has.
VercelId(call) ==
    IF IsTool(call) THEN "ai.toolCall"
    ELSE IF call.operation = "chat" THEN "ai.generateText" ELSE "ai.agent.run"

\* What the attributes of a span of Vercel's SDK for a call say.
LEMMA VercelSaid ==
    ASSUME NEW attrs, NEW call, Tells(attrs, "vercel-ai", call)
    PROVE  /\ Says(attrs, "ai.model.provider", Str(call.system))
           /\ Says(attrs, "ai.model.id", Str(call.model))
           /\ Says(attrs, "ai.response.model", Str(call.answered_by))
           /\ Says(attrs, "ai.response.finishReason", Str(call.finish))
           /\ Says(attrs, "ai.usage.promptTokens", Num(call.input))
           /\ Says(attrs, "ai.usage.completionTokens", Num(call.output))
           /\ Says(attrs, "ai.operationId", Str(VercelId(call)))
           /\ IsTool(call) =>
                /\ Says(attrs, "ai.toolCall.name", Str("search"))
                /\ Says(attrs, "ai.toolCall.args", Str(call.prompt))
                /\ Says(attrs, "ai.toolCall.result", Str(call.answer))
           /\ ~IsTool(call) =>
                /\ Says(attrs, "ai.prompt", Str(call.prompt))
                /\ Says(attrs, "ai.response.text", Str(call.answer))
           /\ Has(attrs, "gen_ai.provider.name") =>
                    attrs["gen_ai.provider.name"] = Str(call.system)
           /\ Has(attrs, "gen_ai.request.model") =>
                    attrs["gen_ai.request.model"] = Str(call.model)
           /\ Has(attrs, "gen_ai.usage.input_tokens") =>
                    attrs["gen_ai.usage.input_tokens"] = Num(call.input)
           /\ Has(attrs, "gen_ai.usage.output_tokens") =>
                    attrs["gen_ai.usage.output_tokens"] = Num(call.output)
           /\ \A key \in AdapterKeys : key \notin VercelNames(call) => ~Has(attrs, key)
<1>1. AttributesIn("vercel-ai", call) = VercelAttributes(call)
    BY DEF AttributesIn
<1>2. \A kv \in VercelAttributes(call) \cup GenAiAttributes(call) : kv.key \in VercelNames(call)
    BY DEF VercelAttributes, GenAiAttributes, VercelNames, KV
<1>3. \A key \in AdapterKeys : key \notin VercelNames(call) => ~Has(attrs, key)
    BY <1>1, <1>2, UntoldBut
<1>4. \A key, value : KV(key, value) \in VercelAttributes(call) => Says(attrs, key, value)
    BY <1>1, Told
<1>5. VercelId(call) = CASE IsTool(call) -> "ai.toolCall"
            [] call.operation = "chat" -> "ai.generateText" [] OTHER -> "ai.agent.run"
    BY DEF VercelId, IsTool
<1>6. /\ KV("ai.model.provider", Str(call.system)) \in VercelAttributes(call)
      /\ KV("ai.model.id", Str(call.model)) \in VercelAttributes(call)
      /\ KV("ai.response.model", Str(call.answered_by)) \in VercelAttributes(call)
      /\ KV("ai.response.finishReason", Str(call.finish)) \in VercelAttributes(call)
      /\ KV("ai.usage.promptTokens", Num(call.input)) \in VercelAttributes(call)
      /\ KV("ai.usage.completionTokens", Num(call.output)) \in VercelAttributes(call)
      /\ KV("ai.operationId", Str(VercelId(call))) \in VercelAttributes(call)
    BY <1>5 DEF VercelAttributes
<1>7. IsTool(call) =>
        /\ KV("ai.toolCall.name", Str("search")) \in VercelAttributes(call)
        /\ KV("ai.toolCall.args", Str(call.prompt)) \in VercelAttributes(call)
        /\ KV("ai.toolCall.result", Str(call.answer)) \in VercelAttributes(call)
    BY DEF VercelAttributes
<1>8. ~IsTool(call) =>
        /\ KV("ai.prompt", Str(call.prompt)) \in VercelAttributes(call)
        /\ KV("ai.response.text", Str(call.answer)) \in VercelAttributes(call)
    BY DEF VercelAttributes
<1>9. /\ Has(attrs, "gen_ai.provider.name") =>
               attrs["gen_ai.provider.name"] = Str(call.system)
      /\ Has(attrs, "gen_ai.request.model") =>
               attrs["gen_ai.request.model"] = Str(call.model)
      /\ Has(attrs, "gen_ai.usage.input_tokens") =>
               attrs["gen_ai.usage.input_tokens"] = Num(call.input)
      /\ Has(attrs, "gen_ai.usage.output_tokens") =>
               attrs["gen_ai.usage.output_tokens"] = Num(call.output)
    <2>1. \A kv \in VercelAttributes(call) :
            kv.key \notin {"gen_ai.provider.name", "gen_ai.request.model",
                           "gen_ai.usage.input_tokens", "gen_ai.usage.output_tokens"}
        BY DEF VercelAttributes, KV
    <2>2. \A kv \in GenAiAttributes(call) :
            /\ kv.key = "gen_ai.provider.name" => kv.value = Str(call.system)
            /\ kv.key = "gen_ai.request.model" => kv.value = Str(call.model)
            /\ kv.key = "gen_ai.usage.input_tokens" => kv.value = Num(call.input)
            /\ kv.key = "gen_ai.usage.output_tokens" => kv.value = Num(call.output)
        BY DEF GenAiAttributes, KV
    <2>3. {"gen_ai.provider.name", "gen_ai.request.model", "gen_ai.usage.input_tokens",
           "gen_ai.usage.output_tokens"} \subseteq AdapterKeys
        BY DEF AdapterKeys, GenAiKeys
    <2>4. \A key \in AdapterKeys : \A value :
            (\A kv \in VercelAttributes(call) \cup GenAiAttributes(call) :
                kv.key = key => kv.value = value)
            => (Has(attrs, key) => attrs[key] = value)
        BY <1>1, PerhapsTold
    <2> QED BY <2>1, <2>2, <2>3, <2>4
<1> QED BY <1>3, <1>4, <1>6, <1>7, <1>8, <1>9

\* The operation id is translated to the operation, but for an agent's.
LEMMA VercelOperation ==
    ASSUME NEW call, call.operation \in {"chat", "execute_tool", "invoke_agent"}
    PROVE  /\ Translate(VercelOperations, VercelId(call))
                = IF call.operation = "invoke_agent" THEN "ai.agent.run" ELSE call.operation
           /\ VercelId(call) \in VercelAgentIds <=> call.operation = "invoke_agent"
<1> DEFINE chats == [id \in {"ai.generateText", "ai.generateText.doGenerate", "ai.streamText",
                             "ai.streamText.doStream"} |-> "chat"]
           embeds == [id \in {"ai.embed", "ai.embed.doEmbed", "ai.embedMany",
                              "ai.embedMany.doEmbed"} |-> "embeddings"]
           calls == "ai.toolCall" :> "execute_tool"
<1>1. /\ DOMAIN chats = {"ai.generateText", "ai.generateText.doGenerate", "ai.streamText",
                         "ai.streamText.doStream"}
      /\ chats["ai.generateText"] = "chat"
    OBVIOUS
<1>2. DOMAIN embeds = {"ai.embed", "ai.embed.doEmbed", "ai.embedMany", "ai.embedMany.doEmbed"}
    OBVIOUS
<1>3. DOMAIN calls = {"ai.toolCall"} /\ calls["ai.toolCall"] = "execute_tool"
    BY DEF :>
<1>4. VercelOperations = (chats @@ embeds) @@ calls
    BY DEF VercelOperations
<1> HIDE DEF chats, embeds, calls
<1>5. /\ DOMAIN (chats @@ embeds) = DOMAIN chats \cup DOMAIN embeds
      /\ \A x \in DOMAIN chats : (chats @@ embeds)[x] = chats[x]
    BY Overlay
<1>6. /\ DOMAIN ((chats @@ embeds) @@ calls) = DOMAIN (chats @@ embeds) \cup DOMAIN calls
      /\ \A x \in DOMAIN (chats @@ embeds) : ((chats @@ embeds) @@ calls)[x] = (chats @@ embeds)[x]
      /\ \A x \in DOMAIN calls \ DOMAIN (chats @@ embeds) :
            ((chats @@ embeds) @@ calls)[x] = calls[x]
    BY Overlay
<1>7. /\ "ai.generateText" \in DOMAIN VercelOperations
      /\ VercelOperations["ai.generateText"] = "chat"
      /\ "ai.toolCall" \in DOMAIN VercelOperations
      /\ VercelOperations["ai.toolCall"] = "execute_tool"
      /\ "ai.agent.run" \notin DOMAIN VercelOperations
    BY <1>1, <1>2, <1>3, <1>4, <1>5, <1>6
<1> QED BY <1>7 DEF Translate, VercelId, IsTool, VercelAgentIds

\* The keys of the adapter for the texts.
VercelTable ==
    [gen_ai_system         |-> <<"ai.model.provider", "gen_ai.provider.name", "gen_ai.system">>,
     gen_ai_request_model  |-> <<"ai.model.id", "gen_ai.request.model">>,
     gen_ai_response_model |-> <<"ai.response.model", "gen_ai.response.model">>,
     tool_name             |-> <<"ai.toolCall.name">>]

\* The row of a span of Vercel's SDK reports its call.
LEMMA VercelRow ==
    ASSUME NEW span, NEW call \in CallsIn("vercel-ai"),
           Tells(span.attributes, "vercel-ai", call)
    PROVE  /\ Reported(VercelAi(span), "vercel-ai", call)
           /\ KeepsTheRest(VercelAi(span), span, "vercel-ai")
<1> DEFINE attrs == span.attributes
           id == StrAttr(attrs, "ai.operationId")
           finish == StrAttr(attrs, "ai.response.finishReason")
           own == VercelTable
           table == own @@ HalleyTexts
           texts == Texts(attrs, table)
           computed == [gen_ai_operation |-> Translate(VercelOperations, id),
                        gen_ai_response_finish_reason |->
                            IF finish = "" THEN FinishReason(attrs) ELSE finish]
           all == computed @@ texts
           tokens == Tokens(attrs, [gen_ai_usage_input_tokens  |->
                            <<"ai.usage.promptTokens", "gen_ai.usage.input_tokens">>,
                         gen_ai_usage_output_tokens |->
                            <<"ai.usage.completionTokens", "gen_ai.usage.output_tokens">>])
           inputs == <<"ai.prompt", "ai.prompt.messages">>
           outputs == <<"ai.response.text", "ai.response.object">>
           body == [input_body  |-> JsonOrWrapped(attrs, FirstPresent(attrs, inputs)),
                    output_body |-> JsonOrWrapped(attrs, FirstPresent(attrs, outputs)),
                    tool_input  |-> AnyJson(attrs, "ai.toolCall.args"),
                    tool_output |-> AnyJson(attrs, "ai.toolCall.result")]
           kept == Unconsumed(attrs, VercelKeys \cup HalleyKeys)
           root == id \in VercelAgentIds
           row == VercelAi(span)
<1>1. row = FromOtlp(span, "vercel-ai", all, tokens, body, kept, root)
    BY DEF VercelAi, VercelTable
<1>a. attrs = span.attributes
    OBVIOUS
<1>b. Tells(attrs, "vercel-ai", call)
    OBVIOUS
<1> HIDE DEF attrs
<1>2. /\ Says(attrs, "ai.model.provider", Str(call.system))
      /\ Says(attrs, "ai.model.id", Str(call.model))
      /\ Says(attrs, "ai.response.model", Str(call.answered_by))
      /\ Says(attrs, "ai.response.finishReason", Str(call.finish))
      /\ Says(attrs, "ai.usage.promptTokens", Num(call.input))
      /\ Says(attrs, "ai.usage.completionTokens", Num(call.output))
      /\ Says(attrs, "ai.operationId", Str(VercelId(call)))
      /\ IsTool(call) =>
           /\ Says(attrs, "ai.toolCall.name", Str("search"))
           /\ Says(attrs, "ai.toolCall.args", Str(call.prompt))
           /\ Says(attrs, "ai.toolCall.result", Str(call.answer))
      /\ ~IsTool(call) =>
           /\ Says(attrs, "ai.prompt", Str(call.prompt))
           /\ Says(attrs, "ai.response.text", Str(call.answer))
      /\ Has(attrs, "gen_ai.provider.name") =>
               attrs["gen_ai.provider.name"] = Str(call.system)
      /\ Has(attrs, "gen_ai.request.model") =>
               attrs["gen_ai.request.model"] = Str(call.model)
      /\ Has(attrs, "gen_ai.usage.input_tokens") =>
               attrs["gen_ai.usage.input_tokens"] = Num(call.input)
      /\ Has(attrs, "gen_ai.usage.output_tokens") =>
               attrs["gen_ai.usage.output_tokens"] = Num(call.output)
    BY <1>b, VercelSaid
<1>3. /\ ~Has(attrs, "gen_ai.system") /\ ~Has(attrs, "gen_ai.response.model")
      /\ ~Has(attrs, "gen_ai.response.finish_reasons")
      /\ ~Has(attrs, "gen_ai.response.finish_reason")
      /\ ~Has(attrs, "halley.run.kind")
      /\ ~Has(attrs, "ai.prompt.messages") /\ ~Has(attrs, "ai.response.object")
      /\ IsTool(call) => ~Has(attrs, "ai.prompt") /\ ~Has(attrs, "ai.response.text")
      /\ ~IsTool(call) => /\ ~Has(attrs, "ai.toolCall.name") /\ ~Has(attrs, "ai.toolCall.args")
                          /\ ~Has(attrs, "ai.toolCall.result")
    <2>1. \A key \in AdapterKeys : key \notin VercelNames(call) => ~Has(attrs, key)
        BY <1>b, VercelSaid
    <2> QED BY <2>1 DEF AdapterKeys, VercelKeys, VercelNames
<1>4. /\ call.input \in 0 .. TwoTo32 - 1 /\ call.output \in 0 .. TwoTo32 - 1
      /\ call.prompt \in STRING /\ call.answer \in STRING
      /\ IsTool(call) => call.prompt \in JsonText /\ call.answer \in JsonText
      /\ call.operation \in {"chat", "execute_tool", "invoke_agent"}
    BY CallFields
<1>5. /\ Preferred(attrs, <<"ai.model.provider", "gen_ai.provider.name", "gen_ai.system">>)
            = call.system
      /\ Preferred(attrs, <<"ai.model.id", "gen_ai.request.model">>) = call.model
      /\ Preferred(attrs, <<"ai.response.model", "gen_ai.response.model">>) = call.answered_by
      /\ Preferred(attrs, <<"ai.toolCall.name">>) = IF IsTool(call) THEN "search" ELSE ""
    <2>1. /\ Reads(attrs, "ai.model.provider", call.system)
          /\ MayRead(attrs, "ai.model.provider", call.system)
          /\ MayRead(attrs, "gen_ai.provider.name", call.system)
          /\ MayRead(attrs, "gen_ai.system", call.system)
        BY <1>2, <1>3, SaidIsRead
    <2>2. /\ Reads(attrs, "ai.model.id", call.model) /\ MayRead(attrs, "ai.model.id", call.model)
          /\ MayRead(attrs, "gen_ai.request.model", call.model)
          /\ Reads(attrs, "ai.response.model", call.answered_by)
          /\ MayRead(attrs, "ai.response.model", call.answered_by)
          /\ MayRead(attrs, "gen_ai.response.model", call.answered_by)
        BY <1>2, <1>3, SaidIsRead
    <2>3. Reads(attrs, "ai.toolCall.name", IF IsTool(call) THEN "search" ELSE "")
        BY <1>2, <1>3, SaidIsRead
    <2>4. Preferred(attrs, <<"ai.model.provider", "gen_ai.provider.name", "gen_ai.system">>)
            = call.system
        BY <2>1, TextOfThree
    <2>5. /\ Preferred(attrs, <<"ai.model.id", "gen_ai.request.model">>) = call.model
          /\ Preferred(attrs, <<"ai.response.model", "gen_ai.response.model">>) = call.answered_by
        BY <2>2, TextOfTwo
    <2>6. Preferred(attrs, <<"ai.toolCall.name">>) = IF IsTool(call) THEN "search" ELSE ""
        BY <2>3, TextOfOne
    <2> QED BY <2>4, <2>5, <2>6
<1>6. /\ id = VercelId(call)
      /\ (IF finish = "" THEN FinishReason(attrs) ELSE finish) = call.finish
    <2>1. id = VercelId(call) /\ finish = call.finish
        BY <1>2, TextSaid
    <2>2. FinishReason(attrs) = ""
        BY <1>3, TextSaid DEF FinishReason
    <2> QED BY <2>1, <2>2
<1>7. /\ {"gen_ai_system", "gen_ai_request_model", "gen_ai_response_model", "tool_name"}
            \subseteq DOMAIN texts
      /\ texts["gen_ai_system"] = call.system
      /\ texts["gen_ai_request_model"] = call.model
      /\ texts["gen_ai_response_model"] = call.answered_by
      /\ texts["tool_name"] = IF IsTool(call) THEN "search" ELSE ""
    <2>1. /\ {"gen_ai_system", "gen_ai_request_model", "gen_ai_response_model", "tool_name"}
                \subseteq DOMAIN own
          /\ own["gen_ai_system"]
                = <<"ai.model.provider", "gen_ai.provider.name", "gen_ai.system">>
          /\ own["gen_ai_request_model"] = <<"ai.model.id", "gen_ai.request.model">>
          /\ own["gen_ai_response_model"] = <<"ai.response.model", "gen_ai.response.model">>
          /\ own["tool_name"] = <<"ai.toolCall.name">>
        BY DEF VercelTable
    <2> HIDE DEF own
    <2>2. DOMAIN own \subseteq DOMAIN table /\ \A x \in DOMAIN own : table[x] = own[x]
        BY Overlay
    <2> HIDE DEF table
    <2>3. \A f \in DOMAIN table : f \in DOMAIN texts /\ texts[f] = Preferred(attrs, table[f])
        BY TextColumn
    <2> HIDE DEF texts
    <2> QED BY <1>5, <2>1, <2>2, <2>3
<1>8. /\ DOMAIN computed = {"gen_ai_operation", "gen_ai_response_finish_reason"}
      /\ computed["gen_ai_operation"]
            = IF call.operation = "invoke_agent" THEN "ai.agent.run" ELSE call.operation
      /\ computed["gen_ai_response_finish_reason"] = call.finish
    <2> HIDE DEF id, finish
    <2>1. Translate(VercelOperations, VercelId(call))
            = IF call.operation = "invoke_agent" THEN "ai.agent.run" ELSE call.operation
        BY <1>4, VercelOperation
    <2>2. id = VercelId(call)
        BY <1>6
    <2> QED BY <1>6, <2>1, <2>2
<1> HIDE DEF texts, computed
<1>9. /\ DOMAIN all = DOMAIN computed \cup DOMAIN texts
      /\ \A x \in DOMAIN computed : all[x] = computed[x]
      /\ \A x \in DOMAIN texts \ DOMAIN computed : all[x] = texts[x]
    BY Overlay
<1> HIDE DEF all
<1>10. \A f \in Carried("vercel-ai") :
            f \in DOMAIN all /\ all[f] = TextsOf("vercel-ai", call)[f]
    <2>1. /\ {"gen_ai_system", "gen_ai_operation", "gen_ai_request_model", "gen_ai_response_model",
              "gen_ai_response_finish_reason", "tool_name"} \subseteq DOMAIN all
          /\ all["gen_ai_system"] = call.system
          /\ all["gen_ai_operation"]
                = IF call.operation = "invoke_agent" THEN "ai.agent.run" ELSE call.operation
          /\ all["gen_ai_request_model"] = call.model
          /\ all["gen_ai_response_model"] = call.answered_by
          /\ all["gen_ai_response_finish_reason"] = call.finish
          /\ all["tool_name"] = IF IsTool(call) THEN "search" ELSE ""
        BY <1>7, <1>8, <1>9
    <2> QED BY <2>1, CarriedAre
<1>11. tokens = [gen_ai_usage_input_tokens |-> call.input, gen_ai_usage_output_tokens |-> call.output]
    <2>1. /\ U32Attr(attrs, <<"ai.usage.promptTokens", "gen_ai.usage.input_tokens">>) = call.input
          /\ U32Attr(attrs, <<"ai.usage.completionTokens", "gen_ai.usage.output_tokens">>)
                = call.output
        BY <1>2, <1>4, NumberOfTwo
    <2> QED BY <2>1 DEF Tokens, TokenFields
<1>12. body = BodiesOf("vercel-ai", call)
    <2>1. /\ body.input_body = IF IsTool(call) THEN None ELSE BodyOf(call.prompt)
          /\ body.output_body = IF IsTool(call) THEN None ELSE BodyOf(call.answer)
        <3>1. FirstPresent(attrs, inputs) = "ai.prompt" /\ FirstPresent(attrs, outputs) = "ai.response.text"
            BY <1>2, <1>3, FirstOfTwo DEF Says
        <3>2. CASE IsTool(call)
            BY <1>3, <3>1, <3>2, BodySaid
        <3>3. CASE ~IsTool(call)
            BY <1>2, <1>4, <3>1, <3>3, BodySaid
        <3> QED BY <3>2, <3>3
    <2>2. /\ body.tool_input = IF IsTool(call) THEN BodyOf(call.prompt) ELSE None
          /\ body.tool_output = IF IsTool(call) THEN BodyOf(call.answer) ELSE None
        BY <1>2, <1>3, <1>4, BodySaid
    <2>3. body = [f \in BodyFields |-> body[f]]
        BY DEF BodyFields
    <2> HIDE DEF body
    <2> QED BY <2>1, <2>2, <2>3, BodiesAre
<1>13. root <=> call.operation = "invoke_agent"
    <2>1. VercelId(call) \in VercelAgentIds <=> call.operation = "invoke_agent"
        BY <1>4, VercelOperation
    <2>2. id = VercelId(call)
        BY <1>6
    <2> HIDE DEF id
    <2> QED BY <2>1, <2>2
<1>14. ~RunKindIsAgent(attrs)
    BY <1>3, NoRunKind
<1> HIDE DEF body, tokens, root, kept, row
<1>15. /\ row.dialect = "vercel-ai" /\ row.tokens = tokens /\ row.body = body
       /\ row.is_run_root = (root \/ RunKindIsAgent(attrs))
       /\ \A f \in DOMAIN all : row.texts[f] = all[f]
       /\ row.attributes = kept /\ DOMAIN row = Callers \cup {"project", "dialect"}
    BY <1>1, <1>a, OtlpColumns
<1>16. Reported(row, "vercel-ai", call)
    BY <1>10, <1>11, <1>12, <1>13, <1>14, <1>15 DEF Reported
<1>17. kept = Unconsumed(span.attributes, Consumed("vercel-ai", span.attributes))
    BY <1>a DEF kept, Consumed
<1> QED BY <1>15, <1>16, <1>17 DEF KeepsTheRest, row
-----------------------------------------------------------------------------
(* The row of an export. *)

\* The dialects of the instrumentations.
Instrumented == {"openllmetry", "openinference", "vercel-ai", "otel-genai"}

\* What each adapter detects a span by.
LEMMA DetectedBy ==
    ASSUME NEW attrs
    PROVE  /\ Detects("halley-raw", attrs) => Has(attrs, "source_dialect")
           /\ Detects("openllmetry", attrs) <=> \E key \in TraceloopNamespace : Has(attrs, key)
           /\ Detects("openinference", attrs) <=>
                    \E key \in {"openinference.span.kind", "llm.model_name"} : Has(attrs, key)
           /\ Detects("vercel-ai", attrs) <=>
                    \E key \in {"ai.operationId", "ai.model.id", "ai.model.provider"} : Has(attrs, key)
           /\ Detects("otel-genai", attrs) <=>
                    \E key \in {"gen_ai.system", "gen_ai.provider.name"} : Has(attrs, key)
<1>1. Detects("halley-raw", attrs) => Has(attrs, "source_dialect")
    <2>1. Detects("halley-raw", attrs) => StrAttr(attrs, "source_dialect") = "halley-raw"
        BY DEF Detects
    <2>2. ~Has(attrs, "source_dialect") => StrAttr(attrs, "source_dialect") = ""
        BY TextSaid
    <2> QED BY <2>1, <2>2
<1>2. /\ Detects("openllmetry", attrs) <=> DOMAIN attrs \cap TraceloopNamespace # {}
      /\ Detects("openinference", attrs) <=>
            DOMAIN attrs \cap {"openinference.span.kind", "llm.model_name"} # {}
      /\ Detects("vercel-ai", attrs) <=>
            DOMAIN attrs \cap {"ai.operationId", "ai.model.id", "ai.model.provider"} # {}
      /\ Detects("otel-genai", attrs) <=>
            DOMAIN attrs \cap {"gen_ai.system", "gen_ai.provider.name"} # {}
    BY DEF Detects
<1>3. \A S : DOMAIN attrs \cap S # {} <=> \E key \in S : Has(attrs, key)
    BY DEF Has
<1> QED BY <1>1, <1>2, <1>3

\* The adapters in their order.
LEMMA InOrderOfPriority ==
    ASSUME NEW span
    PROVE  /\ Priority[1] = "halley-raw" /\ Priority[2] = "openllmetry"
           /\ Priority[3] = "openinference" /\ Priority[4] = "vercel-ai"
           /\ Priority[5] = "otel-genai"
           /\ \A i \in 1 .. 5 : i \in Detecting(span) <=> Detects(Priority[i], span.attributes)
    BY DEF Priority, Detecting

\* A span that reports a call is taken by the adapter of its dialect, whether or
\* not it has gen_ai.* attributes besides.
LEMMA ReportIsDetected ==
    ASSUME NEW span, NEW by \in Instrumented, NEW call, Tells(span.attributes, by, call)
    PROVE  Normalize(span) = Adapt(by, span)
<1> DEFINE attrs == span.attributes
<1>1. CASE by = "openllmetry"
    <2>1. Tells(attrs, "openllmetry", call)
        BY <1>1
    <2> HIDE DEF attrs
    <2>2. /\ Has(attrs, "traceloop.span.kind")
          /\ \A key \in AdapterKeys : key \notin OpenLLMetryNames(call) => ~Has(attrs, key)
        BY <2>1, OpenLLMetrySaid DEF Says
    <2>3. ~Has(attrs, "source_dialect")
        BY <2>2 DEF AdapterKeys, OpenLLMetryNames
    <2>4. ~Detects("halley-raw", attrs) /\ Detects("openllmetry", attrs)
        BY <2>2, <2>3, DetectedBy DEF TraceloopNamespace, TraceloopKeys
    <2>5. 1 \notin Detecting(span) /\ 2 \in Detecting(span)
        BY <2>4, InOrderOfPriority DEF attrs
    <2> QED BY <1>1, <2>5, FirstWins, InOrderOfPriority
<1>2. CASE by = "openinference"
    <2>1. Tells(attrs, "openinference", call)
        BY <1>2
    <2> HIDE DEF attrs
    <2>2. /\ Has(attrs, "llm.model_name")
          /\ \A key \in AdapterKeys : key \notin OpenInferenceNames(call) => ~Has(attrs, key)
        BY <2>1, OpenInferenceSaid DEF Says
    <2>3. \A key \in {"source_dialect"} \cup TraceloopNamespace : ~Has(attrs, key)
        BY <2>2 DEF AdapterKeys, OpenInferenceNames, TraceloopNamespace, TraceloopKeys
    <2>4. /\ ~Detects("halley-raw", attrs) /\ ~Detects("openllmetry", attrs)
          /\ Detects("openinference", attrs)
        BY <2>2, <2>3, DetectedBy
    <2>5. 1 \notin Detecting(span) /\ 2 \notin Detecting(span) /\ 3 \in Detecting(span)
        BY <2>4, InOrderOfPriority DEF attrs
    <2> QED BY <1>2, <2>5, FirstWins, InOrderOfPriority
<1>3. CASE by = "vercel-ai"
    <2>1. Tells(attrs, "vercel-ai", call)
        BY <1>3
    <2> HIDE DEF attrs
    <2>2. /\ Has(attrs, "ai.model.id")
          /\ \A key \in AdapterKeys : key \notin VercelNames(call) => ~Has(attrs, key)
        BY <2>1, VercelSaid DEF Says
    <2>3. \A key \in {"source_dialect", "openinference.span.kind", "llm.model_name"}
                        \cup TraceloopNamespace : ~Has(attrs, key)
        BY <2>2 DEF AdapterKeys, OpenInferenceKeys, VercelNames, TraceloopNamespace, TraceloopKeys
    <2>4. /\ ~Detects("halley-raw", attrs) /\ ~Detects("openllmetry", attrs)
          /\ ~Detects("openinference", attrs) /\ Detects("vercel-ai", attrs)
        BY <2>2, <2>3, DetectedBy
    <2>5. /\ 1 \notin Detecting(span) /\ 2 \notin Detecting(span) /\ 3 \notin Detecting(span)
          /\ 4 \in Detecting(span)
        BY <2>4, InOrderOfPriority DEF attrs
    <2> QED BY <1>3, <2>5, FirstWins, InOrderOfPriority
<1>4. CASE by = "otel-genai"
    <2>1. Tells(attrs, "otel-genai", call)
        BY <1>4
    <2> HIDE DEF attrs
    <2>2. /\ Has(attrs, "gen_ai.provider.name")
          /\ \A key \in AdapterKeys : key \notin OtelNames(call) => ~Has(attrs, key)
        BY <2>1, OtelSaid DEF Says
    <2>3. \A key \in {"source_dialect", "openinference.span.kind", "llm.model_name",
                      "ai.operationId", "ai.model.id", "ai.model.provider"}
                        \cup TraceloopNamespace : ~Has(attrs, key)
        BY <2>2 DEF AdapterKeys, OpenInferenceKeys, VercelKeys, OtelNames, TraceloopNamespace,
            TraceloopKeys
    <2>4. /\ ~Detects("halley-raw", attrs) /\ ~Detects("openllmetry", attrs)
          /\ ~Detects("openinference", attrs) /\ ~Detects("vercel-ai", attrs)
          /\ Detects("otel-genai", attrs)
        BY <2>2, <2>3, DetectedBy
    <2>5. /\ 1 \notin Detecting(span) /\ 2 \notin Detecting(span) /\ 3 \notin Detecting(span)
          /\ 4 \notin Detecting(span) /\ 5 \in Detecting(span)
        BY <2>4, InOrderOfPriority DEF attrs
    <2> QED BY <1>4, <2>5, FirstWins, InOrderOfPriority
<1> QED BY <1>1, <1>2, <1>3, <1>4 DEF Instrumented

\* Whichever dialect reports a call, its adapter does.
LEMMA AdapterReports ==
    ASSUME NEW span, NEW by \in Instrumented, NEW call \in CallsIn(by),
           Tells(span.attributes, by, call), Silent(span)
    PROVE  Reported(Adapt(by, span), by, call) /\ KeepsTheRest(Adapt(by, span), span, by)
<1>1. CASE by = "openllmetry"
    BY <1>1, OpenLLMetryRow DEF Adapt
<1>2. CASE by = "openinference"
    BY <1>2, OpenInferenceRow DEF Adapt
<1>3. CASE by = "vercel-ai"
    BY <1>3, VercelRow DEF Adapt
<1>4. CASE by = "otel-genai"
    BY <1>4, OtelRow DEF Adapt
<1> QED BY <1>1, <1>2, <1>3, <1>4 DEF Instrumented

\* A handler leaves every column but the project alone.
LEMMA ColumnsArePublished ==
    ASSUME NEW canonical, DOMAIN canonical = Callers \cup {"project", "dialect"}, NEW p
    PROVE  \A column \in Callers \cup {"dialect"} :
                Publishable(canonical, p).observation[column] = canonical[column]
<1> DEFINE given == [canonical EXCEPT !.project = p]
           row == [column \in {"run_id"} \cup DOMAIN given |->
                    IF column = "run_id" THEN given.ids["trace_id"] ELSE given[column]]
<1>1. \A column \in Callers \cup {"dialect"} :
            given[column] = canonical[column] /\ column \in DOMAIN given
    BY DEF Callers
<1>2. \A column \in Callers \cup {"dialect"} : row[column] = canonical[column]
    BY <1>1 DEF Callers
<1>3. Publishable(canonical, p).observation = row
    BY DEF Publishable, IntoRows
<1> QED BY <1>2, <1>3

\* What an export is: in the words of ExportAssumption.
Reporting(e) ==
    /\ e.by \in Instrumented /\ e.call \in CallsIn(e.by)
    /\ Tells(AttributeMap(e.span.attributes), e.by, e.call)
    /\ Silent(ProtoSpanToOtlp(e.span))

\* The row of an export reports its call, and keeps what the adapter did not take.
LEMMA ExportRow ==
    ASSUME NEW e, Reporting(e), NEW p
    PROVE  LET row == RowsFor(ProtoSpanToOtlp(e.span), p).observation
               given == AttributeMap(e.span.attributes)
           IN  /\ Reported(row, e.by, e.call)
               /\ row.attributes = Unconsumed(given, Consumed(e.by, given))
<1> DEFINE span == ProtoSpanToOtlp(e.span)
           given == AttributeMap(e.span.attributes)
           canonical == Adapt(e.by, span)
           rows == RowsFor(span, p)
<1>1. span.attributes = given /\ ~Failed(span)
    BY DEF ProtoSpanToOtlp, Failed
<1>2. e.by \in Instrumented /\ e.call \in CallsIn(e.by) /\ Silent(span)
        /\ Tells(span.attributes, e.by, e.call)
    BY <1>1 DEF Reporting
<1> HIDE DEF span, given
<1>3. Normalize(span) = canonical
    BY <1>2, ReportIsDetected
<1>4. /\ DOMAIN canonical = Callers \cup {"project", "dialect"}
      /\ canonical.attributes = Unconsumed(given, Consumed(e.by, given))
    BY <1>1, <1>2, AdapterReports DEF KeepsTheRest
<1>5. Reported(canonical, e.by, e.call)
    BY <1>2, AdapterReports
<1> HIDE DEF canonical
<1>6. ~Failed(canonical)
    BY <1>4 DEF Failed, Callers
<1>7. rows = Publishable(canonical, p)
    BY <1>1, <1>3, <1>6 DEF RowsFor
<1>8. \A column \in Callers \cup {"dialect"} : rows.observation[column] = canonical[column]
    BY <1>4, <1>7, ColumnsArePublished
<1>9. /\ rows.observation.dialect = canonical.dialect /\ rows.observation.texts = canonical.texts
      /\ rows.observation.body = canonical.body /\ rows.observation.tokens = canonical.tokens
      /\ rows.observation.is_run_root = canonical.is_run_root
      /\ rows.observation.attributes = canonical.attributes
    BY <1>8 DEF Callers
<1> HIDE DEF rows
<1>10. Reported(rows.observation, e.by, e.call)
    BY <1>5, <1>9 DEF Reported
<1> QED BY <1>4, <1>9, <1>10 DEF rows, span, given
-----------------------------------------------------------------------------
(* What a row for a call shows. *)

\* A row shows a text that it has in a column, a count, and a body.
LEMMA ColumnIsShown ==
    ASSUME NEW row
    PROVE  /\ \A f \in TextFields : Shown(Str(row.texts[f]), row)
           /\ \A f \in TextFields : Shown([array |-> <<Str(row.texts[f])>>], row)
           /\ \A f \in TokenFields : Shown(Num(row.tokens[f]), row)
           /\ \A f \in BodyFields : \A s : row.body[f] = BodyOf(s) => Shown(Str(s), row)
<1>1. ASSUME NEW s
      PROVE  /\ IsString(Str(s)) /\ ~IsInt(Str(s)) /\ Str(s).string = s
             /\ ~IsString(Num(s)) /\ IsInt(Num(s)) /\ Num(s).int = s
    BY DEF IsString, IsInt, Str, Num
<1>2. ASSUME NEW s
      PROVE  LET v == [array |-> <<Str(s)>>]
             IN  /\ ~IsString(v) /\ ~IsInt(v) /\ 1 \in DOMAIN v.array
                 /\ v.array[1].string = s
    BY DEF IsString, IsInt, Str
<1>3. ASSUME NEW f \in TextFields PROVE Shown(Str(row.texts[f]), row)
    BY <1>1 DEF Shown
<1>4. ASSUME NEW f \in TextFields PROVE Shown([array |-> <<Str(row.texts[f])>>], row)
    BY <1>2 DEF Shown
<1>5. ASSUME NEW f \in TokenFields PROVE Shown(Num(row.tokens[f]), row)
    BY <1>1 DEF Shown
<1>6. ASSUME NEW f \in BodyFields, NEW s, row.body[f] = BodyOf(s) PROVE Shown(Str(s), row)
    BY <1>1, <1>6 DEF Shown
<1> QED BY <1>3, <1>4, <1>5, <1>6

\* The bodies that a row for a call has show its prompt and its answer.
LEMMA BodiesShow ==
    ASSUME NEW by, NEW call
    PROVE  /\ \E f \in BodyFields : BodiesOf(by, call)[f] = BodyOf(call.prompt)
           /\ \E f \in BodyFields : BodiesOf(by, call)[f] = BodyOf(call.answer)
<1> DEFINE none == [f \in BodyFields |-> None]
           spoken == [input_body |-> BodyOf(call.prompt), output_body |-> BodyOf(call.answer)]
           put == [tool_input |-> BodyOf(call.prompt), output_body |-> BodyOf(call.answer)]
           returned == [tool_input |-> BodyOf(call.prompt), tool_output |-> BodyOf(call.answer)]
<1>1. CASE ~IsTool(call)
    <2>1. BodiesOf(by, call) = spoken @@ none
        BY <1>1 DEF BodiesOf
    <2>2. /\ "input_body" \in DOMAIN spoken /\ spoken["input_body"] = BodyOf(call.prompt)
          /\ "output_body" \in DOMAIN spoken /\ spoken["output_body"] = BodyOf(call.answer)
        OBVIOUS
    <2> HIDE DEF spoken, none
    <2>3. \A x \in DOMAIN spoken : (spoken @@ none)[x] = spoken[x]
        BY Overlay
    <2>4. /\ BodiesOf(by, call)["input_body"] = BodyOf(call.prompt)
          /\ BodiesOf(by, call)["output_body"] = BodyOf(call.answer)
        BY <2>1, <2>2, <2>3
    <2> QED BY <2>4 DEF BodyFields
<1>2. CASE IsTool(call) /\ by = "openinference"
    <2>1. BodiesOf(by, call) = put @@ none
        BY <1>2 DEF BodiesOf
    <2>2. /\ "tool_input" \in DOMAIN put /\ put["tool_input"] = BodyOf(call.prompt)
          /\ "output_body" \in DOMAIN put /\ put["output_body"] = BodyOf(call.answer)
        OBVIOUS
    <2> HIDE DEF put, none
    <2>3. \A x \in DOMAIN put : (put @@ none)[x] = put[x]
        BY Overlay
    <2>4. /\ BodiesOf(by, call)["tool_input"] = BodyOf(call.prompt)
          /\ BodiesOf(by, call)["output_body"] = BodyOf(call.answer)
        BY <2>1, <2>2, <2>3
    <2> QED BY <2>4 DEF BodyFields
<1>3. CASE IsTool(call) /\ by # "openinference"
    <2>1. BodiesOf(by, call) = returned @@ none
        BY <1>3 DEF BodiesOf
    <2>2. /\ "tool_input" \in DOMAIN returned /\ returned["tool_input"] = BodyOf(call.prompt)
          /\ "tool_output" \in DOMAIN returned /\ returned["tool_output"] = BodyOf(call.answer)
        OBVIOUS
    <2> HIDE DEF returned, none
    <2>3. \A x \in DOMAIN returned : (returned @@ none)[x] = returned[x]
        BY Overlay
    <2>4. /\ BodiesOf(by, call)["tool_input"] = BodyOf(call.prompt)
          /\ BodiesOf(by, call)["tool_output"] = BodyOf(call.answer)
        BY <2>1, <2>2, <2>3
    <2> QED BY <2>4 DEF BodyFields
<1> QED BY <1>1, <1>2, <1>3

\* A row that reports a call shows each part of it that the dialect carries.
LEMMA CallIsShown ==
    ASSUME NEW by \in Instrumented, NEW call, NEW row, Reported(row, by, call)
    PROVE  /\ Shown(Str(call.system), row) /\ Shown(Str(call.model), row)
           /\ Shown(Num(call.input), row) /\ Shown(Num(call.output), row)
           /\ Shown(Str(call.prompt), row) /\ Shown(Str(call.answer), row)
           /\ IsTool(call) => Shown(Str("search"), row)
           /\ by # "openinference" =>
                /\ Shown(Str(call.answered_by), row) /\ Shown(Str(call.finish), row)
                /\ Shown([array |-> <<Str(call.finish)>>], row)
           /\ by # "vercel-ai" => Shown(Str(call.operation), row)
<1>1. /\ "gen_ai_system" \in TextFields /\ "gen_ai_request_model" \in TextFields
      /\ "tool_name" \in TextFields /\ "gen_ai_operation" \in TextFields
      /\ "gen_ai_response_model" \in TextFields
      /\ "gen_ai_response_finish_reason" \in TextFields
      /\ "gen_ai_usage_input_tokens" \in TokenFields
      /\ "gen_ai_usage_output_tokens" \in TokenFields
    BY DEF TextFields, TokenFields
<1>2. /\ row.texts["gen_ai_system"] = call.system
      /\ row.texts["gen_ai_request_model"] = call.model
      /\ IsTool(call) => row.texts["tool_name"] = "search"
      /\ by # "openinference" => /\ row.texts["gen_ai_response_model"] = call.answered_by
                                 /\ row.texts["gen_ai_response_finish_reason"] = call.finish
      /\ by # "vercel-ai" => row.texts["gen_ai_operation"] = call.operation
    BY DEF Reported, Carried, TextsOf
<1>3. /\ row.tokens["gen_ai_usage_input_tokens"] = call.input
      /\ row.tokens["gen_ai_usage_output_tokens"] = call.output
    BY DEF Reported
<1>4. Shown(Str(call.prompt), row) /\ Shown(Str(call.answer), row)
    BY BodiesShow, ColumnIsShown DEF Reported
<1> QED BY <1>1, <1>2, <1>3, <1>4, ColumnIsShown

\* The attributes that need not be shown.
Unshown == Kinds \cup Readings \cup Dropped \cup {"llm.invocation_parameters"}

\* Every attribute that a dialect gives to a call is shown by a row that
\* reports the call, or need not be.
LEMMA GivenIsShown ==
    ASSUME NEW by \in Instrumented, NEW call, NEW row, Reported(row, by, call),
           NEW kv \in AttributesIn(by, call) \cup GenAiAttributes(call)
    PROVE  kv.key \in Unshown \/ Shown(kv.value, row)
<1>a. \A key, value : KV(key, value).key = key /\ KV(key, value).value = value
    BY DEF KV
<1>b. /\ Shown(Str(call.system), row) /\ Shown(Str(call.model), row)
      /\ Shown(Num(call.input), row) /\ Shown(Num(call.output), row)
      /\ Shown(Str(call.prompt), row) /\ Shown(Str(call.answer), row)
      /\ IsTool(call) => Shown(Str("search"), row)
      /\ by # "openinference" =>
           /\ Shown(Str(call.answered_by), row) /\ Shown(Str(call.finish), row)
           /\ Shown([array |-> <<Str(call.finish)>>], row)
      /\ by # "vercel-ai" => Shown(Str(call.operation), row)
    BY CallIsShown
<1>1. ASSUME kv \in GenAiAttributes(call) PROVE Shown(kv.value, row)
    BY <1>1, <1>a, <1>b DEF GenAiAttributes
<1>2. ASSUME IsTool(call), kv \in ToolAttributes(call) PROVE Shown(kv.value, row)
    BY <1>2, <1>a, <1>b DEF ToolAttributes
<1>3. CASE by = "openllmetry" /\ kv \in AttributesIn(by, call)
    <2>1. kv \in OpenLLMetryAttributes(call) /\ by # "openinference"
        BY <1>3 DEF AttributesIn
    <2>2. "traceloop.span.kind" \in Unshown
        BY DEF Unshown, Kinds
    <2> QED BY <1>2, <1>a, <1>b, <2>1, <2>2 DEF OpenLLMetryAttributes
<1>4. CASE by = "openinference" /\ kv \in AttributesIn(by, call)
    <2>1. kv \in OpenInferenceAttributes(call)
        BY <1>4 DEF AttributesIn
    <2>2. {"llm.token_count.total", "llm.invocation_parameters", "openinference.span.kind",
           "output.mime_type", "input.mime_type"} \subseteq Unshown
        BY DEF Unshown, Kinds, Readings, Dropped
    <2> QED BY <1>a, <1>b, <2>1, <2>2 DEF OpenInferenceAttributes
<1>5. CASE by = "vercel-ai" /\ kv \in AttributesIn(by, call)
    <2>1. kv \in VercelAttributes(call) /\ by # "openinference"
        BY <1>5 DEF AttributesIn
    <2>2. "ai.operationId" \in Unshown /\ "ai.toolCall.id" \in Unshown
        BY DEF Unshown, Kinds, Dropped
    <2> QED BY <1>a, <1>b, <2>1, <2>2 DEF VercelAttributes
<1>6. CASE by = "otel-genai" /\ kv \in AttributesIn(by, call)
    <2>1. kv \in OtelAttributes(call) /\ by # "openinference" /\ by # "vercel-ai"
        BY <1>6 DEF AttributesIn
    <2> QED BY <1>1, <1>2, <1>a, <1>b, <2>1 DEF OtelAttributes
<1> QED BY <1>1, <1>3, <1>4, <1>5, <1>6 DEF Instrumented

\* What an adapter takes out are keys that it knows, and never the
\* parameters of a request.
LEMMA ConsumedKeys ==
    ASSUME NEW by \in Instrumented, NEW attrs
    PROVE  /\ Consumed(by, attrs) \subseteq AdapterKeys \cup {"halley.project_id"}
           /\ "llm.invocation_parameters" \in DOMAIN attrs =>
                "llm.invocation_parameters" \notin Consumed(by, attrs)
<1>1. "llm.invocation_parameters"
            \notin GenAiKeys \cup TraceloopKeys \cup HalleyKeys \cup VercelKeys
    BY DEF GenAiKeys, TraceloopKeys, HalleyKeys, VercelKeys
<1>2. TraceloopKeys \subseteq TraceloopNamespace
    BY DEF TraceloopNamespace
<1>3. CASE by = "openllmetry"
    BY <1>1, <1>2, <1>3 DEF Consumed, AdapterKeys
<1>4. CASE by = "openinference"
    BY <1>1, <1>4 DEF Consumed, AdapterKeys, PutBack
<1>5. CASE by = "vercel-ai"
    BY <1>1, <1>5 DEF Consumed, AdapterKeys
<1>6. CASE by = "otel-genai"
    BY <1>1, <1>6 DEF Consumed, AdapterKeys
<1> QED BY <1>3, <1>4, <1>5, <1>6 DEF Instrumented

\* The row of an export keeps each of its attributes, or shows it.
LEMMA ExportIsKeptOrShown ==
    ASSUME NEW e, Reporting(e), NEW p
    PROVE  LET row == RowsFor(ProtoSpanToOtlp(e.span), p).observation
               given == AttributeMap(e.span.attributes)
           IN  \A key \in DOMAIN given \ (Kinds \cup Readings \cup Dropped) :
                    IF key \in DOMAIN row.attributes
                    THEN row.attributes[key] = AttrString(given[key])
                    ELSE Shown(given[key], row)
<1> DEFINE row == RowsFor(ProtoSpanToOtlp(e.span), p).observation
           given == AttributeMap(e.span.attributes)
<1>1. Reported(row, e.by, e.call) /\ row.attributes = Unconsumed(given, Consumed(e.by, given))
    BY ExportRow
<1>2. e.by \in Instrumented /\ Tells(given, e.by, e.call)
    BY DEF Reporting
<1> HIDE DEF row, given
<1> SUFFICES ASSUME NEW key \in DOMAIN given \ (Kinds \cup Readings \cup Dropped)
             PROVE  IF key \in DOMAIN row.attributes
                    THEN row.attributes[key] = AttrString(given[key])
                    ELSE Shown(given[key], row)
    BY DEF row, given
<1>3. CASE key \notin Consumed(e.by, given)
    BY <1>1, <1>3 DEF Unconsumed
<1>4. CASE key \in Consumed(e.by, given)
    <2>1. key \notin DOMAIN row.attributes
        BY <1>1, <1>4 DEF Unconsumed
    <2>2. key \in AdapterKeys
        BY <1>2, <1>4, ConsumedKeys DEF Readings
    <2>3. KV(key, given[key]) \in AttributesIn(e.by, e.call) \cup GenAiAttributes(e.call)
        BY <1>2, <2>2 DEF Tells
    <2>4. key \notin Unshown
        BY <1>2, <1>4, ConsumedKeys DEF Unshown
    <2>5. KV(key, given[key]).key = key /\ KV(key, given[key]).value = given[key]
        BY DEF KV
    <2>6. Shown(given[key], row)
        BY <1>1, <1>2, <2>3, <2>4, <2>5, GivenIsShown
    <2> QED BY <2>1, <2>6
<1> QED BY <1>3, <1>4

-----------------------------------------------------------------------------
(* The OTLP routes. *)

\* Something was published for an export that reports a call.
OfACall(l) == l # Nothing /\ ~Failed(l.rows) /\ "raw" \notin DOMAIN l.origin
                /\ l.origin.export.call # Nothing

\* Such a span has the rows of an export that says what ExportAssumption says.
LEMMA PublishedReports ==
    ASSUME Next, OfACall(last')
    PROVE  \E e, p : /\ Reporting(e) /\ last'.origin.export = e
                     /\ last'.rows = RowsFor(ProtoSpanToOtlp(e.span), p)
<1>1. \E r \in Requests : PublishRaw(r) \/ PublishExported(r)
    BY DEF Next, Handle, CreateKey, RevokeKey, Tick, Arrive, AskCache, AskTable, FillCache,
        Finish, OfACall
<1>2. PICK r \in Requests : PublishRaw(r) \/ PublishExported(r)
    BY <1>1
<1>3. ~PublishRaw(r)
    <2> SUFFICES ASSUME PublishRaw(r) PROVE FALSE
        OBVIOUS
    <2>1. PICK raw \in RawSpans : PublishSpan(r, RawSpanToOtlp(raw), [raw |-> raw])
        BY DEF PublishRaw
    <2>2. last' # Nothing => last'.origin = [raw |-> raw]
        BY <2>1 DEF PublishSpan
    <2> QED BY <2>2 DEF OfACall
<1>4. PICK e \in Exports : PublishSpan(r, ProtoSpanToOtlp(e.span), [export |-> e])
    BY <1>2, <1>3 DEF PublishExported
<1> DEFINE rows == RowsFor(ProtoSpanToOtlp(e.span), project[r])
<1>5. last' = [origin |-> [export |-> e], key |-> header[r], rows |-> rows]
    BY <1>4 DEF PublishSpan, OfACall
<1> HIDE DEF rows
<1>6. last'.origin.export = e /\ last'.rows = rows
    BY <1>5
<1>7. e.call # Nothing
    BY <1>6 DEF OfACall
<1>8. Silent(ProtoSpanToOtlp(e.span))
    BY <1>7, ExportAssumption DEF Silent, ProtoSpanToOtlp
<1>9. Reporting(e)
    BY <1>7, <1>8, ExportAssumption DEF Reporting, Instrumented
<1> QED BY <1>6, <1>9 DEF rows

\* Whichever instrumentation reports a call, and whatever else its span has, the
\* row is the one that the call should have: its texts, bodies, counts and mark.
THEOREM CallsHaveOneRow == Spec => []SameCallSameRow
<1> DEFINE Good(l) == OfACall(l) =>
                Reported(l.rows.observation, l.origin.export.by, l.origin.export.call)
<1>1. SameCallSameRow <=> Good(last)
    BY DEF SameCallSameRow, Published, FromRaw, OfACall, Reported
<1>2. Init => Good(last)
    BY DEF Init, OfACall
<1>3. Good(last) /\ [Next]_vars => Good(last')
    <2>1. CASE UNCHANGED vars
        BY <2>1 DEF vars
    <2>2. CASE Next
        BY <2>2, PublishedReports, ExportRow
    <2> QED BY <2>1, <2>2
<1>4. (SameCallSameRow)' <=> Good(last')
    BY DEF SameCallSameRow, Published, FromRaw, OfACall, Reported
<1> HIDE DEF Good
<1>5. Init => SameCallSameRow
    BY <1>1, <1>2
<1>6. SameCallSameRow /\ [Next]_vars => SameCallSameRow'
    BY <1>1, <1>3, <1>4
<1> QED BY <1>5, <1>6, PTL DEF Spec

\* No attribute of a reported call is lost: it is kept as it was, or in a column.
THEOREM AttributesAreNotLost == Spec => []AttributesAreKeptOrShown
<1> DEFINE Good(l) == OfACall(l) =>
            \A key \in DOMAIN AttributeMap(l.origin.export.span.attributes)
                            \ (Kinds \cup Readings \cup Dropped) :
                IF key \in DOMAIN l.rows.observation.attributes
                THEN l.rows.observation.attributes[key]
                        = AttrString(AttributeMap(l.origin.export.span.attributes)[key])
                ELSE Shown(AttributeMap(l.origin.export.span.attributes)[key],
                           l.rows.observation)
<1>1. AttributesAreKeptOrShown <=> Good(last)
    BY DEF AttributesAreKeptOrShown, Published, FromRaw, OfACall
<1>2. Init => Good(last)
    BY DEF Init, OfACall
<1>3. Good(last) /\ [Next]_vars => Good(last')
    <2>1. CASE UNCHANGED vars
        BY <2>1 DEF vars
    <2>2. CASE Next
        BY <2>2, PublishedReports, ExportIsKeptOrShown
    <2> QED BY <2>1, <2>2
<1>4. (AttributesAreKeptOrShown)' <=> Good(last')
    BY DEF AttributesAreKeptOrShown, Published, FromRaw, OfACall
<1> HIDE DEF Good
<1>5. Init => AttributesAreKeptOrShown
    BY <1>1, <1>2
<1>6. AttributesAreKeptOrShown /\ [Next]_vars => AttributesAreKeptOrShown'
    BY <1>1, <1>3, <1>4
<1> QED BY <1>5, <1>6, PTL DEF Spec

=============================================================================
