------------------------------ MODULE Receiver ------------------------------
(***************************************************************************)
(* What happens to a request before its spans are in the stream: the API   *)
(* key is checked against a cache in Redis and the table in Postgres, the  *)
(* spans are normalised and get the project of the key, and their rows are *)
(* published.  The dashboard makes and revokes keys meanwhile.             *)
(*                                                                         *)
(* A key stands for its SHA-256 hash.  SpanPipeline takes over from here:  *)
(* it has the stream, the writer, and requests with several spans.         *)
(***************************************************************************)
EXTENDS Instrumentations

CONSTANTS
    Requests,    \* the requests there can be at a time
    Keys,        \* the keys that clients send
    KeyProject,  \* the project of each key's row
    DevProject,  \* DEV_PROJECT_ID
    Ttl,         \* the 60 seconds that a cache entry lives, in ticks
    RawSpans,    \* what is sent to /v1/spans/json
    Exports,     \* what is sent to /v1/traces and over gRPC: a span, and the
                 \*   call and the dialect it was made from
    MaxSpans,    \* the bound on the spans of one export
    Nothing

ASSUME ReceiverAssumption ==
    /\ KeyProject \in [Keys -> Projects] /\ DevProject \in Projects
    /\ Ttl \in Nat \ {0} /\ MaxSpans \in Nat
    /\ Nothing \notin Keys /\ Nothing \notin Projects

\* The types of a RawSpan's fields; serde refuses a payload that has others.
ASSUME RawSpanAssumption ==
    \A raw \in RawSpans :
        /\ raw.texts \in [TextFields -> STRING] /\ raw.status \in STRING
        /\ raw.tokens \in [TokenFields -> 0 .. TwoTo32 - 1]
        /\ raw.body \in [BodyFields -> {None} \cup [json : JsonText]]
        /\ raw.attributes \in [DOMAIN raw.attributes -> STRING]

\* An export that is said to report a call does so.
ASSUME ExportAssumption ==
    \A e \in Exports : e.call # Nothing =>
        /\ e.by \in {"openllmetry", "openinference", "vercel-ai", "otel-genai"}
        /\ e.call \in CallsIn(e.by)
        /\ Tells(AttributeMap(e.span.attributes), e.by, e.call)
        /\ \A i \in DOMAIN e.span.events :
                e.span.events[i].name \notin InputEvents \cup OutputEvents

VARIABLES
    authRequired, \* HALLEY_AUTH_REQUIRED
    keys,         \* the row of each key: "absent", "active" or "revoked"
    cache,        \* Redis: the project that is cached for a key
    ttl,          \* and how long it will be
    age,          \* history: the ticks since a key was revoked, up to Ttl + 1
    lateFill      \* history: the keys that were cached after they were revoked

VARIABLES
    pc,           \* where each request is
    route,        \* "json" or "otlp", or Nothing
    header,       \* its key, or Nothing if it has no header
    project,      \* project_id
    left,         \* the spans it has left
    faulted,      \* history: Redis or Postgres failed during its check, and
                  \*   it was not let in
    last          \* history: the span that the last step published, with the
                  \*   key of its request and what came of it

keyVars == <<authRequired, keys, cache, ttl, age, lateFill>>
requestVars == <<pc, route, header, project, left, faulted>>
vars == <<keyVars, requestVars, last>>

Init ==
    /\ authRequired \in BOOLEAN
    /\ keys = [k \in Keys |-> IF KeyProject[k] = DevProject THEN "absent" ELSE "active"]
    /\ cache = [k \in Keys |-> Nothing]
    /\ ttl = [k \in Keys |-> 0]
    /\ age = [k \in Keys |-> 0]
    /\ lateFill = {}
    /\ pc = [r \in Requests |-> "idle"]
    /\ route = [r \in Requests |-> Nothing]
    /\ header = [r \in Requests |-> Nothing]
    /\ project = [r \in Requests |-> DevProject]
    /\ left = [r \in Requests |-> 0]
    /\ faulted = [r \in Requests |-> FALSE]
    /\ last = Nothing

-----------------------------------------------------------------------------
(* The dashboard, and time. *)

\* createApiKey: keys are made in the dev project only.
CreateKey(k) ==
    /\ keys[k] = "absent" /\ KeyProject[k] = DevProject
    /\ keys' = [keys EXCEPT ![k] = "active"]
    /\ last' = Nothing
    /\ UNCHANGED <<authRequired, cache, ttl, age, lateFill, requestVars>>

\* revokeApiKey: the cache is not told.
RevokeKey(k) ==
    /\ keys[k] = "active" /\ KeyProject[k] = DevProject
    /\ keys' = [keys EXCEPT ![k] = "revoked"]
    /\ last' = Nothing
    /\ UNCHANGED <<authRequired, cache, ttl, age, lateFill, requestVars>>

\* Redis lets entries expire.
Tick ==
    /\ \E k \in Keys : ttl[k] > 0 \/ (keys[k] = "revoked" /\ age[k] <= Ttl)
    /\ ttl' = [k \in Keys |-> IF ttl[k] > 0 THEN ttl[k] - 1 ELSE 0]
    /\ cache' = [k \in Keys |-> IF ttl[k] > 1 THEN cache[k] ELSE Nothing]
    /\ age' = [k \in Keys |-> IF keys[k] = "revoked" /\ age[k] <= Ttl
                              THEN age[k] + 1 ELSE age[k]]
    /\ last' = Nothing
    /\ UNCHANGED <<authRequired, keys, lateFill, requestVars>>

-----------------------------------------------------------------------------
(* The check of a request. *)

\* A request goes on with its next await, or is answered and over.  (What
\* the answers say is in SpanPipeline.)
Continue(r, place) ==
    /\ pc' = [pc EXCEPT ![r] = place]
    /\ UNCHANGED <<route, header>>

Over(r) ==
    /\ pc' = [pc EXCEPT ![r] = "idle"]
    /\ route' = [route EXCEPT ![r] = Nothing]
    /\ header' = [header EXCEPT ![r] = Nothing]
    /\ project' = [project EXCEPT ![r] = DevProject]
    /\ left' = [left EXCEPT ![r] = 0]

\* 401 "Invalid or revoked API key", also when Redis or Postgres failed.
Refuse(r, failure) ==
    /\ Over(r)
    /\ faulted' = [faulted EXCEPT ![r] = @ \/ failure]

\* A request arrives whose header is let through to the check, or that
\* needs none; others are answered at once and change nothing.
Arrive(r) ==
    /\ pc[r] = "idle"
    /\ \E h \in Keys \cup IF authRequired THEN {} ELSE {Nothing}, way \in {"json", "otlp"} :
        \E n \in IF way = "json" THEN {1} ELSE 0 .. MaxSpans :
            /\ route' = [route EXCEPT ![r] = way]
            /\ header' = [header EXCEPT ![r] = h]
            /\ left' = [left EXCEPT ![r] = n]
            /\ pc' = [pc EXCEPT ![r] = IF h = Nothing THEN "spans" ELSE "cache"]
    /\ faulted' = [faulted EXCEPT ![r] = FALSE]
    /\ last' = Nothing
    /\ UNCHANGED <<keyVars, project>>

\* Mutant: a use of the cache entry prolongs its life.
AskSlidingCache(r) ==
    /\ pc[r] = "cache"
    /\ \/ /\ cache[header[r]] # Nothing
          /\ project' = [project EXCEPT ![r] = cache[header[r]]]
          /\ ttl' = [ttl EXCEPT ![header[r]] = Ttl]
          /\ Continue(r, "spans")
       \/ /\ cache[header[r]] = Nothing
          /\ Continue(r, "table")
          /\ UNCHANGED <<project, ttl>>
    /\ last' = Nothing
    /\ UNCHANGED <<authRequired, keys, cache, age, lateFill, left, faulted>>

\* validate_token asks Redis; without a connection it gives up, with a
\* failed GET it goes on to Postgres.
AskCache(r) ==
    /\ pc[r] = "cache"
    /\ \/ /\ cache[header[r]] # Nothing
          /\ project' = [project EXCEPT ![r] = cache[header[r]]]
          /\ Continue(r, "spans")
          /\ UNCHANGED <<left, faulted>>
       \/ /\ cache[header[r]] = Nothing
          /\ Continue(r, "table")
          /\ UNCHANGED <<project, left, faulted>>
       \/ /\ faulted' = [faulted EXCEPT ![r] = TRUE]
          /\ Continue(r, "table")
          /\ UNCHANGED <<project, left>>
       \/ Refuse(r, TRUE)
    /\ last' = Nothing
    /\ UNCHANGED keyVars

\* Mutant: the query leaves revoked_at out.
AskTableForAny(r) ==
    /\ pc[r] = "table"
    /\ IF keys[header[r]] # "absent"
       THEN /\ project' = [project EXCEPT ![r] = KeyProject[header[r]]]
            /\ Continue(r, "fill")
            /\ UNCHANGED <<left, faulted>>
       ELSE Refuse(r, FALSE)
    /\ last' = Nothing
    /\ UNCHANGED keyVars

\* It asks Postgres, which may fail.
AskTable(r) ==
    /\ pc[r] = "table"
    /\ \/ /\ keys[header[r]] = "active"
          /\ project' = [project EXCEPT ![r] = KeyProject[header[r]]]
          /\ Continue(r, "fill")
          /\ faulted' = [faulted EXCEPT ![r] = FALSE]
          /\ UNCHANGED left
       \/ keys[header[r]] # "active" /\ Refuse(r, FALSE)
       \/ Refuse(r, TRUE)
    /\ last' = Nothing
    /\ UNCHANGED keyVars

\* SET with EX 60, of what was read before; it may fail.
FillCache(r) ==
    LET k == header[r]
    IN  /\ pc[r] = "fill"
        /\ \/ /\ cache' = [cache EXCEPT ![k] = project[r]]
              /\ ttl' = [ttl EXCEPT ![k] = Ttl]
              /\ lateFill' = IF keys[k] = "revoked" THEN lateFill \cup {k} ELSE lateFill
           \/ UNCHANGED <<cache, ttl, lateFill>>
        /\ Continue(r, "spans")
        /\ last' = Nothing
        /\ UNCHANGED <<authRequired, keys, age, project, left, faulted>>

-----------------------------------------------------------------------------
(* The spans of a request. *)

\* Mutant: the project is put over that of the row, after the bodies were hashed.
PublishableAfter(canonical, p) == [IntoRows(canonical) EXCEPT !.observation.project = p]

\* The handlers put the project of the key over that of the payload, before
\* the rows are made.
Publishable(canonical, p) == IntoRows([canonical EXCEPT !.project = p])

RowsFor(span, p) ==
    IF Failed(span) THEN span
    ELSE LET canonical == Normalize(span)
         IN  IF Failed(canonical) THEN canonical ELSE Publishable(canonical, p)

\* A span is normalised and published; publishing may fail.  The JSON route
\* then answers, the OTLP routes go on with the next span.
PublishSpan(r, span, origin) ==
    /\ pc[r] = "spans" /\ left[r] > 0
    /\ \E rows \in {RowsFor(span, project[r])} :
          \/ last' = [origin |-> origin, key |-> header[r], rows |-> rows]
          \/ ~Failed(rows) /\ last' = Nothing
    /\ IF route[r] = "json" THEN Over(r)
       ELSE /\ left' = [left EXCEPT ![r] = @ - 1]
            /\ Continue(r, "spans")
            /\ UNCHANGED project
    /\ UNCHANGED <<keyVars, faulted>>

PublishRaw(r) ==
    /\ route[r] = "json"
    /\ \E raw \in RawSpans : PublishSpan(r, RawSpanToOtlp(raw), [raw |-> raw])

PublishExported(r) ==
    /\ route[r] = "otlp"
    /\ \E e \in Exports : PublishSpan(r, ProtoSpanToOtlp(e.span), [export |-> e])

\* An export is over when its spans are through.
Finish(r) ==
    /\ pc[r] = "spans" /\ left[r] = 0
    /\ Over(r)
    /\ last' = Nothing
    /\ UNCHANGED <<keyVars, faulted>>

Handle(r) ==
    AskCache(r) \/ AskTable(r) \/ FillCache(r) \/ PublishRaw(r) \/ PublishExported(r) \/ Finish(r)

Next ==
    \/ \E k \in Keys : CreateKey(k) \/ RevokeKey(k)
    \/ Tick
    \/ \E r \in Requests : Arrive(r) \/ Handle(r)

Spec == Init /\ [][Next]_vars

-----------------------------------------------------------------------------
(* Properties *)

\* The values of the variables.
TypeOK ==
    /\ authRequired \in BOOLEAN
    /\ keys \in [Keys -> {"absent", "active", "revoked"}]
    /\ cache \in [Keys -> Projects \cup {Nothing}]
    /\ ttl \in [Keys -> 0 .. Ttl]
    /\ \A k \in Keys : (cache[k] # Nothing) <=> (ttl[k] > 0)
    /\ age \in [Keys -> 0 .. Ttl + 1]
    /\ lateFill \subseteq {k \in Keys : keys[k] = "revoked"}
    /\ pc \in [Requests -> {"idle", "cache", "table", "fill", "spans"}]
    /\ route \in [Requests -> {"json", "otlp", Nothing}]
    /\ header \in [Requests -> Keys \cup {Nothing}]
    /\ project \in [Requests -> Projects]
    /\ left \in [Requests -> 0 .. MaxSpans \cup {1}]
    /\ faulted \in [Requests -> BOOLEAN]

\* A revoked key is shut out when nothing can let it in any more: it is not
\* cached, and no request was let in with it or has read its row before.
ShutOut(k) ==
    /\ keys[k] = "revoked" /\ cache[k] = Nothing
    /\ \A r \in Requests : header[r] = k => pc[r] \notin {"fill", "spans"}

\* Once shut out, a key stays out, whatever requests come.
ShutOutForGood == [][\A k \in Keys : ShutOut(k) => ShutOut(k)']_vars

\* "It may remain valid for up to 60 seconds": longer than that only if a
\* request that had read the row before stored it in the cache afterwards.
StaleWithinTtl ==
    \A k \in Keys : keys[k] = "revoked" /\ age[k] >= Ttl /\ cache[k] # Nothing => k \in lateFill

\* A request with an active key is told that the key is invalid only if
\* Redis or Postgres failed while it was checked.
RefusalNeedsAFault ==
    [][\A r \in Requests :
        pc[r] \in {"cache", "table"} /\ pc'[r] = "idle" /\ keys[header[r]] = "active"
            => faulted'[r]]_vars

\* What was published, if anything.
Published == last # Nothing /\ ~Failed(last.rows)
FromRaw == "raw" \in DOMAIN last.origin

\* A row and its bodies are in the project of the key that sent them (in the
\* dev project without a key), whatever the payload says, and every hash in
\* the row has its body there.
RowsAreInTheKeysProject ==
    Published =>
        LET row == last.rows.observation
        IN  /\ row.project = IF last.key = Nothing THEN DevProject ELSE KeyProject[last.key]
            /\ \A f \in BodyFields : row.body[f] # None =>
                    [hash |-> row.body[f], project |-> row.project] \in last.rows.bodies

\* The rows of a span are those that the conversion before the normalizer
\* made of it, but for the project, the caller's run_id, which is now always
\* the trace's id, and the dialect; as long as no attribute of the caller has the
\* name of a field.
SameAsBeforeTheNormalizer ==
    Published /\ FromRaw /\ DOMAIN last.origin.raw.attributes \cap RawKeys = {} =>
        LET new == last.rows.observation
            former == FormerRows(last.origin.raw).observation
        IN  \A column \in DOMAIN former \ {"project", "run_id", "dialect"} :
                new[column] = former[column]

\* One call gives the same row whichever instrumentation reports it, and
\* also if its span has gen_ai.* attributes besides: the texts and bodies that the
\* dialect carries, the token counts and the mark of an agent's root.
SameCallSameRow ==
    Published /\ ~FromRaw /\ last.origin.export.call # Nothing =>
        LET row == last.rows.observation
            by == last.origin.export.by
            call == last.origin.export.call
        IN  /\ row.dialect = by
            /\ \A f \in Carried(by) : row.texts[f] = TextsOf(by, call)[f]
            /\ row.body = BodiesOf(by, call)
            /\ row.tokens = [gen_ai_usage_input_tokens |-> call.input,
                             gen_ai_usage_output_tokens |-> call.output]
            /\ row.is_run_root <=> call.operation = "invoke_agent"

\* An attribute is shown by a row if it is a text, a count or a body of it.
Shown(v, row) ==
    CASE IsString(v) -> \/ \E f \in TextFields : row.texts[f] = v.string
                        \/ \E f \in BodyFields : row.body[f] = BodyOf(v.string)
      [] IsInt(v)    -> \E f \in TokenFields : row.tokens[f] = v.int
      [] OTHER       -> \E i \in DOMAIN v.array :
                            \E f \in TextFields : row.texts[f] = v.array[i].string

\* The attributes that say what kind of span it is, or how to read another
\* one, and the two that are dropped although they have no column.
Kinds == {"traceloop.span.kind", "openinference.span.kind", "ai.operationId"}
Readings == {"input.mime_type", "output.mime_type", "halley.project_id"}
Dropped == {"llm.token_count.total", "ai.toolCall.id"}

\* "Unknown attributes are preserved, never dropped": but for Dropped, every
\* attribute that an instrumentation gives to a call is among the attributes
\* of its row with its value, or the row shows it.
AttributesAreKeptOrShown ==
    Published /\ ~FromRaw /\ last.origin.export.call # Nothing =>
        LET row == last.rows.observation
            given == AttributeMap(last.origin.export.span.attributes)
        IN  \A key \in DOMAIN given \ (Kinds \cup Readings \cup Dropped) :
                IF key \in DOMAIN row.attributes
                THEN row.attributes[key] = AttrString(given[key])
                ELSE Shown(given[key], row)

=============================================================================
