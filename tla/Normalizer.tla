----------------------------- MODULE Normalizer -----------------------------
(***************************************************************************)
(* From a span as it arrives to the rows that are published: the dialects  *)
(* and the order in which they are tried, the five adapters, and           *)
(* CanonicalSpan::into_rows.                                               *)
(*                                                                         *)
(* Attributes are a function from keys to values; a value is a record      *)
(* whose one field says what it is: [string |-> s], [int |-> i] or         *)
(* [array |-> seq].  A JSON body is [json |-> s], the value that text s    *)
(* stands for, [text |-> s] for {"text": s}, [string |-> s], [value |-> v] *)
(* or [messages |-> seq].  A body's hash is the body.  Times, run_tags and *)
(* pricing_version_id, which are carried along like the fields below, and  *)
(* OTLP values of other types are left out.                                *)
(***************************************************************************)
EXTENDS Integers, Sequences

Seqs == INSTANCE SequencesExt

CONSTANTS
    Projects,   \* the project ids
    NilProject, \* Uuid::nil()
    JsonText,   \* the strings that are the text of a JSON value
    TwoTo32,    \* the number of values of a u32
    IdLen       \* the length of an id in bytes

ASSUME NormalizerAssumption ==
    /\ NilProject \in Projects /\ JsonText \subseteq STRING \ {""}
    /\ TwoTo32 \in Nat \ {0} /\ IdLen \in Nat \ {0}

\* The columns of an observation, by what they hold.
IdFields == {"trace_id", "span_id", "parent_span_id"}
TokenFields == {"gen_ai_usage_input_tokens", "gen_ai_usage_output_tokens"}
BodyFields == {"input_body", "output_body", "tool_input", "tool_output"}
TextFields == {"gen_ai_system", "gen_ai_operation", "gen_ai_request_model",
    "gen_ai_response_model", "gen_ai_response_finish_reason", "tool_name",
    "tool_side_effect", "run_name", "run_env", "dialect_version",
    "error_message"}

None == [none |-> TRUE]
Str(s) == [string |-> s]
IsString(v) == "string" \in DOMAIN v
IsInt(v) == "int" \in DOMAIN v

\* A function with one key, and one function put over another: the operators
\* of module TLC, spelled out so that proofs can expand them.
key :> value == [k \in {key} |-> value]
f @@ g == [k \in DOMAIN f \cup DOMAIN g |-> IF k \in DOMAIN f THEN f[k] ELSE g[k]]

-----------------------------------------------------------------------------
(* What the adapters read attributes with. *)

Has(attrs, key) == key \in DOMAIN attrs

\* str_attr
StrAttr(attrs, key) ==
    IF Has(attrs, key) /\ IsString(attrs[key]) THEN attrs[key].string ELSE ""

\* The first of the keys with a text that is not empty.
Preferred(attrs, keys) ==
    LET i == Seqs!SelectInSeq(keys, LAMBDA key : StrAttr(attrs, key) # "")
    IN  IF i = 0 THEN "" ELSE StrAttr(attrs, keys[i])

\* as_u32: negative numbers become zero, large ones lose their high bits.
AsU32(i) == IF i < 0 THEN 0 ELSE i % TwoTo32

\* u32_attr, u32_attr_with_fallback: the first of the keys with an integer.
U32Attr(attrs, keys) ==
    LET i == Seqs!SelectInSeq(keys, LAMBDA key : Has(attrs, key) /\ IsInt(attrs[key]))
    IN  IF i = 0 THEN 0 ELSE AsU32(attrs[keys[i]].int)

\* Tables of keys for the columns, read with the two operators above.
Texts(attrs, table) == [f \in DOMAIN table |-> Preferred(attrs, table[f])]
Tokens(attrs, table) == [f \in TokenFields |-> U32Attr(attrs, table[f])]

ToJson(v) == IF IsString(v) THEN v ELSE [value |-> v]

\* serde_json::from_str(..).ok() of an attribute that is a string
ParsedAttr(attrs, key) ==
    IF StrAttr(attrs, key) \in JsonText THEN [json |-> attrs[key].string] ELSE None

\* parse_json_anyvalue, and json_attr of halley-raw
AnyJson(attrs, key) ==
    CASE ~Has(attrs, key)            -> None
      [] ParsedAttr(attrs, key) # None -> ParsedAttr(attrs, key)
      [] OTHER                       -> ToJson(attrs[key])

\* parse_json_or_wrap
JsonOrWrapped(attrs, key) ==
    IF ParsedAttr(attrs, key) = None /\ Has(attrs, key) /\ IsString(attrs[key])
    THEN [text |-> attrs[key].string]
    ELSE AnyJson(attrs, key)

FirstPresent(attrs, keys) ==
    LET i == Seqs!SelectInSeq(keys, LAMBDA key : Has(attrs, key))
    IN  IF i = 0 THEN Head(keys) ELSE keys[i]

\* gen_ai.response.finish_reasons[0], or the older singular name.
FinishReason(attrs) ==
    IF Has(attrs, "gen_ai.response.finish_reasons")
        /\ "array" \in DOMAIN attrs["gen_ai.response.finish_reasons"]
    THEN LET reasons == attrs["gen_ai.response.finish_reasons"].array
         IN  IF reasons # << >> /\ IsString(Head(reasons)) THEN Head(reasons).string ELSE ""
    ELSE StrAttr(attrs, "gen_ai.response.finish_reason")

\* to_attr_string
AttrString(v) ==
    CASE IsString(v) -> v.string [] IsInt(v) -> Seqs!ToString(v.int) [] OTHER -> Seqs!ToString(v)

\* The attributes that an adapter does not consume.
Unconsumed(attrs, consumed) ==
    [key \in DOMAIN attrs \ consumed |-> AttrString(attrs[key])]

Translate(table, kind) == IF kind \in DOMAIN table THEN table[kind] ELSE kind

StatusOfCode(code) == IF code = 2 THEN "error" ELSE "ok"

\* project_id as an attribute
ProjectOf(s) == IF s \in Projects THEN s ELSE NilProject

RunKindIsAgent(attrs) == StrAttr(attrs, "halley.run.kind") = "agent"

-----------------------------------------------------------------------------
(* The attributes that the adapters for OTLP dialects share. *)

HalleyTexts ==
    [run_name         |-> <<"halley.run_name">>,
     run_env          |-> <<"halley.run_env">>,
     dialect_version  |-> <<"halley.dialect_version">>,
     tool_side_effect |-> <<"halley.tool_side_effect">>]

HalleyKeys == {"halley.project_id", "halley.pricing_version_id", "halley.run_name",
    "halley.run_tags", "halley.run_env", "halley.dialect_version",
    "halley.tool_side_effect"}

GenAiTexts ==
    [gen_ai_system         |-> <<"gen_ai.provider.name", "gen_ai.system">>,
     gen_ai_operation      |-> <<"gen_ai.operation.name">>,
     gen_ai_request_model  |-> <<"gen_ai.request.model">>,
     gen_ai_response_model |-> <<"gen_ai.response.model">>,
     tool_name             |-> <<"gen_ai.tool.name">>]

GenAiTokens ==
    [gen_ai_usage_input_tokens  |-> <<"gen_ai.usage.input_tokens">>,
     gen_ai_usage_output_tokens |-> <<"gen_ai.usage.output_tokens">>]

GenAiKeys == {"gen_ai.system", "gen_ai.provider.name", "gen_ai.operation.name",
    "gen_ai.request.model", "gen_ai.response.model", "gen_ai.usage.input_tokens",
    "gen_ai.usage.output_tokens", "gen_ai.response.finish_reasons",
    "gen_ai.response.finish_reason", "gen_ai.input.messages",
    "gen_ai.output.messages", "gen_ai.tool.name", "gen_ai.tool.call.arguments",
    "gen_ai.tool.call.result"}

InputEvents == {"gen_ai.user.message", "gen_ai.system.message"}
OutputEvents == {"gen_ai.assistant.message", "gen_ai.choice"}

\* The messages in the events of a span: their role and content.
RoleIn(event) ==
    LET key == FirstPresent(event.attributes, <<"gen_ai.system", "role">>)
        default == IF event.name = "gen_ai.system.message" THEN "system" ELSE "user"
    IN  CASE event.name \in OutputEvents -> "assistant"
          [] event.name \notin OutputEvents /\ Has(event.attributes, key)
                /\ IsString(event.attributes[key]) -> event.attributes[key].string
          [] OTHER -> default

ContentIn(event) ==
    LET key == FirstPresent(event.attributes, <<"gen_ai.event.content", "content">>)
    IN  IF Has(event.attributes, key) THEN ToJson(event.attributes[key]) ELSE None

Messages(events, names) ==
    LET chosen == SelectSeq(events, LAMBDA event : event.name \in names)
    IN  [i \in DOMAIN chosen |-> [role |-> RoleIn(chosen[i]), content |-> ContentIn(chosen[i])]]

\* extract_bodies: the events if there are any, else the first key present.
MessageBody(span, names, keys) ==
    IF \E i \in DOMAIN span.events : span.events[i].name \in names
    THEN [messages |-> Messages(span.events, names)]
    ELSE ParsedAttr(span.attributes, FirstPresent(span.attributes, keys))

-----------------------------------------------------------------------------
(* The adapters.  A span is an OtlpSpan: ids, attributes, events, status.  *)

\* The CanonicalSpan of an OTLP dialect, given what its adapter computes.
FromOtlp(span, dialect, texts, tokens, body, kept, root) ==
    [dialect     |-> dialect,
     ids         |-> span.ids,
     texts       |-> texts @@ [error_message |-> span.message],
     tokens      |-> tokens,
     body        |-> body,
     project     |-> ProjectOf(StrAttr(span.attributes, "halley.project_id")),
     status      |-> StatusOfCode(span.code),
     attributes  |-> kept,
     is_run_root |-> root \/ RunKindIsAgent(span.attributes)]

GenAiToolBody(attrs) ==
    [tool_input  |-> AnyJson(attrs, "gen_ai.tool.call.arguments"),
     tool_output |-> AnyJson(attrs, "gen_ai.tool.call.result")]

OtelGenAi(span) ==
    LET attrs == span.attributes
        texts == Texts(attrs, GenAiTexts @@ HalleyTexts)
    IN  FromOtlp(span, "otel-genai",
            texts @@ [gen_ai_response_finish_reason |-> FinishReason(attrs)],
            Tokens(attrs, GenAiTokens),
            [input_body  |-> MessageBody(span, InputEvents, <<"gen_ai.input.messages">>),
             output_body |-> MessageBody(span, OutputEvents, <<"gen_ai.output.messages">>)]
                @@ GenAiToolBody(attrs),
            Unconsumed(attrs, GenAiKeys \cup HalleyKeys),
            texts.gen_ai_operation = "invoke_agent")

\* traceloop_span_kind_to_operation
TraceloopKinds == [llm |-> "chat", tool |-> "execute_tool", agent |-> "invoke_agent",
    task |-> "invoke_agent", workflow |-> "invoke_workflow"]

TraceloopKeys == {"traceloop.entity.name", "traceloop.span.kind",
    "traceloop.entity.input", "traceloop.entity.output"}

OpenLLMetry(span) ==
    LET attrs == span.attributes
        kind == StrAttr(attrs, "traceloop.span.kind")
        named == StrAttr(attrs, "gen_ai.operation.name")
        operation == IF named = "" THEN Translate(TraceloopKinds, kind) ELSE named
        texts == Texts(attrs,
            [run_name |-> <<"halley.run_name", "traceloop.entity.name">>]
                @@ GenAiTexts @@ HalleyTexts)
    IN  FromOtlp(span, "openllmetry",
            [gen_ai_operation |-> operation,
             gen_ai_response_finish_reason |-> FinishReason(attrs)] @@ texts,
            Tokens(attrs, GenAiTokens),
            [input_body  |-> MessageBody(span, InputEvents,
                                <<"gen_ai.input.messages", "traceloop.entity.input">>),
             output_body |-> MessageBody(span, OutputEvents,
                                <<"gen_ai.output.messages", "traceloop.entity.output">>)]
                @@ GenAiToolBody(attrs),
            Unconsumed(attrs, GenAiKeys \cup TraceloopKeys \cup HalleyKeys),
            operation = "invoke_agent" \/ kind = "agent")

\* openinference_span_kind_to_operation
OpenInferenceKinds == [LLM |-> "chat", TOOL |-> "execute_tool", RETRIEVER |-> "retrieve",
    RERANKER |-> "retrieve", AGENT |-> "invoke_agent", CHAIN |-> "invoke_agent",
    EMBEDDING |-> "embeddings"]

OpenInferenceKeys == {"openinference.span.kind", "llm.system", "llm.model_name",
    "llm.token_count.prompt", "llm.token_count.completion", "llm.token_count.total",
    "llm.invocation_parameters", "input.value", "input.mime_type", "output.value",
    "output.mime_type", "tool.name", "tool.parameters"}

\* Mutant: it is consumed only.
PutNothingBack(attrs) == {}

\* llm.invocation_parameters is consumed and put back.
PutBack(attrs) == {"llm.invocation_parameters"} \cap DOMAIN attrs

\* parse_body_value
MimeBody(attrs, value, mime) ==
    IF ~(Has(attrs, value) /\ IsString(attrs[value])) THEN None
    ELSE IF StrAttr(attrs, mime) = "application/json" THEN JsonOrWrapped(attrs, value)
    ELSE [text |-> attrs[value].string]

OpenInference(span) ==
    LET attrs == span.attributes
        operation == Translate(OpenInferenceKinds, StrAttr(attrs, "openinference.span.kind"))
    IN  FromOtlp(span, "openinference",
            [gen_ai_operation |-> operation, gen_ai_response_finish_reason |-> ""]
                @@ Texts(attrs,
                    [gen_ai_system         |-> <<"llm.system">>,
                     gen_ai_request_model  |-> <<"llm.model_name">>,
                     gen_ai_response_model |-> <<"llm.model_name">>,
                     tool_name             |-> <<"tool.name">>] @@ HalleyTexts),
            Tokens(attrs, [gen_ai_usage_input_tokens  |-> <<"llm.token_count.prompt">>,
                           gen_ai_usage_output_tokens |-> <<"llm.token_count.completion">>]),
            [input_body  |-> MimeBody(attrs, "input.value", "input.mime_type"),
             output_body |-> MimeBody(attrs, "output.value", "output.mime_type"),
             tool_input  |-> AnyJson(attrs, "tool.parameters"),
             tool_output |-> None],
            Unconsumed(attrs, (OpenInferenceKeys \cup HalleyKeys) \ PutBack(attrs)),
            operation = "invoke_agent")

\* vercel_operation_id_to_operation
VercelOperations ==
    [id \in {"ai.generateText", "ai.generateText.doGenerate", "ai.streamText",
             "ai.streamText.doStream"} |-> "chat"]
    @@ [id \in {"ai.embed", "ai.embed.doEmbed", "ai.embedMany", "ai.embedMany.doEmbed"}
            |-> "embeddings"]
    @@ "ai.toolCall" :> "execute_tool"

\* The operation ids that start with "ai.agent".
VercelAgentIds == {"ai.agent", "ai.agent.run"}

VercelKeys == {"ai.operationId", "ai.model.id", "ai.model.provider",
    "ai.usage.promptTokens", "ai.usage.completionTokens", "ai.response.model",
    "ai.response.finishReason", "ai.prompt", "ai.prompt.messages", "ai.response.text",
    "ai.response.object", "ai.toolCall.name", "ai.toolCall.id", "ai.toolCall.args",
    "ai.toolCall.result", "gen_ai.system", "gen_ai.provider.name",
    "gen_ai.request.model", "gen_ai.response.model", "gen_ai.usage.input_tokens",
    "gen_ai.usage.output_tokens", "gen_ai.response.finish_reasons",
    "gen_ai.response.finish_reason"}

VercelAi(span) ==
    LET attrs == span.attributes
        id == StrAttr(attrs, "ai.operationId")
        finish == StrAttr(attrs, "ai.response.finishReason")
        Wrapped(keys) == JsonOrWrapped(attrs, FirstPresent(attrs, keys))
    IN  FromOtlp(span, "vercel-ai",
            [gen_ai_operation |-> Translate(VercelOperations, id),
             gen_ai_response_finish_reason |->
                IF finish = "" THEN FinishReason(attrs) ELSE finish]
                @@ Texts(attrs,
                    [gen_ai_system         |->
                        <<"ai.model.provider", "gen_ai.provider.name", "gen_ai.system">>,
                     gen_ai_request_model  |-> <<"ai.model.id", "gen_ai.request.model">>,
                     gen_ai_response_model |-> <<"ai.response.model", "gen_ai.response.model">>,
                     tool_name             |-> <<"ai.toolCall.name">>] @@ HalleyTexts),
            Tokens(attrs,
                [gen_ai_usage_input_tokens  |->
                    <<"ai.usage.promptTokens", "gen_ai.usage.input_tokens">>,
                 gen_ai_usage_output_tokens |->
                    <<"ai.usage.completionTokens", "gen_ai.usage.output_tokens">>]),
            [input_body  |-> Wrapped(<<"ai.prompt", "ai.prompt.messages">>),
             output_body |-> Wrapped(<<"ai.response.text", "ai.response.object">>),
             tool_input  |-> AnyJson(attrs, "ai.toolCall.args"),
             tool_output |-> AnyJson(attrs, "ai.toolCall.result")],
            Unconsumed(attrs, VercelKeys \cup HalleyKeys),
            id \in VercelAgentIds)

-----------------------------------------------------------------------------
(* The JSON route.  A RawSpan has ids, run_id (<< >> if there is none),    *)
(* source_dialect, project, status, texts, tokens, bodies and attributes,  *)
(* which are text.                                                         *)

BadRequest == [error |-> "bad request"]

\* Mutant: the result of a tool is forgotten.
RawAttributesButOne(raw) ==
    ("source_dialect" :> Str("halley-raw") @@ "project_id" :> Str(raw.project)
        @@ "status" :> Str(raw.status))
    @@ [f \in TextFields |-> Str(raw.texts[f])]
    @@ [f \in TokenFields |-> [int |-> raw.tokens[f]]]
    @@ [f \in {g \in BodyFields \ {"tool_output"} : raw.body[g] # None} |-> Str(raw.body[f].json)]
    @@ [key \in DOMAIN raw.attributes |-> Str(raw.attributes[key])]

\* raw_span_to_otlp: the fields become attributes; the caller's own do not
\* replace them.
RawAttributes(raw) ==
    ("source_dialect" :> Str("halley-raw") @@ "project_id" :> Str(raw.project)
        @@ "status" :> Str(raw.status))
    @@ [f \in IF raw.run_id = << >> THEN {} ELSE {"run_id"} |-> Str(Seqs!ToString(raw.run_id))]
    @@ [f \in TextFields |-> Str(raw.texts[f])]
    @@ [f \in TokenFields |-> [int |-> raw.tokens[f]]]
    @@ [f \in {g \in BodyFields : raw.body[g] # None} |-> Str(raw.body[f].json)]
    @@ [key \in DOMAIN raw.attributes |-> Str(raw.attributes[key])]

\* decode_hex_id: a parent may be absent.
ValidIds(ids) ==
    \A f \in IdFields : Len(ids[f]) = IdLen \/ (f = "parent_span_id" /\ ids[f] = << >>)

RawSpanToOtlp(raw) ==
    IF ~ValidIds(raw.ids) THEN BadRequest
    ELSE [ids |-> raw.ids, attributes |-> RawAttributes(raw), events |-> << >>,
          code |-> 0, message |-> ""]

StatusOfText(s) == IF s \in {"error", "timeout"} THEN s ELSE "ok"

RawKeys == {"source_dialect", "run_id", "project_id", "status", "run_tags",
    "pricing_version_id"} \cup TextFields \cup TokenFields \cup BodyFields

HalleyRaw(span) ==
    LET attrs == span.attributes
    IN  [dialect     |-> "halley-raw",
         ids         |-> span.ids,
         texts       |-> [f \in TextFields |-> StrAttr(attrs, f)],
         tokens      |-> [f \in TokenFields |-> U32Attr(attrs, <<f>>)],
         body        |-> [f \in BodyFields |-> AnyJson(attrs, f)],
         project     |-> ProjectOf(StrAttr(attrs, "project_id")),
         status      |-> StatusOfText(StrAttr(attrs, "status")),
         attributes  |-> Unconsumed(attrs, RawKeys),
         is_run_root |-> StrAttr(attrs, "gen_ai_operation") = "invoke_agent"
                            \/ RunKindIsAgent(attrs)]

-----------------------------------------------------------------------------
(* The OTLP routes: a span on the wire has ids of any length, and          *)
(* attributes that are a list, in which a key may occur more than once.    *)

\* bytes_to_array_16, bytes_to_array_8
FitId(bytes) == [i \in 1 .. IdLen |-> IF i <= Len(bytes) THEN bytes[i] ELSE 0]

\* kvlist_to_btree: the last one wins.
AttributeMap(kvs) ==
    Seqs!FoldLeft(LAMBDA map, kv : kv.key :> kv.value @@ map, << >>, kvs)

ProtoSpanToOtlp(proto) ==
    [ids |-> [f \in IdFields |->
                IF f = "parent_span_id" /\ proto.ids[f] = << >> THEN << >> ELSE FitId(proto.ids[f])],
     attributes |-> AttributeMap(proto.attributes),
     events     |-> proto.events,
     code       |-> proto.code,
     message    |-> proto.message]

-----------------------------------------------------------------------------
(* Detection, dispatch, and the rows. *)

UnknownDialect == [error |-> "unknown dialect"]
Failed(result) == "error" \in DOMAIN result

\* The keys that start with "traceloop."
TraceloopNamespace == TraceloopKeys \cup {"traceloop.workflow.name"}

Detects(dialect, attrs) ==
    CASE dialect = "halley-raw"    -> StrAttr(attrs, "source_dialect") = "halley-raw"
      [] dialect = "openllmetry"   -> DOMAIN attrs \cap TraceloopNamespace # {}
      [] dialect = "openinference" ->
            DOMAIN attrs \cap {"openinference.span.kind", "llm.model_name"} # {}
      [] dialect = "vercel-ai"     ->
            DOMAIN attrs \cap {"ai.operationId", "ai.model.id", "ai.model.provider"} # {}
      [] dialect = "otel-genai"    ->
            DOMAIN attrs \cap {"gen_ai.system", "gen_ai.provider.name"} # {}

\* Mutant: gen_ai.* attributes decide before those of Vercel's.
GenAiFirst == <<"halley-raw", "openllmetry", "openinference", "otel-genai", "vercel-ai">>

\* The order of the adapters in Normalizer::new.
Priority == <<"halley-raw", "openllmetry", "openinference", "vercel-ai", "otel-genai">>

Adapt(dialect, span) ==
    CASE dialect = "halley-raw"    -> HalleyRaw(span)
      [] dialect = "openllmetry"   -> OpenLLMetry(span)
      [] dialect = "openinference" -> OpenInference(span)
      [] dialect = "vercel-ai"     -> VercelAi(span)
      [] dialect = "otel-genai"    -> OtelGenAi(span)

\* Normalizer::normalize: the first adapter that detects the span wins.
Normalize(span) ==
    LET i == Seqs!SelectInSeq(Priority, LAMBDA dialect : Detects(dialect, span.attributes))
    IN  IF i = 0 THEN UnknownDialect ELSE Adapt(Priority[i], span)

\* CanonicalSpan::into_rows: the observation, with the hashes of its bodies,
\* and a row for each body.
IntoRows(canonical) ==
    [observation |-> [column \in {"run_id"} \cup DOMAIN canonical |->
        IF column = "run_id" THEN canonical.ids["trace_id"] ELSE canonical[column]],
     bodies |-> {[hash |-> canonical.body[f], project |-> canonical.project] :
                    f \in {g \in BodyFields : canonical.body[g] # None}}]

\* The conversion that the normalizer replaced, TryFrom<RawSpan>.
FormerRows(raw) ==
    LET rows == IntoRows(
            [dialect     |-> raw.source_dialect,
             ids         |-> raw.ids,
             texts       |-> raw.texts,
             tokens      |-> raw.tokens,
             body        |-> raw.body,
             project     |-> raw.project,
             status      |-> StatusOfText(raw.status),
             attributes  |-> raw.attributes,
             is_run_root |-> raw.texts["gen_ai_operation"] = "invoke_agent"
                    \/ ("halley.run.kind" \in DOMAIN raw.attributes
                            /\ raw.attributes["halley.run.kind"] = "agent")])
    IN  IF raw.run_id = << >> THEN rows
        ELSE [rows EXCEPT !.observation.run_id = raw.run_id]

=============================================================================
