-------------------------- MODULE Instrumentations --------------------------
(***************************************************************************)
(* The instrumentations outside the repository, as its adapters expect     *)
(* them: how each dialect writes one and the same call into attributes.    *)
(* A call has a system, an operation ("chat", "execute_tool" or            *)
(* "invoke_agent"), a model that was asked for and one that answered, the  *)
(* two token counts, a finish reason, a prompt and an answer.  A tool call *)
(* has its arguments for a prompt and its result for an answer.            *)
(***************************************************************************)
EXTENDS Normalizer

IsTool(call) == call.operation = "execute_tool"
Num(i) == [int |-> i]

\* An attribute on the wire, a KeyValue.  What a dialect writes is a set of them.
KV(key, value) == [key |-> key, value |-> value]

\* The gen_ai.* attributes under their current names.
GenAiAttributes(call) ==
    {KV("gen_ai.provider.name", Str(call.system)), KV("gen_ai.request.model", Str(call.model)),
     KV("gen_ai.usage.input_tokens", Num(call.input)),
     KV("gen_ai.usage.output_tokens", Num(call.output))}

ToolAttributes(call) ==
    {KV("gen_ai.tool.name", Str("search")), KV("gen_ai.tool.call.arguments", Str(call.prompt)),
     KV("gen_ai.tool.call.result", Str(call.answer))}

OtelAttributes(call) ==
    GenAiAttributes(call)
    \cup {KV("gen_ai.operation.name", Str(call.operation)),
          KV("gen_ai.response.model", Str(call.answered_by)),
          KV("gen_ai.response.finish_reasons", [array |-> <<Str(call.finish)>>])}
    \cup IF IsTool(call) THEN ToolAttributes(call)
         ELSE {KV("gen_ai.input.messages", Str(call.prompt)),
               KV("gen_ai.output.messages", Str(call.answer))}

\* Old names, no operation name, the messages under traceloop.*
OpenLLMetryAttributes(call) ==
    {KV("gen_ai.system", Str(call.system)),
     KV("gen_ai.request.model", Str(call.model)),
     KV("gen_ai.response.model", Str(call.answered_by)),
     KV("gen_ai.usage.input_tokens", Num(call.input)),
     KV("gen_ai.usage.output_tokens", Num(call.output)),
     KV("gen_ai.response.finish_reason", Str(call.finish)),
     KV("traceloop.span.kind", Str(
            CASE IsTool(call) -> "tool" [] call.operation = "chat" -> "llm" [] OTHER -> "agent"))}
    \cup IF IsTool(call) THEN ToolAttributes(call)
         ELSE {KV("traceloop.entity.input", Str(call.prompt)),
               KV("traceloop.entity.output", Str(call.answer))}

Mime(text) == IF text \in JsonText THEN "application/json" ELSE "text/plain"

OpenInferenceAttributes(call) ==
    {KV("llm.system", Str(call.system)),
     KV("llm.model_name", Str(call.model)),
     KV("llm.token_count.prompt", Num(call.input)),
     KV("llm.token_count.completion", Num(call.output)),
     KV("llm.token_count.total", Num(call.input + call.output)),
     KV("llm.invocation_parameters", Str("parameters")),
     KV("openinference.span.kind", Str(
            CASE IsTool(call) -> "TOOL" [] call.operation = "chat" -> "LLM" [] OTHER -> "AGENT")),
     KV("output.value", Str(call.answer)), KV("output.mime_type", Str(Mime(call.answer)))}
    \cup IF IsTool(call)
         THEN {KV("tool.name", Str("search")), KV("tool.parameters", Str(call.prompt))}
         ELSE {KV("input.value", Str(call.prompt)), KV("input.mime_type", Str(Mime(call.prompt)))}

VercelAttributes(call) ==
    {KV("ai.model.provider", Str(call.system)),
     KV("ai.model.id", Str(call.model)),
     KV("ai.response.model", Str(call.answered_by)),
     KV("ai.usage.promptTokens", Num(call.input)),
     KV("ai.usage.completionTokens", Num(call.output)),
     KV("ai.response.finishReason", Str(call.finish)),
     KV("ai.operationId", Str(CASE IsTool(call) -> "ai.toolCall"
            [] call.operation = "chat" -> "ai.generateText" [] OTHER -> "ai.agent.run"))}
    \cup IF IsTool(call)
         THEN {KV("ai.toolCall.name", Str("search")), KV("ai.toolCall.id", Str("id")),
               KV("ai.toolCall.args", Str(call.prompt)), KV("ai.toolCall.result", Str(call.answer))}
         ELSE {KV("ai.prompt", Str(call.prompt)), KV("ai.response.text", Str(call.answer))}

AttributesIn(dialect, call) ==
    CASE dialect = "openllmetry"   -> OpenLLMetryAttributes(call)
      [] dialect = "openinference" -> OpenInferenceAttributes(call)
      [] dialect = "vercel-ai"     -> VercelAttributes(call)
      [] dialect = "otel-genai"    -> OtelAttributes(call)

\* The attributes that an adapter reads or takes out, but for the project's.
AdapterKeys ==
    {"source_dialect", "halley.run.kind"} \cup GenAiKeys \cup TraceloopNamespace
        \cup OpenInferenceKeys \cup VercelKeys \cup (HalleyKeys \ {"halley.project_id"})

\* A span's attributes report a call in a dialect: those of the dialect are
\* there, and besides them only some that no adapter reads, the project, or
\* the gen_ai.* attributes of the same call.
Tells(attrs, dialect, call) ==
    /\ \A kv \in AttributesIn(dialect, call) : Has(attrs, kv.key) /\ attrs[kv.key] = kv.value
    /\ \A key \in DOMAIN attrs \cap AdapterKeys :
            KV(key, attrs[key]) \in AttributesIn(dialect, call) \cup GenAiAttributes(call)

\* The calls that a dialect can report.  Plain text is a body only for the
\* dialects that wrap it, and not for their tools.
CallsIn(dialect) ==
    {call \in [system : STRING, operation : {"chat", "execute_tool", "invoke_agent"},
               model : STRING, answered_by : STRING, finish : STRING, prompt : STRING,
               answer : STRING, input : 0 .. TwoTo32 - 1, output : 0 .. TwoTo32 - 1] :
        {call.prompt, call.answer} \subseteq JsonText
            \/ (dialect \in {"openinference", "vercel-ai"} /\ ~IsTool(call))}

\* The columns for which a dialect has an attribute.
Carried(dialect) ==
    {"gen_ai_system", "gen_ai_operation", "gen_ai_request_model", "tool_name"}
    \cup IF dialect = "openinference" THEN {}
         ELSE {"gen_ai_response_model", "gen_ai_response_finish_reason"}

\* The texts that a row for the call has to have.
TextsOf(dialect, call) ==
    [gen_ai_system |-> call.system,
     gen_ai_operation |-> IF dialect = "vercel-ai" /\ call.operation = "invoke_agent"
                          THEN "ai.agent.run" ELSE call.operation,
     gen_ai_request_model |-> call.model,
     gen_ai_response_model |-> call.answered_by,
     gen_ai_response_finish_reason |-> call.finish,
     tool_name |-> IF IsTool(call) THEN "search" ELSE ""]

BodyOf(text) == IF text \in JsonText THEN [json |-> text] ELSE [text |-> text]

\* The bodies that it has to have: the result of a tool is an output for
\* OpenInference, which has no other place for it.
BodiesOf(dialect, call) ==
    (CASE ~IsTool(call) ->
            [input_body |-> BodyOf(call.prompt), output_body |-> BodyOf(call.answer)]
       [] IsTool(call) /\ dialect = "openinference" ->
            [tool_input |-> BodyOf(call.prompt), output_body |-> BodyOf(call.answer)]
       [] OTHER -> [tool_input |-> BodyOf(call.prompt), tool_output |-> BodyOf(call.answer)])
    @@ [f \in BodyFields |-> None]

=============================================================================
