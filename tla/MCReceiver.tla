----------------------------- MODULE MCReceiver -----------------------------
(***************************************************************************)
(* An instance of Receiver for TLC: four calls reported in the dialects,   *)
(* alone and with gen_ai.* attributes besides, spans that no adapter knows *)
(* or that have odd ids and numbers, and spans for the JSON route.         *)
(***************************************************************************)
EXTENDS Receiver

CONSTANTS k1, k2, r1, r2

MCProjects == {"dev", "team", "nil"}
MCKeyProject == k1 :> "dev" @@ k2 :> "team"
MCJsonText == {"{}", "[]"}

Call(operation, prompt) ==
    [system |-> "openai", operation |-> operation, model |-> "small", answered_by |-> "small-1",
     input |-> 5, output |-> 0, finish |-> "stop", prompt |-> prompt, answer |-> "[]"]

Operations == {"chat", "execute_tool", "invoke_agent"}
Dialects == {"openllmetry", "openinference", "vercel-ai", "otel-genai"}

\* What else is in the attributes of a span that reports a call.
Unknown == {KV("app.tag", Str("x")), KV("halley.project_id", Str("team"))}

Span(kvs) ==
    [ids |-> [f \in IdFields |-> IF f = "parent_span_id" THEN << >> ELSE <<1, 2>>],
     attributes |-> Seqs!FoldSet(LAMBDA kv, list : Append(list, kv), << >>, kvs),
     events |-> << >>, code |-> 0, message |-> ""]

Report(dialect, call, more) ==
    [span |-> Span(AttributesIn(dialect, call) \cup more), call |-> call, by |-> dialect]

\* Plain text is a body for the dialects that wrap it.
Wraps == {"openinference", "vercel-ai"}
Calls(dialect) ==
    {Call(op, "{}") : op \in Operations}
    \cup IF dialect \in Wraps THEN {Call("chat", "hello")} ELSE {}

Reports ==
    UNION {UNION {{Report(d, call, Unknown), Report(d, call, GenAiAttributes(call))} :
                    call \in Calls(d)} : d \in Dialects}

\* Spans of other kinds: without a dialect, with messages in events, with
\* odd numbers, with a key twice, with short and long ids, with attributes
\* that two adapters know or that look like the JSON route.
Messages1 == <<[name |-> "gen_ai.user.message", attributes |-> "content" :> Str("hi")],
               [name |-> "gen_ai.choice", attributes |-> "content" :> Str("ho")]>>
Others ==
    {Span({KV("app.tag", Str("x"))}),
     [Span({KV("gen_ai.system", Str("s")), KV("gen_ai.input.messages", Str("{}"))})
        EXCEPT !.events = Messages1, !.code = 2, !.message = "boom"],
     Span({KV("gen_ai.system", Str("")), KV("gen_ai.usage.input_tokens", Num(-1)),
           KV("gen_ai.usage.output_tokens", Num(17))}),
     [Span({KV("gen_ai.system", Str("s"))}) EXCEPT !.attributes = @ \o @, !.ids["trace_id"] = <<1>>,
        !.ids["parent_span_id"] = <<1, 2, 3>>],
     Span({KV("traceloop.workflow.name", Str("w")), KV("halley.run.kind", Str("agent")),
           KV("traceloop.span.kind", Str("task"))}),
     Span({KV("source_dialect", Str("halley-raw")), KV("status", Str("timeout"))})}

MCExports == Reports \cup {[span |-> s, call |-> Nothing, by |-> Nothing] : s \in Others}

Raw(status, bodies, attributes) ==
    [ids |-> [f \in IdFields |-> <<1, 2>>], run_id |-> << >>, source_dialect |-> "halley-raw",
     project |-> "team", status |-> status,
     texts |-> [f \in TextFields |-> IF f = "gen_ai_operation" THEN "chat" ELSE f],
     tokens |-> [f \in TokenFields |-> IF f = "gen_ai_usage_input_tokens" THEN 5 ELSE 0],
     body |-> bodies @@ [f \in BodyFields |-> None], attributes |-> attributes]

NoAttributes == [key \in {} |-> ""]
TwoBodies == [input_body |-> [json |-> "{}"], tool_output |-> [json |-> "[]"]]

MCRawSpans ==
    {Raw(status, bodies, attributes) : status \in {"ok", "timeout", "odd"},
        bodies \in {NoAttributes, TwoBodies},
        attributes \in {NoAttributes, "app.tag" :> "x", "halley.run.kind" :> "agent"}}
    \cup {Raw("ok", NoAttributes, "input_body" :> "hello"),
          [Raw("ok", TwoBodies, NoAttributes) EXCEPT !.run_id = <<3, 3>>],
          [Raw("error", TwoBodies, NoAttributes) EXCEPT !.texts["gen_ai_operation"] = "invoke_agent"],
          [Raw("ok", TwoBodies, NoAttributes) EXCEPT !.ids["span_id"] = <<1>>]}
=============================================================================
