------------------------------- MODULE Replay -------------------------------
(***************************************************************************)
(* `halley record` and `halley ci`: the Python shim that records the calls *)
(* of an agent to the model provider as a cassette, or answers them from   *)
(* one, and the command that replays every fixture and gives the verdict.  *)
(*                                                                         *)
(* An agent is a program for each of its threads: the prompts it sends,    *)
(* one after the other.  A request is a prompt and, if the prompt is       *)
(* chained, the answer its thread got last; its match key is the request   *)
(* itself.  An answer is the set of its typed key paths, which is all that *)
(* the schema invariants see of it; ProviderError is an error response.    *)
(* Agent, OpenAI client and provider are external.                         *)
(***************************************************************************)
EXTENDS Integers, Sequences, FiniteSets, SequencesExt

CONSTANTS
    Threads, Main,    \* the threads of the agent, and its main thread
    Prompts,          \* what a program can send
    Chained,          \* the prompts that carry the thread's last answer
    Irreversible,     \* the prompts that declare a tool marked irreversible
    Programs,         \* the versions of the agent: Threads -> Seq(Prompts)
    Answers,          \* what the provider can answer
    ProviderError,    \* the body of an error response
    TokensOf,         \* the tokens of each answer
    MaxTries,         \* how often the OpenAI client sends a request that fails
    MaxProcesses      \* the bound on agent processes

ASSUME ReplayAssumption ==
    /\ Main \in Threads
    /\ Chained \subseteq Prompts /\ Irreversible \subseteq Prompts
    /\ Programs \subseteq [Threads -> Seq(Prompts)]
    /\ ProviderError \in Answers
    /\ TokensOf \in [Answers -> Nat]
    /\ MaxTries \in Nat \ {0} /\ MaxProcesses \in Nat

\* What a thread has before its first answer.
NoAnswer == {}

Keys == [prompt : Prompts, last : Answers \cup {NoAnswer}]

VARIABLES
    program,     \* the agent's code in the working tree
    dir,         \* the fixtures directory, in the order of the file names
    ci           \* the halley command in progress

VARIABLES
    thread,      \* the agent's threads
    cursors,     \* Cassette._cursors
    log,         \* _observations when recording, _served when replaying
    written,     \* _written
    file,        \* served.json
    now          \* the clock

VARIABLES
    missed,      \* history: the threads of the process that met a miss
    sent,        \* history: the requests that went to the provider in the
                 \*   process, and the tokens they cost
    processes    \* how many agent processes there have been

processVars == <<thread, cursors, log, written, file, now, missed, sent>>
vars == <<program, dir, ci, processVars, processes>>

Modes == {"record", "pure", "hybrid"}

Observation == [key : Keys, out : Answers, begin : Nat, end : Nat]
Served == [key : Keys, out : Answers, begin : Nat, end : Nat,
           source : {"cassette", "live"}, index : Nat]
Fixture == [obs : Seq(Observation), of : Programs, clean : BOOLEAN]
Codes == {0, 1, 78, 79}
Command == [pc : {"idle", "loop", "agent", "judge"}, mode : Modes, allow : BOOLEAN,
            todo : Seq(Fixture), failed : BOOLEAN, code : Codes,
            verdict : {"none", "passed", "failed"}]
ThreadState == [pc : {"ready", "found", "taken", "live", "ended"}, step : Nat \ {0},
                last : Answers \cup {NoAnswer}, tries : 1 .. MaxTries, cursor : Nat,
                begin : Nat, code : Codes]

TypeOK ==
    /\ program \in Programs
    /\ dir \in Seq(Fixture)
    /\ ci \in Command
    /\ thread \in [Threads -> ThreadState]
    /\ DOMAIN cursors \subseteq Keys /\ cursors \in [DOMAIN cursors -> Nat]
    /\ log \in Seq(Served)
    /\ written \in BOOLEAN
    /\ file \in [exists : BOOLEAN, served : Seq(Served)]
    /\ now \in Nat
    /\ missed \subseteq Threads
    /\ sent \in [prompts : SUBSET Prompts, tokens : Nat]
    /\ processes \in 0 .. MaxProcesses

-----------------------------------------------------------------------------
(* Invariants: what infer_invariants takes from a recording, and how       *)
(* evaluate_invariants checks it.  Every operation the shim records is     *)
(* "chat", so the sequences of operations agree when the counts do.        *)

\* The sum of a sequence of numbers.
Total(ns) ==
    LET sum[n \in 0 .. Len(ns)] == IF n = 0 THEN 0 ELSE sum[n - 1] + ns[n]
    IN  sum[Len(ns)]

Tokens(s) == Total([i \in DOMAIN s |-> TokensOf[s[i].out]])
LiveTokens(s) ==
    Total([i \in DOMAIN s |-> IF s[i].source = "live" THEN TokensOf[s[i].out] ELSE 0])
Durations(s) == Total([i \in DOMAIN s |-> s[i].end - s[i].begin])

\* max(end_times) - min(start_times)
WallClock(obs) ==
    (CHOOSE m \in {o.end : o \in ToSet(obs)} : \A o \in ToSet(obs) : o.end <= m)
    - (CHOOSE m \in {o.begin : o \in ToSet(obs)} : \A o \in ToSet(obs) : m <= o.begin)

\* The cost bound: n with a headroom of 20 per cent.
Within(x, n) == 5 * x <= 6 * n

\* Mutant: below the bound, not at it, and without headroom.
Below(x, n) == x < n

\* The latency bound is rounded: round(n * 1.2).
WithinRounded(x, n) == x <= (12 * n + 5) \div 10

SpanCount(obs, served) == Len(served) = Len(obs)

Schema(obs, served) ==
    \A i \in 1 .. Len(obs) : i <= Len(served) /\ obs[i].out \subseteq served[i].out

\* Mutant: the cost of a hybrid run is that of its hits.
CostOfHits(obs, served) ==
    /\ Tokens(served) - LiveTokens(served) <= (6 * Tokens(obs)) \div 5 + 1
    /\ WithinRounded(Durations(obs), WallClock(obs))

\* The latency is that of the recording: the sum of its durations, against
\* its wall clock.
Metric(obs, served) ==
    /\ Tokens(served) <= (6 * Tokens(obs)) \div 5 + 1
    /\ WithinRounded(Durations(obs), WallClock(obs))
    /\ LiveTokens(served) > 0 => Within(LiveTokens(served), Tokens(obs))

Evaluate(obs, served) ==
    SpanCount(obs, served) /\ Schema(obs, served) /\ Metric(obs, served)

-----------------------------------------------------------------------------

Resting == [pc |-> "ended", step |-> 1, last |-> NoAnswer, tries |-> 1,
            cursor |-> 0, begin |-> 0, code |-> 0]

NoFile == [exists |-> FALSE, served |-> << >>]
NothingSent == [prompts |-> {}, tokens |-> 0]

Init ==
    /\ program \in Programs
    /\ dir = << >>
    /\ ci = [pc |-> "idle", mode |-> "pure", allow |-> FALSE, todo |-> << >>,
             failed |-> FALSE, code |-> 0, verdict |-> "none"]
    /\ thread = [t \in Threads |-> Resting]
    /\ cursors = << >>
    /\ log = << >> /\ written = FALSE /\ file = NoFile
    /\ now = 0 /\ missed = {} /\ sent = NothingSent
    /\ processes = 0

\* The memory of a process that is gone.
Gone ==
    /\ thread' = [t \in Threads |-> Resting]
    /\ cursors' = << >> /\ log' = << >> /\ written' = FALSE /\ file' = NoFile
    /\ now' = 0 /\ missed' = {} /\ sent' = NothingSent

Cassette == IF ci.mode = "record" THEN << >> ELSE Head(ci.todo).obs

\* The agent starts with the shim in it: patch() of recorder or replayer.
Launch(cassette) ==
    /\ processes < MaxProcesses
    /\ processes' = processes + 1
    /\ thread' = [t \in Threads |-> [Resting EXCEPT !.pc = "ready"]]
    /\ cursors' = [k \in {o.key : o \in ToSet(cassette)} |-> 0]
    /\ log' = << >> /\ written' = FALSE /\ file' = NoFile
    /\ now' = 0 /\ missed' = {} /\ sent' = NothingSent
    /\ UNCHANGED <<program, dir>>

-----------------------------------------------------------------------------
(* The shim in a thread of the agent.                                      *)

Prompt(t) == program[t][thread[t].step]

Key(t) == [prompt |-> Prompt(t),
           last |-> IF Prompt(t) \in Chained THEN thread[t].last ELSE NoAnswer]

\* _key_to_indices, and what a cursor n finds in it.
Matching(key) == {i \in DOMAIN Cassette : Cassette[i].key = key}
Nth(S, n) == CHOOSE i \in S : Cardinality({j \in S : j < i}) = n

Calls(t) ==
    /\ ci.pc = "agent" /\ thread[t].pc = "ready"
    /\ thread[t].step <= Len(program[t])

\* Cassette.lookup finds an observation that the cursor has not passed.
Found(t) ==
    /\ ci.mode # "record"
    /\ Key(t) \in DOMAIN cursors
    /\ cursors[Key(t)] < Cardinality(Matching(Key(t)))

\* Mutant: the guard knows the tools of a thread's first request only.
RefusedOnce(t) ==
    ci.mode = "hybrid" /\ Prompt(t) \in Irreversible /\ thread[t].step = 1 /\ ~ci.allow

\* _check_irreversible_tool
Refused(t) == ci.mode = "hybrid" /\ Prompt(t) \in Irreversible /\ ~ci.allow

Frame == UNCHANGED <<program, dir, ci, processes>>

\* lookup: the cursor is read,
Look(t) ==
    /\ Calls(t) /\ Found(t)
    /\ thread' = [thread EXCEPT ![t] = [@ EXCEPT !.pc = "found", !.cursor = cursors[Key(t)]]]
    /\ Frame /\ UNCHANGED <<cursors, log, written, file, now, missed, sent>>

\* Mutant: the cursor stays where it is.
Stay(t) ==
    /\ thread[t].pc = "found"
    /\ thread' = [thread EXCEPT ![t].pc = "taken"]
    /\ Frame /\ UNCHANGED <<cursors, log, written, file, now, missed, sent>>

\* and stored one further; another thread may have read it in between.
Advance(t) ==
    /\ thread[t].pc = "found"
    /\ cursors' = [cursors EXCEPT ![Key(t)] = thread[t].cursor + 1]
    /\ thread' = [thread EXCEPT ![t].pc = "taken"]
    /\ Frame /\ UNCHANGED <<log, written, file, now, missed, sent>>

\* The thread goes on with the answer to its request.
Answered(self, answer) ==
    [self EXCEPT !.pc = "ready", !.step = @ + 1, !.last = answer, !.tries = 1]

\* The body is loaded, the call is logged and a response with status 200 made.
Serve(t) ==
    LET index == Nth(Matching(Key(t)), thread[t].cursor)
        out   == Cassette[index].out
    IN
    /\ thread[t].pc = "taken"
    /\ log' = Append(log, [key |-> Key(t), out |-> out, begin |-> now, end |-> now,
                           source |-> "cassette", index |-> index])
    /\ thread' = [thread EXCEPT ![t] = Answered(@, out)]
    /\ Frame /\ UNCHANGED <<cursors, written, file, now, missed, sent>>

\* A history of the fixture: whether one thread made it and nothing went wrong.
Sequential == \A t \in Threads \ {Main} : program[t] = << >>

Clean == /\ Sequential
         /\ thread[Main].step > Len(program[Main])
         /\ \A e \in ToSet(log) : e.out # ProviderError

\* write_fixture, with the observations of the recorder or of a hybrid run.
NewFixture ==
    [obs |-> [i \in DOMAIN log |-> [key |-> log[i].key, out |-> log[i].out,
                                    begin |-> log[i].begin, end |-> log[i].end]],
     of |-> program, clean |-> Clean]

\* <slug>-hybrid-<time>.json comes right before <slug>.json.
HybridCassette ==
    LET before == Len(dir) - Len(ci.todo)
    IN SubSeq(dir, 1, before) \o <<NewFixture>> \o SubSeq(dir, before + 1, Len(dir))

\* _write_served: once in a process.
WriteServed ==
    /\ written' = TRUE
    /\ IF written THEN UNCHANGED <<file, dir>>
       ELSE /\ file' = [exists |-> TRUE, served |-> log]
            /\ dir' = IF \E e \in ToSet(log) : e.source = "live" THEN HybridCassette
                      ELSE dir

\* sys.exit: the exception ends its thread.
Exits(self, code) == [self EXCEPT !.pc = "ended", !.code = code]

\* A miss in pure mode, or one the guard refuses in hybrid mode.
Miss(t) ==
    /\ Calls(t) /\ ~Found(t) /\ ci.mode # "record"
    /\ ci.mode = "pure" \/ Refused(t)
    /\ thread' = [thread EXCEPT ![t] = Exits(@, IF ci.mode = "pure" THEN 78 ELSE 79)]
    /\ missed' = missed \cup {t}
    /\ WriteServed
    /\ UNCHANGED <<program, ci, processes, cursors, log, now, sent>>

\* The request goes to the provider.
GoLive(t) ==
    /\ Calls(t) /\ ~Found(t)
    /\ ci.mode = "record" \/ (ci.mode = "hybrid" /\ ~Refused(t))
    /\ thread' = [thread EXCEPT ![t] = [@ EXCEPT !.pc = "live", !.begin = now]]
    /\ sent' = [sent EXCEPT !.prompts = @ \cup {Prompt(t)}]
    /\ Frame /\ UNCHANGED <<cursors, log, written, file, now, missed>>

\* What the OpenAI client makes of an answer of the provider.
Received(self, answer) ==
    IF answer # ProviderError THEN Answered(self, answer)
    ELSE IF self.tries < MaxTries THEN [self EXCEPT !.pc = "ready", !.tries = @ + 1]
    ELSE Exits(self, 1)

\* The answer is logged with its time and handed to the client.
LiveAnswer(t, answer) ==
    /\ thread[t].pc = "live"
    /\ now' = now + 1
    /\ log' = Append(log, [key |-> Key(t), out |-> answer, begin |-> thread[t].begin,
                           end |-> now + 1, source |-> "live", index |-> 0])
    /\ sent' = [sent EXCEPT !.tokens = @ + TokensOf[answer]]
    /\ thread' = [thread EXCEPT ![t] = Received(@, answer)]
    /\ Frame /\ UNCHANGED <<cursors, written, file, missed>>

\* No response: the original send raises, and nothing is logged.
ConnectionFails(t) ==
    /\ thread[t].pc = "live"
    /\ thread' = [thread EXCEPT ![t] = Received(@, ProviderError)]
    /\ Frame /\ UNCHANGED <<cursors, log, written, file, now, missed, sent>>

Finish(t) ==
    /\ ci.pc = "agent" /\ thread[t].pc = "ready"
    /\ thread[t].step > Len(program[t])
    /\ thread' = [thread EXCEPT ![t].pc = "ended"]
    /\ Frame /\ UNCHANGED <<cursors, log, written, file, now, missed, sent>>

Shim(t) ==
    \/ Look(t) \/ Advance(t) \/ Serve(t) \/ Miss(t) \/ GoLive(t) \/ Finish(t)
    \/ ConnectionFails(t) \/ \E a \in Answers : LiveAnswer(t, a)

\* The exit code: that of the main thread, which may or may not ask how the
\* others ended.
ExitCodes ==
    IF thread[Main].code # 0 THEN {thread[Main].code}
    ELSE {thread[t].code : t \in Threads}

AgentDone == ci.pc = "agent" /\ \A t \in Threads : thread[t].pc = "ended"

\* The interpreter has waited for the threads and runs _on_exit: of the
\* recorder,
ExitRecorded ==
    /\ AgentDone /\ ci.mode = "record"
    /\ dir' = IF log = << >> THEN dir ELSE <<NewFixture>>
    /\ ci' = [ci EXCEPT !.pc = "idle"]
    /\ Gone /\ UNCHANGED <<program, processes>>

\* or of the replayer.
Exit(code) ==
    /\ AgentDone /\ ci.mode # "record"
    /\ WriteServed
    /\ ci' = [ci EXCEPT !.pc = "judge", !.code = code]
    /\ UNCHANGED <<program, processes, thread, cursors, log, now, missed, sent>>

-----------------------------------------------------------------------------
(* halley record, halley ci, and edits of the agent.                       *)

Edit(p) ==
    /\ ci.pc = "idle"
    /\ p # program
    /\ program' = p
    /\ ci' = [ci EXCEPT !.verdict = "none"]
    /\ UNCHANGED <<dir, processVars, processes>>

\* cmd_record, into a directory without fixtures.
Record ==
    /\ ci.pc = "idle" /\ dir = << >>
    /\ Launch(<< >>)
    /\ ci' = [ci EXCEPT !.pc = "agent", !.mode = "record", !.allow = FALSE,
                       !.verdict = "none"]

\* cmd_ci: the fixtures are listed, (--allow-irreversible is for hybrid mode),
Start(mode, allow) ==
    /\ ci.pc = "idle"
    /\ allow => mode = "hybrid"
    /\ ci' = [pc |-> "loop", mode |-> mode, allow |-> allow, todo |-> dir,
              failed |-> FALSE, code |-> 0, verdict |-> "none"]
    /\ UNCHANGED <<program, dir, processVars, processes>>

\* the agent is launched for each,
Replays ==
    /\ ci.pc = "loop" /\ ci.todo # << >>
    /\ Launch(Head(ci.todo).obs)
    /\ ci' = [ci EXCEPT !.pc = "agent"]

\* Mutant: the exit code of the agent is not looked at.
AgentPassed == file.exists /\ Evaluate(Cassette, file.served)

FixturePassed == ci.code = 0 /\ file.exists /\ Evaluate(Cassette, file.served)

\* its invariants are evaluated when it has exited,
Judge ==
    /\ ci.pc = "judge"
    /\ ci' = [ci EXCEPT !.pc = "loop", !.todo = Tail(@), !.failed = @ \/ ~FixturePassed,
                       !.code = 0]
    /\ Gone /\ UNCHANGED <<program, dir, processes>>

\* and the verdict is the exit code; without fixtures it is a pass.
Verdict ==
    /\ ci.pc = "loop" /\ ci.todo = << >>
    /\ ci' = [ci EXCEPT !.pc = "idle", !.verdict = IF ci.failed THEN "failed" ELSE "passed"]
    /\ UNCHANGED <<program, dir, processVars, processes>>

Next ==
    \/ \E t \in Threads : Shim(t)
    \/ \E code \in ExitCodes : Exit(code)
    \/ \E p \in Programs : Edit(p)
    \/ \E mode \in {"pure", "hybrid"}, allow \in BOOLEAN : Start(mode, allow)
    \/ ExitRecorded \/ Record \/ Replays \/ Judge \/ Verdict

Spec == Init /\ [][Next]_vars

-----------------------------------------------------------------------------
(* Safety.                                                                 *)

\* Pure mode sends nothing to the provider, and hybrid mode nothing that
\* declares an irreversible tool, unless --allow-irreversible was given,
\* whatever the threads do (replayer.py lines 140-157 and 215-238).
NothingUnwantedIsSent ==
    ci.pc \in {"agent", "judge"} =>
        /\ ci.mode = "pure" => sent.prompts = {}
        /\ ci.mode = "hybrid" /\ ~ci.allow => sent.prompts \cap Irreversible = {}

\* Two threads can send the request.
Shared(key) == \E t, u \in Threads :
    t # u /\ key.prompt \in ToSet(program[t]) \cap ToSet(program[u])

\* The calls with a key that were answered from the cassette.
Hits(key) == {i \in DOMAIN log : log[i].key = key /\ log[i].source = "cassette"}

\* The calls with one key are answered with the observations of that key, in
\* their order, if one thread makes them (replayer.py lines 64-75,
\* fixture-format.md section 3.4).
OrdinalServing ==
    ci.pc \in {"agent", "judge"} => \A i \in DOMAIN log :
        LET key == log[i].key
            rank == Cardinality({j \in Hits(key) : j < i})
        IN i \in Hits(key) /\ ~Shared(key) =>
               /\ rank < Cardinality(Matching(key))
               /\ log[i].index = Nth(Matching(key), rank)

\* A cassette that one thread recorded to its end without an error response
\* replays to a pass, at no cost, while the agent stays as it is; also one
\* that a hybrid run wrote (recorder.py, replayer.py, invariants.py).
UnchangedAgentPasses ==
    ci.pc = "judge" /\ Head(ci.todo).clean /\ Head(ci.todo).of = program =>
        FixturePassed /\ sent = NothingSent

Sends(p) == Cardinality({i \in DOMAIN program[Main] : program[Main][i] = p})
Recorded(f, p) == Cardinality({i \in DOMAIN f.obs : f.obs[i].key.prompt = p})

\* When halley ci passes in pure mode, an agent of one thread makes exactly
\* the calls that every fixture of the directory holds: neither a miss nor an
\* observation nobody asked for goes unnoticed (main.rs lines 282-471).
GreenMeansRecorded ==
    ci.verdict = "passed" /\ ci.mode = "pure" /\ Sequential =>
        \A f \in ToSet(dir) : \A p \in Prompts : Sends(p) = Recorded(f, p)

\* What a hybrid run that passes has spent is within the bound of the
\* fixture, unless a thread ended at the guard and the rest was not written
\* to served.json (invariants.py lines 157-178).
SpendIsBounded ==
    ci.pc = "judge" /\ FixturePassed /\ missed = {} =>
        sent.tokens = 0 \/ Within(sent.tokens, Tokens(Cassette))
=============================================================================
