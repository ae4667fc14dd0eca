# Halley in TLA+

Halley records what an LLM agent does, shows it, turns a run into a regression
test and replays that test in CI. This directory models the parts of it in
which order, failure and concurrency decide whether it is right: the check of API
keys and the normalisation of spans, their ingestion and their way to an open run
page, the promotion of a run to a fixture, the record/replay shim with
`halley ci`, the bisect search, and the jobs of the host worker with the commands
they start. The models are checked by TLC on small instances; theorems about each of
them are proved with TLAPS for every value of the constants.

All paths below are relative to the repository; line numbers are those of the
commit that was modelled.

## 1. The system

| Part | State | Operations | Where it is hard |
|---|---|---|---|
| **Ingestion** `ingester/src/{http,grpc,pipeline,storage}`, `main.rs` | Redis stream `halley:spans` with its consumer group, the dead-letter stream, ClickHouse rows, the writer's batch and attempt counter | receive (OTLP over HTTP and gRPC, one span over JSON), publish, read, decode, insert bodies and observations, announce, acknowledge, give up, stop, restart | every call may fail after it took effect; two inserts are not one; a crash or stop between any two steps; an outage without end |
| **Live view** `dashboard/.../live/route.ts`, `useLiveSpans.ts`, the run page | a Redis subscriber per EventSource, the EventSource with a generation counter and a backoff timer, the rows rendered by the server, the spans collected since | render, refresh, connect, relay, collect, reconnect, clean up | gaps before SUBSCRIBE and while disconnected, stale callbacks and timers, a refresh whose query is older than the spans, a subscriber nobody closes |
| **API keys** `ingester/src/auth.rs`, `dashboard/.../settings/keys` | rows in Postgres, a 60-second cache in Redis | create, validate, revoke | the cache is not told of a revocation; a row that was read is stored later; Redis or Postgres fails in the check |
| **Normalizers** `ingester/src/normalizer`, `domain` | none | attributes of five dialects, or a JSON span, to one row and its bodies | which dialect wins when a span fits two; what is consumed and what is kept; the project of the payload against that of the key |
| **Fixture promotion** `dashboard/src/app/api/fixtures`, the editor, `worker/src/jobs/{invariant-infer,fixture-write}.ts` | `fixtures` rows, two BullMQ queues, the editor's copy of the invariants, files in the repository | click, infer, open, edit, save, write | clicks that overlap, inference that races an edit, a worker that dies between file and row |
| **Record/replay shim** `sdk-py/halley_sdk` | the cassette and its cursors, the log of calls, `served.json` | record a call, serve a hit, miss, go live, refuse, write at exit | threads share the cursors; `sys.exit` in a thread; error responses and client retries |
| **`halley record`, `halley ci`** `cli/src/main.rs` | the fixtures directory, the verdict | launch, replay each fixture, evaluate, exit code | cassettes that a hybrid run adds are fixtures of the next run |
| **`halley bisect`** `cli/src/main.rs` 580-860 | the user's working tree, the bounds | checkout, test three times, narrow, confirm, restore | flaky commits, failed checkouts, two bisects in one tree, being killed |
| **Host worker** `worker/src/index.ts`, `jobs/{ci,bisect}-run.ts`, `heartbeat.ts` | `ci_runs` and `bisect_jobs` rows, BullMQ states and locks, the heartbeat key, one working tree for all its children | enqueue, take, run the CLI, write the result, finish, stop; refresh and delete the heartbeat | stalls and the second run of a job, database errors, children that a dead worker leaves behind, two workers and one key |
| **Canonical JSON** `halley-canonical`, `domain/canonical.rs`, `canonical.py` | none | one hash for equal values in three languages | formatting of numbers and strings |
| **Query, pages, login, middleware, configuration, telemetry** | none that is written | read and render, check a token | - |

They meet in few places. Agents reach the ingester over OTLP; the ingester's
handlers and its writer share only the Redis stream; the writer announces rows
to the live view over Redis pub/sub. The dashboard and the worker share Postgres
rows and BullMQ queues: the dashboard inserts a row and enqueues, the worker
takes the job, runs `halley ci` or `halley bisect` as a child process and
updates the row. The two queues of a worker run side by side, and their children
share the repository it was started for. `halley bisect` runs `halley ci` for each probe, and
`halley ci` runs the agent with the shim in it. Fixture files are the contract
between the worker and the shim.

What makes each part correct:

* keys and normalisers: a revoked key is shut out in bounded time and for good, an
  active one is refused by a fault only; rows are in the project of the key; one
  call gives one row whoever reports it, and no attribute is lost;
* ingestion: what is acknowledged can be queried in full or was given up on;
  nothing is announced before it is stored; an outage costs no span; a stop ends;
* live view: a page has one stream or one retry; it shows a span once for each stored copy and keeps what it
  has shown; what is sent to it arrives; it comes back after a failure, and a subscriber is
  freed when its page has gone;
* promotion: a run has one fixture; a stored edit stays; what the row calls
  ready is on disk, whole and not stale;
* shim and CI: nothing is sent that the mode forbids; one thread gets the
  recorded answers in their order; an unchanged agent passes; a pass means what
  it says; spend has a bound;
* bisect: the commit it reports failed and the one before it passed; it finds a
  lasting regression; it ends, in logarithmically many probes; it puts the tree back;
* worker: queue and row agree; a job settles; results change after a stall only;
  the heartbeat says whether a runner is there; what a row reports is true of the
  repository, and the repository is back on its branch.

`PROJECT.json` lists under `hazards` where in the code these are at risk.

## 2. Modules

| Module | Models | Proofs |
|---|---|---|
| `SpanPipeline` | the ingester process: receivers, writer, start, stop, crash | `SpanPipelineProofs` |
| `SpanDelivery` | what ingestion promises, abstractly | `SpanPipelineRefines` |
| `Receiver` | API keys and the requests that carry them, up to publishing | `ReceiverProofs` |
| `Normalizer` | detection, the five adapters, `into_rows`: operators | `ReceiverProofs` |
| `Instrumentations` | external: how each dialect writes down a call | - |
| `LiveSpans` | the run page, its EventSource, the live route and its subscribers | `LiveSpansProofs` |
| `FixturePromotion` | click, inference, editor, write job | `FixturePromotionProofs` |
| `Replay` | shim, `halley record`, `halley ci` | `ReplayProofs` |
| `Bisect` | `halley bisect`, several invocations in one tree | `BisectProofs` |
| `RunnerJobs` | the jobs of the host worker and the heartbeat | `RunnerProofs` |
| `HostRunner` | `RunnerJobs` with `Bisect` as its children, in one tree | `RunnerProofs` |
| `MC...` | values for the constants, for TLC | |

**SpanPipeline.** A stream entry is its position in `stream`; the consumer group
is `delivered` (the last position handed out) and `pel`. `handler[r]` is the
progress of one export request: its spans are normalised and published one after
the other, so that handlers interleave with each other and with the writer.
`pc` is the await point of `Writer::run` where the writer stands, one action for
each way that await can end: success, error without effect, error although it
took effect (`"xack"`, `"read"`, `"xadd"`, `"transient"`). The insert loop keeps
the code's two inserts, its rule that the first error decides
(`Result::and`), and the two ways of counting: `attempt` counts permanent
errors only. `server` and `shutdown` are `main()`: the HTTP server drains, then
the writer is told. A crash at any step forgets the process and leaves Redis
and ClickHouse. `dlqLost` keeps the entries whose dead-letter write failed,
which the code acknowledges all the same.

**SpanDelivery.** Five variables and five actions: accept, take in order, store,
refuse, settle. `SpanPipeline` implements it with `accepted <- stream`,
`taken <- delivered`, `owed <- pel`, `readable <- {s : Durable(s)}` and
`refused <- dlq \cup dlqLost`, under every failure.

**Receiver.** A key stands for its hash, `keys` is the table, `cache` with `ttl` is
Redis. `pc[r]` is the await where request `r` stands in `validate_token`: `"cache"`
(connect and GET), `"table"` (the query) and `"fill"` (SETEX); then `"spans"`, where
its spans are normalised and published one after the other. Between any two of
these a key can be made or revoked, and time can pass. A failed connection and a
failed query both end in 401 and a failed GET in a query, as in the code. Clients send
one span over JSON or any number over OTLP; `last` is the span published by the last step,
with the key that sent it, which the properties about rows look at. `age` and
`lateFill` are history: how long a key has been revoked, and whether a request that
had read its row before stored it in the cache afterwards. `SpanPipeline` takes over where this module
publishes, and has what it leaves out: answers, the stream, several requests at once.

**Normalizer.** Pure operators. The attributes of a span are a function from keys to
values, an adapter is an operator from a span to a record of columns. `Texts` and `Tokens` read
tables of keys, the first that is there wins, which is what the adapters'
closures do one column at a time. `RawSpanToOtlp` and `ProtoSpanToOtlp` are the two ways in,
`IntoRows` the way out. `FormerRows` is `TryFrom<RawSpan>`, the conversion that
the normalizer replaced and that the code still has: the reference for the JSON route.
`Instrumentations` is the reference for the OTLP ones: it says what the attributes are (`AttributesIn`) by
which each of the four dialects reports one and the same call, from what the adapters expect, and when the
attributes of a span report a call (`Tells`): those are there, and of the others that some
adapter reads only the gen_ai.* ones of the same call. `ExportAssumption` of `Receiver` says that an
export which is given with a call reports it.

**LiveSpans.** One page is open at a time. `page`, `rows`, `fetching` and `spans` are
what it shows: the rows the server rendered, a `router.refresh()` on its way, the list of
the hook. Rows are a multiset (`Rows`): `stored` counts the copies of a span in ClickHouse, where an
insert whose error came late or a repeated export leaves one more (`StoreAgain`; `RowsRepeatOnlyAfterErrors` of
`SpanPipeline` bounds them), and `Found` is what `getRunDetail` makes of them, a row for each. `stream`, `timer`, `delay` and `connState` are the hook's refs and its badge.
The code stamps each callback and timer with a generation and compares it with the newest;
here each carries the flag `fresh`, which a new generation takes from all the
older ones, so that no counter needs a bound. `conn[c]` is one connection with its two ends:
the EventSource, the frames on the wire, the response's controller, the ioredis subscriber and its
commands that are not answered yet. An ended connection whose subscriber is gone is
forgotten (`Tidy`), so that a few of them stand for any number in turn. The
middleware is its admission rule, `Admitted`: a session that has ended turns the EventSource's request into a
redirect, which is an error to it. ioredis and EventSource are external. The
ingester is `Store`, then `Announce` as often as the writer retries: `LiveIsDurable` of
`SpanPipeline` is the order of the two. Pages are rendered with
identifiers in upper case and announced with lower case (`run-queries.ts`,
`storage/redis.rs`), which is why `New` compares as the code does, by `ToUpperCase`.

**FixturePromotion.** A fixture is named by the click whose POST inserted it. The
POST is three steps (SELECT, INSERT, enqueue), because other requests run in its
awaits. Invariants are version numbers: `Empty`, `Inferred`, then what users
type. The editor holds a copy that it loaded once. The write job loads the row,
writes the files and updates the row in three steps; a crash in the second can
leave an incomplete index file. `Blocked` is the path that the code derives from
`repo_path`.

**Replay.** The agent is external: a program of prompts for each thread. A
request's match key is the request, which for a chained prompt holds the answer
got last, so a changed answer changes later keys. An answer is its set of typed
key paths, which is all the schema invariants see. `Look` and `Advance` are the
two halves of `Cassette.lookup`, between which other threads run. Error
responses make the client try again, as the OpenAI client does. At exit
`WriteServed` writes `served.json` and, if there were live calls, a new cassette
into the fixtures directory; the command judges the exit code, the file and the
invariants, and goes on with the next fixture of the list it made at the start.
Tokens stand for cost (one model, one price).

**Bisect.** A commit is its position on the branch; `verdicts[c]` holds the
answers the tests can give there, so a flaky commit has both. A probe checks out,
runs the tests up to `TRIES` times, and narrows; each checkout may fail, and then
the tests run on what the tree holds (`clean` remembers that). Invocations
share `head`; nothing in the code keeps them apart. `Kill` ends one by a signal, `Abort` by a panic: `eprintln!` panics
when whoever read stderr is gone, `restore_repo` is called in one place at the end and by no `Drop`, so either leaves the tree
where it was. `Prints` says before which steps a line is due.

**RunnerJobs.** `row` is Postgres, `queue`, `stalls` and `owner` are BullMQ,
`pc` is where the processor stands and `orphans` counts CLI children without a
worker. BullMQ is modelled from how the code configures it: a job is tried once,
a job whose worker died stalls, is handed out once more, and is failed by BullMQ
itself at the second stall, which writes no row. `faults` is bounded kind by kind and,
by `MaxInAll`, in all.

**HostRunner.** The composition: each hand-out of a bisect job has a CLI child
`<<job, stalls>>`, which is an invocation of `Bisect` (`Git`), and `halley ci` tests
whatever commit is checked out. `Spawn` is the step of `RunnerJobs` that starts the child together with
the child's own first look at the tree; then children step by themselves, time out (`execFile`
kills them), or are left by their worker (`orphans` counts them, `AtWork` says which they are). `execFile` holds
both outputs of a child in pipes, which break with the worker: a bisect that nobody hears (`Unheard`) goes on with the tests it is
at, and ends with its next line (`OrphanAborts`). `Record` takes the reported commit over into the row. So two
bisects overlap only as they can in the program: when a job is handed out again before its first child has come to that line.

## 3. What TLC checks

There is one run for each question; all pass with the bounds below except the
two of kind *violation*, which show a disagreement between code and comment.
States are distinct states.

| Run | Question | Bounds | States |
|---|---|---|---|
| `span_process` | Redis and the process fail: is anything acknowledged lost, is `SpanDelivery` implemented? | a batch request with two spans and a JSON one, three spans, two bodies, one of them shared; batches of 2; one failure of each Redis call, one crash, one refused insert | 987 460 |
| `span_storage` | ClickHouse fails: is anything announced too early, dead-lettered by an outage, duplicated without an error? | two requests, an outage, a late error, three refusals with `MAX_RETRIES` = 2 | 781 664 |
| `span_liveness` | Does every entry settle while ClickHouse keeps coming back, but for the entries that named faults leave pending; does a stop end the writer during an outage without end? | a JSON and a gRPC request, two spans, one of which does not decode; one each of an outage, a stop, a crash, a failed connection, a failed XGROUP CREATE, a lost read and a failed XACK; refusals and late errors are in `span_storage` | 292 952 |
| `span_redelivery` (violation) | Are entries that a stop left pending read again, as `writer.rs` 26-27 says? | one request, one outage, one stop | |
| `receiver_keys` | When is a revoked key shut out, whose project do rows get, and does a call give the same row in every dialect? | one request at a time, a dev and a team key, a TTL of 2 ticks, any failure; 28 reports of calls, 6 odd spans, 22 JSON spans; `TwoTo32` = 16, ids of 2 bytes | 18 428 |
| `bisect_search` | Does a bisect find the regression, in logarithmically many probes, and end? | 5 commits with every assignment of stable and flaky verdicts, one failure of each kind and three in all | 167 046 |
| `runner_jobs` | Do queue and row agree, do jobs settle, is a live runner seen, and what do crashes and stops cost? | a CI and a bisect job, two workers, at most two faults, which may be two crashes | 128 334 |
| `host_runner` | When jobs share a tree, is what their rows report true, and does the tree come back? | a CI and a bisect job, one worker, one of crash, stop and missing runner; one of failed checkout, failed restore and timeout; 3 commits, broken at the last or the one before | 939 463 |
| `live_spans` | Does a page show each span once per copy and for good, does it come back after failures, are subscribers freed? | two spans, two connections at a time, one frame on the wire; at most two faults among a session's end, a broken connection, a lost Redis, its giving up and a second copy of a span; `INIT_DELAY` = 1, `MAX_DELAY` = 2 | 256 245 |
| `promotion_clicks` | Two clicks, edits and writes with failures anywhere: one fixture, no lost edit, an honest `ready`? | two clicks on one run, one tab, one edit, two writes, one failure of each kind | 1 956 657 |
| `promotion_edits` (violation) | Does an edit reach the repository the second time too? | one click, one edit, two writes, no failure | |
| `replay_ci` | Record, edit, replay in both modes: what may be sent, what does a pass mean? | four programs of up to two calls, one of them with two threads; three answers, two tries; three agent processes | 1 623 196 |

The bounds are chosen so that every step of the hazards happens. Three spans and
two bodies with one shared and one undecodable entry fill two batches, so that
bodies are stored by another batch than the one that needs them. `MAX_RETRIES`
is 1 or 2 where the code has 3: the counter has a value below, at and past the
limit. Two crashes are what a job needs to be failed by BullMQ; with at most two faults
`runner_jobs` has every pair of kinds. One crash is what it takes for
a child to lose its worker and meet its successor in `host_runner`; three commits have one
before, at and after the probe. Two connections are a page's stream and one that is still being
closed; two spans are one before and one after a gap; the delay has its first and its largest
value. Five commits give the
search ranges of even and odd length and a probe on both sides. Three agent
processes are a recording, a hybrid run that adds a cassette, and the replay of either; two
prompts are a loop and a chained one. One request
at a time is enough in `receiver_keys` for what concerns a single one, since requests share only the cache and
the table; what several do to each other is in the theorems, which hold for any number. A
TTL of 2 ticks has an entry that is new, one that is older than a tick and one that is
gone. The proofs below lift the bounds for the properties they are about.

`CHECK_DEADLOCK FALSE` stands in the runs in which the system may come to rest:
the stopped ingester, bisects that have all ended, users who have used up their
clicks, edits and writes, and the bound on agent processes.

Each property of a passing run has a mutant in `PROJECT.json`: a change of the
modelled code under which TLC finds the property violated. The mutated
definitions stand next to the originals under the comment "Mutant:".

### Fairness

* Ingester (`Fairness` in `SpanPipeline`): WF of the writer's step, of each
  request and of the HTTP stop, since tokio polls a task whose await has
  completed and every await modelled here has an answer or an error; WF of the process's
  end once the writer has stopped, where `main()` returns (`main.rs:168-181`), and of the
  restart (`restart: unless-stopped` in `docker-compose.yml`). SF of the interrupted
  backoff: the `select!` may take the timer although the shutdown channel has
  changed, but finds it ready at its next poll, before a new timer can fire. That
  `main()` waits for the writer for ten seconds at most is not part of `Fairness`: it would make
  `ShutdownStopsWriter` hold by the timeout alone. `RecoveringSpec`, of `span_redelivery`, adds that ClickHouse
  recovers and that a process which is stopping ends, so that the run's counterexample goes through the end, the restart and
  a writer that reads again and again, but never what is pending. `EveryEntrySettles` has `[]<>chUp` as its
  hypothesis. Nothing else is assumed of clients or of ClickHouse.
* Bisect: a process that has started runs on.
* Live view (`Fairness` in `LiveSpans`): WF of the page's mount, timer and refresh, and for each connection
  of the browser's next event and of the route's next step: timers fire, events and frames are delivered, requests
  arrive, ioredis reconnects, the server notices a closed connection (the keepalive every
  25 seconds, `route.ts:49-52`, finds the ones that ended silently). Nothing is assumed of the
  user, of the session or of the ingester; `PageComesBack` has "from some time on the
  page stays open and admitted" as its hypothesis.
* Worker: awaits end, timers fire, BullMQ looks for stalled jobs; SF of the
  hand-out, because workers come and go. Starting a worker is up to the user:
  `EveryJobSettles` has "a worker is up again and again" as its hypothesis.
* Promotion (only for `promotion_edits`): requests under way are served, the worker
  takes its jobs; users need not do anything.

### Disagreements the runs show

* `span_redelivery`: the writer reads `>` only (`writer.rs:108`), so what was
  pending at a stop, a crash or a lost reply is never read again; `writer.rs:26-27`
  says it "will be re-delivered to the next consumer on restart".
* `promotion_edits`: after the first write `repo_path` names the index file
  (`fixture-write.ts:141, 260-273`), so the next write makes a directory below a
  regular file, throws, and no later edit reaches the repository.

### Other disagreements met while reading

These are small enough to see without a run, or have none of their own:

* `writer.rs:190`: both inserts are made even if the bodies failed, so
  observations can be stored without their bodies until the retry;
* `http/otlp.rs:112` answers 200 with no partial-success whatever was rejected;
* `writer.rs:147-155`: when the dead-letter write fails the entry is acknowledged
  all the same; `docs/ARCHITECTURE.md:152` says the dead-letter stream is there "so
  container restarts do not lose data";
* `writer.rs:197`: the transient backoff is computed from the count of permanent
  attempts, which transient errors do not raise, so during an outage it never grows
  (363);
* `writer.rs:75-92`: if the first connection fails the writer ends while the
  receivers go on; a failed XGROUP CREATE is ignored;
* `cli/src/main.rs:799` counts a commit as good when one of three tries passes,
  `758` says all must; `691` goes on when the good end fails, `675` says it verifies it; `740`
  is not reached when the worker's timeout kills the command (`bisect-run.ts:208`);
* `ci-run.ts:249`: a job whose worker died twice keeps a row that says `running`,
  against `docs/DECISIONS.md:1305-1306`;
* `replayer.py:70-74`: the cursor is read and stored in two steps, so threads can
  get the same observation; `docs/fixture-format.md` 3.4 promises determinism;
* `replayer.py:208` serves a recorded error response as status 200, so retries that
  are in the recording are not made again and its span count fails;
* `invariants.py:138` compares the sum of the durations with a bound made from the
  wall clock (`schema_inference.py:162`): a recording with overlapping calls fails itself;
* `replayer.py:430-440` notes the new cassette in `cost.json`, which `378-386` then
  overwrites: the summary never names it;
* `main.rs:258, 436`: a directory without fixtures passes, and so do results that
  cannot be parsed; `904` counts a result without `passed` as passed;
* `fixtures/route.ts:13` speaks of ON CONFLICT; there is neither the clause nor a
  unique index;
* `ci/route.ts:70` enqueues whether or not a runner is there, and then the job stays
  `queued`; D54 (`docs/DECISIONS.md:1307-1309`) and `docs/running-the-loop.md:149` say
  it resolves to `needs_runner`;
* `auth.rs:69, 92, 103, 111` answer a failed Redis or Postgres with `Ok(None)`: a valid key gets 401 "Invalid or revoked API key",
  and the branch "Authentication service unavailable" (`http/spans.rs:69-74`) is never taken;
* `auth.rs:119`: a request that read a row before the key was revoked stores it
  afterwards, so that the key works longer than "up to 60 seconds" (`docs/DECISIONS.md:1043`);
* `normalizer/mod.rs:28-29` and `docs/DECISIONS.md:521, 604` say that a span of an
  unknown dialect is not dropped; both OTLP handlers count it as rejected and go on (`ingest.rs:74-83`);
* `ai.toolCall.id` (`vercel_ai.rs:93`) and `llm.token_count.total` are consumed and have no column,
  though `README.md:206` and `docs/ARCHITECTURE.md:122` say that no attribute is dropped;
* `canonical.rs:102-103` takes the trace's id for the run's, so that the `run_id` that `span.rs:40-41`
  lets a JSON caller give has no effect;
* `halley_raw.rs:278-280`: an attribute of the caller that has the name of an absent
  field (`input_body`) is taken for the field;
* `live/route.ts:70` sends the opening comment before SUBSCRIBE has been answered, so that the badge
  says Live before anything is subscribed: a span announced in between shows up
  at the next refresh only, as do those announced while a page is disconnected;
* `docs/DECISIONS.md:1070` has it that no connection is leaked; a subscriber whose QUIT is rejected, after
  twenty failed reconnects, is not told again (`StreamsAreFreed` names the case);
* `worker/src/index.ts:114` and the CI queue next to it share one tree: `halley ci` may test a commit
  that a bisect has checked out, and its row then says nothing of the branch (`RowIsSound` names the case);
* `bisect-run.ts:204-218`: a bisect killed by the timeout leaves the tree detached where
  it was, and the next takes what it finds for its bad end (`TreeComesBack` names the case);
* `bisect-run.ts:205`: when the worker dies the pipes of its child break, the child's next `eprintln!`
  (`main.rs:702, 714, 717, 725`) panics, and `restore_repo` (`740`) is not reached: one crash leaves the tree at the commit
  that was being tested. The job is handed out again, and this bisect takes that commit for its HEAD: it searches a part of
  the range, or refuses (`TreeComesBack` and `RowIsSound` name the case);
* `detail.ts:99-121` reads `halley.observations`, a plain MergeTree (`20260513000001_observations.sql:62`), with
  neither DISTINCT nor FINAL: a span that was stored twice is two rows of the page, is counted twice in the run's totals,
  and two elements have one React key (`page.tsx:314`);
* `main.rs:488-501` says "most recent hybrid cassette" and takes the last name: `x-hybrid-1600-hybrid-1800`
  sorts before `x-hybrid-1700`, although it was written later;
* `diff_runner.py:51, 119-134` compares the text of answers, models, keys and token counts: a changed tool call
  of the same length is "unchanged", though `docs/ARCHITECTURE.md:192` promises a tool contract diff.

## 4. What is proved

Every safety property that a passing run checks is a theorem; so are the type invariants of all components
and three refinements. A theorem holds for all values of the constants that the named ASSUMEs of
the modules admit: types and positive limits, and for `Receiver` what serde makes of a
JSON span and what an instrumentation tells of a call. TLC evaluates these assumptions in every run. The provers are Z3, Zenon and, for
the temporal steps, LS4.

**SpanPipelineProofs**
* `TypeCorrect`. The type invariant has the bounds that the other proofs need: `delivered`
  within the stream; `pel`, the batch and the dead letters within what was delivered.
* `PipelineSafe`: `Spec => []PipelineInv`, the inductive invariant. `AckedIsAccountedFor`
  alone is not inductive: the step that acknowledges must know that the batch
  is durable, which was made true three awaits earlier. `BatchInv` says
  for each place of the writer what is already true of its batch; `HeldInv` that
  the batch is still pending and decodes; `AttemptInv` that the
  attempt counter never exceeds the permanent errors there were. The proof has
  one lemma for each conjunct with one step for each action, and frame lemmas
  (`StreamKeeps`, `StorageKeeps`, `DurableKeeps`) that say the stream and the rows
  only grow.
* `AckedIsSafe`, `LiveFollowsStorage`, `OutagesDoNotDeadLetter`: the three
  properties for any spans, batch size, retry limit and number of faults.
* `RowsAreBounded`: copies of a row come from insert errors only. `RowsInv` counts what each place of the
  writer may still owe (`Stored`): a batch in hand has been stored once for each error so far, but for
  the one that the attempt in progress will end with; entries that are past had one attempt more than errors.

**SpanPipelineRefines**
* `PipelineImplementsDelivery`: `Spec => Delivery!Spec`. Each writer step maps to
  one step of `SpanDelivery` or to a stutter; giving up needs `HeldInv`
  (only what is owed can be refused) and acknowledging needs `BatchInv`.
* `AcknowledgedForGood`: the action property, from the same facts.

**ReceiverProofs**
* `ReceiverTypeCorrect`; `RowsBelongToTheKey`, for any spans, adapters' results and number of requests:
  what a request carries is what the check found (`RequestInv`), and the cache holds only the projects
  of keys that exist (`CacheInv`). The adapters' results are used only in that the
  project is put over theirs before `IntoRows`.
* `StaleOnlyIfStoredLate`: the strengthening is `AgeInv`: what is left of a cache
  entry's life and the time since its key was revoked are together at most the TTL,
  unless the entry was stored late. `StaleWithinTtl` says so only at the end.
* `RevokedStaysOut` and `ActiveKeysAreRefusedByFaults`, action properties, from the same invariant.
* `RawRowsAreAsBefore`: the JSON route makes the rows of `TryFrom<RawSpan>`, for any span that serde
  accepts (`RawSpanAssumption`) and whose own attributes have none of the names of the fields. The proof
  follows the code: the raw adapter is the first that detects (`FirstDetects`, `FirstWins`), each column is
  read back from the attribute that `RawSpanToOtlp` wrote (`FieldsAreAttributes`, `RawIsRead`), what is left over
  is the caller's own attributes, and `IntoRows` makes the bodies that the former conversion made.
  `Normalizer` has its own `:>` and `@@`, because the prover has no definition of those of TLC.
* `CallsHaveOneRow` and `AttributesAreNotLost`, for any call, dialect and other attributes that
  `ExportAssumption` admits. In three steps: the adapter of the dialect is the first that
  detects the span (`ReportIsDetected`: whoever comes before it finds none of its keys); each column is
  what was told of the call, although a text may be under two or three keys (`OtelRow`,
  `OpenLLMetryRow`, `OpenInferenceRow`, `VercelRow`, from the `...Said` lemmas and what the reading operators do
  with keys that agree: `TextsAgree`, `NumbersAgree`, `BodySaid`); and what an adapter takes out
  of the attributes is in one of those columns (`GivenIsShown`, `ConsumedKeys`). The assumption is about
  the instrumentations, which are external: a span that has, next to its own dialect's attributes, those
  of another call or of another dialect than gen_ai.* is outside of it. So is a body in an event: the theorems are
  about spans whose messages are in their attributes, as the exports with a call are in the run.

**LiveSpansProofs**
* `LiveSafe`: `Spec => []LiveInv`. The strengthening is `FreshIsLive`: a connection whose callbacks are
  of the newest generation is the hook's own, live, and there is no timer next to it. This is what the
  generation counter is for, and it carries `PageHasOneStream` and `BadgeIsTrue`, for
  any number of connections, spans and failures.
* `PageSafe`: `Spec => []PageInv`, which adds what is shown: only published frames are on wires and in the list
  (`AllFrames`, by which the two spellings of an identifier can be told apart), nothing is in the list twice
  (`NoRepeats`), and of each span the rows are at most the copies that are stored, and no more than a refresh on its way has found
  (`RowsAreStored`). `SentIsNotLost`, `ShownOnce` (a row for each copy, and no live entry next to a row) and the action property `ShownSpansStay` follow: a frame
  leaves a wire for the list or with its connection, and the list of a page only grows.

**FixturePromotionProofs**
* `PromotionSafe`: `Spec => []PromotionInv`, and `PromotionTypeCorrect`. The properties speak of the ends of
  long chains (click, infer job, tab, write job), so the invariant says for each link what it hands on: a
  click past its SELECT has met whoever has inserted since (`ClickInv`, `MeetInv`); a row with invariants has an infer job
  that wrote it (`RowInv`); a tab shows only what has been inferred (`TabInv`); what the writer holds was
  offered to it and, between files and row, is on disk (`WriterInv`).
* `ClicksShare`, `EditsStay`, `FilesHaveInvariants`, `FilesAreCurrent`, `ReadyFixtureIsOnDisk`: all five properties,
  for any clicks, runs, tabs, edits and failures, crashes in the middle of a write included.

**ReplayProofs**
* `ForbiddenCallsAreNotMade`: pure mode sends nothing, hybrid mode nothing that
  declares an irreversible tool, unless that was allowed; for any agent, any
  number of threads and any provider. The argument is local: `GoLive` alone sends
  and has the guard, and the mode never changes while a process lives.
* `ReplayTypeCorrect`, from `PlaceInv`: what is still to be replayed is the end of the directory, also
  after a hybrid run has put a fixture into it (`CommandInv`), and a thread between lookup and store has a cursor
  inside its list (`ThreadInv`).
* `ServedInTheRecordedOrder`: for a key that one thread uses, the cursor is the number of its hits in the
  log, one more between the store and the answer (`Cursors`), and each hit has the observation of its rank
  (`InOrder`). Other threads do not disturb it, as they touch other keys.
* `PassesWithinTheBound` (`SpendInv`): what the provider was paid is the sum over the live entries of the log, which
  `served.json` has whole if nothing was missed.
* `UnchangedAgentsPass`: what one thread records is a chain (`ChainInv`), the directory keeps it
  (`FixturesInv`), and the agent that made it, replayed, mirrors it call by call (`MirrorInv`), so that nothing
  is missed, the counts agree and the sum of the durations stays within the wall clock.
* `GreenIsEarned`: in pure mode every call is a hit (`PureInv`) and a pass has as many as were recorded; hits are
  distinct observations, so by the pigeonhole principle they are all of them (`GreenInv`).
* The sums and ranks in these proofs are recursive functions. Induction is had from the well-foundedness of
  the naturals on sets instead of predicates (`Least`, `Induction`), which needs no operator as a parameter.

**BisectProofs**
* `BisectTypeCorrect`, `BisectSafe` (`BisectInv` is stated for each invocation by
  itself, `AllSound`, as invocations touch each other through the tree only),
  `ReportsAreSound`, and `RegressionIsFound`: if from some
  commit of the range on every test fails and before it every test passes, an
  undisturbed bisect that ends has found that commit, for any number of commits, tries and invocations. `DoubtInv` is
  there for the last: a bisect gives up only on a commit that passed once more.
* `SearchIsLogarithmic`: what is left of the range, times two to the number of probes, is at most the range
  (`ShrinkOf`), because a probe is in the middle and either answer leaves at most half (`Halves`).

**RunnerProofs**
* `RunnerSafe`: `Spec => []RunnerInv`. `StuckNeedsTwoCrashes` looks at finished
  jobs only; the invariant says what is true of the row and the queue at each place of the processor (`ProcessorInv`),
  and that a job has not stalled more often than workers have crashed, a loss that BullMQ has not
  noticed yet included (`CrashInv`).
* `OneCrashIsSurvived`, `ResultsStandWithoutStall`: both follow for any jobs, workers and bounds.
* `HostImplementsRunnerJobs`: `HostSpec => Spec`. Running real children restricts when a child
  ends and with what, and adds no other step, so that `HostSurvivesOneCrash` needs no proof of its own.
* `HostImplementsBisect`: `HostSpec => Git!Spec`. Seen from the tree the composition is bisects with their
  faults, so that all of `BisectProofs` holds of the children as it stands.
* `HostSafe`: `HostSpec => []HostInv`, with `HostTypeCorrect`. It joins the invariants of both sides with what
  neither knows: as long as one bisect only has had the tree and no checkout failed, each test runs at the
  commit it is for (`TestsAreAimed`); the branch is checked out or some living bisect is to restore it, unless one was killed,
  failed to or panicked (`BranchIsKept`); as long as no worker has crashed each bisect at work is heard by the worker that waits
  for it, and none has panicked (`HeardInv`); a row and a result on its way to it say what the child found (`RowInv`).
  `RowsAreSound` and `TreeIsRestored` follow.

Only model-checked are the liveness properties (`EveryEntrySettles`, `ShutdownStopsWriter`, `EveryRunEnds`,
`EveryJobSettles`, `LiveRunnerIsSeen`, `PageComesBack`, `StreamsAreFreed`): they need fairness, which is ENABLED,
and the prover does not do it. The properties of the two runs that find a violation are false, and
those runs are their counterexamples.

## 5. Abstractions, and what is not modelled

* Ingestion: a span is a model value with its set of bodies; normalisation is
  accept or reject; authentication happens before (both are in `Receiver`); Redis keeps what it accepted.
  Metrics and logs are left out.
* Receiver: a request whose header is malformed, or missing when one is required, is
  answered at once and is no step. Keys are made in the dev project, as `createApiKey` always does; keys of
  other projects are rows that were there from the start. A body stands for its hash, so that equal
  values have equal hashes; whether three languages agree on that is not modelled. Times, `run_tags`, `pricing_version_id`
  and attribute values of other types than text, integer and array are left out; JSON text is a set of
  strings; ids of the JSON route are right or have the wrong length.
* Promotion: what inference computes is one version; a tab is not reloaded while
  its save is on its way; Postgres does not fail (its failures are in
  `RunnerJobs`). Two runs with one name share a slug and overwrite each other's
  file; `ReadyIsOnDisk` is about fixtures that have their slug to themselves.
* Replay: streaming responses, `AsyncClient` (which the shim does not patch) and
  requests that are not POSTs to the provider are left out; the evaluator's output
  always parses. All calls have one operation and one model.
* Bisect: `cmd_bisect` asks git for HEAD, branch and log in three commands, here one step;
  the tests of commits older than the fixture pass vacuously and are verdicts like any other.
* Live view: two tabs are two instances that share nothing but Redis. A frame is never malformed;
  a subscriber's reconnect and the answers to its queued commands are one step. The page's rows are the
  spans of one run; what else it shows is left out. What React does on the client with two elements of one key,
  when their order changes, is its own business and not modelled: `ShownOncePerCopy` counts the elements that are rendered.
* RunnerJobs: a job loses its lock only with its worker; a worker that lives and cannot renew the lock for 30 seconds,
  so that BullMQ hands the job out a second time next to it, is not modelled, and the properties of rows do not speak of it.
* HostRunner: starting a child and its first look at the tree are one step. A child that
  a crash leaves goes on to its next line; one that a signal ends with the worker is a kill. `halley ci` moves nothing in the
  tree, so that a CI child without its worker may end at any time. `MaxInAll` and
  `MaxTreeInAll` keep the product of the two models small: one worker fault and one tree fault meet,
  two of one side do not (`runner_jobs` and `bisect_search` have those).
* Not modelled: canonical JSON (a pure
  function of text), login and middleware beyond who is admitted to a live stream, queries and pages (no state
  of their own), `halley diff` and JUnit (output), configuration, health,
  telemetry, infrastructure, examples.

## 6. Plan

The modules of the plan are written, and what can be proved of their properties is. What could be added:

1. exports whose messages are in events, which only the exports without a call of `MCReceiver` have: `AttributesIn`
   would give events next to attributes, and `Silent` would give way to a lemma on `Messages`;
2. the columns that section 5 leaves out (times, `run_tags`, `pricing_version_id`).
