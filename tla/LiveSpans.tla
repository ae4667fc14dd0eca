------------------------------ MODULE LiveSpans ------------------------------
(***************************************************************************)
(* The run page of the dashboard and its live spans: a server-rendered     *)
(* timeline, an EventSource that reconnects by itself, and the route that  *)
(* gives every EventSource a Redis subscriber of its own.                  *)
(*                                                                         *)
(* One page is open at a time.  A generation number is only ever compared  *)
(* with the newest one, so that a callback or timer carries a flag, fresh, *)
(* which every new generation takes from the older ones.                   *)
(*                                                                         *)
(* External: ioredis (its offline queue, its reconnects and the error it   *)
(* gives every queued command after twenty of them), EventSource, and the  *)
(* ingester, which announces a span when it can be queried (LiveIsDurable  *)
(* of SpanPipeline).                                                       *)
(***************************************************************************)
EXTENDS Integers, FiniteSets, Sequences

CONSTANTS
    Spans,          \* the spans of the run
    Conns,          \* the connections that can exist at a time
    None,           \* no connection
    AUTH_REQUIRED,  \* HALLEY_AUTH_REQUIRED
    INIT_DELAY,     \* BACKOFF_INIT_MS
    MAX_DELAY,      \* BACKOFF_MAX_MS
    MaxFaults,      \* the bound on each kind of fault
    MaxInAll,       \* and on all of them together
    MaxWire         \* the bound on the frames on their way

FaultKinds == {"session", "cut", "redis", "giveup", "copy"}

ASSUME LiveAssumption ==
    /\ None \notin Conns
    /\ AUTH_REQUIRED \in BOOLEAN
    /\ INIT_DELAY \in Nat \ {0} /\ MAX_DELAY \in Nat /\ INIT_DELAY <= MAX_DELAY
    /\ MaxFaults \in [FaultKinds -> Nat] /\ MaxInAll \in Nat
    /\ MaxWire \in Nat

VARIABLES
    stored,      \* ClickHouse: how many copies of each span a query finds
    session      \* whether the browser holds a valid session token

world == <<stored, session>>

VARIABLES
    page,        \* whether a page is shown
    rows,        \* the rows the server has rendered, and how often each
    fetching,    \* whether a refresh is on its way
    fetched,     \* the rows its query found
    spans,       \* the spans the hook has collected
    connState,   \* the badge
    stream,      \* esRef
    timer,       \* timerRef: no timer, or one of the newest generation or not
    delay        \* delayRef

view == <<page, rows, fetching, fetched, spans>>
hook == <<connState, stream, timer, delay>>

VARIABLES
    conn,        \* each connection, at its two ends
    faults       \* how many faults of each kind have happened

vars == <<world, view, hook, conn, faults>>

\* The query renders identifiers in upper case, the ingester publishes them in
\* lower case.
Hex == [span : Spans, case : {"upper", "lower"}]
Row(s) == [span |-> s, case |-> "upper"]
Frame(s) == [span |-> s, case |-> "lower"]
ToUpperCase(x) == [x EXCEPT !.case = "upper"]

\* Rows are a multiset: observations is a plain MergeTree, and the query takes
\* neither DISTINCT nor FINAL.
Rows == [Hex -> Nat]
NoRows == [x \in Hex |-> 0]
Found == [x \in Hex |-> IF x.case = "upper" THEN stored[x.span] ELSE 0]

Connection ==
    [es         : {"unused", "connecting", "open", "closed"},   \* the EventSource
     fresh      : BOOLEAN,       \* its callbacks are of the newest generation
     cut        : BOOLEAN,       \* nothing passes any more
     controller : {"none", "refused", "open", "closed"},        \* the response
     wire       : Seq(Hex),      \* frames on their way to the browser
     sent       : SUBSET Spans,  \* the spans enqueued so far
     subscriber : {"none", "offline", "online", "ended"},       \* the ioredis client
     subscribed : BOOLEAN,
     queued     : SUBSET {"subscribe", "quit"},   \* commands not yet answered
     rejected   : BOOLEAN]       \* QUIT has been answered with an error

Unused ==
    [es |-> "unused", fresh |-> FALSE, cut |-> FALSE, controller |-> "none",
     wire |-> << >>, sent |-> {}, subscriber |-> "none", subscribed |-> FALSE,
     queued |-> {}, rejected |-> FALSE]

TypeOK ==
    /\ stored \in [Spans -> Nat] /\ session \in BOOLEAN
    /\ page \in {"none", "loaded", "mounted"}
    /\ rows \in Rows /\ fetching \in BOOLEAN /\ fetched \in Rows
    /\ spans \in Seq(Hex)
    /\ connState \in {"connecting", "open", "disconnected"}
    /\ stream \in Conns \cup {None}
    /\ timer \in {"none", "fresh", "stale"}
    /\ delay \in INIT_DELAY .. MAX_DELAY
    /\ conn \in [Conns -> Connection]
    /\ faults \in [FaultKinds -> Nat]

-----------------------------------------------------------------------------

Happened == faults["session"] + faults["cut"] + faults["redis"] + faults["giveup"]
            + faults["copy"]

Fault(kind) ==
    /\ faults[kind] < MaxFaults[kind]
    /\ Happened < MaxInAll
    /\ faults' = [faults EXCEPT ![kind] = @ + 1]

Init ==
    /\ stored = [s \in Spans |-> 0] /\ session = TRUE
    /\ page = "none" /\ rows = NoRows /\ fetching = FALSE /\ fetched = NoRows
    /\ spans = << >>
    /\ connState = "connecting" /\ stream = None /\ timer = "none"
    /\ delay = INIT_DELAY
    /\ conn = [c \in Conns |-> Unused]
    /\ faults = [k \in FaultKinds |-> 0]

Live(c) == conn[c].es \in {"connecting", "open"}

\* Frames nobody will read are dropped; once the browser has closed its end it
\* makes no difference whether anything passes; and a connection that both ends
\* have let go of is forgotten.
Tidy(r) ==
    IF r.es # "closed" /\ ~r.cut THEN r
    ELSE IF /\ r.es = "closed" /\ r.controller \in {"refused", "closed"}
            /\ r.subscriber \in {"none", "ended"}
    THEN Unused
    ELSE [r EXCEPT !.wire = << >>, !.sent = {}, !.cut = @ /\ r.es # "closed"]

Change(c, r) == conn' = [conn EXCEPT ![c] = Tidy(r)]

-----------------------------------------------------------------------------
(* The ingester and the session.                                           *)

Store(s) ==
    /\ stored[s] = 0
    /\ stored' = [stored EXCEPT ![s] = 1]
    /\ UNCHANGED <<session, view, hook, conn, faults>>

\* An insert that took place and failed is retried, or an export is repeated.
StoreAgain(s) ==
    /\ stored[s] > 0 /\ Fault("copy")
    /\ stored' = [stored EXCEPT ![s] = @ + 1]
    /\ UNCHANGED <<session, view, hook, conn>>

\* on("message"): enqueue, unless the controller has been closed.
Relayed(r, s) ==
    IF /\ r.subscriber = "online" /\ r.subscribed /\ r.controller = "open"
       /\ r.es # "closed" /\ ~r.cut
    THEN [r EXCEPT !.wire = Append(@, Frame(s)), !.sent = @ \cup {s}]
    ELSE r

\* PUBLISH; the writer may publish a batch again that it retries.
Announce(s) ==
    /\ stored[s] > 0
    /\ \A c \in Conns : Len(conn[c].wire) < MaxWire
    /\ conn' = [c \in Conns |-> Relayed(conn[c], s)]
    /\ UNCHANGED <<world, view, hook, faults>>

SessionEnds ==
    /\ session /\ Fault("session")
    /\ session' = FALSE
    /\ UNCHANGED <<stored, view, hook, conn>>

SignIn ==
    /\ ~session
    /\ session' = TRUE
    /\ UNCHANGED <<stored, view, hook, conn, faults>>

\* authorized()
Admitted == ~AUTH_REQUIRED \/ session

-----------------------------------------------------------------------------
(* The page.                                                               *)

\* RunDetailPage renders what the query finds; a run without spans is a 404.
Load ==
    /\ page = "none" /\ Admitted
    /\ Found # NoRows
    /\ page' = "loaded"
    /\ rows' = Found
    /\ UNCHANGED <<world, fetching, fetched, spans, hook, conn, faults>>

\* generationRef.current += 1
Outdated(cs) == [c \in Conns |-> [cs[c] EXCEPT !.fresh = FALSE]]

\* closeEs()
Closed(cs, c) ==
    IF c = None THEN cs ELSE [cs EXCEPT ![c] = Tidy([@ EXCEPT !.es = "closed"])]

NewOne(cs) == CHOOSE c \in Conns : cs[c] = Unused

\* connect(gen) of the newest generation.
Connect(cs) ==
    /\ \E c \in Conns : cs[c] = Unused
    /\ stream' = NewOne(cs)
    /\ conn' = [cs EXCEPT ![NewOne(cs)] =
                  [Unused EXCEPT !.es = "connecting", !.fresh = TRUE]]
    /\ connState' = "connecting"

\* The effect of useLiveSpans.
Mount ==
    /\ page = "loaded"
    /\ page' = "mounted"
    /\ delay' = INIT_DELAY
    /\ timer' = "none"
    /\ Connect(Closed(Outdated(conn), stream))
    /\ UNCHANGED <<world, rows, fetching, fetched, spans, faults>>

\* Mutant: leaving the page closes the stream and forgets the timer.
LeaveTimer ==
    /\ page # "none"
    /\ page' = "none" /\ rows' = NoRows /\ spans' = << >>
    /\ fetching' = FALSE /\ fetched' = NoRows
    /\ conn' = Closed(Outdated(conn), stream)
    /\ stream' = None
    /\ connState' = "connecting" /\ delay' = INIT_DELAY
    /\ UNCHANGED <<world, timer, faults>>

\* Its cleanup, or the page is left before the effect has run.  The state of the
\* hook goes with the page.
Unmount ==
    /\ page # "none"
    /\ page' = "none" /\ rows' = NoRows /\ spans' = << >>
    /\ fetching' = FALSE /\ fetched' = NoRows
    /\ timer' = "none"
    /\ conn' = Closed(Outdated(conn), stream)
    /\ stream' = None
    /\ connState' = "connecting" /\ delay' = INIT_DELAY
    /\ UNCHANGED <<world, faults>>

\* SpanBarLink: router.refresh() renders the page again ...
Refresh ==
    /\ page = "mounted" /\ ~fetching /\ Admitted
    /\ fetching' = TRUE
    /\ fetched' = Found
    /\ UNCHANGED <<world, page, rows, spans, hook, conn, faults>>

\* ... and the new rows take the place of the old ones.
Refreshed ==
    /\ fetching
    /\ rows' = fetched
    /\ fetching' = FALSE /\ fetched' = NoRows
    /\ UNCHANGED <<world, page, spans, hook, conn, faults>>

\* Mutant: the delay keeps growing over the streams that opened.
OnOpenKeepsDelay(c) ==
    /\ conn[c].es = "connecting" /\ ~conn[c].cut
    /\ conn[c].controller \in {"open", "closed"}
    /\ IF conn[c].fresh
       THEN /\ Change(c, [conn[c] EXCEPT !.es = "open"])
            /\ connState' = "open" /\ UNCHANGED delay
       ELSE /\ Change(c, [conn[c] EXCEPT !.es = "closed"])
            /\ UNCHANGED <<connState, delay>>
    /\ UNCHANGED <<world, view, stream, timer, faults>>

\* Mutant: the handler of messages is set after the first ones.
OnOpenDropsFrames(c) ==
    /\ conn[c].es = "connecting" /\ ~conn[c].cut /\ conn[c].fresh
    /\ conn[c].controller \in {"open", "closed"}
    /\ Change(c, [conn[c] EXCEPT !.es = "open", !.wire = << >>])
    /\ connState' = "open" /\ delay' = INIT_DELAY
    /\ UNCHANGED <<world, view, stream, timer, faults>>

\* The comment frame has arrived.
OnOpen(c) ==
    /\ conn[c].es = "connecting" /\ ~conn[c].cut
    /\ conn[c].controller \in {"open", "closed"}
    /\ IF conn[c].fresh
       THEN /\ Change(c, [conn[c] EXCEPT !.es = "open"])
            /\ connState' = "open" /\ delay' = INIT_DELAY
       ELSE /\ Change(c, [conn[c] EXCEPT !.es = "closed"])
            /\ UNCHANGED <<connState, delay>>
    /\ UNCHANGED <<world, view, stream, timer, faults>>

\* Mutant: a span is only compared with the last one.
CollectedTwice(x) ==
    IF spans # << >> /\ spans[Len(spans)] = x THEN spans ELSE Append(spans, x)

Collected(x) ==
    IF \E i \in DOMAIN spans : spans[i] = x THEN spans ELSE Append(spans, x)

OnMessage(c) ==
    /\ conn[c].es = "open" /\ conn[c].wire # << >>
    /\ Change(c, [conn[c] EXCEPT !.wire = Tail(@)])
    /\ spans' = IF conn[c].fresh THEN Collected(Head(conn[c].wire)) ELSE spans
    /\ UNCHANGED <<world, page, rows, fetching, fetched, hook, faults>>

\* The request was refused or lost, or the stream has ended.
Failed(c) ==
    /\ Live(c)
    /\ \/ conn[c].cut \/ conn[c].controller = "refused"
       \/ /\ conn[c].es = "open" /\ conn[c].controller = "closed"
          /\ conn[c].wire = << >>

Least(a, b) == IF a <= b THEN a ELSE b

\* Mutant: what has been collected is dropped with the stream.
OnErrorForgets(c) ==
    /\ Failed(c) /\ conn[c].fresh
    /\ conn' = Closed(Outdated(conn), c)
    /\ stream' = None
    /\ connState' = "disconnected"
    /\ delay' = Least(delay * 2, MAX_DELAY)
    /\ timer' = "fresh"
    /\ spans' = << >>
    /\ UNCHANGED <<world, page, rows, fetching, fetched, faults>>

\* The stream is closed, and a timer of the next generation set.
OnError(c) ==
    /\ Failed(c) /\ conn[c].fresh
    /\ conn' = Closed(Outdated(conn), c)
    /\ stream' = None
    /\ connState' = "disconnected"
    /\ delay' = Least(delay * 2, MAX_DELAY)
    /\ timer' = "fresh"
    /\ UNCHANGED <<world, view, faults>>

\* Mutant: the timer connects with the generation of the stream that failed.
TimerIgnored ==
    /\ timer # "none" /\ timer' = "none"
    /\ UNCHANGED <<world, view, connState, stream, delay, conn, faults>>

\* connect(nextGen): a timer of an older generation does nothing.
TimerFires ==
    /\ timer # "none"
    /\ timer' = "none"
    /\ IF timer = "fresh" THEN Connect(conn)
                          ELSE UNCHANGED <<conn, stream, connState>>
    /\ UNCHANGED <<world, view, delay, faults>>

\* LiveSpansIsland: not among the rows rendered by the server.
New(x) == rows[ToUpperCase(x)] = 0

-----------------------------------------------------------------------------
(* The route, one subscriber per connection.                               *)

\* GET behind the middleware: a subscriber is created and SUBSCRIBE queued.
\* EventSource takes the redirect to /login for an error.
Arrive(c) ==
    /\ conn[c].es # "unused" /\ conn[c].controller = "none"
    /\ Change(c, IF Admitted
                 THEN [conn[c] EXCEPT !.controller = "open",
                          !.subscriber = "offline", !.queued = {"subscribe"}]
                 ELSE [conn[c] EXCEPT !.controller = "refused"])
    /\ UNCHANGED <<world, view, hook, faults>>

\* Mutant: the subscriber is unsubscribed and never told to quit.
CleanupUnsubscribes(r) ==
    [r EXCEPT !.subscribed = FALSE, !.queued = {}]

\* cleanup(), then controller.close(): UNSUBSCRIBE and QUIT are sent or queued.
Cleanup(r) == [r EXCEPT !.queued = @ \cup {"quit"}]

\* abort or cancel(): the browser has closed its end, or cannot be reached.
Abort(c) ==
    /\ conn[c].controller = "open"
    /\ conn[c].es = "closed" \/ conn[c].cut
    /\ Change(c, [Cleanup(conn[c]) EXCEPT !.controller = "closed"])
    /\ UNCHANGED <<world, view, hook, faults>>

\* The connection to Redis stands and the queued commands are answered in
\* order; a subscriber that was subscribed before is subscribed again.
Answered(c) ==
    /\ conn[c].subscriber = "offline" \/ conn[c].queued # {}
    /\ conn[c].subscriber \in {"offline", "online"}
    /\ Change(c, IF "quit" \in conn[c].queued
                 THEN [conn[c] EXCEPT !.subscriber = "ended", !.subscribed = FALSE,
                                      !.queued = {}]
                 ELSE [conn[c] EXCEPT !.subscriber = "online", !.queued = {},
                          !.subscribed = @ \/ "subscribe" \in conn[c].queued])
    /\ UNCHANGED <<world, view, hook, faults>>

\* The connection to Redis breaks; ioredis reconnects.
RedisDrops(c) ==
    /\ conn[c].subscriber = "online" /\ Fault("redis")
    /\ Change(c, [conn[c] EXCEPT !.subscriber = "offline"])
    /\ UNCHANGED <<world, view, hook>>

\* Twenty reconnects have failed and every queued command is rejected: the
\* callback of SUBSCRIBE cleans up and closes the stream, a QUIT is forgotten.
GiveUp(c) ==
    /\ conn[c].subscriber = "offline" /\ conn[c].queued # {} /\ Fault("giveup")
    /\ Change(c, IF "subscribe" \in conn[c].queued
                 THEN [Cleanup([conn[c] EXCEPT !.queued = {}])
                          EXCEPT !.controller = "closed"]
                 ELSE [conn[c] EXCEPT !.queued = {}, !.rejected = TRUE])
    /\ UNCHANGED <<world, view, hook>>

\* The network, a proxy or the server's end breaks the connection.
Cut(c) ==
    /\ Live(c) /\ ~conn[c].cut /\ Fault("cut")
    /\ Change(c, [conn[c] EXCEPT !.cut = TRUE,
                     !.controller = IF @ = "none" THEN "refused" ELSE @])
    /\ UNCHANGED <<world, view, hook>>

OfBrowser(c) == OnOpen(c) \/ OnMessage(c) \/ OnError(c)

OfRoute(c) == Arrive(c) \/ Abort(c) \/ Answered(c)

Next ==
    \/ \E s \in Spans : Store(s) \/ StoreAgain(s) \/ Announce(s)
    \/ SessionEnds \/ SignIn
    \/ Load \/ Mount \/ Unmount \/ Refresh \/ Refreshed \/ TimerFires
    \/ \E c \in Conns :
          OfBrowser(c) \/ OfRoute(c) \/ RedisDrops(c) \/ GiveUp(c) \/ Cut(c)

Spec == Init /\ [][Next]_vars

\* Timers fire, events are delivered, requests arrive, the server notices a
\* closed connection (the keepalive of every 25 seconds finds the ones that
\* ended silently), and ioredis reconnects.
Fairness ==
    /\ WF_vars(Mount) /\ WF_vars(TimerFires) /\ WF_vars(Refreshed)
    /\ \A c \in Conns : WF_vars(OfBrowser(c)) /\ WF_vars(OfRoute(c))

FairSpec == Spec /\ Fairness

-----------------------------------------------------------------------------
(* Safety.                                                                 *)

\* A page has one stream or one retry, never both or two of either, and a page
\* that was left has neither (useLiveSpans.ts lines 94-129).
OneStream ==
    /\ \A c \in Conns : Live(c) => c = stream /\ page = "mounted"
    /\ timer # "none" =>
          timer = "fresh" /\ page = "mounted" /\ \A c \in Conns : ~Live(c)
    /\ page = "mounted" /\ timer = "none" =>
          stream # None /\ Live(stream) /\ conn[stream].fresh

\* The badge says Live only over an open stream, and the stream's end is then
\* answered after the shortest delay (useLiveSpans.ts lines 73-78, 101-110).
LiveMeansConnected ==
    page = "mounted" /\ connState = "open" =>
        /\ stream # None /\ conn[stream].es = "open"
        /\ timer = "none" /\ delay = INIT_DELAY

Listed(s) == \E i \in DOMAIN spans : spans[i] = Frame(s)

\* What the route has sent on the page's stream is on the page or on its way,
\* unless the connection broke (route.ts lines 91-98, useLiveSpans.ts 80-92).
NothingSentIsLost ==
    \A c \in Conns : Live(c) /\ ~conn[c].cut =>
        \A s \in conn[c].sent :
            Listed(s) \/ \E i \in DOMAIN conn[c].wire : conn[c].wire[i] = Frame(s)

Visible(s) == rows[Row(s)] > 0 \/ \E i \in DOMAIN spans : spans[i] = Frame(s)

\* However often a span is published, the page shows it once: in its rows once
\* for each copy a query found (page.tsx lines 301-315), and in the live list
\* once, but only when it is not among the rows (useLiveSpans.ts lines 84-88,
\* LiveSpansIsland.tsx lines 84-87).
ShownOncePerCopy ==
    \A s \in Spans :
        /\ rows[Row(s)] <= stored[s]
        /\ Cardinality({i \in DOMAIN spans : spans[i].span = s /\ New(spans[i])})
              <= IF rows[Row(s)] > 0 THEN 0 ELSE 1

\* A span the page has shown stays on it, over reconnects and refreshes whose
\* query ran before the span was stored.
VisibleStays ==
    [][page = "mounted" /\ page' = "mounted" =>
          \A s \in Spans : Visible(s) => Visible(s)']_vars

-----------------------------------------------------------------------------
(* Liveness.                                                               *)

\* A page that stays open, of a user who stays signed in, ends up subscribed
\* and says so, whatever failed before.
PageComesBack ==
    <>[](page = "mounted" /\ Admitted) =>
        <>[](connState = "open" /\ stream # None /\ conn[stream].subscribed)

\* The subscriber of a stream the browser has left is closed, unless its QUIT
\* was rejected while Redis could not be reached (route.ts lines 55-62;
\* DECISIONS.md line 1070 has it that no connections are leaked).
StreamsAreFreed ==
    \A c \in Conns :
        conn[c].es = "closed" ~> conn[c].es # "closed" \/ conn[c].rejected

=============================================================================
