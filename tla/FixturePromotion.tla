-------------------------- MODULE FixturePromotion --------------------------
(***************************************************************************)
(* Turning a run into a fixture: POST /api/fixtures inserts a row and asks *)
(* for the invariants to be inferred, browser tabs edit them, and the      *)
(* fixture.write job puts the fixture into the repository.                 *)
(*                                                                         *)
(* A fixture is named by the click whose POST made its row.  Invariants    *)
(* are numbered: none yet, as inferred, and then every version a user      *)
(* types.  BullMQ is external: a job is tried once, and handed out a       *)
(* second time if its worker died.                                         *)
(***************************************************************************)
EXTENDS Integers, Sequences, FiniteSets

CONSTANTS
    Clicks,      \* the clicks on "Turn into test", and the fixtures they make
    RunOf,       \* the run each click is about
    SlugOf,      \* toSlug of the run's name, which other runs may share
    Tabs,        \* the browser tabs with the editor
    Nobody,      \* no fixture
    MaxEdits,    \* the bound on the versions users type
    MaxWrites,   \* the bound on the writes users ask for
    MaxFaults    \* the bound on each kind of fault

FaultKinds == {"enqueue", "load", "crash"}

Runs == {RunOf[c] : c \in Clicks}
Slugs == {SlugOf[r] : r \in Runs}

ASSUME PromotionAssumption ==
    /\ Nobody \notin Clicks
    /\ DOMAIN RunOf = Clicks
    /\ Runs \subseteq DOMAIN SlugOf
    /\ MaxEdits \in Nat /\ MaxWrites \in Nat
    /\ MaxFaults \in [FaultKinds -> Nat]

Empty == 0
Inferred == 1

VARIABLES
    rows,        \* Postgres: the fixtures rows
    infer,       \* Redis: the invariant.infer job of each click
    writes,      \* Redis: the fixture.write jobs that wait
    disk         \* the index file halley/fixtures/<slug>.json of each slug

storeVars == <<rows, infer, writes, disk>>

VARIABLES
    click,       \* the POST of each click
    tab,         \* the editor in each tab
    writer,      \* the fixture.write job in progress
    edits,       \* how many versions users have typed
    asked,       \* how many writes users have asked for
    faults       \* how many faults of each kind have happened

VARIABLES
    met,         \* history: the clicks whose POSTs overlapped with each
    stored,      \* history: the last version each fixture's editors stored
    offered      \* history: what each row has held since a write was asked for

history == <<met, stored, offered>>

vars == <<storeVars, click, tab, writer, edits, asked, faults, history>>

Versions == 0 .. edits + 1

Row == [status : {"absent", "proposing", "ready", "stale"},
        inv    : Versions,
        named  : BOOLEAN]   \* whether repo_path is the path of the index file

\* The CHECK of fixtures.status, and the places of handlers and jobs.
TypeOK ==
    /\ rows \in [Clicks -> Row]
    /\ infer \in [Clicks -> [state : {"none", "waiting", "active", "wrote", "settled"},
                             again : BOOLEAN]]
    /\ writes \in Seq([fixture : Clicks, again : BOOLEAN])
    /\ disk \in [Slugs -> [owner : Clicks \cup {Nobody}, inv : Versions,
                           whole : BOOLEAN]]
    /\ click \in [Clicks -> [pc : {"idle", "lookup", "insert", "enqueue", "done"},
                             fixture : Clicks \cup {Nobody}]]
    /\ tab \in [Tabs -> [fixture : Clicks \cup {Nobody}, inv : Versions,
                         saving : Versions, write : {"idle", "queued"}]]
    /\ writer \in [pc : {"idle", "load", "files", "mark", "finish"},
                   fixture : Clicks \cup {Nobody}, again : BOOLEAN,
                   inv : Versions, named : BOOLEAN]
    /\ edits \in 0 .. MaxEdits
    /\ asked \in 0 .. MaxWrites
    /\ faults \in [FaultKinds -> Nat]

SlugOfFixture(f) == SlugOf[RunOf[f]]

Exists(f) == rows[f].status # "absent"

-----------------------------------------------------------------------------

Fault(kind) ==
    /\ faults[kind] < MaxFaults[kind]
    /\ faults' = [faults EXCEPT ![kind] = @ + 1]

NoFault == UNCHANGED faults

Resting == [pc |-> "idle", fixture |-> Nobody, again |-> FALSE,
            inv |-> Empty, named |-> FALSE]

Closed == [fixture |-> Nobody, inv |-> Empty, saving |-> Empty, write |-> "idle"]

Init ==
    /\ rows = [f \in Clicks |-> [status |-> "absent", inv |-> Empty, named |-> FALSE]]
    /\ infer = [c \in Clicks |-> [state |-> "none", again |-> FALSE]]
    /\ writes = << >>
    /\ disk = [s \in Slugs |-> [owner |-> Nobody, inv |-> Empty, whole |-> TRUE]]
    /\ click = [c \in Clicks |-> [pc |-> "idle", fixture |-> Nobody]]
    /\ tab = [t \in Tabs |-> Closed]
    /\ writer = Resting
    /\ edits = 0 /\ asked = 0
    /\ faults = [k \in FaultKinds |-> 0]
    /\ met = [c \in Clicks |-> {}]
    /\ stored = [f \in Clicks |-> Empty]
    /\ offered = [f \in Clicks |-> {}]

-----------------------------------------------------------------------------
(* POST /api/fixtures.                                                     *)

Posting == {c \in Clicks : click[c].pc \in {"lookup", "insert", "enqueue"}}

Click(c) ==
    /\ click[c].pc = "idle"
    /\ click' = [click EXCEPT ![c].pc = "lookup"]
    /\ met' = [d \in Clicks |-> IF d = c THEN Posting
                                ELSE IF d \in Posting THEN met[d] \cup {c}
                                ELSE met[d]]
    /\ UNCHANGED <<storeVars, tab, writer, edits, asked, faults, stored, offered>>

\* The fixtures of a run that the SELECT can see.
Existing(c) == {f \in Clicks : Exists(f) /\ RunOf[f] = RunOf[c]}

\* Mutant: run_id is compared as it was sent, the rows hold it in upper case.
LookupMisses(c) ==
    /\ click[c].pc = "lookup"
    /\ click' = [click EXCEPT ![c].pc = "insert"]
    /\ UNCHANGED <<storeVars, tab, writer, edits, asked, faults, history>>

\* SELECT id ... LIMIT 1
Lookup(c) ==
    /\ click[c].pc = "lookup"
    /\ IF Existing(c) = {}
       THEN click' = [click EXCEPT ![c].pc = "insert"]
       ELSE \E f \in Existing(c) :
               click' = [click EXCEPT ![c] = [pc |-> "enqueue", fixture |-> f]]
    /\ UNCHANGED <<storeVars, tab, writer, edits, asked, faults, history>>

\* INSERT; no constraint refuses a second row for the run.
Insert(c) ==
    /\ click[c].pc = "insert"
    /\ rows' = [rows EXCEPT ![c] = [@ EXCEPT !.status = "proposing"]]
    /\ click' = [click EXCEPT ![c] = [pc |-> "enqueue", fixture |-> c]]
    /\ UNCHANGED <<infer, writes, disk, tab, writer, edits, asked, faults, history>>

\* enqueueInvariantInfer, for a fixture that existed already as well; an
\* error is logged and the request succeeds.
EnqueueInfer(c) ==
    /\ click[c].pc = "enqueue"
    /\ click' = [click EXCEPT ![c].pc = "done"]
    /\ \/ infer' = [infer EXCEPT ![c].state = "waiting"] /\ NoFault
       \/ UNCHANGED infer /\ Fault("enqueue")
    /\ UNCHANGED <<rows, writes, disk, tab, writer, edits, asked, history>>

Post(c) == Click(c) \/ Lookup(c) \/ Insert(c) \/ EnqueueInfer(c)

-----------------------------------------------------------------------------
(* processInvariantInfer.                                                  *)

InferFrame == UNCHANGED <<writes, disk, click, tab, writer, edits, asked>>

InferTo(c, state) == infer' = [infer EXCEPT ![c].state = state]

\* Two jobs at a time.
TakeInfer(c) ==
    /\ infer[c].state = "waiting"
    /\ Cardinality({d \in Clicks : infer[d].state \in {"active", "wrote"}}) < 2
    /\ InferTo(c, "active")
    /\ InferFrame /\ UNCHANGED <<rows, faults, history>>

\* What a row holds from now on, for the history.
Offer(f, inv) ==
    offered' = [offered EXCEPT ![f] = IF @ = {} THEN {} ELSE @ \cup {inv}]

\* Mutant: the UPDATE is for the run, not for the fixture.
WriteForRun(c) ==
    /\ infer[c].state = "active"
    /\ rows' = [f \in Clicks |-> IF f \in Existing(c)
                                 THEN [rows[f] EXCEPT !.inv = Inferred]
                                 ELSE rows[f]]
    /\ InferTo(c, "wrote") /\ NoFault
    /\ InferFrame /\ UNCHANGED history

\* Observations and bodies are loaded and the row is updated, or a load fails
\* and the job with it.
WriteInvariants(c) ==
    LET f == click[c].fixture IN
    /\ infer[c].state = "active"
    /\ \/ /\ rows' = [rows EXCEPT ![f] = [@ EXCEPT !.inv = Inferred]]
          /\ Offer(f, Inferred)
          /\ InferTo(c, "wrote") /\ NoFault
       \/ InferTo(c, "settled") /\ UNCHANGED <<rows, offered>> /\ Fault("load")
    /\ InferFrame /\ UNCHANGED <<met, stored>>

SettleInfer(c) ==
    /\ infer[c].state = "wrote"
    /\ InferTo(c, "settled")
    /\ InferFrame /\ UNCHANGED <<rows, faults, history>>

InferStep(c) == TakeInfer(c) \/ WriteInvariants(c) \/ SettleInfer(c)

-----------------------------------------------------------------------------
(* The editor page in a tab.                                               *)

TabFrame == UNCHANGED <<infer, disk, click, writer, faults, met>>

\* Mutant: the editor is shown without invariants too.
ShownAtOnce(f) == Exists(f)

\* The page shows the editor once there are invariants, a skeleton before.
Editable(f) == Exists(f) /\ rows[f].inv # Empty

\* The page is loaded, or loaded again: InvariantEditor keeps what it got.
Open(t, f) ==
    /\ Editable(f)
    /\ tab[t].saving = Empty
    /\ tab' = [tab EXCEPT ![t] = [Closed EXCEPT !.fixture = f, !.inv = rows[f].inv]]
    /\ TabFrame /\ UNCHANGED <<rows, writes, edits, asked, stored, offered>>

Edit(t) ==
    /\ tab[t].fixture # Nobody
    /\ edits < MaxEdits
    /\ edits' = edits + 1
    /\ tab' = [tab EXCEPT ![t].inv = edits + 2]
    /\ TabFrame /\ UNCHANGED <<rows, writes, asked, stored, offered>>

\* handleSave sends what the editor holds.
Save(t) ==
    /\ tab[t].fixture # Nobody
    /\ tab[t].saving = Empty
    /\ tab' = [tab EXCEPT ![t].saving = tab[t].inv]
    /\ TabFrame /\ UNCHANGED <<rows, writes, edits, asked, stored, offered>>

\* POST /api/fixtures/[id]: one UPDATE, whatever the row holds by then.
Store(t) ==
    LET f == tab[t].fixture IN
    /\ tab[t].saving # Empty
    /\ rows' = [rows EXCEPT ![f] = [@ EXCEPT !.inv = tab[t].saving]]
    /\ stored' = [stored EXCEPT ![f] = tab[t].saving]
    /\ Offer(f, tab[t].saving)
    /\ tab' = [tab EXCEPT ![t].saving = Empty]
    /\ TabFrame /\ UNCHANGED <<writes, edits, asked>>

\* handleWrite and POST /api/fixtures/[id]/save, while a save may be on its
\* way; the button stays disabled until the page is loaded again.
AskWrite(t) ==
    LET f == tab[t].fixture IN
    /\ f # Nobody
    /\ tab[t].write = "idle"
    /\ asked < MaxWrites
    /\ asked' = asked + 1
    /\ writes' = Append(writes, [fixture |-> f, again |-> FALSE])
    /\ offered' = [offered EXCEPT ![f] = @ \cup {rows[f].inv}]
    /\ tab' = [tab EXCEPT ![t].write = "queued"]
    /\ TabFrame /\ UNCHANGED <<rows, edits, stored>>

Browse(t) ==
    \/ \E f \in Clicks : Open(t, f)
    \/ Edit(t) \/ Save(t) \/ Store(t) \/ AskWrite(t)

-----------------------------------------------------------------------------
(* processFixtureWrite, one job at a time.                                 *)

WriterFrame == UNCHANGED <<infer, click, tab, edits, asked, history>>

TakeWrite ==
    /\ writer.pc = "idle"
    /\ writes # << >>
    /\ writer' = [Resting EXCEPT !.pc = "load", !.fixture = Head(writes).fixture,
                                 !.again = Head(writes).again]
    /\ writes' = Tail(writes)
    /\ WriterFrame /\ UNCHANGED <<rows, disk, faults>>

\* Mutant: the row is marked when the job starts.
LoadMarksReady ==
    /\ writer.pc = "load"
    /\ writer' = [writer EXCEPT !.pc = "files", !.inv = rows[writer.fixture].inv,
                                !.named = rows[writer.fixture].named]
    /\ rows' = [rows EXCEPT ![writer.fixture] = [@ EXCEPT !.status = "ready"]]
    /\ WriterFrame /\ UNCHANGED <<writes, disk, faults>>

\* Mutant: the row is looked up by its slug among those with invariants.
LoadBySlug ==
    /\ writer.pc = "load"
    /\ \E f \in Clicks :
          /\ rows[f].inv # Empty /\ SlugOfFixture(f) = SlugOfFixture(writer.fixture)
          /\ writer' = [writer EXCEPT !.pc = "files", !.inv = rows[f].inv,
                                      !.named = rows[f].named]
    /\ WriterFrame /\ UNCHANGED <<rows, writes, disk, faults>>

\* SELECT invariants_json, repo_path
LoadRow ==
    /\ writer.pc = "load"
    /\ writer' = [writer EXCEPT !.pc = "files", !.inv = rows[writer.fixture].inv,
                                !.named = rows[writer.fixture].named]
    /\ WriterFrame /\ UNCHANGED <<rows, writes, disk, faults>>

\* After the first write the slug is the basename of the index file itself,
\* so bodies/ would lie below a regular file and mkdir throws.
Blocked == writer.named

Index(whole) == [owner |-> writer.fixture, inv |-> writer.inv, whole |-> whole]

\* Observations and bodies are loaded, and the files written without an await.
WriteFiles ==
    /\ writer.pc = "files"
    /\ \/ /\ ~Blocked
          /\ disk' = [disk EXCEPT ![SlugOfFixture(writer.fixture)] = Index(TRUE)]
          /\ writer' = [writer EXCEPT !.pc = "mark"]
          /\ NoFault
       \/ Blocked /\ writer' = Resting /\ UNCHANGED disk /\ NoFault
       \/ writer' = Resting /\ UNCHANGED disk /\ Fault("load")
    /\ WriterFrame /\ UNCHANGED <<rows, writes>>

MarkReady ==
    /\ writer.pc = "mark"
    /\ rows' = [rows EXCEPT ![writer.fixture] =
                   [@ EXCEPT !.status = "ready", !.named = TRUE]]
    /\ writer' = [writer EXCEPT !.pc = "finish"]
    /\ WriterFrame /\ UNCHANGED <<writes, disk, faults>>

FinishWrite ==
    /\ writer.pc = "finish"
    /\ writer' = Resting
    /\ WriterFrame /\ UNCHANGED <<rows, writes, disk, faults>>

WriteStep == TakeWrite \/ LoadRow \/ WriteFiles \/ MarkReady \/ FinishWrite

\* What becomes of an infer job whose worker died.
Resumed(job) ==
    IF job.state \notin {"active", "wrote"} THEN job
    ELSE IF job.again THEN [job EXCEPT !.state = "settled"]
    ELSE [state |-> "waiting", again |-> TRUE]

\* The worker dies, perhaps while it writes the index file, and the jobs it
\* held stall.
Crash ==
    /\ Fault("crash")
    /\ infer' = [c \in Clicks |-> Resumed(infer[c])]
    /\ writes' = IF writer.pc = "idle" \/ writer.again THEN writes
                 ELSE <<[fixture |-> writer.fixture, again |-> TRUE]>> \o writes
    /\ writer' = Resting
    /\ \/ UNCHANGED disk
       \/ /\ writer.pc = "files" /\ ~Blocked
          /\ disk' = [disk EXCEPT ![SlugOfFixture(writer.fixture)] = Index(FALSE)]
    /\ UNCHANGED <<rows, click, tab, edits, asked, history>>

Next ==
    \/ \E c \in Clicks : Post(c) \/ InferStep(c)
    \/ \E t \in Tabs : Browse(t)
    \/ WriteStep \/ Crash

Spec == Init /\ [][Next]_vars

\* Requests that were sent are served and the worker takes its jobs; users
\* need not do anything.
Fairness ==
    /\ \A c \in Clicks :
          /\ WF_vars(Lookup(c) \/ Insert(c) \/ EnqueueInfer(c))
          /\ WF_vars(InferStep(c))
    /\ \A t \in Tabs : WF_vars(Store(t))
    /\ WF_vars(WriteStep)

FairSpec == Spec /\ Fairness

-----------------------------------------------------------------------------
(* Safety.                                                                 *)

\* Clicking again after the first POST was answered finds its fixture: a run
\* has two fixtures only if the POSTs overlapped (route.ts lines 82-101).
SequentialClicksShare ==
    \A c, d \in Clicks :
        c # d /\ Exists(c) /\ Exists(d) /\ RunOf[c] = RunOf[d] => d \in met[c]

\* The infer jobs that were enqueued for a fixture.
InfersFor(f) == {c \in Clicks : click[c].fixture = f /\ infer[c].state # "none"}

\* What an editor stored last is what the row holds, unless invariants are
\* inferred again: after a second click or when the job stalled.
StoredEditsStay ==
    \A f \in Clicks :
        stored[f] \notin {Empty, rows[f].inv} =>
            \/ Cardinality(InfersFor(f)) > 1
            \/ \E c \in InfersFor(f) : infer[c].again

\* No fixture without invariants reaches the repository, where every check of
\* it would pass (page.tsx lines 133-138, fixture-write.ts lines 117-142).
WrittenHasInvariants ==
    \A s \in Slugs : disk[s].owner # Nobody => disk[s].inv # Empty

Alone(f) == \A g \in Clicks \ {f} :
    Exists(g) => SlugOfFixture(g) # SlugOfFixture(f)

\* A row that says ready has a complete index file, its own if no other
\* fixture has its slug.
ReadyIsOnDisk ==
    \A f \in Clicks :
        rows[f].status = "ready" /\ Alone(f) =>
            disk[SlugOfFixture(f)].owner = f /\ disk[SlugOfFixture(f)].whole

\* The file holds what the row held when the write was asked for, or later.
WrittenIsNotStale ==
    \A s \in Slugs :
        disk[s].owner # Nobody => disk[s].inv \in offered[disk[s].owner]

-----------------------------------------------------------------------------
(* What the editor says.                                                   *)

\* InvariantEditor.tsx lines 594-595: "Write to repo - writes fixture files to the
\* local repo".  Edits that a row holds when its write job starts reach the
\* file, unless ClickHouse fails or the worker dies twice.
EditsReachTheRepo ==
    \A f \in Clicks : \A v \in 2 .. MaxEdits + 1 :
        (\E i \in 1 .. Len(writes) : writes[i].fixture = f) /\ rows[f].inv = v
            ~> \/ disk[SlugOfFixture(f)].inv = v
               \/ rows[f].inv # v \/ faults["load"] > 0 \/ faults["crash"] > 1
=============================================================================
