----------------------- MODULE FixturePromotionProofs -----------------------
(***************************************************************************)
(* Proofs about FixturePromotion, for any clicks, runs, slugs, tabs and    *)
(* faults.                                                                 *)
(***************************************************************************)
EXTENDS FixturePromotion, FiniteSetTheorems, TLAPS

HistoryOK ==
    /\ met \in [Clicks -> SUBSET Clicks]
    /\ stored \in [Clicks -> Versions]
    /\ offered \in [Clicks -> SUBSET Versions]

\* A click has no fixture before it finds or makes one, of its run, and no job
\* before it is answered; the row it makes is named after it.
ClickInv(c) ==
    /\ click[c].pc \in {"idle", "lookup", "insert"} =>
          click[c].fixture = Nobody /\ ~Exists(c)
    /\ click[c].pc \in {"enqueue", "done"} =>
          /\ click[c].fixture \in Clicks
          /\ Exists(click[c].fixture) /\ RunOf[click[c].fixture] = RunOf[c]
    /\ infer[c].state # "none" => click[c].pc = "done"

\* POSTs that are open at once have met, and one that is about to insert has
\* met whoever made a fixture of its run since it looked.
MeetInv(c, d) ==
    /\ c \in Posting /\ d \in Posting => d \in met[c]
    /\ click[c].pc = "insert" /\ Exists(d) /\ RunOf[c] = RunOf[d] =>
          d \in met[c] /\ c \in met[d]

\* An infer job has written the row of f, or had its chance to.
Wrote(f) == \E c \in InfersFor(f) :
    infer[c].state \in {"wrote", "settled"} \/ infer[c].again

RowInv(f) ==
    /\ rows[f].inv # Empty => Exists(f) /\ Wrote(f)
    /\ stored[f] # Empty => rows[f].inv # Empty
    /\ rows[f].status = "ready" => rows[f].named
    /\ offered[f] # {} => rows[f].inv \in offered[f]

\* A tab shows a fixture that has invariants.
TabInv(t) ==
    /\ tab[t].fixture # Nobody =>
          rows[tab[t].fixture].inv # Empty /\ tab[t].inv # Empty
    /\ tab[t].saving # Empty => tab[t].fixture # Nobody

\* What a write job may be for.
Asked(f) == f \in Clicks /\ rows[f].inv # Empty /\ offered[f] # {}

OnDisk(f) == disk[SlugOfFixture(f)].owner = f /\ disk[SlugOfFixture(f)].whole

WriterInv ==
    /\ \A i \in 1 .. Len(writes) : Asked(writes[i].fixture)
    /\ writer.pc # "idle" => Asked(writer.fixture)
    /\ writer.pc \in {"files", "mark", "finish"} =>
          writer.inv # Empty /\ writer.inv \in offered[writer.fixture]
    /\ writer.pc = "files" => writer.named = rows[writer.fixture].named
    /\ writer.pc = "mark" /\ Alone(writer.fixture) => OnDisk(writer.fixture)

FewJobs == IsFiniteSet({c \in Clicks : infer[c].state # "none"})

\* The inductive invariant.
PromotionInv ==
    /\ TypeOK /\ HistoryOK
    /\ \A c \in Clicks : ClickInv(c) /\ RowInv(c)
    /\ \A c, d \in Clicks : c # d => MeetInv(c, d)
    /\ \A t \in Tabs : TabInv(t)
    /\ WriterInv
    /\ FewJobs
    /\ SequentialClicksShare /\ StoredEditsStay
    /\ WrittenHasInvariants /\ WrittenIsNotStale /\ ReadyIsOnDisk

-----------------------------------------------------------------------------
(* Types.                                                                  *)

InferType == [state : {"none", "waiting", "active", "wrote", "settled"},
              again : BOOLEAN]
JobType == [fixture : Clicks, again : BOOLEAN]
IndexType == [owner : Clicks \cup {Nobody}, inv : Versions, whole : BOOLEAN]
ClickType == [pc : {"idle", "lookup", "insert", "enqueue", "done"},
              fixture : Clicks \cup {Nobody}]
TabType == [fixture : Clicks \cup {Nobody}, inv : Versions,
            saving : Versions, write : {"idle", "queued"}]
WriterType == [pc : {"idle", "load", "files", "mark", "finish"},
               fixture : Clicks \cup {Nobody}, again : BOOLEAN,
               inv : Versions, named : BOOLEAN]

\* TypeOK and the types of the histories, by name.
Typed ==
    /\ rows \in [Clicks -> Row] /\ infer \in [Clicks -> InferType]
    /\ writes \in Seq(JobType) /\ disk \in [Slugs -> IndexType]
    /\ click \in [Clicks -> ClickType] /\ tab \in [Tabs -> TabType]
    /\ writer \in WriterType
    /\ edits \in 0 .. MaxEdits /\ asked \in 0 .. MaxWrites
    /\ faults \in [FaultKinds -> Nat]
    /\ HistoryOK

LEMMA TypedIsTypeOK == Typed <=> TypeOK /\ HistoryOK
  BY DEF Typed, TypeOK, InferType, JobType, IndexType, ClickType, TabType, WriterType

\* The ranges are the same after a step in which nobody types.
LEMMA SameTypes ==
    ASSUME UNCHANGED edits
    PROVE  /\ Versions' = Versions /\ Row' = Row /\ IndexType' = IndexType
           /\ TabType' = TabType /\ WriterType' = WriterType
  BY DEF Versions, Row, IndexType, TabType, WriterType

\* The facts about the state that the types of the next one need.
TypeInv ==
    /\ Typed
    /\ \A c \in Clicks : ClickInv(c)
    /\ \A t \in Tabs : TabInv(t)
    /\ WriterInv

LEMMA SlugType == \A f \in Clicks : SlugOfFixture(f) \in Slugs
  BY PromotionAssumption DEF SlugOfFixture, Slugs, Runs

LEMMA FaultType ==
    ASSUME Typed, NEW kind \in FaultKinds, Fault(kind)
    PROVE  faults' \in [FaultKinds -> Nat]
  BY DEF Typed, Fault

LEMMA VersionType == Typed => Empty \in Versions /\ Inferred \in Versions
  BY DEF Typed, Versions, Empty, Inferred

LEMMA ClickTypes ==
    /\ \A r \in ClickType, pc \in {"lookup", "insert", "enqueue", "done"} :
          [r EXCEPT !.pc = pc] \in ClickType
    /\ \A f \in Clicks : [pc |-> "enqueue", fixture |-> f] \in ClickType
  BY DEF ClickType

LEMMA RowTypes ==
    \A r \in Row : /\ [r EXCEPT !.status = "proposing"] \in Row
                   /\ [r EXCEPT !.status = "ready", !.named = TRUE] \in Row
                   /\ \A v \in Versions : [r EXCEPT !.inv = v] \in Row
  BY DEF Row

LEMMA InferTypes ==
    \A job \in InferType :
        /\ \A s \in {"waiting", "active", "wrote", "settled"} :
              [job EXCEPT !.state = s] \in InferType
        /\ Resumed(job) \in InferType
  BY DEF InferType, Resumed

LEMMA PromotionTypeStart == Init => Typed
  <1> SUFFICES ASSUME Init PROVE Typed
    OBVIOUS
  <1>1. edits = 0 /\ asked = 0 /\ edits \in 0 .. MaxEdits /\ asked \in 0 .. MaxWrites
    BY PromotionAssumption DEF Init
  <1>2. Empty \in Versions
    BY <1>1 DEF Versions, Empty
  <1>3. writes \in Seq(JobType) /\ faults \in [FaultKinds -> Nat]
    BY DEF Init
  <1>4. tab \in [Tabs -> TabType]
    BY <1>2 DEF Init, Closed, TabType
  <1>5. writer \in WriterType
    BY <1>2 DEF Init, Resting, WriterType
  <1>6. rows \in [Clicks -> Row] /\ disk \in [Slugs -> IndexType]
    BY <1>2 DEF Init, Row, IndexType
  <1>7. infer \in [Clicks -> InferType] /\ click \in [Clicks -> ClickType]
    BY DEF Init, InferType, ClickType
  <1>8. HistoryOK
    BY <1>2 DEF Init, HistoryOK
  <1> QED BY <1>1, <1>3, <1>4, <1>5, <1>6, <1>7, <1>8 DEF Typed

LEMMA PostTyped ==
    ASSUME TypeInv, NEW c \in Clicks, Post(c)
    PROVE  Typed'
  <1>0. Typed /\ click[c] \in ClickType /\ rows[c] \in Row /\ infer[c] \in InferType
    BY DEF TypeInv, Typed
  <1>1. CASE Click(c)
    <2>1. met' \in [Clicks -> SUBSET Clicks]
      BY <1>0, <1>1 DEF Click, Typed, HistoryOK, Posting
    <2>2. click' \in [Clicks -> ClickType]
      BY <1>0, <1>1, ClickTypes DEF Click, Typed
    <2>3. UNCHANGED edits
      BY <1>1 DEF Click
    <2> QED BY <1>0, <1>1, <2>1, <2>2, <2>3, SameTypes
            DEF Click, storeVars, Typed, HistoryOK
  <1>2. CASE Lookup(c)
    <2>1. click' \in [Clicks -> ClickType]
      BY <1>0, <1>2, ClickTypes DEF Lookup, Existing, Typed
    <2>2. UNCHANGED edits
      BY <1>2 DEF Lookup
    <2> QED BY <1>0, <1>2, <2>1, <2>2, SameTypes
            DEF Lookup, storeVars, history, Typed, HistoryOK
  <1>3. CASE Insert(c)
    <2>1. rows' \in [Clicks -> Row] /\ click' \in [Clicks -> ClickType]
      BY <1>0, <1>3, RowTypes, ClickTypes DEF Insert, Typed
    <2>2. UNCHANGED edits
      BY <1>3 DEF Insert
    <2> QED BY <1>0, <1>3, <2>1, <2>2, SameTypes DEF Insert, history, Typed, HistoryOK
  <1>4. CASE EnqueueInfer(c)
    <2>1. faults' \in [FaultKinds -> Nat]
      BY <1>0, <1>4, FaultType DEF EnqueueInfer, NoFault, FaultKinds, Typed
    <2>2. click' \in [Clicks -> ClickType] /\ infer' \in [Clicks -> InferType]
      BY <1>0, <1>4, ClickTypes, InferTypes DEF EnqueueInfer, Typed
    <2>3. UNCHANGED edits
      BY <1>4 DEF EnqueueInfer
    <2> QED BY <1>0, <1>4, <2>1, <2>2, <2>3, SameTypes
            DEF EnqueueInfer, history, Typed, HistoryOK
  <1> QED BY <1>1, <1>2, <1>3, <1>4 DEF Post

LEMMA InferTyped ==
    ASSUME TypeInv, NEW c \in Clicks, InferStep(c)
    PROVE  Typed'
  <1>0. Typed /\ Inferred \in Versions /\ UNCHANGED edits
    BY VersionType DEF TypeInv, InferStep, TakeInfer, WriteInvariants, SettleInfer, InferFrame
  <1>1. infer' \in [Clicks -> InferType]
    <2>1. PICK s \in {"waiting", "active", "wrote", "settled"} : InferTo(c, s)
      BY DEF InferStep, TakeInfer, WriteInvariants, SettleInfer
    <2>2. infer[c] \in InferType /\ infer \in [Clicks -> InferType]
      BY <1>0 DEF Typed
    <2>3. [infer[c] EXCEPT !.state = s] \in InferType
      BY <2>2, InferTypes
    <2> QED BY <2>1, <2>2, <2>3 DEF InferTo
  <1>2. CASE WriteInvariants(c)
    <2>1. faults' \in [FaultKinds -> Nat]
      BY <1>0, <1>2, FaultType DEF WriteInvariants, NoFault, FaultKinds, Typed
    <2>2. rows' \in [Clicks -> Row]
      <3>1. click[c].fixture \in Clicks
        BY <1>2 DEF TypeInv, ClickInv, WriteInvariants
      <3>2. [rows[click[c].fixture] EXCEPT !.inv = Inferred] \in Row
        BY <1>0, <3>1, RowTypes DEF Typed
      <3> QED BY <1>0, <1>2, <3>1, <3>2 DEF WriteInvariants, Typed
    <2>3. offered' \in [Clicks -> SUBSET Versions]
      BY <1>0, <1>2 DEF WriteInvariants, Offer, Typed, HistoryOK
    <2> QED BY <1>0, <1>1, <1>2, <2>1, <2>2, <2>3, SameTypes
            DEF WriteInvariants, InferFrame, Typed, HistoryOK
  <1>3. CASE TakeInfer(c) \/ SettleInfer(c)
    BY <1>0, <1>1, <1>3, SameTypes
    DEF TakeInfer, SettleInfer, InferFrame, history, Typed, HistoryOK
  <1> QED BY <1>2, <1>3 DEF InferStep

LEMMA BrowseTyped ==
    ASSUME TypeInv, NEW t \in Tabs, Browse(t)
    PROVE  Typed'
  <1>0. Typed /\ Empty \in Versions /\ tab[t] \in TabType /\ tab \in [Tabs -> TabType]
    BY VersionType DEF TypeInv, Typed
  <1>1. ASSUME NEW f \in Clicks, Open(t, f) PROVE Typed'
    <2>0. rows[f].inv \in Versions /\ UNCHANGED edits
      BY <1>0, <1>1 DEF Typed, Row, Open
    <2>1. [Closed EXCEPT !.fixture = f, !.inv = rows[f].inv] \in TabType
      BY <1>0, <2>0 DEF TabType, Closed
    <2>2. tab' \in [Tabs -> TabType]
      BY <1>0, <1>1, <2>1 DEF Open
    <2> QED BY <1>0, <1>1, <2>0, <2>2, SameTypes DEF Open, TabFrame, Typed, HistoryOK
  <1>2. CASE Edit(t)
    <2>1. Versions \subseteq Versions' /\ edits + 2 \in Versions'
          /\ edits' \in 0 .. MaxEdits
      BY <1>0, <1>2, PromotionAssumption DEF Edit, Versions, Typed
    <2>2. /\ TabType \subseteq TabType' /\ Row \subseteq Row'
          /\ IndexType \subseteq IndexType' /\ WriterType \subseteq WriterType'
      BY <2>1 DEF TabType, Row, IndexType, WriterType
    <2>3. [tab[t] EXCEPT !.inv = edits + 2] \in TabType'
      BY <1>0, <2>1 DEF TabType
    <2>4. tab' \in [Tabs -> TabType']
      BY <1>0, <1>2, <2>2, <2>3 DEF Edit
    <2>5. /\ rows' \in [Clicks -> Row'] /\ disk' \in [Slugs -> IndexType']
          /\ writer' \in WriterType'
      BY <1>0, <1>2, <2>2 DEF Edit, TabFrame, Typed
    <2>6. HistoryOK'
      BY <1>0, <1>2, <2>1 DEF Edit, TabFrame, Typed, HistoryOK
    <2> QED BY <1>0, <1>2, <2>1, <2>4, <2>5, <2>6 DEF Edit, TabFrame, Typed
  <1>3. CASE Save(t)
    <2>0. UNCHANGED edits
      BY <1>3 DEF Save
    <2>1. [tab[t] EXCEPT !.saving = tab[t].inv] \in TabType
      BY <1>0 DEF TabType
    <2>2. tab' \in [Tabs -> TabType]
      BY <1>0, <1>3, <2>1 DEF Save
    <2> QED BY <1>0, <1>3, <2>0, <2>2, SameTypes DEF Save, TabFrame, Typed, HistoryOK
  <1>4. CASE Store(t)
    <2>0. UNCHANGED edits /\ tab[t].saving \in Versions
      BY <1>0, <1>4 DEF Store, TabType
    <2>1. [tab[t] EXCEPT !.saving = Empty] \in TabType
      BY <1>0 DEF TabType
    <2>2. tab' \in [Tabs -> TabType]
      BY <1>0, <1>4, <2>1 DEF Store
    <2>3. rows' \in [Clicks -> Row]
      BY <1>0, <1>4, <2>0, RowTypes DEF Store, Typed
    <2>4. HistoryOK'
      BY <1>0, <1>4, <2>0, SameTypes DEF Store, TabFrame, Offer, Typed, HistoryOK
    <2> QED BY <1>0, <1>4, <2>0, <2>2, <2>3, <2>4, SameTypes DEF Store, TabFrame, Typed
  <1>5. CASE AskWrite(t)
    <2> DEFINE f == tab[t].fixture
    <2>0. f \in Clicks /\ rows[f].inv \in Versions /\ UNCHANGED edits
      BY <1>0, <1>5 DEF AskWrite, Typed, TabType, Row
    <2>1. [tab[t] EXCEPT !.write = "queued"] \in TabType
      BY <1>0 DEF TabType
    <2>2. tab' \in [Tabs -> TabType]
      BY <1>0, <1>5, <2>1 DEF AskWrite
    <2>3. [fixture |-> f, again |-> FALSE] \in JobType
      BY <2>0 DEF JobType
    <2>4. writes' \in Seq(JobType)
      BY <1>0, <1>5, <2>3 DEF AskWrite, Typed
    <2>5. asked' \in 0 .. MaxWrites
      BY <1>0, <1>5, PromotionAssumption DEF AskWrite, Typed
    <2>6. HistoryOK'
      BY <1>0, <1>5, <2>0, SameTypes DEF AskWrite, TabFrame, Typed, HistoryOK
    <2> QED BY <1>0, <1>5, <2>0, <2>2, <2>4, <2>5, <2>6, SameTypes
            DEF AskWrite, TabFrame, Typed
  <1> QED BY <1>1, <1>2, <1>3, <1>4, <1>5 DEF Browse

LEMMA WriteTyped ==
    ASSUME TypeInv, WriteStep \/ Crash
    PROVE  Typed'
  <1>0. Typed /\ Empty \in Versions /\ WriterInv /\ UNCHANGED edits
    BY VersionType DEF TypeInv, WriteStep, TakeWrite, LoadRow, WriteFiles, MarkReady,
                       FinishWrite, Crash, WriterFrame
  <1>1. writer \in WriterType /\ Resting \in WriterType /\ writes \in Seq(JobType)
    BY <1>0 DEF Typed, Resting, WriterType
  <1>2. writer.pc # "idle" =>
           /\ writer.fixture \in Clicks /\ SlugOfFixture(writer.fixture) \in Slugs
           /\ Index(TRUE) \in IndexType /\ Index(FALSE) \in IndexType
           /\ rows[writer.fixture] \in Row
    BY <1>0, <1>1, SlugType DEF WriterInv, Asked, Index, IndexType, WriterType, Typed
  <1>3. \A pc \in {"files", "mark", "finish"} : [writer EXCEPT !.pc = pc] \in WriterType
    BY <1>1 DEF WriterType
  <1>4. CASE TakeWrite
    <2>1. Head(writes) \in JobType /\ Tail(writes) \in Seq(JobType)
      BY <1>1, <1>4 DEF TakeWrite
    <2>2. [Resting EXCEPT !.pc = "load", !.fixture = Head(writes).fixture,
                          !.again = Head(writes).again] \in WriterType
      BY <1>0, <2>1 DEF Resting, WriterType, JobType
    <2>3. writer' \in WriterType /\ writes' \in Seq(JobType)
      BY <1>4, <2>1, <2>2 DEF TakeWrite
    <2> QED BY <1>0, <1>4, <2>3, SameTypes
            DEF TakeWrite, WriterFrame, history, Typed, HistoryOK
  <1>5. CASE LoadRow
    <2>1. [writer EXCEPT !.pc = "files", !.inv = rows[writer.fixture].inv,
                         !.named = rows[writer.fixture].named] \in WriterType
      BY <1>1, <1>2, <1>5 DEF LoadRow, Row, WriterType
    <2> QED BY <1>0, <1>5, <2>1, SameTypes
            DEF LoadRow, WriterFrame, history, Typed, HistoryOK
  <1>6. CASE WriteFiles
    <2>1. faults' \in [FaultKinds -> Nat]
      BY <1>0, <1>6, FaultType DEF WriteFiles, NoFault, FaultKinds, Typed
    <2>2. writer' \in WriterType
      BY <1>1, <1>3, <1>6 DEF WriteFiles
    <2>3. disk' \in [Slugs -> IndexType]
      BY <1>0, <1>2, <1>6 DEF WriteFiles, Typed
    <2> QED BY <1>0, <1>6, <2>1, <2>2, <2>3, SameTypes
            DEF WriteFiles, WriterFrame, history, Typed, HistoryOK
  <1>7. CASE MarkReady
    <2>1. writer' \in WriterType
      BY <1>3, <1>7 DEF MarkReady
    <2>2. rows' \in [Clicks -> Row]
      BY <1>0, <1>2, <1>7, RowTypes DEF MarkReady, Typed
    <2> QED BY <1>0, <1>7, <2>1, <2>2, SameTypes
            DEF MarkReady, WriterFrame, history, Typed, HistoryOK
  <1>8. CASE FinishWrite
    BY <1>0, <1>1, <1>8, SameTypes
    DEF FinishWrite, WriterFrame, history, Typed, HistoryOK
  <1>9. CASE Crash
    <2>1. faults' \in [FaultKinds -> Nat]
      BY <1>0, <1>9, FaultType DEF Crash, FaultKinds
    <2>2. infer' \in [Clicks -> InferType]
      BY <1>0, <1>9, InferTypes DEF Crash, Typed
    <2>3. writes' \in Seq(JobType)
      <3>1. CASE writer.pc = "idle" \/ writer.again
        BY <1>1, <1>9, <3>1 DEF Crash
      <3>2. CASE ~(writer.pc = "idle" \/ writer.again)
        <4>1. [fixture |-> writer.fixture, again |-> TRUE] \in JobType
          BY <1>2, <3>2 DEF JobType
        <4>2. <<[fixture |-> writer.fixture, again |-> TRUE]>> \in Seq(JobType)
          BY <4>1
        <4>3. writes' = <<[fixture |-> writer.fixture, again |-> TRUE]>> \o writes
          BY <1>9, <3>2 DEF Crash
        <4> QED BY <1>1, <4>2, <4>3
      <3> QED BY <3>1, <3>2
    <2>4. disk' \in [Slugs -> IndexType]
      BY <1>0, <1>2, <1>9 DEF Crash, Typed
    <2> QED BY <1>0, <1>1, <1>9, <2>1, <2>2, <2>3, <2>4, SameTypes
            DEF Crash, history, Typed, HistoryOK
  <1> QED BY <1>4, <1>5, <1>6, <1>7, <1>8, <1>9 DEF WriteStep

LEMMA TypedKeeps == TypeInv /\ [Next]_vars => Typed'
  <1> SUFFICES ASSUME TypeInv, [Next]_vars PROVE Typed'
    OBVIOUS
  <1>1. CASE UNCHANGED vars
    <2>1. UNCHANGED edits
      BY <1>1 DEF vars
    <2> QED BY <1>1, <2>1, SameTypes DEF TypeInv, vars, storeVars, history, Typed, HistoryOK
  <1>2. CASE Next
    BY <1>2, PostTyped, InferTyped, BrowseTyped, WriteTyped DEF Next
  <1> QED BY <1>1, <1>2

-----------------------------------------------------------------------------
(* What a step can do to a click, a row and a job, and what only grows.     *)

\* Only its own POST moves a click.
LEMMA ClickEffect ==
    ASSUME Typed, [Next]_vars, NEW c \in Clicks, ~Post(c)
    PROVE  click'[c] = click[c]
  <1>0. click \in [Clicks -> ClickType]
    BY DEF Typed
  <1>1. CASE UNCHANGED vars
    BY <1>1 DEF vars
  <1>2. ASSUME NEW d \in Clicks, Post(d) PROVE click'[c] = click[c]
    <2>1. d # c
      BY <1>2
    <2>2. CASE Click(d)
      BY <1>0, <2>1, <2>2 DEF Click
    <2>3. CASE Lookup(d)
      BY <1>0, <2>1, <2>3 DEF Lookup
    <2>4. CASE Insert(d)
      BY <1>0, <2>1, <2>4 DEF Insert
    <2>5. CASE EnqueueInfer(d)
      BY <1>0, <2>1, <2>5 DEF EnqueueInfer
    <2> QED BY <1>2, <2>2, <2>3, <2>4, <2>5 DEF Post
  <1>3. ASSUME NEW d \in Clicks, InferStep(d) PROVE click' = click
    BY <1>3 DEF InferStep, TakeInfer, WriteInvariants, SettleInfer, InferFrame
  <1>4. ASSUME NEW t \in Tabs, Browse(t) PROVE click' = click
    BY <1>4 DEF Browse, Open, Edit, Save, Store, AskWrite, TabFrame
  <1>5. CASE WriteStep \/ Crash
    BY <1>5 DEF WriteStep, TakeWrite, LoadRow, WriteFiles, MarkReady, FinishWrite,
                WriterFrame, Crash
  <1> QED BY <1>1, <1>2, <1>3, <1>4, <1>5 DEF Next

\* A row changes in an INSERT, in the two UPDATEs of the jobs and in an
\* editor's.
LEMMA RowEffect ==
    ASSUME TypeInv, [Next]_vars, NEW f \in Clicks
    PROVE  \/ rows'[f] = rows[f]
           \/ Insert(f) /\ rows'[f] = [rows[f] EXCEPT !.status = "proposing"]
           \/ \E c \in Clicks :
                 /\ WriteInvariants(c) /\ f = click[c].fixture
                 /\ rows'[f] = [rows[f] EXCEPT !.inv = Inferred]
           \/ \E t \in Tabs :
                 /\ Store(t) /\ f = tab[t].fixture
                 /\ rows'[f] = [rows[f] EXCEPT !.inv = tab[t].saving]
           \/ /\ MarkReady /\ f = writer.fixture
              /\ rows'[f] = [rows[f] EXCEPT !.status = "ready", !.named = TRUE]
  <1>0. rows \in [Clicks -> Row]
    BY DEF TypeInv, Typed
  <1>1. CASE UNCHANGED vars
    BY <1>1 DEF vars, storeVars
  <1>2. ASSUME NEW c \in Clicks, Post(c)
        PROVE  \/ rows'[f] = rows[f]
               \/ Insert(f) /\ rows'[f] = [rows[f] EXCEPT !.status = "proposing"]
    <2>1. CASE Insert(c)
      BY <1>0, <2>1 DEF Insert
    <2> QED BY <1>2, <2>1 DEF Post, Click, Lookup, EnqueueInfer, storeVars
  <1>3. ASSUME NEW c \in Clicks, InferStep(c)
        PROVE  \/ rows'[f] = rows[f]
               \/ /\ WriteInvariants(c) /\ f = click[c].fixture
                  /\ rows'[f] = [rows[f] EXCEPT !.inv = Inferred]
    <2>1. CASE WriteInvariants(c)
      BY <1>0, <2>1 DEF WriteInvariants
    <2> QED BY <1>3, <2>1 DEF InferStep, TakeInfer, SettleInfer
  <1>4. ASSUME NEW t \in Tabs, Browse(t)
        PROVE  \/ rows'[f] = rows[f]
               \/ /\ Store(t) /\ f = tab[t].fixture
                  /\ rows'[f] = [rows[f] EXCEPT !.inv = tab[t].saving]
    <2>1. CASE Store(t)
      BY <1>0, <2>1 DEF Store
    <2> QED BY <1>4, <2>1 DEF Browse, Open, Edit, Save, AskWrite
  <1>5. CASE MarkReady
    BY <1>0, <1>5 DEF MarkReady
  <1>6. CASE TakeWrite \/ LoadRow \/ WriteFiles \/ FinishWrite \/ Crash
    BY <1>6 DEF TakeWrite, LoadRow, WriteFiles, FinishWrite, Crash
  <1> QED BY <1>1, <1>2, <1>3, <1>4, <1>5, <1>6 DEF Next, WriteStep

\* A job is moved by being enqueued, by its own steps and by a crash.
LEMMA InferEffect ==
    ASSUME Typed, [Next]_vars, NEW c \in Clicks
    PROVE  \/ infer'[c] = infer[c]
           \/ EnqueueInfer(c) /\ infer'[c] = [infer[c] EXCEPT !.state = "waiting"]
           \/ TakeInfer(c) /\ infer'[c] = [infer[c] EXCEPT !.state = "active"]
           \/ WriteInvariants(c) /\ \E s \in {"wrote", "settled"} :
                 infer'[c] = [infer[c] EXCEPT !.state = s]
           \/ SettleInfer(c) /\ infer'[c] = [infer[c] EXCEPT !.state = "settled"]
           \/ Crash /\ infer'[c] = Resumed(infer[c])
  <1>0. infer \in [Clicks -> InferType]
    BY DEF Typed
  <1>1. CASE UNCHANGED vars
    BY <1>1 DEF vars, storeVars
  <1>2. ASSUME NEW d \in Clicks, Post(d)
        PROVE  \/ infer'[c] = infer[c]
               \/ EnqueueInfer(c) /\ infer'[c] = [infer[c] EXCEPT !.state = "waiting"]
    <2>1. CASE EnqueueInfer(d)
      BY <1>0, <2>1 DEF EnqueueInfer
    <2> QED BY <1>2, <2>1 DEF Post, Click, Lookup, Insert, storeVars
  <1>3. ASSUME NEW d \in Clicks, TakeInfer(d)
        PROVE  \/ infer'[c] = infer[c]
               \/ TakeInfer(c) /\ infer'[c] = [infer[c] EXCEPT !.state = "active"]
    BY <1>0, <1>3 DEF TakeInfer, InferTo
  <1>4. ASSUME NEW d \in Clicks, WriteInvariants(d)
        PROVE  \/ infer'[c] = infer[c]
               \/ WriteInvariants(c) /\ \E s \in {"wrote", "settled"} :
                     infer'[c] = [infer[c] EXCEPT !.state = s]
    <2>1. PICK s \in {"wrote", "settled"} : InferTo(d, s)
      BY <1>4 DEF WriteInvariants
    <2> QED BY <1>0, <1>4, <2>1 DEF InferTo
  <1>5. ASSUME NEW d \in Clicks, SettleInfer(d)
        PROVE  \/ infer'[c] = infer[c]
               \/ SettleInfer(c) /\ infer'[c] = [infer[c] EXCEPT !.state = "settled"]
    BY <1>0, <1>5 DEF SettleInfer, InferTo
  <1>6. ASSUME NEW t \in Tabs, Browse(t) PROVE infer' = infer
    BY <1>6 DEF Browse, Open, Edit, Save, Store, AskWrite, TabFrame
  <1>7. CASE WriteStep
    BY <1>7 DEF WriteStep, TakeWrite, LoadRow, WriteFiles, MarkReady, FinishWrite,
                WriterFrame
  <1>8. CASE Crash
    BY <1>0, <1>8 DEF Crash
  <1> QED BY <1>1, <1>2, <1>3, <1>4, <1>5, <1>6, <1>7, <1>8 DEF Next, InferStep

\* What is offered grows, and once something is, whatever the row gets is.
OfferStep(f) ==
    /\ offered[f] \subseteq offered'[f]
    /\ offered'[f] # {} => \/ offered[f] # {} /\ rows'[f].inv = rows[f].inv
                           \/ rows'[f].inv \in offered'[f]

LEMMA OfferEffect ==
    ASSUME TypeInv, [Next]_vars, NEW f \in Clicks
    PROVE  OfferStep(f)
  <1>0. /\ offered \in [Clicks -> SUBSET Versions]
        /\ rows \in [Clicks -> Row] /\ rows[f] \in Row
    BY DEF TypeInv, Typed, HistoryOK
  <1>1. CASE UNCHANGED vars
    BY <1>1 DEF vars, storeVars, history, OfferStep
  <1>2. ASSUME NEW c \in Clicks, Post(c) PROVE OfferStep(f)
    <2>1. CASE Insert(c)
      <3>1. offered' = offered /\ rows' = [rows EXCEPT ![c] = [@ EXCEPT !.status = "proposing"]]
        BY <2>1 DEF Insert, history
      <3>2. rows'[f].inv = rows[f].inv
        BY <1>0, <3>1 DEF Row
      <3> QED BY <3>1, <3>2 DEF OfferStep
    <2> QED BY <1>2, <2>1
            DEF Post, Click, Lookup, EnqueueInfer, storeVars, history, OfferStep
  <1>3. ASSUME NEW g \in Clicks, NEW v,
               rows' = [rows EXCEPT ![g] = [@ EXCEPT !.inv = v]], Offer(g, v)
        PROVE  OfferStep(f)
    <2>1. CASE f = g
      <3>1. rows'[f] = [rows[f] EXCEPT !.inv = v]
        BY <1>0, <1>3, <2>1
      <3>2. rows'[f].inv = v
        BY <1>0, <3>1 DEF Row
      <3> QED BY <1>0, <1>3, <2>1, <3>2 DEF Offer, OfferStep
    <2> QED BY <1>0, <1>3, <2>1 DEF Offer, OfferStep
  <1>4. ASSUME NEW c \in Clicks, InferStep(c) PROVE OfferStep(f)
    <2>1. CASE WriteInvariants(c)
      <3>1. click[c].fixture \in Clicks
        BY <2>1 DEF TypeInv, ClickInv, WriteInvariants
      <3> QED BY <1>3, <2>1, <3>1 DEF WriteInvariants, OfferStep
    <2> QED BY <1>4, <2>1 DEF InferStep, TakeInfer, SettleInfer, history, OfferStep
  <1>5. ASSUME NEW t \in Tabs, Browse(t) PROVE OfferStep(f)
    <2>0. tab[t].fixture \in Clicks \cup {Nobody}
      BY DEF TypeInv, Typed, TabType
    <2>1. CASE Store(t)
      <3>1. tab[t].fixture \in Clicks
        BY <2>0, <2>1 DEF TypeInv, TabInv, Store
      <3> QED BY <1>3, <2>1, <3>1 DEF Store
    <2>2. CASE AskWrite(t)
      BY <1>0, <2>0, <2>2 DEF AskWrite, OfferStep
    <2> QED BY <1>5, <2>1, <2>2 DEF Browse, Open, Edit, Save, OfferStep
  <1>6. CASE MarkReady
    <2>1. /\ offered' = offered
          /\ rows' = [rows EXCEPT ![writer.fixture] =
                         [@ EXCEPT !.status = "ready", !.named = TRUE]]
      BY <1>6 DEF MarkReady, WriterFrame, history
    <2>2. rows'[f].inv = rows[f].inv
      BY <1>0, <2>1 DEF Row
    <2> QED BY <2>1, <2>2 DEF OfferStep
  <1>7. CASE TakeWrite \/ LoadRow \/ WriteFiles \/ FinishWrite \/ Crash
    BY <1>7 DEF TakeWrite, LoadRow, WriteFiles, FinishWrite, WriterFrame, Crash,
                history, OfferStep
  <1> QED BY <1>1, <1>2, <1>4, <1>5, <1>6, <1>7 DEF Next, WriteStep

\* Rows stay, keep having invariants and keep their path.
LEMMA RowGrows ==
    ASSUME TypeInv, [Next]_vars, NEW f \in Clicks
    PROVE  /\ Exists(f) => Exists(f)'
           /\ rows[f].inv # Empty => rows'[f].inv # Empty
           /\ rows[f].named => rows'[f].named
  <1>0. rows[f] \in Row
    BY DEF TypeInv, Typed
  <1>1. ASSUME NEW c \in Clicks, rows'[f] = [rows[f] EXCEPT !.inv = Inferred]
        PROVE  /\ rows'[f].status = rows[f].status /\ rows'[f].named = rows[f].named
               /\ rows'[f].inv # Empty
    BY <1>0, <1>1 DEF Row, Inferred, Empty
  <1>2. ASSUME NEW t \in Tabs, Store(t), rows'[f] = [rows[f] EXCEPT !.inv = tab[t].saving]
        PROVE  /\ rows'[f].status = rows[f].status /\ rows'[f].named = rows[f].named
               /\ rows'[f].inv # Empty
    BY <1>0, <1>2 DEF Row, Store
  <1>3. ASSUME \/ rows'[f] = [rows[f] EXCEPT !.status = "proposing"]
               \/ rows'[f] = [rows[f] EXCEPT !.status = "ready", !.named = TRUE]
        PROVE  /\ rows'[f].status # "absent"
               /\ rows'[f].inv = rows[f].inv
               /\ rows[f].named => rows'[f].named
    BY <1>0, <1>3 DEF Row
  <1>4. \/ rows'[f] = rows[f]
        \/ /\ rows'[f].status = rows[f].status
           /\ rows'[f].named = rows[f].named
           /\ rows'[f].inv # Empty
        \/ /\ rows'[f].status # "absent"
           /\ rows'[f].inv = rows[f].inv
           /\ rows[f].named => rows'[f].named
    BY <1>1, <1>2, <1>3, RowEffect
  <1> QED BY <1>4 DEF Exists

\* Only its own POST makes the row of a fixture.
LEMMA Born ==
    ASSUME TypeInv, [Next]_vars, NEW f \in Clicks, RowInv(f), ~Exists(f), Exists(f)'
    PROVE  Insert(f)
  <1>0. rows[f] \in Row
    BY DEF TypeInv, Typed
  <1>1. \A v : [rows[f] EXCEPT !.inv = v].status = rows[f].status
    BY <1>0 DEF Row
  <1>2. MarkReady => f # writer.fixture
    BY DEF MarkReady, TypeInv, WriterInv, Asked, RowInv
  <1> QED BY <1>1, <1>2, RowEffect DEF Exists

\* A click that has its fixture keeps it.
LEMMA ClickStays ==
    ASSUME Typed, [Next]_vars, NEW c \in Clicks, click[c].pc \in {"enqueue", "done"}
    PROVE  /\ click'[c].fixture = click[c].fixture /\ click'[c].pc \in {"enqueue", "done"}
           /\ click[c].pc = "done" => click'[c].pc = "done"
  <1>0. click[c] \in ClickType /\ click \in [Clicks -> ClickType]
    BY DEF Typed
  <1>1. CASE Post(c)
    <2>1. EnqueueInfer(c)
      BY <1>1 DEF Post, Click, Lookup, Insert
    <2>2. click'[c] = [click[c] EXCEPT !.pc = "done"]
      BY <1>0, <2>1 DEF EnqueueInfer
    <2> QED BY <1>0, <2>2 DEF ClickType
  <1> QED BY <1>1, ClickEffect

\* A job does not vanish, and that it has written shows until it runs again.
LEMMA InferGrows ==
    ASSUME Typed, [Next]_vars, NEW c \in Clicks, ClickInv(c), infer[c].state # "none"
    PROVE  /\ infer'[c].state # "none"
           /\ infer[c].again => infer'[c].again
           /\ infer[c].state \in {"wrote", "settled"} =>
                 infer'[c].state \in {"wrote", "settled"} \/ infer'[c].again
  <1>0. infer[c] \in InferType
    BY DEF Typed
  <1>1. ~EnqueueInfer(c)
    BY DEF ClickInv, EnqueueInfer
  <1>2. CASE infer'[c] = infer[c]
    BY <1>2
  <1>3. CASE TakeInfer(c) /\ infer'[c] = [infer[c] EXCEPT !.state = "active"]
    BY <1>0, <1>3 DEF TakeInfer, InferType
  <1>4. CASE \E s \in {"wrote", "settled"} : infer'[c] = [infer[c] EXCEPT !.state = s]
    BY <1>0, <1>4 DEF InferType
  <1>5. CASE infer'[c] = Resumed(infer[c])
    BY <1>0, <1>5 DEF InferType, Resumed
  <1> QED BY <1>1, <1>2, <1>3, <1>4, <1>5, InferEffect

\* What has happened to a fixture's row by an infer job stays true.
LEMMA WroteStays ==
    ASSUME TypeInv, [Next]_vars, NEW f \in Clicks
    PROVE  /\ InfersFor(f) \subseteq InfersFor(f)'
           /\ Wrote(f) => Wrote(f)'
           /\ (\E c \in InfersFor(f) : infer[c].again)
                => (\E c \in InfersFor(f) : infer[c].again)'
  <1>0. Typed /\ \A c \in Clicks : ClickInv(c)
    BY DEF TypeInv
  <1>1. ASSUME NEW c \in InfersFor(f)
        PROVE  /\ c \in InfersFor(f)'
               /\ infer[c].again => infer'[c].again
               /\ infer[c].state \in {"wrote", "settled"} =>
                     infer'[c].state \in {"wrote", "settled"} \/ infer'[c].again
    <2>1. c \in Clicks /\ click[c].fixture = f /\ infer[c].state # "none"
      BY DEF InfersFor
    <2>2. click[c].pc = "done"
      BY <1>0, <2>1 DEF ClickInv
    <2> QED BY <1>0, <2>1, <2>2, ClickStays, InferGrows DEF InfersFor
  <1> QED BY <1>1 DEF Wrote

LEMMA MoreJobs ==
    ASSUME TypeInv, FewJobs, [Next]_vars, FewJobs', NEW f \in Clicks
    PROVE  /\ IsFiniteSet(InfersFor(f)) /\ IsFiniteSet(InfersFor(f)')
           /\ Cardinality(InfersFor(f)) <= Cardinality(InfersFor(f)')
           /\ Cardinality(InfersFor(f)) \in Nat /\ Cardinality(InfersFor(f)') \in Nat
  <1>1. IsFiniteSet(InfersFor(f))
    BY FS_Subset DEF FewJobs, InfersFor
  <1>2. IsFiniteSet(InfersFor(f)')
    BY FS_Subset DEF FewJobs, InfersFor
  <1> QED BY <1>1, <1>2, WroteStays, FS_Subset, FS_CardinalityType

-----------------------------------------------------------------------------
(* Every part of the invariant is kept.                                     *)

LEMMA ClickInvKeeps ==
    ASSUME TypeInv, [Next]_vars, NEW c \in Clicks, \A f \in Clicks : RowInv(f)
    PROVE  ClickInv(c)'
  <1>0. Typed /\ ClickInv(c) /\ click[c] \in ClickType /\ infer[c] \in InferType
    BY DEF TypeInv, Typed
  <1>1. CASE ~Post(c)
    <2>1. click'[c] = click[c]
      BY <1>0, <1>1, ClickEffect
    <2>2. Exists(c)' => Exists(c)
      BY <1>1, Born DEF Post
    <2>3. click[c].fixture \in Clicks /\ Exists(click[c].fixture)
             => Exists(click[c].fixture)'
      BY <2>1, RowGrows
    <2>4. infer'[c].state # "none" => infer[c].state # "none"
      BY <1>0, <1>1, InferEffect
      DEF Post, TakeInfer, WriteInvariants, SettleInfer, Resumed, InferType
    <2> QED BY <1>0, <2>1, <2>2, <2>3, <2>4 DEF ClickInv
  <1>2. CASE Click(c)
    <2>1. click'[c] = [click[c] EXCEPT !.pc = "lookup"]
      BY <1>0, <1>2 DEF Click, Typed
    <2> QED BY <1>0, <1>2, <2>1 DEF Click, storeVars, ClickInv, ClickType, Exists
  <1>3. CASE Lookup(c)
    <2>1. \/ click'[c] = [click[c] EXCEPT !.pc = "insert"]
          \/ \E f \in Existing(c) : click'[c] = [pc |-> "enqueue", fixture |-> f]
      BY <1>0, <1>3 DEF Lookup, Typed
    <2>2. /\ click[c].fixture = Nobody /\ ~Exists(c) /\ infer[c].state = "none"
          /\ rows' = rows /\ infer' = infer
      BY <1>0, <1>3 DEF Lookup, storeVars, ClickInv
    <2>3. CASE click'[c] = [click[c] EXCEPT !.pc = "insert"]
      <3>1. click'[c].pc = "insert" /\ click'[c].fixture = Nobody
        BY <1>0, <2>2, <2>3 DEF ClickType
      <3> QED BY <2>2, <3>1 DEF ClickInv, Exists
    <2>4. ASSUME NEW f \in Existing(c), click'[c] = [pc |-> "enqueue", fixture |-> f]
          PROVE  ClickInv(c)'
      BY <2>2, <2>4 DEF ClickInv, Exists, Existing
    <2> QED BY <2>1, <2>3, <2>4
  <1>4. CASE Insert(c)
    <2>1. /\ click'[c] = [pc |-> "enqueue", fixture |-> c]
          /\ rows'[c].status = "proposing"
      BY <1>0, <1>4 DEF Insert, Typed, Row
    <2> QED BY <1>0, <1>4, <2>1 DEF Insert, ClickInv, Exists
  <1>5. CASE EnqueueInfer(c)
    <2>1. click'[c] = [click[c] EXCEPT !.pc = "done"]
      BY <1>0, <1>5 DEF EnqueueInfer, Typed
    <2> QED BY <1>0, <1>5, <2>1 DEF EnqueueInfer, ClickInv, ClickType, Exists
  <1> QED BY <1>1, <1>2, <1>3, <1>4, <1>5 DEF Post

\* What a click has met it has met, once it has come.
LEMMA MetGrows ==
    ASSUME Typed, [Next]_vars, NEW c \in Clicks, click[c].pc # "idle"
    PROVE  met[c] \subseteq met'[c]
  <1>1. ASSUME NEW d \in Clicks, Click(d) PROVE met[c] \subseteq met'[c]
    BY <1>1 DEF Click
  <1>2. ASSUME NEW d \in Clicks, Post(d), ~Click(d) PROVE met' = met
    BY <1>2 DEF Post, Lookup, Insert, EnqueueInfer, history
  <1>3. ASSUME NEW d \in Clicks, InferStep(d) PROVE met' = met
    BY <1>3 DEF InferStep, TakeInfer, WriteInvariants, SettleInfer, history
  <1>4. ASSUME NEW t \in Tabs, Browse(t) PROVE met' = met
    BY <1>4 DEF Browse, Open, Edit, Save, Store, AskWrite, TabFrame
  <1>5. CASE WriteStep \/ Crash
    BY <1>5 DEF WriteStep, TakeWrite, LoadRow, WriteFiles, MarkReady, FinishWrite,
                WriterFrame, Crash, history
  <1>6. CASE UNCHANGED vars
    BY <1>6 DEF vars, history
  <1> QED BY <1>1, <1>2, <1>3, <1>4, <1>5, <1>6 DEF Next

LEMMA MeetKeeps ==
    ASSUME TypeInv, [Next]_vars, \A f \in Clicks : RowInv(f),
           NEW c \in Clicks, NEW d \in Clicks, c # d, MeetInv(c, d), MeetInv(d, c)
    PROVE  MeetInv(c, d)'
  <1>0. /\ Typed /\ ClickInv(c) /\ ClickInv(d)
        /\ click \in [Clicks -> ClickType] /\ click[c] \in ClickType
        /\ click[d] \in ClickType
    BY DEF TypeInv, Typed
  <1>1. ASSUME c \in Posting', d \in Posting' PROVE d \in met'[c]
    <2>1. \A e \in {c, d} : e \in Posting' /\ ~Click(e) => e \in Posting
      <3> SUFFICES ASSUME NEW e \in {c, d}, e \in Posting', ~Click(e)
                   PROVE  e \in Posting
        OBVIOUS
      <3>1. CASE Post(e)
        BY <3>1 DEF Post, Lookup, Insert, EnqueueInfer, Posting
      <3>2. CASE ~Post(e)
        BY <1>0, <3>2, ClickEffect DEF Posting
      <3> QED BY <3>1, <3>2
    <2>2. CASE Click(c)
      <3>1. met'[c] = Posting /\ click'[d] = click[d]
        BY <1>0, <2>2 DEF Click
      <3> QED BY <1>1, <3>1 DEF Posting
    <2>3. CASE Click(d)
      <3>1. c \in Posting
        BY <1>0, <1>1, <2>3 DEF Click, Posting
      <3> QED BY <2>3, <3>1 DEF Click
    <2>4. CASE ~Click(c) /\ ~Click(d)
      <3>1. d \in met[c] /\ c \in Posting
        BY <1>1, <2>1, <2>4 DEF MeetInv
      <3> QED BY <1>0, <3>1, MetGrows DEF Posting
    <2> QED BY <2>2, <2>3, <2>4
  <1>2. ASSUME click'[c].pc = "insert", Exists(d)', RunOf[c] = RunOf[d]
        PROVE  d \in met'[c] /\ c \in met'[d]
    <2>1. CASE click[c].pc # "insert"
      <3>1. Lookup(c)
        <4>1. Post(c)
          BY <1>0, <1>2, <2>1, ClickEffect
        <4>2. ~Click(c)
          BY <1>0, <1>2 DEF Click, ClickType
        <4> QED BY <1>2, <2>1, <4>1, <4>2, ClickStays, <1>0 DEF Post, Insert, EnqueueInfer
      <3>2. UNCHANGED rows
        BY <3>1 DEF Lookup, storeVars
      <3>3. d \in Existing(c)
        BY <1>2, <3>2 DEF Existing, Exists
      <3>4. click'[c].pc = "enqueue"
        BY <1>0, <3>1, <3>3 DEF Lookup
      <3> QED BY <1>2, <3>4
    <2>2. CASE click[c].pc = "insert" /\ Exists(d)
      <3>1. d \in met[c] /\ c \in met[d]
        BY <1>2, <2>2 DEF MeetInv
      <3>2. click[d].pc # "idle"
        BY <1>0, <2>2 DEF ClickInv
      <3> QED BY <1>0, <2>2, <3>1, <3>2, MetGrows
    <2>3. CASE click[c].pc = "insert" /\ ~Exists(d)
      <3>1. Insert(d)
        BY <1>2, <2>3, Born
      <3>2. d \in met[c] /\ c \in met[d]
        BY <2>3, <3>1 DEF Insert, MeetInv, Posting
      <3> QED BY <3>1, <3>2 DEF Insert, history
    <2> QED BY <2>1, <2>2, <2>3
  <1> QED BY <1>1, <1>2 DEF MeetInv

LEMMA SharingKeeps ==
    ASSUME TypeInv, [Next]_vars, \A f \in Clicks : RowInv(f),
           \A c, d \in Clicks : c # d => MeetInv(c, d), SequentialClicksShare
    PROVE  SequentialClicksShare'
  <1> SUFFICES ASSUME NEW c \in Clicks, NEW d \in Clicks, c # d,
                      Exists(c)', Exists(d)', RunOf[c] = RunOf[d]
               PROVE  d \in met'[c]
    BY DEF SequentialClicksShare
  <1>0. Typed /\ ClickInv(c) /\ ClickInv(d) /\ click \in [Clicks -> ClickType]
    BY DEF TypeInv, Typed
  <1>1. CASE Exists(c) /\ Exists(d)
    <2>1. d \in met[c] /\ click[c].pc # "idle"
      BY <1>0, <1>1 DEF SequentialClicksShare, ClickInv
    <2> QED BY <1>0, <2>1, MetGrows
  <1>2. CASE ~Exists(c) /\ Exists(d)
    <2>1. Insert(c)
      BY <1>2, Born
    <2> QED BY <1>2, <2>1 DEF Insert, MeetInv, history
  <1>3. CASE Exists(c) /\ ~Exists(d)
    <2>1. Insert(d)
      BY <1>3, Born
    <2> QED BY <1>3, <2>1 DEF Insert, MeetInv, history
  <1>4. CASE ~Exists(c) /\ ~Exists(d)
    <2>1. Insert(c) /\ Insert(d)
      BY <1>4, Born
    <2> QED BY <1>0, <2>1 DEF Insert
  <1> QED BY <1>1, <1>2, <1>3, <1>4

\* Where a row's invariants change, what they become and who changed them.
LEMMA InvEffect ==
    ASSUME TypeInv, [Next]_vars, NEW f \in Clicks, rows'[f].inv # rows[f].inv
    PROVE  \/ \E c \in InfersFor(f) :
                 /\ infer[c].state = "active" /\ infer'[c].state = "wrote"
                 /\ c \in InfersFor(f)' /\ Exists(f)
           \/ \E t \in Tabs : /\ Store(t) /\ f = tab[t].fixture
                              /\ rows'[f].inv = tab[t].saving
  <1>0. rows[f] \in Row /\ Typed
    BY DEF TypeInv, Typed
  <1>1. CASE \/ rows'[f] = rows[f]
             \/ rows'[f] = [rows[f] EXCEPT !.status = "proposing"]
             \/ rows'[f] = [rows[f] EXCEPT !.status = "ready", !.named = TRUE]
    BY <1>0, <1>1 DEF Row
  <1>2. ASSUME NEW c \in Clicks, WriteInvariants(c), f = click[c].fixture
        PROVE  /\ c \in InfersFor(f) /\ infer[c].state = "active" /\ Exists(f)
               /\ infer'[c].state = "wrote" /\ c \in InfersFor(f)'
    <2>1. infer[c] \in InferType /\ infer[c].state = "active" /\ click' = click
      BY <1>0, <1>2 DEF WriteInvariants, InferFrame, Typed
    <2>2. rows' # rows
      OBVIOUS
    <2>3. infer'[c] = [infer[c] EXCEPT !.state = "wrote"]
      BY <1>0, <1>2, <2>2 DEF WriteInvariants, InferTo, Typed
    <2>4. infer'[c].state = "wrote"
      BY <2>1, <2>3 DEF InferType
    <2>5. Exists(f)
      BY <1>2, <2>1 DEF TypeInv, ClickInv
    <2> QED BY <1>2, <2>1, <2>4, <2>5 DEF InfersFor
  <1>3. ASSUME NEW t \in Tabs, rows'[f] = [rows[f] EXCEPT !.inv = tab[t].saving]
        PROVE  rows'[f].inv = tab[t].saving
    BY <1>0, <1>3 DEF Row
  <1> QED BY <1>1, <1>2, <1>3, RowEffect

LEMMA StoredEffect ==
    ASSUME Typed, [Next]_vars, NEW f \in Clicks, stored'[f] # stored[f]
    PROVE  \E t \in Tabs : Store(t) /\ f = tab[t].fixture /\ stored'[f] = tab[t].saving
  <1>0. stored \in [Clicks -> Versions]
    BY DEF Typed, HistoryOK
  <1>1. ASSUME NEW c \in Clicks, Post(c) PROVE stored' = stored
    BY <1>1 DEF Post, Click, Lookup, Insert, EnqueueInfer, history
  <1>2. ASSUME NEW c \in Clicks, InferStep(c) PROVE stored' = stored
    BY <1>2 DEF InferStep, TakeInfer, WriteInvariants, SettleInfer, history
  <1>3. ASSUME NEW t \in Tabs, Store(t)
        PROVE  f = tab[t].fixture /\ stored'[f] = tab[t].saving
    BY <1>0, <1>3 DEF Store
  <1>4. ASSUME NEW t \in Tabs, Browse(t), ~Store(t) PROVE stored' = stored
    BY <1>4 DEF Browse, Open, Edit, Save, AskWrite, TabFrame
  <1>5. CASE WriteStep \/ Crash
    BY <1>5 DEF WriteStep, TakeWrite, LoadRow, WriteFiles, MarkReady, FinishWrite,
                WriterFrame, Crash, history
  <1>6. CASE UNCHANGED vars
    BY <1>6 DEF vars, history
  <1> QED BY <1>1, <1>2, <1>3, <1>4, <1>5, <1>6 DEF Next

LEMMA RowInvKeeps ==
    ASSUME TypeInv, [Next]_vars, NEW f \in Clicks, RowInv(f)
    PROVE  RowInv(f)'
  <1>0. Typed /\ rows[f] \in Row
    BY DEF TypeInv, Typed
  <1>1. rows'[f].inv # Empty => Exists(f)' /\ Wrote(f)'
    <2>1. CASE rows'[f].inv = rows[f].inv
      BY <2>1, RowGrows, WroteStays DEF RowInv
    <2>2. ASSUME NEW c \in InfersFor(f), infer'[c].state = "wrote", c \in InfersFor(f)',
                 Exists(f)
          PROVE  Exists(f)' /\ Wrote(f)'
      BY <2>2, RowGrows DEF Wrote
    <2>3. ASSUME NEW t \in Tabs, Store(t), f = tab[t].fixture
          PROVE  Exists(f)' /\ Wrote(f)'
      <3>1. rows[f].inv # Empty
        BY <2>3, PromotionAssumption DEF TypeInv, TabInv, Store
      <3> QED BY <3>1, RowGrows, WroteStays DEF RowInv
    <2> QED BY <2>1, <2>2, <2>3, InvEffect
  <1>2. stored'[f] # Empty => rows'[f].inv # Empty
    <2>1. CASE stored'[f] = stored[f]
      BY <2>1, RowGrows DEF RowInv
    <2>2. ASSUME NEW t \in Tabs, Store(t), f = tab[t].fixture
          PROVE  rows'[f].inv # Empty
      <3>1. rows[f].inv # Empty
        BY <2>2, PromotionAssumption DEF TypeInv, TabInv, Store
      <3> QED BY <3>1, RowGrows
    <2> QED BY <1>0, <2>1, <2>2, StoredEffect
  <1>3. rows'[f].status = "ready" => rows'[f].named
    <2>1. CASE rows'[f] = [rows[f] EXCEPT !.status = "proposing"]
      BY <1>0, <2>1 DEF Row
    <2>2. CASE rows'[f] = [rows[f] EXCEPT !.status = "ready", !.named = TRUE]
      BY <1>0, <2>2 DEF Row
    <2>3. ASSUME NEW v, rows'[f] = [rows[f] EXCEPT !.inv = v]
          PROVE  rows'[f].status = "ready" => rows'[f].named
      BY <1>0, <2>3 DEF Row, RowInv
    <2> QED BY <2>1, <2>2, <2>3, RowEffect DEF RowInv
  <1>4. offered'[f] # {} => rows'[f].inv \in offered'[f]
    BY OfferEffect DEF OfferStep, RowInv
  <1> QED BY <1>1, <1>2, <1>3, <1>4 DEF RowInv

LEMMA TwoJobs ==
    ASSUME NEW f, NEW c \in InfersFor(f), NEW d \in InfersFor(f), c # d,
           IsFiniteSet(InfersFor(f))
    PROVE  Cardinality(InfersFor(f)) > 1
  <1>1. IsFiniteSet({c}) /\ Cardinality({c}) = 1
    BY FS_Singleton
  <1>2. IsFiniteSet({c} \cup {d}) /\ Cardinality({c} \cup {d}) = 2
    <2>1. d \notin {c}
      OBVIOUS
    <2> QED BY <1>1, <2>1, FS_AddElement
  <1>3. {c} \cup {d} \subseteq InfersFor(f)
    OBVIOUS
  <1> QED BY <1>2, <1>3, FS_Subset, FS_CardinalityType

LEMMA EditsKeep ==
    ASSUME TypeInv, [Next]_vars, FewJobs, FewJobs', \A f \in Clicks : RowInv(f),
           StoredEditsStay
    PROVE  StoredEditsStay'
  <1> DEFINE Again(f) == \/ Cardinality(InfersFor(f)) > 1
                         \/ \E c \in InfersFor(f) : infer[c].again
  <1> SUFFICES ASSUME NEW f \in Clicks, stored'[f] \notin {Empty, rows'[f].inv}
               PROVE  Again(f)'
    BY DEF StoredEditsStay
  <1>1. Again(f) => Again(f)'
    BY WroteStays, MoreJobs
  <1>2. CASE stored[f] \notin {Empty, rows[f].inv}
    BY <1>1, <1>2 DEF StoredEditsStay
  <1>3. CASE \E t \in Tabs : Store(t) /\ f = tab[t].fixture
    <2>1. PICK t \in Tabs : Store(t) /\ f = tab[t].fixture
      BY <1>3
    <2>2. /\ rows' = [rows EXCEPT ![f] = [@ EXCEPT !.inv = tab[t].saving]]
          /\ stored' = [stored EXCEPT ![f] = tab[t].saving]
      BY <2>1 DEF Store
    <2>3. rows'[f].inv = tab[t].saving /\ stored'[f] = tab[t].saving
      BY <2>2 DEF TypeInv, Typed, HistoryOK, Row
    <2> QED BY <2>3
  <1>4. CASE ~(\E t \in Tabs : Store(t) /\ f = tab[t].fixture)
             /\ stored[f] \in {Empty, rows[f].inv}
    <2>1. stored'[f] = stored[f]
      BY <1>4, StoredEffect DEF TypeInv
    <2>2. stored[f] # Empty /\ rows[f].inv # rows'[f].inv
      BY <1>4, <2>1
    <2>3. PICK c \in InfersFor(f) : infer[c].state = "active"
      BY <1>4, <2>2, InvEffect
    <2>4. PICK d \in InfersFor(f) :
             infer[d].state \in {"wrote", "settled"} \/ infer[d].again
      BY <2>2 DEF RowInv, Wrote
    <2>5. CASE c = d
      BY <1>1, <2>3, <2>4, <2>5
    <2>6. CASE c # d
      BY <1>1, <2>6, TwoJobs, MoreJobs
    <2> QED BY <2>5, <2>6
  <1> QED BY <1>2, <1>3, <1>4

LEMMA FewJobsKeeps ==
    ASSUME TypeInv, [Next]_vars, FewJobs
    PROVE  FewJobs'
  <1> DEFINE J == {c \in Clicks : infer[c].state # "none"}
  <1>0. Typed
    BY DEF TypeInv
  <1>1. \A c \in Clicks : infer'[c].state # "none" => c \in J \/ EnqueueInfer(c)
    BY <1>0, InferEffect
    DEF TakeInfer, WriteInvariants, SettleInfer, Resumed, Typed, InferType
  <1>2. ASSUME NEW c \in Clicks, NEW d \in Clicks, EnqueueInfer(c), EnqueueInfer(d)
        PROVE  c = d
    <2>1. click' = [click EXCEPT ![c].pc = "done"] /\ click[d].pc = "enqueue"
      BY <1>2 DEF EnqueueInfer
    <2>2. click'[d].pc = "done"
      BY <1>0, <1>2 DEF EnqueueInfer, Typed, ClickType
    <2> QED BY <1>0, <2>1, <2>2 DEF Typed
  <1>3. \E c : J' \subseteq J \cup {c}
    BY <1>1, <1>2
  <1>4. PICK c : J' \subseteq J \cup {c}
    BY <1>3
  <1>5. IsFiniteSet(J \cup {c})
    BY FS_AddElement DEF FewJobs
  <1> QED BY <1>4, <1>5, FS_Subset DEF FewJobs

LEMMA TabKeeps ==
    ASSUME TypeInv, [Next]_vars, NEW t \in Tabs
    PROVE  TabInv(t)'
  <1>0. /\ Typed /\ TabInv(t) /\ tab[t] \in TabType /\ tab \in [Tabs -> TabType]
        /\ tab[t].fixture \in Clicks \cup {Nobody}
    BY DEF TypeInv, Typed, TabType
  <1>1. ASSUME tab'[t].fixture = tab[t].fixture,
               tab[t].inv # Empty => tab'[t].inv # Empty,
               tab'[t].saving # Empty => tab[t].fixture # Nobody
        PROVE  TabInv(t)'
    BY <1>0, <1>1, RowGrows DEF TabInv
  <1>2. CASE tab'[t] = tab[t]
    BY <1>0, <1>1, <1>2 DEF TabInv
  <1>3. ASSUME NEW u \in Tabs, Browse(u) PROVE TabInv(t)'
    <2>1. CASE u # t
      <3>1. tab'[t] = tab[t]
        BY <1>0, <1>3, <2>1 DEF Browse, Open, Edit, Save, Store, AskWrite
      <3> QED BY <1>2, <3>1
    <2>2. ASSUME NEW f \in Clicks, Open(t, f) PROVE TabInv(t)'
      <3>1. /\ tab'[t] = [Closed EXCEPT !.fixture = f, !.inv = rows[f].inv]
            /\ rows[f].inv # Empty /\ rows' = rows
        BY <1>0, <2>2 DEF Open, Editable
      <3> QED BY <3>1 DEF TabInv, Closed
    <2>3. CASE Edit(t)
      <3>1. tab'[t] = [tab[t] EXCEPT !.inv = edits + 2] /\ edits + 2 # Empty
        BY <1>0, <2>3 DEF Edit, Typed, Empty
      <3> QED BY <1>0, <1>1, <2>3, <3>1 DEF Edit, TabType
    <2>4. CASE Save(t)
      <3>1. tab'[t] = [tab[t] EXCEPT !.saving = tab[t].inv]
        BY <1>0, <2>4 DEF Save
      <3> QED BY <1>0, <1>1, <2>4, <3>1 DEF Save, TabType
    <2>5. CASE Store(t)
      <3>1. tab'[t] = [tab[t] EXCEPT !.saving = Empty]
        BY <1>0, <2>5 DEF Store
      <3> QED BY <1>0, <1>1, <3>1 DEF TabType
    <2>6. CASE AskWrite(t)
      <3>1. tab'[t] = [tab[t] EXCEPT !.write = "queued"]
        BY <1>0, <2>6 DEF AskWrite
      <3> QED BY <1>0, <1>1, <2>6, <3>1 DEF AskWrite, TabType
    <2> QED BY <1>3, <2>1, <2>2, <2>3, <2>4, <2>5, <2>6 DEF Browse
  <1>4. ASSUME NEW c \in Clicks, Post(c) \/ InferStep(c) PROVE TabInv(t)'
    BY <1>2, <1>4 DEF Post, Click, Lookup, Insert, EnqueueInfer, InferStep, TakeInfer,
                      WriteInvariants, SettleInfer, InferFrame
  <1>5. CASE WriteStep \/ Crash
    BY <1>2, <1>5 DEF WriteStep, TakeWrite, LoadRow, WriteFiles, MarkReady,
                      FinishWrite, WriterFrame, Crash
  <1>6. CASE UNCHANGED vars
    BY <1>2, <1>6 DEF vars
  <1> QED BY <1>3, <1>4, <1>5, <1>6 DEF Next

AskedNext(f) == f \in Clicks /\ rows'[f].inv # Empty /\ offered'[f] # {}

LEMMA AskedStays ==
    ASSUME TypeInv, [Next]_vars
    PROVE  \A f : Asked(f) => AskedNext(f)
  <1> SUFFICES ASSUME NEW f, Asked(f) PROVE AskedNext(f)
    OBVIOUS
  <1>1. rows'[f].inv # Empty /\ offered[f] \subseteq offered'[f]
    BY RowGrows, OfferEffect DEF Asked, OfferStep
  <1> QED BY <1>1 DEF Asked, AskedNext

\* The queue only gets fixtures that a write was asked for.
LEMMA QueueKeeps ==
    ASSUME TypeInv, [Next]_vars
    PROVE  \A i \in 1 .. Len(writes') : AskedNext(writes'[i].fixture)
  <1>0. writes \in Seq(JobType) /\ \A i \in 1 .. Len(writes) : Asked(writes[i].fixture)
    BY DEF TypeInv, Typed, WriterInv
  <1>1. CASE writes' = writes
    BY <1>0, <1>1, AskedStays
  <1>2. ASSUME NEW t \in Tabs, AskWrite(t)
        PROVE  \A i \in 1 .. Len(writes') : AskedNext(writes'[i].fixture)
    <2> DEFINE f == tab[t].fixture
    <2>0. f \in Clicks /\ rows[f].inv # Empty /\ offered \in [Clicks -> SUBSET Versions]
      BY <1>2 DEF AskWrite, TypeInv, Typed, HistoryOK, TabType, TabInv
    <2>1. rows' = rows /\ rows[f].inv \in offered'[f]
      BY <1>2, <2>0 DEF AskWrite
    <2>2. AskedNext(f)
      BY <2>0, <2>1 DEF AskedNext
    <2>3. writes' = Append(writes, [fixture |-> f, again |-> FALSE])
      BY <1>2 DEF AskWrite
    <2> QED
      <3> SUFFICES ASSUME NEW i \in 1 .. Len(writes') PROVE AskedNext(writes'[i].fixture)
        OBVIOUS
      <3>1. CASE i \in 1 .. Len(writes)
        <4>1. writes'[i] = writes[i]
          BY <1>0, <2>3, <3>1
        <4> QED BY <1>0, <3>1, <4>1, AskedStays
      <3>2. CASE i = Len(writes) + 1
        <4>1. writes'[i].fixture = f
          BY <1>0, <2>3, <3>2
        <4> QED BY <2>2, <4>1
      <3> QED BY <1>0, <2>3, <3>1, <3>2
  <1>3. CASE TakeWrite
    <2>1. writes' = Tail(writes) /\ writes # << >>
      BY <1>3 DEF TakeWrite
    <2>2. \A i \in 1 .. Len(writes') :
             i + 1 \in 1 .. Len(writes) /\ writes'[i] = writes[i + 1]
      BY <1>0, <2>1
    <2> QED BY <1>0, <2>2, AskedStays
  <1>4. CASE Crash /\ writes' # writes
    <2> DEFINE job == [fixture |-> writer.fixture, again |-> TRUE]
    <2>1. writes' = <<job>> \o writes /\ Asked(writer.fixture)
      BY <1>4 DEF Crash, TypeInv, WriterInv
    <2>2. \A i \in 1 .. Len(writes') :
             \/ writes'[i].fixture = writer.fixture
             \/ i - 1 \in 1 .. Len(writes) /\ writes'[i] = writes[i - 1]
      BY <1>0, <2>1
    <2> QED BY <1>0, <2>1, <2>2, AskedStays
  <1>5. ASSUME NEW c \in Clicks, Post(c) \/ InferStep(c) PROVE writes' = writes
    BY <1>5 DEF Post, Click, Lookup, Insert, EnqueueInfer, InferStep, TakeInfer,
                WriteInvariants, SettleInfer, InferFrame, storeVars
  <1>6. ASSUME NEW t \in Tabs, Browse(t), ~AskWrite(t) PROVE writes' = writes
    BY <1>6 DEF Browse, Open, Edit, Save, Store
  <1>7. CASE LoadRow \/ WriteFiles \/ MarkReady \/ FinishWrite \/ UNCHANGED vars
    BY <1>1, <1>7 DEF LoadRow, WriteFiles, MarkReady, FinishWrite, vars, storeVars
  <1> QED BY <1>1, <1>2, <1>3, <1>4, <1>5, <1>6, <1>7 DEF Next, WriteStep

\* The index file of a slug is written by the write job, which holds
\* invariants that were offered, and never over a fixture that is ready.
LEMMA DiskEffect ==
    ASSUME TypeInv, [Next]_vars, NEW s \in Slugs, disk'[s] # disk[s]
    PROVE  /\ writer.pc = "files" /\ ~writer.named
           /\ s = SlugOfFixture(writer.fixture)
           /\ disk'[s].owner = writer.fixture /\ disk'[s].inv = writer.inv
           /\ WriteFiles \/ Crash
  <1>0. disk \in [Slugs -> IndexType]
    BY DEF TypeInv, Typed
  <1>1. WriteFiles \/ Crash
    <2>1. ASSUME NEW c \in Clicks, Post(c) \/ InferStep(c) PROVE disk' = disk
      BY <2>1 DEF Post, Click, Lookup, Insert, EnqueueInfer, InferStep, TakeInfer,
                  WriteInvariants, SettleInfer, InferFrame, storeVars
    <2>2. ASSUME NEW t \in Tabs, Browse(t) PROVE disk' = disk
      BY <2>2 DEF Browse, Open, Edit, Save, Store, AskWrite, TabFrame
    <2>3. CASE TakeWrite \/ LoadRow \/ MarkReady \/ FinishWrite \/ UNCHANGED vars
      BY <2>3 DEF TakeWrite, LoadRow, MarkReady, FinishWrite, vars, storeVars
    <2> QED BY <2>1, <2>2, <2>3 DEF Next, WriteStep
  <1>2. PICK whole \in BOOLEAN :
           /\ writer.pc = "files" /\ ~writer.named
           /\ disk' = [disk EXCEPT ![SlugOfFixture(writer.fixture)] = Index(whole)]
    BY <1>1 DEF WriteFiles, Crash, Blocked
  <1>3. s = SlugOfFixture(writer.fixture) /\ disk'[s] = Index(whole)
    BY <1>0, <1>2
  <1> QED BY <1>1, <1>2, <1>3 DEF Index

LEMMA WriterKeeps ==
    ASSUME TypeInv, [Next]_vars, \A f \in Clicks : RowInv(f)
    PROVE  WriterInv'
  <1>0. Typed /\ WriterInv /\ writer \in WriterType /\ Resting.pc = "idle"
    BY DEF TypeInv, Typed, Resting
  <1>1. \A i \in 1 .. Len(writes') : AskedNext(writes'[i].fixture)
    BY QueueKeeps
  <1>2. CASE writer'.pc = "idle"
    BY <1>1, <1>2 DEF WriterInv, Asked, AskedNext
  \* The job is for a fixture that stays asked for, and what it has is offered.
  <1>3. ASSUME writer'.pc # "idle", AskedNext(writer'.fixture),
               writer'.pc \in {"files", "mark", "finish"} =>
                  /\ writer'.inv # Empty
                  /\ writer'.inv \in offered'[writer'.fixture],
               writer'.pc = "files" => writer'.named = rows'[writer'.fixture].named,
               writer'.pc = "mark" /\ Alone(writer.fixture)' => OnDisk(writer.fixture)'
        PROVE  WriterInv'
    BY <1>1, <1>3 DEF WriterInv, Asked, AskedNext, Alone, OnDisk, Exists
  <1>4. CASE TakeWrite
    <2>1. writes # << >> /\ Head(writes) = writes[1] /\ 1 \in 1 .. Len(writes)
      BY <1>0, <1>4 DEF TakeWrite, Typed
    <2>2. AskedNext(Head(writes).fixture)
      BY <1>0, <2>1, AskedStays DEF WriterInv
    <2>3. writer'.pc = "load" /\ writer'.fixture = Head(writes).fixture
      BY <1>4 DEF TakeWrite, Resting
    <2> QED BY <1>3, <2>2, <2>3
  <1>5. CASE LoadRow
    <2> DEFINE f == writer.fixture
    <2>1. /\ writer' = [writer EXCEPT !.pc = "files", !.inv = rows[f].inv,
                                      !.named = rows[f].named]
          /\ rows' = rows /\ offered' = offered /\ Asked(f)
      BY <1>0, <1>5 DEF LoadRow, WriterFrame, history, WriterInv
    <2>2. /\ writer'.pc = "files" /\ writer'.fixture = f
          /\ writer'.inv = rows[f].inv /\ writer'.named = rows[f].named
      BY <1>0, <2>1 DEF WriterType
    <2>3. rows[f].inv \in offered[f] /\ rows[f].inv # Empty
      BY <2>1 DEF Asked, RowInv
    <2> QED BY <1>3, <2>1, <2>2, <2>3, AskedStays
  <1>6. CASE WriteFiles
    <2> DEFINE f == writer.fixture
    <2>1. CASE writer' = [writer EXCEPT !.pc = "mark"]
      <3>1. /\ writer'.pc = "mark" /\ writer'.fixture = f /\ writer'.inv = writer.inv
            /\ writer.pc = "files"
        BY <1>0, <1>6, <2>1 DEF WriteFiles, WriterType
      <3>2. Asked(f) /\ SlugOfFixture(f) \in Slugs
        BY <1>0, <3>1, SlugType DEF WriterInv, Asked
      <3>3. disk' = [disk EXCEPT ![SlugOfFixture(f)] = Index(TRUE)]
        BY <1>0, <1>6, <3>1 DEF WriteFiles
      <3>4. OnDisk(f)'
        BY <1>0, <3>1, <3>2, <3>3 DEF OnDisk, Index, Typed, SlugOfFixture
      <3>5. writer.inv # Empty /\ writer.inv \in offered'[f]
        BY <1>0, <1>6, <3>1 DEF WriterInv, WriteFiles, WriterFrame, history
      <3> QED BY <1>3, <3>1, <3>2, <3>4, <3>5, AskedStays
    <2> QED BY <1>0, <1>2, <1>6, <2>1 DEF WriteFiles
  <1>7. CASE MarkReady
    <2> DEFINE f == writer.fixture
    <2>1. /\ writer'.pc = "finish" /\ writer'.fixture = f /\ writer'.inv = writer.inv
          /\ writer.pc = "mark" /\ offered' = offered
      BY <1>0, <1>7 DEF MarkReady, WriterType, WriterFrame, history
    <2> QED BY <1>0, <1>3, <2>1, AskedStays DEF WriterInv
  <1>8. CASE FinishWrite \/ Crash
    BY <1>0, <1>2, <1>8 DEF FinishWrite, Crash
  <1>9. CASE writer' = writer /\ writer.pc # "idle" /\ ~MarkReady /\ disk' = disk
    <2> DEFINE f == writer.fixture
    <2>1. Asked(f) /\ AskedNext(f) /\ f \in Clicks /\ rows[f] \in Row
      BY <1>0, <1>9, AskedStays DEF WriterInv, Asked, Typed
    <2>2. offered[f] \subseteq offered'[f]
      BY <2>1, OfferEffect DEF OfferStep
    <2>3. rows'[f].named = rows[f].named
      <3>1. ASSUME NEW v, \/ rows'[f] = [rows[f] EXCEPT !.inv = v]
                          \/ rows'[f] = [rows[f] EXCEPT !.status = v]
            PROVE  rows'[f].named = rows[f].named
        BY <2>1, <3>1 DEF Row
      <3> QED BY <1>9, <2>1, <3>1, RowEffect
    <2>4. Alone(f)' => Alone(f)
      BY <1>9, RowGrows DEF Alone, Exists, SlugOfFixture
    <2>5. OnDisk(f) => OnDisk(f)'
      BY <1>9 DEF OnDisk, SlugOfFixture
    <2> QED BY <1>0, <1>3, <1>9, <2>1, <2>2, <2>3, <2>4, <2>5 DEF WriterInv
  <1>10. ASSUME NEW c \in Clicks, Post(c) \/ InferStep(c)
         PROVE  writer' = writer /\ disk' = disk /\ ~MarkReady
    <2>1. writer' = writer /\ disk' = disk
      BY <1>10 DEF Post, Click, Lookup, Insert, EnqueueInfer, InferStep, TakeInfer,
                   WriteInvariants, SettleInfer, InferFrame, storeVars
    <2> QED BY <1>0, <2>1 DEF MarkReady, WriterType
  <1>11. ASSUME NEW t \in Tabs, Browse(t)
         PROVE  writer' = writer /\ disk' = disk /\ ~MarkReady
    <2>1. writer' = writer /\ disk' = disk
      BY <1>11 DEF Browse, Open, Edit, Save, Store, AskWrite, TabFrame
    <2> QED BY <1>0, <2>1 DEF MarkReady, WriterType
  <1>12. CASE UNCHANGED vars
    <2>1. writer' = writer /\ disk' = disk
      BY <1>12 DEF vars, storeVars
    <2>2. ~MarkReady
      BY <1>0, <2>1 DEF MarkReady, WriterType
    <2> QED BY <1>2, <1>9, <2>1, <2>2
  <1> QED BY <1>2, <1>4, <1>5, <1>6, <1>7, <1>8, <1>9, <1>10, <1>11, <1>12
          DEF Next, WriteStep

LEMMA DiskKeeps ==
    ASSUME TypeInv, [Next]_vars, WrittenHasInvariants, WrittenIsNotStale
    PROVE  WrittenHasInvariants' /\ WrittenIsNotStale'
  <1>0. /\ Typed /\ WriterInv /\ disk \in [Slugs -> IndexType]
        /\ disk' \in [Slugs -> IndexType']
    BY TypedKeeps DEF TypeInv, Typed
  <1> SUFFICES ASSUME NEW s \in Slugs, disk'[s].owner # Nobody
               PROVE  /\ disk'[s].inv # Empty
                      /\ disk'[s].inv \in offered'[disk'[s].owner]
    BY DEF WrittenHasInvariants, WrittenIsNotStale
  <1>1. CASE disk'[s] = disk[s]
    <2>1. disk[s].owner \in Clicks
      BY <1>0, <1>1 DEF IndexType
    <2>2. offered[disk[s].owner] \subseteq offered'[disk[s].owner]
      BY <2>1, OfferEffect DEF OfferStep
    <2> QED BY <1>1, <2>2 DEF WrittenHasInvariants, WrittenIsNotStale
  <1>2. CASE disk'[s] # disk[s]
    <2>1. /\ writer.pc = "files" /\ disk'[s].owner = writer.fixture
          /\ disk'[s].inv = writer.inv
      BY <1>2, DiskEffect
    <2>2. /\ writer.inv # Empty /\ writer.inv \in offered[writer.fixture]
          /\ writer.fixture \in Clicks
      BY <1>0, <2>1 DEF WriterInv, Asked
    <2> QED BY <2>1, <2>2, OfferEffect DEF OfferStep
  <1> QED BY <1>1, <1>2

LEMMA ReadyKeeps ==
    ASSUME TypeInv, [Next]_vars, \A f \in Clicks : RowInv(f), ReadyIsOnDisk
    PROVE  ReadyIsOnDisk'
  <1> SUFFICES ASSUME NEW f \in Clicks, rows'[f].status = "ready", Alone(f)'
               PROVE  OnDisk(f)'
    BY DEF ReadyIsOnDisk, OnDisk
  <1>0. Typed /\ WriterInv /\ rows[f] \in Row /\ SlugOfFixture(f) \in Slugs
    BY SlugType DEF TypeInv, Typed
  <1>1. Alone(f)
    BY RowGrows DEF Alone, Exists, SlugOfFixture
  <1>2. CASE rows[f].status = "ready"
    <2>1. OnDisk(f) /\ rows[f].named
      BY <1>1, <1>2 DEF ReadyIsOnDisk, OnDisk, RowInv
    <2>2. disk'[SlugOfFixture(f)] = disk[SlugOfFixture(f)]
      <3> SUFFICES ASSUME disk'[SlugOfFixture(f)] # disk[SlugOfFixture(f)]
                   PROVE  FALSE
        OBVIOUS
      <3>1. /\ writer.pc = "files" /\ ~writer.named
            /\ SlugOfFixture(f) = SlugOfFixture(writer.fixture)
        BY <1>0, DiskEffect
      <3>2. writer.fixture \in Clicks /\ Exists(writer.fixture)
            /\ writer.named = rows[writer.fixture].named
        BY <1>0, <3>1 DEF WriterInv, Asked, RowInv
      <3> QED BY <1>1, <2>1, <3>1, <3>2 DEF Alone
    <2> QED BY <2>1, <2>2 DEF OnDisk, SlugOfFixture
  <1>3. CASE rows[f].status # "ready"
    <2>1. ASSUME NEW v, rows'[f] = [rows[f] EXCEPT !.inv = v] PROVE FALSE
      BY <1>0, <1>3, <2>1 DEF Row
    <2>2. rows'[f] # [rows[f] EXCEPT !.status = "proposing"]
      BY <1>0 DEF Row
    <2>3. MarkReady /\ f = writer.fixture
      BY <1>3, <2>1, <2>2, RowEffect
    <2> QED BY <1>0, <1>1, <2>3 DEF MarkReady, WriterInv, OnDisk, SlugOfFixture
  <1> QED BY <1>2, <1>3

-----------------------------------------------------------------------------
(* The invariant and what it means.                                        *)

LEMMA PromotionStart == Init => PromotionInv
  <1> SUFFICES ASSUME Init PROVE PromotionInv
    OBVIOUS
  <1>1. TypeOK /\ HistoryOK
    BY PromotionTypeStart, TypedIsTypeOK
  <1>2. \A c \in Clicks : ~Exists(c)
    BY DEF Init, Exists
  <1>3. \A c \in Clicks : ClickInv(c) /\ RowInv(c)
    BY <1>2 DEF Init, ClickInv, RowInv
  <1>4. \A c, d \in Clicks : c # d => MeetInv(c, d)
    BY <1>2 DEF Init, MeetInv, Posting
  <1>5. \A t \in Tabs : TabInv(t)
    BY DEF Init, TabInv, Closed
  <1>6. WriterInv
    BY DEF Init, WriterInv, Resting
  <1>7. FewJobs
    <2>1. {c \in Clicks : infer[c].state # "none"} = {}
      BY DEF Init
    <2> QED BY <2>1, FS_EmptySet DEF FewJobs
  <1>8. SequentialClicksShare /\ StoredEditsStay /\ ReadyIsOnDisk
    BY <1>2 DEF Init, SequentialClicksShare, StoredEditsStay, ReadyIsOnDisk
  <1>9. WrittenHasInvariants /\ WrittenIsNotStale
    BY DEF Init, WrittenHasInvariants, WrittenIsNotStale
  <1> QED BY <1>1, <1>3, <1>4, <1>5, <1>6, <1>7, <1>8, <1>9 DEF PromotionInv

LEMMA PromotionStep == PromotionInv /\ [Next]_vars => PromotionInv'
  <1> SUFFICES ASSUME PromotionInv, [Next]_vars PROVE PromotionInv'
    OBVIOUS
  <1>0. TypeInv /\ FewJobs /\ \A f \in Clicks : RowInv(f)
    BY TypedIsTypeOK DEF PromotionInv, TypeInv
  <1>1. (TypeOK /\ HistoryOK)'
    BY <1>0, TypedKeeps, TypedIsTypeOK, PTL
  <1>2. \A c \in Clicks : ClickInv(c)' /\ RowInv(c)'
    BY <1>0, ClickInvKeeps, RowInvKeeps
  <1>3. \A c, d \in Clicks : c # d => MeetInv(c, d)'
    BY <1>0, MeetKeeps DEF PromotionInv
  <1>4. \A t \in Tabs : TabInv(t)'
    BY <1>0, TabKeeps
  <1>5. WriterInv'
    BY <1>0, WriterKeeps
  <1>6. FewJobs'
    BY <1>0, FewJobsKeeps
  <1>7. SequentialClicksShare' /\ StoredEditsStay'
    BY <1>0, <1>6, SharingKeeps, EditsKeep DEF PromotionInv
  <1>8. WrittenHasInvariants' /\ WrittenIsNotStale' /\ ReadyIsOnDisk'
    BY <1>0, DiskKeeps, ReadyKeeps DEF PromotionInv
  <1> QED BY <1>1, <1>2, <1>3, <1>4, <1>5, <1>6, <1>7, <1>8 DEF PromotionInv

\* The invariant of the promotion, which the theorems below are parts of.
THEOREM PromotionSafe == Spec => []PromotionInv
  BY PromotionStart, PromotionStep, PTL DEF Spec

\* Every row, job, tab and file keeps its type, rows the CHECK of
\* fixtures.status.
THEOREM PromotionTypeCorrect == Spec => []TypeOK
  <1>1. PromotionInv => TypeOK
    BY DEF PromotionInv
  <1> QED BY <1>1, PromotionSafe, PTL

\* However many people click, a run gets a second fixture only from POSTs that
\* overlapped, one of them looking before the other's INSERT.
THEOREM ClicksShare == Spec => []SequentialClicksShare
  <1>1. PromotionInv => SequentialClicksShare
    BY DEF PromotionInv
  <1> QED BY <1>1, PromotionSafe, PTL

\* However the tabs' saves and the infer jobs interleave, what was saved last
\* is what the row holds, unless the job ran twice or a second one was asked for.
THEOREM EditsStay == Spec => []StoredEditsStay
  <1>1. PromotionInv => StoredEditsStay
    BY DEF PromotionInv
  <1> QED BY <1>1, PromotionSafe, PTL

\* No index file is without invariants, whose checks would all pass.
THEOREM FilesHaveInvariants == Spec => []WrittenHasInvariants
  <1>1. PromotionInv => WrittenHasInvariants
    BY DEF PromotionInv
  <1> QED BY <1>1, PromotionSafe, PTL

\* No index file is older than the request that wrote it, whatever fails,
\* crashes and runs again.
THEOREM FilesAreCurrent == Spec => []WrittenIsNotStale
  <1>1. PromotionInv => WrittenIsNotStale
    BY DEF PromotionInv
  <1> QED BY <1>1, PromotionSafe, PTL

\* A fixture that says ready, and shares its slug with no other, has its own
\* complete index file: no crash can truncate the file of a ready fixture.
THEOREM ReadyFixtureIsOnDisk == Spec => []ReadyIsOnDisk
  <1>1. PromotionInv => ReadyIsOnDisk
    BY DEF PromotionInv
  <1> QED BY <1>1, PromotionSafe, PTL

=============================================================================
