---------------------------- MODULE RunnerProofs ----------------------------
(***************************************************************************)
(* Proofs about RunnerJobs, for all jobs, workers and numbers of faults;   *)
(* that HostRunner is both RunnerJobs, with the work of its children       *)
(* added, and Bisect, with the jobs that run it added; and what the rows   *)
(* and the tree have to do with each other.                                *)
(***************************************************************************)
EXTENDS HostRunner, FiniteSetTheorems, TLAPS

-----------------------------------------------------------------------------
(* The inductive invariant.                                                *)

\* Where the processor has not written a result yet.
AtPlay(j) ==
    queue[j] \in {"absent", "waiting"} \/ pc[j] \in {"load", "setup", "child", "result"}

\* A processor works on an active job, and leaves it settled or by an error of
\* the database.
ProcessorInv(j) ==
    /\ pc[j] # "none" => queue[j] = "active"
    /\ pc[j] = "finish" => Settled(j)
    /\ pc[j] = "throw" => Settled(j) \/ faults["db"] > 0
    /\ stalls[j] = 0 /\ AtPlay(j) => ~Settled(j)

\* There are as many crashes as the job has lost workers, the loss included
\* that BullMQ has not noticed yet.
CrashInv(j) ==
    /\ queue[j] \notin {"completed", "failed"} => stalls[j] < 2
    /\ stalls[j] <= faults["crash"]
    /\ queue[j] = "active" /\ pc[j] = "none" => stalls[j] < faults["crash"]

RunnerInv ==
    /\ TypeOK
    /\ \A j \in Jobs : ProcessorInv(j) /\ CrashInv(j)
    /\ StuckNeedsTwoCrashes

LEMMA RunnerStart == Init => RunnerInv
  <1> SUFFICES ASSUME Init PROVE RunnerInv
    OBVIOUS
  <1>1. TypeOK
    <2>1. faults \in [FaultKinds -> Nat] /\ stalls \in [Jobs -> 0 .. 2]
      BY DEF Init
    <2> QED BY <2>1 DEF Init, TypeOK, Statuses, QueueStates, Places
  <1>2. \A j \in Jobs : ProcessorInv(j) /\ CrashInv(j)
    BY DEF Init, ProcessorInv, CrashInv, AtPlay, Settled, FaultKinds
  <1>3. StuckNeedsTwoCrashes
    BY DEF Init, StuckNeedsTwoCrashes
  <1> QED BY <1>1, <1>2, <1>3 DEF RunnerInv

-----------------------------------------------------------------------------

\* A fault adds one to its kind.
LEMMA Faults ==
    ASSUME TypeOK, NEW kind \in FaultKinds, NoFault \/ Fault(kind)
    PROVE  /\ faults' \in [FaultKinds -> Nat]
           /\ \A k \in FaultKinds : faults'[k] >= faults[k]
           /\ Fault(kind) => faults'[kind] > 0
  <1>1. CASE NoFault
    <2>1. faults' = faults /\ \A k \in FaultKinds : faults[k] \in Nat
      BY <1>1 DEF NoFault, TypeOK
    <2>2. Fault(kind) => faults'[kind] = faults[kind] + 1
      BY DEF Fault, TypeOK
    <2> QED BY <2>1, <2>2 DEF TypeOK
  <1>2. CASE Fault(kind)
    BY <1>2 DEF Fault, TypeOK
  <1> QED BY <1>1, <1>2

\* The steps of the dashboard, and those of BullMQ.
LEMMA QueueStep ==
    ASSUME RunnerInv, NEW j \in Jobs,
           \/ InsertRow(j) \/ Enqueue(j) \/ Finish(j) \/ Stalled(j)
           \/ OrphanEnds(j) \/ \E w \in Workers : Take(w, j)
    PROVE  RunnerInv'
  <1> USE RunnerAssumption DEF FaultKinds
  <1>0. TypeOK /\ \A k \in FaultKinds : faults[k] \in Nat
    BY DEF RunnerInv, TypeOK
  <1>1. CASE InsertRow(j)
    <2>1. TypeOK'
      BY <1>1, <1>0 DEF InsertRow, TypeOK, Statuses
    <2>2. \A i \in Jobs : (ProcessorInv(i) /\ CrashInv(i))'
      BY <1>1, <1>0 DEF InsertRow, RunnerInv, TypeOK, ProcessorInv, CrashInv, AtPlay, Settled
    <2>3. StuckNeedsTwoCrashes'
      BY <1>1, <1>0 DEF InsertRow, RunnerInv, TypeOK, StuckNeedsTwoCrashes, Settled
    <2> QED BY <2>1, <2>2, <2>3 DEF RunnerInv
  <1>2. CASE Enqueue(j)
    <2>1. /\ faults' \in [FaultKinds -> Nat]
          /\ \A k \in FaultKinds : faults'[k] >= faults[k]
      BY <1>0, <1>2, Faults DEF Enqueue
    <2>2. TypeOK'
      BY <1>2, <1>0, <2>1 DEF Enqueue, TypeOK, QueueStates
    <2>3. \A i \in Jobs : (ProcessorInv(i) /\ CrashInv(i))'
      BY <1>2, <1>0, <2>1 DEF Enqueue, RunnerInv, TypeOK, ProcessorInv, CrashInv, AtPlay, Settled
    <2>4. StuckNeedsTwoCrashes'
      BY <1>2, <1>0, <2>1 DEF Enqueue, RunnerInv, TypeOK, StuckNeedsTwoCrashes, Settled
    <2> QED BY <2>2, <2>3, <2>4 DEF RunnerInv
  <1>3. CASE Finish(j)
    <2>1. TypeOK'
      BY <1>3, <1>0 DEF Finish, Go, At, TypeOK, QueueStates, Places
    <2>2. \A i \in Jobs : (ProcessorInv(i) /\ CrashInv(i))'
      BY <1>3, <1>0 DEF Finish, Go, At, RunnerInv, TypeOK, ProcessorInv, CrashInv, AtPlay, Settled
    <2>3. StuckNeedsTwoCrashes'
      BY <1>3, <1>0 DEF Finish, Go, At, RunnerInv, TypeOK, ProcessorInv,
                        StuckNeedsTwoCrashes, Settled
    <2> QED BY <2>1, <2>2, <2>3 DEF RunnerInv
  <1>4. CASE Stalled(j)
    <2>0. stalls[j] \in 0 .. 1 /\ stalls[j] < faults["crash"]
      BY <1>4, <1>0 DEF Stalled, At, RunnerInv, CrashInv, TypeOK
    <2>1. TypeOK'
      BY <1>4, <1>0, <2>0 DEF Stalled, TypeOK, QueueStates
    <2>2. \A i \in Jobs : (ProcessorInv(i) /\ CrashInv(i))'
      BY <1>4, <1>0, <2>0 DEF Stalled, At, RunnerInv, TypeOK, ProcessorInv, CrashInv, AtPlay, Settled
    <2>3. StuckNeedsTwoCrashes'
      BY <1>4, <1>0, <2>0 DEF Stalled, At, RunnerInv, TypeOK, CrashInv,
                              StuckNeedsTwoCrashes, Settled
    <2> QED BY <2>1, <2>2, <2>3 DEF RunnerInv
  <1>5. CASE OrphanEnds(j)
    BY <1>5, <1>0 DEF OrphanEnds, storeVars, RunnerInv, TypeOK, ProcessorInv, CrashInv,
                      AtPlay, Settled, StuckNeedsTwoCrashes
  <1>6. ASSUME NEW w \in Workers, Take(w, j) PROVE RunnerInv'
    <2>1. TypeOK'
      BY <1>6, <1>0 DEF Take, TypeOK, QueueStates, Places
    <2>2. \A i \in Jobs : (ProcessorInv(i) /\ CrashInv(i))'
      BY <1>6, <1>0 DEF Take, RunnerInv, TypeOK, ProcessorInv, CrashInv, AtPlay, Settled
    <2>3. StuckNeedsTwoCrashes'
      BY <1>6, <1>0 DEF Take, RunnerInv, TypeOK, StuckNeedsTwoCrashes, Settled
    <2> QED BY <2>1, <2>2, <2>3 DEF RunnerInv
  <1> QED BY <1>1, <1>2, <1>3, <1>4, <1>5, <1>6

\* What one await of a processor before its end does to its job.
Awaited(j) ==
    /\ pc[j] \in {"load", "setup", "child", "result"}
    /\ pc' \in [Jobs -> Places] /\ pc'[j] # "none"
    /\ row' \in [Jobs -> Statuses]
    /\ row'[j] = "needs_runner" => row[j] = "needs_runner" \/ Kind[j] = "ci"
    /\ \A i \in Jobs \ {j} : pc'[i] = pc[i] /\ row'[i] = row[i]
    /\ exitOk' \in [Jobs -> BOOLEAN]
    /\ faults' \in [FaultKinds -> Nat]
    /\ \A k \in FaultKinds : faults'[k] >= faults[k]
    /\ ProcessorFrame
    /\ pc'[j] = "finish" => Settled(j)'
    /\ pc'[j] = "throw" => Settled(j)' \/ faults'["db"] > 0
    /\ pc'[j] \in {"load", "setup", "child", "result"} =>
          row'[j] = row[j] \/ ~Settled(j)'

LEMMA ProcessorAwaits ==
    ASSUME TypeOK, NEW j \in Jobs,
           MarkRunning(j) \/ CheckSetup(j) \/ ChildEnds(j) \/ WriteResult(j)
    PROVE  Awaited(j)
  <1> USE DEF FaultKinds
  <1>0. \A k \in FaultKinds : faults[k] \in Nat
    BY DEF TypeOK
  <1>1. CASE MarkRunning(j)
    <2>1. /\ faults' \in [FaultKinds -> Nat]
          /\ \A k \in FaultKinds : faults'[k] >= faults[k]
          /\ Fault("db") => faults'["db"] > 0
      BY <1>1, Faults DEF MarkRunning, SetStatus
    <2> QED BY <1>1, <2>1 DEF MarkRunning, SetStatus, At, Go, Awaited, TypeOK, Settled,
                              Statuses, Places
  <1>2. CASE CheckSetup(j)
    <2>1. /\ faults' \in [FaultKinds -> Nat]
          /\ \A k \in FaultKinds : faults'[k] >= faults[k]
          /\ Fault("db") => faults'["db"] > 0
      BY <1>2, <1>0, Faults DEF CheckSetup
    <2> QED BY <1>2, <2>1 DEF CheckSetup, NeedsRunner, At, Go, Awaited, TypeOK, Settled,
                              Statuses, Places
  <1>3. CASE ChildEnds(j)
    BY <1>3, <1>0 DEF ChildEnds, At, Go, Awaited, TypeOK, Settled, Statuses, Places
  <1>4. CASE WriteResult(j)
    <2>1. /\ faults' \in [FaultKinds -> Nat]
          /\ \A k \in FaultKinds : faults'[k] >= faults[k]
          /\ Fault("db") => faults'["db"] > 0
      BY <1>4, Faults DEF WriteResult, SetStatus
    <2> QED BY <1>4, <2>1 DEF WriteResult, SetStatus, At, Go, Awaited, TypeOK, Settled,
                              Statuses, Places
  <1> QED BY <1>1, <1>2, <1>3, <1>4

LEMMA ProcessorStep ==
    ASSUME RunnerInv, NEW j \in Jobs, Awaited(j) PROVE RunnerInv'
  <1> USE DEF FaultKinds
  <1>1. \A k \in FaultKinds : faults[k] \in Nat
    BY DEF RunnerInv, TypeOK
  <1>2. TypeOK'
    <2>1. \A i \in Jobs : row'[i] = "needs_runner" => Kind[i] = "ci"
      BY DEF Awaited, RunnerInv, TypeOK
    <2> QED BY <2>1 DEF Awaited, ProcessorFrame, RunnerInv, TypeOK
  <1>3. ASSUME NEW i \in Jobs PROVE (ProcessorInv(i) /\ CrashInv(i))'
    <2>1. CASE i = j
      BY <1>1, <2>1 DEF Awaited, ProcessorFrame, RunnerInv, TypeOK, ProcessorInv, CrashInv,
                        AtPlay, Settled
    <2>2. CASE i # j
      BY <1>1, <2>2 DEF Awaited, ProcessorFrame, RunnerInv, TypeOK, ProcessorInv, CrashInv,
                        AtPlay, Settled
    <2> QED BY <2>1, <2>2
  <1>4. StuckNeedsTwoCrashes'
    BY <1>1 DEF Awaited, ProcessorFrame, RunnerInv, TypeOK, ProcessorInv,
                StuckNeedsTwoCrashes, Settled
  <1> QED BY <1>2, <1>3, <1>4 DEF RunnerInv

\* Workers start, refresh the key, stop and crash.
LEMMA WorkerStep ==
    ASSUME RunnerInv,
           \/ Expire
           \/ \E w \in Workers :
                 StartWorker(w) \/ Refresh(w) \/ Shutdown(w) \/ Exit(w) \/ Crash(w)
    PROVE  RunnerInv'
  <1> USE DEF FaultKinds
  <1>0. TypeOK /\ \A k \in FaultKinds : faults[k] \in Nat
    BY DEF RunnerInv, TypeOK
  <1>1. ASSUME NEW w \in Workers, StartWorker(w) \/ Refresh(w) \/ Exit(w) PROVE RunnerInv'
    BY <1>1 DEF StartWorker, Refresh, Exit, WorkerFrame, RunnerInv, TypeOK, ProcessorInv,
                CrashInv, AtPlay, Settled, StuckNeedsTwoCrashes
  <1>2. CASE Expire
    BY <1>2 DEF Expire, WorkerFrame, RunnerInv, TypeOK, ProcessorInv, CrashInv, AtPlay,
                Settled, StuckNeedsTwoCrashes
  <1>3. ASSUME NEW w \in Workers, Shutdown(w) PROVE RunnerInv'
    <2>1. /\ faults' \in [FaultKinds -> Nat]
          /\ \A k \in FaultKinds : faults'[k] >= faults[k]
      BY <1>3, <1>0, Faults DEF Shutdown
    <2>2. TypeOK'
      BY <1>3, <1>0, <2>1 DEF Shutdown, WorkerFrame, TypeOK
    <2>3. \A i \in Jobs : (ProcessorInv(i) /\ CrashInv(i))'
      BY <1>3, <1>0, <2>1 DEF Shutdown, WorkerFrame, RunnerInv, TypeOK, ProcessorInv,
                              CrashInv, AtPlay, Settled
    <2>4. StuckNeedsTwoCrashes'
      BY <1>3, <1>0, <2>1 DEF Shutdown, WorkerFrame, RunnerInv, TypeOK, Settled,
                              StuckNeedsTwoCrashes
    <2> QED BY <2>2, <2>3, <2>4 DEF RunnerInv
  <1>4. ASSUME NEW w \in Workers, Crash(w) PROVE RunnerInv'
    <2>1. /\ faults' \in [FaultKinds -> Nat]
          /\ \A k \in FaultKinds : faults'[k] >= faults[k]
          /\ faults'["crash"] = faults["crash"] + 1
      BY <1>4, <1>0 DEF Crash, Fault, TypeOK
    <2>2. TypeOK'
      BY <1>4, <1>0, <2>1 DEF Crash, WorkerFrame, TypeOK, Places
    <2>3. \A i \in Jobs : (ProcessorInv(i) /\ CrashInv(i))'
      BY <1>4, <1>0, <2>1 DEF Crash, WorkerFrame, RunnerInv, TypeOK, ProcessorInv, CrashInv,
                              AtPlay, Settled
    <2>4. StuckNeedsTwoCrashes'
      BY <1>4, <1>0, <2>1 DEF Crash, WorkerFrame, RunnerInv, TypeOK, Settled,
                              StuckNeedsTwoCrashes
    <2> QED BY <2>2, <2>3, <2>4 DEF RunnerInv
  <1> QED BY <1>1, <1>2, <1>3, <1>4

LEMMA RunnerKeeps == RunnerInv /\ [Next]_vars => RunnerInv'
  <1> SUFFICES ASSUME RunnerInv, [Next]_vars PROVE RunnerInv'
    OBVIOUS
  <1>1. ASSUME NEW j \in Jobs, OfJob(j) PROVE RunnerInv'
    <2>1. CASE InsertRow(j) \/ Enqueue(j) \/ Finish(j) \/ Stalled(j) \/ OrphanEnds(j)
      BY <2>1, QueueStep
    <2>2. CASE MarkRunning(j) \/ CheckSetup(j) \/ ChildEnds(j) \/ WriteResult(j)
      BY <2>2, ProcessorAwaits, ProcessorStep DEF RunnerInv
    <2> QED BY <1>1, <2>1, <2>2 DEF OfJob, Process
  <1>2. ASSUME NEW w \in Workers, OfWorker(w) PROVE RunnerInv'
    BY <1>2, WorkerStep, QueueStep DEF OfWorker
  <1>3. CASE Expire
    BY <1>3, WorkerStep
  <1>4. CASE UNCHANGED vars
    BY <1>4 DEF vars, storeVars, RunnerInv, TypeOK, ProcessorInv, CrashInv, AtPlay, Settled,
                StuckNeedsTwoCrashes
  <1> QED BY <1>1, <1>2, <1>3, <1>4 DEF Next

-----------------------------------------------------------------------------
(* What follows from it.                                                   *)

\* For any jobs, workers and faults: queue, row and processors are always in
\* one of their states, and no job stalls a third time.
THEOREM RunnerSafe == Spec => []RunnerInv
  BY RunnerStart, RunnerKeeps, PTL DEF Spec

\* A job that will not run again has settled its row, unless the database
\* failed or workers crashed twice.
THEOREM OneCrashIsSurvived == Spec => []StuckNeedsTwoCrashes
  <1>1. RunnerInv => StuckNeedsTwoCrashes
    BY DEF RunnerInv
  <1> QED BY <1>1, RunnerSafe, PTL

\* A result is overwritten by a job that stalled only.
THEOREM ResultsStandWithoutStall == Spec => SettledChangesAfterStallOnly
  <1>1. ASSUME RunnerInv, [Next]_vars
        PROVE  [\A j \in Jobs : Settled(j) /\ row'[j] # row[j] => stalls[j] > 0]_vars
    <2> SUFFICES ASSUME NEW j \in Jobs, Settled(j), row'[j] # row[j], stalls[j] = 0
                 PROVE  FALSE
      BY <1>1 DEF RunnerInv, TypeOK
    <2>1. ~AtPlay(j)
      BY <1>1 DEF RunnerInv, ProcessorInv
    <2>2. ASSUME NEW i \in Jobs, OfJob(i) PROVE FALSE
      <3>1. CASE MarkRunning(i) \/ CheckSetup(i) \/ ChildEnds(i) \/ WriteResult(i)
        BY <1>1, <3>1, <2>1, ProcessorAwaits DEF Awaited, AtPlay, RunnerInv
      <3>2. CASE InsertRow(i) \/ Enqueue(i) \/ Finish(i) \/ Stalled(i) \/ OrphanEnds(i)
        BY <1>1, <3>2, <2>1 DEF InsertRow, Enqueue, Finish, Stalled, OrphanEnds, storeVars, Settled,
                          RunnerInv, TypeOK
      <3> QED BY <2>2, <3>1, <3>2 DEF OfJob, Process
    <2>3. ASSUME NEW w \in Workers, OfWorker(w) PROVE FALSE
      BY <2>3 DEF OfWorker, StartWorker, Refresh, Shutdown, Exit, Crash, Take, WorkerFrame
    <2>4. CASE Expire \/ UNCHANGED vars
      BY <2>4 DEF Expire, WorkerFrame, vars, storeVars
    <2> QED BY <1>1, <2>2, <2>3, <2>4 DEF Next
  <1> QED BY <1>1, RunnerSafe, PTL DEF Spec, SettledChangesAfterStallOnly

-----------------------------------------------------------------------------
(* HostRunner implements RunnerJobs.                                       *)

LEMMA HostStep == [HostNext]_hostVars => [Next]_vars
  <1> SUFFICES ASSUME [HostNext]_hostVars PROVE [Next]_vars
    OBVIOUS
  <1>1. ASSUME NEW j \in Jobs, HostProcess(j) PROVE Next
    <2>1. Process(j)
      BY <1>1 DEF HostProcess, Spawn, NoSetup, BisectExits, CiExits, Record, Process
    <2> QED BY <2>1 DEF OfJob, Next
  <1>2. ASSUME NEW j \in Jobs, OrphanExits(j) PROVE Next
    BY <1>2 DEF OrphanExits, OfJob, Next
  <1>3. ASSUME NEW j \in Jobs, ChildTimesOut(j) PROVE UNCHANGED vars
    BY <1>3 DEF ChildTimesOut
  <1>4. ASSUME NEW j \in Jobs, InsertRow(j) \/ Enqueue(j) \/ Stalled(j) PROVE Next
    BY <1>4 DEF OfJob, Next
  <1>5. ASSUME NEW r \in Children, ChildRuns(r) \/ OrphanAborts(r) PROVE UNCHANGED vars
    BY <1>5 DEF ChildRuns, OrphanAborts
  <1>6. CASE Expire \/ \E w \in Workers : OfWorker(w)
    BY <1>6 DEF Next
  <1>7. CASE UNCHANGED hostVars
    BY <1>7 DEF hostVars
  <1> QED BY <1>1, <1>2, <1>3, <1>4, <1>5, <1>6, <1>7 DEF HostNext

\* What the children do in the working tree takes nothing away from what is
\* shown of the jobs: every behaviour of HostRunner is one of RunnerJobs.
THEOREM HostImplementsRunnerJobs == HostSpec => Spec
  <1>1. HostInit => Init
    BY DEF HostInit
  <1> QED BY <1>1, HostStep, PTL DEF HostSpec, Spec

\* So a host worker's row, too, is settled unless the database failed or
\* workers crashed twice.
THEOREM HostSurvivesOneCrash == HostSpec => []StuckNeedsTwoCrashes
  BY HostImplementsRunnerJobs, OneCrashIsSurvived

-----------------------------------------------------------------------------
(* HostRunner implements Bisect.                                           *)

\* The theorems about Bisect, for the children of a host.
Search == INSTANCE BisectProofs WITH
    Runs <- Children, faults <- treeFaults,
    MaxFaults <- MaxTreeFaults, MaxInAll <- MaxTreeInAll

\* The constants of a host are constants of Bisect.
LEMMA TreeConstants ==
    /\ N \in Nat \ {0} /\ TRIES \in Nat \ {0}
    /\ MaxTreeFaults \in [Search!FaultKinds -> Nat] /\ MaxTreeInAll \in Nat
  BY HostAssumption DEF Search!FaultKinds

\* Search and Git are the same module with the same parameters.
LEMMA SameStates ==
    /\ Search!Init <=> Git!Init
    /\ Search!TypeOK <=> Git!TypeOK
    /\ Search!BisectInv <=> Git!BisectInv
  <1>1. Search!Init <=> Git!Init
    BY DEF Search!Init, Git!Init, Search!Idle, Git!Idle, Search!Commits, Git!Commits,
           Search!FaultKinds, Git!FaultKinds
  <1>2. Search!TypeOK <=> Git!TypeOK
    BY DEF Search!TypeOK, Git!TypeOK, Search!Invocation, Git!Invocation,
           Search!Commits, Git!Commits, Search!FaultKinds, Git!FaultKinds,
           Search!Stages, Git!Stages
  <1>3. Search!SearchInv <=> Git!SearchInv
    BY DEF Search!SearchInv, Git!SearchInv
  <1>4. Search!ProbeInv <=> Git!ProbeInv
    BY DEF Search!ProbeInv, Git!ProbeInv, Search!Active, Git!Active
  <1>5. Search!ReportIsSound <=> Git!ReportIsSound
    BY DEF Search!ReportIsSound, Git!ReportIsSound
  <1>6. Search!DoubtInv <=> Git!DoubtInv
    BY DEF Search!DoubtInv, Git!DoubtInv
  <1> QED BY <1>1, <1>2, <1>3, <1>4, <1>5, <1>6 DEF Search!BisectInv, Git!BisectInv

\* Their steps are the same, too.
LEMMA SameSteps == [Git!Next]_Git!vars => [Search!Next]_Search!vars
  <1> USE DEF Search!Passed, Git!Passed, Search!Aim, Git!Aim, Search!Continues, Git!Continues,
              Search!Middle, Git!Middle, Search!Fault, Git!Fault, Search!Happened, Git!Happened
  <1>1. ASSUME NEW r, NEW good PROVE Git!Start(r, good) => Search!Start(r, good)
    BY DEF Search!Start, Git!Start, Search!Idle, Git!Idle
  <1>2. ASSUME NEW r, NEW good PROVE Git!Refuse(r, good) => Search!Refuse(r, good)
    BY DEF Search!Refuse, Git!Refuse
  <1>3. ASSUME NEW r PROVE Git!Checkout(r) => Search!Checkout(r)
    BY DEF Search!Checkout, Git!Checkout
  <1>4. ASSUME NEW r PROVE Git!RunCi(r) => Search!RunCi(r)
    BY DEF Search!RunCi, Git!RunCi, Search!Ran, Git!Ran, Search!Tries, Git!Tries
  <1>5. ASSUME NEW r PROVE Git!JudgeGood(r) => Search!JudgeGood(r)
    BY DEF Search!JudgeGood, Git!JudgeGood
  <1>6. ASSUME NEW r PROVE Git!JudgeSearch(r) => Search!JudgeSearch(r)
    BY DEF Search!JudgeSearch, Git!JudgeSearch, Search!Narrowed, Git!Narrowed,
           Search!Tested, Git!Tested
  <1>7. ASSUME NEW r PROVE Git!JudgeConfirm(r) => Search!JudgeConfirm(r)
    BY DEF Search!JudgeConfirm, Git!JudgeConfirm
  <1>8. ASSUME NEW r PROVE Git!Restore(r) => Search!Restore(r)
    BY DEF Search!Restore, Git!Restore
  <1>9. ASSUME NEW r PROVE Git!Kill(r) => Search!Kill(r)
    BY DEF Search!Kill, Git!Kill, Search!Active, Git!Active
  <1>10. ASSUME NEW r PROVE Git!Step(r) => Search!Step(r)
    BY <1>3, <1>4, <1>5, <1>6, <1>7, <1>8 DEF Search!Step, Git!Step
  <1>11. ASSUME NEW r PROVE Git!Invoke(r) => Search!Invoke(r)
    BY <1>1, <1>2 DEF Search!Invoke, Git!Invoke, Search!Commits, Git!Commits
  <1>12. ASSUME NEW r PROVE Git!Abort(r) => Search!Abort(r)
    BY DEF Search!Abort, Git!Abort, Search!Prints, Git!Prints
  <1> QED BY <1>9, <1>10, <1>11, <1>12 DEF Search!Next, Git!Next, Search!vars, Git!vars

\* What is proved of Bisect holds of the children of a host.
LEMMA BisectHolds == Git!Spec => [](Git!TypeOK /\ Git!BisectInv)
  <1>1. Git!Spec => Search!Spec
    BY SameStates, SameSteps, PTL DEF Git!Spec, Search!Spec
  <1>2. Search!Spec => [](Search!TypeOK)
    BY TreeConstants, Search!BisectTypeCorrect
  <1>3. Search!Spec => [](Search!BisectInv)
    BY TreeConstants, Search!BisectSafe
  <1> QED BY <1>1, <1>2, <1>3, SameStates, PTL

-----------------------------------------------------------------------------
(* The invariant of the tree.                                              *)

\* As long as one bisect only has had the tree and no checkout failed, every
\* test runs at the commit it is for.
TestsAreAimed ==
    treeFaults["checkout"] = 0 /\ Cardinality(Started) <= 1 =>
        \A r \in Children :
            bis[r].clean /\ (bis[r].pc = "ci" => head = bis[r].probe)

\* The branch is only missing from what a bisect restores when another one has
\* the tree, and one that is missing from the tree will be restored, unless the
\* bisect that should have done so was killed, failed to or panicked.
BranchIsKept ==
    /\ Started = {} => head = N /\ attached
    /\ \A r \in Started : ~bis[r].branch => Cardinality(Started) > 1
    /\ treeFaults["kill"] = 0 /\ treeFaults["restore"] = 0
          /\ (\A r \in Started : bis[r].branch) /\ Aborted = {}
       => (head = N /\ attached) \/ \E r \in Children : Git!Active(r)

TreeInv ==
    /\ IsFiniteSet(Started)
    /\ TestsAreAimed
    /\ BranchIsKept
    /\ \A r \in Children : bis[r].pc = "idle" => bis[r].clean
    /\ \A r \in Started : bis[r].good = Good[r[1]]

\* Bisects begin and go on: what they have seen and reported stands.
Forward ==
    /\ verdicts' = verdicts
    /\ \A r \in Started : bis'[r].pc # "idle" /\ bis'[r].result # "refused"
    /\ \A r \in Children : bis[r].pc = "done" => bis'[r] = bis[r]
    /\ \A r \in Children : ~bis[r].clean => ~bis'[r].clean

\* Nobody has had the tree yet.
LEMMA TreeStart == HostInit => TreeInv
  <1> SUFFICES ASSUME HostInit PROVE TreeInv
    OBVIOUS
  <1>1. /\ head = N /\ attached = TRUE
        /\ \A r \in Children : bis[r].pc = "idle" /\ bis[r].clean = TRUE
    BY DEF HostInit, Git!Init, Git!Idle
  <1>2. Started = {}
    BY <1>1 DEF Started
  <1>3. IsFiniteSet(Started)
    BY <1>2, FS_EmptySet
  <1> QED BY <1>1, <1>2, <1>3 DEF TreeInv, TestsAreAimed, BranchIsKept

\* A bisect that is at work has started.
LEMMA AtWorkStarted ==
    ASSUME Git!TypeOK, Git!BisectInv, NEW r \in Children
    PROVE  /\ Git!Active(r) => r \in Started
           /\ Git!Active(r) /\ bis[r].pc # "restore" => bis[r].result = "none"
           /\ bis[r].pc = "restore" => bis[r].result \in {"none", "found", "unconfirmed"}
  <1>1. bis[r].result \in {"none", "refused", "found", "unconfirmed", "killed", "aborted"}
    BY DEF Git!TypeOK, Git!Invocation
  <1> QED BY <1>1 DEF Git!BisectInv, Git!DoubtInv, Git!Active, Started

\* A second one starts.
LEMMA TreeStarts ==
    ASSUME Git!TypeOK, Git!BisectInv, TreeInv, NEW r \in Children,
           Git!Start(r, Good[r[1]])
    PROVE  TreeInv' /\ Forward
  <1> DEFINE b == bis'[r]
  <1>1. /\ b.pc = "checkout" /\ b.good = Good[r[1]] /\ b.branch = attached
        /\ b.result = "none" /\ b.clean = TRUE
        /\ bis[r].pc = "idle"
        /\ \A c \in Children \ {r} : bis'[c] = bis[c]
        /\ head' = head /\ attached' = attached /\ treeFaults' = treeFaults
        /\ verdicts' = verdicts
    BY DEF Git!Start, Git!Idle, Git!TypeOK
  <1> HIDE DEF b
  <1>2. Started' = Started \cup {r} /\ r \notin Started
    BY <1>1 DEF Started, b
  <1>3. /\ IsFiniteSet(Started') /\ Cardinality(Started') = Cardinality(Started) + 1
        /\ Cardinality(Started) \in Nat
    BY <1>2, FS_AddElement, FS_CardinalityType DEF TreeInv
  <1>4. Started # {} => Cardinality(Started) >= 1
    BY <1>3, FS_EmptySet DEF TreeInv
  <1>5. TestsAreAimed'
    BY <1>1, <1>3 DEF TreeInv, TestsAreAimed, b
  <1>6. BranchIsKept'
    <2>1. Started' # {}
      BY <1>2
    <2>2. ASSUME NEW s \in Started', ~bis'[s].branch PROVE Cardinality(Started') > 1
      <3>1. CASE s = r
        BY <1>1, <1>3, <1>4, <2>2, <3>1 DEF TreeInv, BranchIsKept, b
      <3>2. CASE s # r
        <4>1. s \in Started /\ s \in Children
          BY <1>2, <2>2, <3>2 DEF Started
        <4>2. ~bis[s].branch
          BY <1>1, <2>2, <3>2, <4>1
        <4>3. Cardinality(Started) > 1
          BY <4>1, <4>2 DEF TreeInv, BranchIsKept
        <4> QED BY <1>3, <4>3
      <3> QED BY <3>1, <3>2
    <2>3. Git!Active(r)'
      BY <1>1 DEF Git!Active, b
    <2> QED BY <2>1, <2>2, <2>3 DEF BranchIsKept
  <1>7. /\ \A c \in Children : bis'[c].pc = "idle" => bis'[c].clean
        /\ \A c \in Started' : bis'[c].good = Good[c[1]]
    BY <1>1, <1>2 DEF TreeInv, b, Started
  <1>8. Forward
    BY <1>1 DEF Forward, Started, TreeInv, b
  <1> QED BY <1>3, <1>5, <1>6, <1>7, <1>8 DEF TreeInv

\* One refuses to start.
LEMMA TreeRefuses ==
    ASSUME Git!TypeOK, Git!BisectInv, TreeInv, NEW r \in Children, NEW good,
           Git!Refuse(r, good)
    PROVE  TreeInv' /\ Forward
  <1>1. /\ bis'[r].pc = "done" /\ bis'[r].result = "refused"
        /\ bis'[r].clean = bis[r].clean
        /\ bis[r].pc = "idle"
        /\ \A c \in Children \ {r} : bis'[c] = bis[c]
        /\ head' = head /\ attached' = attached /\ treeFaults' = treeFaults
        /\ verdicts' = verdicts
    BY DEF Git!Refuse, Git!TypeOK, Git!Invocation
  <1>2. Started' = Started /\ r \notin Started
    BY <1>1 DEF Started
  <1>3. \A c \in Children : Git!Active(c)' <=> Git!Active(c)
    BY <1>1 DEF Git!Active
  <1>4. TestsAreAimed'
    BY <1>1, <1>2 DEF TreeInv, TestsAreAimed
  <1>5. BranchIsKept'
    <2>1. Aborted' = Aborted
      BY <1>1 DEF Aborted, Git!TypeOK, Git!BisectInv, Git!DoubtInv
    <2> QED BY <1>1, <1>2, <1>3, <2>1 DEF TreeInv, BranchIsKept, Started
  <1>6. Forward
    BY <1>1, <1>2 DEF Forward, Started, TreeInv
  <1> QED BY <1>1, <1>2, <1>4, <1>5, <1>6 DEF TreeInv, Started

\* A bisect at work tests, judges or restores; what it moves in the tree is
\* seen by the others, if there are any.
Works(r) ==
    LET b == bis[r]  c == bis'[r] IN
    /\ Git!Active(r)
    /\ c.pc # "idle" /\ c.result # "refused"
    /\ c.good = b.good /\ c.branch = b.branch
    /\ \A s \in Children \ {r} : bis'[s] = bis[s]
    /\ verdicts' = verdicts
    /\ \A k \in Git!FaultKinds : treeFaults'[k] >= treeFaults[k]
    /\ \/ c.clean <=> b.clean
       \/ b.pc = "ci" /\ (c.clean <=> (b.clean /\ head = b.probe))
    /\ c.pc = "ci" =>
          \/ head' = c.probe
          \/ treeFaults'["checkout"] > 0
          \/ b.pc = "ci" /\ head' = head /\ c.probe = b.probe
    /\ \/ Git!Active(r)'
       \/ head' = N /\ attached'
       \/ ~b.branch \/ treeFaults'["restore"] > 0 \/ treeFaults'["kill"] > 0
       \/ c.result = "aborted"

\* Every step of a bisect that has started is one of these, and so is its end by a
\* kill or a panic.
LEMMA StepWorks ==
    ASSUME Git!TypeOK, Git!BisectInv, NEW r \in Children,
           Git!Step(r) \/ Git!Kill(r) \/ Git!Abort(r)
    PROVE  Works(r)
  <1>0. /\ bis[r] \in Git!Invocation
        /\ \A k \in Git!FaultKinds : treeFaults[k] \in Nat
        /\ Git!FaultKinds = {"checkout", "restore", "kill"}
    BY DEF Git!TypeOK, Git!FaultKinds
  <1>1. /\ Git!Active(r) => r \in Started
        /\ Git!Active(r) /\ bis[r].pc # "restore" => bis[r].result = "none"
        /\ bis[r].pc = "restore" => bis[r].result \in {"none", "found", "unconfirmed"}
    BY AtWorkStarted
  <1>2. ASSUME NEW k \in Git!FaultKinds, Git!Fault(k)
        PROVE  /\ \A i \in Git!FaultKinds : treeFaults'[i] >= treeFaults[i]
               /\ treeFaults'[k] > 0
    BY <1>0, <1>2 DEF Git!Fault, Git!TypeOK
  <1>3. CASE Git!Checkout(r)
    BY <1>0, <1>1, <1>2, <1>3 DEF Git!Checkout, Git!Active, Git!Invocation, Git!TypeOK, Works
  <1>4. CASE Git!RunCi(r)
    BY <1>0, <1>1, <1>4 DEF Git!RunCi, Git!Ran, Git!Active, Git!Invocation, Git!TypeOK, Works
  <1>5. CASE Git!JudgeGood(r)
    BY <1>0, <1>1, <1>5 DEF Git!JudgeGood, Git!Aim, Git!Active, Git!Invocation, Git!TypeOK, Works
  <1>6. CASE Git!JudgeSearch(r)
    BY <1>0, <1>1, <1>6 DEF Git!JudgeSearch, Git!Narrowed, Git!Tested, Git!Aim, Git!Active,
                            Git!Invocation, Git!TypeOK, Works
  <1>7. CASE Git!JudgeConfirm(r)
    BY <1>0, <1>1, <1>7 DEF Git!JudgeConfirm, Git!Active, Git!Invocation, Git!TypeOK, Works
  <1>8. CASE Git!Restore(r)
    BY <1>0, <1>1, <1>2, <1>8 DEF Git!Restore, Git!Active, Git!Invocation, Git!TypeOK, Works
  <1>9. CASE Git!Kill(r)
    BY <1>0, <1>1, <1>2, <1>9 DEF Git!Kill, Git!Active, Git!Invocation, Git!TypeOK, Works
  <1>10. CASE Git!Abort(r)
    BY <1>0, <1>1, <1>10 DEF Git!Abort, Git!Prints, Git!Active, Git!Invocation, Git!TypeOK, Works
  <1> QED BY <1>3, <1>4, <1>5, <1>6, <1>7, <1>8, <1>9, <1>10 DEF Git!Step

\* A bisect that goes on leaves the tree as the invariant wants it.
LEMMA TreeWorks ==
    ASSUME Git!TypeOK, Git!BisectInv, TreeInv, NEW r \in Children, Works(r)
    PROVE  TreeInv' /\ Forward
  <1>1. r \in Started /\ Started \subseteq Children
    BY AtWorkStarted DEF Works, Started
  <1>2. Started' = Started
    BY <1>1 DEF Works, Started
  <1>3. \A k \in Git!FaultKinds : treeFaults'[k] = 0 => treeFaults[k] = 0
    BY DEF Works, Git!TypeOK
  <1>4. TestsAreAimed'
    <2> SUFFICES ASSUME treeFaults'["checkout"] = 0, Cardinality(Started) <= 1,
                        NEW s \in Children
                 PROVE  bis'[s].clean /\ (bis'[s].pc = "ci" => head' = bis'[s].probe)
      BY <1>2 DEF TestsAreAimed
    <2>1. bis[s].clean /\ (bis[s].pc = "ci" => head = bis[s].probe)
      BY <1>3 DEF TreeInv, TestsAreAimed, Git!FaultKinds
    <2>2. CASE s = r
      <3>1. bis'[r].clean
        BY <2>1, <2>2 DEF Works
      <3>2. bis'[r].pc = "ci" => head' = bis'[r].probe
        BY <2>1, <2>2 DEF Works
      <3> QED BY <2>2, <3>1, <3>2
    <2>3. CASE s # r
      <3>1. bis[s].pc # "ci"
        <4> SUFFICES ASSUME bis[s].pc = "ci" PROVE FALSE
          OBVIOUS
        <4>1. s \in Started
          BY AtWorkStarted DEF Git!Active
        <4>2. {r, s} \subseteq Started /\ IsFiniteSet(Started)
          BY <1>1, <4>1 DEF TreeInv
        <4>3. Cardinality({r, s}) <= Cardinality(Started)
          BY <4>2, FS_Subset
        <4>4. Cardinality({r, s}) = 2
          <5>1. IsFiniteSet({r}) /\ Cardinality({r}) = 1
            BY FS_Singleton
          <5>2. Cardinality({r} \cup {s}) = 2
            BY <2>3, <5>1, FS_AddElement
          <5> QED BY <5>2
        <4>5. Cardinality(Started) \in Nat
          BY <4>2, FS_CardinalityType
        <4> QED BY <4>3, <4>4, <4>5
      <3> QED BY <2>1, <2>3, <3>1 DEF Works
    <2> QED BY <2>2, <2>3
  <1>5. BranchIsKept'
    <2>1. Started' # {}
      BY <1>1, <1>2
    <2>2. \A s \in Started : bis'[s].branch = bis[s].branch
      BY <1>1 DEF Works
    <2>3. \A s \in Started' : ~bis'[s].branch => Cardinality(Started') > 1
      BY <1>2, <2>2 DEF TreeInv, BranchIsKept
    <2>4. ASSUME treeFaults'["kill"] = 0, treeFaults'["restore"] = 0,
                 \A s \in Started' : bis'[s].branch, Aborted' = {}
          PROVE  (head' = N /\ attached') \/ \E s \in Children : Git!Active(s)'
      <3>1. bis'[r].result # "aborted"
        BY <2>4 DEF Aborted
      <3> QED BY <1>1, <1>2, <2>2, <2>4, <3>1 DEF Works
    <2> QED BY <2>1, <2>3, <2>4 DEF BranchIsKept
  <1>6. /\ \A c \in Children : bis'[c].pc = "idle" => bis'[c].clean
        /\ \A c \in Started' : bis'[c].good = Good[c[1]]
    BY <1>1, <1>2 DEF TreeInv, Works
  <1>7. Forward
    BY <1>1 DEF Forward, Started, Works, Git!Active
  <1> QED BY <1>2, <1>4, <1>5, <1>6, <1>7 DEF TreeInv

-----------------------------------------------------------------------------
(* The steps of the host in the tree.                                      *)

\* A child the worker waits for is one of the two its job can have.
LEMMA ChildExists ==
    ASSUME RunnerInv, NEW j \in BisectJobs, pc[j] # "none"
    PROVE  Child(j) \in Children /\ Child(j)[1] = j
  <1>1. j \in Jobs /\ queue[j] = "active"
    BY DEF BisectJobs, RunnerInv, ProcessorInv
  <1>2. stalls[j] \in 0 .. 1
    BY <1>1 DEF RunnerInv, CrashInv, TypeOK
  <1> QED BY <1>2 DEF Child, Children

\* Every step of the host is a step of the children in the tree, or leaves the
\* tree alone.
LEMMA TreeSteps ==
    ASSUME RunnerInv, [HostNext]_hostVars
    PROVE  \/ \E j \in BisectJobs :
                 /\ Child(j) \in Children /\ Child(j)[1] = j
                 /\ Git!Start(Child(j), Good[j]) \/ Git!Refuse(Child(j), Good[j])
           \/ \E r \in Children : Git!Step(r) \/ Git!Kill(r) \/ Git!Abort(r)
           \/ UNCHANGED tree
  <1>1. ASSUME NEW j \in Jobs, Spawn(j), j \in BisectJobs
        PROVE  /\ Child(j) \in Children /\ Child(j)[1] = j
               /\ Git!Start(Child(j), Good[j]) \/ Git!Refuse(Child(j), Good[j])
    BY <1>1, ChildExists DEF Spawn, CheckSetup, At
  <1>2. ASSUME NEW j \in Jobs, HostProcess(j), ~Spawn(j) PROVE UNCHANGED tree
    BY <1>2 DEF HostProcess, NoSetup, BisectExits, CiExits, Record
  <1>3. ASSUME NEW j \in Jobs, ChildTimesOut(j)
        PROVE  Child(j) \in Children /\ Git!Kill(Child(j))
    BY <1>3, ChildExists DEF ChildTimesOut, At
  <1>4. ASSUME NEW j \in Jobs, OrphanExits(j) PROVE UNCHANGED tree
    BY <1>4 DEF OrphanExits
  <1>5. ASSUME NEW r \in Children, ChildRuns(r) \/ OrphanAborts(r)
        PROVE  Git!Step(r) \/ Git!Abort(r)
    BY <1>5 DEF ChildRuns, OrphanAborts
  <1>6. UNCHANGED hostVars => UNCHANGED tree
    BY DEF hostVars
  <1>7. ASSUME NEW j \in Jobs, Spawn(j), j \notin BisectJobs PROVE UNCHANGED tree
    BY <1>7 DEF Spawn
  <1> QED BY <1>1, <1>2, <1>3, <1>4, <1>5, <1>6, <1>7 DEF HostNext

\* So every step of the host is one of Bisect.
LEMMA GitSteps == RunnerInv /\ [HostNext]_hostVars => [Git!Next]_Git!vars
  <1> SUFFICES ASSUME RunnerInv, [HostNext]_hostVars PROVE [Git!Next]_Git!vars
    OBVIOUS
  <1>1. ASSUME NEW j \in BisectJobs PROVE Good[j] \in Git!Commits
    BY HostAssumption DEF Git!Commits
  <1>2. UNCHANGED tree => UNCHANGED Git!vars
    BY DEF tree, Git!vars
  <1> QED BY <1>1, <1>2, TreeSteps DEF Git!Next, Git!Invoke

\* The children of a host are invocations of halley bisect that overlap: every
\* behaviour of HostRunner is one of Bisect.
THEOREM HostImplementsBisect == HostSpec => Git!Spec
  <1>1. HostSpec => []RunnerInv
    BY HostImplementsRunnerJobs, RunnerSafe
  <1>2. HostInit => Git!Init
    BY DEF HostInit
  <1> QED BY <1>1, <1>2, GitSteps, PTL DEF HostSpec, Git!Spec

\* The invariant of the tree is kept by every step of the host.
LEMMA TreeKeeps ==
    ASSUME RunnerInv, Git!TypeOK, Git!BisectInv, TreeInv, [HostNext]_hostVars
    PROVE  TreeInv' /\ Forward
  <1>1. ASSUME NEW j \in BisectJobs, Child(j) \in Children, Child(j)[1] = j,
               Git!Start(Child(j), Good[j]) \/ Git!Refuse(Child(j), Good[j])
        PROVE  TreeInv' /\ Forward
    <2> DEFINE r == Child(j)
    <2>1. Good[j] = Good[r[1]]
      BY <1>1
    <2> QED BY <1>1, <2>1, TreeStarts, TreeRefuses
  <1>2. ASSUME NEW r \in Children, Git!Step(r) \/ Git!Kill(r) \/ Git!Abort(r)
        PROVE  TreeInv' /\ Forward
    BY <1>2, StepWorks, TreeWorks
  <1>3. CASE UNCHANGED tree
    BY <1>3 DEF tree, TreeInv, TestsAreAimed, BranchIsKept, Started, Aborted, Git!Active, Forward
  <1> QED BY <1>1, <1>2, <1>3, TreeSteps

-----------------------------------------------------------------------------
(* The children and their workers.                                         *)

\* Without a crash every bisect at work is heard by the worker that waits for
\* it, and none has ended in a panic.
HeardInv ==
    faults["crash"] = 0 => Aborted = {} /\ \A r \in Children : ~Unheard(r)

\* Crashes are counted, and only counted up.
LEMMA CrashesCount ==
    ASSUME RunnerInv, [Next]_vars
    PROVE  /\ faults["crash"] \in Nat /\ faults'["crash"] >= faults["crash"]
           /\ (\E w \in Workers : Crash(w)) => faults'["crash"] > 0
  <1>0. TypeOK /\ faults["crash"] \in Nat
    BY DEF RunnerInv, TypeOK, FaultKinds
  <1>1. NoFault \/ \E kind \in FaultKinds : Fault(kind)
    BY DEF Next, OfJob, OfWorker, Process, InsertRow, Enqueue, MarkRunning, CheckSetup,
           ChildEnds, WriteResult, SetStatus, Finish, Stalled, OrphanEnds, StartWorker,
           Refresh, Expire, Shutdown, Exit, Crash, Take, NoFault, FaultKinds, vars
  <1>2. faults'["crash"] >= faults["crash"]
    BY <1>0, <1>1, Faults DEF FaultKinds, NoFault
  <1>3. ASSUME NEW w \in Workers, Crash(w) PROVE faults'["crash"] > 0
    BY <1>0, <1>3, Faults DEF Crash, FaultKinds
  <1> QED BY <1>0, <1>2, <1>3

\* A worker that does not crash waits for its child to end.
LEMMA ChildIsAwaited ==
    ASSUME RunnerInv, [HostNext]_hostVars, faults'["crash"] = 0,
           NEW j \in BisectJobs, pc[j] = "child"
    PROVE  pc'[j] = "child" \/ (bis[Child(j)].pc = "done" /\ bis' = bis)
  <1>0. j \in Jobs /\ j \notin CiJobs /\ TypeOK /\ queue[j] = "active"
    BY DEF BisectJobs, CiJobs, RunnerInv, ProcessorInv
  <1>1. ASSUME NEW i \in Jobs, HostProcess(i)
        PROVE  pc'[j] = "child" \/ (bis[Child(j)].pc = "done" /\ bis' = bis)
    <2>1. CASE i = j
      BY <1>0, <1>1, <2>1 DEF HostProcess, Spawn, NoSetup, CheckSetup, BisectExits, CiExits,
                              Record, WriteResult, MarkRunning, Finish, At, tree
    <2>2. CASE i # j
      BY <1>0, <1>1, <2>2 DEF HostProcess, Spawn, NoSetup, CheckSetup, BisectExits, CiExits,
                              ChildEnds, Record, WriteResult, MarkRunning, SetStatus, Finish,
                              Go, TypeOK
    <2> QED BY <2>1, <2>2
  <1>2. ASSUME NEW i \in Jobs,
               \/ OrphanExits(i) \/ ChildTimesOut(i)
               \/ InsertRow(i) \/ Enqueue(i) \/ Stalled(i)
        PROVE  pc' = pc
    BY <1>2 DEF OrphanExits, OrphanEnds, ChildTimesOut, InsertRow, Enqueue, Stalled, vars
  <1>3. ASSUME NEW r \in Children, ChildRuns(r) \/ OrphanAborts(r) PROVE pc' = pc
    BY <1>3 DEF ChildRuns, OrphanAborts, vars
  <1>4. ASSUME NEW w \in Workers, OfWorker(w) PROVE pc'[j] = "child"
    <2>1. ~Crash(w)
      <3>1. [Next]_vars
        BY HostStep
      <3> QED BY <3>1, CrashesCount
    <2> QED BY <1>0, <1>4, <2>1 DEF OfWorker, StartWorker, Refresh, Shutdown, Exit, Take, TypeOK
  <1>5. Expire \/ UNCHANGED hostVars => pc' = pc
    BY DEF Expire, hostVars, vars
  <1> QED BY <1>1, <1>2, <1>3, <1>4, <1>5 DEF HostNext

\* A bisect that takes a step, or is killed, was at work and has not panicked.
LEMMA NoPanic ==
    ASSUME Git!TypeOK, Git!BisectInv, NEW r \in Children, Git!Step(r) \/ Git!Kill(r)
    PROVE  /\ Git!Active(r) /\ bis'[r].result # "aborted"
           /\ \A s \in Children \ {r} : bis'[s] = bis[s]
  <1>1. Works(r)
    BY StepWorks
  <1>2. bis[r] \in Git!Invocation /\ bis[r].result # "aborted"
    BY <1>1, AtWorkStarted DEF Works, Git!TypeOK
  <1>3. bis'[r].result # "aborted"
    <2>0. bis \in [Children -> Git!Invocation]
      BY DEF Git!TypeOK
    <2>1. CASE Git!Checkout(r)
      BY <1>2, <2>0, <2>1 DEF Git!Checkout, Git!Invocation
    <2>2. CASE Git!RunCi(r)
      BY <1>2, <2>0, <2>2 DEF Git!RunCi, Git!Ran, Git!Invocation
    <2>3. CASE Git!JudgeGood(r)
      BY <1>2, <2>0, <2>3 DEF Git!JudgeGood, Git!Aim, Git!Invocation
    <2>4. CASE Git!JudgeSearch(r)
      BY <1>2, <2>0, <2>4 DEF Git!JudgeSearch, Git!Narrowed, Git!Tested, Git!Aim, Git!Invocation
    <2>5. CASE Git!JudgeConfirm(r)
      BY <1>2, <2>0, <2>5 DEF Git!JudgeConfirm, Git!Invocation
    <2>6. CASE Git!Restore(r)
      BY <1>2, <2>0, <2>6 DEF Git!Restore, Git!Invocation
    <2>7. CASE Git!Kill(r)
      BY <1>2, <2>0, <2>7 DEF Git!Kill, Git!Invocation
    <2> QED BY <2>1, <2>2, <2>3, <2>4, <2>5, <2>6, <2>7 DEF Git!Step
  <1> QED BY <1>1, <1>3 DEF Works

LEMMA HeardKeeps ==
    ASSUME RunnerInv, RunnerInv', Git!TypeOK, Git!BisectInv, HeardInv, [HostNext]_hostVars
    PROVE  HeardInv'
  <1> SUFFICES ASSUME faults'["crash"] = 0, NEW r \in Children
               PROVE  bis'[r].result # "aborted" /\ ~Unheard(r)'
    BY DEF HeardInv, Aborted
  <1>1. faults["crash"] = 0
    BY HostStep, CrashesCount
  <1>2. \A s \in Children : bis[s].result # "aborted" /\ ~Unheard(s)
    BY <1>1 DEF HeardInv, Aborted
  <1>3. \A j \in BisectJobs : stalls[j] = 0 /\ stalls'[j] = 0 /\ Child(j) = <<j, 0>>
                              /\ Child(j)' = <<j, 0>>
    <2>1. \A j \in BisectJobs : /\ stalls[j] \in 0 .. 2 /\ stalls[j] <= 0
                                /\ stalls'[j] \in 0 .. 2 /\ stalls'[j] <= 0
      BY <1>1 DEF RunnerInv, TypeOK, CrashInv, BisectJobs
    <2> QED BY <2>1 DEF Child
  <1>4. r[1] \in BisectJobs
    BY DEF Children
  \* A bisect that was at work before was heard before.
  <1>5. ASSUME Git!Active(r) PROVE ~Unheard(r)'
    <2>1. r = Child(r[1]) /\ pc[r[1]] = "child"
      BY <1>2, <1>5 DEF Unheard, At
    <2>2. pc'[r[1]] = "child" \/ (bis[r].pc = "done" /\ bis' = bis)
      BY <1>4, <2>1, ChildIsAwaited
    <2>3. pc'[r[1]] = "child"
      BY <1>5, <2>2 DEF Git!Active
    <2> QED BY <1>3, <1>4, <2>1, <2>3 DEF Unheard, At
  <1>6. CASE bis' = bis
    BY <1>2, <1>5, <1>6 DEF Unheard, Git!Active
  <1>7. ASSUME NEW s \in Children, Git!Step(s) \/ Git!Kill(s)
        PROVE  bis'[r].result # "aborted" /\ ~Unheard(r)'
    <2>1. /\ Git!Active(s) /\ bis'[s].result # "aborted"
          /\ \A c \in Children \ {s} : bis'[c] = bis[c]
      BY <1>7, NoPanic
    <2> QED BY <1>2, <1>5, <2>1 DEF Unheard, Git!Active
  <1>8. ASSUME NEW j \in BisectJobs, Spawn(j)
        PROVE  bis'[r].result # "aborted" /\ ~Unheard(r)'
    <2>1. /\ pc'[j] = "child" /\ Child(j) \in Children
          /\ Git!Start(Child(j), Good[j]) \/ Git!Refuse(Child(j), Good[j])
      BY <1>8, ChildExists DEF Spawn, CheckSetup, At
    <2>2. /\ bis'[Child(j)].result # "aborted"
          /\ \A c \in Children \ {Child(j)} : bis'[c] = bis[c]
      <3>0. bis \in [Children -> Git!Invocation] /\ Child(j) \in Children
        BY <2>1 DEF Git!TypeOK
      <3>1. CASE Git!Start(Child(j), Good[j])
        BY <3>0, <3>1 DEF Git!Start, Git!Idle, Git!Invocation
      <3>2. CASE Git!Refuse(Child(j), Good[j])
        BY <3>0, <3>2 DEF Git!Refuse, Git!Invocation
      <3> QED BY <2>1, <3>1, <3>2
    <2>3. CASE r = Child(j)
      <3>1. r[1] = j /\ r = Child(j)'
        BY <1>3, <2>3
      <3> QED BY <2>1, <2>2, <2>3, <3>1 DEF Unheard, At
    <2>4. CASE r # Child(j)
      BY <1>2, <1>5, <2>2, <2>4 DEF Unheard, Git!Active
    <2> QED BY <2>3, <2>4
  <1>9. ASSUME NEW j \in Jobs, HostProcess(j), ~(Spawn(j) /\ j \in BisectJobs)
        PROVE  bis' = bis
    BY <1>9 DEF HostProcess, Spawn, NoSetup, BisectExits, CiExits, Record, tree
  <1>10. ASSUME NEW j \in Jobs, ChildTimesOut(j)
         PROVE  Child(j) \in Children /\ Git!Kill(Child(j))
    BY <1>10, ChildExists DEF ChildTimesOut, At
  <1>11. ASSUME NEW j \in Jobs, OrphanExits(j) PROVE bis' = bis
    BY <1>11 DEF OrphanExits, tree
  <1>12. ASSUME NEW s \in Children, ChildRuns(s) \/ OrphanAborts(s) PROVE Git!Step(s)
    BY <1>2, <1>12 DEF ChildRuns, OrphanAborts
  <1>13. UNCHANGED hostVars \/ UNCHANGED tree => bis' = bis
    BY DEF hostVars, tree
  <1> QED BY <1>6, <1>7, <1>8, <1>9, <1>10, <1>11, <1>12, <1>13 DEF HostNext

-----------------------------------------------------------------------------
(* The rows and the tree.                                                  *)

\* What a result that is about to be written says, and what a row says.
RowInv ==
    /\ \A j \in BisectJobs : pc[j] = "result" /\ exitOk[j] =>
          bis[Child(j)].pc = "done" /\ bis[Child(j)].result = "found"
    /\ \A j \in CiJobs : row[j] = "done" \/ (pc[j] = "result" /\ exitOk[j]) =>
          TRUE \in verdicts[N] \/ Started # {}
    /\ \A j \in BisectJobs : row[j] = "done" =>
          Broke(j, culprit[j]) \/ \E k \in 0 .. 1 : ~bis[<<j, k>>].clean

HostInv ==
    /\ RunnerInv /\ Git!TypeOK /\ Git!BisectInv
    /\ culprit \in [BisectJobs -> Git!Commits \cup {Unset}]
    /\ TreeInv /\ HeardInv /\ RowInv

\* A bisect that found a commit has found one that broke the fixture, or tested
\* the wrong ones.
LEMMA FoundBroke ==
    ASSUME HostInv, NEW j \in BisectJobs, Child(j) \in Children, Child(j)[1] = j,
           bis[Child(j)].pc = "done", bis[Child(j)].result = "found"
    PROVE  /\ bis[Child(j)].hi \in Git!Commits
           /\ Broke(j, bis[Child(j)].hi) \/ \E k \in 0 .. 1 : ~bis[<<j, k>>].clean
  <1> DEFINE r == Child(j)
             b == bis[r]
  <1>1. b \in Git!Invocation /\ b.hi \in Git!Commits /\ b.lo \in Git!Commits
    BY DEF HostInv, Git!TypeOK, Git!Invocation
  <1>2. b.good = Good[j]
    BY DEF HostInv, TreeInv, Started
  <1>3. /\ b.lo + 1 = b.hi
        /\ b.clean => FALSE \in verdicts[b.hi] /\ (b.lo = b.good \/ TRUE \in verdicts[b.lo])
    BY DEF HostInv, Git!BisectInv, Git!ReportIsSound
  <1>4. b.lo = b.hi - 1
    BY <1>1, <1>3, HostAssumption DEF Git!Commits
  <1>5. b.clean => Broke(j, b.hi)
    BY <1>1, <1>2, <1>3, <1>4 DEF Broke
  <1>6. ~b.clean => \E k \in 0 .. 1 : ~bis[<<j, k>>].clean
    BY DEF Child, Children
  <1> QED BY <1>1, <1>5, <1>6

\* What has been said of a commit stands.
LEMMA SaidStands ==
    ASSUME Forward, Git!TypeOK
    PROVE  /\ \A j \in BisectJobs : \A c :
                 Broke(j, c) \/ (\E k \in 0 .. 1 : ~bis[<<j, k>>].clean)
                 => Broke(j, c)' \/ \E k \in 0 .. 1 : ~bis'[<<j, k>>].clean
           /\ TRUE \in verdicts[N] \/ Started # {} =>
                 TRUE \in verdicts'[N] \/ Started' # {}
           /\ \A r \in Children : bis[r].pc = "done" => bis'[r] = bis[r]
  <1>1. ASSUME NEW j \in BisectJobs, NEW c PROVE Broke(j, c) => Broke(j, c)'
    BY DEF Forward, Broke
  <1>2. ASSUME NEW j \in BisectJobs, NEW k \in 0 .. 1, ~bis[<<j, k>>].clean
        PROVE  ~bis'[<<j, k>>].clean
    BY <1>2 DEF Forward, Children
  <1>3. Started \subseteq Started'
    BY DEF Forward, Started
  <1> QED BY <1>1, <1>2, <1>3 DEF Forward

\* A step that ends no child and writes no result.
Quiet ==
    /\ UNCHANGED <<culprit, exitOk>>
    /\ \A j \in Jobs : row'[j] = "done" => row[j] = "done"
    /\ \A j \in Jobs : pc'[j] = "result" => pc[j] = "result" /\ stalls'[j] = stalls[j]

\* What the rows say survives it.
LEMMA QuietKeeps ==
    ASSUME HostInv, Forward, Quiet PROVE RowInv'
  <1>1. \A j \in BisectJobs : j \in Jobs
    BY DEF BisectJobs
  <1>2. ASSUME NEW j \in BisectJobs, pc'[j] = "result", exitOk'[j]
        PROVE  bis'[Child(j)'].pc = "done" /\ bis'[Child(j)'].result = "found"
    <2>1. pc[j] = "result" /\ exitOk[j] /\ Child(j)' = Child(j)
      BY <1>1, <1>2 DEF Quiet, Child
    <2>2. bis[Child(j)].pc = "done" /\ bis[Child(j)].result = "found"
      BY <2>1 DEF HostInv, RowInv
    <2>3. Child(j) \in Children
      BY <2>1, ChildExists DEF HostInv
    <2> QED BY <2>1, <2>2, <2>3 DEF Forward
  <1>3. ASSUME NEW j \in CiJobs, row'[j] = "done" \/ (pc'[j] = "result" /\ exitOk'[j])
        PROVE  TRUE \in verdicts'[N] \/ Started' # {}
    <2>1. TRUE \in verdicts[N] \/ Started # {}
      BY <1>3 DEF Quiet, HostInv, RowInv, CiJobs
    <2> QED BY <2>1, SaidStands DEF HostInv
  <1>4. ASSUME NEW j \in BisectJobs, row'[j] = "done"
        PROVE  Broke(j, culprit[j])' \/ \E k \in 0 .. 1 : ~bis'[<<j, k>>].clean
    <2>1. Broke(j, culprit[j]) \/ \E k \in 0 .. 1 : ~bis[<<j, k>>].clean
      BY <1>1, <1>4 DEF Quiet, HostInv, RowInv
    <2>2. verdicts' = verdicts /\ culprit' = culprit
      BY DEF Forward, Quiet
    <2>3. Broke(j, culprit[j]) => Broke(j, culprit[j])'
      BY <2>2 DEF Broke
    <2> QED BY <2>1, <2>3, SaidStands DEF HostInv
  <1> QED BY <1>2, <1>3, <1>4 DEF RowInv

\* A child ends and its exit code is kept.
LEMMA ExitKeeps ==
    ASSUME HostInv, Forward, NEW j \in Jobs, BisectExits(j) \/ CiExits(j)
    PROVE  RowInv'
  <1>1. /\ pc' = [pc EXCEPT ![j] = "result"] /\ pc[j] = "child"
        /\ \A i \in Jobs \ {j} : exitOk'[i] = exitOk[i]
        /\ UNCHANGED <<row, stalls, culprit, tree>>
    BY DEF BisectExits, CiExits, ChildEnds, ProcessorFrame, Go, At, HostInv, RunnerInv, TypeOK
  <1>2. /\ pc'[j] = "result" /\ \A i \in Jobs \ {j} : pc'[i] = pc[i]
        /\ \A i \in Jobs : Child(i)' = Child(i)
        /\ Started' = Started /\ verdicts' = verdicts /\ bis' = bis
    BY <1>1 DEF HostInv, RunnerInv, TypeOK, Child, Started, tree
  <1>3. CASE j \in BisectJobs
    <2>1. exitOk'[j] = (bis[Child(j)].result = "found") /\ bis[Child(j)].pc = "done"
      BY <1>3 DEF BisectExits, CiExits, CiJobs
    <2>2. \A i \in BisectJobs : pc'[i] = "result" /\ exitOk'[i] =>
             bis[Child(i)].pc = "done" /\ bis[Child(i)].result = "found"
      BY <1>1, <1>2, <2>1 DEF HostInv, RowInv, BisectJobs
    <2>3. \A i \in CiJobs : row'[i] = "done" \/ (pc'[i] = "result" /\ exitOk'[i]) =>
             TRUE \in verdicts[N] \/ Started # {}
      BY <1>1, <1>2, <1>3 DEF HostInv, RowInv, CiJobs
    <2> QED BY <1>1, <1>2, <2>2, <2>3 DEF HostInv, RowInv, Broke, BisectJobs
  <1>4. CASE j \in CiJobs
    <2>1. exitOk'[j] \in verdicts[head] \cup {FALSE}
      BY <1>4 DEF BisectExits, CiExits, CiJobs
    <2>2. exitOk'[j] => TRUE \in verdicts[N] \/ Started # {}
      <3> SUFFICES ASSUME exitOk'[j], Started = {} PROVE TRUE \in verdicts[N]
        OBVIOUS
      <3>1. head = N
        BY DEF HostInv, TreeInv, BranchIsKept
      <3>2. exitOk'[j] = TRUE
        BY <2>1 DEF HostInv, Git!TypeOK
      <3> QED BY <2>1, <3>1, <3>2
    <2>3. \A i \in CiJobs : row'[i] = "done" \/ (pc'[i] = "result" /\ exitOk'[i]) =>
             TRUE \in verdicts[N] \/ Started # {}
      BY <1>1, <1>2, <2>2 DEF HostInv, RowInv, CiJobs
    <2>4. \A i \in BisectJobs : pc'[i] = "result" /\ exitOk'[i] =>
             bis[Child(i)].pc = "done" /\ bis[Child(i)].result = "found"
      BY <1>1, <1>2, <1>4 DEF HostInv, RowInv, BisectJobs, CiJobs
    <2> QED BY <1>1, <1>2, <2>3, <2>4 DEF HostInv, RowInv, Broke, BisectJobs
  <1> QED BY <1>3, <1>4 DEF CiJobs

\* A row is written from the result of the child.
LEMMA RecordKeeps ==
    ASSUME HostInv, Forward, NEW j \in Jobs, Record(j)
    PROVE  RowInv' /\ culprit' \in [BisectJobs -> Git!Commits \cup {Unset}]
  <1>1. /\ pc[j] = "result" /\ pc'[j] # "result"
        /\ \A i \in Jobs \ {j} : pc'[i] = pc[i] /\ row'[i] = row[i]
        /\ UNCHANGED <<exitOk, stalls, tree>>
        /\ row'[j] = "done" =>
              \/ row[j] = "done" /\ pc'[j] # "finish"
              \/ exitOk[j] /\ pc'[j] = "finish"
    BY DEF Record, WriteResult, SetStatus, ProcessorFrame, Go, At, HostInv, RunnerInv, TypeOK
  <1>2. /\ \A i \in Jobs : Child(i)' = Child(i)
        /\ Started' = Started /\ verdicts' = verdicts /\ bis' = bis
    BY <1>1 DEF Child, Started, tree
  <1>3. culprit' = IF j \in BisectJobs /\ row'[j] = "done" /\ pc'[j] = "finish"
                   THEN [culprit EXCEPT ![j] = bis[Child(j)].hi] ELSE culprit
    BY DEF Record
  <1>4. \A i \in BisectJobs : pc'[i] = "result" /\ exitOk'[i] =>
             bis[Child(i)].pc = "done" /\ bis[Child(i)].result = "found"
    BY <1>1 DEF HostInv, RowInv, BisectJobs
  <1>5. \A i \in CiJobs : row'[i] = "done" \/ (pc'[i] = "result" /\ exitOk'[i]) =>
             TRUE \in verdicts[N] \/ Started # {}
    BY <1>1 DEF HostInv, RowInv, CiJobs
  <1>6. ASSUME j \in BisectJobs, row'[j] = "done", pc'[j] = "finish"
        PROVE  /\ bis[Child(j)].hi \in Git!Commits
               /\ Broke(j, bis[Child(j)].hi) \/ \E k \in 0 .. 1 : ~bis[<<j, k>>].clean
    <2>1. bis[Child(j)].pc = "done" /\ bis[Child(j)].result = "found"
      BY <1>1, <1>6 DEF HostInv, RowInv
    <2> QED BY <1>1, <1>6, <2>1, ChildExists, FoundBroke DEF HostInv
  <1>7. culprit' \in [BisectJobs -> Git!Commits \cup {Unset}]
    BY <1>3, <1>6 DEF HostInv
  <1>8. ASSUME NEW i \in BisectJobs, row'[i] = "done"
        PROVE  Broke(i, culprit'[i]) \/ \E k \in 0 .. 1 : ~bis[<<i, k>>].clean
    <2>1. CASE i = j /\ pc'[j] = "finish"
      <3>1. culprit'[i] = bis[Child(j)].hi
        BY <1>3, <1>8, <2>1 DEF HostInv
      <3> QED BY <1>6, <1>8, <2>1, <3>1
    <2>2. CASE i # j \/ pc'[j] # "finish"
      <3>1. row[i] = "done"
        BY <1>1, <1>8, <2>2 DEF BisectJobs
      <3>2. culprit'[i] = culprit[i]
        BY <1>3, <2>2 DEF HostInv
      <3> QED BY <3>1, <3>2 DEF HostInv, RowInv
    <2> QED BY <2>1, <2>2
  <1> QED BY <1>2, <1>4, <1>5, <1>7, <1>8 DEF RowInv, Broke, BisectJobs

\* Every step of the host keeps all of it.
LEMMA HostKeeps == HostInv /\ [HostNext]_hostVars /\ RunnerInv' /\ Git!TypeOK'
                      /\ Git!BisectInv' => HostInv'
  <1> SUFFICES ASSUME HostInv, [HostNext]_hostVars, RunnerInv'
               PROVE  /\ TreeInv' /\ RowInv'
                      /\ culprit' \in [BisectJobs -> Git!Commits \cup {Unset}]
    BY HeardKeeps DEF HostInv, Git!Commits
  <1>1. TreeInv' /\ Forward
    BY TreeKeeps DEF HostInv
  <1>2. CASE Quiet
    BY <1>1, <1>2, QuietKeeps DEF Quiet, HostInv
  <1>3. ASSUME NEW j \in Jobs, BisectExits(j) \/ CiExits(j)
        PROVE  RowInv' /\ culprit' = culprit
    BY <1>1, <1>3, ExitKeeps DEF BisectExits, CiExits
  <1>4. ASSUME NEW j \in Jobs, Record(j)
        PROVE  RowInv' /\ culprit' \in [BisectJobs -> Git!Commits \cup {Unset}]
    BY <1>1, <1>4, RecordKeeps
  <1>5. ASSUME NEW j \in Jobs,
               \/ MarkRunning(j) \/ Finish(j) \/ InsertRow(j) \/ Enqueue(j) \/ Stalled(j)
               \/ Spawn(j) \/ NoSetup(j) \/ OrphanExits(j) \/ ChildTimesOut(j),
               UNCHANGED culprit
        PROVE  Quiet
    BY <1>5 DEF MarkRunning, Finish, InsertRow, Enqueue, Stalled, Spawn, NoSetup, OrphanExits,
                OrphanEnds, ChildTimesOut, CheckSetup, SetStatus, NeedsRunner, ProcessorFrame,
                Go, At, storeVars, vars, Quiet, HostInv, RunnerInv, TypeOK
  <1>6. ASSUME NEW r \in Children, ChildRuns(r) \/ OrphanAborts(r) PROVE Quiet
    BY <1>6 DEF ChildRuns, OrphanAborts, vars, storeVars, Quiet
  <1>7. ASSUME NEW w \in Workers, OfWorker(w), UNCHANGED culprit PROVE Quiet
    BY <1>7 DEF OfWorker, StartWorker, Refresh, Shutdown, Exit, Crash, Take, WorkerFrame,
                Quiet, HostInv, RunnerInv, TypeOK
  <1>8. ASSUME Expire, UNCHANGED culprit PROVE Quiet
    BY <1>8 DEF Expire, WorkerFrame, Quiet
  <1>9. CASE UNCHANGED hostVars
    BY <1>9, <1>2 DEF hostVars, vars, storeVars, Quiet
  <1> QED
    <2>1. CASE \E j \in Jobs : HostProcess(j)
      <3>1. PICK j \in Jobs : HostProcess(j)
        BY <2>1
      <3>2. CASE Spawn(j) \/ NoSetup(j) \/ ((MarkRunning(j) \/ Finish(j)) /\ UNCHANGED <<tree, culprit>>)
        <4>1. UNCHANGED culprit
          BY <3>2 DEF Spawn, NoSetup
        <4> QED BY <1>2, <1>5, <3>2, <4>1
      <3>3. CASE BisectExits(j) \/ CiExits(j)
        <4>1. culprit \in [BisectJobs -> Git!Commits \cup {Unset}]
          BY DEF HostInv
        <4> QED BY <1>1, <1>3, <3>3, <4>1
      <3> QED BY <1>1, <1>4, <3>1, <3>2, <3>3 DEF HostProcess
    <2>2. CASE \E j \in Jobs : \/ OrphanExits(j) \/ ChildTimesOut(j)
                               \/ (InsertRow(j) \/ Enqueue(j) \/ Stalled(j))
                                  /\ UNCHANGED <<tree, culprit>>
      BY <1>2, <1>5, <2>2 DEF OrphanExits, ChildTimesOut
    <2>3. CASE \/ \E r \in Children : ChildRuns(r) \/ OrphanAborts(r)
               \/ (\E w \in Workers : OfWorker(w)) /\ UNCHANGED <<tree, culprit>>
               \/ Expire /\ UNCHANGED <<tree, culprit>>
      BY <1>2, <1>6, <1>7, <1>8, <2>3
    <2> QED BY <1>9, <2>1, <2>2, <2>3 DEF HostNext

\* For any jobs, workers, history, number of tries and faults: the rows, the
\* children and the tree agree.
THEOREM HostSafe == HostSpec => []HostInv
  <1>1. HostSpec => []RunnerInv
    BY HostImplementsRunnerJobs, RunnerSafe
  <1>2. HostSpec => [](Git!TypeOK /\ Git!BisectInv)
    BY HostImplementsBisect, BisectHolds
  <1>3. HostInit /\ RunnerInv /\ Git!TypeOK /\ Git!BisectInv => HostInv
    <2> SUFFICES ASSUME HostInit
                 PROVE  /\ TreeInv /\ HeardInv /\ RowInv
                        /\ culprit \in [BisectJobs -> Git!Commits \cup {Unset}]
      BY DEF HostInv
    <2>1. RowInv
      BY DEF HostInit, Init, RowInv, BisectJobs, CiJobs
    <2>2. HeardInv
      BY DEF HostInit, Git!Init, Git!Idle, Git!Active, HeardInv, Aborted, Unheard
    <2> QED BY <2>1, <2>2, TreeStart DEF HostInit
  <1> QED BY <1>1, <1>2, <1>3, HostKeeps, PTL DEF HostSpec

\* What a row reports is true of the repository, unless bisects overlapped in the
\* tree or a checkout failed.
THEOREM RowsAreSound == HostSpec => []RowIsSound
  <1>1. HostInv => RowIsSound
    <2> SUFFICES ASSUME HostInv PROVE RowIsSound
      OBVIOUS
    <2>1. Cardinality(Started) \in Nat /\ treeFaults["checkout"] \in Nat
      BY FS_CardinalityType DEF HostInv, TreeInv, Git!TypeOK, Git!FaultKinds
    <2>2. \A r \in Children : ~bis[r].clean =>
             Cardinality(Started) > 1 \/ treeFaults["checkout"] > 0
      BY <2>1 DEF HostInv, TreeInv, TestsAreAimed
    <2> QED BY <2>2 DEF HostInv, RowInv, RowIsSound
  <1> QED BY <1>1, HostSafe, PTL

\* The tree is on its branch when no bisect is at work, unless one was killed,
\* could not restore it, began while another one had it, or panicked on its
\* broken pipe after its worker had crashed.
THEOREM TreeIsRestored == HostSpec => []TreeComesBack
  <1>1. HostInv => TreeComesBack
    <2> SUFFICES ASSUME HostInv PROVE TreeComesBack
      OBVIOUS
    <2>1. /\ treeFaults["kill"] \in Nat /\ treeFaults["restore"] \in Nat
          /\ faults["crash"] \in Nat
      BY DEF HostInv, RunnerInv, TypeOK, FaultKinds, Git!TypeOK, Git!FaultKinds
    <2>2. Aborted # {} => faults["crash"] > 0
      BY <2>1 DEF HostInv, HeardInv
    <2> QED BY <2>1, <2>2 DEF HostInv, TreeInv, BranchIsKept, TreeComesBack
  <1> QED BY <1>1, HostSafe, PTL

\* The host's tables, queue, processes and tree are always in one of their states.
THEOREM HostTypeCorrect == HostSpec => []HostTypeOK
  <1>1. HostInv => HostTypeOK
    BY DEF HostInv, RunnerInv, HostTypeOK
  <1> QED BY <1>1, HostSafe, PTL

=============================================================================
