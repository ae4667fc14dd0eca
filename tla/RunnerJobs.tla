----------------------------- MODULE RunnerJobs -----------------------------
(***************************************************************************)
(* Run CI and Run bisect from the dashboard: a row in Postgres, a job in a *)
(* BullMQ queue, host workers that run the halley CLI for it, and the      *)
(* heartbeat by which the dashboard sees that a runner is there.           *)
(*                                                                         *)
(* BullMQ is external and modelled by what its defaults do: one attempt    *)
(* per job, and a job whose worker died is handed out once more, then      *)
(* failed (maxStalledCount = 1).                                           *)
(***************************************************************************)
EXTENDS Integers, FiniteSets

LOCAL INSTANCE FiniteSetsExt

CONSTANTS
    Jobs,        \* the jobs users trigger
    Kind,        \* the queue each is for: "ci" or "bisect"
    Workers,     \* the host workers
    None,        \* no worker
    MaxFaults,   \* the bound on each kind of fault
    MaxInAll     \* and on all of them together

FaultKinds == {"enqueue", "db", "setup", "crash", "sigterm"}

ASSUME RunnerAssumption ==
    /\ Kind \in [Jobs -> {"ci", "bisect"}]
    /\ None \notin Workers
    /\ MaxFaults \in [FaultKinds -> Nat] /\ MaxInAll \in Nat

VARIABLES
    row,         \* Postgres: the status of each ci_runs or bisect_jobs row
    queue,       \* Redis: the state of each BullMQ job
    stalls,      \* Redis: how often each job has stalled
    owner,       \* Redis: the worker that holds the lock of each active job
    beat         \* Redis: whether halley:runner:heartbeat exists

storeVars == <<row, queue, stalls, owner, beat>>

VARIABLES
    worker,      \* each worker process
    pc,          \* where the processor of each job is
    exitOk,      \* whether the job's last CLI child succeeded
    orphans,     \* CLI children that outlived their worker, per job
    faults       \* how many faults of each kind have happened

vars == <<storeVars, worker, pc, exitOk, orphans, faults>>

Statuses == {"absent", "queued", "running", "done", "failed", "needs_runner"}
QueueStates == {"absent", "lost", "waiting", "active", "completed", "failed"}
Places == {"none", "load", "setup", "child", "result", "finish", "throw"}

\* The CHECK of ci_runs.status and of bisect_jobs.status, the states of a BullMQ
\* job that is handed out at most twice, and the places of a processor.
TypeOK ==
    /\ row \in [Jobs -> Statuses]
    /\ \A j \in Jobs : row[j] = "needs_runner" => Kind[j] = "ci"
    /\ queue \in [Jobs -> QueueStates]
    /\ stalls \in [Jobs -> 0 .. 2]
    /\ owner \in [Jobs -> Workers \cup {None}]
    /\ beat \in BOOLEAN
    /\ worker \in [Workers -> {"up", "closing", "down"}]
    /\ pc \in [Jobs -> Places]
    /\ exitOk \in [Jobs -> BOOLEAN]
    /\ orphans \in [Jobs -> Nat]
    /\ faults \in [FaultKinds -> Nat]

Settled(j) == row[j] \in {"done", "failed", "needs_runner"}

-----------------------------------------------------------------------------

Happened == FoldSet(LAMBDA k, n : n + faults[k], 0, FaultKinds)

Fault(kind) ==
    /\ faults[kind] < MaxFaults[kind] /\ Happened < MaxInAll
    /\ faults' = [faults EXCEPT ![kind] = @ + 1]

NoFault == UNCHANGED faults

Init ==
    /\ row = [j \in Jobs |-> "absent"]
    /\ queue = [j \in Jobs |-> "absent"]
    /\ stalls = [j \in Jobs |-> 0]
    /\ owner = [j \in Jobs |-> None]
    /\ beat = FALSE
    /\ worker = [w \in Workers |-> "down"]
    /\ pc = [j \in Jobs |-> "none"]
    /\ exitOk = [j \in Jobs |-> FALSE]
    /\ orphans = [j \in Jobs |-> 0]
    /\ faults = [k \in FaultKinds |-> 0]

-----------------------------------------------------------------------------
(* The dashboard.                                                          *)

\* POST: the row first ...
InsertRow(j) ==
    /\ row[j] = "absent"
    /\ row' = [row EXCEPT ![j] = "queued"]
    /\ UNCHANGED <<queue, stalls, owner, beat, worker, pc, exitOk, orphans, faults>>

\* ... then the job.  A failure is logged and the request succeeds all the same.
Enqueue(j) ==
    /\ row[j] = "queued" /\ queue[j] = "absent"
    /\ \/ queue' = [queue EXCEPT ![j] = "waiting"] /\ NoFault
       \/ queue' = [queue EXCEPT ![j] = "lost"] /\ Fault("enqueue")
    /\ UNCHANGED <<row, stalls, owner, beat, worker, pc, exitOk, orphans>>

-----------------------------------------------------------------------------
(* A processor, processCiRun or processBisectRun, one action per await.    *)

\* Each queue has a BullMQ Worker of concurrency 1 in each process.
Free(w, kind) ==
    \A j \in Jobs : Kind[j] = kind /\ owner[j] = w => pc[j] = "none"

Take(w, j) ==
    /\ worker[w] = "up"
    /\ queue[j] = "waiting"
    /\ Free(w, Kind[j])
    /\ queue' = [queue EXCEPT ![j] = "active"]
    /\ owner' = [owner EXCEPT ![j] = w]
    /\ pc' = [pc EXCEPT ![j] = "load"]
    /\ UNCHANGED <<row, stalls, beat, worker, exitOk, orphans, faults>>

At(j, place) == pc[j] = place

Go(j, place) == pc' = [pc EXCEPT ![j] = place]

ProcessorFrame == UNCHANGED <<queue, stalls, owner, beat, worker, orphans>>

\* The UPDATE of the row, or an error that the processor throws on.
SetStatus(j, status, next) ==
    \/ row' = [row EXCEPT ![j] = status] /\ Go(j, next) /\ NoFault
    \/ UNCHANGED row /\ Go(j, "throw") /\ Fault("db")

\* The row and its fixture are loaded and the row is marked running.
MarkRunning(j) ==
    /\ At(j, "load")
    /\ SetStatus(j, "running", "setup")
    /\ UNCHANGED exitOk
    /\ ProcessorFrame

\* failNeedsRunner: bisect_jobs has no needs_runner status.
NeedsRunner(j) == IF Kind[j] = "ci" THEN "needs_runner" ELSE "failed"

\* checkRunnerPreconditions finds the repo, the CLI and the shim, or not.
CheckSetup(j) ==
    /\ At(j, "setup")
    /\ \/ Go(j, "child") /\ UNCHANGED row /\ NoFault
       \/ /\ row' = [row EXCEPT ![j] = NeedsRunner(j)]
          /\ Go(j, "throw") /\ Fault("setup")
       \/ Go(j, "throw") /\ UNCHANGED row /\ Fault("db")
    /\ UNCHANGED exitOk
    /\ ProcessorFrame

\* The CLI exits, or is killed after five minutes.
ChildEnds(j) ==
    /\ At(j, "child")
    /\ \E ok \in BOOLEAN : exitOk' = [exitOk EXCEPT ![j] = ok]
    /\ Go(j, "result")
    /\ UNCHANGED <<row, faults>>
    /\ ProcessorFrame

\* Mutant: a bisect that failed throws before its row is written.
ThrowFirst(j) ==
    /\ At(j, "result")
    /\ IF exitOk[j] \/ Kind[j] = "ci"
       THEN SetStatus(j, IF exitOk[j] THEN "done" ELSE "failed", "finish")
       ELSE UNCHANGED <<row, faults>> /\ Go(j, "throw")
    /\ UNCHANGED exitOk
    /\ ProcessorFrame

\* Mutant: the row says done whatever the CLI returned.
AlwaysDone(j) ==
    /\ At(j, "result")
    /\ SetStatus(j, "done", IF exitOk[j] \/ Kind[j] = "ci" THEN "finish" ELSE "throw")
    /\ UNCHANGED exitOk
    /\ ProcessorFrame

\* Mutant: an error after the result has been written marks the row failed.
FailsAfterResult(j) ==
    /\ At(j, "result")
    /\ IF Settled(j) THEN SetStatus(j, "failed", "finish")
       ELSE SetStatus(j, IF exitOk[j] THEN "done" ELSE "failed", "result")
    /\ UNCHANGED exitOk
    /\ ProcessorFrame

\* setResult, setStatus; a bisect without a result then throws, a failed CI
\* run is a result like any other.
WriteResult(j) ==
    /\ At(j, "result")
    /\ SetStatus(j, IF exitOk[j] THEN "done" ELSE "failed",
                 IF exitOk[j] \/ Kind[j] = "ci" THEN "finish" ELSE "throw")
    /\ UNCHANGED exitOk
    /\ ProcessorFrame

\* BullMQ records how the processor ended; a failed job is not tried again.
Finish(j) ==
    /\ pc[j] \in {"finish", "throw"}
    /\ queue' = [queue EXCEPT ![j] = IF At(j, "finish") THEN "completed"
                                                        ELSE "failed"]
    /\ owner' = [owner EXCEPT ![j] = None]
    /\ Go(j, "none")
    /\ UNCHANGED <<row, stalls, beat, worker, exitOk, orphans, faults>>

\* The lock of an active job has run out and another worker notices.
Stalled(j) ==
    /\ queue[j] = "active" /\ At(j, "none")
    /\ \E w \in Workers : worker[w] # "down"
    /\ queue' = [queue EXCEPT ![j] = IF stalls[j] = 0 THEN "waiting" ELSE "failed"]
    /\ stalls' = [stalls EXCEPT ![j] = @ + 1]
    /\ owner' = [owner EXCEPT ![j] = None]
    /\ UNCHANGED <<row, beat, worker, pc, exitOk, orphans, faults>>

Process(j) ==
    \/ MarkRunning(j) \/ CheckSetup(j) \/ ChildEnds(j) \/ WriteResult(j)
    \/ Finish(j)

-----------------------------------------------------------------------------
(* Worker processes and their heartbeat.                                   *)

WorkerFrame == UNCHANGED <<row, queue, stalls>>

\* main(): startHeartbeat writes the key at once.
StartWorker(w) ==
    /\ worker[w] = "down"
    /\ worker' = [worker EXCEPT ![w] = "up"]
    /\ beat' = TRUE
    /\ WorkerFrame
    /\ UNCHANGED <<owner, pc, exitOk, orphans, faults>>

\* Mutant: the timer fires and does not write the key.
NoRefresh(w) == worker[w] = "up" /\ UNCHANGED vars

\* Every ten seconds.
Refresh(w) ==
    /\ worker[w] = "up"
    /\ beat' = TRUE
    /\ WorkerFrame
    /\ UNCHANGED <<owner, worker, pc, exitOk, orphans, faults>>

\* Nobody refreshes the key: its TTL runs out.
Expire ==
    /\ beat
    /\ \A w \in Workers : worker[w] # "up"
    /\ beat' = FALSE
    /\ WorkerFrame
    /\ UNCHANGED <<owner, worker, pc, exitOk, orphans, faults>>

\* SIGINT or SIGTERM: the key, which all workers share, is deleted and the
\* active jobs are waited for.
Shutdown(w) ==
    /\ worker[w] = "up" /\ Fault("sigterm")
    /\ worker' = [worker EXCEPT ![w] = "closing"]
    /\ beat' = FALSE
    /\ WorkerFrame
    /\ UNCHANGED <<owner, pc, exitOk, orphans>>

Holds(w) == {j \in Jobs : owner[j] = w /\ pc[j] # "none"}

Exit(w) ==
    /\ worker[w] = "closing"
    /\ Holds(w) = {}
    /\ worker' = [worker EXCEPT ![w] = "down"]
    /\ WorkerFrame
    /\ UNCHANGED <<owner, beat, pc, exitOk, orphans, faults>>

\* The process dies; its CLI children go on until they print the next line to
\* the pipe it read (OrphanEnds, at any time).
Crash(w) ==
    /\ worker[w] # "down" /\ Fault("crash")
    /\ worker' = [worker EXCEPT ![w] = "down"]
    /\ pc' = [j \in Jobs |-> IF j \in Holds(w) THEN "none" ELSE pc[j]]
    /\ orphans' = [j \in Jobs |-> IF j \in Holds(w) /\ At(j, "child")
                                  THEN orphans[j] + 1 ELSE orphans[j]]
    /\ WorkerFrame
    /\ UNCHANGED <<owner, beat, exitOk>>

OrphanEnds(j) ==
    /\ orphans[j] > 0
    /\ orphans' = [orphans EXCEPT ![j] = @ - 1]
    /\ UNCHANGED <<storeVars, worker, pc, exitOk, faults>>

OfJob(j) ==
    \/ InsertRow(j) \/ Enqueue(j) \/ Process(j) \/ Stalled(j) \/ OrphanEnds(j)

OfWorker(w) ==
    \/ StartWorker(w) \/ Refresh(w) \/ Shutdown(w) \/ Exit(w) \/ Crash(w)
    \/ \E j \in Jobs : Take(w, j)

Next == (\E j \in Jobs : OfJob(j)) \/ (\E w \in Workers : OfWorker(w)) \/ Expire

Spec == Init /\ [][Next]_vars

\* What happens by itself once a worker is up: awaits complete, BullMQ hands
\* jobs out and looks for stalled ones, timers fire, and a POST that has
\* inserted its row goes on.
Fairness ==
    /\ \A j \in Jobs : WF_vars(Enqueue(j)) /\ WF_vars(Process(j)) /\ WF_vars(Stalled(j))
    /\ \A j \in Jobs : SF_vars(\E w \in Workers : Take(w, j))
    /\ \A w \in Workers : WF_vars(Refresh(w)) /\ WF_vars(Exit(w))
    /\ WF_vars(Expire)

\* The user may never start a host worker.
FairSpec == Spec /\ Fairness

-----------------------------------------------------------------------------
(* Safety.                                                                 *)

\* One crash is survived, and an orderly stop costs nothing: a job that will not
\* run again has settled its row, unless the database failed or workers crashed
\* twice (index.ts lines 152-166).
StuckNeedsTwoCrashes ==
    \A j \in Jobs :
        queue[j] \in {"completed", "failed"} =>
            Settled(j) \/ faults["db"] > 0 \/ faults["crash"] > 1

\* A result is only overwritten after a crash: by a run that BullMQ handed out
\* again although the first had written its row.
SettledChangesAfterStallOnly ==
    [][\A j \in Jobs : Settled(j) /\ row'[j] # row[j] => stalls[j] > 0]_vars

-----------------------------------------------------------------------------
(* Liveness.                                                               *)

\* A worker that stays up is seen, although another one's shutdown deletes
\* the key they share (heartbeat.ts lines 57-80).
LiveRunnerIsSeen ==
    \A w \in Workers : worker[w] = "up" ~> beat \/ worker[w] # "up"

\* If there is a runner again and again, every job that was enqueued settles,
\* unless the database failed or the job lost its worker twice.
EveryJobSettles ==
    []<>(\E w \in Workers : worker[w] = "up") => \A j \in Jobs :
        row[j] = "queued" ~>
            Settled(j) \/ queue[j] = "lost" \/ faults["db"] > 0 \/ stalls[j] = 2

=============================================================================
