----------------------------- MODULE HostRunner -----------------------------
(***************************************************************************)
(* The host runner with its children: the jobs of RunnerJobs, each running *)
(* a halley CLI in one working tree, where halley bisect (Bisect) checks   *)
(* out other commits while halley ci tests whatever is checked out.        *)
(*                                                                         *)
(* A bisect job has one CLI child per hand-out, <<job, stalls>>, and the   *)
(* first may live on while the second runs: until the next line it prints, *)
(* for execFile has its output in pipes that died with the worker.         *)
(***************************************************************************)
EXTENDS RunnerJobs

CONSTANTS
    N,              \* the number of commits of the branch
    TRIES,          \* how often a commit is tested while searching
    Good,           \* base_commit of each bisect job
    MaxTreeFaults,  \* the bound on each kind of fault in the tree
    MaxTreeInAll    \* and on all of them together

BisectJobs == {j \in Jobs : Kind[j] = "bisect"}
CiJobs == Jobs \ BisectJobs

ASSUME HostAssumption ==
    /\ N \in Nat \ {0} /\ TRIES \in Nat \ {0}
    /\ Good \in [BisectJobs -> 1 .. N]
    /\ MaxTreeFaults \in [{"checkout", "restore", "kill"} -> Nat]
    /\ MaxTreeInAll \in Nat

Children == BisectJobs \X (0 .. 1)

VARIABLES
    verdicts, head, attached, bis, treeFaults,   \* as in Bisect
    culprit                                      \* bisect_jobs.result_commit

tree == <<verdicts, head, attached, bis, treeFaults>>

hostVars == <<vars, tree, culprit>>

Git == INSTANCE Bisect WITH
    Runs <- Children, faults <- treeFaults,
    MaxFaults <- MaxTreeFaults, MaxInAll <- MaxTreeInAll

\* No commit.
Unset == 0

HostTypeOK ==
    /\ TypeOK /\ Git!TypeOK
    /\ culprit \in [BisectJobs -> Git!Commits \cup {Unset}]

HostInit ==
    /\ Init /\ Git!Init
    /\ culprit = [j \in BisectJobs |-> Unset]

-----------------------------------------------------------------------------

\* The CLI child of the hand-out in progress.
Child(j) == <<j, stalls[j]>>

\* execFile: the CLI starts, and a bisect looks at the tree it finds.
Spawn(j) ==
    /\ CheckSetup(j) /\ pc'[j] = "child"
    /\ IF j \in BisectJobs
       THEN Git!Start(Child(j), Good[j]) \/ Git!Refuse(Child(j), Good[j])
       ELSE UNCHANGED tree
    /\ UNCHANGED culprit

NoSetup(j) ==
    /\ CheckSetup(j) /\ pc'[j] # "child"
    /\ UNCHANGED <<tree, culprit>>

\* A bisect at work without the worker that reads its output.
Unheard(r) ==
    /\ Git!Active(r)
    /\ r # Child(r[1]) \/ ~At(r[1], "child")

\* A bisect runs on as long as there is a reader for what it prints.
ChildRuns(r) ==
    /\ Git!Step(r)
    /\ Unheard(r) => ~Git!Prints(r)
    /\ UNCHANGED <<vars, culprit>>

\* The next line it prints ends a bisect whose worker died.
OrphanAborts(r) ==
    /\ Unheard(r)
    /\ Git!Abort(r)
    /\ UNCHANGED <<vars, culprit>>

\* execFile kills a child that takes longer than five minutes.
ChildTimesOut(j) ==
    /\ j \in BisectJobs /\ At(j, "child")
    /\ Git!Kill(Child(j))
    /\ UNCHANGED <<vars, culprit>>

\* The exit code of a bisect: only a confirmed commit is a success.
BisectExits(j) ==
    /\ j \in BisectJobs /\ bis[Child(j)].pc = "done"
    /\ ChildEnds(j)
    /\ exitOk'[j] = (bis[Child(j)].result = "found")
    /\ UNCHANGED <<tree, culprit>>

\* halley ci tests the commit that is checked out, or fails by itself.
CiExits(j) ==
    /\ j \in CiJobs
    /\ ChildEnds(j)
    /\ exitOk'[j] \in verdicts[head] \cup {FALSE}
    /\ UNCHANGED <<tree, culprit>>

\* BISECT_RESULT is stored with the status done, and never taken back.
Record(j) ==
    /\ WriteResult(j)
    /\ culprit' = IF j \in BisectJobs /\ row'[j] = "done" /\ pc'[j] = "finish"
                  THEN [culprit EXCEPT ![j] = bis[Child(j)].hi] ELSE culprit
    /\ UNCHANGED tree

\* The children of j that are at work without their worker.
AtWork(j) == {k \in 0 .. 1 : Unheard(<<j, k>>)}

OrphanExits(j) ==
    /\ j \in BisectJobs => Cardinality(AtWork(j)) < orphans[j]
    /\ OrphanEnds(j)
    /\ UNCHANGED <<tree, culprit>>

\* One await of a processor.
HostProcess(j) ==
    \/ Spawn(j) \/ NoSetup(j) \/ BisectExits(j) \/ CiExits(j) \/ Record(j)
    \/ (MarkRunning(j) \/ Finish(j)) /\ UNCHANGED <<tree, culprit>>

HostNext ==
    \/ \E j \in Jobs :
          \/ HostProcess(j) \/ OrphanExits(j) \/ ChildTimesOut(j)
          \/ (InsertRow(j) \/ Enqueue(j) \/ Stalled(j)) /\ UNCHANGED <<tree, culprit>>
    \/ \E r \in Children : ChildRuns(r) \/ OrphanAborts(r)
    \/ (\E w \in Workers : OfWorker(w)) /\ UNCHANGED <<tree, culprit>>
    \/ Expire /\ UNCHANGED <<tree, culprit>>

HostSpec == HostInit /\ [][HostNext]_hostVars

-----------------------------------------------------------------------------

\* The invocations of halley bisect that have taken the tree so far.
Started == {r \in Children : bis[r].pc # "idle" /\ bis[r].result # "refused"}

Broke(j, c) ==
    /\ c \in Git!Commits /\ FALSE \in verdicts[c]
    /\ c = Good[j] + 1 \/ TRUE \in verdicts[c - 1]

\* What a row reports is true of the repository: a bisect names a commit that
\* failed after one that passed, unless a test ran at another commit than it was
\* meant for, which takes a second bisect in the tree or a checkout that failed
\* (bisect-run.ts lines 222-236); and a green CI run passes at the branch,
\* unless a bisect has had the tree (ci-run.ts lines 207-249).
RowIsSound ==
    /\ \A j \in BisectJobs : row[j] = "done" =>
          Broke(j, culprit[j]) \/ \E k \in 0 .. 1 : ~bis[<<j, k>>].clean
    /\ \A r \in Children : ~bis[r].clean =>
          Cardinality(Started) > 1 \/ treeFaults["checkout"] > 0
    /\ \A j \in CiJobs : row[j] = "done" => TRUE \in verdicts[N] \/ Started # {}

Aborted == {r \in Children : bis[r].result = "aborted"}

\* When no bisect is at work the tree is on its branch, unless one was killed,
\* could not restore it, began while another one had the tree, or ended in a
\* panic on its broken output pipe, which takes a worker that crashed under it
\* (main.rs lines 612-614 and 699-740, bisect-run.ts lines 203-221).
TreeComesBack ==
    /\ (\A r \in Children : ~Git!Active(r)) =>
          \/ head = N /\ attached
          \/ treeFaults["kill"] > 0 \/ treeFaults["restore"] > 0
          \/ Cardinality(Started) > 1 /\ \E r \in Started : ~bis[r].branch
          \/ Aborted # {}
    /\ Aborted # {} => faults["crash"] > 0

=============================================================================
