------------------------------- MODULE Bisect -------------------------------
(***************************************************************************)
(* halley bisect: a binary search for the commit that broke a fixture,     *)
(* which checks commits out in the user's own working tree.                *)
(*                                                                         *)
(* The branch has the commits 1 .. N, oldest first, and a commit is named  *)
(* by its position.  verdicts[c] holds the answers halley ci can give at   *)
(* commit c: one answer for a stable fixture, both for a flaky one.        *)
(* Invocations may overlap: nothing locks the tree, and a worker that dies *)
(* leaves its CLI child running while the job is handed out again.  That   *)
(* child prints to a pipe nobody reads any more, and the next line it      *)
(* prints ends it where it is.                                             *)
(***************************************************************************)
EXTENDS Integers, FiniteSets

CONSTANTS
    N,           \* the number of commits of the branch
    Runs,        \* the invocations of halley bisect
    TRIES,       \* how often a commit is tested while searching
    MaxFaults,   \* the bound on each kind of fault
    MaxInAll     \* and on all of them together

FaultKinds == {"checkout", "restore", "kill"}

ASSUME BisectAssumption ==
    /\ N \in Nat \ {0}
    /\ TRIES \in Nat \ {0}
    /\ MaxFaults \in [FaultKinds -> Nat] /\ MaxInAll \in Nat

Commits == 1 .. N

VARIABLES
    verdicts,    \* the answers halley ci can give at each commit
    head,        \* the commit the tree is at
    attached,    \* whether HEAD is the branch
    bis,         \* the state of each invocation
    faults       \* how many faults of each kind have happened

vars == <<verdicts, head, attached, bis, faults>>

Stages == {"good", "search", "confirm"}

Invocation ==
    [pc     : {"idle", "checkout", "ci", "judge", "restore", "done"},
     good   : Commits,     \* candidates[0]
     top    : Commits,     \* orig_head, which is also the bad end
     branch : BOOLEAN,     \* whether orig_branch is known
     lo     : Commits,
     hi     : Commits,
     stage  : Stages,
     probe  : Commits,     \* the commit being tested
     runs   : Nat,
     passes : Nat,
     probes : Nat,         \* how many commits the loop has tested
     result : {"none", "refused", "found", "unconfirmed", "killed", "aborted"},
     clean  : BOOLEAN]     \* every test so far ran at the commit it was for

TypeOK ==
    /\ verdicts \in [Commits -> SUBSET BOOLEAN]
    /\ head \in Commits
    /\ attached \in BOOLEAN
    /\ bis \in [Runs -> Invocation]
    /\ faults \in [FaultKinds -> Nat]

-----------------------------------------------------------------------------

Idle == [pc |-> "idle", good |-> 1, top |-> 1, branch |-> FALSE, lo |-> 1,
         hi |-> 1, stage |-> "good", probe |-> 1, runs |-> 0, passes |-> 0,
         probes |-> 0, result |-> "none", clean |-> TRUE]

Init ==
    /\ verdicts \in [Commits -> (SUBSET BOOLEAN) \ {{}}]
    /\ head = N
    /\ attached = TRUE
    /\ bis = [r \in Runs |-> Idle]
    /\ faults = [k \in FaultKinds |-> 0]

Happened == faults["checkout"] + faults["restore"] + faults["kill"]

Fault(kind) ==
    /\ faults[kind] < MaxFaults[kind] /\ Happened < MaxInAll
    /\ faults' = [faults EXCEPT ![kind] = @ + 1]

Active(r) == bis[r].pc \notin {"idle", "done"}

\* git log HEAD lists the commits up to head; the good commit must be one of
\* them and not head itself.
Start(r, good) ==
    /\ bis[r].pc = "idle"
    /\ good < head
    /\ bis' = [bis EXCEPT ![r] =
                 [Idle EXCEPT !.pc = "checkout", !.good = good, !.top = head,
                              !.branch = attached, !.lo = good, !.hi = head,
                              !.probe = good]]
    /\ UNCHANGED <<verdicts, head, attached, faults>>

\* "good and bad commits are the same", "not found in log".
Refuse(r, good) ==
    /\ bis[r].pc = "idle"
    /\ good >= head
    /\ bis' = [bis EXCEPT ![r] = [@ EXCEPT !.pc = "done", !.result = "refused"]]
    /\ UNCHANGED <<verdicts, head, attached, faults>>

\* git checkout of the candidate; when both attempts fail the tests run all
\* the same, on whatever the tree holds.
Checkout(r) ==
    /\ bis[r].pc = "checkout"
    /\ \/ head' = bis[r].probe /\ attached' = FALSE /\ UNCHANGED faults
       \/ Fault("checkout") /\ UNCHANGED <<head, attached>>
    /\ bis' = [bis EXCEPT ![r] = [@ EXCEPT !.pc = "ci", !.runs = 0, !.passes = 0]]
    /\ UNCHANGED verdicts

\* The good end is tested once, everything else TRIES times.
Tries(stage) == IF stage = "good" THEN 1 ELSE TRIES

\* What one more answer adds to what the invocation knows.
Ran(b, pass) ==
    [b EXCEPT !.runs = @ + 1,
              !.passes = IF pass THEN @ + 1 ELSE @,
              !.clean = @ /\ head = b.probe,
              !.pc = IF b.runs + 1 < Tries(b.stage) THEN "ci" ELSE "judge"]

\* One halley ci child in the tree.
RunCi(r) ==
    /\ bis[r].pc = "ci"
    /\ \E pass \in verdicts[head] :
          bis' = [bis EXCEPT ![r] = Ran(@, pass)]
    /\ UNCHANGED <<verdicts, head, attached, faults>>

\* fail_count < n
Passed(b) == b.passes > 0

\* while lo + 1 < hi
Continues(b, lo, hi) == lo + 1 < hi

\* Mutant: a quarter of the way.
Quarter(lo, hi) == (3 * lo + hi) \div 4

Middle(lo, hi) == (lo + hi) \div 2

\* The next commit to test, or the confirmation of hi.
Aim(b, lo, hi) ==
    IF Continues(b, lo, hi)
    THEN [b EXCEPT !.lo = lo, !.hi = hi, !.pc = "checkout",
                   !.stage = "search", !.probe = Middle(lo, hi)]
    ELSE [b EXCEPT !.lo = lo, !.hi = hi, !.pc = "checkout",
                   !.stage = "confirm", !.probe = hi]

\* A good end that fails is only warned about.
JudgeGood(r) ==
    /\ bis[r].pc = "judge" /\ bis[r].stage = "good"
    /\ bis' = [bis EXCEPT ![r] = Aim(@, @.lo, @.hi)]
    /\ UNCHANGED <<verdicts, head, attached, faults>>

Tested(b) == [b EXCEPT !.probes = @ + 1]

\* Mutant: lo skips the commit after the one that passed.
SkipsOne(b) ==
    IF Passed(b) THEN Aim(Tested(b), b.probe + 1, b.hi)
                 ELSE Aim(Tested(b), b.lo, b.probe)

\* A commit that passes raises lo, one that fails lowers hi.
Narrowed(b) ==
    IF Passed(b) THEN Aim(Tested(b), b.probe, b.hi)
                 ELSE Aim(Tested(b), b.lo, b.probe)

JudgeSearch(r) ==
    /\ bis[r].pc = "judge" /\ bis[r].stage = "search"
    /\ bis' = [bis EXCEPT ![r] = Narrowed(@)]
    /\ UNCHANGED <<verdicts, head, attached, faults>>

\* Mutant: the confirmation is not looked at.
JudgeUnseen(r) ==
    /\ bis[r].pc = "judge" /\ bis[r].stage = "confirm"
    /\ bis' = [bis EXCEPT ![r] = [@ EXCEPT !.pc = "restore", !.result = "found"]]
    /\ UNCHANGED <<verdicts, head, attached, faults>>

\* Mutant: a commit that passes is tested again until it does not.
JudgeAgain(r) ==
    /\ bis[r].pc = "judge" /\ bis[r].stage = "confirm"
    /\ bis' = [bis EXCEPT ![r] = IF Passed(@) THEN [@ EXCEPT !.pc = "checkout"]
                                 ELSE [@ EXCEPT !.pc = "restore", !.result = "found"]]
    /\ UNCHANGED <<verdicts, head, attached, faults>>

\* confirmed_bad
JudgeConfirm(r) ==
    /\ bis[r].pc = "judge" /\ bis[r].stage = "confirm"
    /\ bis' = [bis EXCEPT ![r] =
                 [@ EXCEPT !.pc = "restore",
                           !.result = IF Passed(bis[r]) THEN "unconfirmed"
                                                        ELSE "found"]]
    /\ UNCHANGED <<verdicts, head, attached, faults>>

\* Mutant: the original commit is restored, never the branch.
RestoreByHash(r) ==
    /\ bis[r].pc = "restore"
    /\ head' = bis[r].top
    /\ attached' = FALSE
    /\ bis' = [bis EXCEPT ![r] = [@ EXCEPT !.pc = "done"]]
    /\ UNCHANGED <<verdicts, faults>>

\* restore_repo: the branch, else the original commit; failures are ignored.
Restore(r) ==
    /\ bis[r].pc = "restore"
    /\ \/ /\ head' = IF bis[r].branch THEN N ELSE bis[r].top
          /\ attached' = bis[r].branch
          /\ UNCHANGED faults
       \/ /\ Fault("restore")
          /\ \/ bis[r].branch /\ head' = bis[r].top /\ attached' = FALSE
             \/ UNCHANGED <<head, attached>>
    /\ bis' = [bis EXCEPT ![r] = [@ EXCEPT !.pc = "done"]]
    /\ UNCHANGED verdicts

\* The worker's five minutes are over, or the user interrupts it.
Kill(r) ==
    /\ Active(r)
    /\ Fault("kill")
    /\ bis' = [bis EXCEPT ![r] = [@ EXCEPT !.pc = "done", !.result = "killed"]]
    /\ UNCHANGED <<verdicts, head, attached>>

\* Its next step prints a line: PASS or FAIL, the commit to check or confirm,
\* what restore_repo restored.  Only the confirmation is judged in silence.
Prints(r) ==
    \/ bis[r].pc = "restore"
    \/ bis[r].pc = "judge" /\ bis[r].stage # "confirm"

\* eprintln! panics when whoever read stderr is gone, and nothing restores the
\* tree on the way out; a checkout may still have its line to print.  In
\* restore_repo git writes to the same broken pipe: the signal may end it
\* before or after it moved HEAD, and so the fallback.
Abort(r) ==
    /\ Prints(r) \/ bis[r].pc = "checkout"
    /\ \/ UNCHANGED <<head, attached>>
       \/ bis[r].pc = "restore" /\ head' = bis[r].top /\ attached' \in {bis[r].branch, FALSE}
    /\ bis' = [bis EXCEPT ![r] = [@ EXCEPT !.pc = "done", !.result = "aborted"]]
    /\ UNCHANGED <<verdicts, faults>>

Step(r) ==
    \/ Checkout(r) \/ RunCi(r) \/ JudgeGood(r) \/ JudgeSearch(r)
    \/ JudgeConfirm(r) \/ Restore(r)

Invoke(r) == \E good \in Commits : Start(r, good) \/ Refuse(r, good)

Next == \E r \in Runs : Invoke(r) \/ Step(r) \/ Kill(r) \/ Abort(r)

Spec == Init /\ [][Next]_vars

\* A process that has started runs on.
FairSpec == Spec /\ \A r \in Runs : WF_vars(Step(r))

-----------------------------------------------------------------------------
(* Safety.                                                                 *)

Ended(r) == bis[r].pc = "done" /\ bis[r].result \in {"found", "unconfirmed"}

\* The bounds close in on a commit of the range (main.rs lines 675-720): lo
\* passed at least once or is the good end, hi failed every time or is the
\* bad end, provided every test ran at the commit it was for.
SearchInv ==
    \A r \in Runs : LET b == bis[r] IN
        bis[r].pc # "idle" /\ bis[r].result # "refused" =>
            /\ b.good <= b.lo /\ b.lo < b.hi /\ b.hi <= b.top
            /\ b.clean /\ b.lo # b.good => TRUE \in verdicts[b.lo]
            /\ b.clean /\ b.hi # b.top => FALSE \in verdicts[b.hi]

\* What a test in progress has seen, and which commit it is for.
ProbeInv ==
    \A r \in Runs : LET b == bis[r] IN
        Active(r) =>
            /\ b.stage = "good" => b.probe = b.good /\ b.probes = 0
            /\ b.stage = "search" => b.lo < b.probe /\ b.probe < b.hi
            /\ b.stage = "confirm" => b.probe = b.hi /\ b.lo + 1 = b.hi
            /\ b.pc = "restore" => b.stage = "confirm"
            /\ b.pc = "judge" => b.runs > 0
            /\ b.pc \in {"ci", "judge"} /\ b.clean =>
                  /\ b.passes > 0 => TRUE \in verdicts[b.probe]
                  /\ b.passes < b.runs => FALSE \in verdicts[b.probe]
            /\ b.passes <= b.runs

\* The commit reported did fail, and the one before it did pass or is the
\* good end the user named (main.rs lines 722-749).
ReportIsSound ==
    \A r \in Runs : LET b == bis[r] IN
        b.result = "found" =>
            /\ b.lo + 1 = b.hi
            /\ b.clean => /\ FALSE \in verdicts[b.hi]
                          /\ b.lo = b.good \/ TRUE \in verdicts[b.lo]

\* A bisect gives up only on a commit that passed when tested again.
DoubtInv ==
    \A r \in Runs : LET b == bis[r] IN
        /\ b.result = "unconfirmed" =>
              b.lo + 1 = b.hi /\ (b.clean => TRUE \in verdicts[b.hi])
        /\ b.result \in {"found", "unconfirmed"} => b.pc \in {"restore", "done"}
        /\ b.result \in {"refused", "killed", "aborted"} => b.pc = "done"

\* The inductive invariant of the proofs.
BisectInv == SearchInv /\ ProbeInv /\ ReportIsSound /\ DoubtInv

\* The commit f broke the fixture for good, and no commit is flaky.
BrokenBy(f) == \A c \in Commits : verdicts[c] = {c < f}

\* When one commit of the range broke the fixture for good, bisect ends with
\* that commit (main.rs lines 676-753).
FindsTheRegression ==
    \A r \in Runs : LET b == bis[r] IN
        \A f \in Commits :
            Ended(r) /\ b.clean /\ BrokenBy(f) /\ b.good < f /\ f <= b.top
                => b.result = "found" /\ b.hi = f

\* The loop halves the range: a worker's five minutes bound the number of
\* commits it can search (main.rs lines 699-720).
Logarithmic ==
    \A r \in Runs : LET b == bis[r] IN
        Active(r) => (b.hi - b.lo - 1) * 2 ^ b.probes <= b.top - b.good - 1

\* Every bisect ends.
EveryRunEnds == \A r \in Runs : Active(r) ~> ~Active(r)

=============================================================================
