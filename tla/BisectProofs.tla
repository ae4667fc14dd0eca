---------------------------- MODULE BisectProofs ----------------------------
(***************************************************************************)
(* Proofs about Bisect: the search is sound for every history, number of   *)
(* tries and set of overlapping invocations.                               *)
(***************************************************************************)
EXTENDS Bisect, FiniteSetTheorems, TLAPS

\* The next aim of an invocation is an invocation when its bounds are commits
\* with something between them when the loop goes on (main.rs lines 699-737).
LEMMA AimType ==
    ASSUME NEW b \in Invocation, NEW lo \in Commits, NEW hi \in Commits
    PROVE  Aim(b, lo, hi) \in Invocation
  <1>1. CASE Continues(b, lo, hi)
    <2>1. Middle(lo, hi) \in Commits
      BY <1>1, BisectAssumption, SMT DEF Continues, Middle, Commits
    <2> QED BY <1>1, <2>1 DEF Aim, Invocation, Stages
  <1>2. CASE ~Continues(b, lo, hi)
    BY <1>2 DEF Aim, Invocation, Stages
  <1> QED BY <1>1, <1>2

\* A tested commit moves one of the bounds to it.
LEMMA NarrowedType ==
    ASSUME NEW b \in Invocation
    PROVE  Narrowed(b) \in Invocation
  <1>1. Tested(b) \in Invocation /\ b.probe \in Commits /\ b.lo \in Commits
            /\ b.hi \in Commits
    BY DEF Tested, Invocation
  <1> QED BY <1>1, AimType DEF Narrowed

\* Where the search looks next, and what it keeps.
LEMMA AimSays ==
    ASSUME NEW b \in Invocation, NEW lo \in Commits, NEW hi \in Commits, lo < hi
    PROVE  LET a == Aim(b, lo, hi) IN
           /\ a.pc = "checkout" /\ a.lo = lo /\ a.hi = hi
           /\ a.good = b.good /\ a.top = b.top /\ a.branch = b.branch
           /\ a.clean = b.clean /\ a.result = b.result
           /\ a.runs = b.runs /\ a.passes = b.passes /\ a.probes = b.probes
           /\ \/ a.stage = "search" /\ lo < a.probe /\ a.probe < hi
              \/ a.stage = "confirm" /\ a.probe = hi /\ lo + 1 = hi
  <1>1. CASE Continues(b, lo, hi)
    <2>1. lo < Middle(lo, hi) /\ Middle(lo, hi) < hi
      BY <1>1, BisectAssumption, SMT DEF Continues, Middle, Commits
    <2> QED BY <1>1, <2>1 DEF Aim, Invocation
  <1>2. CASE ~Continues(b, lo, hi)
    <2>1. lo + 1 = hi
      BY <1>2, BisectAssumption, SMT DEF Continues, Commits
    <2> QED BY <1>2, <2>1 DEF Aim, Invocation
  <1> QED BY <1>1, <1>2

\* An invocation's new state is all that has to be typed.
LEMMA UpdateType ==
    ASSUME TypeOK, NEW r \in Runs, NEW b \in Invocation,
           bis' = [bis EXCEPT ![r] = b]
    PROVE  bis' \in [Runs -> Invocation]
  BY DEF TypeOK

\* One more answer keeps an invocation an invocation.
LEMMA RanType ==
    ASSUME NEW b \in Invocation, NEW pass
    PROVE  Ran(b, pass) \in Invocation
  <1> DEFINE runs == b.runs + 1
             passes == IF pass THEN b.passes + 1 ELSE b.passes
             clean == b.clean /\ head = b.probe
             pc == IF b.runs + 1 < Tries(b.stage) THEN "ci" ELSE "judge"
  <1>1. runs \in Nat /\ passes \in Nat
    BY DEF Invocation
  <1>2. clean \in BOOLEAN
    BY DEF Invocation
  <1>3. pc \in {"ci", "judge"}
    OBVIOUS
  <1>4. Ran(b, pass) = [b EXCEPT !.runs = runs, !.passes = passes,
                                 !.clean = clean, !.pc = pc]
    BY DEF Ran, Invocation
  <1> HIDE DEF runs, passes, clean, pc
  <1> QED BY <1>1, <1>2, <1>3, <1>4 DEF Invocation

\* Counting a fault.
LEMMA FaultType ==
    ASSUME TypeOK, NEW kind \in FaultKinds, Fault(kind)
    PROVE  faults' \in [FaultKinds -> Nat]
  BY DEF TypeOK, Fault

\* Types are kept by every step.
LEMMA TypeStep == TypeOK /\ [Next]_vars => TypeOK'
  <1> SUFFICES ASSUME TypeOK, [Next]_vars PROVE TypeOK'
    OBVIOUS
  <1>0. \A r \in Runs : bis[r] \in Invocation
    BY DEF TypeOK
  <1>1. ASSUME NEW r \in Runs, NEW good \in Commits, Start(r, good) PROVE TypeOK'
    <2>1. [Idle EXCEPT !.pc = "checkout", !.good = good, !.top = head,
                       !.branch = attached, !.lo = good, !.hi = head,
                       !.probe = good] \in Invocation
      BY BisectAssumption DEF Idle, Invocation, Stages, Commits, TypeOK
    <2> QED BY <1>1, <2>1 DEF Start, TypeOK
  <1>2. ASSUME NEW r \in Runs, NEW good \in Commits, Refuse(r, good) PROVE TypeOK'
    <2>1. [bis[r] EXCEPT !.pc = "done", !.result = "refused"] \in Invocation
      BY <1>0 DEF Invocation
    <2> QED BY <1>2, <2>1 DEF Refuse, TypeOK
  <1>3. ASSUME NEW r \in Runs, Checkout(r) PROVE TypeOK'
    <2>1. [bis[r] EXCEPT !.pc = "ci", !.runs = 0, !.passes = 0] \in Invocation
      BY <1>0 DEF Invocation
    <2>2. bis' \in [Runs -> Invocation]
      BY <1>3, <2>1, UpdateType DEF Checkout
    <2>3. head' \in Commits /\ attached' \in BOOLEAN
      BY <1>0, <1>3 DEF Checkout, Invocation, TypeOK
    <2>4. faults' \in [FaultKinds -> Nat]
      BY <1>3 DEF Checkout, Fault, TypeOK
    <2> QED BY <1>3, <2>2, <2>3, <2>4 DEF Checkout, TypeOK
  <1>4. ASSUME NEW r \in Runs, RunCi(r) PROVE TypeOK'
    <2>1. PICK pass \in verdicts[head] : bis' = [bis EXCEPT ![r] = Ran(bis[r], pass)]
      BY <1>4 DEF RunCi
    <2>2. Ran(bis[r], pass) \in Invocation
      BY <1>0, RanType
    <2> QED BY <1>4, <2>1, <2>2 DEF RunCi, TypeOK
  <1>5. ASSUME NEW r \in Runs, JudgeGood(r) PROVE TypeOK'
    <2>1. bis[r] \in Invocation /\ bis[r].lo \in Commits /\ bis[r].hi \in Commits
      BY <1>0 DEF Invocation
    <2>2. Aim(bis[r], bis[r].lo, bis[r].hi) \in Invocation
      BY <2>1, AimType
    <2> QED BY <1>5, <2>2 DEF JudgeGood, TypeOK
  <1>6. ASSUME NEW r \in Runs, JudgeSearch(r) PROVE TypeOK'
    BY <1>0, <1>6, NarrowedType DEF JudgeSearch, TypeOK
  <1>7. ASSUME NEW r \in Runs, JudgeConfirm(r) PROVE TypeOK'
    <2>1. [bis[r] EXCEPT !.pc = "restore",
                         !.result = IF Passed(bis[r]) THEN "unconfirmed"
                                                      ELSE "found"] \in Invocation
      BY <1>0 DEF Invocation
    <2> QED BY <1>7, <2>1 DEF JudgeConfirm, TypeOK
  <1>8. ASSUME NEW r \in Runs, Restore(r) PROVE TypeOK'
    <2>1. [bis[r] EXCEPT !.pc = "done"] \in Invocation
      BY <1>0 DEF Invocation
    <2>2. bis' \in [Runs -> Invocation]
      BY <1>8, <2>1, UpdateType DEF Restore
    <2>3. head' \in Commits
      BY <1>0, <1>8, BisectAssumption DEF Restore, Invocation, Commits, TypeOK
    <2>4. attached' \in BOOLEAN
      BY <1>0, <1>8 DEF Restore, Invocation, TypeOK
    <2>5. faults' \in [FaultKinds -> Nat]
      BY <1>8 DEF Restore, Fault, TypeOK
    <2> QED BY <1>8, <2>2, <2>3, <2>4, <2>5 DEF Restore, TypeOK
  <1>9. ASSUME NEW r \in Runs, Kill(r) PROVE TypeOK'
    <2>1. [bis[r] EXCEPT !.pc = "done", !.result = "killed"] \in Invocation
      BY <1>0 DEF Invocation
    <2>2. faults' \in [FaultKinds -> Nat]
      BY <1>9, FaultType DEF Kill, FaultKinds
    <2> QED BY <1>9, <2>1, <2>2 DEF Kill, TypeOK
  <1>10. ASSUME NEW r \in Runs, Abort(r) PROVE TypeOK'
    <2>1. [bis[r] EXCEPT !.pc = "done", !.result = "aborted"] \in Invocation
      BY <1>0 DEF Invocation
    <2>2. bis' \in [Runs -> Invocation]
      BY <1>10, <2>1, UpdateType DEF Abort
    <2>3. head' \in Commits /\ attached' \in BOOLEAN
      BY <1>0, <1>10 DEF Abort, Invocation, TypeOK
    <2> QED BY <1>10, <2>2, <2>3 DEF Abort, TypeOK
  <1>11. UNCHANGED vars => TypeOK'
    BY DEF vars, TypeOK
  <1> QED BY <1>1, <1>2, <1>3, <1>4, <1>5, <1>6, <1>7, <1>8, <1>9, <1>10, <1>11
          DEF Next, Invoke, Step

LEMMA TypeInit == Init => TypeOK
  <1> SUFFICES ASSUME Init PROVE TypeOK
    OBVIOUS
  <1>1. Idle \in Invocation
    BY BisectAssumption DEF Idle, Invocation, Stages, Commits
  <1>2. N \in Commits
    BY BisectAssumption DEF Commits
  <1> QED BY <1>1, <1>2 DEF Init, TypeOK

\* Type correctness: the bounds and the commit under test stay in the history.
THEOREM BisectTypeCorrect == Spec => []TypeOK
  BY TypeInit, TypeStep, PTL DEF Spec

-----------------------------------------------------------------------------
(* The inductive invariant, invocation by invocation.                      *)

Running(b) == b.pc \notin {"idle", "done"}

\* SearchInv, ProbeInv, ReportIsSound and DoubtInv of one invocation b in a
\* history with the verdicts v.
SearchOf(b, v) ==
    b.pc # "idle" /\ b.result # "refused" =>
        /\ b.good <= b.lo /\ b.lo < b.hi /\ b.hi <= b.top
        /\ b.clean /\ b.lo # b.good => TRUE \in v[b.lo]
        /\ b.clean /\ b.hi # b.top => FALSE \in v[b.hi]

AimOf(b) ==
    Running(b) =>
        /\ b.stage = "good" => b.probe = b.good /\ b.probes = 0
        /\ b.stage = "search" => b.lo < b.probe /\ b.probe < b.hi
        /\ b.stage = "confirm" => b.probe = b.hi /\ b.lo + 1 = b.hi
        /\ b.pc = "restore" => b.stage = "confirm"

SeenOf(b, v) ==
    Running(b) =>
        /\ b.pc = "judge" => b.runs > 0
        /\ b.pc \in {"ci", "judge"} /\ b.clean =>
              /\ b.passes > 0 => TRUE \in v[b.probe]
              /\ b.passes < b.runs => FALSE \in v[b.probe]
        /\ b.passes <= b.runs

ResultOf(b, v) ==
    /\ b.result = "found" =>
          /\ b.lo + 1 = b.hi
          /\ b.clean => FALSE \in v[b.hi] /\ (b.lo = b.good \/ TRUE \in v[b.lo])
    /\ b.result = "unconfirmed" =>
          b.lo + 1 = b.hi /\ (b.clean => TRUE \in v[b.hi])
    /\ b.result \in {"found", "unconfirmed"} => b.pc \in {"restore", "done"}
    /\ b.result \in {"refused", "killed", "aborted"} => b.pc = "done"

SoundOf(b, v) == SearchOf(b, v) /\ AimOf(b) /\ SeenOf(b, v) /\ ResultOf(b, v)

AllSound == \A r \in Runs : SoundOf(bis[r], verdicts)

\* The conjuncts of BisectInv, regrouped by invocation.
LEMMA InvIsLocal == BisectInv <=> AllSound
  <1>1. SearchInv <=> \A r \in Runs : SearchOf(bis[r], verdicts)
    BY DEF SearchInv, SearchOf
  <1>2. ProbeInv <=> \A r \in Runs : AimOf(bis[r]) /\ SeenOf(bis[r], verdicts)
    BY DEF ProbeInv, AimOf, SeenOf, Running, Active
  <1>3. ReportIsSound /\ DoubtInv <=> \A r \in Runs : ResultOf(bis[r], verdicts)
    BY DEF ReportIsSound, DoubtInv, ResultOf
  <1> QED BY <1>1, <1>2, <1>3 DEF BisectInv, SoundOf, AllSound

\* The next aim is sound when the bounds are.
LEMMA AimIsSound ==
    ASSUME NEW b \in Invocation, NEW v, NEW lo \in Commits, NEW hi \in Commits,
           b.good <= lo, lo < hi, hi <= b.top,
           b.clean /\ lo # b.good => TRUE \in v[lo],
           b.clean /\ hi # b.top => FALSE \in v[hi],
           b.passes <= b.runs,
           b.result = "none"
    PROVE  SoundOf(Aim(b, lo, hi), v)
  <1> DEFINE a == Aim(b, lo, hi)
  <1>1. /\ a.pc = "checkout" /\ a.lo = lo /\ a.hi = hi
        /\ a.good = b.good /\ a.top = b.top /\ a.branch = b.branch
        /\ a.clean = b.clean /\ a.result = b.result
        /\ a.runs = b.runs /\ a.passes = b.passes /\ a.probes = b.probes
        /\ \/ a.stage = "search" /\ lo < a.probe /\ a.probe < hi
           \/ a.stage = "confirm" /\ a.probe = hi /\ lo + 1 = hi
    BY AimSays
  <1> HIDE DEF a
  <1>2. SearchOf(a, v)
    BY <1>1 DEF SearchOf
  <1>3. AimOf(a)
    BY <1>1 DEF AimOf
  <1>4. SeenOf(a, v)
    BY <1>1 DEF SeenOf
  <1>5. ResultOf(a, v)
    BY <1>1 DEF ResultOf
  <1> QED BY <1>2, <1>3, <1>4, <1>5 DEF SoundOf, a

\* One more answer, seen at the commit under test or not at all.
LEMMA RanIsSound ==
    ASSUME TypeOK, NEW b \in Invocation, NEW pass \in BOOLEAN,
           pass \in verdicts[head], b.pc = "ci", SoundOf(b, verdicts)
    PROVE  SoundOf(Ran(b, pass), verdicts)
  <1> DEFINE a == Ran(b, pass)
  <1>1. /\ a.pc \in {"ci", "judge"} /\ a.runs = b.runs + 1
        /\ a.passes = (IF pass THEN b.passes + 1 ELSE b.passes)
        /\ a.clean <=> (b.clean /\ head = b.probe)
        /\ a.good = b.good /\ a.top = b.top /\ a.lo = b.lo /\ a.hi = b.hi
        /\ a.stage = b.stage /\ a.probe = b.probe /\ a.probes = b.probes
        /\ a.result = b.result
    BY DEF Ran, Invocation
  <1>2. b.runs \in Nat /\ b.passes \in Nat
    BY DEF Invocation
  <1> HIDE DEF a
  <1>3. SearchOf(a, verdicts)
    BY <1>1 DEF SoundOf, SearchOf
  <1>4. AimOf(a)
    BY <1>1 DEF SoundOf, AimOf, Running
  <1>5. SeenOf(a, verdicts)
    <2>1. b.clean => /\ b.passes > 0 => TRUE \in verdicts[b.probe]
                     /\ b.passes < b.runs => FALSE \in verdicts[b.probe]
      BY DEF SoundOf, SeenOf, Running
    <2>2. b.passes <= b.runs
      BY DEF SoundOf, SeenOf, Running
    <2>3. a.runs > 0 /\ a.passes <= a.runs
      BY <1>1, <1>2, <2>2
    <2>4. ASSUME a.clean PROVE a.passes > 0 => TRUE \in verdicts[a.probe]
      <3>1. CASE pass
        BY <1>1, <2>4, <3>1
      <3>2. CASE ~pass
        BY <1>1, <2>1, <2>4, <3>2
      <3> QED BY <3>1, <3>2
    <2>5. ASSUME a.clean, a.passes < a.runs PROVE FALSE \in verdicts[a.probe]
      <3>1. CASE pass
        <4>1. b.passes < b.runs
          BY <1>1, <1>2, <2>5, <3>1
        <4> QED BY <1>1, <2>1, <2>5, <4>1
      <3>2. CASE ~pass
        <4>1. head = a.probe
          BY <1>1, <2>5
        <4>2. pass = FALSE
          BY <3>2
        <4>3. FALSE \in verdicts[head]
          BY <4>2
        <4> QED BY <4>1, <4>3
      <3> QED BY <3>1, <3>2
    <2> QED BY <2>3, <2>4, <2>5 DEF SeenOf
  <1>6. ResultOf(a, verdicts)
    BY <1>1 DEF SoundOf, ResultOf
  <1> QED BY <1>3, <1>4, <1>5, <1>6 DEF SoundOf, a

\* A judged commit becomes a bound that is known.
LEMMA NarrowedIsSound ==
    ASSUME NEW b \in Invocation, NEW v, SoundOf(b, v),
           b.pc = "judge", b.stage = "search"
    PROVE  SoundOf(Narrowed(b), v)
  <1> DEFINE t == Tested(b)
  <1>1. /\ t \in Invocation /\ t.good = b.good /\ t.top = b.top
        /\ t.clean = b.clean /\ t.passes = b.passes /\ t.runs = b.runs
        /\ t.result = b.result
    BY DEF Tested, Invocation
  <1>2. b.lo \in Commits /\ b.hi \in Commits /\ b.probe \in Commits
    BY DEF Invocation
  <1>3. /\ b.good \in Int /\ b.top \in Int /\ b.lo \in Int /\ b.hi \in Int
        /\ b.probe \in Int /\ b.passes \in Nat /\ b.runs \in Nat
    BY BisectAssumption DEF Invocation, Commits
  <1>4. b.result = "none"
    BY DEF SoundOf, ResultOf, Invocation
  <1>5. /\ b.lo < b.probe /\ b.probe < b.hi /\ b.runs > 0
        /\ b.passes <= b.runs
        /\ b.clean => /\ b.passes > 0 => TRUE \in v[b.probe]
                      /\ b.passes < b.runs => FALSE \in v[b.probe]
    BY DEF SoundOf, AimOf, SeenOf, Running
  <1>6. /\ b.good <= b.lo /\ b.hi <= b.top
        /\ b.clean /\ b.lo # b.good => TRUE \in v[b.lo]
        /\ b.clean /\ b.hi # b.top => FALSE \in v[b.hi]
    BY <1>4 DEF SoundOf, SearchOf
  <1> HIDE DEF t
  <1>7. CASE Passed(b)
    <2>1. t.good <= b.probe /\ b.probe < b.hi /\ b.hi <= t.top
      BY <1>1, <1>3, <1>5, <1>6
    <2>2. t.clean /\ b.probe # t.good => TRUE \in v[b.probe]
      BY <1>1, <1>5, <1>7 DEF Passed
    <2>3. t.clean /\ b.hi # t.top => FALSE \in v[b.hi]
      BY <1>1, <1>6
    <2>4. SoundOf(Aim(t, b.probe, b.hi), v)
      BY <1>1, <1>2, <1>4, <1>5, <2>1, <2>2, <2>3, AimIsSound
    <2> QED BY <1>7, <2>4 DEF Narrowed, t
  <1>8. CASE ~Passed(b)
    <2>1. t.good <= b.lo /\ b.lo < b.probe /\ b.probe <= t.top
      BY <1>1, <1>3, <1>5, <1>6
    <2>2. t.clean /\ b.lo # t.good => TRUE \in v[b.lo]
      BY <1>1, <1>6
    <2>3. t.clean /\ b.probe # t.top => FALSE \in v[b.probe]
      <3>1. b.passes < b.runs
        BY <1>3, <1>5, <1>8 DEF Passed
      <3> QED BY <1>1, <1>5, <3>1
    <2>4. SoundOf(Aim(t, b.lo, b.probe), v)
      BY <1>1, <1>2, <1>4, <1>5, <2>1, <2>2, <2>3, AimIsSound
    <2> QED BY <1>8, <2>4 DEF Narrowed, t
  <1> QED BY <1>7, <1>8

\* The confirmation decides between a report and a doubt.
LEMMA ConfirmedIsSound ==
    ASSUME NEW b \in Invocation, NEW v, SoundOf(b, v),
           b.pc = "judge", b.stage = "confirm"
    PROVE  SoundOf([b EXCEPT !.pc = "restore",
                             !.result = IF Passed(b) THEN "unconfirmed"
                                                     ELSE "found"], v)
  <1> DEFINE a == [b EXCEPT !.pc = "restore",
                            !.result = IF Passed(b) THEN "unconfirmed"
                                                    ELSE "found"]
  <1>1. /\ a.pc = "restore" /\ a.good = b.good /\ a.top = b.top
        /\ a.lo = b.lo /\ a.hi = b.hi /\ a.stage = b.stage
        /\ a.probe = b.probe /\ a.probes = b.probes /\ a.runs = b.runs
        /\ a.passes = b.passes /\ a.clean = b.clean
        /\ a.result = IF Passed(b) THEN "unconfirmed" ELSE "found"
    BY DEF Invocation
  <1>2. /\ b.good \in Int /\ b.top \in Int /\ b.lo \in Int /\ b.hi \in Int
        /\ b.probe \in Int /\ b.passes \in Nat /\ b.runs \in Nat
    BY BisectAssumption DEF Invocation, Commits
  <1>3. /\ b.probe = b.hi /\ b.lo + 1 = b.hi /\ b.runs > 0
        /\ b.passes <= b.runs
        /\ b.clean => /\ b.passes > 0 => TRUE \in v[b.hi]
                      /\ b.passes < b.runs => FALSE \in v[b.hi]
    BY DEF SoundOf, AimOf, SeenOf, Running
  <1> HIDE DEF a
  <1>5. AimOf(a)
    BY <1>1, <1>3 DEF SoundOf, AimOf, Running
  <1>6. SeenOf(a, v)
    BY <1>1, <1>3 DEF SeenOf
  <1>7. /\ b.clean /\ b.lo # b.good => TRUE \in v[b.lo]
        /\ b.result = "none"
    BY DEF SoundOf, SearchOf, ResultOf, Invocation
  <1>8. ResultOf(a, v)
    <2>1. CASE Passed(b)
      BY <1>1, <1>2, <1>3, <2>1 DEF ResultOf, Passed
    <2>2. CASE ~Passed(b)
      <3>1. b.passes < b.runs
        BY <1>2, <1>3, <2>2 DEF Passed
      <3>2. a.result = "found" /\ a.pc = "restore"
        BY <1>1, <2>2
      <3>3. a.lo + 1 = a.hi
        BY <1>1, <1>3
      <3>4. a.clean => FALSE \in v[a.hi]
        BY <1>1, <1>3, <3>1
      <3>5. a.clean => a.lo = a.good \/ TRUE \in v[a.lo]
        BY <1>1, <1>7
      <3> QED BY <3>2, <3>3, <3>4, <3>5 DEF ResultOf
    <2> QED BY <2>1, <2>2
  <1>9. SearchOf(a, v)
    BY <1>1, <1>7 DEF SoundOf, SearchOf
  <1> QED BY <1>5, <1>6, <1>8, <1>9 DEF SoundOf, a

\* Only the invocation that moves has to be looked at.
LEMMA Locally ==
    ASSUME TypeOK, AllSound, NEW r \in Runs, NEW b,
           bis' = [bis EXCEPT ![r] = b], verdicts' = verdicts,
           SoundOf(b, verdicts)
    PROVE  AllSound'
  BY DEF TypeOK, AllSound

LEMMA AllSoundInit == Init => AllSound
  <1>1. SoundOf(Idle, verdicts)
    BY DEF Idle, SoundOf, SearchOf, AimOf, SeenOf, ResultOf, Running
  <1> QED BY <1>1 DEF Init, AllSound

\* Every step of every invocation keeps all of them sound.
LEMMA AllSoundStep == TypeOK /\ AllSound /\ [Next]_vars => AllSound'
  <1> SUFFICES ASSUME TypeOK, AllSound, [Next]_vars PROVE AllSound'
    OBVIOUS
  <1>0. ASSUME NEW r \in Runs
        PROVE  bis[r] \in Invocation /\ SoundOf(bis[r], verdicts)
    BY DEF TypeOK, AllSound
  <1>1. ASSUME NEW r \in Runs, NEW good \in Commits, Start(r, good)
        PROVE  AllSound'
    <2> DEFINE b == [Idle EXCEPT !.pc = "checkout", !.good = good, !.top = head,
                                 !.branch = attached, !.lo = good, !.hi = head,
                                 !.probe = good]
    <2>1. good < head
      BY <1>1 DEF Start
    <2>2. SearchOf(b, verdicts)
      BY <2>1, BisectAssumption DEF Idle, SearchOf, TypeOK, Commits
    <2>3. AimOf(b)
      BY DEF Idle, AimOf
    <2>4. SeenOf(b, verdicts)
      BY DEF Idle, SeenOf
    <2>5. ResultOf(b, verdicts)
      BY DEF Idle, ResultOf
    <2> QED BY <1>1, <2>2, <2>3, <2>4, <2>5, Locally DEF Start, SoundOf
  <1>2. ASSUME NEW r \in Runs, NEW good \in Commits, Refuse(r, good)
        PROVE  AllSound'
    <2> DEFINE b == [bis[r] EXCEPT !.pc = "done", !.result = "refused"]
    <2>1. b.pc = "done" /\ b.result = "refused"
      BY <1>0 DEF Invocation
    <2> HIDE DEF b
    <2>2. SoundOf(b, verdicts)
      BY <2>1 DEF SoundOf, SearchOf, AimOf, SeenOf, ResultOf, Running
    <2> USE DEF b
    <2> QED BY <1>2, <2>2, Locally DEF Refuse
  <1>3. ASSUME NEW r \in Runs, Checkout(r) PROVE AllSound'
    <2> DEFINE b == [bis[r] EXCEPT !.pc = "ci", !.runs = 0, !.passes = 0]
    <2>1. /\ b.pc = "ci" /\ b.runs = 0 /\ b.passes = 0
          /\ b.good = bis[r].good /\ b.top = bis[r].top /\ b.lo = bis[r].lo
          /\ b.hi = bis[r].hi /\ b.stage = bis[r].stage
          /\ b.probe = bis[r].probe /\ b.probes = bis[r].probes
          /\ b.clean = bis[r].clean /\ b.result = bis[r].result
      BY <1>0 DEF Invocation
    <2>2. bis[r].pc = "checkout" /\ SoundOf(bis[r], verdicts)
      BY <1>0, <1>3 DEF Checkout
    <2> HIDE DEF b
    <2>3. SearchOf(b, verdicts)
      BY <2>1, <2>2 DEF SoundOf, SearchOf
    <2>4. AimOf(b)
      BY <2>1, <2>2 DEF SoundOf, AimOf, Running
    <2>5. SeenOf(b, verdicts)
      BY <2>1 DEF SeenOf
    <2>6. ResultOf(b, verdicts)
      BY <2>1, <2>2 DEF SoundOf, ResultOf
    <2> USE DEF b
    <2> QED BY <1>3, <2>3, <2>4, <2>5, <2>6, Locally DEF Checkout, SoundOf
  <1>4. ASSUME NEW r \in Runs, RunCi(r) PROVE AllSound'
    <2>1. PICK pass \in verdicts[head] : bis' = [bis EXCEPT ![r] = Ran(bis[r], pass)]
      BY <1>4 DEF RunCi
    <2> DEFINE b == Ran(bis[r], pass)
    <2>2. bis[r].pc = "ci"
      BY <1>4 DEF RunCi
    <2>3. pass \in BOOLEAN
      BY DEF TypeOK
    <2>4. SoundOf(b, verdicts)
      BY <1>0, <2>1, <2>2, <2>3, RanIsSound
    <2> QED BY <1>4, <2>1, <2>4, Locally DEF RunCi
  <1>5. ASSUME NEW r \in Runs, JudgeGood(r) PROVE AllSound'
    <2> DEFINE b == bis[r]
    <2>1. /\ b \in Invocation /\ b.lo \in Commits /\ b.hi \in Commits
          /\ b.pc = "judge"
      BY <1>0, <1>5 DEF JudgeGood, Invocation
    <2>2. SoundOf(b, verdicts)
      BY <1>0
    <2>3. b.result = "none"
      BY <2>1, <2>2 DEF SoundOf, ResultOf, Invocation
    <2>4. SoundOf(Aim(b, b.lo, b.hi), verdicts)
      BY <2>1, <2>2, <2>3, AimIsSound DEF SoundOf, SearchOf, SeenOf, Running
    <2> QED BY <1>5, <2>4, Locally DEF JudgeGood
  <1>6. ASSUME NEW r \in Runs, JudgeSearch(r) PROVE AllSound'
    <2>1. SoundOf(Narrowed(bis[r]), verdicts)
      BY <1>0, <1>6, NarrowedIsSound DEF JudgeSearch
    <2> QED BY <1>6, <2>1, Locally DEF JudgeSearch
  <1>7. ASSUME NEW r \in Runs, JudgeConfirm(r) PROVE AllSound'
    <2>1. SoundOf([bis[r] EXCEPT !.pc = "restore",
                         !.result = IF Passed(bis[r]) THEN "unconfirmed"
                                                      ELSE "found"], verdicts)
      BY <1>0, <1>7, ConfirmedIsSound DEF JudgeConfirm
    <2> QED BY <1>7, <2>1, Locally DEF JudgeConfirm
  <1>8. ASSUME NEW r \in Runs, Restore(r) PROVE AllSound'
    <2>1. SoundOf([bis[r] EXCEPT !.pc = "done"], verdicts)
      BY <1>0, <1>8 DEF SoundOf, SearchOf, AimOf, SeenOf, ResultOf, Running,
                        Restore, Invocation
    <2> QED BY <1>8, <2>1, Locally DEF Restore
  <1>9. ASSUME NEW r \in Runs, Kill(r) PROVE AllSound'
    <2>1. SoundOf([bis[r] EXCEPT !.pc = "done", !.result = "killed"], verdicts)
      BY <1>0, <1>9 DEF SoundOf, SearchOf, AimOf, SeenOf, ResultOf, Running,
                        Kill, Active, Invocation
    <2> QED BY <1>9, <2>1, Locally DEF Kill
  <1>10. ASSUME NEW r \in Runs, Abort(r) PROVE AllSound'
    <2>1. SoundOf([bis[r] EXCEPT !.pc = "done", !.result = "aborted"], verdicts)
      BY <1>0, <1>10 DEF SoundOf, SearchOf, AimOf, SeenOf, ResultOf, Running,
                         Abort, Prints, Invocation
    <2> QED BY <1>10, <2>1, Locally DEF Abort
  <1>11. UNCHANGED vars => AllSound'
    BY DEF vars, AllSound
  <1> QED BY <1>1, <1>2, <1>3, <1>4, <1>5, <1>6, <1>7, <1>8, <1>9, <1>10, <1>11
          DEF Next, Invoke, Step

\* The bounds, the test in progress and the result are sound at every step of
\* every bisect, whatever overlaps, fails or is killed.
THEOREM BisectSafe == Spec => []BisectInv
  <1>1. Spec => []TypeOK
    BY BisectTypeCorrect
  <1>2. Spec => []AllSound
    BY <1>1, AllSoundInit, AllSoundStep, PTL DEF Spec
  <1> QED BY <1>2, InvIsLocal, PTL

\* The commit that is reported failed, and the one before it passed or is the
\* good end, if every test ran at the commit it was for.
THEOREM ReportsAreSound == Spec => []ReportIsSound
  <1>1. BisectInv => ReportIsSound
    BY DEF BisectInv
  <1> QED BY <1>1, BisectSafe, PTL

\* A regression that one commit of the range introduced for good is found.
THEOREM RegressionIsFound == Spec => []FindsTheRegression
  <1>1. ASSUME TypeOK, AllSound, NEW r \in Runs, NEW f \in Commits,
               Ended(r), bis[r].clean, BrokenBy(f), bis[r].good < f,
               f <= bis[r].top
        PROVE  bis[r].result = "found" /\ bis[r].hi = f
    <2> DEFINE b == bis[r]
    <2>1. /\ b \in Invocation /\ b.lo \in Commits /\ b.hi \in Commits
          /\ SoundOf(b, verdicts) /\ b.lo \in Int /\ b.hi \in Int /\ f \in Int
      BY <1>1, BisectAssumption DEF TypeOK, AllSound, Invocation, Commits
    <2>2. \A c \in Commits : verdicts[c] = {c < f}
      BY <1>1 DEF BrokenBy
    <2>3. b.lo + 1 = b.hi /\ b.good <= b.lo
      BY <1>1, <2>1 DEF Ended, SoundOf, SearchOf, ResultOf
    <2>4. b.lo < f
      <3>1. CASE b.lo = b.good
        BY <1>1, <3>1
      <3>2. CASE b.lo # b.good
        <4>1. TRUE \in verdicts[b.lo]
          BY <1>1, <2>1, <3>2 DEF Ended, SoundOf, SearchOf
        <4>2. (b.lo < f) = TRUE
          BY <2>1, <2>2, <4>1
        <4> QED BY <4>2
      <3> QED BY <3>1, <3>2
    <2>5. f <= b.hi
      <3>1. CASE b.hi = b.top
        BY <1>1, <3>1
      <3>2. CASE b.hi # b.top
        <4>1. FALSE \in verdicts[b.hi]
          BY <1>1, <2>1, <3>2 DEF Ended, SoundOf, SearchOf
        <4>2. (b.hi < f) = FALSE
          BY <2>1, <2>2, <4>1
        <4> QED BY <2>1, <4>2
      <3> QED BY <3>1, <3>2
    <2>6. b.hi = f
      BY <2>1, <2>3, <2>4, <2>5
    <2>7. b.result # "unconfirmed"
      <3> SUFFICES ASSUME b.result = "unconfirmed" PROVE FALSE
        OBVIOUS
      <3>1. TRUE \in verdicts[b.hi]
        BY <1>1, <2>1 DEF SoundOf, ResultOf
      <3>2. (b.hi < f) = TRUE
        BY <2>1, <2>2, <3>1
      <3> QED BY <2>1, <2>6, <3>2
    <2> QED BY <1>1, <2>6, <2>7 DEF Ended
  <1>2. TypeOK /\ AllSound => FindsTheRegression
    BY <1>1 DEF FindsTheRegression
  <1>3. BisectInv => AllSound
    BY InvIsLocal
  <1> QED BY <1>2, <1>3, BisectTypeCorrect, BisectSafe, PTL

-----------------------------------------------------------------------------
(* The search is logarithmic.                                              *)

\* A set with one more element has twice as many subsets.
LEMMA Doubles == ASSUME NEW n \in Nat PROVE 2^(n + 1) = 2 * 2^n /\ 2^n \in Nat
  <1> DEFINE S == 1 .. n
             x == n + 1
             with == {A \cup {x} : A \in SUBSET S}
  <1>1. IsFiniteSet(S) /\ Cardinality(S) = n
    BY FS_Interval
  <1>2. x \notin S
    OBVIOUS
  <1>3. IsFiniteSet(S \cup {x}) /\ Cardinality(S \cup {x}) = n + 1
    BY <1>1, <1>2, FS_AddElement
  <1> HIDE DEF S, x
  <1>4. IsFiniteSet(SUBSET S) /\ Cardinality(SUBSET S) = 2^n
    BY <1>1, FS_SUBSET
  <1>5. Cardinality(SUBSET (S \cup {x})) = 2^(n + 1)
    BY <1>3, FS_SUBSET
  <1>6. IsFiniteSet(with) /\ Cardinality(with) = 2^n
    <2> DEFINE f == [A \in SUBSET S |-> A \cup {x}]
    <2>1. f \in Bijection(SUBSET S, with)
      <3>1. f \in [SUBSET S -> with]
        OBVIOUS
      <3>2. \A A, B \in SUBSET S : f[A] = f[B] => A = B
        <4> SUFFICES ASSUME NEW A \in SUBSET S, NEW B \in SUBSET S, A \cup {x} = B \cup {x}
                     PROVE  A = B
          OBVIOUS
        <4>1. A = (A \cup {x}) \ {x} /\ B = (B \cup {x}) \ {x}
          BY <1>2
        <4> QED BY <4>1
      <3>3. \A t \in with : \E A \in SUBSET S : f[A] = t
        OBVIOUS
      <3> QED BY <3>1, <3>2, <3>3 DEF Bijection, Injection, Surjection, IsInjective
    <2>2. ExistsBijection(SUBSET S, with)
      BY <2>1 DEF ExistsBijection
    <2> QED BY <1>4, <2>2, FS_Bijection
  <1>7. SUBSET (S \cup {x}) = (SUBSET S) \cup with
    <2>1. ASSUME NEW A \in SUBSET (S \cup {x}), x \in A PROVE A \in with
      <3>1. A \ {x} \in SUBSET S /\ A = (A \ {x}) \cup {x}
        BY <2>1
      <3> QED BY <3>1
    <2>2. ASSUME NEW A \in SUBSET (S \cup {x}), x \notin A PROVE A \in SUBSET S
      BY <2>2
    <2>3. with \subseteq SUBSET (S \cup {x})
      OBVIOUS
    <2> HIDE DEF with
    <2>4. ASSUME NEW A \in SUBSET (S \cup {x}) PROVE A \in (SUBSET S) \cup with
      <3>1. CASE x \in A
        BY <2>1, <3>1
      <3>2. CASE x \notin A
        BY <2>2, <3>2
      <3> QED BY <3>1, <3>2
    <2>5. ASSUME NEW A \in (SUBSET S) \cup with PROVE A \in SUBSET (S \cup {x})
      <3>1. CASE A \in SUBSET S
        BY <3>1
      <3>2. CASE A \in with
        BY <2>3, <3>2
      <3> QED BY <3>1, <3>2
    <2> QED BY <2>4, <2>5, Zenon
  <1>8. (SUBSET S) \cap with = {}
    <2> SUFFICES ASSUME NEW A \in with, A \in SUBSET S PROVE FALSE
      OBVIOUS
    <2>1. x \in A
      OBVIOUS
    <2> QED BY <1>2, <2>1
  <1> HIDE DEF with
  <1>9. 2^n \in Nat
    BY <1>4, FS_CardinalityType
  <1>10. Cardinality((SUBSET S) \cup with)
           = Cardinality(SUBSET S) + Cardinality(with) - Cardinality((SUBSET S) \cap with)
    BY <1>4, <1>6, FS_Union
  <1>11. Cardinality((SUBSET S) \cap with) = 0
    BY <1>8, FS_EmptySet
  <1>12. 2^(n + 1) = 2^n + 2^n - 0
    BY <1>4, <1>5, <1>6, <1>7, <1>10, <1>11
  <1> QED BY <1>9, <1>12

\* No test leaves all of the range.
LEMMA NoDouble == 2^0 = 1
  <1>1. IsFiniteSet({}) /\ Cardinality({}) = 0
    BY FS_EmptySet
  <1>2. Cardinality(SUBSET {}) = 2^0
    BY <1>1, FS_SUBSET
  <1>3. SUBSET {} = {{}}
    OBVIOUS
  <1> QED BY <1>2, <1>3, FS_Singleton

\* A test of a middle commit leaves less than half of the range.
LEMMA Halves ==
    ASSUME NEW lo \in Int, NEW hi \in Int
    PROVE  /\ 2 * (hi - Middle(lo, hi) - 1) <= hi - lo - 1
           /\ 2 * (Middle(lo, hi) - lo - 1) <= hi - lo - 1
  BY DEF Middle

\* Half of the range, twice as many tests.
LEMMA Scale ==
    ASSUME NEW a \in Int, NEW b \in Int, NEW c \in Int, NEW p \in Nat,
           2 * a <= b, b * p <= c
    PROVE  a * (2 * p) <= c
  <1>1. (2 * a) * p <= b * p
    BY Z3
  <1>2. a * (2 * p) = (2 * a) * p
    BY Z3
  <1> QED BY <1>1, <1>2

\* The search tests the middle of what is left, and what is left is small.
ShrinkOf(b) ==
    Running(b) =>
        /\ b.stage = "search" => b.probe = Middle(b.lo, b.hi)
        /\ (b.hi - b.lo - 1) * 2 ^ b.probes <= b.top - b.good - 1

AllShrink == \A r \in Runs : ShrinkOf(bis[r])

LEMMA AimShrinks ==
    ASSUME NEW b \in Invocation, NEW lo \in Commits, NEW hi \in Commits,
           (hi - lo - 1) * 2 ^ b.probes <= b.top - b.good - 1
    PROVE  ShrinkOf(Aim(b, lo, hi))
  <1> DEFINE a == Aim(b, lo, hi)
  <1>1. /\ a.lo = lo /\ a.hi = hi /\ a.good = b.good /\ a.top = b.top
        /\ a.probes = b.probes
        /\ a.stage = "search" => a.probe = Middle(lo, hi)
    BY DEF Aim, Invocation
  <1> HIDE DEF a
  <1> QED BY <1>1 DEF ShrinkOf, a

LEMMA NarrowedShrinks ==
    ASSUME NEW b \in Invocation, b.pc = "judge", b.stage = "search", ShrinkOf(b)
    PROVE  ShrinkOf(Narrowed(b))
  <1> DEFINE t == Tested(b)
  <1>1. /\ t \in Invocation /\ t.good = b.good /\ t.top = b.top
        /\ t.probes = b.probes + 1
    BY DEF Tested, Invocation
  <1>2. /\ b.lo \in Commits /\ b.hi \in Commits /\ b.probe \in Commits
        /\ b.lo \in Int /\ b.hi \in Int /\ b.probes \in Nat
        /\ b.top \in Int /\ b.good \in Int
    BY BisectAssumption DEF Invocation, Commits
  <1>3. /\ b.probe = Middle(b.lo, b.hi)
        /\ (b.hi - b.lo - 1) * 2 ^ b.probes <= b.top - b.good - 1
    BY DEF ShrinkOf, Running
  <1>4. 2 ^ (b.probes + 1) = 2 * 2 ^ b.probes /\ 2 ^ b.probes \in Nat
    BY <1>2, Doubles
  <1>5. b.probe \in Int
    BY <1>2, BisectAssumption DEF Commits
  <1>6. /\ 2 * (b.hi - b.probe - 1) <= b.hi - b.lo - 1
        /\ 2 * (b.probe - b.lo - 1) <= b.hi - b.lo - 1
    BY <1>2, <1>3, Halves
  <1> HIDE DEF t
  <1>7. (b.hi - b.probe - 1) * 2 ^ t.probes <= t.top - t.good - 1
    <2> DEFINE x == b.hi - b.probe - 1
               y == b.hi - b.lo - 1
               z == b.top - b.good - 1
               p == 2 ^ b.probes
    <2>1. x \in Int /\ y \in Int /\ z \in Int /\ p \in Nat /\ 2 * x <= y /\ y * p <= z
      BY <1>2, <1>3, <1>4, <1>5, <1>6
    <2> HIDE DEF x, y, z, p
    <2>2. x * (2 * p) <= z
      BY <2>1, Scale
    <2> QED BY <1>1, <1>4, <2>2 DEF x, y, z, p
  <1>8. (b.probe - b.lo - 1) * 2 ^ t.probes <= t.top - t.good - 1
    <2> DEFINE x == b.probe - b.lo - 1
               y == b.hi - b.lo - 1
               z == b.top - b.good - 1
               p == 2 ^ b.probes
    <2>1. x \in Int /\ y \in Int /\ z \in Int /\ p \in Nat /\ 2 * x <= y /\ y * p <= z
      BY <1>2, <1>3, <1>4, <1>5, <1>6
    <2> HIDE DEF x, y, z, p
    <2>2. x * (2 * p) <= z
      BY <2>1, Scale
    <2> QED BY <1>1, <1>4, <2>2 DEF x, y, z, p
  <1> QED BY <1>1, <1>2, <1>7, <1>8, AimShrinks DEF Narrowed, t

\* Every step of every bisect keeps what is left small.
LEMMA AllShrinkStep ==
    TypeOK /\ AllSound /\ AllShrink /\ [Next]_vars => AllShrink'
  <1> SUFFICES ASSUME TypeOK, AllSound, AllShrink, [Next]_vars PROVE AllShrink'
    OBVIOUS
  <1>0. ASSUME NEW r \in Runs
        PROVE  bis[r] \in Invocation /\ ShrinkOf(bis[r])
    BY DEF TypeOK, AllShrink
  <1>1. ASSUME NEW r \in Runs, NEW b, bis' = [bis EXCEPT ![r] = b], ShrinkOf(b)
        PROVE  AllShrink'
    BY <1>1 DEF TypeOK, AllShrink
  <1>2. ASSUME NEW r \in Runs, NEW good \in Commits, Start(r, good) PROVE AllShrink'
    <2> DEFINE b == [Idle EXCEPT !.pc = "checkout", !.good = good, !.top = head,
                                 !.branch = attached, !.lo = good, !.hi = head,
                                 !.probe = good]
    <2>1. /\ b.stage = "good" /\ b.lo = good /\ b.hi = head /\ b.good = good
          /\ b.top = head /\ b.probes = 0
      BY DEF Idle
    <2>2. head - good - 1 \in Int
      BY BisectAssumption DEF TypeOK, Commits
    <2>3. bis' = [bis EXCEPT ![r] = b]
      BY <1>2 DEF Start
    <2> HIDE DEF b
    <2>4. (b.hi - b.lo - 1) * 2 ^ b.probes <= b.top - b.good - 1
      BY <2>1, <2>2, NoDouble
    <2> QED BY <1>1, <2>1, <2>3, <2>4 DEF ShrinkOf
  <1>3. ASSUME NEW r \in Runs, NEW b, bis' = [bis EXCEPT ![r] = b],
               b.lo = bis[r].lo, b.hi = bis[r].hi, b.good = bis[r].good,
               b.top = bis[r].top, b.probes = bis[r].probes, b.stage = bis[r].stage,
               b.probe = bis[r].probe, Running(b) => Running(bis[r])
        PROVE  AllShrink'
    <2>1. ShrinkOf(b)
      BY <1>0, <1>3 DEF ShrinkOf
    <2> QED BY <1>1, <1>3, <2>1
  <1>4. ASSUME NEW r \in Runs, NEW good \in Commits, Refuse(r, good) PROVE AllShrink'
    BY <1>0, <1>3, <1>4 DEF Refuse, Invocation, Running
  <1>5. ASSUME NEW r \in Runs, Checkout(r) PROVE AllShrink'
    BY <1>0, <1>3, <1>5 DEF Checkout, Invocation, Running
  <1>6. ASSUME NEW r \in Runs, RunCi(r) PROVE AllShrink'
    <2>1. PICK pass \in verdicts[head] : bis' = [bis EXCEPT ![r] = Ran(bis[r], pass)]
      BY <1>6 DEF RunCi
    <2> DEFINE b == Ran(bis[r], pass)
    <2>2. /\ b.lo = bis[r].lo /\ b.hi = bis[r].hi /\ b.good = bis[r].good
          /\ b.top = bis[r].top /\ b.probes = bis[r].probes
          /\ b.stage = bis[r].stage /\ b.probe = bis[r].probe
      BY <1>0 DEF Ran, Invocation
    <2>3. Running(bis[r])
      BY <1>6 DEF RunCi, Running
    <2> QED BY <1>3, <2>1, <2>2, <2>3
  <1>7. ASSUME NEW r \in Runs, JudgeGood(r) PROVE AllShrink'
    <2>1. /\ bis[r].lo \in Commits /\ bis[r].hi \in Commits
          /\ (bis[r].hi - bis[r].lo - 1) * 2 ^ bis[r].probes
                <= bis[r].top - bis[r].good - 1
      BY <1>0, <1>7 DEF JudgeGood, Invocation, ShrinkOf, Running
    <2> QED BY <1>0, <1>1, <1>7, <2>1, AimShrinks DEF JudgeGood
  <1>8. ASSUME NEW r \in Runs, JudgeSearch(r) PROVE AllShrink'
    BY <1>0, <1>1, <1>8, NarrowedShrinks DEF JudgeSearch
  <1>9. ASSUME NEW r \in Runs, JudgeConfirm(r) PROVE AllShrink'
    BY <1>0, <1>3, <1>9 DEF JudgeConfirm, Invocation, Running
  <1>10. ASSUME NEW r \in Runs, Restore(r) \/ Kill(r) \/ Abort(r) PROVE AllShrink'
    BY <1>0, <1>3, <1>10 DEF Restore, Kill, Abort, Invocation, Running
  <1>11. UNCHANGED vars => AllShrink'
    BY DEF vars, AllShrink
  <1> QED BY <1>2, <1>4, <1>5, <1>6, <1>7, <1>8, <1>9, <1>10, <1>11
          DEF Next, Invoke, Step

\* The loop halves the range, whatever is tested: what is left times two to the
\* number of tests is at most what there was.
THEOREM SearchIsLogarithmic == Spec => []Logarithmic
  <1>1. Init => AllShrink
    BY DEF Init, Idle, AllShrink, ShrinkOf, Running
  <1>2. Spec => []AllSound
    BY AllSoundInit, AllSoundStep, BisectTypeCorrect, PTL DEF Spec
  <1>3. AllShrink => Logarithmic
    BY DEF AllShrink, ShrinkOf, Logarithmic, Running, Active
  <1> QED BY <1>1, <1>2, <1>3, AllShrinkStep, BisectTypeCorrect, PTL DEF Spec

=============================================================================
