---------------------------- MODULE ReplayProofs ----------------------------
(***************************************************************************)
(* Proofs about Replay, for every agent, with any number of threads and    *)
(* any answers of the provider.                                            *)
(***************************************************************************)
EXTENDS Replay, FiniteSetTheorems, SequenceTheorems, WellFoundedInduction, TLAPS

-----------------------------------------------------------------------------
(* Numbers. *)

\* A set of numbers has a least one.
LEMMA Least ==
    ASSUME NEW T, T \subseteq Nat, T # {}
    PROVE  \E m \in T : \A k \in T : m <= k
<1> DEFINE R == {p \in Nat \X Nat : p[1] < p[2]}
<1>1. IsWellFoundedOn(R, Nat)
    BY NatLessThanWellFounded DEF OpToRel
<1>2. PICK m \in T : \A k \in T : ~ (<<k, m>> \in R)
    <2> HIDE DEF R
    <2> QED BY <1>1, WFMin
<1>3. \A k \in T : ~ (k < m)
    BY <1>2
<1> QED BY <1>3

\* So a set that 0 is in, and n + 1 with every n, has all numbers up to a bound.
LEMMA Induction ==
    ASSUME NEW N \in Nat, NEW P, 0 \in P, \A n \in 0 .. N - 1 : n \in P => n + 1 \in P
    PROVE  0 .. N \subseteq P
<1> DEFINE T == (0 .. N) \ P
<1> SUFFICES ASSUME T # {} PROVE FALSE
    OBVIOUS
<1>1. PICK m \in T : \A k \in T : m <= k
    <2>1. T \subseteq Nat
        OBVIOUS
    <2> HIDE DEF T
    <2> QED BY <2>1, Least
<1>2. m # 0 /\ m - 1 \in 0 .. N - 1
    OBVIOUS
<1>3. m - 1 \in P
    BY <1>1, <1>2
<1> QED BY <1>2, <1>3

-----------------------------------------------------------------------------
(* Sums. *)

\* g has the sums of the beginnings of ns.
Sums(g, ns) ==
    /\ g \in [0 .. Len(ns) -> Int]
    /\ g[0] = 0
    /\ \A n \in 1 .. Len(ns) : g[n] = g[n - 1] + ns[n]

\* The recursive function in Total is defined for every sequence.
LEMMA TotalIsASum ==
    ASSUME NEW ns \in Seq(Int)
    PROVE  \E g : Sums(g, ns) /\ Total(ns) = g[Len(ns)]
<1> DEFINE N == Len(ns)
           Upto(g, n) == /\ g \in [0 .. n -> Int] /\ g[0] = 0
                         /\ \A i \in 1 .. n : g[i] = g[i - 1] + ns[i]
           P == {n \in 0 .. N : \E g : Upto(g, n)}
           F(g) == [n \in 0 .. N |-> IF n = 0 THEN 0 ELSE g[n - 1] + ns[n]]
           sum == CHOOSE g : g = F(g)
<1>1. N \in Nat /\ \A i \in 1 .. N : ns[i] \in Int
    BY LenProperties, ElementOfSeq
<1>2. 0 \in P
    <2>1. Upto([i \in 0 .. 0 |-> 0], 0)
        OBVIOUS
    <2>2. \E g : Upto(g, 0)
        <3> HIDE DEF Upto
        <3> QED BY <2>1
    <2> QED BY <2>2, <1>1
<1>3. ASSUME NEW n \in 0 .. N - 1, n \in P PROVE n + 1 \in P
    <2>1. PICK g : Upto(g, n)
        BY <1>3
    <2> DEFINE h == [i \in 0 .. n + 1 |-> IF i = n + 1 THEN g[n] + ns[n + 1] ELSE g[i]]
    <2>2. ns[n + 1] \in Int /\ g[n] \in Int
        BY <1>1, <2>1
    <2>3. h \in [0 .. n + 1 -> Int] /\ h[0] = 0
        BY <2>1, <2>2
    <2>4. \A i \in 1 .. n + 1 : h[i] = h[i - 1] + ns[i]
        BY <2>1, <2>2
    <2>5. Upto(h, n + 1)
        BY <2>3, <2>4
    <2>6. \E k : Upto(k, n + 1)
        <3> HIDE DEF Upto, h
        <3> QED BY <2>5
    <2> HIDE DEF Upto
    <2> QED BY <2>6, <1>1
<1>4. PICK g : Upto(g, N)
    <2>1. 0 .. N \subseteq P
        <3> HIDE DEF P
        <3> QED BY <1>1, <1>2, <1>3, Induction
    <2>2. N \in 0 .. N
        BY <1>1
    <2>3. N \in P
        <3> HIDE DEF P
        <3> QED BY <2>1, <2>2
    <2> HIDE DEF Upto
    <2> QED BY <2>3
<1>5. g = F(g)
    BY <1>1, <1>4
<1>6. sum = F(sum)
    <2> HIDE DEF F
    <2> QED BY <1>5
<1>7. Total(ns) = sum[N]
    BY DEF Total
<1>8. sum[0] = 0 /\ \A n \in 1 .. N : sum[n] = sum[n - 1] + ns[n]
    <2> HIDE DEF sum
    <2> QED BY <1>1, <1>6
<1>9. \A n \in 0 .. N : sum[n] = g[n]
    <2> DEFINE Q == {n \in 0 .. N : sum[n] = g[n]}
    <2> HIDE DEF sum
    <2>1. 0 \in Q
        BY <1>1, <1>4, <1>8
    <2>2. ASSUME NEW n \in 0 .. N - 1, n \in Q PROVE n + 1 \in Q
        <3>1. sum[n + 1] = sum[n] + ns[n + 1] /\ g[n + 1] = g[n] + ns[n + 1]
            BY <1>1, <1>4, <1>8
        <3> QED BY <2>2, <3>1, <1>1
    <2>3. 0 .. N \subseteq Q
        <3> HIDE DEF Q
        <3> QED BY <1>1, <2>1, <2>2, Induction
    <2> QED BY <2>3
<1>10. Sums(g, ns) /\ N \in 0 .. N
    BY <1>1, <1>4 DEF Sums
<1> HIDE DEF sum, F, Upto, P
<1> QED BY <1>7, <1>9, <1>10

\* Nothing adds up to nothing.
LEMMA TotalOfNothing == Total(<< >>) = 0
<1>1. << >> \in Seq(Int) /\ Len(<< >>) = 0
    BY EmptySeq
<1>2. PICK g : Sums(g, << >>) /\ Total(<< >>) = g[Len(<< >>)]
    BY <1>1, TotalIsASum
<1> QED BY <1>1, <1>2 DEF Sums

\* A sum is a number.
LEMMA TotalIsNat ==
    ASSUME NEW ns \in Seq(Nat)
    PROVE  Total(ns) \in Nat
<1>0. ns \in Seq(Int) /\ Len(ns) \in Nat /\ \A i \in 1 .. Len(ns) : ns[i] \in Nat
    BY LenProperties, ElementOfSeq, SeqMonotonic
<1>1. PICK g : Sums(g, ns) /\ Total(ns) = g[Len(ns)]
    BY <1>0, TotalIsASum
<1> DEFINE P == {n \in 0 .. Len(ns) : g[n] >= 0}
<1>2. 0 \in P
    BY <1>0, <1>1 DEF Sums
<1>3. ASSUME NEW n \in 0 .. Len(ns) - 1, n \in P PROVE n + 1 \in P
    <2>1. n + 1 \in 1 .. Len(ns) /\ n + 1 - 1 = n
        BY <1>0
    <2>2. g[n + 1] = g[n] + ns[n + 1]
        <3>1. \A i \in 1 .. Len(ns) : g[i] = g[i - 1] + ns[i]
            BY <1>1 DEF Sums
        <3> QED BY <2>1, <3>1
    <2>3. g[n] \in Int /\ g[n] >= 0
        <3>1. g \in [0 .. Len(ns) -> Int] /\ n \in 0 .. Len(ns)
            BY <1>0, <1>1 DEF Sums
        <3> QED BY <1>3, <3>1
    <2>4. ns[n + 1] \in Nat /\ n + 1 \in 0 .. Len(ns)
        BY <1>0, <2>1
    <2> QED BY <2>2, <2>3, <2>4
<1>4. 0 .. Len(ns) \subseteq P
    <2> HIDE DEF P
    <2> QED BY <1>0, <1>2, <1>3, Induction
<1> QED BY <1>0, <1>1, <1>4 DEF Sums

\* One number more adds to the sum.
LEMMA TotalOfMore ==
    ASSUME NEW ns \in Seq(Int), NEW x \in Int
    PROVE  Total(Append(ns, x)) = Total(ns) + x
<1> DEFINE N == Len(ns)
           more == Append(ns, x)
<1>1. /\ more \in Seq(Int) /\ N \in Nat /\ Len(more) = N + 1
      /\ more[N + 1] = x /\ \A i \in 1 .. N : more[i] = ns[i]
    BY AppendProperties, LenProperties
<1>2. PICK g : Sums(g, ns) /\ Total(ns) = g[N]
    BY TotalIsASum
<1>3. PICK h : Sums(h, more) /\ Total(more) = h[N + 1]
    BY <1>1, TotalIsASum
<1> HIDE DEF more
<1> DEFINE P == {n \in 0 .. N : h[n] = g[n]}
<1>4. 0 \in P
    BY <1>1, <1>2, <1>3 DEF Sums
<1>5. ASSUME NEW n \in 0 .. N - 1, n \in P PROVE n + 1 \in P
    <2>1. h[n + 1] = h[n] + more[n + 1] /\ g[n + 1] = g[n] + ns[n + 1]
        BY <1>1, <1>2, <1>3 DEF Sums
    <2> QED BY <1>1, <1>5, <2>1
<1>6. 0 .. N \subseteq P
    <2> HIDE DEF P
    <2> QED BY <1>1, <1>4, <1>5, Induction
<1>7. h[N] = g[N]
    BY <1>1, <1>6
<1>8. h[N + 1] = h[N] + x
    <2>1. N + 1 \in 1 .. Len(more) /\ N + 1 - 1 = N
        BY <1>1
    <2> QED BY <1>1, <1>3, <2>1 DEF Sums
<1> QED BY <1>2, <1>3, <1>7, <1>8 DEF more

-----------------------------------------------------------------------------
(* Sequences, and the members of a set of numbers by their rank. *)

\* s with x put in after its k-th element.
PutAfter(s, k, x) == SubSeq(s, 1, k) \o <<x>> \o SubSeq(s, k + 1, Len(s))

\* A value put into a sequence after its k-th.
LEMMA PutIn ==
    ASSUME NEW S, NEW s \in Seq(S), NEW x \in S, NEW k \in 0 .. Len(s)
    PROVE  /\ PutAfter(s, k, x) \in Seq(S) /\ Len(PutAfter(s, k, x)) = Len(s) + 1
           /\ \A i \in 1 .. k : PutAfter(s, k, x)[i] = s[i]
           /\ PutAfter(s, k, x)[k + 1] = x
           /\ \A i \in k + 1 .. Len(s) : PutAfter(s, k, x)[i + 1] = s[i]
<1> DEFINE N == Len(s)
           first == SubSeq(s, 1, k)
           front == first \o <<x>>
           rest == SubSeq(s, k + 1, N)
           r == front \o rest
<1>1. N \in Nat /\ k \in Int /\ k + 1 \in Int /\ \A i \in 1 .. N : s[i] \in S
    BY LenProperties, ElementOfSeq
<1>2. first \in Seq(S) /\ Len(first) = k /\ \A i \in 1 .. k : first[i] = s[i]
    <2>1. /\ first \in Seq(S) /\ Len(first) = IF 1 <= k THEN k - 1 + 1 ELSE 0
          /\ \A i \in 1 .. k - 1 + 1 : first[i] = s[1 + i - 1]
        BY <1>1, SubSeqProperties
    <2> HIDE DEF first
    <2> QED BY <1>1, <2>1
<1>3. rest \in Seq(S) /\ Len(rest) = N - k /\ \A i \in 1 .. N - k : rest[i] = s[k + i]
    <2>1. /\ rest \in Seq(S) /\ Len(rest) = IF k + 1 <= N THEN N - (k + 1) + 1 ELSE 0
          /\ \A i \in 1 .. N - (k + 1) + 1 : rest[i] = s[k + 1 + i - 1]
        BY <1>1, SubSeqProperties
    <2> HIDE DEF rest
    <2>2. N - (k + 1) + 1 = N - k
        BY <1>1
    <2>3. ASSUME NEW i \in 1 .. N - k PROVE rest[i] = s[k + i]
        <3>1. i \in 1 .. N - (k + 1) + 1 /\ k + 1 + i - 1 = k + i
            BY <1>1, <2>2
        <3> QED BY <2>1, <3>1
    <2>4. Len(rest) = N - k
        <3>1. k \in Int /\ k <= N /\ (~(k + 1 <= N) => N - k = 0)
            BY <1>1
        <3> HIDE DEF N
        <3> QED BY <2>1, <2>2, <3>1
    <2> QED BY <2>1, <2>3, <2>4
<1> HIDE DEF first, rest
<1>4. /\ front \in Seq(S) /\ Len(front) = k + 1 /\ front[k + 1] = x
      /\ \A i \in 1 .. k : front[i] = s[i]
    <2>1. <<x>> \in Seq(S) /\ Len(<<x>>) = 1 /\ <<x>>[1] = x
        OBVIOUS
    <2>2. /\ front \in Seq(S) /\ Len(front) = Len(first) + Len(<<x>>)
          /\ \A i \in 1 .. Len(first) + Len(<<x>>) :
                front[i] = IF i <= Len(first) THEN first[i] ELSE <<x>>[i - Len(first)]
        BY <1>2, <2>1, ConcatProperties
    <2> HIDE DEF front
    <2>3. k + 1 \in 1 .. k + 1 /\ ~(k + 1 <= k) /\ k + 1 - k = 1
        BY <1>1
    <2>4. front[k + 1] = x
        BY <1>2, <2>1, <2>2, <2>3
    <2> QED BY <1>1, <1>2, <2>1, <2>2, <2>4
<1> HIDE DEF front
<1>5. /\ r \in Seq(S) /\ Len(r) = Len(front) + Len(rest)
      /\ \A i \in 1 .. Len(front) + Len(rest) :
            r[i] = IF i <= Len(front) THEN front[i] ELSE rest[i - Len(front)]
    BY <1>3, <1>4, ConcatProperties
<1> HIDE DEF r
<1>6. ASSUME NEW i \in k + 1 .. N PROVE r[i + 1] = s[i]
    <2>1. /\ i + 1 \in 1 .. k + 1 + (N - k) /\ ~(i + 1 <= k + 1) /\ i + 1 - (k + 1) = i - k
          /\ i - k \in 1 .. N - k /\ k + (i - k) = i
        BY <1>1
    <2> QED BY <1>3, <1>4, <1>5, <2>1
<1>7. r[k + 1] = x /\ \A i \in 1 .. k : r[i] = s[i]
    <2>1. \A i \in 1 .. k + 1 : i \in 1 .. k + 1 + (N - k) /\ i <= k + 1
        BY <1>1
    <2>2. \A i \in 1 .. k + 1 : r[i] = front[i]
        BY <1>3, <1>4, <1>5, <2>1
    <2> QED BY <1>1, <1>4, <2>2
<1>8. Len(r) = N + 1
    BY <1>1, <1>3, <1>4, <1>5
<1>9. r = PutAfter(s, k, x)
    BY Zenon DEF r, front, first, rest, PutAfter
<1> HIDE DEF N
<1> QED BY <1>5, <1>6, <1>7, <1>8, <1>9 DEF N

\* The numbers of S below i.
Under(S, i) == {j \in S : j < i}

\* How many of them there are: one more above a member.
LEMMA BelowNext ==
    ASSUME NEW S, IsFiniteSet(S), S \subseteq Nat, NEW i \in Nat
    PROVE  /\ IsFiniteSet(Under(S, i)) /\ Cardinality(Under(S, i)) \in Nat
           /\ Cardinality(Under(S, i + 1)) = Cardinality(Under(S, i)) + IF i \in S THEN 1 ELSE 0
           /\ Cardinality(Under(S, i)) <= Cardinality(S)
           /\ i \in S => Cardinality(Under(S, i)) < Cardinality(S)
<1>1. IsFiniteSet(Under(S, i)) /\ Cardinality(Under(S, i)) <= Cardinality(S)
    BY FS_Subset DEF Under
<1>2. Cardinality(Under(S, i)) \in Nat /\ Cardinality(S) \in Nat
    BY <1>1, FS_CardinalityType
<1>3. CASE i \in S
    <2>1. Under(S, i + 1) = Under(S, i) \cup {i} /\ i \notin Under(S, i)
        <3>1. \A j \in S : (j < i + 1 <=> j < i \/ j = i) /\ ~(i < i)
            OBVIOUS
        <3> QED BY <1>3, <3>1 DEF Under
    <2>2. Cardinality(Under(S, i + 1)) = Cardinality(Under(S, i)) + 1
        BY <1>1, <2>1, FS_AddElement
    <2>3. Under(S, i + 1) \subseteq S
        BY DEF Under
    <2>4. Cardinality(Under(S, i + 1)) <= Cardinality(S)
        BY <2>3, FS_Subset
    <2> QED BY <1>1, <1>2, <1>3, <2>2, <2>4
<1>4. CASE i \notin S
    <2>1. Under(S, i + 1) = Under(S, i)
        <3>1. \A j \in S : j < i + 1 <=> j < i
            BY <1>4
        <3> QED BY <3>1 DEF Under
    <2> QED BY <1>1, <1>2, <1>4, <2>1
<1> QED BY <1>3, <1>4

\* It grows with i, and strictly from one member to the next.
LEMMA BelowGrows ==
    ASSUME NEW S, IsFiniteSet(S), S \subseteq Nat, NEW i \in S, NEW k \in Nat, i < k
    PROVE  Cardinality(Under(S, i)) < Cardinality(Under(S, k))
<1>1. Under(S, i + 1) \subseteq Under(S, k)
    <2>1. \A j \in S : j < i + 1 => j < k
        OBVIOUS
    <2> QED BY <2>1 DEF Under
<1>2. IsFiniteSet(Under(S, k))
    BY BelowNext
<1>3. Cardinality(Under(S, i + 1)) <= Cardinality(Under(S, k))
    BY <1>1, <1>2, FS_Subset
<1>4. /\ Cardinality(Under(S, i + 1)) = Cardinality(Under(S, i)) + 1
      /\ Cardinality(Under(S, i)) \in Nat /\ Cardinality(Under(S, k)) \in Nat
    BY BelowNext
<1> QED BY <1>3, <1>4

\* A member is the one that its rank says.
LEMMA NthOfRank ==
    ASSUME NEW S, IsFiniteSet(S), S \subseteq Nat, NEW i \in S
    PROVE  Nth(S, Cardinality(Under(S, i))) = i
<1>1. ASSUME NEW k \in S, Cardinality(Under(S, k)) = Cardinality(Under(S, i)) PROVE k = i
    <2>1. ~(k < i) /\ ~(i < k)
        <3>1. Cardinality(Under(S, k)) \in Nat /\ Cardinality(Under(S, i)) \in Nat
            BY BelowNext
        <3>2. k \in Nat /\ i \in Nat
            OBVIOUS
        <3>3. k < i => Cardinality(Under(S, k)) < Cardinality(Under(S, i))
            BY <3>2, BelowGrows
        <3>4. i < k => Cardinality(Under(S, i)) < Cardinality(Under(S, k))
            BY <3>2, BelowGrows
        <3> QED BY <1>1, <3>1, <3>3, <3>4
    <2> QED BY <2>1
<1> DEFINE n == Cardinality(Under(S, i))
<1>2. Nth(S, n) = CHOOSE k \in S : Cardinality(Under(S, k)) = n
    BY DEF Nth, Under
<1> QED BY <1>1, <1>2

\* There is a member of every rank.
LEMMA NthExists ==
    ASSUME NEW b \in Nat, NEW S, S \subseteq 1 .. b, NEW n \in Nat, n < Cardinality(S)
    PROVE  Nth(S, n) \in S /\ Cardinality(Under(S, Nth(S, n))) = n
<1>1. IsFiniteSet(S) /\ S \subseteq Nat
    <2>1. IsFiniteSet(1 .. b)
        BY FS_Interval
    <2>2. S \subseteq Nat
        OBVIOUS
    <2>3. IsFiniteSet(S)
        BY <2>1, FS_Subset
    <2> QED BY <2>2, <2>3
<1> DEFINE Card(i) == Cardinality(Under(S, i))
           W == {i \in Nat : n < Card(i)}
<1>2. W # {}
    <2>1. Under(S, b + 1) = S
        <3>1. \A j \in S : j < b + 1
            OBVIOUS
        <3> QED BY <3>1 DEF Under
    <2> QED BY <2>1
<1>3. PICK m \in W : \A k \in W : m <= k
    <2>1. W \subseteq Nat
        OBVIOUS
    <2> HIDE DEF W
    <2> QED BY <1>2, <2>1, Least
<1>4. m # 0
    <2>1. Under(S, 0) = {}
        <3>1. \A j \in S : ~(j < 0)
            OBVIOUS
        <3> QED BY <3>1 DEF Under
    <2>2. Card(0) = 0
        BY <2>1, FS_EmptySet
    <2> QED BY <1>3, <2>2
<1>5. m - 1 \in Nat /\ m - 1 \notin W
    BY <1>3, <1>4
<1>6. Card(m - 1) \in Nat /\ Card(m) = Card(m - 1) + IF m - 1 \in S THEN 1 ELSE 0
    <2>1. m - 1 + 1 = m
        BY <1>3
    <2>2. /\ Cardinality(Under(S, m - 1)) \in Nat
          /\ Cardinality(Under(S, m - 1 + 1)) =
                Cardinality(Under(S, m - 1)) + IF m - 1 \in S THEN 1 ELSE 0
        BY <1>1, <1>5, BelowNext
    <2> QED BY <2>1, <2>2
<1>7. m - 1 \in S /\ Card(m - 1) = n
    <2>1. n < Card(m) /\ ~(n < Card(m - 1))
        BY <1>3, <1>5
    <2> HIDE DEF Card
    <2> QED BY <1>6, <2>1
<1> QED BY <1>1, <1>7, NthOfRank

-----------------------------------------------------------------------------
(* Types, and what the places of the command and of the threads say. *)

\* What is still to be replayed is the end of the directory.
CommandInv ==
    /\ ci.pc \in {"loop", "judge"} => ci.mode # "record"
    /\ ci.pc = "judge" \/ (ci.pc = "agent" /\ ci.mode # "record") => ci.todo # << >>
    /\ ci.pc # "idle" /\ ci.mode # "record" =>
          /\ Len(ci.todo) <= Len(dir)
          /\ \A i \in 1 .. Len(ci.todo) : ci.todo[i] = dir[Len(dir) - Len(ci.todo) + i]

\* Threads run in an agent only; one that has found its observation has a
\* cursor that points into the list of its key.
ThreadInv ==
    \A t \in Threads :
        /\ thread[t].pc # "ended" => ci.pc = "agent"
        /\ thread[t].pc \in {"found", "taken", "live"} => thread[t].step <= Len(program[t])
        /\ thread[t].pc \in {"found", "taken"} =>
              /\ ci.mode # "record" /\ Key(t) \in DOMAIN cursors
              /\ thread[t].cursor < Cardinality(Matching(Key(t)))
        /\ thread[t].pc = "live" => ci.mode # "pure"

PlaceInv == TypeOK /\ CommandInv /\ ThreadInv

\* The request of a thread that has one.
LEMMA KeyIsAKey ==
    ASSUME TypeOK, NEW t \in Threads, thread[t].step <= Len(program[t])
    PROVE  Prompt(t) \in Prompts /\ Prompt(t) \in ToSet(program[t]) /\ Key(t) \in Keys
<1>1. program[t] \in Seq(Prompts) /\ thread[t].step \in Nat \ {0} /\ thread[t].last \in Answers \cup {NoAnswer}
    BY ReplayAssumption DEF TypeOK, ThreadState
<1>2. thread[t].step \in 1 .. Len(program[t]) /\ DOMAIN program[t] = 1 .. Len(program[t])
    BY <1>1, LenProperties
<1>3. program[t][thread[t].step] \in Prompts
    BY <1>1, <1>2, ElementOfSeq
<1> QED BY <1>1, <1>2, <1>3 DEF Prompt, Key, Keys, ToSet

\* The cassette is a sequence of observations.
LEMMA CassetteType ==
    ASSUME TypeOK, CommandInv, ci.pc \in {"agent", "judge"}
    PROVE  /\ Cassette \in Seq(Observation) /\ Len(Cassette) \in Nat
           /\ DOMAIN Cassette = 1 .. Len(Cassette)
           /\ \A key : Matching(key) \subseteq 1 .. Len(Cassette)
<1>1. CASE ci.mode = "record"
    <2>1. Cassette = << >> /\ << >> \in Seq(Observation)
        BY <1>1 DEF Cassette
    <2> QED BY <2>1 DEF Matching
<1>2. CASE ci.mode # "record"
    <2>1. ci.todo \in Seq(Fixture) /\ ci.todo # << >>
        BY <1>2 DEF TypeOK, Command, CommandInv
    <2>2. Head(ci.todo) \in Fixture
        BY <2>1, HeadTailProperties
    <2>3. Cassette \in Seq(Observation)
        BY <1>2, <2>2 DEF Cassette, Fixture
    <2> QED BY <2>3, LenProperties DEF Matching
<1> QED BY <1>1, <1>2

\* What a cursor finds is an observation with the key.
LEMMA FoundIsThere ==
    ASSUME PlaceInv, NEW t \in Threads, thread[t].pc \in {"found", "taken"}
    PROVE  LET index == Nth(Matching(Key(t)), thread[t].cursor)
           IN  /\ index \in Matching(Key(t)) /\ index \in 1 .. Len(Cassette)
               /\ Cardinality(Under(Matching(Key(t)), index)) = thread[t].cursor
               /\ Cassette[index] \in Observation /\ Cassette[index].key = Key(t)
               /\ Key(t) \in Keys
<1>1. ci.pc = "agent" /\ thread[t].cursor \in Nat /\ thread[t].cursor < Cardinality(Matching(Key(t)))
      /\ Key(t) \in Keys
    BY KeyIsAKey DEF PlaceInv, ThreadInv, TypeOK, ThreadState
<1>2. /\ Cassette \in Seq(Observation) /\ Len(Cassette) \in Nat
      /\ Matching(Key(t)) \subseteq 1 .. Len(Cassette)
    BY <1>1, CassetteType DEF PlaceInv
<1> DEFINE index == Nth(Matching(Key(t)), thread[t].cursor)
<1>3. index \in Matching(Key(t)) /\ Cardinality(Under(Matching(Key(t)), index)) = thread[t].cursor
    BY <1>1, <1>2, NthExists
<1>4. Cassette[index].key = Key(t)
    BY <1>3 DEF Matching
<1>5. Cassette[index] \in Observation
    BY <1>2, <1>3, ElementOfSeq
<1> QED BY <1>1, <1>2, <1>3, <1>4, <1>5

\* The places at the start.
LEMMA InitPlaces == Init => PlaceInv
<1> SUFFICES ASSUME Init PROVE PlaceInv
    OBVIOUS
<1> USE ReplayAssumption
<1>1. Resting \in ThreadState
    BY DEF Resting, ThreadState, Codes
<1>2. thread \in [Threads -> ThreadState] /\ \A t \in Threads : thread[t].pc = "ended"
    BY <1>1 DEF Init, Resting
<1>3. ci \in Command /\ ci.pc = "idle"
    BY DEF Init, Command, Modes, Codes
<1>4. file \in [exists : BOOLEAN, served : Seq(Served)] /\ sent \in [prompts : SUBSET Prompts, tokens : Nat]
    BY DEF Init, NoFile, NothingSent
<1>5. DOMAIN cursors \subseteq Keys /\ cursors \in [DOMAIN cursors -> Nat]
    BY DEF Init
<1>6. TypeOK
    <2>1. dir \in Seq(Fixture) /\ log \in Seq(Served)
        BY EmptySeq DEF Init
    <2>2. processes = 0 /\ now = 0 /\ written = FALSE /\ missed = {} /\ program \in Programs
        BY DEF Init
    <2>3. 0 \in 0 .. MaxProcesses
        OBVIOUS
    <2> QED BY <1>2, <1>3, <1>4, <1>5, <2>1, <2>2, <2>3 DEF TypeOK
<1> QED BY <1>2, <1>3, <1>6 DEF PlaceInv, CommandInv, ThreadInv

\* A step of one thread that leaves command and cassette alone keeps the
\* places if its own is right.
LEMMA ThreadStep ==
    ASSUME PlaceInv, NEW t \in Threads, NEW self \in ThreadState,
           thread' = [thread EXCEPT ![t] = self], ci.pc = "agent", ci' = ci, program' = program,
           self.pc \in {"found", "taken", "live"} =>
               self.step = thread[t].step /\ self.last = thread[t].last
                 /\ thread[t].step <= Len(program[t]),
           self.pc \in {"found", "taken"} =>
               /\ ci.mode # "record" /\ Key(t) \in DOMAIN cursors
               /\ self.cursor < Cardinality(Matching(Key(t))),
           self.pc = "live" => ci.mode # "pure",
           DOMAIN cursors' = DOMAIN cursors
    PROVE  ThreadInv' /\ thread' \in [Threads -> ThreadState]
<1> USE DEF PlaceInv
<1>1. thread' \in [Threads -> ThreadState]
    BY DEF TypeOK
<1>2. \A u \in Threads : thread'[u] = IF u = t THEN self ELSE thread[u]
    BY DEF TypeOK
<1>3. \A key : Matching(key)' = Matching(key)
    BY DEF Matching, Cassette
<1>4. \A u \in Threads : thread'[u].step = thread[u].step /\ thread'[u].last = thread[u].last
                            => Key(u)' = Key(u)
    BY DEF Key, Prompt
<1>5. ASSUME NEW u \in Threads
      PROVE  /\ thread'[u].pc # "ended" => ci'.pc = "agent"
             /\ thread'[u].pc \in {"found", "taken", "live"} => thread'[u].step <= Len(program'[u])
             /\ thread'[u].pc \in {"found", "taken"} =>
                   /\ ci'.mode # "record" /\ Key(u)' \in DOMAIN cursors'
                   /\ thread'[u].cursor < Cardinality(Matching(Key(u)'))
             /\ thread'[u].pc = "live" => ci'.mode # "pure"
    <2>1. CASE u = t
        BY <1>2, <1>4, <2>1
    <2>2. CASE u # t
        BY <1>2, <1>4, <2>2 DEF ThreadInv
    <2> QED BY <2>1, <2>2
<1>6. ThreadInv'
    BY <1>3, <1>5 DEF ThreadInv
<1> QED BY <1>1, <1>6

-----------------------------------------------------------------------------
(* The steps of the shim. *)

\* What an answer, or none, makes of a thread.
LEMMA AnsweredType ==
    ASSUME NEW self \in ThreadState, NEW answer \in Answers
    PROVE  /\ Answered(self, answer) \in ThreadState /\ Answered(self, answer).pc = "ready"
           /\ Answered(self, answer).step = self.step + 1
           /\ Answered(self, answer).last = answer
           /\ Answered(self, answer).code = self.code
<1>1. self.step + 1 \in Nat \ {0} /\ 1 \in 1 .. MaxTries
    BY ReplayAssumption DEF ThreadState
<1> QED BY <1>1 DEF ThreadState, Answered

\* What the client makes of an answer.
LEMMA ReceivedType ==
    ASSUME NEW self \in ThreadState, NEW answer \in Answers
    PROVE  /\ Received(self, answer) \in ThreadState
           /\ Received(self, answer).pc \in {"ready", "ended"}
           /\ answer = ProviderError => /\ Received(self, answer).step = self.step
                                        /\ Received(self, answer).last = self.last
           /\ answer = ProviderError /\ Received(self, answer).pc = "ended" =>
                  Received(self, answer).code = 1
<1>1. CASE answer # ProviderError
    BY <1>1, AnsweredType DEF Received
<1>2. CASE answer = ProviderError /\ self.tries < MaxTries
    <2>1. self.tries + 1 \in 1 .. MaxTries
        BY <1>2, ReplayAssumption DEF ThreadState
    <2> QED BY <1>2, <2>1 DEF Received, ThreadState
<1>3. CASE answer = ProviderError /\ ~(self.tries < MaxTries)
    BY <1>3 DEF Received, Exits, ThreadState, Codes
<1> QED BY <1>1, <1>2, <1>3

\* A hit, from the lookup to the answer.
LEMMA HitKeepsPlaces ==
    ASSUME PlaceInv, NEW t \in Threads, Look(t) \/ Advance(t) \/ Serve(t)
    PROVE  PlaceInv'
<1> USE ReplayAssumption
<1>0. /\ thread[t] \in ThreadState /\ thread \in [Threads -> ThreadState]
      /\ cursors \in [DOMAIN cursors -> Nat] /\ DOMAIN cursors \subseteq Keys
    BY DEF PlaceInv, TypeOK
<1>1. CASE Look(t)
    <2> DEFINE self == [thread[t] EXCEPT !.pc = "found", !.cursor = cursors[Key(t)]]
    <2>1. /\ ci.pc = "agent" /\ thread[t].step <= Len(program[t]) /\ Key(t) \in DOMAIN cursors
          /\ ci.mode # "record" /\ cursors[Key(t)] < Cardinality(Matching(Key(t)))
          /\ thread' = [thread EXCEPT ![t] = self]
        BY <1>1 DEF Look, Calls, Found
    <2>2. /\ self \in ThreadState /\ self.pc = "found" /\ self.step = thread[t].step
          /\ self.last = thread[t].last /\ self.cursor = cursors[Key(t)]
        BY <1>0, <2>1 DEF ThreadState
    <2>3. UNCHANGED <<program, dir, ci, processes, cursors, log, written, file, now, missed, sent>>
        BY <1>1 DEF Look, Frame
    <2> HIDE DEF self
    <2>4. ThreadInv' /\ thread' \in [Threads -> ThreadState]
        BY <2>1, <2>2, <2>3, ThreadStep
    <2> QED BY <2>3, <2>4 DEF PlaceInv, TypeOK, CommandInv
<1>2. CASE Advance(t)
    <2> DEFINE self == [thread[t] EXCEPT !.pc = "taken"]
    <2>1. /\ thread[t].pc = "found" /\ thread' = [thread EXCEPT ![t] = self]
          /\ cursors' = [cursors EXCEPT ![Key(t)] = thread[t].cursor + 1]
        BY <1>2 DEF Advance
    <2>2. /\ self \in ThreadState /\ self.pc = "taken" /\ self.step = thread[t].step
          /\ self.last = thread[t].last /\ self.cursor = thread[t].cursor
        BY <1>0 DEF ThreadState
    <2>3. UNCHANGED <<program, dir, ci, processes, log, written, file, now, missed, sent>>
        BY <1>2 DEF Advance, Frame
    <2>4. DOMAIN cursors' = DOMAIN cursors /\ cursors' \in [DOMAIN cursors -> Nat]
        <3>1. thread[t].cursor + 1 \in Nat
            BY <1>0 DEF ThreadState
        <3> QED BY <1>0, <2>1, <3>1
    <2>5. /\ ci.pc = "agent" /\ thread[t].step <= Len(program[t]) /\ ci.mode # "record"
          /\ Key(t) \in DOMAIN cursors /\ thread[t].cursor < Cardinality(Matching(Key(t)))
        BY <2>1 DEF PlaceInv, ThreadInv
    <2> HIDE DEF self
    <2>6. ThreadInv' /\ thread' \in [Threads -> ThreadState]
        BY <2>1, <2>2, <2>3, <2>4, <2>5, ThreadStep
    <2> QED BY <1>0, <2>3, <2>4, <2>6 DEF PlaceInv, TypeOK, CommandInv
<1>3. CASE Serve(t)
    <2> DEFINE index == Nth(Matching(Key(t)), thread[t].cursor)
               out == Cassette[index].out
               self == Answered(thread[t], out)
               entry == [key |-> Key(t), out |-> out, begin |-> now, end |-> now,
                         source |-> "cassette", index |-> index]
    <2>1. /\ thread[t].pc = "taken" /\ thread' = [thread EXCEPT ![t] = self]
          /\ log' = Append(log, entry)
        BY <1>3 DEF Serve
    <2>2. index \in Nat /\ out \in Answers /\ Key(t) \in Keys
        BY <2>1, FoundIsThere DEF Observation
    <2>3. self \in ThreadState /\ self.pc = "ready"
        BY <1>0, <2>2, AnsweredType
    <2>4. entry \in Served
        BY <2>2 DEF Served, PlaceInv, TypeOK
    <2>5. log' \in Seq(Served)
        BY <2>1, <2>4, AppendProperties DEF PlaceInv, TypeOK
    <2>6. UNCHANGED <<program, dir, ci, processes, cursors, written, file, now, missed, sent>>
        BY <1>3 DEF Serve, Frame
    <2>7. ci.pc = "agent"
        BY <2>1 DEF PlaceInv, ThreadInv
    <2> HIDE DEF self, index, entry
    <2>8. ThreadInv' /\ thread' \in [Threads -> ThreadState]
        BY <2>1, <2>3, <2>6, <2>7, ThreadStep
    <2> QED BY <2>5, <2>6, <2>8 DEF PlaceInv, TypeOK, CommandInv
<1> QED BY <1>1, <1>2, <1>3

\* A call that goes to the provider, and what becomes of it.
LEMMA LiveKeepsPlaces ==
    ASSUME PlaceInv, NEW t \in Threads,
           GoLive(t) \/ ConnectionFails(t) \/ \E a \in Answers : LiveAnswer(t, a)
    PROVE  PlaceInv'
<1> USE ReplayAssumption
<1>0. thread[t] \in ThreadState /\ thread \in [Threads -> ThreadState] /\ now \in Nat
    BY DEF PlaceInv, TypeOK
<1>1. CASE GoLive(t)
    <2> DEFINE self == [thread[t] EXCEPT !.pc = "live", !.begin = now]
    <2>1. /\ ci.pc = "agent" /\ thread[t].step <= Len(program[t]) /\ ci.mode # "pure"
          /\ thread' = [thread EXCEPT ![t] = self]
        BY <1>1 DEF GoLive, Calls
    <2>2. /\ self \in ThreadState /\ self.pc = "live" /\ self.step = thread[t].step
          /\ self.last = thread[t].last
        BY <1>0 DEF ThreadState
    <2>3. UNCHANGED <<program, dir, ci, processes, cursors, log, written, file, now, missed>>
        BY <1>1 DEF GoLive, Frame
    <2>4. sent' \in [prompts : SUBSET Prompts, tokens : Nat]
        <3>1. Prompt(t) \in Prompts
            BY <2>1, KeyIsAKey DEF PlaceInv
        <3> QED BY <1>1, <3>1 DEF GoLive, PlaceInv, TypeOK
    <2> HIDE DEF self
    <2>5. ThreadInv' /\ thread' \in [Threads -> ThreadState]
        BY <2>1, <2>2, <2>3, ThreadStep
    <2> QED BY <2>3, <2>4, <2>5 DEF PlaceInv, TypeOK, CommandInv
<1>2. ASSUME NEW answer \in Answers
      PROVE  Received(thread[t], answer) \in ThreadState
               /\ Received(thread[t], answer).pc \in {"ready", "ended"}
    BY <1>0, ReceivedType
<1>3. CASE ConnectionFails(t)
    <2> DEFINE self == Received(thread[t], ProviderError)
    <2>1. thread[t].pc = "live" /\ thread' = [thread EXCEPT ![t] = self]
        BY <1>3 DEF ConnectionFails
    <2>2. self \in ThreadState /\ self.pc \in {"ready", "ended"}
        BY <1>2
    <2>3. UNCHANGED <<program, dir, ci, processes, cursors, log, written, file, now, missed, sent>>
        BY <1>3 DEF ConnectionFails, Frame
    <2>4. ci.pc = "agent"
        BY <2>1 DEF PlaceInv, ThreadInv
    <2> HIDE DEF self
    <2>5. ThreadInv' /\ thread' \in [Threads -> ThreadState]
        BY <2>1, <2>2, <2>3, <2>4, ThreadStep
    <2> QED BY <2>3, <2>5 DEF PlaceInv, TypeOK, CommandInv
<1>4. ASSUME NEW a \in Answers, LiveAnswer(t, a)
      PROVE  PlaceInv'
    <2> DEFINE self == Received(thread[t], a)
               entry == [key |-> Key(t), out |-> a, begin |-> thread[t].begin,
                         end |-> now + 1, source |-> "live", index |-> 0]
    <2>1. /\ thread[t].pc = "live" /\ thread' = [thread EXCEPT ![t] = self]
          /\ log' = Append(log, entry) /\ now' = now + 1
        BY <1>4 DEF LiveAnswer
    <2>2. self \in ThreadState /\ self.pc \in {"ready", "ended"}
        BY <1>2
    <2>3. UNCHANGED <<program, dir, ci, processes, cursors, written, file, missed>>
        BY <1>4 DEF LiveAnswer, Frame
    <2>4. ci.pc = "agent" /\ thread[t].step <= Len(program[t])
        BY <2>1 DEF PlaceInv, ThreadInv
    <2>5. Key(t) \in Keys
        BY <2>4, KeyIsAKey DEF PlaceInv
    <2>6. entry \in Served
        BY <1>0, <2>5 DEF Served, ThreadState
    <2>7. log' \in Seq(Served)
        BY <2>1, <2>6, AppendProperties DEF PlaceInv, TypeOK
    <2>8. sent' \in [prompts : SUBSET Prompts, tokens : Nat]
        <3>1. TokensOf[a] \in Nat
            OBVIOUS
        <3>2. sent \in [prompts : SUBSET Prompts, tokens : Nat]
                /\ sent' = [sent EXCEPT !.tokens = @ + TokensOf[a]]
            BY <1>4 DEF LiveAnswer, PlaceInv, TypeOK
        <3>3. sent.tokens + TokensOf[a] \in Nat
            BY <3>1, <3>2
        <3> QED BY <3>2, <3>3
    <2> HIDE DEF self, entry
    <2>9. ThreadInv' /\ thread' \in [Threads -> ThreadState]
        BY <2>1, <2>2, <2>3, <2>4, ThreadStep
    <2>10. now' \in Nat
        BY <1>0, <2>1
    <2>11. CommandInv'
        BY <2>3 DEF PlaceInv, CommandInv
    <2> QED BY <2>3, <2>7, <2>8, <2>9, <2>10, <2>11 DEF PlaceInv, TypeOK
<1> QED BY <1>1, <1>3, <1>4

\* What a process leaves behind is a fixture.
LEMMA NewFixtureType ==
    ASSUME TypeOK
    PROVE  NewFixture \in Fixture /\ Len(NewFixture.obs) = Len(log)
<1> DEFINE obs == [i \in DOMAIN log |-> [key |-> log[i].key, out |-> log[i].out,
                                         begin |-> log[i].begin, end |-> log[i].end]]
<1>1. Len(log) \in Nat /\ DOMAIN log = 1 .. Len(log) /\ \A i \in DOMAIN log : log[i] \in Served
    BY LenProperties, ElementOfSeq DEF TypeOK
<1>2. obs \in [1 .. Len(log) -> Observation]
    BY <1>1 DEF Served, Observation
<1>3. obs \in Seq(Observation) /\ Len(obs) = Len(log)
    BY <1>1, <1>2
<1>4. Clean \in BOOLEAN /\ program \in Programs
    BY DEF Clean, TypeOK
<1>5. NewFixture = [obs |-> obs, of |-> program, clean |-> Clean]
    BY DEF NewFixture
<1> HIDE DEF obs
<1> QED BY <1>3, <1>4, <1>5 DEF Fixture

\* The cassette of a hybrid run goes before what is still to be replayed.
LEMMA HybridKeepsTodo ==
    ASSUME TypeOK, NEW n \in Nat, n = Len(ci.todo), n <= Len(dir)
    PROVE  /\ HybridCassette \in Seq(Fixture) /\ Len(HybridCassette) = Len(dir) + 1
           /\ \A i \in 1 .. n : HybridCassette[Len(dir) + 1 - n + i] = dir[Len(dir) - n + i]
           /\ \A i \in 1 .. Len(dir) - n : HybridCassette[i] = dir[i]
           /\ HybridCassette[Len(dir) + 1 - n] = NewFixture
<1> DEFINE N == Len(dir)
<1>1. dir \in Seq(Fixture) /\ N \in Nat /\ NewFixture \in Fixture /\ N - n \in 0 .. N
    BY LenProperties, NewFixtureType DEF TypeOK
<1>2. PICK k \in 0 .. N : k = N - n
    BY <1>1
<1>3. HybridCassette = PutAfter(dir, k, NewFixture)
    BY <1>2 DEF HybridCassette, PutAfter
<1>4. /\ HybridCassette \in Seq(Fixture) /\ Len(HybridCassette) = N + 1
      /\ \A i \in 1 .. k : HybridCassette[i] = dir[i]
      /\ HybridCassette[k + 1] = NewFixture
      /\ \A i \in k + 1 .. N : HybridCassette[i + 1] = dir[i]
    <2>1. dir \in Seq(Fixture) /\ NewFixture \in Fixture /\ k \in 0 .. Len(dir)
        BY <1>1
    <2>2. PutAfter(dir, k, NewFixture) \in Seq(Fixture)
        BY <2>1, PutIn
    <2>3. Len(PutAfter(dir, k, NewFixture)) = Len(dir) + 1
        BY <2>1, PutIn
    <2>4. \A i \in 1 .. k : PutAfter(dir, k, NewFixture)[i] = dir[i]
        BY <2>1, PutIn
    <2>5. PutAfter(dir, k, NewFixture)[k + 1] = NewFixture
        BY <2>1, PutIn
    <2>6. \A i \in k + 1 .. Len(dir) : PutAfter(dir, k, NewFixture)[i + 1] = dir[i]
        BY <2>1, PutIn
    <2> QED BY <1>3, <2>2, <2>3, <2>4, <2>5, <2>6
<1>5. ASSUME NEW i \in 1 .. n PROVE HybridCassette[N + 1 - n + i] = dir[N - n + i]
    <2>1. N - n + i \in k + 1 .. N /\ N - n + i + 1 = N + 1 - n + i
        BY <1>1, <1>2
    <2> QED BY <1>4, <2>1
<1>6. N + 1 - n = k + 1 /\ Len(dir) = N
    BY <1>1, <1>2
<1> QED BY <1>2, <1>4, <1>5, <1>6


\* What is written at the end of a process is a fixture, and what is still to
\* be replayed stays the end of the directory.
LEMMA WriteKeepsTodo ==
    ASSUME PlaceInv, WriteServed, ci.pc = "agent", ci.mode # "record"
    PROVE  /\ dir' \in Seq(Fixture) /\ file' \in [exists : BOOLEAN, served : Seq(Served)]
           /\ written' = TRUE /\ Len(ci.todo) <= Len(dir')
           /\ \A i \in 1 .. Len(ci.todo) : ci.todo[i] = dir'[Len(dir') - Len(ci.todo) + i]
<1>0. /\ TypeOK /\ Len(ci.todo) <= Len(dir)
      /\ \A i \in 1 .. Len(ci.todo) : ci.todo[i] = dir[Len(dir) - Len(ci.todo) + i]
    BY DEF PlaceInv, CommandInv
<1>1. file' \in [exists : BOOLEAN, served : Seq(Served)] /\ written' = TRUE
    <2>1. CASE written
        BY <1>0, <2>1 DEF WriteServed, TypeOK
    <2>2. CASE ~written
        <3>1. file' = [exists |-> TRUE, served |-> log] /\ log \in Seq(Served) /\ written' = TRUE
            BY <1>0, <2>2 DEF WriteServed, TypeOK
        <3> QED BY <3>1
    <2> QED BY <2>1, <2>2
<1>2. CASE dir' = dir
    BY <1>0, <1>1, <1>2 DEF TypeOK
<1>3. CASE dir' = HybridCassette
    <2>1. PICK n \in Nat : n = Len(ci.todo)
        BY <1>0, LenProperties DEF TypeOK, Command
    <2>2. /\ dir' \in Seq(Fixture) /\ Len(dir') = Len(dir) + 1
          /\ \A i \in 1 .. n : dir'[Len(dir) + 1 - n + i] = dir[Len(dir) - n + i]
        BY <1>0, <1>3, <2>1, HybridKeepsTodo
    <2>3. Len(dir) \in Nat
        BY <1>0, LenProperties DEF TypeOK
    <2>4. Len(dir') - n = Len(dir) + 1 - n /\ n <= Len(dir')
        BY <1>0, <2>1, <2>2, <2>3
    <2>5. \A i \in 1 .. n : ci.todo[i] = dir[Len(dir) - n + i]
        BY <1>0, <2>1
    <2>6. \A i \in 1 .. n : ci.todo[i] = dir'[Len(dir') - n + i]
        BY <2>2, <2>4, <2>5
    <2> QED BY <1>1, <2>1, <2>2, <2>4, <2>6
<1> QED BY <1>2, <1>3 DEF WriteServed

\* A thread that ends leaves the others where they are.
LEMMA EndsKeepsPlaces ==
    ASSUME PlaceInv, NEW t \in Threads, Miss(t) \/ Finish(t)
    PROVE  PlaceInv'
<1>0. thread[t] \in ThreadState /\ thread \in [Threads -> ThreadState]
    BY DEF PlaceInv, TypeOK
<1>1. CASE Finish(t)
    <2> DEFINE self == [thread[t] EXCEPT !.pc = "ended"]
    <2>1. ci.pc = "agent" /\ thread' = [thread EXCEPT ![t] = self]
        BY <1>1 DEF Finish
    <2>2. self \in ThreadState /\ self.pc = "ended"
        BY <1>0 DEF ThreadState
    <2>3. UNCHANGED <<program, dir, ci, processes, cursors, log, written, file, now, missed, sent>>
        BY <1>1 DEF Finish, Frame
    <2> HIDE DEF self
    <2>4. ThreadInv' /\ thread' \in [Threads -> ThreadState]
        BY <2>1, <2>2, <2>3, ThreadStep
    <2> QED BY <2>3, <2>4 DEF PlaceInv, TypeOK, CommandInv
<1>2. CASE Miss(t)
    <2> DEFINE code == IF ci.mode = "pure" THEN 78 ELSE 79
               self == Exits(thread[t], code)
    <2>1. /\ ci.pc = "agent" /\ ci.mode # "record" /\ thread' = [thread EXCEPT ![t] = self]
          /\ missed' = missed \cup {t} /\ WriteServed
          /\ UNCHANGED <<program, ci, processes, cursors, log, now, sent>>
        BY <1>2 DEF Miss, Calls
    <2>2. self \in ThreadState /\ self.pc = "ended"
        BY <1>0 DEF ThreadState, Exits, Codes
    <2> HIDE DEF self
    <2>3. ThreadInv' /\ thread' \in [Threads -> ThreadState]
        BY <2>1, <2>2, ThreadStep
    <2>4. /\ dir' \in Seq(Fixture) /\ file' \in [exists : BOOLEAN, served : Seq(Served)]
          /\ written' = TRUE /\ Len(ci.todo) <= Len(dir')
          /\ \A i \in 1 .. Len(ci.todo) : ci.todo[i] = dir'[Len(dir') - Len(ci.todo) + i]
        BY <2>1, WriteKeepsTodo
    <2>5. TypeOK'
        BY <2>1, <2>3, <2>4 DEF PlaceInv, TypeOK
    <2>6. CommandInv'
        BY <2>1, <2>4 DEF PlaceInv, CommandInv
    <2> QED BY <2>3, <2>5, <2>6 DEF PlaceInv
<1> QED BY <1>1, <1>2

\* Every step of the shim.
LEMMA ShimKeepsPlaces ==
    ASSUME PlaceInv, NEW t \in Threads, Shim(t)
    PROVE  PlaceInv'
BY HitKeepsPlaces, LiveKeepsPlaces, EndsKeepsPlaces DEF Shim

-----------------------------------------------------------------------------
(* The steps of the command. *)

\* A process that is gone, or none.
LEMMA GoneType ==
    ASSUME Gone
    PROVE  /\ thread' \in [Threads -> ThreadState] /\ \A t \in Threads : thread'[t].pc = "ended"
           /\ DOMAIN cursors' \subseteq Keys /\ cursors' \in [DOMAIN cursors' -> Nat]
           /\ log' \in Seq(Served) /\ written' \in BOOLEAN
           /\ file' \in [exists : BOOLEAN, served : Seq(Served)] /\ now' \in Nat
           /\ missed' \subseteq Threads /\ sent' \in [prompts : SUBSET Prompts, tokens : Nat]
<1>1. Resting \in ThreadState /\ Resting.pc = "ended"
    BY ReplayAssumption DEF Resting, ThreadState, Codes
<1>2. << >> \in Seq(Served)
    BY EmptySeq
<1>3. thread' \in [Threads -> ThreadState] /\ \A t \in Threads : thread'[t].pc = "ended"
    BY <1>1 DEF Gone
<1>4. DOMAIN cursors' \subseteq Keys /\ cursors' \in [DOMAIN cursors' -> Nat]
    BY DEF Gone
<1>5. file' \in [exists : BOOLEAN, served : Seq(Served)]
    BY <1>2 DEF Gone, NoFile
<1>6. sent' \in [prompts : SUBSET Prompts, tokens : Nat]
    BY DEF Gone, NothingSent
<1>7. log' \in Seq(Served) /\ written' \in BOOLEAN /\ now' \in Nat /\ missed' \subseteq Threads
    BY <1>2 DEF Gone
<1> QED BY <1>3, <1>4, <1>5, <1>6, <1>7

\* A process that starts.
LEMMA LaunchType ==
    ASSUME TypeOK, NEW cassette \in Seq(Observation), Launch(cassette)
    PROVE  /\ thread' \in [Threads -> ThreadState]
           /\ \A t \in Threads : thread'[t].pc = "ready"
           /\ DOMAIN cursors' \subseteq Keys /\ cursors' \in [DOMAIN cursors' -> Nat]
           /\ log' \in Seq(Served) /\ written' \in BOOLEAN
           /\ file' \in [exists : BOOLEAN, served : Seq(Served)] /\ now' \in Nat
           /\ missed' \subseteq Threads /\ sent' \in [prompts : SUBSET Prompts, tokens : Nat]
           /\ processes' \in 0 .. MaxProcesses /\ program' = program /\ dir' = dir
<1>1. [Resting EXCEPT !.pc = "ready"] \in ThreadState /\ [Resting EXCEPT !.pc = "ready"].pc = "ready"
    BY ReplayAssumption DEF Resting, ThreadState, Codes
<1>2. thread' \in [Threads -> ThreadState] /\ \A t \in Threads : thread'[t].pc = "ready"
    BY <1>1 DEF Launch
<1>3. {o.key : o \in ToSet(cassette)} \subseteq Keys
    <2>1. DOMAIN cassette = 1 .. Len(cassette) /\ \A i \in 1 .. Len(cassette) : cassette[i] \in Observation
        BY LenProperties, ElementOfSeq
    <2> QED BY <2>1 DEF ToSet, Observation
<1>4. DOMAIN cursors' \subseteq Keys /\ cursors' \in [DOMAIN cursors' -> Nat]
    BY <1>3 DEF Launch
<1>5. << >> \in Seq(Served)
    BY EmptySeq
<1>6. processes' \in 0 .. MaxProcesses
    BY ReplayAssumption DEF Launch, TypeOK
<1> QED BY <1>2, <1>4, <1>5, <1>6 DEF Launch, NoFile, NothingSent

\* The end of a process.
LEMMA ExitKeepsPlaces ==
    ASSUME PlaceInv, ExitRecorded \/ \E code \in ExitCodes : Exit(code)
    PROVE  PlaceInv'
<1>1. CASE ExitRecorded
    <2>1. /\ ci.pc = "agent" /\ ci.mode = "record" /\ ci' = [ci EXCEPT !.pc = "idle"]
          /\ Gone /\ UNCHANGED <<program, processes>>
        BY <1>1 DEF ExitRecorded, AgentDone
    <2>2. dir' \in Seq(Fixture)
        <3>1. <<NewFixture>> \in Seq(Fixture)
            BY NewFixtureType DEF PlaceInv
        <3> QED BY <1>1, <3>1 DEF ExitRecorded, PlaceInv, TypeOK
    <2>3. ci' \in Command /\ ci'.pc = "idle"
        BY <2>1 DEF PlaceInv, TypeOK, Command
    <2>4. TypeOK'
        BY <2>1, <2>2, <2>3, GoneType DEF PlaceInv, TypeOK
    <2>5. CommandInv'
        BY <2>3 DEF CommandInv
    <2>6. ThreadInv'
        BY <2>1, GoneType DEF ThreadInv
    <2> QED BY <2>4, <2>5, <2>6 DEF PlaceInv
<1>2. ASSUME NEW code \in ExitCodes, Exit(code)
      PROVE  PlaceInv'
    <2>1. /\ ci.pc = "agent" /\ ci.mode # "record" /\ WriteServed
          /\ ci' = [ci EXCEPT !.pc = "judge", !.code = code]
          /\ \A t \in Threads : thread[t].pc = "ended"
          /\ UNCHANGED <<program, processes, thread, cursors, log, now, missed, sent>>
        BY <1>2 DEF Exit, AgentDone
    <2>2. code \in Codes
        BY ReplayAssumption DEF ExitCodes, PlaceInv, TypeOK, ThreadState
    <2>3. /\ ci' \in Command /\ ci'.pc = "judge" /\ ci'.mode = ci.mode /\ ci'.todo = ci.todo
          /\ ci.todo # << >>
        BY <2>1, <2>2 DEF PlaceInv, TypeOK, Command, CommandInv
    <2>4. /\ dir' \in Seq(Fixture) /\ file' \in [exists : BOOLEAN, served : Seq(Served)]
          /\ written' = TRUE /\ Len(ci.todo) <= Len(dir')
          /\ \A i \in 1 .. Len(ci.todo) : ci.todo[i] = dir'[Len(dir') - Len(ci.todo) + i]
        BY <2>1, <2>3, WriteKeepsTodo
    <2>5. TypeOK'
        BY <2>1, <2>3, <2>4 DEF PlaceInv, TypeOK
    <2>6. CommandInv'
        BY <2>1, <2>3, <2>4 DEF CommandInv
    <2>7. ThreadInv'
        BY <2>1 DEF ThreadInv
    <2> QED BY <2>5, <2>6, <2>7 DEF PlaceInv
<1> QED BY <1>1, <1>2

\* Everything else happens between processes.
LEMMA CommandKeepsPlaces ==
    ASSUME PlaceInv,
           \/ \E p \in Programs : Edit(p)
           \/ \E mode \in {"pure", "hybrid"}, allow \in BOOLEAN : Start(mode, allow)
           \/ Record \/ Replays \/ Judge \/ Verdict
    PROVE  PlaceInv'
<1>0. ci \in Command /\ dir \in Seq(Fixture) /\ Len(dir) \in Nat /\ ci.todo \in Seq(Fixture)
    BY LenProperties DEF PlaceInv, TypeOK, Command
<1>1. CASE \E p \in Programs : Edit(p)
    <2>1. PICK p \in Programs : Edit(p)
        BY <1>1
    <2>2. /\ ci.pc = "idle" /\ program' = p /\ ci' = [ci EXCEPT !.verdict = "none"]
          /\ UNCHANGED <<dir, processVars, processes>>
        BY <2>1 DEF Edit
    <2>3. ci' \in Command /\ ci'.pc = "idle"
        BY <1>0, <2>2 DEF Command
    <2>4. TypeOK'
        BY <2>2, <2>3 DEF PlaceInv, TypeOK, processVars
    <2>5. ThreadInv'
        BY <2>2 DEF PlaceInv, ThreadInv, processVars
    <2> QED BY <2>3, <2>4, <2>5 DEF PlaceInv, CommandInv
<1>2. ASSUME NEW mode \in {"pure", "hybrid"}, NEW allow \in BOOLEAN, Start(mode, allow)
      PROVE  PlaceInv'
    <2>1. /\ ci.pc = "idle" /\ UNCHANGED <<program, dir, processVars, processes>>
          /\ ci' = [pc |-> "loop", mode |-> mode, allow |-> allow, todo |-> dir,
                    failed |-> FALSE, code |-> 0, verdict |-> "none"]
        BY <1>2 DEF Start
    <2>2. ci' \in Command /\ ci'.pc = "loop" /\ ci'.mode = mode /\ ci'.todo = dir
        BY <1>0, <2>1 DEF Command, Modes, Codes
    <2>3. TypeOK'
        BY <2>1, <2>2 DEF PlaceInv, TypeOK, processVars
    <2>4. ThreadInv'
        BY <2>1 DEF PlaceInv, ThreadInv, processVars
    <2>5. CommandInv'
        BY <1>0, <2>1, <2>2 DEF CommandInv
    <2> QED BY <2>3, <2>4, <2>5 DEF PlaceInv
<1>3. CASE Record
    <2>1. /\ Launch(<< >>) /\ ci' = [ci EXCEPT !.pc = "agent", !.mode = "record",
                                               !.allow = FALSE, !.verdict = "none"]
        BY <1>3 DEF Record
    <2>2. ci' \in Command /\ ci'.pc = "agent" /\ ci'.mode = "record"
        BY <1>0, <2>1 DEF Command, Modes
    <2>3. << >> \in Seq(Observation)
        BY EmptySeq
    <2>4. TypeOK' /\ \A t \in Threads : thread'[t].pc = "ready"
        BY <2>1, <2>2, <2>3, LaunchType DEF PlaceInv, TypeOK
    <2> QED BY <2>2, <2>4 DEF PlaceInv, ThreadInv, CommandInv
<1>4. CASE Replays
    <2>1. /\ ci.pc = "loop" /\ ci.todo # << >> /\ Launch(Head(ci.todo).obs)
          /\ ci' = [ci EXCEPT !.pc = "agent"]
        BY <1>4 DEF Replays
    <2>2. /\ ci' \in Command /\ ci'.pc = "agent" /\ ci'.mode = ci.mode /\ ci'.todo = ci.todo
        BY <1>0, <2>1 DEF Command
    <2>3. Head(ci.todo).obs \in Seq(Observation)
        <3>1. Head(ci.todo) \in Fixture
            BY <1>0, <2>1, HeadTailProperties
        <3> QED BY <3>1 DEF Fixture
    <2>4. TypeOK' /\ dir' = dir /\ \A t \in Threads : thread'[t].pc = "ready"
        BY <2>1, <2>2, <2>3, LaunchType DEF PlaceInv, TypeOK
    <2>5. CommandInv'
        BY <2>1, <2>2, <2>4 DEF PlaceInv, CommandInv
    <2> QED BY <2>2, <2>4, <2>5 DEF PlaceInv, ThreadInv
<1>5. CASE Judge
    <2>1. /\ ci.pc = "judge" /\ Gone /\ UNCHANGED <<program, dir, processes>>
          /\ ci' = [ci EXCEPT !.pc = "loop", !.todo = Tail(@),
                             !.failed = @ \/ ~FixturePassed, !.code = 0]
        BY <1>5 DEF Judge
    <2>2. /\ ci.mode # "record" /\ ci.todo # << >> /\ Len(ci.todo) \in Nat /\ Len(ci.todo) <= Len(dir)
          /\ \A i \in 1 .. Len(ci.todo) : ci.todo[i] = dir[Len(dir) - Len(ci.todo) + i]
        BY <1>0, <2>1, LenProperties DEF PlaceInv, CommandInv
    <2>3. /\ Tail(ci.todo) \in Seq(Fixture) /\ Len(Tail(ci.todo)) = Len(ci.todo) - 1
          /\ \A i \in 1 .. Len(Tail(ci.todo)) : Tail(ci.todo)[i] = ci.todo[i + 1]
        BY <1>0, <2>2, HeadTailProperties
    <2>4. /\ ci' \in Command /\ ci'.pc = "loop" /\ ci'.mode = ci.mode /\ ci'.todo = Tail(ci.todo)
        BY <1>0, <2>1, <2>3 DEF Command, Codes
    <2>5. TypeOK' /\ \A t \in Threads : thread'[t].pc = "ended"
        BY <2>1, <2>4, GoneType DEF PlaceInv, TypeOK
    <2>6. CommandInv'
        <3>1. ASSUME NEW i \in 1 .. Len(Tail(ci.todo))
              PROVE  Tail(ci.todo)[i] = dir[Len(dir) - Len(Tail(ci.todo)) + i]
            <4>1. PICK n \in Nat : n = Len(ci.todo)
                BY <2>2
            <4>2. Len(Tail(ci.todo)) = n - 1 /\ i \in 1 .. n - 1 /\ Len(dir) \in Nat
                BY <1>0, <2>3, <4>1
            <4>3. i + 1 \in 1 .. n /\ Len(dir) - n + (i + 1) = Len(dir) - (n - 1) + i
                BY <4>2
            <4> QED BY <2>2, <2>3, <4>1, <4>2, <4>3
        <3>2. Len(Tail(ci.todo)) <= Len(dir)
            BY <1>0, <2>2, <2>3
        <3> QED BY <2>1, <2>2, <2>4, <3>1, <3>2 DEF CommandInv
    <2>7. ThreadInv'
        BY <2>5 DEF ThreadInv
    <2> QED BY <2>5, <2>6, <2>7 DEF PlaceInv
<1>6. CASE Verdict
    <2>1. /\ ci.pc = "loop" /\ UNCHANGED <<program, dir, processVars, processes>>
          /\ ci' = [ci EXCEPT !.pc = "idle", !.verdict = IF ci.failed THEN "failed" ELSE "passed"]
        BY <1>6 DEF Verdict
    <2>2. ci' \in Command /\ ci'.pc = "idle"
        BY <1>0, <2>1 DEF Command
    <2>3. TypeOK'
        BY <2>1, <2>2 DEF PlaceInv, TypeOK, processVars
    <2>4. ThreadInv'
        BY <2>1 DEF PlaceInv, ThreadInv, processVars
    <2> QED BY <2>2, <2>3, <2>4 DEF PlaceInv, CommandInv
<1> QED BY <1>1, <1>2, <1>3, <1>4, <1>5, <1>6

\* Every step keeps types and places.
LEMMA StepPlaces == PlaceInv /\ [Next]_vars => PlaceInv'
<1>1. PlaceInv /\ UNCHANGED vars => PlaceInv'
    <2> SUFFICES ASSUME PlaceInv, UNCHANGED vars PROVE PlaceInv'
        OBVIOUS
    <2>1. TypeOK'
        BY DEF vars, processVars, PlaceInv, TypeOK
    <2>2. CommandInv'
        BY DEF vars, processVars, PlaceInv, CommandInv
    <2>3. ThreadInv'
        BY DEF vars, processVars, PlaceInv, ThreadInv, Key, Prompt, Matching, Cassette
    <2> QED BY <2>1, <2>2, <2>3 DEF PlaceInv
<1> QED BY <1>1, ShimKeepsPlaces, ExitKeepsPlaces, CommandKeepsPlaces DEF Next

\* Types and places, in every state.
LEMMA Places == Spec => []PlaceInv
BY InitPlaces, StepPlaces, PTL DEF Spec

\* Every variable keeps its type: what is recorded, served and written are
\* observations and fixtures.
THEOREM ReplayTypeCorrect == Spec => []TypeOK
<1>1. PlaceInv => TypeOK
    BY DEF PlaceInv
<1> QED BY <1>1, Places, PTL

-----------------------------------------------------------------------------
(* What is sent. *)

\* The fields that the step lemmas read.
Shape == /\ {"pc", "mode", "allow"} \subseteq DOMAIN ci
         /\ {"prompts", "tokens"} = DOMAIN sent

SendInv == Shape /\ NothingUnwantedIsSent

LEMMA InitSends == Init => SendInv
  BY DEF Init, NothingSent, SendInv, Shape, NothingUnwantedIsSent

\* A step of the shim leaves the command alone, and only GoLive adds a
\* prompt to what was sent.
LEMMA ShimSends ==
    ASSUME SendInv, NEW t \in Threads, Shim(t)
    PROVE  SendInv'
<1> USE DEF SendInv, Shape
<1>1. CASE Look(t) \/ Advance(t) \/ Serve(t) \/ Finish(t) \/ ConnectionFails(t)
  BY <1>1 DEF Look, Advance, Serve, Finish, ConnectionFails, Frame, NothingUnwantedIsSent
<1>2. CASE Miss(t)
  BY <1>2 DEF Miss, NothingUnwantedIsSent
<1>3. CASE GoLive(t)
  <2>1. ci' = ci /\ sent' = [sent EXCEPT !.prompts = @ \cup {Prompt(t)}]
    BY <1>3 DEF GoLive, Frame
  <2>2. sent'.prompts = sent.prompts \cup {Prompt(t)} /\ DOMAIN sent' = DOMAIN sent
    BY <2>1
  <2>3. ci.pc = "agent" /\ ci.mode # "pure"
    BY <1>3 DEF GoLive, Calls
  <2>4. ci.mode = "hybrid" /\ ~ci.allow => Prompt(t) \notin Irreversible
    BY <1>3 DEF GoLive, Refused
  <2>5. ci.mode = "hybrid" /\ ~ci.allow => sent'.prompts \cap Irreversible = {}
    BY <2>2, <2>3, <2>4 DEF NothingUnwantedIsSent
  <2> QED BY <2>1, <2>2, <2>3, <2>5 DEF NothingUnwantedIsSent
<1>4. CASE \E a \in Answers : LiveAnswer(t, a)
  <2>1. PICK a \in Answers : LiveAnswer(t, a)
    BY <1>4
  <2>2. ci' = ci /\ sent' = [sent EXCEPT !.tokens = @ + TokensOf[a]]
    BY <2>1 DEF LiveAnswer, Frame
  <2>3. sent'.prompts = sent.prompts /\ DOMAIN sent' = DOMAIN sent
    BY <2>2
  <2> QED BY <2>2, <2>3 DEF NothingUnwantedIsSent
<1> QED BY <1>1, <1>2, <1>3, <1>4 DEF Shim

\* A process starts with nothing sent, and the mode changes between
\* processes only.
LEMMA StepSends == SendInv /\ [Next]_vars => SendInv'
<1> SUFFICES ASSUME SendInv, [Next]_vars PROVE SendInv'
  OBVIOUS
<1> USE DEF SendInv, Shape, NothingUnwantedIsSent, NothingSent
<1>1. CASE \E t \in Threads : Shim(t)
  BY <1>1, ShimSends
<1>2. CASE \E code \in ExitCodes : Exit(code)
  BY <1>2 DEF Exit, AgentDone
<1>3. CASE \E p \in Programs : Edit(p)
  BY <1>3 DEF Edit, processVars
<1>4. CASE \E mode \in {"pure", "hybrid"}, allow \in BOOLEAN : Start(mode, allow)
  BY <1>4 DEF Start, processVars
<1>5. CASE ExitRecorded
  BY <1>5 DEF ExitRecorded, Gone
<1>6. CASE Record
  BY <1>6 DEF Record, Launch
<1>7. CASE Replays
  BY <1>7 DEF Replays, Launch
<1>8. CASE Judge
  BY <1>8 DEF Judge, Gone
<1>9. CASE Verdict
  BY <1>9 DEF Verdict, processVars
<1>10. CASE UNCHANGED vars
  BY <1>10 DEF vars, processVars
<1> QED
  BY <1>1, <1>2, <1>3, <1>4, <1>5, <1>6, <1>7, <1>8, <1>9, <1>10 DEF Next

\* Pure mode sends nothing to the provider; hybrid mode nothing that declares
\* an irreversible tool unless that was allowed (replayer.py lines 140-157
\* and 215-238).
THEOREM ForbiddenCallsAreNotMade == Spec => []NothingUnwantedIsSent
<1>1. SendInv => NothingUnwantedIsSent
  BY DEF SendInv
<1> QED BY InitSends, StepSends, <1>1, PTL DEF Spec

-----------------------------------------------------------------------------
(* What is served. *)

\* A log that grows by one entry.
LEMMA LogGrows ==
    ASSUME TypeOK, NEW e \in Served, log' = Append(log, e)
    PROVE  /\ Len(log) \in Nat /\ DOMAIN log = 1 .. Len(log) /\ DOMAIN log' = 1 .. Len(log) + 1
           /\ log'[Len(log) + 1] = e /\ \A i \in 1 .. Len(log) : log'[i] = log[i]
           /\ \A key : Hits(key)' = IF e.key = key /\ e.source = "cassette"
                                    THEN Hits(key) \cup {Len(log) + 1} ELSE Hits(key)
<1>1. /\ log \in Seq(Served) /\ Len(log) \in Nat /\ DOMAIN log = 1 .. Len(log)
      /\ Len(log') = Len(log) + 1 /\ log' \in Seq(Served)
      /\ log'[Len(log) + 1] = e /\ \A i \in 1 .. Len(log) : log'[i] = log[i]
    BY AppendProperties, LenProperties DEF TypeOK
<1>2. DOMAIN log' = 1 .. Len(log) + 1
    BY <1>1, LenProperties
<1>3. 1 .. Len(log) + 1 = (1 .. Len(log)) \cup {Len(log) + 1} /\ Len(log) + 1 \notin 1 .. Len(log)
    BY <1>1
<1>4. ASSUME NEW key
      PROVE  Hits(key)' = IF e.key = key /\ e.source = "cassette"
                          THEN Hits(key) \cup {Len(log) + 1} ELSE Hits(key)
    <2>1. Hits(key)' = {i \in DOMAIN log' : log'[i].key = key /\ log'[i].source = "cassette"}
        BY DEF Hits
    <2> QED BY <1>1, <1>2, <1>3, <2>1 DEF Hits
<1> QED BY <1>1, <1>2, <1>4

\* The calls that the cassette has answered.
LEMMA HitsType ==
    ASSUME TypeOK, NEW key
    PROVE  /\ Hits(key) \subseteq 1 .. Len(log) /\ Hits(key) \subseteq Nat /\ IsFiniteSet(Hits(key))
           /\ Cardinality(Hits(key)) \in Nat
<1>1. Len(log) \in Nat /\ DOMAIN log = 1 .. Len(log)
    BY LenProperties DEF TypeOK
<1>2. Hits(key) \subseteq 1 .. Len(log) /\ IsFiniteSet(1 .. Len(log))
    BY <1>1, FS_Interval DEF Hits
<1>3. IsFiniteSet(Hits(key)) /\ Cardinality(Hits(key)) \in Nat
    BY <1>2, FS_Subset, FS_CardinalityType
<1> QED BY <1>1, <1>2, <1>3

\* The cursor of a request that one thread makes is the number of its hits,
\* one more between the store and the answer; and what the thread has read
\* is that number.
Cursors(key) ==
    /\ \A t \in Threads : thread[t].pc \in {"found", "taken"} /\ Key(t) = key =>
           thread[t].cursor = Cardinality(Hits(key))
    /\ key \in DOMAIN cursors =>
           cursors[key] = Cardinality(Hits(key))
               + IF \E t \in Threads : thread[t].pc = "taken" /\ Key(t) = key THEN 1 ELSE 0

\* The hits of a key, each with the observation of its rank.
InOrder(key) ==
    \A i \in Hits(key) :
        /\ Cardinality(Under(Hits(key), i)) < Cardinality(Matching(key))
        /\ log[i].index = Nth(Matching(key), Cardinality(Under(Hits(key), i)))

ServeInv ==
    ci.pc \in {"agent", "judge"} =>
        \A key \in Keys : ~Shared(key) => Cursors(key) /\ InOrder(key)

\* What holds of each request holds of the calls.
LEMMA ServedInOrder == PlaceInv /\ ServeInv => OrdinalServing
<1> SUFFICES ASSUME PlaceInv, ServeInv, ci.pc \in {"agent", "judge"}, NEW i \in DOMAIN log,
                    i \in Hits(log[i].key), ~Shared(log[i].key)
             PROVE  /\ Cardinality({j \in Hits(log[i].key) : j < i}) < Cardinality(Matching(log[i].key))
                    /\ log[i].index = Nth(Matching(log[i].key),
                                          Cardinality({j \in Hits(log[i].key) : j < i}))
    BY DEF OrdinalServing
<1>1. log[i] \in Served
    BY ElementOfSeq, LenProperties DEF PlaceInv, TypeOK
<1>2. InOrder(log[i].key)
    BY <1>1 DEF ServeInv, Served
<1> QED BY <1>2 DEF InOrder, Under

\* Two threads that are at one request share it.
LEMMA OneThread ==
    ASSUME TypeOK, NEW t \in Threads, NEW u \in Threads,
           thread[t].step <= Len(program[t]), thread[u].step <= Len(program[u]),
           Key(u) = Key(t), ~Shared(Key(t))
    PROVE  u = t
<1>1. Prompt(t) \in ToSet(program[t]) /\ Prompt(u) \in ToSet(program[u])
    BY KeyIsAKey
<1>2. Key(t).prompt = Prompt(t) /\ Key(u).prompt = Prompt(u)
    BY DEF Key
<1> QED BY <1>1, <1>2 DEF Shared

\* A step of a thread that is not at a hit, before and after.
LEMMA ElsewhereKeepsServing ==
    ASSUME PlaceInv, ServeInv, NEW t \in Threads, NEW self,
           thread' = [thread EXCEPT ![t] = self],
           thread[t].pc \notin {"found", "taken"}, self.pc \notin {"found", "taken"},
           ci' = ci, program' = program, cursors' = cursors,
           \A key : Hits(key)' = Hits(key),
           \A i \in DOMAIN log : log'[i] = log[i]
    PROVE  ServeInv'
<1>1. \A u \in Threads : thread'[u] = IF u = t THEN self ELSE thread[u]
    BY DEF PlaceInv, TypeOK
<1>2. \A key : Matching(key)' = Matching(key) /\ Shared(key)' = Shared(key)
    BY DEF Matching, Cassette, Shared
<1>3. \A u \in Threads : u # t => Key(u)' = Key(u) /\ thread'[u] = thread[u]
    BY <1>1 DEF Key, Prompt
<1>4. ASSUME NEW key \in Keys, Cursors(key) PROVE Cursors(key)'
    <2>1. \A u \in Threads : thread'[u].pc \in {"found", "taken"} /\ Key(u)' = key =>
              thread[u].pc \in {"found", "taken"} /\ Key(u) = key /\ thread'[u].cursor = thread[u].cursor
        BY <1>1, <1>3
    <2>2. (\E u \in Threads : thread'[u].pc = "taken" /\ Key(u)' = key) <=>
              (\E u \in Threads : thread[u].pc = "taken" /\ Key(u) = key)
        BY <1>1, <1>3
    <2> QED BY <1>4, <2>1, <2>2 DEF Cursors
<1>5. ASSUME NEW key \in Keys, InOrder(key) PROVE InOrder(key)'
    <2>1. \A i \in Hits(key) : i \in DOMAIN log
        BY DEF Hits
    <2>2. \A i : Under(Hits(key)', i) = Under(Hits(key), i)
        BY DEF Under
    <2>3. \A i \in Hits(key)' : /\ Cardinality(Under(Hits(key)', i)) < Cardinality(Matching(key)')
                                /\ log'[i].index = Nth(Matching(key)', Cardinality(Under(Hits(key)', i)))
        BY <1>2, <1>5, <2>1, <2>2 DEF InOrder
    <2> QED BY <2>3 DEF InOrder, Under, Nth
<1> QED BY <1>2, <1>4, <1>5 DEF ServeInv

\* The lookup reads the number of hits.
LEMMA LookServes ==
    ASSUME PlaceInv, ServeInv, NEW t \in Threads, Look(t)
    PROVE  ServeInv'
<1> DEFINE self == [thread[t] EXCEPT !.pc = "found", !.cursor = cursors[Key(t)]]
<1>1. /\ ci.pc = "agent" /\ thread[t].pc = "ready" /\ thread[t].step <= Len(program[t])
      /\ Key(t) \in DOMAIN cursors /\ thread' = [thread EXCEPT ![t] = self] /\ TypeOK
      /\ UNCHANGED <<program, ci, cursors, log>>
    BY DEF Look, Calls, Found, Frame, PlaceInv
<1>2. /\ thread[t] \in ThreadState /\ self.pc = "found" /\ self.cursor = cursors[Key(t)]
      /\ self.step = thread[t].step /\ self.last = thread[t].last
      /\ \A u \in Threads : thread'[u] = IF u = t THEN self ELSE thread[u]
    BY <1>1 DEF TypeOK, ThreadState
<1> HIDE DEF self
<1>3. \A key : Matching(key)' = Matching(key) /\ Shared(key)' = Shared(key) /\ Hits(key)' = Hits(key)
    BY <1>1 DEF Matching, Cassette, Shared, Hits
<1>4. \A u \in Threads : Key(u)' = Key(u)
    BY <1>1, <1>2 DEF Key, Prompt
<1>5. ASSUME NEW key \in Keys, ~Shared(key), Cursors(key) PROVE Cursors(key)'
    <2>1. (\E u \in Threads : thread'[u].pc = "taken" /\ Key(u)' = key) <=>
              (\E u \in Threads : thread[u].pc = "taken" /\ Key(u) = key)
        BY <1>1, <1>2, <1>4
    <2>2. ASSUME NEW u \in Threads, thread'[u].pc \in {"found", "taken"}, Key(u)' = key
          PROVE  thread'[u].cursor = Cardinality(Hits(key))
        <3>1. CASE u # t
            BY <1>2, <1>4, <1>5, <2>2, <3>1 DEF Cursors
        <3>2. CASE u = t
            <4>1. Key(t) = key
                BY <1>4, <2>2, <3>2
            <4>2. ASSUME NEW v \in Threads, thread[v].pc = "taken", Key(v) = key PROVE FALSE
                <5>1. thread[v].step <= Len(program[v])
                    BY <4>2 DEF PlaceInv, ThreadInv
                <5>2. v = t
                    BY <1>1, <1>5, <4>1, <4>2, <5>1, OneThread
                <5> QED BY <1>1, <4>2, <5>2
            <4>3. cursors[key] = Cardinality(Hits(key)) + 0
                BY <1>1, <1>5, <4>1, <4>2 DEF Cursors
            <4>4. Cardinality(Hits(key)) \in Nat
                BY <1>1, HitsType
            <4> QED BY <1>2, <3>2, <4>1, <4>3, <4>4
        <3> QED BY <3>1, <3>2
    <2> QED BY <1>1, <1>3, <1>5, <2>1, <2>2 DEF Cursors
<1>6. ASSUME NEW key \in Keys, InOrder(key) PROVE InOrder(key)'
    BY <1>1, <1>3, <1>6 DEF InOrder, Under, Nth
<1> QED BY <1>1, <1>3, <1>5, <1>6 DEF ServeInv

\* The store of the cursor counts the hit that is coming.
LEMMA AdvanceServes ==
    ASSUME PlaceInv, ServeInv, NEW t \in Threads, Advance(t)
    PROVE  ServeInv'
<1> DEFINE self == [thread[t] EXCEPT !.pc = "taken"]
<1>1. /\ thread[t].pc = "found" /\ thread' = [thread EXCEPT ![t] = self] /\ TypeOK
      /\ cursors' = [cursors EXCEPT ![Key(t)] = thread[t].cursor + 1]
      /\ UNCHANGED <<program, ci, log>>
    BY DEF Advance, Frame, PlaceInv
<1>2. /\ thread[t] \in ThreadState /\ self.pc = "taken" /\ self.cursor = thread[t].cursor
      /\ self.step = thread[t].step /\ self.last = thread[t].last
      /\ \A u \in Threads : thread'[u] = IF u = t THEN self ELSE thread[u]
    BY <1>1 DEF TypeOK, ThreadState
<1> HIDE DEF self
<1>3. /\ ci.pc = "agent" /\ thread[t].step <= Len(program[t]) /\ Key(t) \in DOMAIN cursors
    BY <1>1 DEF PlaceInv, ThreadInv
<1>4. \A key : Matching(key)' = Matching(key) /\ Shared(key)' = Shared(key) /\ Hits(key)' = Hits(key)
    BY <1>1 DEF Matching, Cassette, Shared, Hits
<1>5. \A u \in Threads : Key(u)' = Key(u)
    BY <1>1, <1>2 DEF Key, Prompt
<1>6. ASSUME NEW key \in Keys, ~Shared(key), Cursors(key) PROVE Cursors(key)'
    <2>1. \A u \in Threads : thread'[u].pc \in {"found", "taken"} /\ Key(u)' = key =>
              thread'[u].cursor = Cardinality(Hits(key))
        BY <1>1, <1>2, <1>5, <1>6 DEF Cursors
    <2>2. CASE key = Key(t)
        <3>1. \E u \in Threads : thread'[u].pc = "taken" /\ Key(u)' = key
            BY <1>2, <1>5, <2>2
        <3>2. cursors'[key] = Cardinality(Hits(key)) + 1
            BY <1>1, <1>3, <1>6, <2>2 DEF Cursors
        <3> QED BY <1>4, <2>1, <3>1, <3>2 DEF Cursors
    <2>3. CASE key # Key(t)
        <3>1. (\E u \in Threads : thread'[u].pc = "taken" /\ Key(u)' = key) <=>
                  (\E u \in Threads : thread[u].pc = "taken" /\ Key(u) = key)
            BY <1>2, <1>5, <2>3
        <3>2. key \in DOMAIN cursors' => key \in DOMAIN cursors /\ cursors'[key] = cursors[key]
            BY <1>1, <2>3
        <3> QED BY <1>4, <1>6, <2>1, <3>1, <3>2 DEF Cursors
    <2> QED BY <2>2, <2>3
<1>7. ASSUME NEW key \in Keys, InOrder(key) PROVE InOrder(key)'
    BY <1>1, <1>4, <1>7 DEF InOrder, Under, Nth
<1> QED BY <1>1, <1>3, <1>4, <1>6, <1>7 DEF ServeInv

\* The answer is the observation of the rank that the hit gets.
LEMMA AnswerServes ==
    ASSUME PlaceInv, ServeInv, NEW t \in Threads, Serve(t)
    PROVE  ServeInv'
<1> DEFINE index == Nth(Matching(Key(t)), thread[t].cursor)
           out == Cassette[index].out
           self == Answered(thread[t], out)
           e == [key |-> Key(t), out |-> out, begin |-> now, end |-> now,
                 source |-> "cassette", index |-> index]
           new == Len(log) + 1
<1>1. /\ thread[t].pc = "taken" /\ thread' = [thread EXCEPT ![t] = self] /\ TypeOK
      /\ log' = Append(log, e) /\ UNCHANGED <<program, ci, cursors>>
    BY DEF Serve, Frame, PlaceInv
<1>2. /\ ci.pc = "agent" /\ thread[t].step <= Len(program[t])
      /\ thread[t].cursor < Cardinality(Matching(Key(t)))
    BY <1>1 DEF PlaceInv, ThreadInv
<1>3. index \in Nat /\ out \in Answers /\ Key(t) \in Keys /\ now \in Nat
    BY <1>1, FoundIsThere DEF Observation, TypeOK
<1>4. /\ e \in Served /\ e.key = Key(t) /\ e.source = "cassette" /\ e.index = index
    BY <1>3 DEF Served
<1>5. /\ self.pc = "ready" /\ \A u \in Threads : thread'[u] = IF u = t THEN self ELSE thread[u]
    BY <1>1, <1>3, AnsweredType DEF TypeOK
<1> HIDE DEF self, e
<1>6. /\ Len(log) \in Nat /\ DOMAIN log = 1 .. Len(log) /\ log'[new] = e
      /\ \A i \in 1 .. Len(log) : log'[i] = log[i]
      /\ \A key : Hits(key)' = IF Key(t) = key THEN Hits(key) \cup {new} ELSE Hits(key)
    BY <1>1, <1>4, LogGrows
<1>7. \A key : Matching(key)' = Matching(key) /\ Shared(key)' = Shared(key)
    BY <1>1 DEF Matching, Cassette, Shared
<1>8. \A u \in Threads : u # t => Key(u)' = Key(u) /\ thread'[u] = thread[u]
    BY <1>1, <1>5 DEF Key, Prompt
<1>9. \A key : /\ Hits(key) \subseteq 1 .. Len(log) /\ Hits(key) \subseteq Nat
               /\ IsFiniteSet(Hits(key)) /\ Cardinality(Hits(key)) \in Nat
    BY <1>1, HitsType
<1>10. new \in Nat /\ new \notin 1 .. Len(log)
    BY <1>6
<1>11. \A key : new \notin Hits(key)
    BY <1>9, <1>10
<1>12. \A key : \A i \in Hits(key) : Under(Hits(key)', i) = Under(Hits(key), i)
    <2>1. \A i \in 1 .. Len(log) : ~(new < i)
        BY <1>6
    <2> QED BY <1>6, <1>9, <2>1 DEF Under
<1>13. \A key : Key(t) = key => Under(Hits(key)', new) = Hits(key)
    <2>1. (\A i \in 1 .. Len(log) : i < new) /\ ~(new < new)
        BY <1>6
    <2> QED BY <1>6, <1>9, <2>1 DEF Under
<1> HIDE DEF new
<1>14. ASSUME NEW key \in Keys, ~Shared(key), Cursors(key) PROVE Cursors(key)'
    <2>1. CASE key = Key(t)
        <3>1. ASSUME NEW u \in Threads, thread'[u].pc \in {"found", "taken"}, Key(u)' = key
              PROVE  FALSE
            <4>1. u # t /\ Key(u) = Key(t) /\ thread[u].pc \in {"found", "taken"}
                BY <1>5, <1>8, <2>1, <3>1
            <4>2. thread[u].step <= Len(program[u])
                BY <4>1 DEF PlaceInv, ThreadInv
            <4> QED BY <1>1, <1>2, <1>14, <2>1, <4>1, <4>2, OneThread
        <3>2. key \in DOMAIN cursors => cursors[key] = Cardinality(Hits(key)) + 1
            BY <1>1, <1>14, <2>1 DEF Cursors
        <3>3. Cardinality(Hits(key)') = Cardinality(Hits(key)) + 1
            <4>1. Hits(key)' = Hits(key) \cup {new}
                BY <1>6, <2>1
            <4> QED BY <1>9, <1>11, <4>1, FS_AddElement
        <3>4. key \in DOMAIN cursors' => cursors'[key] = Cardinality(Hits(key)') + 0
            BY <1>1, <1>9, <3>2, <3>3
        <3> QED BY <3>1, <3>4 DEF Cursors
    <2>2. CASE key # Key(t)
        <3>1. Hits(key)' = Hits(key)
            BY <1>6, <2>2
        <3>2. \A u \in Threads : thread'[u].pc \in {"found", "taken"} /\ Key(u)' = key =>
                  thread[u].pc \in {"found", "taken"} /\ Key(u) = key /\ thread'[u] = thread[u]
            BY <1>5, <1>8
        <3>3. (\E u \in Threads : thread'[u].pc = "taken" /\ Key(u)' = key) <=>
                  (\E u \in Threads : thread[u].pc = "taken" /\ Key(u) = key)
            BY <1>5, <1>8, <2>2
        <3> QED BY <1>1, <1>14, <3>1, <3>2, <3>3 DEF Cursors
    <2> QED BY <2>1, <2>2
<1>15. ASSUME NEW key \in Keys, ~Shared(key), Cursors(key), InOrder(key) PROVE InOrder(key)'
    <2>1. ASSUME NEW i \in Hits(key)
          PROVE  /\ Cardinality(Under(Hits(key)', i)) < Cardinality(Matching(key)')
                 /\ log'[i].index = Nth(Matching(key)', Cardinality(Under(Hits(key)', i)))
        BY <1>6, <1>7, <1>9, <1>12, <1>15 DEF InOrder
    <2>2. ASSUME Key(t) = key
          PROVE  /\ Cardinality(Under(Hits(key)', new)) < Cardinality(Matching(key)')
                 /\ log'[new].index = Nth(Matching(key)', Cardinality(Under(Hits(key)', new)))
        <3>1. thread[t].cursor = Cardinality(Hits(key))
            BY <1>1, <1>15, <2>2 DEF Cursors
        <3> QED BY <1>2, <1>4, <1>6, <1>7, <1>13, <2>2, <3>1
    <2>3. \A i \in Hits(key)' : i \in Hits(key) \/ (Key(t) = key /\ i = new)
        BY <1>6
    <2>4. \A i \in Hits(key)' : /\ Cardinality(Under(Hits(key)', i)) < Cardinality(Matching(key)')
                                /\ log'[i].index = Nth(Matching(key)', Cardinality(Under(Hits(key)', i)))
        BY <2>1, <2>2, <2>3
    <2> QED BY <2>4 DEF InOrder, Under, Nth
<1> QED BY <1>1, <1>2, <1>7, <1>14, <1>15 DEF ServeInv

\* The other steps of the shim.
LEMMA ShimServes ==
    ASSUME PlaceInv, ServeInv, NEW t \in Threads, Shim(t)
    PROVE  ServeInv'
<1>1. CASE Look(t) \/ Advance(t) \/ Serve(t)
    BY <1>1, LookServes, AdvanceServes, AnswerServes
<1>2. thread[t] \in ThreadState /\ TypeOK /\ log \in Seq(Served)
    BY DEF PlaceInv, TypeOK
<1>3. CASE Miss(t)
    <2> DEFINE self == Exits(thread[t], IF ci.mode = "pure" THEN 78 ELSE 79)
    <2>1. /\ thread[t].pc = "ready" /\ thread' = [thread EXCEPT ![t] = self]
          /\ UNCHANGED <<program, ci, cursors, log>>
        BY <1>3 DEF Miss, Calls
    <2>2. self.pc = "ended"
        BY <1>2 DEF Exits, ThreadState
    <2>3. \A key : Hits(key)' = Hits(key)
        BY <2>1 DEF Hits
    <2> HIDE DEF self
    <2> QED BY <2>1, <2>2, <2>3, ElsewhereKeepsServing
<1>4. CASE GoLive(t)
    <2> DEFINE self == [thread[t] EXCEPT !.pc = "live", !.begin = now]
    <2>1. /\ thread[t].pc = "ready" /\ thread' = [thread EXCEPT ![t] = self]
          /\ UNCHANGED <<program, ci, cursors, log>>
        BY <1>4 DEF GoLive, Calls, Frame
    <2>2. self.pc = "live"
        BY <1>2 DEF ThreadState
    <2>3. \A key : Hits(key)' = Hits(key)
        BY <2>1 DEF Hits
    <2> HIDE DEF self
    <2> QED BY <2>1, <2>2, <2>3, ElsewhereKeepsServing
<1>5. CASE Finish(t)
    <2> DEFINE self == [thread[t] EXCEPT !.pc = "ended"]
    <2>1. /\ thread[t].pc = "ready" /\ thread' = [thread EXCEPT ![t] = self]
          /\ UNCHANGED <<program, ci, cursors, log>>
        BY <1>5 DEF Finish, Frame
    <2>2. self.pc = "ended"
        BY <1>2 DEF ThreadState
    <2>3. \A key : Hits(key)' = Hits(key)
        BY <2>1 DEF Hits
    <2> HIDE DEF self
    <2> QED BY <2>1, <2>2, <2>3, ElsewhereKeepsServing
<1>6. ASSUME NEW answer \in Answers PROVE Received(thread[t], answer).pc \notin {"found", "taken"}
    BY <1>2, ReceivedType
<1>7. CASE ConnectionFails(t)
    <2>1. /\ thread[t].pc = "live" /\ thread' = [thread EXCEPT ![t] = Received(thread[t], ProviderError)]
          /\ UNCHANGED <<program, ci, cursors, log>>
        BY <1>7 DEF ConnectionFails, Frame
    <2>2. Received(thread[t], ProviderError).pc \notin {"found", "taken"}
        BY <1>6, ReplayAssumption
    <2>3. \A key : Hits(key)' = Hits(key)
        BY <2>1 DEF Hits
    <2> QED BY <2>1, <2>2, <2>3, ElsewhereKeepsServing
<1>8. ASSUME NEW a \in Answers, LiveAnswer(t, a) PROVE ServeInv'
    <2> DEFINE e == [key |-> Key(t), out |-> a, begin |-> thread[t].begin,
                     end |-> now + 1, source |-> "live", index |-> 0]
    <2>1. /\ thread[t].pc = "live" /\ thread' = [thread EXCEPT ![t] = Received(thread[t], a)]
          /\ log' = Append(log, e) /\ UNCHANGED <<program, ci, cursors>>
        BY <1>8 DEF LiveAnswer, Frame
    <2>2. Key(t) \in Keys /\ now \in Nat
        BY <1>2, <2>1, KeyIsAKey DEF PlaceInv, ThreadInv, TypeOK
    <2>3. e \in Served /\ e.source = "live"
        BY <1>2, <2>2 DEF Served, ThreadState
    <2> HIDE DEF e
    <2>4. DOMAIN log = 1 .. Len(log) /\ \A i \in 1 .. Len(log) : log'[i] = log[i]
        BY <1>2, <2>1, <2>3, LogGrows
    <2>5. \A key : Hits(key)' = Hits(key)
        BY <1>2, <2>1, <2>3, LogGrows
    <2>6. \A i \in DOMAIN log : log'[i] = log[i]
        BY <2>4
    <2>7. Received(thread[t], a).pc \notin {"found", "taken"}
        BY <1>6
    <2> QED BY <2>1, <2>5, <2>6, <2>7, ElsewhereKeepsServing
<1> QED BY <1>1, <1>3, <1>4, <1>5, <1>7, <1>8 DEF Shim

\* A process starts with cursors at 0 and nothing served.
LEMMA LaunchServes ==
    ASSUME TypeOK, NEW cassette \in Seq(Observation), Launch(cassette)
    PROVE  ServeInv'
<1>1. /\ \A t \in Threads : thread'[t].pc = "ready"
      /\ cursors' = [k \in {o.key : o \in ToSet(cassette)} |-> 0] /\ log' = << >>
    BY LaunchType DEF Launch
<1>2. \A key : Hits(key)' = {}
    BY <1>1 DEF Hits
<1>3. \A key \in Keys : Cursors(key)' /\ InOrder(key)'
    <2> TAKE key \in Keys
    <2>1. Cardinality(Hits(key)') = 0
        BY <1>2, FS_EmptySet
    <2>2. ~ \E t \in Threads : thread'[t].pc = "taken"
        BY <1>1
    <2>3. key \in DOMAIN cursors' => cursors'[key] = 0
        BY <1>1
    <2>4. Cursors(key)'
        BY <1>1, <2>1, <2>2, <2>3 DEF Cursors
    <2>5. InOrder(key)'
        BY <1>2 DEF InOrder
    <2> QED BY <2>4, <2>5
<1> QED BY <1>3 DEF ServeInv

\* Every step.
LEMMA StepServes == PlaceInv /\ ServeInv /\ [Next]_vars => ServeInv'
<1> SUFFICES ASSUME PlaceInv, ServeInv, [Next]_vars PROVE ServeInv'
    OBVIOUS
<1>0. ci \in Command /\ TypeOK
    BY DEF PlaceInv, TypeOK
<1>1. CASE \E t \in Threads : Shim(t)
    BY <1>1, ShimServes
<1>2. ASSUME ci'.pc \in {"agent", "judge"}, ci.pc \in {"agent", "judge"},
             ci'.mode = ci.mode, ci'.todo = ci.todo, UNCHANGED <<program, thread, cursors, log>>
      PROVE  ServeInv'
    <2>1. \A key : /\ Matching(key)' = Matching(key) /\ Shared(key)' = Shared(key)
                   /\ Hits(key)' = Hits(key)
        BY <1>2 DEF Matching, Cassette, Shared, Hits
    <2>2. \A u \in Threads : Key(u)' = Key(u)
        BY <1>2 DEF Key, Prompt
    <2>3. ASSUME NEW key \in Keys, Cursors(key) PROVE Cursors(key)'
        BY <1>2, <2>1, <2>2, <2>3 DEF Cursors
    <2>4. ASSUME NEW key \in Keys, InOrder(key) PROVE InOrder(key)'
        BY <1>2, <2>1, <2>4 DEF InOrder, Under, Nth
    <2> QED BY <1>2, <2>1, <2>3, <2>4 DEF ServeInv
<1>3. CASE \E code \in ExitCodes : Exit(code)
    <2>1. PICK code \in ExitCodes : Exit(code)
        BY <1>3
    <2>2. /\ ci.pc = "agent" /\ ci' = [ci EXCEPT !.pc = "judge", !.code = code]
          /\ UNCHANGED <<program, thread, cursors, log>>
        BY <2>1 DEF Exit, AgentDone
    <2>3. ci'.pc = "judge" /\ ci'.mode = ci.mode /\ ci'.todo = ci.todo
        BY <1>0, <2>2 DEF Command
    <2> QED BY <1>2, <2>2, <2>3
<1>4. CASE \/ \E p \in Programs : Edit(p)
           \/ \E mode \in {"pure", "hybrid"}, allow \in BOOLEAN : Start(mode, allow)
           \/ ExitRecorded \/ Judge \/ Verdict
    <2>1. CASE \E p \in Programs : Edit(p)
        BY <1>0, <2>1 DEF Edit, Command, ServeInv
    <2>2. CASE \E mode \in {"pure", "hybrid"}, allow \in BOOLEAN : Start(mode, allow)
        BY <2>2 DEF Start, ServeInv
    <2>3. CASE ExitRecorded \/ Judge \/ Verdict
        BY <1>0, <2>3 DEF ExitRecorded, Judge, Verdict, Command, ServeInv
    <2> QED BY <1>4, <2>1, <2>2, <2>3
<1>5. CASE Record
    BY <1>0, <1>5, LaunchServes, EmptySeq DEF Record
<1>6. CASE Replays
    <2>1. ci.todo \in Seq(Fixture) /\ ci.todo # << >> /\ Launch(Head(ci.todo).obs)
        BY <1>0, <1>6 DEF Replays, Command
    <2>2. Head(ci.todo) \in Fixture
        BY <2>1, HeadTailProperties
    <2>3. Head(ci.todo).obs \in Seq(Observation)
        BY <2>2 DEF Fixture
    <2> QED BY <1>0, <2>1, <2>3, LaunchServes
<1>7. CASE UNCHANGED vars
    <2>1. CASE ci.pc \in {"agent", "judge"}
        BY <1>2, <1>7, <2>1 DEF vars, processVars
    <2>2. CASE ci.pc \notin {"agent", "judge"}
        BY <1>7, <2>2 DEF vars, processVars, ServeInv
    <2> QED BY <2>1, <2>2
<1> QED BY <1>1, <1>3, <1>4, <1>5, <1>6, <1>7 DEF Next

\* The calls with one key are answered with the observations of that key, in
\* their order, if one thread makes them: between the lookup and the answer
\* the cursor of the key belongs to that thread (replayer.py lines 64-75).
THEOREM ServedInTheRecordedOrder == Spec => []OrdinalServing
<1>1. Init => ServeInv
    BY DEF Init, ServeInv
<1>2. Spec => []ServeInv
    BY <1>1, StepServes, Places, PTL DEF Spec
<1> QED BY <1>2, Places, ServedInOrder, PTL

-----------------------------------------------------------------------------
(* What is spent. *)

\* The tokens of one entry that came from the provider.
LiveCost(e) == IF e.source = "live" THEN TokensOf[e.out] ELSE 0

\* An entry more costs what it cost.
LEMMA LiveTokensOfMore ==
    ASSUME NEW s \in Seq(Served), NEW e \in Served
    PROVE  /\ LiveTokens(s) \in Nat
           /\ LiveTokens(Append(s, e)) = LiveTokens(s) + LiveCost(e)
<1> USE ReplayAssumption DEF Served
<1> DEFINE ns == [i \in DOMAIN s |-> LiveCost(s[i])]
           more == [i \in DOMAIN Append(s, e) |-> LiveCost(Append(s, e)[i])]
<1>1. /\ Len(s) \in Nat /\ DOMAIN s = 1 .. Len(s) /\ \A i \in 1 .. Len(s) : s[i] \in Served
      /\ Append(s, e) \in Seq(Served) /\ Len(Append(s, e)) = Len(s) + 1
      /\ Append(s, e)[Len(s) + 1] = e /\ \A i \in 1 .. Len(s) : Append(s, e)[i] = s[i]
    <2>1. Len(s) \in Nat /\ DOMAIN s = 1 .. Len(s) /\ \A i \in 1 .. Len(s) : s[i] \in Served
        BY LenProperties, ElementOfSeq
    <2>2. /\ Append(s, e) \in Seq(Served) /\ Len(Append(s, e)) = Len(s) + 1
          /\ Append(s, e)[Len(s) + 1] = e /\ \A i \in 1 .. Len(s) : Append(s, e)[i] = s[i]
        BY AppendProperties
    <2> QED BY <2>1, <2>2
<1>2. \A f \in Served : LiveCost(f) \in Nat
    BY DEF LiveCost
<1>3. ns \in [1 .. Len(s) -> Nat]
    BY <1>1, <1>2
<1>4. ns \in Seq(Nat) /\ ns \in Seq(Int) /\ Len(ns) = Len(s) /\ LiveCost(e) \in Int
    BY <1>1, <1>2, <1>3
<1>5. DOMAIN Append(s, e) = 1 .. Len(s) + 1
    BY <1>1, LenProperties
<1>6. Append(ns, LiveCost(e)) = more
    <2>1. /\ Append(ns, LiveCost(e)) \in Seq(Int) /\ Len(Append(ns, LiveCost(e))) = Len(s) + 1
          /\ Append(ns, LiveCost(e))[Len(s) + 1] = LiveCost(e)
          /\ \A i \in 1 .. Len(s) : Append(ns, LiveCost(e))[i] = ns[i]
        BY <1>4, AppendProperties
    <2>2. DOMAIN Append(ns, LiveCost(e)) = 1 .. Len(s) + 1
        BY <2>1, LenProperties
    <2>3. \A i \in 1 .. Len(s) + 1 : i \in 1 .. Len(s) \/ i = Len(s) + 1
        BY <1>1
    <2>4. \A i \in 1 .. Len(s) : ns[i] = LiveCost(s[i])
        BY <1>1
    <2>5. \A i \in 1 .. Len(s) + 1 : more[i] = LiveCost(Append(s, e)[i])
        BY <1>5
    <2>6. \A i \in 1 .. Len(s) + 1 : Append(ns, LiveCost(e))[i] = more[i]
        <3> HIDE DEF more, ns
        <3> TAKE i \in 1 .. Len(s) + 1
        <3>1. CASE i \in 1 .. Len(s)
            <4>1. Append(ns, LiveCost(e))[i] = ns[i] /\ ns[i] = LiveCost(s[i])
                BY <2>1, <2>4, <3>1
            <4>2. Append(s, e)[i] = s[i] /\ more[i] = LiveCost(Append(s, e)[i])
                BY <1>1, <2>5, <3>1
            <4> QED BY <4>1, <4>2
        <3>2. CASE i = Len(s) + 1
            <4>1. Append(ns, LiveCost(e))[i] = LiveCost(e)
                BY <2>1, <3>2
            <4>2. Append(s, e)[i] = e /\ more[i] = LiveCost(Append(s, e)[i])
                BY <1>1, <2>5, <3>2
            <4> QED BY <4>1, <4>2
        <3> QED BY <2>3, <3>1, <3>2
    <2>7. more = [i \in 1 .. Len(s) + 1 |-> more[i]]
        BY <1>5
    <2>8. Append(ns, LiveCost(e)) = [i \in 1 .. Len(s) + 1 |-> Append(ns, LiveCost(e))[i]]
        BY <1>4, <2>2
    <2> HIDE DEF more, ns
    <2> QED BY <2>6, <2>7, <2>8
<1>7. LiveTokens(s) = Total(ns) /\ LiveTokens(Append(s, e)) = Total(more)
    BY DEF LiveTokens, LiveCost
<1> HIDE DEF ns, more
<1>8. Total(ns) \in Nat
    BY <1>4, TotalIsNat
<1>9. Total(Append(ns, LiveCost(e))) = Total(ns) + LiveCost(e)
    BY <1>4, TotalOfMore
<1> QED BY <1>6, <1>7, <1>8, <1>9

\* A log without entries costs nothing.
LEMMA LiveTokensOfNothing == LiveTokens(<< >>) = 0
<1>1. [i \in DOMAIN << >> |-> LiveCost(<< >>[i])] = << >>
    OBVIOUS
<1>2. LiveTokens(<< >>) = Total([i \in DOMAIN << >> |-> LiveCost(<< >>[i])])
    BY DEF LiveTokens, LiveCost
<1> QED BY <1>1, <1>2, TotalOfNothing

\* The tokens that went to the provider are in the log, and the log is in
\* served.json unless a thread ended at a miss.
SpendInv ==
    /\ sent.tokens = LiveTokens(log)
    /\ ci.pc = "agent" /\ missed = {} => ~written
    /\ ci.pc = "judge" /\ missed = {} => file.served = log

\* Every step.
LEMMA StepSpends == PlaceInv /\ SpendInv /\ [Next]_vars => SpendInv'
<1> SUFFICES ASSUME PlaceInv, SpendInv, [Next]_vars PROVE SpendInv'
    OBVIOUS
<1>0. /\ ci \in Command /\ TypeOK /\ log \in Seq(Served) /\ thread \in [Threads -> ThreadState]
      /\ sent \in [prompts : SUBSET Prompts, tokens : Nat] /\ now \in Nat
    BY DEF PlaceInv, TypeOK
<1>1. ASSUME NEW t \in Threads, Shim(t) PROVE SpendInv'
    <2>1. CASE Look(t) \/ Advance(t) \/ Finish(t) \/ ConnectionFails(t)
        <3>1. UNCHANGED <<ci, log, written, file, missed, sent>>
            BY <2>1 DEF Look, Advance, Finish, ConnectionFails, Frame
        <3> QED BY <3>1 DEF SpendInv
    <2>2. CASE GoLive(t)
        <3>1. UNCHANGED <<ci, log, written, file, missed>> /\ sent'.tokens = sent.tokens
            BY <1>0, <2>2 DEF GoLive, Frame
        <3> QED BY <3>1 DEF SpendInv
    <2>3. CASE Serve(t)
        <3> DEFINE index == Nth(Matching(Key(t)), thread[t].cursor)
                   e == [key |-> Key(t), out |-> Cassette[index].out, begin |-> now,
                         end |-> now, source |-> "cassette", index |-> index]
        <3>1. /\ thread[t].pc = "taken" /\ log' = Append(log, e)
              /\ UNCHANGED <<ci, written, file, missed, sent>>
            BY <2>3 DEF Serve, Frame
        <3>2. index \in Nat /\ Cassette[index].out \in Answers /\ Key(t) \in Keys /\ ci.pc = "agent"
            BY <3>1, FoundIsThere DEF Observation, PlaceInv, ThreadInv
        <3>3. e \in Served /\ LiveCost(e) = 0
            BY <1>0, <3>2 DEF Served, LiveCost
        <3> HIDE DEF e
        <3>4. LiveTokens(log') = LiveTokens(log) + 0 /\ LiveTokens(log) \in Nat
            BY <1>0, <3>1, <3>3, LiveTokensOfMore
        <3>5. LiveTokens(log') = LiveTokens(log)
            BY <3>4
        <3> QED BY <3>1, <3>2, <3>5 DEF SpendInv
    <2>4. ASSUME NEW a \in Answers, LiveAnswer(t, a) PROVE SpendInv'
        <3> DEFINE e == [key |-> Key(t), out |-> a, begin |-> thread[t].begin,
                         end |-> now + 1, source |-> "live", index |-> 0]
        <3>1. /\ thread[t].pc = "live" /\ log' = Append(log, e)
              /\ sent' = [sent EXCEPT !.tokens = @ + TokensOf[a]]
              /\ UNCHANGED <<ci, written, file, missed>>
            BY <2>4 DEF LiveAnswer, Frame
        <3>2. ci.pc = "agent" /\ Key(t) \in Keys /\ thread[t].begin \in Nat
            BY <1>0, <3>1, KeyIsAKey DEF PlaceInv, ThreadInv, ThreadState
        <3>3. e \in Served /\ LiveCost(e) = TokensOf[a]
            BY <1>0, <3>2 DEF Served, LiveCost
        <3> HIDE DEF e
        <3>4. LiveTokens(log') = LiveTokens(log) + TokensOf[a]
            BY <1>0, <3>1, <3>3, LiveTokensOfMore
        <3>5. sent'.tokens = sent.tokens + TokensOf[a]
            BY <1>0, <3>1
        <3> QED BY <3>1, <3>2, <3>4, <3>5 DEF SpendInv
    <2>5. CASE Miss(t)
        <3>1. ci.pc = "agent" /\ missed' # {} /\ UNCHANGED <<ci, log, sent>>
            BY <2>5 DEF Miss, Calls
        <3> QED BY <3>1 DEF SpendInv
    <2> QED BY <1>1, <2>1, <2>2, <2>3, <2>4, <2>5 DEF Shim
<1>2. CASE \E code \in ExitCodes : Exit(code)
    <2>1. PICK code \in ExitCodes : Exit(code)
        BY <1>2
    <2>2. /\ ci.pc = "agent" /\ ci' = [ci EXCEPT !.pc = "judge", !.code = code] /\ WriteServed
          /\ UNCHANGED <<log, missed, sent>>
        BY <2>1 DEF Exit, AgentDone
    <2>3. ci'.pc = "judge"
        BY <1>0, <2>2 DEF Command
    <2>4. missed = {} => file' = [exists |-> TRUE, served |-> log]
        BY <2>2 DEF WriteServed, SpendInv
    <2>5. missed = {} => file'.served = log
        BY <2>4
    <2> QED BY <2>2, <2>3, <2>5 DEF SpendInv
<1>3. CASE ExitRecorded \/ Judge
    <2>1. Gone /\ ci'.pc \notin {"agent", "judge"}
        BY <1>0, <1>3 DEF ExitRecorded, Judge, Command
    <2>2. log' = << >> /\ sent'.tokens = 0
        BY <2>1 DEF Gone, NothingSent
    <2> QED BY <2>1, <2>2, LiveTokensOfNothing DEF SpendInv
<1>4. CASE Record \/ Replays
    <2>1. /\ log' = << >> /\ sent'.tokens = 0 /\ ~written'
        BY <1>4 DEF Record, Replays, Launch, NothingSent
    <2>2. ci'.pc = "agent"
        BY <1>0, <1>4 DEF Record, Replays, Command
    <2> QED BY <2>1, <2>2, LiveTokensOfNothing DEF SpendInv
<1>5. CASE \E p \in Programs : Edit(p)
    <2>1. UNCHANGED <<log, sent>> /\ ci'.pc = "idle"
        BY <1>0, <1>5 DEF Edit, processVars, Command
    <2> QED BY <2>1 DEF SpendInv
<1>6. CASE \E mode \in {"pure", "hybrid"}, allow \in BOOLEAN : Start(mode, allow)
    BY <1>6 DEF Start, processVars, SpendInv
<1>7. CASE Verdict
    <2>1. UNCHANGED <<log, sent>> /\ ci'.pc = "idle"
        BY <1>0, <1>7 DEF Verdict, processVars, Command
    <2> QED BY <2>1 DEF SpendInv
<1>8. CASE UNCHANGED vars
    BY <1>8 DEF vars, processVars, SpendInv
<1> QED BY <1>1, <1>2, <1>3, <1>4, <1>5, <1>6, <1>7, <1>8 DEF Next

\* What a run that passes has spent is within the bound of the fixture: no
\* answer of the provider is missing from what is evaluated (invariants.py
\* lines 157-178, replayer.py lines 239-279 and 342-386).
THEOREM PassesWithinTheBound == Spec => []SpendIsBounded
<1>1. Init => SpendInv
    BY LiveTokensOfNothing DEF Init, SpendInv, NothingSent
<1>2. Spec => []SpendInv
    BY <1>1, StepSpends, Places, PTL DEF Spec
<1>3. PlaceInv /\ SpendInv => SpendIsBounded
    <2> SUFFICES ASSUME PlaceInv, SpendInv, ci.pc = "judge", FixturePassed, missed = {}
                 PROVE  sent.tokens = 0 \/ Within(sent.tokens, Tokens(Cassette))
        BY DEF SpendIsBounded
    <2>1. sent.tokens = LiveTokens(log) /\ file.served = log /\ sent.tokens \in Nat
        BY DEF SpendInv, PlaceInv, TypeOK
    <2>2. LiveTokens(log) > 0 => Within(LiveTokens(log), Tokens(Cassette))
        BY <2>1 DEF FixturePassed, Evaluate, Metric
    <2> QED BY <2>1, <2>2
<1> QED BY <1>2, <1>3, Places, PTL

-----------------------------------------------------------------------------
(* What one thread records. *)

\* What the thread has got before its i-th call.
Before(s, i) == IF i = 1 THEN NoAnswer ELSE s[i - 1].out

\* The calls of a thread with these prompts, each with the answer before it.
InChain(prompts, s) ==
    \A i \in 1 .. Len(s) :
        /\ i <= Len(prompts)
        /\ s[i].key = [prompt |-> prompts[i],
                       last |-> IF prompts[i] \in Chained THEN Before(s, i) ELSE NoAnswer]

\* The calls come one after the other.
InTime(s) ==
    /\ \A i \in 1 .. Len(s) : s[i].begin <= s[i].end
    /\ \A i \in 1 .. Len(s) - 1 : s[i].end <= s[i + 1].begin

\* One call more.
LEMMA ChainGrows ==
    ASSUME NEW s \in Seq(Served), NEW e \in Served, NEW p \in Seq(Prompts),
           InChain(p, s), InTime(s), Len(s) < Len(p),
           e.key = [prompt |-> p[Len(s) + 1],
                    last |-> IF p[Len(s) + 1] \in Chained THEN Before(s, Len(s) + 1) ELSE NoAnswer],
           e.begin <= e.end, Len(s) > 0 => s[Len(s)].end <= e.begin
    PROVE  /\ InChain(p, Append(s, e)) /\ InTime(Append(s, e))
           /\ Before(Append(s, e), Len(s) + 1 + 1) = e.out
           /\ Len(Append(s, e)) = Len(s) + 1 /\ Append(s, e)[Len(s) + 1] = e
<1> DEFINE more == Append(s, e)
<1>1. PICK n \in Nat : n = Len(s) /\ Len(p) \in Nat
    BY LenProperties
<1>2. /\ Len(more) = n + 1 /\ more[n + 1] = e /\ \A i \in 1 .. n : more[i] = s[i]
    BY <1>1, AppendProperties
<1> HIDE DEF more
<1>3. \A i \in 1 .. n + 1 : i = n + 1 \/ i \in 1 .. n
    BY <1>1
<1>4. \A i \in 1 .. n + 1 : i # 1 => i - 1 \in 1 .. n
    BY <1>1
<1>5. \A i \in 1 .. n + 1 : Before(more, i) = Before(s, i)
    BY <1>2, <1>4 DEF Before
<1>6. n + 1 <= Len(p) /\ n + 1 + 1 # 1 /\ n + 1 + 1 - 1 = n + 1
    BY <1>1
<1>7. InChain(p, more)
    <2>1. ASSUME NEW i \in 1 .. n + 1
          PROVE  /\ i <= Len(p)
                 /\ more[i].key = [prompt |-> p[i],
                                   last |-> IF p[i] \in Chained THEN Before(more, i) ELSE NoAnswer]
        <3>1. CASE i = n + 1
            BY <1>1, <1>2, <1>5, <1>6, <3>1
        <3>2. CASE i \in 1 .. n
            BY <1>1, <1>2, <1>5, <3>2 DEF InChain
        <3> QED BY <1>3, <3>1, <3>2
    <2> QED BY <1>2, <2>1 DEF InChain
<1>8. InTime(more)
    <2>1. \A i \in 1 .. n + 1 : more[i].begin <= more[i].end
        BY <1>1, <1>2, <1>3 DEF InTime
    <2>2. ASSUME NEW i \in 1 .. n PROVE more[i].end <= more[i + 1].begin
        <3>1. CASE i = n
            BY <1>1, <1>2, <3>1
        <3>2. CASE i # n
            <4>1. i \in 1 .. n - 1 /\ i + 1 \in 1 .. n
                BY <1>1, <3>2
            <4> QED BY <1>1, <1>2, <4>1 DEF InTime
        <3> QED BY <3>1, <3>2
    <2>3. n + 1 - 1 = n
        BY <1>1
    <2> QED BY <1>2, <2>1, <2>2, <2>3 DEF InTime
<1>9. Before(more, n + 1 + 1) = e.out
    BY <1>2, <1>6 DEF Before
<1> QED BY <1>1, <1>2, <1>7, <1>8, <1>9 DEF more

\* Calls that come one after the other take no longer than the wall clock
\* says.
LEMMA DurationsFit ==
    ASSUME NEW obs \in Seq(Observation), obs # << >>, InTime(obs)
    PROVE  /\ Durations(obs) \in Int /\ WallClock(obs) \in Int
           /\ Durations(obs) <= WallClock(obs) /\ WallClock(obs) >= 0
<1>1. PICK n \in Nat : n = Len(obs) /\ n >= 1
    <2>1. Len(obs) \in Nat /\ Len(obs) # 0
        BY LenProperties, EmptySeq
    <2> QED BY <2>1
<1>2. DOMAIN obs = 1 .. n /\ \A i \in 1 .. n : obs[i].begin \in Nat /\ obs[i].end \in Nat
    <2>1. DOMAIN obs = 1 .. n /\ \A i \in 1 .. n : obs[i] \in Observation
        BY <1>1, LenProperties, ElementOfSeq
    <2> QED BY <2>1 DEF Observation
<1>3. /\ \A i \in 1 .. n : obs[i].begin <= obs[i].end
      /\ \A i \in 1 .. n - 1 : obs[i].end <= obs[i + 1].begin
    BY <1>1 DEF InTime
<1>4. ToSet(obs) = {obs[i] : i \in 1 .. n}
    BY <1>2 DEF ToSet
<1>5. \A i \in 0 .. n - 1 : i + 1 \in 1 .. n
    BY <1>1
<1>6. \A k \in 0 .. n - 1 : \A i \in 1 .. k + 1 : obs[i].end <= obs[k + 1].end
    <2> DEFINE P == {k \in 0 .. n - 1 : \A i \in 1 .. k + 1 : obs[i].end <= obs[k + 1].end}
    <2>1. 0 \in P
        BY <1>1, <1>2
    <2>2. ASSUME NEW k \in 0 .. n - 1 - 1, k \in P PROVE k + 1 \in P
        <3>1. k + 1 \in 1 .. n - 1 /\ k + 1 + 1 \in 1 .. n /\ k + 1 \in 1 .. n /\ k + 1 \in 0 .. n - 1
            BY <1>1
        <3>2. obs[k + 1].end <= obs[k + 1 + 1].end
            <4>1. obs[k + 1].end <= obs[k + 1 + 1].begin
                BY <1>3, <3>1
            <4>2. obs[k + 1 + 1].begin <= obs[k + 1 + 1].end
                BY <1>3, <3>1
            <4>3. obs[k + 1].end \in Nat /\ obs[k + 1 + 1].begin \in Nat /\ obs[k + 1 + 1].end \in Nat
                BY <1>2, <3>1
            <4> QED BY <4>1, <4>2, <4>3
        <3>3. ASSUME NEW i \in 1 .. k + 1 + 1 PROVE obs[i].end <= obs[k + 1 + 1].end
            <4>1. CASE i = k + 1 + 1
                BY <1>2, <3>1, <4>1
            <4>2. CASE i \in 1 .. k + 1
                <5>1. obs[i].end <= obs[k + 1].end /\ i \in 1 .. n
                    BY <1>1, <2>2, <4>2
                <5>2. obs[i].end \in Nat /\ obs[k + 1].end \in Nat /\ obs[k + 1 + 1].end \in Nat
                    BY <1>2, <3>1, <5>1
                <5> QED BY <3>2, <5>1, <5>2
            <4>3. i = k + 1 + 1 \/ i \in 1 .. k + 1
                BY <1>1
            <4> QED BY <4>1, <4>2, <4>3
        <3> QED BY <3>1, <3>3
    <2>3. n - 1 \in Nat
        BY <1>1
    <2>4. 0 .. n - 1 \subseteq P
        <3> HIDE DEF P
        <3> QED BY <2>1, <2>2, <2>3, Induction
    <2> QED BY <2>4
<1> DEFINE Ends == {o.end : o \in ToSet(obs)}
           Begins == {o.begin : o \in ToSet(obs)}
           last == CHOOSE m \in Ends : \A o \in ToSet(obs) : o.end <= m
           first == CHOOSE m \in Begins : \A o \in ToSet(obs) : m <= o.begin
<1>7. last \in Ends /\ \A o \in ToSet(obs) : o.end <= last
    <2>1. n - 1 \in 0 .. n - 1 /\ n - 1 + 1 = n /\ n \in 1 .. n
        BY <1>1
    <2>2. \A i \in 1 .. n : obs[i].end <= obs[n].end
        BY <1>6, <2>1
    <2>3. obs[n].end \in Ends /\ \A o \in ToSet(obs) : o.end <= obs[n].end
        BY <1>4, <2>1, <2>2
    <2> HIDE DEF Ends
    <2> QED BY <2>3
<1>8. first \in Begins /\ \A o \in ToSet(obs) : first <= o.begin
    <2>1. Begins \subseteq Nat /\ Begins # {}
        BY <1>1, <1>2, <1>4
    <2>2. PICK m \in Begins : \A k \in Begins : m <= k
        <3> HIDE DEF Begins
        <3> QED BY <2>1, Least
    <2>3. \A o \in ToSet(obs) : m <= o.begin
        BY <2>2
    <2> HIDE DEF Begins
    <2> QED BY <2>3
<1>9. WallClock(obs) = last - first
    BY DEF WallClock
<1>10. /\ last \in Nat /\ first \in Nat /\ obs[n].end <= last /\ first <= obs[1].begin
    <2>1. obs[n] \in ToSet(obs) /\ obs[1] \in ToSet(obs)
        BY <1>1, <1>4
    <2>2. Ends \subseteq Nat /\ Begins \subseteq Nat
        BY <1>2, <1>4
    <2> HIDE DEF last, first, Ends, Begins
    <2> QED BY <1>7, <1>8, <2>1, <2>2
<1> HIDE DEF last, first, Ends, Begins
<1> DEFINE ns == [i \in DOMAIN obs |-> obs[i].end - obs[i].begin]
<1>11. ns \in Seq(Int) /\ Len(ns) = n /\ \A i \in 1 .. n : ns[i] = obs[i].end - obs[i].begin
    <2>1. ns \in [1 .. n -> Int]
        BY <1>2
    <2> QED BY <1>2, <2>1
<1>12. Durations(obs) = Total(ns)
    BY DEF Durations
<1> HIDE DEF ns
<1>13. PICK g : Sums(g, ns) /\ Total(ns) = g[n]
    BY <1>11, TotalIsASum
<1>14. /\ g \in [0 .. n -> Int] /\ g[0] = 0
       /\ \A i \in 1 .. n : g[i] = g[i - 1] + (obs[i].end - obs[i].begin)
    BY <1>11, <1>13 DEF Sums
<1>15. \A k \in 0 .. n - 1 : g[k + 1] <= obs[k + 1].end - obs[1].begin
    <2> DEFINE P == {k \in 0 .. n - 1 : g[k + 1] <= obs[k + 1].end - obs[1].begin}
    <2>1. 0 \in P
        <3>1. 1 \in 1 .. n /\ 1 - 1 = 0
            BY <1>1
        <3>2. g[1] = g[0] + (obs[1].end - obs[1].begin)
            BY <1>14, <3>1
        <3> QED BY <1>1, <1>2, <1>14, <3>1, <3>2
    <2>2. ASSUME NEW k \in 0 .. n - 1 - 1, k \in P PROVE k + 1 \in P
        <3>1. /\ k + 1 \in 1 .. n - 1 /\ k + 1 + 1 \in 1 .. n /\ k + 1 \in 1 .. n /\ 1 \in 1 .. n
              /\ k + 1 + 1 - 1 = k + 1 /\ k + 1 \in 0 .. n - 1
            BY <1>1
        <3>2. g[k + 1 + 1] = g[k + 1] + (obs[k + 1 + 1].end - obs[k + 1 + 1].begin)
            BY <1>14, <3>1
        <3>3. obs[k + 1].end <= obs[k + 1 + 1].begin
            BY <1>3, <3>1
        <3>4. /\ obs[k + 1].end \in Nat /\ obs[k + 1 + 1].begin \in Nat
              /\ obs[k + 1 + 1].end \in Nat /\ obs[1].begin \in Nat /\ g[k + 1] \in Int
            BY <1>2, <1>14, <3>1
        <3>5. g[k + 1] <= obs[k + 1].end - obs[1].begin
            BY <2>2
        <3>6. g[k + 1 + 1] <= obs[k + 1 + 1].end - obs[1].begin
            <4>1. \A a \in Int, b \in Nat, c \in Nat, d \in Nat, e \in Nat :
                      a <= b - e /\ b <= c => a + (d - c) <= d - e
                OBVIOUS
            <4> HIDE DEF P
            <4> QED BY <3>2, <3>3, <3>4, <3>5, <4>1
        <3> QED BY <3>1, <3>6
    <2>3. n - 1 \in Nat
        BY <1>1
    <2>4. 0 .. n - 1 \subseteq P
        <3> HIDE DEF P
        <3> QED BY <2>1, <2>2, <2>3, Induction
    <2> QED BY <2>4
<1>16. g[n] <= obs[n].end - obs[1].begin
    <2>1. n - 1 \in 0 .. n - 1 /\ n - 1 + 1 = n
        BY <1>1
    <2> QED BY <1>15, <2>1
<1>17. g[n] \in Int /\ obs[n].end \in Nat /\ obs[1].begin \in Nat
    BY <1>1, <1>2, <1>14
<1>18. obs[1].begin <= obs[n].end
    <2>1. 1 \in 1 .. n - 1 + 1 /\ n - 1 \in 0 .. n - 1 /\ n - 1 + 1 = n /\ 1 \in 1 .. n
        BY <1>1
    <2>2. obs[1].end <= obs[n].end /\ obs[1].begin <= obs[1].end
        BY <1>3, <1>6, <2>1
    <2>3. obs[1].end \in Nat
        BY <1>2, <2>1
    <2> QED BY <1>17, <2>2, <2>3
<1> QED BY <1>9, <1>10, <1>12, <1>13, <1>16, <1>17, <1>18

\* None of the answers is an error response.
AllAnswered(s) == \A i \in 1 .. Len(s) : s[i].out # ProviderError

\* What an agent of one thread has logged so far.
ChainInv ==
    ci.pc \in {"agent", "judge"} /\ Sequential /\ AllAnswered(log) =>
        /\ thread[Main].step = Len(log) + 1 /\ thread[Main].step <= Len(program[Main]) + 1
        /\ thread[Main].last = Before(log, Len(log) + 1)
        /\ InChain(program[Main], log) /\ InTime(log)
        /\ Len(log) > 0 => log[Len(log)].end <= now
        /\ thread[Main].pc = "live" =>
              /\ thread[Main].begin <= now
              /\ Len(log) > 0 => log[Len(log)].end <= thread[Main].begin

\* What a fixture that is called clean holds.
Faithful(f) ==
    f.clean =>
        /\ \A t \in Threads \ {Main} : f.of[t] = << >>
        /\ Len(f.obs) = Len(f.of[Main]) /\ f.obs # << >>
        /\ InChain(f.of[Main], f.obs) /\ InTime(f.obs) /\ AllAnswered(f.obs)

FixturesInv == \A i \in 1 .. Len(dir) : Faithful(dir[i])

\* In an agent of one thread the others do nothing but end.
LEMMA OnlyMain ==
    ASSUME PlaceInv, Sequential, NEW t \in Threads, t # Main, Shim(t)
    PROVE  Finish(t)
<1>1. program[t] = << >> /\ Len(program[t]) = 0 /\ thread[t].step \in Nat \ {0}
    BY DEF Sequential, PlaceInv, TypeOK, ThreadState
<1>2. ~(thread[t].step <= Len(program[t]))
    BY <1>1
<1>3. ~Calls(t) /\ thread[t].pc \notin {"found", "taken", "live"}
    BY <1>2 DEF Calls, PlaceInv, ThreadInv
<1> QED BY <1>3 DEF Shim, Look, Advance, Serve, Miss, GoLive, ConnectionFails, LiveAnswer

\* A step that logs nothing.
LEMMA SilentKeepsChain ==
    ASSUME PlaceInv, ChainInv, UNCHANGED <<program, log, now>>,
           ci'.pc \in {"agent", "judge"} => ci.pc \in {"agent", "judge"},
           thread'[Main].step = thread[Main].step, thread'[Main].last = thread[Main].last,
           thread'[Main].pc = "live" =>
               thread'[Main].begin = now \/ thread'[Main] = thread[Main]
    PROVE  ChainInv'
<1>1. now \in Nat
    BY DEF PlaceInv, TypeOK
<1>2. now <= now
    BY <1>1
<1> QED BY <1>2 DEF ChainInv, Sequential, AllAnswered, InChain, InTime, Before

\* An entry of the main thread.
LEMMA EntryKeepsChain ==
    ASSUME PlaceInv, ChainInv, ReplayAssumption, NEW e \in Served, ci.pc = "agent",
           thread[Main].step <= Len(program[Main]), program' = program,
           log' = Append(log, e), e.key = Key(Main), e.begin <= e.end, e.end <= now',
           e.out # ProviderError =>
               thread'[Main].step = thread[Main].step + 1 /\ thread'[Main].last = e.out
                 /\ thread'[Main].pc = "ready",
           e.begin = now \/ (thread[Main].pc = "live" /\ e.begin = thread[Main].begin)
    PROVE  ChainInv'
<1> SUFFICES ASSUME Sequential, AllAnswered(log')
             PROVE  /\ thread'[Main].step = Len(log') + 1
                    /\ thread'[Main].step <= Len(program[Main]) + 1
                    /\ thread'[Main].last = Before(log', Len(log') + 1)
                    /\ InChain(program[Main], log') /\ InTime(log')
                    /\ Len(log') > 0 => log'[Len(log')].end <= now'
                    /\ thread'[Main].pc = "ready"
    BY DEF ChainInv, Sequential, AllAnswered, InChain, InTime, Before
<1>1. /\ log \in Seq(Served) /\ program[Main] \in Seq(Prompts) /\ thread[Main] \in ThreadState
      /\ Len(log) \in Nat /\ Len(program[Main]) \in Nat
    BY LenProperties DEF PlaceInv, TypeOK, ReplayAssumption
<1>2. /\ Len(log') = Len(log) + 1 /\ log'[Len(log) + 1] = e
      /\ \A i \in 1 .. Len(log) : log'[i] = log[i]
    BY <1>1, AppendProperties
<1>3. e.out # ProviderError
    <2>1. Len(log) + 1 \in 1 .. Len(log) + 1
        BY <1>1
    <2> QED BY <1>2, <2>1 DEF AllAnswered
<1>4. AllAnswered(log)
    <2>1. \A i \in 1 .. Len(log) : i \in 1 .. Len(log) + 1
        BY <1>1
    <2> QED BY <1>2, <2>1 DEF AllAnswered
<1>5. /\ thread[Main].step = Len(log) + 1 /\ thread[Main].last = Before(log, Len(log) + 1)
      /\ InChain(program[Main], log) /\ InTime(log)
      /\ Len(log) > 0 => log[Len(log)].end <= now
      /\ thread[Main].pc = "live" =>
            (Len(log) > 0 => log[Len(log)].end <= thread[Main].begin)
    BY <1>4 DEF ChainInv
<1>6. e.key = [prompt |-> program[Main][Len(log) + 1],
               last |-> IF program[Main][Len(log) + 1] \in Chained
                        THEN Before(log, Len(log) + 1) ELSE NoAnswer]
    BY <1>5 DEF Key, Prompt
<1>7. Len(log) > 0 => log[Len(log)].end <= e.begin
    BY <1>5
<1>8. Len(log) < Len(program[Main])
    BY <1>1, <1>5
<1>9. /\ InChain(program[Main], log') /\ InTime(log')
      /\ Before(log', Len(log) + 1 + 1) = e.out
    BY <1>1, <1>5, <1>6, <1>7, <1>8, ChainGrows
<1>10. thread'[Main].step = Len(log) + 1 + 1 /\ Len(log) + 1 + 1 <= Len(program[Main]) + 1
    BY <1>1, <1>3, <1>5, <1>8
<1> QED BY <1>2, <1>3, <1>9, <1>10

\* Every step of the shim.
LEMMA ShimKeepsChain ==
    ASSUME PlaceInv, ChainInv, NEW t \in Threads, Shim(t)
    PROVE  ChainInv'
<1> USE ReplayAssumption
<1>0. /\ thread \in [Threads -> ThreadState] /\ thread[Main] \in ThreadState /\ now \in Nat
    BY DEF PlaceInv, TypeOK
<1>1. CASE t # Main
    <2>1. CASE Sequential
        <3>1. Finish(t)
            BY <1>1, <2>1, OnlyMain
        <3>2. UNCHANGED <<program, log, now, ci>> /\ thread'[Main] = thread[Main]
            BY <1>0, <1>1, <3>1 DEF Finish, Frame
        <3> QED BY <3>2, SilentKeepsChain
    <2>2. CASE ~Sequential
        <3>1. program' = program
            BY DEF Shim, Look, Advance, Serve, Miss, GoLive, Finish, ConnectionFails, LiveAnswer, Frame
        <3>2. ~Sequential'
            BY <2>2, <3>1 DEF Sequential
        <3> QED BY <3>2 DEF ChainInv
    <2> QED BY <2>1, <2>2
<1>2. CASE t = Main
    <2>1. CASE Look(Main) \/ Advance(Main) \/ Miss(Main) \/ GoLive(Main) \/ Finish(Main)
        <3>1. UNCHANGED <<program, log, now, ci>>
            BY <2>1 DEF Look, Advance, Miss, GoLive, Finish, Frame
        <3> DEFINE Same == /\ thread'[Main].step = thread[Main].step
                           /\ thread'[Main].last = thread[Main].last
                           /\ thread'[Main].pc = "live" => thread'[Main].begin = now
        <3>2. Look(Main) => Same
            BY <1>0 DEF Look, ThreadState
        <3>3. Advance(Main) => Same
            BY <1>0 DEF Advance, ThreadState
        <3>4. Miss(Main) => Same
            BY <1>0 DEF Miss, ThreadState, Exits
        <3>5. GoLive(Main) => Same
            BY <1>0 DEF GoLive, ThreadState
        <3>6. Finish(Main) => Same
            BY <1>0 DEF Finish, ThreadState
        <3> QED BY <2>1, <3>1, <3>2, <3>3, <3>4, <3>5, <3>6, SilentKeepsChain
    <2>2. CASE ConnectionFails(Main)
        <3>1. /\ UNCHANGED <<program, log, now, ci>>
              /\ thread'[Main] = Received(thread[Main], ProviderError)
            BY <1>0, <2>2 DEF ConnectionFails, Frame
        <3>2. /\ thread'[Main].step = thread[Main].step /\ thread'[Main].last = thread[Main].last
              /\ thread'[Main].pc # "live"
            BY <1>0, <3>1, ReceivedType
        <3> QED BY <3>1, <3>2, SilentKeepsChain
    <2>3. CASE Serve(Main)
        <3> DEFINE index == Nth(Matching(Key(Main)), thread[Main].cursor)
                   out == Cassette[index].out
                   e == [key |-> Key(Main), out |-> out, begin |-> now, end |-> now,
                         source |-> "cassette", index |-> index]
        <3>1. /\ thread[Main].pc = "taken" /\ log' = Append(log, e) /\ UNCHANGED <<program, now>>
              /\ thread'[Main] = Answered(thread[Main], out)
            BY <1>0, <2>3 DEF Serve, Frame
        <3>2. /\ index \in Nat /\ out \in Answers /\ Key(Main) \in Keys /\ ci.pc = "agent"
              /\ thread[Main].step <= Len(program[Main])
            BY <3>1, FoundIsThere DEF Observation, PlaceInv, ThreadInv
        <3>3. e \in Served /\ e.key = Key(Main) /\ e.begin = now /\ e.end = now /\ e.out = out
            BY <1>0, <3>2 DEF Served
        <3>4. /\ thread'[Main].step = thread[Main].step + 1 /\ thread'[Main].last = out
              /\ thread'[Main].pc = "ready"
            BY <1>0, <3>1, <3>2, AnsweredType
        <3>5. now <= now
            BY <1>0
        <3> HIDE DEF e
        <3> QED BY <3>1, <3>2, <3>3, <3>4, <3>5, EntryKeepsChain
    <2>4. ASSUME NEW a \in Answers, LiveAnswer(Main, a) PROVE ChainInv'
        <3> DEFINE e == [key |-> Key(Main), out |-> a, begin |-> thread[Main].begin,
                         end |-> now + 1, source |-> "live", index |-> 0]
        <3>1. /\ thread[Main].pc = "live" /\ log' = Append(log, e) /\ program' = program
              /\ now' = now + 1 /\ thread'[Main] = Received(thread[Main], a)
            BY <1>0, <2>4 DEF LiveAnswer, Frame
        <3>2. ci.pc = "agent" /\ thread[Main].step <= Len(program[Main]) /\ Key(Main) \in Keys
            BY <3>1, KeyIsAKey DEF PlaceInv, ThreadInv
        <3>3. /\ e \in Served /\ e.key = Key(Main) /\ e.begin = thread[Main].begin
              /\ e.end = now + 1 /\ e.out = a
            BY <1>0, <3>2 DEF Served, ThreadState
        <3>4. a # ProviderError =>
                  /\ thread'[Main].step = thread[Main].step + 1 /\ thread'[Main].last = a
                  /\ thread'[Main].pc = "ready"
            BY <1>0, <3>1, AnsweredType DEF Received
        <3> HIDE DEF e
        <3>5. CASE thread[Main].begin <= now
            <4>1. e.begin <= e.end /\ e.end <= now'
                BY <1>0, <3>1, <3>3, <3>5 DEF ThreadState
            <4> QED BY <3>1, <3>2, <3>3, <3>4, <4>1, EntryKeepsChain
        <3>6. CASE ~(thread[Main].begin <= now)
            <4>1. ~(Sequential /\ AllAnswered(log))
                BY <3>1, <3>2, <3>6 DEF ChainInv
            <4>2. AllAnswered(log') => AllAnswered(log)
                <5>1. /\ Len(log) \in Nat /\ Len(log') = Len(log) + 1
                      /\ \A i \in 1 .. Len(log) : log'[i] = log[i]
                    BY <3>1, <3>3, AppendProperties, LenProperties DEF PlaceInv, TypeOK
                <5>2. \A i \in 1 .. Len(log) : i \in 1 .. Len(log) + 1
                    BY <5>1
                <5> QED BY <5>1, <5>2 DEF AllAnswered
            <4>3. ~(Sequential' /\ AllAnswered(log'))
                BY <3>1, <4>1, <4>2 DEF Sequential
            <4> QED BY <4>3 DEF ChainInv, AllAnswered
        <3> QED BY <3>5, <3>6
    <2> QED BY <1>2, <2>1, <2>2, <2>3, <2>4 DEF Shim
<1> QED BY <1>1, <1>2

\* Every step.
LEMMA StepChains == PlaceInv /\ ChainInv /\ [Next]_vars => ChainInv'
<1> SUFFICES ASSUME PlaceInv, ChainInv, [Next]_vars PROVE ChainInv'
    OBVIOUS
<1> USE ReplayAssumption
<1>0. ci \in Command /\ TypeOK
    BY DEF PlaceInv, TypeOK
<1>1. CASE \E t \in Threads : Shim(t)
    BY <1>1, ShimKeepsChain
<1>2. CASE \E code \in ExitCodes : Exit(code)
    <2>1. UNCHANGED <<program, log, now, thread>> /\ ci.pc = "agent"
        BY <1>2 DEF Exit, AgentDone
    <2> QED BY <2>1, SilentKeepsChain
<1>3. CASE \E p \in Programs : Edit(p)
    BY <1>0, <1>3 DEF Edit, Command, ChainInv
<1>4. CASE \E mode \in {"pure", "hybrid"}, allow \in BOOLEAN : Start(mode, allow)
    BY <1>4 DEF Start, ChainInv
<1>5. CASE ExitRecorded \/ Judge \/ Verdict
    BY <1>0, <1>5 DEF ExitRecorded, Judge, Verdict, Command, ChainInv
<1>6. CASE Record \/ Replays
    <2>1. /\ thread' = [t \in Threads |-> [Resting EXCEPT !.pc = "ready"]]
          /\ log' = << >> /\ now' = 0 /\ program' = program
        BY <1>6 DEF Record, Replays, Launch
    <2>2. thread'[Main].step = 1 /\ thread'[Main].last = NoAnswer /\ thread'[Main].pc = "ready"
        BY <2>1 DEF Resting
    <2>3. Len(log') = 0 /\ Len(program[Main]) \in Nat
        BY <2>1, LenProperties DEF PlaceInv, TypeOK
    <2>4. InChain(program[Main], log') /\ InTime(log')
        BY <2>3 DEF InChain, InTime
    <2>5. Before(log', Len(log') + 1) = NoAnswer
        BY <2>3 DEF Before
    <2> QED BY <2>1, <2>2, <2>3, <2>4, <2>5 DEF ChainInv, InChain, InTime, Before
<1>7. CASE UNCHANGED vars
    BY <1>7, SilentKeepsChain DEF vars, processVars
<1> QED BY <1>1, <1>2, <1>3, <1>4, <1>5, <1>6, <1>7 DEF Next

\* What a process writes down is faithful if it is called clean.
LEMMA NewIsFaithful ==
    ASSUME PlaceInv, ChainInv, ci.pc = "agent", log # << >>
    PROVE  Faithful(NewFixture)
<1> DEFINE obs == [i \in DOMAIN log |-> [key |-> log[i].key, out |-> log[i].out,
                                         begin |-> log[i].begin, end |-> log[i].end]]
<1>1. NewFixture = [obs |-> obs, of |-> program, clean |-> Clean]
    BY DEF NewFixture
<1>2. NewFixture.obs = obs /\ NewFixture.of = program /\ NewFixture.clean = Clean
    BY <1>1
<1>3. PICK n \in Nat : n = Len(log) /\ n >= 1
    <2>1. Len(log) \in Nat /\ Len(log) # 0
        BY LenProperties, EmptySeq DEF PlaceInv, TypeOK
    <2> QED BY <2>1
<1>4. DOMAIN log = 1 .. n
    BY <1>3, LenProperties DEF PlaceInv, TypeOK
<1>5. Len(obs) = n
    BY <1>2, <1>3, NewFixtureType DEF PlaceInv
<1>6. \A i \in 1 .. n : /\ obs[i].key = log[i].key /\ obs[i].out = log[i].out
                        /\ obs[i].begin = log[i].begin /\ obs[i].end = log[i].end
    BY <1>4
<1> HIDE DEF obs
<1> SUFFICES ASSUME Clean
             PROVE  /\ \A t \in Threads \ {Main} : program[t] = << >>
                    /\ Len(obs) = Len(program[Main]) /\ obs # << >>
                    /\ InChain(program[Main], obs) /\ InTime(obs) /\ AllAnswered(obs)
    BY <1>2 DEF Faithful
<1>7. Sequential /\ thread[Main].step > Len(program[Main]) /\ AllAnswered(log)
    BY <1>3, <1>4 DEF Clean, AllAnswered, ToSet
<1>8. /\ thread[Main].step = n + 1 /\ thread[Main].step <= Len(program[Main]) + 1
      /\ InChain(program[Main], log) /\ InTime(log)
    BY <1>3, <1>7 DEF ChainInv
<1>9. Len(program[Main]) = n
    <2>1. Len(program[Main]) \in Nat
        BY ReplayAssumption, LenProperties DEF PlaceInv, TypeOK
    <2> QED BY <1>7, <1>8, <2>1
<1>10. \A i \in 1 .. n : i # 1 => i - 1 \in 1 .. n
    BY <1>3
<1>11. \A i \in 1 .. n : Before(obs, i) = Before(log, i)
    BY <1>6, <1>10 DEF Before
<1>12. InChain(program[Main], obs)
    BY <1>3, <1>5, <1>6, <1>8, <1>11 DEF InChain
<1>13. \A i \in 1 .. n - 1 : i \in 1 .. n /\ i + 1 \in 1 .. n
    BY <1>3
<1>14. InTime(obs)
    BY <1>3, <1>5, <1>6, <1>8, <1>13 DEF InTime
<1>15. AllAnswered(obs)
    BY <1>3, <1>5, <1>6, <1>7 DEF AllAnswered
<1>16. obs # << >>
    BY <1>3, <1>5
<1> QED BY <1>5, <1>7, <1>9, <1>12, <1>14, <1>15, <1>16 DEF Sequential

\* A directory that a hybrid run has written into.
LEMMA WriteKeepsFixtures ==
    ASSUME PlaceInv, ChainInv, FixturesInv, ci.pc = "agent", ci.mode # "record", WriteServed
    PROVE  FixturesInv'
<1>1. CASE dir' = dir
    BY <1>1 DEF FixturesInv, Faithful, InChain, InTime, AllAnswered, Before
<1>2. CASE dir' = HybridCassette /\ \E e \in ToSet(log) : e.source = "live"
    <2>1. log # << >>
        BY <1>2 DEF ToSet
    <2>2. Faithful(NewFixture)
        BY <2>1, NewIsFaithful
    <2>3. PICK n \in Nat : n = Len(ci.todo) /\ n <= Len(dir)
        BY LenProperties DEF PlaceInv, TypeOK, CommandInv, Command
    <2>4. PICK N \in Nat : N = Len(dir)
        BY LenProperties DEF PlaceInv, TypeOK
    <2>5. /\ Len(HybridCassette) = N + 1
          /\ \A i \in 1 .. n : HybridCassette[N + 1 - n + i] = dir[N - n + i]
          /\ \A i \in 1 .. N - n : HybridCassette[i] = dir[i]
          /\ HybridCassette[N + 1 - n] = NewFixture
        BY <2>3, <2>4, HybridKeepsTodo DEF PlaceInv
    <2>6. ASSUME NEW i \in 1 .. N + 1 PROVE Faithful(HybridCassette[i])
        <3>0. n \in Nat /\ N \in Nat /\ n <= N /\ i \in Nat
            BY <2>3, <2>4
        <3>1. CASE i \in 1 .. N - n
            <4>1. i \in 1 .. N
                BY <2>3, <3>1
            <4> QED BY <2>4, <2>5, <3>1, <4>1 DEF FixturesInv
        <3>2. CASE i = N + 1 - n
            BY <2>2, <2>5, <3>2
        <3>3. CASE i > N + 1 - n
            <4>1. PICK j \in 1 .. n : j = i - (N + 1 - n)
                <5>1. i - (N + 1 - n) \in 1 .. n
                    BY <3>0, <3>3
                <5> QED BY <5>1
            <4>2. N + 1 - n + j = i /\ N - n + j \in 1 .. N
                BY <3>0, <4>1
            <4>3. HybridCassette[N + 1 - n + j] = dir[N - n + j]
                BY <2>5
            <4>4. Faithful(dir[N - n + j])
                BY <2>4, <4>2 DEF FixturesInv
            <4> QED BY <4>2, <4>3, <4>4
        <3>4. i \in 1 .. N - n \/ i = N + 1 - n \/ i > N + 1 - n
            BY <3>0
        <3> QED BY <3>1, <3>2, <3>3, <3>4
    <2> QED BY <1>2, <2>5, <2>6 DEF FixturesInv, Faithful, InChain, InTime, AllAnswered, Before
<1> QED BY <1>1, <1>2 DEF WriteServed

\* Every step.
LEMMA StepKeepsFixtures ==
    PlaceInv /\ ChainInv /\ FixturesInv /\ [Next]_vars => FixturesInv'
<1> SUFFICES ASSUME PlaceInv, ChainInv, FixturesInv, [Next]_vars PROVE FixturesInv'
    OBVIOUS
<1>1. ASSUME dir' = dir PROVE FixturesInv'
    BY <1>1 DEF FixturesInv, Faithful, InChain, InTime, AllAnswered, Before
<1>2. CASE \E t \in Threads : Shim(t)
    <2>1. PICK t \in Threads : Shim(t)
        BY <1>2
    <2>2. CASE Miss(t)
        BY <2>2, WriteKeepsFixtures DEF Miss, Calls
    <2>3. CASE ~Miss(t)
        <3>1. dir' = dir
            BY <2>1, <2>3 DEF Shim, Look, Advance, Serve, GoLive, Finish, ConnectionFails,
                              LiveAnswer, Frame
        <3> QED BY <1>1, <3>1
    <2> QED BY <2>2, <2>3
<1>3. CASE \E code \in ExitCodes : Exit(code)
    BY <1>3, WriteKeepsFixtures DEF Exit, AgentDone
<1>4. CASE ExitRecorded
    <2>1. CASE log = << >>
        BY <1>1, <1>4, <2>1 DEF ExitRecorded
    <2>2. CASE log # << >>
        <3>1. dir' = <<NewFixture>> /\ Faithful(NewFixture)
            BY <1>4, <2>2, NewIsFaithful DEF ExitRecorded, AgentDone
        <3>2. Len(dir') = 1 /\ dir'[1] = NewFixture
            BY <3>1
        <3>3. \A i \in 1 .. 1 : Faithful(dir'[i])
            BY <3>1, <3>2
        <3> QED BY <3>2, <3>3 DEF FixturesInv, Faithful, InChain, InTime, AllAnswered, Before
    <2> QED BY <2>1, <2>2
<1>5. CASE \/ \E p \in Programs : Edit(p)
           \/ \E mode \in {"pure", "hybrid"}, allow \in BOOLEAN : Start(mode, allow)
           \/ Record \/ Replays \/ Judge \/ Verdict \/ UNCHANGED vars
    <2>1. dir' = dir
        BY <1>5 DEF Edit, Start, Record, Replays, Launch, Judge, Verdict, vars
    <2> QED BY <1>1, <2>1
<1> QED BY <1>2, <1>3, <1>4, <1>5 DEF Next

-----------------------------------------------------------------------------
(* What an agent that has not changed is answered. *)

\* The agent that made the cassette, alone, is replayed.
Replaying ==
    /\ ci.pc \in {"agent", "judge"} /\ ci.mode # "record"
    /\ Head(ci.todo).clean /\ Head(ci.todo).of = program

\* The log is the beginning of the cassette, and nothing has gone wrong.
MirrorInv ==
    Replaying =>
        /\ sent = NothingSent /\ missed = {}
        /\ \A t \in Threads : thread[t].pc # "live" /\ thread[t].code = 0
        /\ thread[Main].pc = "ended" => thread[Main].step > Len(program[Main])
        /\ Len(log) <= Len(Cassette)
        /\ \A i \in 1 .. Len(log) : /\ log[i].key = Cassette[i].key
                                    /\ log[i].out = Cassette[i].out
                                    /\ log[i].source = "cassette"
        /\ DOMAIN cursors = {o.key : o \in ToSet(Cassette)}
        /\ ci.pc = "judge" => ci.code = 0 /\ file.exists /\ thread[Main].pc = "ended"

\* The cassette is what one thread recorded.
LEMMA CassetteIsFaithful ==
    ASSUME PlaceInv, FixturesInv, Replaying
    PROVE  /\ Sequential /\ Len(Cassette) = Len(program[Main]) /\ Cassette # << >>
           /\ InChain(program[Main], Cassette) /\ InTime(Cassette) /\ AllAnswered(Cassette)
<1>1. /\ ci.todo \in Seq(Fixture) /\ ci.todo # << >> /\ dir \in Seq(Fixture)
      /\ Len(ci.todo) <= Len(dir)
      /\ \A i \in 1 .. Len(ci.todo) : ci.todo[i] = dir[Len(dir) - Len(ci.todo) + i]
    BY DEF PlaceInv, CommandInv, TypeOK, Command, Replaying
<1>2. PICK n \in Nat : n = Len(ci.todo)
    BY <1>1, LenProperties
<1>3. PICK N \in Nat : N = Len(dir)
    BY <1>1, LenProperties
<1>4. n # 0 /\ n <= N
    BY <1>1, <1>2, <1>3, EmptySeq
<1>5. 1 \in 1 .. n /\ N - n + 1 \in 1 .. N
    BY <1>2, <1>3, <1>4
<1>6. Head(ci.todo) = ci.todo[1]
    BY <1>1, HeadTailProperties
<1>7. ci.todo[1] = dir[N - n + 1]
    BY <1>1, <1>2, <1>3, <1>5
<1>8. Faithful(Head(ci.todo))
    BY <1>3, <1>5, <1>6, <1>7 DEF FixturesInv
<1>9. Cassette = Head(ci.todo).obs
    BY DEF Cassette, Replaying
<1> QED BY <1>8, <1>9 DEF Faithful, Sequential, Replaying

\* Nobody shares a request with the only thread that makes any.
LEMMA SequentialSharesNothing ==
    ASSUME Sequential, NEW key
    PROVE  ~Shared(key)
<1>1. \A t \in Threads \ {Main} : ToSet(program[t]) = {}
    BY DEF Sequential, ToSet
<1> QED BY <1>1 DEF Shared

\* Where the main thread is in the cassette.
LEMMA NextIsRecorded ==
    ASSUME PlaceInv, ServeInv, ChainInv, FixturesInv, MirrorInv, Replaying
    PROVE  /\ Len(log) \in Nat /\ Len(Cassette) \in Nat
           /\ thread[Main].step = Len(log) + 1
           /\ \A key : Hits(key) = Under(Matching(key), Len(log) + 1)
           /\ thread[Main].step <= Len(program[Main]) =>
                 /\ Len(log) + 1 \in 1 .. Len(Cassette)
                 /\ Cassette[Len(log) + 1].key = Key(Main)
                 /\ Len(log) + 1 \in Matching(Key(Main))
<1>1. /\ Sequential /\ Len(Cassette) = Len(program[Main])
      /\ InChain(program[Main], Cassette) /\ AllAnswered(Cassette)
    BY CassetteIsFaithful
<1>2. /\ Len(Cassette) \in Nat /\ DOMAIN Cassette = 1 .. Len(Cassette)
    BY CassetteType DEF PlaceInv, Replaying
<1>3. PICK n \in Nat : n = Len(log) /\ DOMAIN log = 1 .. n
    BY LenProperties DEF PlaceInv, TypeOK
<1>4. /\ n <= Len(Cassette)
      /\ \A i \in 1 .. n : /\ log[i].key = Cassette[i].key /\ log[i].out = Cassette[i].out
                           /\ log[i].source = "cassette"
    BY <1>3 DEF MirrorInv
<1>5. \A i \in 1 .. n : i \in 1 .. Len(Cassette)
    BY <1>2, <1>4
<1>6. AllAnswered(log)
    BY <1>1, <1>3, <1>4, <1>5 DEF AllAnswered
<1>7. thread[Main].step = n + 1 /\ thread[Main].last = Before(log, n + 1)
    BY <1>1, <1>3, <1>6 DEF ChainInv, Replaying
<1>8. \A key : Hits(key) = Under(Matching(key), n + 1)
    <2>1. \A i \in 1 .. Len(Cassette) : i < n + 1 <=> i \in 1 .. n
        BY <1>2
    <2> QED BY <1>2, <1>3, <1>4, <1>5, <2>1 DEF Hits, Under, Matching
<1>9. ASSUME thread[Main].step <= Len(program[Main])
      PROVE  /\ n + 1 \in 1 .. Len(Cassette) /\ Cassette[n + 1].key = Key(Main)
             /\ n + 1 \in Matching(Key(Main))
    <2>1. n + 1 \in 1 .. Len(Cassette)
        BY <1>1, <1>2, <1>7, <1>9
    <2>2. Before(Cassette, n + 1) = Before(log, n + 1)
        <3>1. CASE n = 0
            BY <3>1 DEF Before
        <3>2. CASE n # 0
            <4>1. n + 1 # 1 /\ n + 1 - 1 = n /\ n \in 1 .. n
                BY <3>2
            <4> QED BY <1>4, <4>1 DEF Before
        <3> QED BY <3>1, <3>2
    <2>3. Cassette[n + 1].key =
            [prompt |-> program[Main][n + 1],
             last |-> IF program[Main][n + 1] \in Chained THEN Before(Cassette, n + 1) ELSE NoAnswer]
        BY <1>1, <2>1 DEF InChain
    <2>4. Cassette[n + 1].key = Key(Main)
        BY <1>7, <2>2, <2>3 DEF Key, Prompt
    <2> QED BY <1>2, <2>1, <2>4 DEF Matching
<1> QED BY <1>2, <1>3, <1>7, <1>8, <1>9

\* It finds what it asks for, and it gets the next observation.
LEMMA NextIsFound ==
    ASSUME PlaceInv, ServeInv, ChainInv, FixturesInv, MirrorInv, Replaying
    PROVE  /\ Calls(Main) => Found(Main)
           /\ thread[Main].pc = "taken" =>
                 Nth(Matching(Key(Main)), thread[Main].cursor) = Len(log) + 1
<1> USE ReplayAssumption
<1> DEFINE i == Len(log) + 1
           M == Matching(Key(Main))
<1>1. /\ Len(log) \in Nat /\ Len(Cassette) \in Nat /\ i \in Nat
      /\ \A key : Hits(key) = Under(Matching(key), i)
      /\ thread[Main].step <= Len(program[Main]) =>
            i \in 1 .. Len(Cassette) /\ Cassette[i].key = Key(Main) /\ i \in M
    BY NextIsRecorded
<1>2. Sequential /\ ~Shared(Key(Main))
    BY CassetteIsFaithful, SequentialSharesNothing
<1>3. ASSUME thread[Main].step <= Len(program[Main])
      PROVE  /\ Cursors(Key(Main)) /\ IsFiniteSet(M) /\ M \subseteq Nat
             /\ Cardinality(Hits(Key(Main))) < Cardinality(M)
    <2>1. Key(Main) \in Keys
        BY <1>3, KeyIsAKey DEF PlaceInv
    <2>2. Cursors(Key(Main))
        BY <1>2, <2>1 DEF ServeInv, Replaying
    <2>3. M \subseteq 1 .. Len(Cassette)
        BY CassetteType DEF PlaceInv, Replaying
    <2>4. M \subseteq Nat
        <3>1. 1 .. Len(Cassette) \subseteq Nat
            BY <1>1
        <3> QED BY <2>3, <3>1
    <2>5. IsFiniteSet(M)
        <3>1. IsFiniteSet(1 .. Len(Cassette))
            BY <1>1, FS_Interval
        <3> QED BY <2>3, <3>1, FS_Subset
    <2> HIDE DEF i, M
    <2>6. Cardinality(Under(M, i)) < Cardinality(M)
        BY <1>1, <1>3, <2>4, <2>5, BelowNext
    <2> QED BY <1>1, <2>2, <2>4, <2>5, <2>6 DEF M
<1>4. ASSUME Calls(Main) PROVE Found(Main)
    <2>1. /\ ci.pc = "agent" /\ thread[Main].pc = "ready"
          /\ thread[Main].step <= Len(program[Main])
        BY <1>4 DEF Calls
    <2>2. \A t \in Threads : thread[t].pc # "taken"
        <3>1. ASSUME NEW t \in Threads, t # Main PROVE thread[t].pc # "taken"
            <4>1. program[t] = << >> /\ thread[t].step \in Nat \ {0}
                BY <1>2, <3>1 DEF Sequential, PlaceInv, TypeOK, ThreadState
            <4>2. ~(thread[t].step <= Len(program[t]))
                BY <4>1
            <4> QED BY <4>2 DEF PlaceInv, ThreadInv
        <3> QED BY <2>1, <3>1
    <2>3. Key(Main) \in DOMAIN cursors
        <3>1. Cassette[i] \in ToSet(Cassette) /\ Cassette[i].key = Key(Main)
            <4>1. i \in DOMAIN Cassette
                BY <1>1, <2>1, CassetteType DEF PlaceInv, Replaying
            <4> HIDE DEF i
            <4> QED BY <1>1, <2>1, <4>1 DEF ToSet
        <3> HIDE DEF i
        <3> QED BY <3>1 DEF MirrorInv
    <2>4. cursors[Key(Main)] = Cardinality(Hits(Key(Main))) + 0
        BY <1>3, <2>1, <2>2, <2>3 DEF Cursors
    <2>5. Cardinality(Hits(Key(Main))) \in Nat
        BY HitsType DEF PlaceInv
    <2>6. cursors[Key(Main)] < Cardinality(Matching(Key(Main)))
        BY <1>3, <2>1, <2>4, <2>5
    <2> QED BY <2>3, <2>6 DEF Found, Replaying
<1>5. ASSUME thread[Main].pc = "taken" PROVE Nth(M, thread[Main].cursor) = i
    <2>1. thread[Main].step <= Len(program[Main])
        BY <1>5 DEF PlaceInv, ThreadInv
    <2>2. thread[Main].cursor = Cardinality(Hits(Key(Main)))
        BY <1>3, <1>5, <2>1 DEF Cursors
    <2>3. thread[Main].cursor = Cardinality(Under(M, i))
        BY <1>1, <2>2
    <2>4. i \in M /\ IsFiniteSet(M) /\ M \subseteq Nat
        BY <1>1, <1>3, <2>1
    <2> HIDE DEF i, M
    <2> QED BY <2>3, <2>4, NthOfRank
<1> QED BY <1>4, <1>5

\* Every step of the shim.
LEMMA ShimKeepsMirror ==
    ASSUME PlaceInv, ServeInv, ChainInv, FixturesInv, MirrorInv, NEW t \in Threads, Shim(t)
    PROVE  MirrorInv'
<1> USE ReplayAssumption
<1>0. /\ thread \in [Threads -> ThreadState] /\ thread[t] \in ThreadState
      /\ log \in Seq(Served)
    BY DEF PlaceInv, TypeOK
<1>1. ci' = ci /\ program' = program
    BY DEF Shim, Look, Advance, Serve, Miss, GoLive, Finish, ConnectionFails, LiveAnswer, Frame
<1>2. Cassette' = Cassette /\ (Replaying' <=> Replaying)
    BY <1>1 DEF Cassette, Replaying
<1> SUFFICES ASSUME Replaying
             PROVE  /\ sent' = NothingSent /\ missed' = {}
                    /\ \A u \in Threads : thread'[u].pc # "live" /\ thread'[u].code = 0
                    /\ thread'[Main].pc = "ended" => thread'[Main].step > Len(program[Main])
                    /\ Len(log') <= Len(Cassette)
                    /\ \A i \in 1 .. Len(log') : /\ log'[i].key = Cassette[i].key
                                                 /\ log'[i].out = Cassette[i].out
                                                 /\ log'[i].source = "cassette"
                    /\ DOMAIN cursors' = {o.key : o \in ToSet(Cassette)}
                    /\ ci.pc = "judge" => ci.code = 0 /\ file'.exists /\ thread'[Main].pc = "ended"
    BY <1>1, <1>2 DEF MirrorInv
<1>3. /\ sent = NothingSent /\ missed = {}
      /\ \A u \in Threads : thread[u].pc # "live" /\ thread[u].code = 0
      /\ thread[Main].pc = "ended" => thread[Main].step > Len(program[Main])
      /\ Len(log) <= Len(Cassette)
      /\ \A i \in 1 .. Len(log) : /\ log[i].key = Cassette[i].key
                                  /\ log[i].out = Cassette[i].out
                                  /\ log[i].source = "cassette"
      /\ DOMAIN cursors = {o.key : o \in ToSet(Cassette)}
    BY DEF MirrorInv
<1>4. Sequential
    BY CassetteIsFaithful
<1>5. thread[t].pc # "ended" => ci.pc = "agent"
    BY DEF PlaceInv, ThreadInv
<1>6. CASE Finish(t)
    <2>1. /\ thread' = [thread EXCEPT ![t].pc = "ended"] /\ ci.pc = "agent"
          /\ thread[t].step > Len(program[t])
          /\ UNCHANGED <<cursors, log, file, missed, sent>>
        BY <1>6 DEF Finish, Frame
    <2>2. \A u \in Threads : /\ thread'[u].code = thread[u].code /\ thread'[u].step = thread[u].step
                             /\ thread'[u].pc = IF u = t THEN "ended" ELSE thread[u].pc
        BY <1>0, <2>1 DEF ThreadState
    <2> QED BY <1>3, <2>1, <2>2
<1>7. CASE t # Main
    BY <1>4, <1>6, <1>7, OnlyMain
<1>8. CASE t = Main /\ (Look(t) \/ Advance(t))
    <2>1. /\ \A u \in Threads : thread'[u].code = thread[u].code
          /\ \A u \in Threads : thread'[u].pc # "live" /\ thread'[Main].pc # "ended"
          /\ thread[t].pc # "ended"
        <3>1. CASE Look(t)
            BY <1>0, <1>3, <1>8, <3>1 DEF Look, Calls, ThreadState
        <3>2. CASE Advance(t)
            BY <1>0, <1>3, <1>8, <3>2 DEF Advance, ThreadState
        <3> QED BY <1>8, <3>1, <3>2
    <2>2. UNCHANGED <<log, file, missed, sent>> /\ DOMAIN cursors' = DOMAIN cursors
        BY <1>8 DEF Look, Advance, Frame
    <2>3. ci.pc # "judge"
        BY <1>5, <2>1
    <2> QED BY <1>3, <2>1, <2>2, <2>3
<1>9. CASE t = Main /\ Serve(t)
    <2> DEFINE new == Len(log) + 1
               index == Nth(Matching(Key(t)), thread[t].cursor)
               e == [key |-> Key(t), out |-> Cassette[index].out, begin |-> now, end |-> now,
                     source |-> "cassette", index |-> index]
    <2>1. /\ thread[t].pc = "taken" /\ log' = Append(log, e)
          /\ thread' = [thread EXCEPT ![t] = Answered(thread[t], Cassette[index].out)]
          /\ UNCHANGED <<cursors, file, missed, sent>>
        BY <1>9 DEF Serve, Frame
    <2>2. /\ index \in 1 .. Len(Cassette) /\ Cassette[index] \in Observation
          /\ Cassette[index].key = Key(t) /\ Key(t) \in Keys
        BY <2>1, FoundIsThere
    <2>3. index = new
        BY <1>9, <2>1, NextIsFound
    <2>4. Cassette[index].out \in Answers
        BY <2>2 DEF Observation
    <2>5. e.key = Key(t) /\ e.out = Cassette[index].out /\ e.source = "cassette" /\ e \in Served
        BY <1>0, <2>2, <2>4 DEF Served, PlaceInv, TypeOK
    <2>6. \A u \in Threads : thread'[u].pc # "live" /\ thread'[u].code = 0 /\ thread'[Main].pc # "ended"
        BY <1>0, <1>3, <1>9, <2>1, <2>4, AnsweredType
    <2> HIDE DEF e, index
    <2>7. /\ Len(log) \in Nat /\ Len(log') = Len(log) + 1 /\ log'[Len(log) + 1] = e
          /\ \A i \in 1 .. Len(log) : log'[i] = log[i]
        BY <1>0, <2>1, <2>5, AppendProperties, LenProperties
    <2>8. Len(log') <= Len(Cassette)
        BY <2>2, <2>3, <2>7
    <2>9. ASSUME NEW i \in 1 .. Len(log')
          PROVE  /\ log'[i].key = Cassette[i].key /\ log'[i].out = Cassette[i].out
                 /\ log'[i].source = "cassette"
        <3>1. i \in 1 .. Len(log) \/ i = new
            BY <2>7
        <3>2. CASE i \in 1 .. Len(log)
            BY <1>3, <2>7, <3>2
        <3>3. CASE i = new
            <4>1. log'[i] = e
                BY <2>7, <3>3
            <4> QED BY <2>2, <2>3, <2>5, <3>3, <4>1
        <3> QED BY <3>1, <3>2, <3>3
    <2>10. ci.pc # "judge"
        BY <1>5, <2>1
    <2> QED BY <1>3, <2>1, <2>6, <2>8, <2>9, <2>10
<1>10. ~(t = Main /\ (Miss(t) \/ GoLive(t)))
    <2>1. Calls(Main) => Found(Main)
        BY NextIsFound
    <2> QED BY <2>1 DEF Miss, GoLive
<1>11. ~(ConnectionFails(t) \/ \E a \in Answers : LiveAnswer(t, a))
    BY <1>3 DEF ConnectionFails, LiveAnswer
<1> QED BY <1>6, <1>7, <1>8, <1>9, <1>10, <1>11 DEF Shim

\* Every step.
LEMMA StepMirrors ==
    PlaceInv /\ ServeInv /\ SpendInv /\ ChainInv /\ FixturesInv /\ MirrorInv /\ [Next]_vars
        => MirrorInv'
<1> SUFFICES ASSUME PlaceInv, ServeInv, SpendInv, ChainInv, FixturesInv, MirrorInv, [Next]_vars
             PROVE  MirrorInv'
    OBVIOUS
<1> USE ReplayAssumption
<1>0. ci \in Command /\ TypeOK
    BY DEF PlaceInv, TypeOK
<1>1. CASE \E t \in Threads : Shim(t)
    BY <1>1, ShimKeepsMirror
<1>2. ASSUME NEW code \in ExitCodes, Exit(code) PROVE MirrorInv'
    <2>1. /\ ci.pc = "agent" /\ ci' = [ci EXCEPT !.pc = "judge", !.code = code]
          /\ \A t \in Threads : thread[t].pc = "ended" /\ WriteServed
          /\ UNCHANGED <<program, thread, cursors, log, missed, sent>>
        BY <1>2 DEF Exit, AgentDone
    <2>2. ci'.pc = "judge" /\ ci'.mode = ci.mode /\ ci'.todo = ci.todo /\ ci'.code = code
        BY <1>0, <2>1 DEF Command
    <2>3. Cassette' = Cassette /\ (Replaying' <=> Replaying)
        BY <2>1, <2>2 DEF Cassette, Replaying
    <2> SUFFICES ASSUME Replaying PROVE code = 0 /\ file'.exists
        BY <2>1, <2>2, <2>3 DEF MirrorInv
    <2>4. (\A t \in Threads : thread[t].code = 0) /\ missed = {}
        BY DEF MirrorInv
    <2>5. code = 0
        BY <2>4 DEF ExitCodes
    <2>6. ~written
        BY <2>1, <2>4 DEF SpendInv
    <2>7. file' = [exists |-> TRUE, served |-> log]
        BY <2>1, <2>6 DEF WriteServed
    <2>8. file'.exists
        BY <2>7
    <2> QED BY <2>5, <2>8
<1>3. CASE \E p \in Programs : Edit(p)
    BY <1>0, <1>3 DEF Edit, Command, MirrorInv, Replaying
<1>4. CASE \E mode \in {"pure", "hybrid"}, allow \in BOOLEAN : Start(mode, allow)
    BY <1>4 DEF Start, MirrorInv, Replaying
<1>5. CASE ExitRecorded \/ Judge \/ Verdict
    BY <1>0, <1>5 DEF ExitRecorded, Judge, Verdict, Command, MirrorInv, Replaying
<1>6. CASE Record
    BY <1>0, <1>6 DEF Record, Command, MirrorInv, Replaying
<1>7. CASE Replays
    <2>1. /\ ci.pc = "loop" /\ ci.todo # << >> /\ Launch(Head(ci.todo).obs)
          /\ ci' = [ci EXCEPT !.pc = "agent"] /\ ci.mode # "record"
        BY <1>7 DEF Replays, PlaceInv, CommandInv
    <2>2. ci'.pc = "agent" /\ ci'.mode = ci.mode /\ ci'.todo = ci.todo
        BY <1>0, <2>1 DEF Command
    <2>3. Cassette' = Head(ci.todo).obs
        BY <2>1, <2>2 DEF Cassette
    <2>4. /\ sent' = NothingSent /\ missed' = {} /\ log' = << >>
          /\ thread' = [t \in Threads |-> [Resting EXCEPT !.pc = "ready"]]
          /\ cursors' = [k \in {o.key : o \in ToSet(Head(ci.todo).obs)} |-> 0]
        BY <2>1 DEF Launch
    <2>5. \A t \in Threads : thread'[t].pc = "ready" /\ thread'[t].code = 0
        BY <2>4 DEF Resting
    <2>6. Len(log') = 0 /\ DOMAIN cursors' = {o.key : o \in ToSet(Cassette')}
        BY <2>3, <2>4
    <2>7. 0 <= Len(Cassette')
        <3>1. Head(ci.todo) \in Fixture
            BY <1>0, <2>1, HeadTailProperties DEF Command
        <3>2. Len(Head(ci.todo).obs) \in Nat
            BY <3>1, LenProperties DEF Fixture
        <3> QED BY <2>3, <3>2
    <2>8. \A t \in Threads : thread'[t].pc # "live" /\ thread'[t].code = 0
        BY <2>5
    <2>9. thread'[Main].pc # "ended" /\ ci'.pc # "judge"
        BY <2>2, <2>5
    <2>10. Len(log') <= Len(Cassette') /\ \A i \in 1 .. Len(log') : FALSE
        BY <2>6, <2>7
    <2> QED BY <2>4, <2>6, <2>8, <2>9, <2>10 DEF MirrorInv
<1>8. CASE UNCHANGED vars
    BY <1>8 DEF vars, processVars, MirrorInv, Replaying, Cassette
<1> QED BY <1>1, <1>2, <1>3, <1>4, <1>5, <1>6, <1>7, <1>8 DEF Next

\* A log that is the cassette passes every invariant that was inferred from
\* the cassette, the bounds without headroom included.
LEMMA MirrorPasses ==
    ASSUME PlaceInv, SpendInv, ServeInv, ChainInv, FixturesInv, MirrorInv, Replaying, ci.pc = "judge"
    PROVE  FixturePassed /\ sent = NothingSent
<1> USE ReplayAssumption
<1>1. /\ Cassette # << >> /\ InTime(Cassette) /\ Len(Cassette) = Len(program[Main])
    BY CassetteIsFaithful
<1>2. /\ Cassette \in Seq(Observation) /\ Len(Cassette) \in Nat
      /\ DOMAIN Cassette = 1 .. Len(Cassette)
    BY CassetteType DEF PlaceInv
<1>3. /\ sent = NothingSent /\ missed = {} /\ Len(log) <= Len(Cassette)
      /\ thread[Main].step > Len(program[Main])
      /\ ci.code = 0 /\ file.exists
      /\ \A i \in 1 .. Len(log) : log[i].out = Cassette[i].out
    BY DEF MirrorInv
<1>4. Len(log) \in Nat /\ thread[Main].step = Len(log) + 1
    BY NextIsRecorded
<1>5. Len(log) = Len(Cassette)
    BY <1>1, <1>2, <1>3, <1>4
<1>6. file.served = log /\ LiveTokens(log) = 0
    BY <1>3 DEF SpendInv, NothingSent
<1>7. DOMAIN log = 1 .. Len(Cassette)
    BY <1>5, LenProperties DEF PlaceInv, TypeOK
<1>8. SpanCount(Cassette, log)
    BY <1>5 DEF SpanCount
<1>9. Schema(Cassette, log)
    <2>1. \A i \in 1 .. Len(Cassette) : i <= Len(log)
        BY <1>2, <1>5
    <2> QED BY <1>3, <1>5, <2>1 DEF Schema
<1>10. Tokens(log) = Tokens(Cassette) /\ Tokens(Cassette) \in Nat
    <2> DEFINE ns == [i \in 1 .. Len(Cassette) |-> TokensOf[Cassette[i].out]]
    <2>1. Tokens(log) = Total(ns) /\ Tokens(Cassette) = Total(ns)
        <3>1. [i \in DOMAIN log |-> TokensOf[log[i].out]] = ns
            BY <1>3, <1>5, <1>7
        <3>2. [i \in DOMAIN Cassette |-> TokensOf[Cassette[i].out]] = ns
            BY <1>2
        <3> HIDE DEF ns
        <3> QED BY <3>1, <3>2 DEF Tokens
    <2>2. ns \in Seq(Nat)
        <3>1. \A i \in 1 .. Len(Cassette) : Cassette[i].out \in Answers
            <4>1. \A i \in 1 .. Len(Cassette) : Cassette[i] \in Observation
                BY <1>2, ElementOfSeq
            <4> QED BY <4>1 DEF Observation
        <3>2. \A i \in 1 .. Len(Cassette) : TokensOf[Cassette[i].out] \in Nat
            BY <3>1
        <3> QED BY <1>2, <3>2
    <2> HIDE DEF ns
    <2> QED BY <2>1, <2>2, TotalIsNat
<1>11. Tokens(log) <= (6 * Tokens(Cassette)) \div 5 + 1
    <2>1. \A n \in Nat : n <= (6 * n) \div 5 + 1
        OBVIOUS
    <2> QED BY <1>10, <2>1
<1>12. WithinRounded(Durations(Cassette), WallClock(Cassette))
    <2>1. /\ Durations(Cassette) \in Int /\ WallClock(Cassette) \in Int
          /\ Durations(Cassette) <= WallClock(Cassette) /\ WallClock(Cassette) >= 0
        BY <1>1, <1>2, DurationsFit
    <2>2. \A x, n \in Int : n >= 0 /\ x <= n => x <= (12 * n + 5) \div 10
        OBVIOUS
    <2> QED BY <2>1, <2>2 DEF WithinRounded
<1>13. Evaluate(Cassette, log)
    BY <1>6, <1>8, <1>9, <1>11, <1>12 DEF Evaluate, Metric
<1> QED BY <1>3, <1>6, <1>13 DEF FixturePassed

\* A cassette that one thread recorded to its end without an error response
\* replays to a pass, at no cost, while the agent stays as it is; also one
\* that a hybrid run wrote (recorder.py, replayer.py, invariants.py).
THEOREM UnchangedAgentsPass == Spec => []UnchangedAgentPasses
<1>1. Init => ServeInv
    BY DEF Init, ServeInv
<1>2. Init => SpendInv
    BY LiveTokensOfNothing DEF Init, SpendInv, NothingSent
<1>3. Init => ChainInv
    BY DEF Init, ChainInv
<1>4. Init => FixturesInv
    <2>1. Len(<< >>) = 0
        BY EmptySeq
    <2> QED BY <2>1 DEF Init, FixturesInv
<1>5. Init => MirrorInv
    BY DEF Init, MirrorInv, Replaying
<1>6. PlaceInv /\ SpendInv /\ ServeInv /\ ChainInv /\ FixturesInv /\ MirrorInv => UnchangedAgentPasses
    <2> SUFFICES ASSUME PlaceInv, SpendInv, ServeInv, ChainInv, FixturesInv, MirrorInv,
                        ci.pc = "judge", Head(ci.todo).clean, Head(ci.todo).of = program
                 PROVE  FixturePassed /\ sent = NothingSent
        BY DEF UnchangedAgentPasses
    <2>1. Replaying
        BY DEF Replaying, PlaceInv, CommandInv
    <2> QED BY <2>1, MirrorPasses
<1>7. Spec => [](ServeInv /\ SpendInv /\ ChainInv /\ FixturesInv /\ MirrorInv)
    BY <1>1, <1>2, <1>3, <1>4, <1>5, StepServes, StepSpends, StepChains, StepKeepsFixtures,
       StepMirrors, Places, PTL DEF Spec
<1> QED BY <1>6, <1>7, Places, PTL

-----------------------------------------------------------------------------
(* What a pass in pure mode means. *)

\* A map of 1 .. n into itself that repeats nothing carries the numbers with
\* a mark to all numbers with that mark.
LEMMA SameCount ==
    ASSUME NEW n \in Nat, NEW f \in Injection(1 .. n, 1 .. n),
           NEW S \in SUBSET (1 .. n), NEW T \in SUBSET (1 .. n),
           \A i \in 1 .. n : i \in S <=> f[i] \in T
    PROVE  Cardinality(S) = Cardinality(T)
<1>1. IsFiniteSet(1 .. n)
    BY FS_Interval
<1>2. f \in [1 .. n -> 1 .. n] /\ \A i, j \in 1 .. n : f[i] = f[j] => i = j
    BY DEF Injection, IsInjective
<1>3. f \in Surjection(1 .. n, 1 .. n)
    BY <1>1, FS_Injection
<1>4. \A j \in 1 .. n : \E i \in 1 .. n : f[i] = j
    BY <1>3 DEF Surjection
<1> DEFINE g == [i \in S |-> f[i]]
<1>5. g \in [S -> T]
    BY <1>2
<1>6. \A i, j \in S : g[i] = g[j] => i = j
    BY <1>2
<1>7. \A j \in T : \E i \in S : g[i] = j
    BY <1>4
<1> HIDE DEF g
<1>8. g \in Bijection(S, T)
    BY <1>5, <1>6, <1>7 DEF Bijection, Injection, Surjection, IsInjective
<1>9. IsFiniteSet(S) /\ ExistsBijection(S, T)
    BY <1>1, <1>8, FS_Subset DEF ExistsBijection
<1> QED BY <1>9, FS_Bijection

\* What an agent in pure mode has logged; and, for one of one thread, that it
\* has gone on with each hit, and that a miss is in the exit code.
PureInv ==
    ci.pc \in {"agent", "judge"} /\ ci.mode = "pure" =>
        /\ \A i \in 1 .. Len(log) : log[i].source = "cassette"
        /\ Sequential =>
              /\ thread[Main].step = Len(log) + 1
              /\ thread[Main].step <= Len(program[Main]) + 1
              /\ \A i \in 1 .. Len(log) : log[i].key.prompt = program[Main][i]
              /\ thread[Main].pc # "ended" => missed = {}
              /\ thread[Main].pc = "ended" /\ thread[Main].code = 0 =>
                    thread[Main].step > Len(program[Main]) /\ missed = {}
              /\ ci.pc = "judge" => /\ thread[Main].pc = "ended"
                                    /\ ci.code = 0 => thread[Main].code = 0

\* Every step of the shim.
LEMMA ShimKeepsPure ==
    ASSUME PlaceInv, PureInv, NEW t \in Threads, Shim(t)
    PROVE  PureInv'
<1> USE ReplayAssumption
<1>0. /\ thread \in [Threads -> ThreadState] /\ thread[t] \in ThreadState
      /\ thread[Main] \in ThreadState /\ log \in Seq(Served) /\ ci \in Command
    BY DEF PlaceInv, TypeOK
<1>1. ci' = ci /\ program' = program /\ (Sequential' <=> Sequential)
    BY DEF Shim, Look, Advance, Serve, Miss, GoLive, Finish, ConnectionFails, LiveAnswer, Frame,
           Sequential
<1>2. thread[t].pc # "ended" => ci.pc = "agent"
    BY DEF PlaceInv, ThreadInv
<1> SUFFICES ASSUME ci.pc = "agent", ci.mode = "pure"
             PROVE  /\ \A i \in 1 .. Len(log') : log'[i].source = "cassette"
                    /\ Sequential =>
                          /\ thread'[Main].step = Len(log') + 1
                          /\ thread'[Main].step <= Len(program[Main]) + 1
                          /\ \A i \in 1 .. Len(log') : log'[i].key.prompt = program[Main][i]
                          /\ thread'[Main].pc # "ended" => missed' = {}
                          /\ thread'[Main].pc = "ended" /\ thread'[Main].code = 0 =>
                                thread'[Main].step > Len(program[Main]) /\ missed' = {}
    <2>1. ci.pc = "agent"
        <3>1. thread[t].pc # "ended" \/ ci.pc = "agent"
            BY DEF Shim, Look, Advance, Serve, Miss, GoLive, Finish, ConnectionFails, LiveAnswer, Calls
        <3> QED BY <1>2, <3>1
    <2>2. ci.pc # "judge"
        BY <2>1
    <2> QED BY <1>1, <2>1, <2>2 DEF PureInv
<1>3. /\ \A i \in 1 .. Len(log) : log[i].source = "cassette"
      /\ Sequential =>
            /\ thread[Main].step = Len(log) + 1
            /\ thread[Main].step <= Len(program[Main]) + 1
            /\ \A i \in 1 .. Len(log) : log[i].key.prompt = program[Main][i]
            /\ thread[Main].pc # "ended" => missed = {}
            /\ thread[Main].pc = "ended" /\ thread[Main].code = 0 =>
                  thread[Main].step > Len(program[Main]) /\ missed = {}
    BY DEF PureInv
<1>4. thread[t].pc # "live"
    BY DEF PlaceInv, ThreadInv
<1>5. ~(GoLive(t) \/ ConnectionFails(t) \/ \E a \in Answers : LiveAnswer(t, a))
    BY <1>4 DEF GoLive, ConnectionFails, LiveAnswer
<1>6. CASE Finish(t)
    <2>1. /\ thread' = [thread EXCEPT ![t].pc = "ended"] /\ thread[t].pc = "ready"
          /\ thread[t].step > Len(program[t]) /\ UNCHANGED <<log, missed>>
        BY <1>6 DEF Finish, Frame
    <2>2. /\ thread'[Main].step = thread[Main].step /\ thread'[Main].code = thread[Main].code
          /\ thread'[Main].pc = IF t = Main THEN "ended" ELSE thread[Main].pc
        BY <1>0, <2>1 DEF ThreadState
    <2> QED BY <1>3, <2>1, <2>2
<1>7. CASE Look(t) \/ Advance(t)
    <2>1. UNCHANGED <<log, missed>> /\ thread[t].pc \in {"ready", "found"}
        BY <1>7 DEF Look, Advance, Frame, Calls
    <2>2. /\ thread'[Main].step = thread[Main].step
          /\ t # Main => thread'[Main] = thread[Main]
          /\ t = Main => thread'[Main].pc # "ended"
        <3>1. CASE Look(t)
            BY <1>0, <3>1 DEF Look, ThreadState
        <3>2. CASE Advance(t)
            BY <1>0, <3>2 DEF Advance, ThreadState
        <3> QED BY <1>7, <3>1, <3>2
    <2>3. t = Main => thread[Main].pc # "ended"
        BY <2>1
    <2> QED BY <1>3, <2>1, <2>2, <2>3
<1>8. CASE Miss(t)
    <2>1. /\ thread' = [thread EXCEPT ![t] = Exits(@, 78)] /\ log' = log
          /\ thread[t].pc = "ready" /\ thread[t].step <= Len(program[t])
        BY <1>8 DEF Miss, Calls
    <2>2. ASSUME Sequential PROVE t = Main
        <3>1. ASSUME t # Main PROVE FALSE
            <4>1. program[t] = << >> /\ Len(program[t]) = 0 /\ thread[t].step \in Nat \ {0}
                BY <1>0, <2>2, <3>1 DEF Sequential, ThreadState
            <4> QED BY <2>1, <4>1
        <3> QED BY <3>1
    <2>3. t = Main => /\ thread'[Main].step = thread[Main].step /\ thread'[Main].pc = "ended"
                      /\ thread'[Main].code = 78
        BY <1>0, <2>1 DEF Exits, ThreadState
    <2> QED BY <1>3, <2>1, <2>2, <2>3
<1>9. CASE Serve(t)
    <2> DEFINE index == Nth(Matching(Key(t)), thread[t].cursor)
               e == [key |-> Key(t), out |-> Cassette[index].out, begin |-> now, end |-> now,
                     source |-> "cassette", index |-> index]
    <2>1. /\ thread[t].pc = "taken" /\ log' = Append(log, e) /\ UNCHANGED missed
          /\ thread' = [thread EXCEPT ![t] = Answered(thread[t], Cassette[index].out)]
          /\ thread[t].step <= Len(program[t])
        BY <1>9 DEF Serve, Frame, PlaceInv, ThreadInv
    <2>2. index \in Nat /\ Key(t) \in Keys /\ Cassette[index].out \in Answers /\ now \in Nat
        BY <2>1, FoundIsThere DEF Observation, PlaceInv, TypeOK
    <2>3. e \in Served /\ e.key = Key(t) /\ e.source = "cassette"
        BY <2>2 DEF Served
    <2>4. /\ Answered(thread[t], Cassette[index].out).pc = "ready"
          /\ Answered(thread[t], Cassette[index].out).step = thread[t].step + 1
        BY <1>0, <2>2, AnsweredType
    <2> HIDE DEF e, index
    <2>5. /\ Len(log) \in Nat /\ Len(log') = Len(log) + 1 /\ log'[Len(log) + 1] = e
          /\ \A i \in 1 .. Len(log) : log'[i] = log[i]
        BY <1>0, <2>1, <2>3, AppendProperties, LenProperties
    <2>6. \A i \in 1 .. Len(log') : i \in 1 .. Len(log) \/ i = Len(log) + 1
        BY <2>5
    <2>7. \A i \in 1 .. Len(log') : log'[i].source = "cassette"
        BY <1>3, <2>3, <2>5, <2>6
    <2>8. ASSUME Sequential
          PROVE  /\ thread'[Main].step = Len(log') + 1
                 /\ thread'[Main].step <= Len(program[Main]) + 1
                 /\ \A i \in 1 .. Len(log') : log'[i].key.prompt = program[Main][i]
                 /\ thread'[Main].pc # "ended" => missed' = {}
                 /\ thread'[Main].pc # "ended"
        <3>1. t = Main
            <4>1. ASSUME t # Main PROVE FALSE
                <5>1. program[t] = << >> /\ Len(program[t]) = 0 /\ thread[t].step \in Nat \ {0}
                    BY <1>0, <2>8, <4>1 DEF Sequential, ThreadState
                <5> QED BY <2>1, <5>1
            <4> QED BY <4>1
        <3>2. thread'[Main].step = thread[Main].step + 1 /\ thread'[Main].pc = "ready"
            BY <1>0, <2>1, <2>4, <3>1
        <3>3. thread[Main].step = Len(log) + 1
            BY <1>3, <2>8
        <3>4. Len(program[Main]) \in Nat
            BY LenProperties DEF PlaceInv, TypeOK
        <3>5. thread'[Main].step = Len(log') + 1 /\ thread'[Main].step <= Len(program[Main]) + 1
            BY <2>1, <2>5, <3>1, <3>2, <3>3, <3>4
        <3>6. e.key.prompt = program[Main][Len(log) + 1]
            BY <2>3, <3>1, <3>3 DEF Key, Prompt
        <3>7. \A i \in 1 .. Len(log') : log'[i].key.prompt = program[Main][i]
            BY <1>3, <2>5, <2>6, <2>8, <3>6
        <3>8. missed' = {}
            BY <1>3, <2>1, <2>8, <3>1
        <3> QED BY <3>2, <3>5, <3>7, <3>8
    <2> QED BY <2>7, <2>8
<1> QED BY <1>5, <1>6, <1>7, <1>8, <1>9 DEF Shim

\* Every step.
LEMMA StepPure == PlaceInv /\ PureInv /\ [Next]_vars => PureInv'
<1> SUFFICES ASSUME PlaceInv, PureInv, [Next]_vars PROVE PureInv'
    OBVIOUS
<1> USE ReplayAssumption
<1>0. ci \in Command
    BY DEF PlaceInv, TypeOK
<1>1. CASE \E t \in Threads : Shim(t)
    BY <1>1, ShimKeepsPure
<1>2. ASSUME NEW code \in ExitCodes, Exit(code) PROVE PureInv'
    <2>1. /\ ci.pc = "agent" /\ ci' = [ci EXCEPT !.pc = "judge", !.code = code]
          /\ \A t \in Threads : thread[t].pc = "ended"
          /\ UNCHANGED <<program, thread, cursors, log, missed, sent>>
        BY <1>2 DEF Exit, AgentDone
    <2>2. ci'.pc = "judge" /\ ci'.mode = ci.mode /\ ci'.code = code
        BY <1>0, <2>1 DEF Command
    <2>3. code = 0 => thread[Main].code = 0
        BY DEF ExitCodes
    <2>4. Sequential' <=> Sequential
        BY <2>1 DEF Sequential
    <2>5. thread[Main].pc = "ended" /\ program' = program /\ thread' = thread
        BY <2>1
    <2> QED BY <2>1, <2>2, <2>3, <2>4, <2>5 DEF PureInv
<1>3. CASE \E p \in Programs : Edit(p)
    BY <1>0, <1>3 DEF Edit, Command, PureInv
<1>4. CASE \E mode \in {"pure", "hybrid"}, allow \in BOOLEAN : Start(mode, allow)
    BY <1>4 DEF Start, PureInv
<1>5. CASE ExitRecorded \/ Judge \/ Verdict
    BY <1>0, <1>5 DEF ExitRecorded, Judge, Verdict, Command, PureInv
<1>6. CASE Record
    BY <1>0, <1>6 DEF Record, Command, PureInv
<1>7. CASE Replays
    <2>1. /\ ci' = [ci EXCEPT !.pc = "agent"] /\ log' = << >> /\ missed' = {} /\ program' = program
          /\ thread' = [t \in Threads |-> [Resting EXCEPT !.pc = "ready"]]
        BY <1>7 DEF Replays, Launch
    <2>2. ci'.pc = "agent" /\ thread'[Main].pc = "ready" /\ thread'[Main].step = 1
        BY <1>0, <2>1 DEF Command, Resting
    <2>3. Len(log') = 0 /\ Len(program[Main]) \in Nat
        BY <2>1, LenProperties DEF PlaceInv, TypeOK
    <2>4. 1 = Len(log') + 1 /\ 1 <= Len(program[Main]) + 1 /\ \A i \in 1 .. Len(log') : FALSE
        BY <2>3
    <2> QED BY <2>1, <2>2, <2>4 DEF PureInv
<1>8. CASE UNCHANGED vars
    BY <1>8 DEF vars, processVars, PureInv, Sequential
<1> QED BY <1>1, <1>2, <1>3, <1>4, <1>5, <1>6, <1>7, <1>8 DEF Next

\* A fixture that passes in pure mode has the calls that one thread makes:
\* as many calls as observations, and no observation is served twice.
LEMMA PassedMeansRecorded ==
    ASSUME PlaceInv, ServeInv, SpendInv, PureInv, ci.pc = "judge", ci.mode = "pure", Sequential,
           FixturePassed, NEW p \in Prompts
    PROVE  Sends(p) = Recorded(Head(ci.todo), p)
<1> USE ReplayAssumption
<1>1. /\ Cassette \in Seq(Observation) /\ Len(Cassette) \in Nat
      /\ DOMAIN Cassette = 1 .. Len(Cassette)
      /\ \A key : Matching(key) \subseteq 1 .. Len(Cassette)
      /\ Cassette = Head(ci.todo).obs
    BY CassetteType DEF PlaceInv, Cassette
<1>2. ci.code = 0 /\ Evaluate(Cassette, file.served)
    BY DEF FixturePassed
<1>3. /\ thread[Main].step = Len(log) + 1 /\ thread[Main].step <= Len(program[Main]) + 1
      /\ \A i \in 1 .. Len(log) : /\ log[i].key.prompt = program[Main][i]
                                  /\ log[i].source = "cassette"
      /\ thread[Main].step > Len(program[Main]) /\ missed = {}
    BY <1>2 DEF PureInv
<1>4. file.served = log /\ Len(log) = Len(Cassette)
    BY <1>2, <1>3 DEF SpendInv, Evaluate, SpanCount
<1>5. PICK n \in Nat : n = Len(Cassette) /\ n = Len(log) /\ n = Len(program[Main])
    <2>1. Len(program[Main]) \in Nat
        BY LenProperties DEF PlaceInv, TypeOK
    <2>2. Len(program[Main]) = Len(Cassette)
        BY <1>1, <1>3, <1>4, <2>1
    <2> QED BY <1>1, <1>4, <2>2
<1>6. log \in Seq(Served) /\ DOMAIN log = 1 .. n /\ DOMAIN program[Main] = 1 .. n
    BY <1>5, LenProperties DEF PlaceInv, TypeOK
<1>7. \A i \in 1 .. n : log[i] \in Served /\ log[i].key \in Keys
    <2>1. \A i \in 1 .. n : log[i] \in Served
        BY <1>5, <1>6, ElementOfSeq
    <2> QED BY <2>1 DEF Served
<1>8. ASSUME NEW i \in 1 .. n
      PROVE  /\ i \in Hits(log[i].key)
             /\ log[i].index \in Matching(log[i].key)
             /\ Cardinality(Under(Matching(log[i].key), log[i].index)) =
                    Cardinality(Under(Hits(log[i].key), i))
    <2> DEFINE key == log[i].key
               rank == Cardinality(Under(Hits(key), i))
    <2>1. i \in Hits(key)
        BY <1>3, <1>5, <1>6 DEF Hits
    <2>2. InOrder(key)
        BY <1>7, SequentialSharesNothing DEF ServeInv
    <2>3. rank < Cardinality(Matching(key)) /\ log[i].index = Nth(Matching(key), rank)
        BY <2>1, <2>2 DEF InOrder
    <2>4. rank \in Nat
        <3>1. Hits(key) \subseteq Nat /\ IsFiniteSet(Hits(key)) /\ i \in Nat
            BY HitsType DEF PlaceInv
        <3> HIDE DEF key
        <3> QED BY <3>1, BelowNext
    <2>5. Nth(Matching(key), rank) \in Matching(key)
            /\ Cardinality(Under(Matching(key), Nth(Matching(key), rank))) = rank
        <3> HIDE DEF key, rank
        <3> QED BY <1>1, <2>3, <2>4, NthExists
    <2> QED BY <2>1, <2>3, <2>5
<1>9. \A i \in 1 .. n : log[i].index \in 1 .. n /\ Cassette[log[i].index].key = log[i].key
    BY <1>1, <1>5, <1>8 DEF Matching
<1>10. ASSUME NEW i \in 1 .. n, NEW j \in 1 .. n, log[i].index = log[j].index PROVE i = j
    <2>1. log[i].key = log[j].key
        BY <1>9, <1>10
    <2> DEFINE H == Hits(log[i].key)
    <2>2. i \in H /\ j \in H
        BY <1>8, <2>1
    <2>3. Cardinality(Under(H, i)) = Cardinality(Under(H, j))
        BY <1>8, <1>10, <2>1
    <2>4. H \subseteq Nat /\ IsFiniteSet(H)
        BY HitsType DEF PlaceInv
    <2>5. Nth(H, Cardinality(Under(H, i))) = i /\ Nth(H, Cardinality(Under(H, j))) = j
        <3> HIDE DEF H
        <3> QED BY <2>2, <2>4, NthOfRank
    <2> QED BY <2>3, <2>5
<1> DEFINE f == [i \in 1 .. n |-> log[i].index]
           S == {i \in 1 .. n : program[Main][i] = p}
           T == {i \in 1 .. n : Cassette[i].key.prompt = p}
<1>11. f \in [1 .. n -> 1 .. n] /\ \A i, j \in 1 .. n : f[i] = f[j] => i = j
    BY <1>9, <1>10
<1>12. \A i \in 1 .. n : i \in S <=> f[i] \in T
    <2>1. \A i \in 1 .. n : Cassette[log[i].index].key.prompt = program[Main][i]
        BY <1>3, <1>5, <1>9
    <2> QED BY <1>9, <2>1
<1>13. S \in SUBSET (1 .. n) /\ T \in SUBSET (1 .. n)
    OBVIOUS
<1>14. Sends(p) = Cardinality(S) /\ Recorded(Head(ci.todo), p) = Cardinality(T)
    BY <1>1, <1>5, <1>6 DEF Sends, Recorded
<1> HIDE DEF f, S, T
<1>15. n \in Nat /\ f \in Injection(1 .. n, 1 .. n)
    BY <1>5, <1>11 DEF Injection, IsInjective
<1>16. Cardinality(S) = Cardinality(T)
    BY <1>12, <1>13, <1>15, SameCount
<1> QED BY <1>14, <1>16

\* The agent makes exactly the calls of a fixture.
SameCalls(f) == \A p \in Prompts : Sends(p) = Recorded(f, p)

\* While halley ci has not failed in pure mode, it has passed the fixtures
\* before those that are still to be replayed.
GreenInv ==
    /\ ci.verdict = "passed" => ci.pc = "idle"
    /\ ci.pc # "idle" /\ ci.mode = "pure" /\ Sequential /\ ~ci.failed =>
           \A i \in 1 .. Len(dir) - Len(ci.todo) : SameCalls(dir[i])
    /\ GreenMeansRecorded

\* A step that leaves directory and program alone, and gives no verdict.
LEMMA QuietKeepsGreen ==
    ASSUME GreenInv, UNCHANGED <<program, dir>>, ci'.todo = ci.todo, ci'.mode = ci.mode,
           ci'.failed = ci.failed, ci'.verdict = ci.verdict, ci.pc # "idle", ci'.pc # "idle"
    PROVE  GreenInv'
<1>1. ci'.verdict # "passed"
    BY DEF GreenInv
<1>2. Sequential' <=> Sequential
    BY DEF Sequential
<1>3. \A f : SameCalls(f)' <=> SameCalls(f)
    BY DEF SameCalls, Sends, Recorded
<1>4. ~ci.failed /\ ci.mode = "pure" /\ Sequential =>
          \A i \in 1 .. Len(dir) - Len(ci.todo) : SameCalls(dir[i])
    BY DEF GreenInv
<1>5. ~ci.failed /\ ci.mode = "pure" /\ Sequential =>
          \A i \in 1 .. Len(dir) - Len(ci.todo) : \A p \in Prompts : Sends(p)' = Recorded(dir[i], p)
    BY <1>4 DEF SameCalls, Sends
<1> QED BY <1>1, <1>2, <1>5 DEF GreenInv, GreenMeansRecorded, SameCalls, Sends, Recorded

\* Pure mode writes no fixture.
LEMMA PureWritesNothing ==
    ASSUME PlaceInv, PureInv, ci.pc = "agent", ci.mode = "pure", WriteServed
    PROVE  dir' = dir
<1>1. DOMAIN log = 1 .. Len(log)
    BY LenProperties DEF PlaceInv, TypeOK
<1>2. \A e \in ToSet(log) : e.source # "live"
    BY <1>1 DEF PureInv, ToSet
<1> QED BY <1>2 DEF WriteServed

\* Every step.
LEMMA StepGreen ==
    PlaceInv /\ ServeInv /\ SpendInv /\ PureInv /\ GreenInv /\ [Next]_vars => GreenInv'
<1> SUFFICES ASSUME PlaceInv, ServeInv, SpendInv, PureInv, GreenInv, [Next]_vars PROVE GreenInv'
    OBVIOUS
<1>0. ci \in Command /\ TypeOK
    BY DEF PlaceInv, TypeOK
<1>1. ASSUME ci'.pc # "idle", ci'.verdict # "passed", ci'.mode # "pure" PROVE GreenInv'
    BY <1>1 DEF GreenInv, GreenMeansRecorded
<1>2. ASSUME ci'.pc = "idle", ci'.verdict # "passed" PROVE GreenInv'
    BY <1>2 DEF GreenInv, GreenMeansRecorded
<1>3. CASE \E t \in Threads : Shim(t)
    <2>1. PICK t \in Threads : Shim(t)
        BY <1>3
    <2>2. ci' = ci /\ program' = program /\ ci.pc = "agent"
        <3>1. thread[t].pc # "ended" \/ ci.pc = "agent"
            BY <2>1 DEF Shim, Look, Advance, Serve, Miss, GoLive, Finish, ConnectionFails,
                        LiveAnswer, Calls
        <3>2. ci.pc = "agent"
            BY <3>1 DEF PlaceInv, ThreadInv
        <3>3. ci' = ci /\ program' = program
            BY <2>1 DEF Shim, Look, Advance, Serve, Miss, GoLive, Finish, ConnectionFails,
                        LiveAnswer, Frame
        <3> QED BY <3>2, <3>3
    <2>3. ci'.verdict # "passed"
        BY <2>2 DEF GreenInv
    <2>4. CASE ci.mode # "pure"
        BY <1>1, <2>2, <2>3, <2>4
    <2>5. CASE ci.mode = "pure"
        <3>1. dir' = dir
            <4>1. CASE Miss(t)
                BY <2>2, <2>5, <4>1, PureWritesNothing DEF Miss
            <4>2. CASE ~Miss(t)
                BY <2>1, <4>2 DEF Shim, Look, Advance, Serve, GoLive, Finish, ConnectionFails,
                                  LiveAnswer, Frame
            <4> QED BY <4>1, <4>2
        <3> QED BY <2>2, <3>1, QuietKeepsGreen
    <2> QED BY <2>4, <2>5
<1>4. ASSUME NEW code \in ExitCodes, Exit(code) PROVE GreenInv'
    <2>1. /\ ci.pc = "agent" /\ ci' = [ci EXCEPT !.pc = "judge", !.code = code] /\ WriteServed
          /\ program' = program
        BY <1>4 DEF Exit, AgentDone
    <2>2. /\ ci'.pc = "judge" /\ ci'.mode = ci.mode /\ ci'.todo = ci.todo
          /\ ci'.failed = ci.failed /\ ci'.verdict = ci.verdict
        BY <1>0, <2>1 DEF Command
    <2>3. ci'.verdict # "passed"
        BY <2>1, <2>2 DEF GreenInv
    <2>4. CASE ci.mode # "pure"
        BY <1>1, <2>2, <2>3, <2>4
    <2>5. CASE ci.mode = "pure"
        <3>1. dir' = dir
            BY <2>1, <2>5, PureWritesNothing
        <3> QED BY <2>1, <2>2, <3>1, QuietKeepsGreen
    <2> QED BY <2>4, <2>5
<1>5. CASE \E p \in Programs : Edit(p)
    <2>1. ci'.pc = "idle" /\ ci'.verdict = "none"
        BY <1>0, <1>5 DEF Edit, Command
    <2> QED BY <1>2, <2>1
<1>6. ASSUME NEW mode \in {"pure", "hybrid"}, NEW allow \in BOOLEAN, Start(mode, allow)
      PROVE  GreenInv'
    <2>1. ci'.verdict = "none" /\ ci'.todo = dir /\ dir' = dir
        BY <1>6 DEF Start
    <2>2. Len(dir) \in Nat
        BY LenProperties DEF PlaceInv, TypeOK
    <2>3. \A i \in 1 .. Len(dir') - Len(ci'.todo) : FALSE
        <3>1. Len(dir') - Len(ci'.todo) = 0
            BY <2>1, <2>2
        <3> QED BY <3>1
    <2> QED BY <2>1, <2>3 DEF GreenInv, GreenMeansRecorded
<1>7. CASE ExitRecorded
    <2>1. ci'.pc = "idle" /\ ci'.verdict = ci.verdict /\ ci.pc = "agent"
        BY <1>0, <1>7 DEF ExitRecorded, AgentDone, Command
    <2>2. ci'.verdict # "passed"
        BY <2>1 DEF GreenInv
    <2> QED BY <1>2, <2>1, <2>2
<1>8. CASE Record
    <2>1. ci'.pc = "agent" /\ ci'.verdict = "none" /\ ci'.mode = "record"
        BY <1>0, <1>8 DEF Record, Command
    <2> QED BY <1>1, <2>1
<1>9. CASE Replays
    <2>1. ci.pc = "loop" /\ ci' = [ci EXCEPT !.pc = "agent"] /\ UNCHANGED <<program, dir>>
        BY <1>9 DEF Replays, Launch
    <2>2. /\ ci'.pc = "agent" /\ ci'.mode = ci.mode /\ ci'.todo = ci.todo
          /\ ci'.failed = ci.failed /\ ci'.verdict = ci.verdict
        BY <1>0, <2>1 DEF Command
    <2> QED BY <2>1, <2>2, QuietKeepsGreen
<1>10. CASE Judge
    <2>1. /\ ci.pc = "judge" /\ UNCHANGED <<program, dir>>
          /\ ci' = [ci EXCEPT !.pc = "loop", !.todo = Tail(@), !.failed = @ \/ ~FixturePassed,
                             !.code = 0]
        BY <1>10 DEF Judge
    <2>2. /\ ci'.pc = "loop" /\ ci'.mode = ci.mode /\ ci'.todo = Tail(ci.todo)
          /\ ci'.failed = (ci.failed \/ ~FixturePassed) /\ ci'.verdict = ci.verdict
        BY <1>0, <2>1 DEF Command
    <2>3. ci'.verdict # "passed"
        BY <2>1, <2>2 DEF GreenInv
    <2>4. /\ ci.todo \in Seq(Fixture) /\ ci.todo # << >>
          /\ \A i \in 1 .. Len(ci.todo) : ci.todo[i] = dir[Len(dir) - Len(ci.todo) + i]
        BY <1>0, <2>1 DEF PlaceInv, CommandInv, Command
    <2>5. PICK n \in Nat : n = Len(ci.todo) /\ n # 0
        BY <2>4, LenProperties, EmptySeq
    <2>6. PICK N \in Nat : N = Len(dir)
        BY <1>0, LenProperties DEF TypeOK
    <2>7. Len(ci'.todo) = n - 1 /\ Head(ci.todo) = ci.todo[1]
        BY <2>2, <2>4, <2>5, HeadTailProperties
    <2>8. Head(ci.todo) = dir[N - n + 1]
        <3>1. 1 \in 1 .. n
            BY <2>5
        <3> QED BY <2>4, <2>5, <2>6, <2>7, <3>1
    <2> SUFFICES ASSUME ci.mode = "pure", Sequential, ~ci.failed, FixturePassed,
                        NEW i \in 1 .. N - (n - 1)
                 PROVE  SameCalls(dir[i])
        <3>1. Sequential' <=> Sequential
            BY <2>1 DEF Sequential
        <3>2. \A f : SameCalls(f) => \A p \in Prompts : Sends(p)' = Recorded(f, p)
            BY <2>1 DEF SameCalls, Sends
        <3>3. ~ci'.failed => ~ci.failed /\ FixturePassed
            BY <2>2
        <3>4. Len(dir') - Len(ci'.todo) = N - (n - 1)
            BY <2>1, <2>6, <2>7
        <3> QED BY <2>1, <2>2, <2>3, <3>1, <3>2, <3>3, <3>4
                DEF GreenInv, GreenMeansRecorded, SameCalls, Sends, Recorded
    <2>9. i \in 1 .. N - n \/ i = N - n + 1
        BY <2>5, <2>6
    <2>10. CASE i \in 1 .. N - n
        BY <2>1, <2>5, <2>6, <2>10 DEF GreenInv
    <2>11. CASE i = N - n + 1
        <3>1. SameCalls(Head(ci.todo))
            BY <2>1, PassedMeansRecorded DEF SameCalls
        <3> QED BY <2>8, <2>11, <3>1
    <2> QED BY <2>9, <2>10, <2>11
<1>11. CASE Verdict
    <2>1. /\ ci.pc = "loop" /\ ci.todo = << >> /\ UNCHANGED <<program, dir>>
          /\ ci' = [ci EXCEPT !.pc = "idle",
                             !.verdict = IF ci.failed THEN "failed" ELSE "passed"]
        BY <1>11 DEF Verdict
    <2>2. /\ ci'.pc = "idle" /\ ci'.mode = ci.mode
          /\ ci'.verdict = IF ci.failed THEN "failed" ELSE "passed"
        BY <1>0, <2>1 DEF Command
    <2> SUFFICES ASSUME ~ci.failed, ci.mode = "pure", Sequential, NEW f \in ToSet(dir)
                 PROVE  SameCalls(f)
        <3>1. Sequential' <=> Sequential
            BY <2>1 DEF Sequential
        <3>2. \A f : SameCalls(f) => \A p \in Prompts : Sends(p)' = Recorded(f, p)
            BY <2>1 DEF SameCalls, Sends
        <3> QED BY <2>1, <2>2, <3>1, <3>2 DEF GreenInv, GreenMeansRecorded, Sends, Recorded
    <2>3. Len(dir) \in Nat /\ DOMAIN dir = 1 .. Len(dir) /\ Len(ci.todo) = 0
        BY <1>0, <2>1, LenProperties DEF TypeOK
    <2>4. PICK i \in 1 .. Len(dir) : f = dir[i]
        BY <2>3 DEF ToSet
    <2>5. i \in 1 .. Len(dir) - Len(ci.todo)
        BY <2>3, <2>4
    <2> QED BY <2>1, <2>4, <2>5 DEF GreenInv
<1>12. CASE UNCHANGED vars
    BY <1>12 DEF vars, GreenInv, GreenMeansRecorded, SameCalls, Sends, Recorded, Sequential
<1> QED BY <1>3, <1>4, <1>5, <1>6, <1>7, <1>8, <1>9, <1>10, <1>11, <1>12 DEF Next

\* When halley ci passes in pure mode, an agent of one thread makes exactly
\* the calls that every fixture of the directory holds (main.rs lines
\* 282-471).
THEOREM GreenIsEarned == Spec => []GreenMeansRecorded
<1>1. Init => ServeInv
    BY DEF Init, ServeInv
<1>2. Init => SpendInv
    BY LiveTokensOfNothing DEF Init, SpendInv, NothingSent
<1>3. Init => PureInv
    BY DEF Init, PureInv
<1>4. Init => GreenInv
    BY DEF Init, GreenInv, GreenMeansRecorded
<1>5. GreenInv => GreenMeansRecorded
    BY DEF GreenInv
<1> QED BY <1>1, <1>2, <1>3, <1>4, <1>5, StepServes, StepSpends, StepPure, StepGreen, Places, PTL
        DEF Spec
=============================================================================
