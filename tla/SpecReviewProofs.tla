-------------------------- MODULE SpecReviewProofs --------------------------
(***************************************************************************)
(* Theorems about SpecReview, for any rows, files, batches, selections and *)
(* any number of requests and deaths, with one reviewer at a time.         *)
(***************************************************************************)
EXTENDS SpecReview, WellFoundedInduction, FiniteSetTheorems, SequenceTheorems, TLAPS

-----------------------------------------------------------------------------
(* Induction on the numbers up to a bound, for a set of numbers.            *)

LEMMA UpTo ==
  ASSUME NEW L \in Nat, NEW S, 0 \in S, \A n \in 0..L : n \in S /\ n < L => n + 1 \in S
  PROVE  \A n \in 0..L : n \in S
<1>0. SUFFICES ASSUME NEW m \in 0..L, m \notin S PROVE FALSE
  OBVIOUS
<1> DEFINE T == {n \in 0..L : n \notin S}
<1>1. T \subseteq Nat /\ T # {}
  BY <1>0
<1>2. \A n \in T : n \in 0..L /\ n \notin S
  OBVIOUS
<1>3. \A n \in 0..L : n \notin T => n \in S
  OBVIOUS
<1> HIDE DEF T
<1>4. PICK x \in T : \A y \in T : ~ (<<y, x>> \in OpToRel(<, Nat))
  BY <1>1, NatLessThanWellFounded, WFMin, Zenon
<1>5. \A y \in T : ~ (y < x)
  BY <1>1, <1>4 DEF OpToRel
<1>6. x \in 0..L /\ x # 0 /\ x \notin S
  BY <1>2, <1>4
<1>7. x - 1 \in 0..L /\ x - 1 < x /\ x - 1 < L /\ (x - 1) + 1 = x
  BY <1>6
<1>8. x - 1 \in S
  BY <1>3, <1>5, <1>7
<1>9. QED BY <1>6, <1>7, <1>8

\* A non-empty set of numbers up to a bound has a greatest element.
LEMMA Greatest ==
  ASSUME NEW L \in Nat, NEW S, S \subseteq 1..L, S # {}
  PROVE  \E i \in S : \A j \in S : j <= i
<1> SUFFICES ASSUME ~ \E i \in S : \A j \in S : j <= i PROVE FALSE
  OBVIOUS
<1> DEFINE T == {n \in 0..L : \E j \in S : n < j}
<1>1. \A j \in S : j \in Nat /\ 0 < j /\ j <= L
  OBVIOUS
<1>2. ASSUME NEW i \in S PROVE \E j \in S : i < j
  <2>1. PICK j \in S : ~ (j <= i)
    OBVIOUS
  <2>2. i < j
    BY <1>1, <2>1
  <2>3. QED BY <2>2
<1>3. 0 \in T
  <2>1. PICK j : j \in S
    OBVIOUS
  <2>2. 0 \in 0..L /\ 0 < j
    BY <1>1, <2>1
  <2>3. QED BY <2>1, <2>2
<1>4. ASSUME NEW n \in 0..L, n \in T, n < L PROVE n + 1 \in T
  <2>1. PICK j \in S : n < j
    BY <1>4
  <2>2. PICK k \in S : j < k
    BY <1>2
  <2>3. n + 1 < k /\ n + 1 \in 0..L
    BY <1>1, <1>4, <2>1, <2>2
  <2>4. QED BY <2>3
<1>5. \A n \in 0..L : n \in T
  <2> HIDE DEF T
  <2>1. QED BY <1>3, <1>4, UpTo
<1>6. L \in T
  BY <1>5
<1>7. PICK j \in S : L < j
  BY <1>6
<1>8. QED BY <1>1, <1>7

-----------------------------------------------------------------------------
(* Replaying ops on a spec.                                                 *)

LEMMA AfterExists ==
  ASSUME NEW at, NEW ops, NEW L \in Nat
  PROVE  \E g : g = [n \in 0..L |-> IF n = 0 THEN at ELSE Apply(g[n - 1], ops[n])]
<1> DEFINE S == {k \in 0..L :
                  \E g : g = [n \in 0..k |-> IF n = 0 THEN at ELSE Apply(g[n - 1], ops[n])]}
<1>1. 0 \in S
  <2>1. PICK g : g = [n \in 0..0 |-> at]
    OBVIOUS
  <2>2. g = [n \in 0..0 |-> IF n = 0 THEN at ELSE Apply(g[n - 1], ops[n])]
    BY <2>1
  <2>3. QED BY <2>2
<1>2. ASSUME NEW k \in 0..L, k \in S, k < L PROVE k + 1 \in S
  <2>1. PICK g : g = [n \in 0..k |-> IF n = 0 THEN at ELSE Apply(g[n - 1], ops[n])]
    BY <1>2
  <2>2. PICK h : h = [n \in 0..(k + 1) |-> IF n <= k THEN g[n] ELSE Apply(g[k], ops[n])]
    OBVIOUS
  <2>3. ASSUME NEW n \in 0..(k + 1)
        PROVE  h[n] = IF n = 0 THEN at ELSE Apply(h[n - 1], ops[n])
    <3>1. CASE n = 0
      BY <2>1, <2>2, <3>1
    <3>2. CASE n # 0 /\ n <= k
      <4>1. n - 1 \in 0..(k + 1) /\ n - 1 <= k /\ n \in 0..k
        BY <3>2
      <4>2. h[n] = g[n] /\ h[n - 1] = g[n - 1]
        BY <2>2, <3>2, <4>1
      <4>3. g[n] = Apply(g[n - 1], ops[n])
        BY <2>1, <3>2, <4>1
      <4>4. QED BY <3>2, <4>2, <4>3
    <3>3. CASE n = k + 1
      <4>1. k \in 0..(k + 1) /\ n # 0 /\ ~ (n <= k) /\ n - 1 = k
        BY <3>3
      <4>2. h[n] = Apply(g[k], ops[n]) /\ h[k] = g[k]
        BY <2>2, <4>1
      <4>3. QED BY <4>1, <4>2
    <3>4. QED BY <3>1, <3>2, <3>3
  <2>4. h = [n \in 0..(k + 1) |-> h[n]]
    BY <2>2
  <2>5. h = [n \in 0..(k + 1) |-> IF n = 0 THEN at ELSE Apply(h[n - 1], ops[n])]
    BY <2>3, <2>4
  <2>6. QED BY <1>2, <2>5
<1>3. \A k \in 0..L : k \in S
  <2> HIDE DEF S
  <2>1. QED BY <1>1, <1>2, UpTo
<1>4. QED BY <1>3

LEMMA AfterSteps ==
  ASSUME NEW at, NEW ops, Len(ops) \in Nat
  PROVE  /\ After(at, ops)[0] = at
         /\ \A n \in 1..Len(ops) : After(at, ops)[n] = Apply(After(at, ops)[n - 1], ops[n])
<1>1. After(at, ops) = CHOOSE g : g = [n \in 0..Len(ops) |->
                                         IF n = 0 THEN at ELSE Apply(g[n - 1], ops[n])]
  BY DEF After
<1>2. After(at, ops) = [n \in 0..Len(ops) |->
                          IF n = 0 THEN at ELSE Apply(After(at, ops)[n - 1], ops[n])]
  BY <1>1, AfterExists
<1>3. PICK g : g = After(at, ops)
  OBVIOUS
<1>4. g = [n \in 0..Len(ops) |-> IF n = 0 THEN at ELSE Apply(g[n - 1], ops[n])]
  BY <1>2, <1>3
<1>5. g[0] = at /\ \A n \in 1..Len(ops) : g[n] = Apply(g[n - 1], ops[n])
  BY <1>4
<1>6. QED BY <1>3, <1>5

\* What an op makes of a row depends on that row only.
LEMMA ApplyIsLocal ==
  ASSUME NEW a, NEW b, NEW e, NEW r \in Rows, a[r] = b[r]
  PROVE  Apply(a, e)[r] = Apply(b, e)[r]
<1>1. \A action : Movable(a, r, action) = Movable(b, r, action)
  BY DEF Movable, Settled, Pending
<1>2. r \in Moves(a, e) <=> r \in Moves(b, e)
  BY <1>1 DEF Moves
<1>3. QED BY <1>2 DEF Apply

LEMMA ReplayIsLocal ==
  ASSUME NEW a, NEW b, NEW ops, Len(ops) \in Nat, NEW r \in Rows, a[r] = b[r]
  PROVE  ApplyAll(a, ops)[r] = ApplyAll(b, ops)[r]
<1> DEFINE S == {n \in 0..Len(ops) : After(a, ops)[n][r] = After(b, ops)[n][r]}
<1>1. 0 \in S
  BY AfterSteps
<1>2. ASSUME NEW n \in 0..Len(ops), n \in S, n < Len(ops) PROVE n + 1 \in S
  <2>1. n + 1 \in 1..Len(ops) /\ (n + 1) - 1 = n /\ n + 1 \in 0..Len(ops)
    BY <1>2
  <2>2. /\ After(a, ops)[n + 1] = Apply(After(a, ops)[n], ops[n + 1])
        /\ After(b, ops)[n + 1] = Apply(After(b, ops)[n], ops[n + 1])
    BY <2>1, AfterSteps
  <2>3. After(a, ops)[n][r] = After(b, ops)[n][r]
    BY <1>2
  <2>4. After(a, ops)[n + 1][r] = After(b, ops)[n + 1][r]
    BY <2>2, <2>3, ApplyIsLocal
  <2>5. QED BY <2>1, <2>4
<1>3. \A n \in 0..Len(ops) : n \in S
  <2> HIDE DEF S
  <2>1. QED BY <1>1, <1>2, UpTo
<1>4. Len(ops) \in S
  BY <1>3
<1>5. QED BY <1>4 DEF ApplyAll

\* Logs that agree on their first n entries have the same states up to there.
LEMMA ReplayAgrees ==
  ASSUME NEW at, NEW k, NEW l, Len(k) \in Nat, Len(l) \in Nat,
         NEW m \in Nat, m <= Len(k), m <= Len(l), \A i \in 1..m : k[i] = l[i]
  PROVE  After(at, k)[m] = After(at, l)[m]
<1> DEFINE S == {n \in 0..m : After(at, k)[n] = After(at, l)[n]}
<1>1. 0 \in S
  BY AfterSteps
<1>2. ASSUME NEW n \in 0..m, n \in S, n < m PROVE n + 1 \in S
  <2>1. /\ n + 1 \in 1..Len(k) /\ n + 1 \in 1..Len(l) /\ n + 1 \in 1..m
        /\ (n + 1) - 1 = n /\ n + 1 \in 0..m
    BY <1>2
  <2>2. /\ After(at, k)[n + 1] = Apply(After(at, k)[n], k[n + 1])
        /\ After(at, l)[n + 1] = Apply(After(at, l)[n], l[n + 1])
    BY <2>1, AfterSteps
  <2>3. QED BY <1>2, <2>1, <2>2
<1>3. \A n \in 0..m : n \in S
  <2> HIDE DEF S
  <2>1. QED BY <1>1, <1>2, UpTo
<1>4. m \in S
  BY <1>3
<1>5. QED BY <1>4

\* Replaying a log and then more ops is replaying the longer log.
LEMMA ReplayConcat ==
  ASSUME NEW at, NEW l \in Seq(Review), NEW ops \in Seq(Review)
  PROVE  ApplyAll(at, l \o ops) = ApplyAll(ApplyAll(at, l), ops)
<1>0. PICK k : k = l \o ops
  OBVIOUS
<1> DEFINE S == {m \in 0..Len(ops) : After(at, k)[Len(l) + m]
                                       = After(ApplyAll(at, l), ops)[m]}
<1>1. Len(l) \in Nat /\ Len(ops) \in Nat
  BY LenProperties
<1>2. /\ Len(k) = Len(l) + Len(ops)
      /\ \A i \in 1..Len(l) + Len(ops) : k[i] =
            IF i <= Len(l) THEN l[i] ELSE ops[i - Len(l)]
  BY <1>0, ConcatProperties
<1>3. 0 \in S
  <2>1. \A i \in 1..Len(l) : k[i] = l[i]
    BY <1>1, <1>2
  <2>2. Len(k) \in Nat /\ Len(l) <= Len(k) /\ Len(l) <= Len(l)
    BY <1>1, <1>2
  <2>3. After(at, k)[Len(l)] = After(at, l)[Len(l)]
    BY <1>1, <2>1, <2>2, ReplayAgrees
  <2>4. After(ApplyAll(at, l), ops)[0] = ApplyAll(at, l)
    BY <1>1, AfterSteps
  <2>5. Len(l) + 0 = Len(l) /\ 0 \in 0..Len(ops)
    BY <1>1
  <2>6. QED BY <2>3, <2>4, <2>5 DEF ApplyAll
<1>4. ASSUME NEW m \in 0..Len(ops), m \in S, m < Len(ops) PROVE m + 1 \in S
  <2>1. /\ m + 1 \in 1..Len(ops) /\ m + 1 \in 0..Len(ops) /\ (m + 1) - 1 = m
        /\ Len(l) + (m + 1) \in 1..Len(k) /\ Len(k) \in Nat
        /\ (Len(l) + (m + 1)) - 1 = Len(l) + m
    BY <1>1, <1>2, <1>4
  <2>2. k[Len(l) + (m + 1)] = ops[m + 1]
    <3>1. ~ (Len(l) + (m + 1) <= Len(l)) /\ (Len(l) + (m + 1)) - Len(l) = m + 1
      BY <1>1, <2>1
    <3>2. QED BY <1>1, <1>2, <2>1, <3>1
  <2>3. After(at, k)[Len(l) + (m + 1)]
          = Apply(After(at, k)[Len(l) + m], ops[m + 1])
    BY <2>1, <2>2, AfterSteps
  <2>4. After(ApplyAll(at, l), ops)[m + 1]
          = Apply(After(ApplyAll(at, l), ops)[m], ops[m + 1])
    BY <1>1, <2>1, AfterSteps
  <2>5. QED BY <1>4, <2>1, <2>3, <2>4
<1>5. \A m \in 0..Len(ops) : m \in S
  <2> HIDE DEF S
  <2>1. QED BY <1>1, <1>3, <1>4, UpTo
<1>6. Len(ops) \in S
  BY <1>1, <1>5
<1>7. QED BY <1>0, <1>2, <1>6 DEF ApplyAll

\* The state before an entry is the state after the entries before it.
LEMMA BeforeEntry ==
  ASSUME NEW at, NEW l \in Seq(Review), NEW i \in 1..Len(l)
  PROVE  ApplyAll(at, SubSeq(l, 1, i - 1)) = After(at, l)[i - 1]
<1>1. Len(l) \in Nat
  BY LenProperties
<1>2. i - 1 \in Nat /\ i - 1 <= Len(l) /\ 1 \in Nat /\ i \in Nat
  BY <1>1
<1>3. PICK k : k = SubSeq(l, 1, i - 1)
  OBVIOUS
<1>4. Len(k) = i - 1 /\ \A j \in 1..(i - 1) : k[j] = l[j]
  BY <1>1, <1>2, <1>3
<1>5. After(at, k)[i - 1] = After(at, l)[i - 1]
  BY <1>1, <1>2, <1>4, ReplayAgrees
<1>6. QED BY <1>3, <1>4, <1>5 DEF ApplyAll

LEMMA ApplyType ==
  ASSUME NEW a \in [Rows -> Flag], NEW e \in Review
  PROVE  Apply(a, e) \in [Rows -> Flag]
<1>1. e.action \in Actions
  BY DEF Review
<1>2. Transition(e.action) \in Flag
  BY <1>1 DEF Actions, Transition, Flag
<1>3. QED BY <1>2 DEF Apply

LEMMA ReplayType ==
  ASSUME NEW at \in [Rows -> Flag], NEW ops \in Seq(Review)
  PROVE  ApplyAll(at, ops) \in [Rows -> Flag]
<1> DEFINE S == {n \in 0..Len(ops) : After(at, ops)[n] \in [Rows -> Flag]}
<1>0. Len(ops) \in Nat
  BY LenProperties
<1>1. 0 \in S
  BY <1>0, AfterSteps
<1>2. ASSUME NEW n \in 0..Len(ops), n \in S, n < Len(ops) PROVE n + 1 \in S
  <2>1. n + 1 \in 1..Len(ops) /\ (n + 1) - 1 = n /\ n + 1 \in 0..Len(ops)
    BY <1>0, <1>2
  <2>2. After(at, ops)[n + 1] = Apply(After(at, ops)[n], ops[n + 1])
    BY <1>0, <2>1, AfterSteps
  <2>3. ops[n + 1] \in Review
    BY <2>1, ElementOfSeq
  <2>4. QED BY <1>2, <2>1, <2>2, <2>3, ApplyType
<1>3. \A n \in 0..Len(ops) : n \in S
  <2> HIDE DEF S
  <2>1. QED BY <1>0, <1>1, <1>2, UpTo
<1>4. Len(ops) \in S
  BY <1>0, <1>3
<1>5. QED BY <1>4 DEF ApplyAll

-----------------------------------------------------------------------------
(***************************************************************************)
(* Types, and what a request holds of what is on disk.  With two requests  *)
(* none of it stays: the second save is of the copy it loaded before the   *)
(* first one's.                                                            *)
(***************************************************************************)

OneReviewer == \A p, q \in Reviewers : p = q

\* The log l goes on from k.
GoesOn(l, k) == Len(k) <= Len(l) /\ \A i \in 1..Len(k) : l[i] = k[i]

CopyOf(p) ==
  /\ req[p].pc = "loaded" => req[p].rows = rows /\ req[p].log = log
  /\ req[p].pc = "save" => GoesOn(req[p].log, log)

TypeInv == TypeOK /\ \A p \in Reviewers : CopyOf(p)

-----------------------------------------------------------------------------
(* The ways to decide, as far as the properties tell them apart.            *)

\* One op per selected row that is not high-risk, under a batch that is new.
AsBatch(p, ops) ==
  \E b \in Batches :
    /\ \A i \in 1..Len(req[p].log) : req[p].log[i].batch # b
    /\ \A i \in 1..Len(ops) :
         ops[i].batch = b /\ ~ ops[i].cascade /\ ops[i].row \notin HighRisk
           /\ ops[i].action # "reset"

\* Resets of a batch nothing was generated from.
AsUndo(p, ops) ==
  \E b \in Batches :
    /\ ~ HasGenerated(req[p].log, b, built)
    /\ \A i \in 1..Len(ops) : ops[i].batch = b /\ ops[i].action = "reset"

\* One row, by name; in the workbench its cascade settles no high-risk row.
ByName(p, ops) ==
  /\ Len(ops) = 1 /\ ops[1].batch = NoBatch
  /\ ops[1].via # "op" /\ ops[1].cascade => CascadeRisks(req[p].rows, ops[1].row) = {}

Decides(p, ops) ==
  ops \in Seq(Review) /\ Decide(p, ops) /\ (AsBatch(p, ops) \/ AsUndo(p, ops) \/ ByName(p, ops))

\* A function on 1..n is a sequence of length n.
LEMMA SequenceOf ==
  ASSUME NEW T, NEW n \in Nat, NEW f \in [1..n -> T]
  PROVE  f \in Seq(T) /\ Len(f) = n
<1>1. f \in Seq(T)
  BY SeqDef
<1>2. Len(f) \in Nat /\ 1..Len(f) = 1..n
  BY <1>1, LenProperties
<1>3. ~ Len(f) < n
  <2>1. ASSUME Len(f) < n PROVE FALSE
    <3>1. n \in 1..n /\ n \notin 1..Len(f)
      BY <1>2, <2>1
    <3>2. QED BY <1>2, <3>1
  <2>2. QED BY <2>1
<1>4. ~ n < Len(f)
  <2>1. ASSUME n < Len(f) PROVE FALSE
    <3>1. Len(f) \in 1..Len(f) /\ Len(f) \notin 1..n
      BY <1>2, <2>1
    <3>2. QED BY <1>2, <3>1
  <2>2. QED BY <2>1
<1>5. QED BY <1>1, <1>2, <1>3, <1>4

\* A finite set has an enumeration.
LEMMA Enumeration ==
  ASSUME NEW S, IsFiniteSet(S)
  PROVE  SetToSeq(S) \in [1..Cardinality(S) -> S] /\ Cardinality(S) \in Nat
<1>1. Cardinality(S) \in Nat /\ ExistsBijection(1..Cardinality(S), S)
  BY FS_CardinalityType
<1>2. PICK f : f \in Bijection(1..Cardinality(S), S)
  BY <1>1 DEF ExistsBijection
<1>3. f \in [1..Cardinality(S) -> S] /\ IsInjective(f)
  BY <1>2 DEF Bijection, Injection
<1>4. \E g \in [1..Cardinality(S) -> S] : IsInjective(g)
  BY <1>3
<1>5. SetToSeq(S) \in [1..Cardinality(S) -> S]
  BY <1>4 DEF SetToSeq
<1>6. QED BY <1>1, <1>5

LEMMA BulkReviewDecides ==
  ASSUME TypeInv, NEW p \in Reviewers, NEW chosen \in Selections,
         NEW action \in {"accept", "reject"}, NEW b \in Batches,
         BulkReview(p, chosen, action, b)
  PROVE  \E ops : Decides(p, ops)
<1>1. PICK in : in = SetToSeq(Included(req[p].rows, chosen))
  OBVIOUS
<1>2. PICK ops : ops = [i \in 1..Len(in) |->
                          [row |-> in[i], action |-> action, cascade |-> FALSE,
                           via |-> "bulk", batch |-> b]]
  OBVIOUS
<1>3. Decide(p, ops) /\ \A i \in 1..Len(req[p].log) : req[p].log[i].batch # b
  BY <1>1, <1>2 DEF BulkReview
<1>4. Included(req[p].rows, chosen) \subseteq Rows /\ IsFiniteSet(Included(req[p].rows, chosen))
  <2>1. Included(req[p].rows, chosen) \subseteq Rows
    BY ConstantsAssumption DEF Included
  <2>2. IsFiniteSet(Rows)
    BY ConstantsAssumption
  <2>3. QED BY <2>1, <2>2, FS_Subset
<1>5. PICK n \in Nat : in \in [1..n -> Included(req[p].rows, chosen)]
  BY <1>1, <1>4, Enumeration
<1>6. Len(in) = n
  BY <1>5, SequenceOf
<1>7. ASSUME NEW i \in 1..n
      PROVE  [row |-> in[i], action |-> action, cascade |-> FALSE, via |-> "bulk",
              batch |-> b] \in Review
  BY <1>4, <1>5 DEF Review, Actions
<1>8. ops \in [1..n -> Review]
  BY <1>2, <1>6, <1>7
<1>9. ops \in Seq(Review) /\ Len(ops) = n
  BY <1>8, SequenceOf
<1>10. ASSUME NEW i \in 1..Len(ops)
       PROVE  ops[i].batch = b /\ ~ ops[i].cascade /\ ops[i].row \notin HighRisk
                /\ ops[i].action # "reset"
  <2>1. ops[i] = [row |-> in[i], action |-> action, cascade |-> FALSE, via |-> "bulk",
                  batch |-> b]
    BY <1>2, <1>6, <1>9
  <2>2. in[i] \notin HighRisk
    BY <1>5, <1>9 DEF Included
  <2>3. QED BY <2>1, <2>2
<1>11. AsBatch(p, ops)
  BY <1>3, <1>10 DEF AsBatch
<1>12. QED BY <1>3, <1>9, <1>11 DEF Decides

LEMMA BulkUndoDecides ==
  ASSUME TypeInv, NEW p \in Reviewers, NEW b \in Batches, BulkUndo(p, b)
  PROVE  \E ops : Decides(p, ops)
<1>1. PICK back : back = Undoable(req[p].rows, req[p].log, b)
  OBVIOUS
<1>2. PICK undo \in [1..Cardinality(back) -> back] :
        Decide(p, [i \in DOMAIN undo |->
                     [row |-> req[p].log[undo[i]].row, action |-> "reset", cascade |-> FALSE,
                      via |-> "bulk", batch |-> b]])
  BY <1>1 DEF BulkUndo
<1>3. PICK ops : ops = [i \in DOMAIN undo |->
                          [row |-> req[p].log[undo[i]].row, action |-> "reset",
                           cascade |-> FALSE, via |-> "bulk", batch |-> b]]
  OBVIOUS
<1>4. req[p].log \in Seq(Review)
  BY DEF TypeInv, TypeOK, Request
<1>5. back \subseteq 1..Len(req[p].log) /\ Len(req[p].log) \in Nat
  BY <1>1, <1>4, LenProperties DEF Undoable, EntriesOf
<1>6. PICK n \in Nat : n = Cardinality(back)
  <2>1. IsFiniteSet(1..Len(req[p].log))
    BY <1>5, FS_Interval
  <2>2. IsFiniteSet(back)
    BY <1>5, <2>1, FS_Subset
  <2>3. QED BY <2>2, FS_CardinalityType
<1>7. DOMAIN undo = 1..n
  BY <1>6
<1>8. ASSUME NEW i \in 1..n
      PROVE  [row |-> req[p].log[undo[i]].row, action |-> "reset", cascade |-> FALSE,
              via |-> "bulk", batch |-> b] \in Review
  <2>1. undo[i] \in 1..Len(req[p].log)
    BY <1>5, <1>6
  <2>2. req[p].log[undo[i]] \in Review
    BY <1>4, <2>1, ElementOfSeq
  <2>3. req[p].log[undo[i]].row \in Rows
    BY <2>2 DEF Review
  <2>4. QED BY <2>3 DEF Review, Actions
<1>9. ops \in [1..n -> Review]
  BY <1>3, <1>7, <1>8
<1>10. ops \in Seq(Review) /\ Len(ops) = n
  BY <1>9, SequenceOf
<1>11. \A i \in 1..Len(ops) : ops[i].batch = b /\ ops[i].action = "reset"
  BY <1>3, <1>7, <1>10
<1>12. AsUndo(p, ops)
  BY <1>11 DEF AsUndo, BulkUndo
<1>13. QED BY <1>2, <1>3, <1>10, <1>12 DEF Decides

LEMMA OneOp ==
  ASSUME NEW p \in Reviewers, NEW e \in Review, Decide(p, <<e>>), e.batch = NoBatch,
         e.via # "op" /\ e.cascade => CascadeRisks(req[p].rows, e.row) = {}
  PROVE  \E ops : Decides(p, ops)
<1>1. <<e>> \in Seq(Review) /\ Len(<<e>>) = 1 /\ <<e>>[1] = e
  OBVIOUS
<1>2. ByName(p, <<e>>)
  BY <1>1 DEF ByName
<1>3. QED BY <1>1, <1>2 DEF Decides

LEMMA WebReviewDecides ==
  ASSUME NEW p \in Reviewers, NEW r \in Rows, NEW action \in {"accept", "reject"},
         NEW cascade \in BOOLEAN, WebReview(p, r, action, cascade)
  PROVE  \E ops : Decides(p, ops)
<1>1. PICK e : e = [row |-> r, action |-> action, cascade |-> cascade, via |-> "web",
                    batch |-> NoBatch]
  OBVIOUS
<1>2. e \in Review /\ e.batch = NoBatch /\ e.row = r /\ e.cascade = cascade
  BY <1>1 DEF Review, Actions
<1>3. Decide(p, <<e>>) /\ (cascade => CascadeRisks(req[p].rows, r) = {})
  BY <1>1 DEF WebReview
<1>4. QED BY <1>2, <1>3, OneOp

LEMMA OpReviewDecides ==
  ASSUME NEW p \in Reviewers, NEW r \in Rows, NEW action \in Actions,
         NEW cascade \in BOOLEAN, OpReview(p, r, action, cascade)
  PROVE  \E ops : Decides(p, ops)
<1>1. PICK e : e = [row |-> r, action |-> action, cascade |-> cascade, via |-> "op",
                    batch |-> NoBatch]
  OBVIOUS
<1>2. e \in Review /\ e.batch = NoBatch /\ e.via = "op"
  BY <1>1 DEF Review
<1>3. Decide(p, <<e>>)
  BY <1>1 DEF OpReview
<1>4. QED BY <1>2, <1>3, OneOp

\* The steps there are.
Steps(p) == Load(p) \/ Refuse(p) \/ SaveFile(p) \/ Crash(p) \/ \E ops : Decides(p, ops)

LEMMA NextSteps ==
  ASSUME TypeInv, [Next]_vars
  PROVE  (\E p \in Reviewers : Steps(p)) \/ Generate \/ UNCHANGED vars
<1>1. ASSUME NEW p \in Reviewers, NEW r \in Rows, NEW c \in {FALSE, Nested[r] # {}},
             (\E a \in {"accept", "reject"} : WebReview(p, r, a, c))
               \/ \E a \in Actions : OpReview(p, r, a, c)
      PROVE  Steps(p)
  BY <1>1, WebReviewDecides, OpReviewDecides DEF Steps
<1>2. ASSUME NEW p \in Reviewers, NEW b \in Batches,
             BulkUndo(p, b) \/ \E chosen \in Selections, a \in {"accept", "reject"} :
                                 BulkReview(p, chosen, a, b)
      PROVE  Steps(p)
  BY <1>2, BulkReviewDecides, BulkUndoDecides DEF Steps
<1>3. QED BY <1>1, <1>2 DEF Next, Steps

-----------------------------------------------------------------------------
(* What the steps do.                                                       *)

LEMMA NoRequestType ==
  NoRequest \in Request /\ NoRequest.pc = "idle" /\ Fresh \in [Rows -> Flag]
<1>1. Fresh \in [Rows -> Flag]
  BY DEF Fresh, Flag
<1>2. <<>> \in Seq(Review)
  OBVIOUS
<1>3. 1 \in 1..NFiles
  BY ConstantsAssumption
<1>4. QED BY <1>1, <1>2, <1>3 DEF NoRequest, Request

LEMMA RequestSet ==
  ASSUME TypeOK, NEW p \in Reviewers, NEW r \in Request, req' = [req EXCEPT ![p] = r]
  PROVE  /\ req' \in [Reviewers -> Request] /\ req'[p] = r
         /\ \A q \in Reviewers \ {p} : req'[q] = req[q]
BY DEF TypeOK

LEMMA DecideMoves ==
  ASSUME TypeInv, NEW p \in Reviewers, NEW ops \in Seq(Review), Decide(p, ops)
  PROVE  /\ req[p].pc = "loaded" /\ req'[p].pc = "save" /\ req'[p].next = 1
         /\ req'[p].rows = ApplyAll(rows, ops) /\ req'[p].log = log \o ops
         /\ req' \in [Reviewers -> Request] /\ \A q \in Reviewers \ {p} : req'[q] = req[q]
         /\ saves' \in 0..MaxSaves /\ UNCHANGED <<rows, log, built, torn, crashes>>
<1>1. req[p].pc = "loaded" /\ req[p].rows = rows /\ req[p].log = log
  BY DEF Decide, TypeInv, CopyOf
<1>2. TypeOK
  BY DEF TypeInv
<1>3. PICK r : r = [pc |-> "save", rows |-> ApplyAll(rows, ops), log |-> log \o ops,
                    next |-> 1]
  OBVIOUS
<1>4. rows \in [Rows -> Flag] /\ log \in Seq(Review) /\ 1 \in 1..NFiles
  BY <1>2, ConstantsAssumption DEF TypeOK
<1>5. ApplyAll(rows, ops) \in [Rows -> Flag] /\ log \o ops \in Seq(Review)
  BY <1>4, ReplayType, ConcatProperties
<1>6. r \in Request
  BY <1>3, <1>4, <1>5 DEF Request
<1>7. req' = [req EXCEPT ![p] = r]
  BY <1>1, <1>3 DEF Decide
<1>8. /\ req' \in [Reviewers -> Request] /\ req'[p] = r
      /\ \A q \in Reviewers \ {p} : req'[q] = req[q]
  BY <1>2, <1>6, <1>7, RequestSet
<1>9. saves' \in 0..MaxSaves
  BY <1>2, ConstantsAssumption DEF Decide, TypeOK
<1>10. QED BY <1>1, <1>3, <1>8, <1>9 DEF Decide

LEMMA LoadMoves ==
  ASSUME TypeInv, NEW p \in Reviewers, Load(p)
  PROVE  /\ req[p].pc = "idle" /\ req'[p].pc = "loaded"
         /\ req'[p].rows = rows /\ req'[p].log = log
         /\ req' \in [Reviewers -> Request] /\ \A q \in Reviewers \ {p} : req'[q] = req[q]
         /\ UNCHANGED <<rows, log, built, torn, saves, crashes>>
<1>1. PICK r : r = [pc |-> "loaded", rows |-> rows, log |-> log, next |-> 1]
  OBVIOUS
<1>2. TypeOK /\ 1 \in 1..NFiles
  BY ConstantsAssumption DEF TypeInv
<1>3. r \in Request
  BY <1>1, <1>2 DEF Request, TypeOK
<1>4. req' = [req EXCEPT ![p] = r]
  BY <1>1 DEF Load
<1>5. /\ req' \in [Reviewers -> Request] /\ req'[p] = r
      /\ \A q \in Reviewers \ {p} : req'[q] = req[q]
  BY <1>2, <1>3, <1>4, RequestSet
<1>6. QED BY <1>1, <1>5 DEF Load

\* A file of the save: row files or the log, and the last one ends the request.
LEMMA SaveFileMoves ==
  ASSUME TypeInv, NEW p \in Reviewers, SaveFile(p)
  PROVE  /\ req[p].pc = "save" /\ UNCHANGED <<built, torn, saves, crashes>>
         /\ req' \in [Reviewers -> Request] /\ \A q \in Reviewers \ {p} : req'[q] = req[q]
         /\ rows' \in [Rows -> Flag]
         /\ \A r \in Rows :
              rows'[r] = IF FileOf[r] = req[p].next THEN req[p].rows[r] ELSE rows[r]
         /\ log' = IF req[p].next = LogFile THEN req[p].log ELSE log
         /\ \/ /\ req[p].next # NFiles
               /\ req'[p].pc = "save" /\ req'[p].next = req[p].next + 1
               /\ req'[p].rows = req[p].rows /\ req'[p].log = req[p].log
            \/ req[p].next = NFiles /\ req'[p].pc = "idle"
<1>1. TypeOK /\ req[p] \in Request
  BY DEF TypeInv, TypeOK
<1>2. /\ req[p].pc = "save" /\ UNCHANGED <<built, torn, saves, crashes>>
      /\ log' = IF req[p].next = LogFile THEN req[p].log ELSE log
  BY DEF SaveFile
<1>3. /\ rows' \in [Rows -> Flag]
      /\ \A r \in Rows :
           rows'[r] = IF FileOf[r] = req[p].next THEN req[p].rows[r] ELSE rows[r]
  <2>1. rows' = [r \in Rows |-> IF FileOf[r] = req[p].next THEN req[p].rows[r] ELSE rows[r]]
    BY DEF SaveFile
  <2>2. req[p].rows \in [Rows -> Flag] /\ rows \in [Rows -> Flag]
    BY <1>1 DEF Request, TypeOK
  <2>3. QED BY <2>1, <2>2
<1>4. CASE req[p].next # NFiles
  <2>1. PICK r : r = [req[p] EXCEPT !.next = @ + 1]
    OBVIOUS
  <2>2. req[p].next + 1 \in 1..NFiles
    BY <1>1, <1>4, ConstantsAssumption DEF Request
  <2>3. /\ r \in Request /\ r.pc = req[p].pc /\ r.next = req[p].next + 1
        /\ r.rows = req[p].rows /\ r.log = req[p].log
    BY <1>1, <2>1, <2>2 DEF Request
  <2>4. req' = [req EXCEPT ![p] = r]
    BY <1>4, <2>1 DEF SaveFile
  <2>5. /\ req' \in [Reviewers -> Request] /\ req'[p] = r
        /\ \A q \in Reviewers \ {p} : req'[q] = req[q]
    BY <1>1, <2>3, <2>4, RequestSet
  <2>6. QED BY <1>2, <1>3, <1>4, <2>3, <2>5
<1>5. CASE req[p].next = NFiles
  <2>1. req' = [req EXCEPT ![p] = NoRequest]
    BY <1>5 DEF SaveFile
  <2>2. /\ req' \in [Reviewers -> Request] /\ req'[p] = NoRequest
        /\ \A q \in Reviewers \ {p} : req'[q] = req[q]
    BY <1>1, <2>1, NoRequestType, RequestSet
  <2>3. QED BY <1>2, <1>3, <1>5, <2>2, NoRequestType
<1>6. QED BY <1>4, <1>5

LEMMA RefuseMoves ==
  ASSUME TypeInv, NEW p \in Reviewers, Refuse(p)
  PROVE  /\ req'[p].pc = "idle" /\ req[p].pc = "loaded"
         /\ req' \in [Reviewers -> Request] /\ \A q \in Reviewers \ {p} : req'[q] = req[q]
         /\ UNCHANGED <<rows, log, built, torn, saves, crashes>>
<1>1. TypeOK /\ req' = [req EXCEPT ![p] = NoRequest]
  BY DEF TypeInv, Refuse
<1>2. /\ req' \in [Reviewers -> Request] /\ req'[p] = NoRequest
      /\ \A q \in Reviewers \ {p} : req'[q] = req[q]
  BY <1>1, NoRequestType, RequestSet
<1>3. QED BY <1>2, NoRequestType DEF Refuse

LEMMA CrashMoves ==
  ASSUME TypeInv, NEW p \in Reviewers, Crash(p)
  PROVE  /\ req[p].pc = "save" /\ req'[p].pc = "idle"
         /\ req' \in [Reviewers -> Request] /\ \A q \in Reviewers \ {p} : req'[q] = req[q]
         /\ torn' = torn \cup {r \in Rows : Parted(p, r) /\ rows[r] # ApplyAll(Fresh, log)[r]}
         /\ torn' \subseteq Rows /\ crashes' \in 0..MaxCrashes
         /\ UNCHANGED <<rows, log, built, saves>>
<1>1. TypeOK /\ req' = [req EXCEPT ![p] = NoRequest]
  BY DEF TypeInv, Crash
<1>2. /\ req' \in [Reviewers -> Request] /\ req'[p] = NoRequest
      /\ \A q \in Reviewers \ {p} : req'[q] = req[q]
  BY <1>1, NoRequestType, RequestSet
<1>3. crashes' \in 0..MaxCrashes
  BY <1>1, ConstantsAssumption DEF Crash, TypeOK
<1>4. torn' \subseteq Rows
  BY <1>1 DEF Crash, TypeOK
<1>5. QED BY <1>2, <1>3, <1>4, NoRequestType DEF Crash

LEMMA GenerateMoves ==
  ASSUME TypeOK, Generate
  PROVE  /\ UNCHANGED <<rows, log, req, torn, saves, crashes>>
         /\ built' \in Nat /\ built' <= Len(log) /\ built' \in {built, Len(log)}
<1>1. Len(log) \in Nat /\ built \in Nat /\ built <= Len(log)
  BY LenProperties DEF TypeOK
<1>2. QED BY <1>1 DEF Generate

-----------------------------------------------------------------------------
LEMMA GoesOnMore ==
  ASSUME NEW l \in Seq(Review), NEW ops \in Seq(Review)
  PROVE  GoesOn(l \o ops, l)
<1>1. Len(l) \in Nat /\ Len(ops) \in Nat
  BY LenProperties
<1>2. /\ Len(l \o ops) = Len(l) + Len(ops)
      /\ \A i \in 1..Len(l) + Len(ops) : (l \o ops)[i] =
            IF i <= Len(l) THEN l[i] ELSE ops[i - Len(l)]
  BY ConcatProperties
<1>3. \A i \in 1..Len(l) : (l \o ops)[i] = l[i]
  BY <1>1, <1>2
<1>4. QED BY <1>1, <1>2, <1>3 DEF GoesOn

LEMMA TypeStep ==
  OneReviewer /\ TypeInv /\ [Next]_vars => TypeInv'
<1> SUFFICES ASSUME OneReviewer, TypeInv, [Next]_vars PROVE TypeInv'
  OBVIOUS
<1>0. TypeOK
  BY DEF TypeInv
<1>1. ASSUME NEW p \in Reviewers, Steps(p) PROVE TypeInv'
  <2>0. \A q \in Reviewers : q = p
    BY DEF OneReviewer
  <2>1. CASE Load(p)
    <3>1. TypeOK'
      BY <1>0, <2>1, LoadMoves DEF TypeOK
    <3>2. CopyOf(p)'
      BY <2>1, LoadMoves DEF CopyOf
    <3>3. QED BY <2>0, <3>1, <3>2 DEF TypeInv
  <2>2. CASE Refuse(p)
    <3>1. TypeOK'
      BY <1>0, <2>2, RefuseMoves DEF TypeOK
    <3>2. CopyOf(p)'
      BY <2>2, RefuseMoves DEF CopyOf
    <3>3. QED BY <2>0, <3>1, <3>2 DEF TypeInv
  <2>3. CASE Crash(p)
    <3>1. TypeOK'
      BY <1>0, <2>3, CrashMoves DEF TypeOK
    <3>2. CopyOf(p)'
      BY <2>3, CrashMoves DEF CopyOf
    <3>3. QED BY <2>0, <3>1, <3>2 DEF TypeInv
  <2>4. ASSUME NEW ops, Decides(p, ops) PROVE TypeInv'
    <3>1. ops \in Seq(Review) /\ Decide(p, ops)
      BY <2>4 DEF Decides
    <3>2. TypeOK'
      BY <1>0, <3>1, DecideMoves DEF TypeOK
    <3>3. GoesOn(log \o ops, log)
      BY <1>0, <3>1, GoesOnMore DEF TypeOK
    <3>4. req'[p].pc = "save" /\ req'[p].log = log \o ops /\ log' = log
      BY <3>1, DecideMoves
    <3>5. CopyOf(p)'
      BY <3>3, <3>4 DEF CopyOf, GoesOn
    <3>6. QED BY <2>0, <3>2, <3>5 DEF TypeInv
  <2>5. CASE SaveFile(p)
    <3>0. /\ req[p].pc = "save" /\ UNCHANGED <<built, torn, saves, crashes>>
          /\ req' \in [Reviewers -> Request]
      BY <2>5, SaveFileMoves
    <3>1. /\ rows' \in [Rows -> Flag] /\ log' \in {log, req[p].log}
          /\ req'[p].pc = "save" => req'[p].log = req[p].log
      BY <2>5, SaveFileMoves
    <3>2. GoesOn(req[p].log, log)
      BY <3>0 DEF TypeInv, CopyOf
    <3>3. log' \in Seq(Review) /\ req[p].log \in Seq(Review)
      BY <1>0, <3>1 DEF TypeOK, Request
    <3>4. built \in Nat /\ built <= Len(log')
      <4>1. Len(log) <= Len(log')
        BY <1>0, <3>1, <3>2, LenProperties DEF TypeOK, GoesOn
      <4>2. Len(log) \in Nat /\ Len(log') \in Nat /\ built \in Nat /\ built <= Len(log)
        BY <1>0, <3>3, LenProperties DEF TypeOK
      <4>3. QED BY <4>1, <4>2
    <3>5. TypeOK'
      BY <1>0, <3>0, <3>1, <3>3, <3>4 DEF TypeOK
    <3>6. GoesOn(req[p].log, log')
      BY <3>1, <3>2, <3>3, LenProperties DEF GoesOn
    <3>7. CopyOf(p)'
      BY <2>5, <3>1, <3>6, SaveFileMoves DEF CopyOf, GoesOn
    <3>8. QED BY <2>0, <3>5, <3>7 DEF TypeInv
  <2>6. QED BY <1>1, <2>1, <2>2, <2>3, <2>4, <2>5 DEF Steps
<1>2. CASE Generate
  <2>1. TypeOK'
    BY <1>0, <1>2, GenerateMoves DEF TypeOK
  <2>2. \A p \in Reviewers : CopyOf(p)'
    BY <1>0, <1>2, GenerateMoves DEF TypeInv, CopyOf, GoesOn
  <2>3. QED BY <2>1, <2>2 DEF TypeInv
<1>3. CASE UNCHANGED vars
  BY <1>3 DEF vars, TypeInv, TypeOK, CopyOf, GoesOn
<1>4. QED BY <1>1, <1>2, <1>3, NextSteps

LEMMA TypeInit == Init => TypeInv
<1> SUFFICES ASSUME Init PROVE TypeInv
  OBVIOUS
<1>1. \A p \in Reviewers : req[p] = NoRequest
  BY DEF Init
<1>2. \A p \in Reviewers : CopyOf(p)
  BY <1>1, NoRequestType DEF CopyOf
<1>3. log \in Seq(Review) /\ built \in Nat /\ built <= Len(log)
  BY DEF Init
<1>4. TypeOK
  BY <1>3, NoRequestType, ConstantsAssumption DEF Init, TypeOK
<1>5. QED BY <1>2, <1>4 DEF TypeInv

\* Every reachable state is well typed, and the watermark is within the log, with one
\* reviewer at a time.
THEOREM TypeCorrect ==
  ASSUME OneReviewer
  PROVE  Spec => []TypeOK
<1>1. OneReviewer
  OBVIOUS
<1>2. TypeInv => TypeOK
  BY DEF TypeInv
<1>3. QED BY <1>1, <1>2, TypeInit, TypeStep, PTL DEF Spec

-----------------------------------------------------------------------------
(***************************************************************************)
(* The rows are what the log makes of them: in a save, the files written so *)
(* far are what the longer log makes, and until that log is written too the *)
(* others are what the log on disk makes.                                  *)
(***************************************************************************)

\* The row r of a spec is what replaying the log l gives.
Replayed(at, l, r) == at[r] = ApplyAll(Fresh, l)[r]

TrailInv ==
  /\ TrailExplainsRows
  /\ \A p \in Reviewers : req[p].pc = "save" =>
       /\ LogFile < req[p].next => log = req[p].log
       /\ \A r \in Rows \ torn :
            /\ Replayed(req[p].rows, req[p].log, r)
            /\ FileOf[r] < req[p].next => rows[r] = req[p].rows[r]
            /\ ~ FileOf[r] < req[p].next /\ ~ LogFile < req[p].next => Replayed(rows, log, r)

\* Between two requests, of the one reviewer there is.
LEMMA Explained ==
  ASSUME OneReviewer, TrailInv, NEW p \in Reviewers, req[p].pc # "save"
  PROVE  \A r \in Rows \ torn : Replayed(rows, log, r)
<1>1. \A q \in Reviewers : req[q].pc # "save"
  BY DEF OneReviewer
<1>2. QED BY <1>1 DEF TrailInv, TrailExplainsRows, Replayed

LEMMA TrailStep ==
  OneReviewer /\ TypeInv /\ TrailInv /\ [Next]_vars => TrailInv'
<1> SUFFICES ASSUME OneReviewer, TypeInv, TrailInv, [Next]_vars PROVE TrailInv'
  OBVIOUS
<1>0. TypeOK
  BY DEF TypeInv
<1>1. ASSUME NEW p \in Reviewers, Steps(p) PROVE TrailInv'
  <2>0. \A q \in Reviewers : q = p
    BY DEF OneReviewer
  <2>1. ASSUME UNCHANGED <<rows, log, torn>>, req'[p].pc # "save", req[p].pc # "save"
        PROVE  TrailInv'
    <3>1. \A r \in Rows \ torn : Replayed(rows, log, r)
      BY <2>1, Explained
    <3>2. \A r \in Rows \ torn' : rows'[r] = ApplyAll(Fresh, log')[r]
      BY <2>1, <3>1 DEF Replayed
    <3>3. QED BY <2>0, <2>1, <3>2 DEF TrailInv, TrailExplainsRows
  <2>2. CASE Load(p)
    BY <2>1, <2>2, LoadMoves
  <2>3. CASE Refuse(p)
    BY <2>1, <2>3, RefuseMoves
  <2>4. CASE Crash(p)
    <3>1. /\ req[p].pc = "save" /\ req'[p].pc = "idle"
          /\ torn' = torn \cup {r \in Rows : Parted(p, r) /\ rows[r] # ApplyAll(Fresh, log)[r]}
          /\ rows' = rows /\ log' = log
      BY <2>4, CrashMoves
    <3>2. ASSUME NEW r \in Rows \ torn' PROVE rows'[r] = ApplyAll(Fresh, log')[r]
      <4>1. r \in Rows \ torn /\ (Parted(p, r) => rows[r] = ApplyAll(Fresh, log)[r])
        BY <3>1, <3>2
      <4>2. /\ LogFile < req[p].next => log = req[p].log
            /\ Replayed(req[p].rows, req[p].log, r)
            /\ FileOf[r] < req[p].next => rows[r] = req[p].rows[r]
            /\ ~ FileOf[r] < req[p].next /\ ~ LogFile < req[p].next => Replayed(rows, log, r)
        BY <3>1, <4>1 DEF TrailInv
      <4>3. CASE Parted(p, r)
        BY <3>1, <4>1, <4>3
      <4>4. CASE FileOf[r] < req[p].next /\ LogFile < req[p].next
        BY <3>1, <4>2, <4>4 DEF Replayed
      <4>5. CASE ~ FileOf[r] < req[p].next /\ ~ LogFile < req[p].next
        BY <3>1, <4>2, <4>5 DEF Replayed
      <4>6. QED BY <4>3, <4>4, <4>5 DEF Parted
    <3>3. QED BY <2>0, <3>1, <3>2 DEF TrailInv, TrailExplainsRows
  <2>5. ASSUME NEW ops, Decides(p, ops) PROVE TrailInv'
    <3>1. ops \in Seq(Review) /\ Decide(p, ops)
      BY <2>5 DEF Decides
    <3>2. /\ req[p].pc = "loaded" /\ req'[p].pc = "save" /\ req'[p].next = 1
          /\ req'[p].rows = ApplyAll(rows, ops) /\ req'[p].log = log \o ops
          /\ rows' = rows /\ log' = log /\ torn' = torn
      BY <3>1, DecideMoves
    <3>3. ASSUME NEW r \in Rows \ torn'
          PROVE  /\ Replayed(req'[p].rows, req'[p].log, r)
                 /\ ~ FileOf[r] < req'[p].next /\ Replayed(rows', log', r)
      <4>1. Replayed(rows, log, r)
        BY <3>2, <3>3, Explained
      <4>2. Len(ops) \in Nat /\ log \in Seq(Review)
        BY <1>0, <3>1, LenProperties DEF TypeOK
      <4>3. ApplyAll(rows, ops)[r] = ApplyAll(ApplyAll(Fresh, log), ops)[r]
        BY <4>1, <4>2, ReplayIsLocal DEF Replayed
      <4>4. ApplyAll(Fresh, log \o ops) = ApplyAll(ApplyAll(Fresh, log), ops)
        BY <3>1, <4>2, ReplayConcat
      <4>5. Replayed(req'[p].rows, req'[p].log, r)
        BY <3>2, <4>3, <4>4 DEF Replayed
      <4>6. FileOf[r] \in 1..NFiles /\ NFiles \in Nat
        BY ConstantsAssumption
      <4>7. QED BY <3>2, <4>1, <4>5, <4>6
    <3>3a. ~ LogFile < req'[p].next
      BY <3>2, ConstantsAssumption
    <3>4. TrailExplainsRows'
      BY <3>2 DEF TrailExplainsRows
    <3>5. QED BY <2>0, <3>3, <3>3a, <3>4 DEF TrailInv, Replayed
  <2>6. CASE SaveFile(p)
    <3>0. req[p].pc = "save" /\ torn' = torn
      BY <2>6, SaveFileMoves
    <3>1. /\ req[p].next \in 1..NFiles /\ NFiles \in Nat /\ LogFile \in 1..NFiles
          /\ FileOf \in [Rows -> (1..NFiles) \ {LogFile}]
      BY <1>0, ConstantsAssumption DEF TypeOK, Request
    <3>2. /\ log' = IF req[p].next = LogFile THEN req[p].log ELSE log
          /\ \A r \in Rows :
               rows'[r] = IF FileOf[r] = req[p].next THEN req[p].rows[r] ELSE rows[r]
      BY <2>6, SaveFileMoves
    <3>3. LogFile < req[p].next => log = req[p].log
      BY <3>0 DEF TrailInv
    <3>4. LogFile < req[p].next + 1 => log' = req[p].log
      BY <3>1, <3>2, <3>3
    <3>5. ASSUME NEW r \in Rows \ torn
          PROVE  /\ Replayed(req[p].rows, req[p].log, r)
                 /\ FileOf[r] < req[p].next + 1 => rows'[r] = req[p].rows[r]
                 /\ ~ FileOf[r] < req[p].next + 1 /\ ~ LogFile < req[p].next + 1
                      => Replayed(rows', log', r)
      <4>1. /\ Replayed(req[p].rows, req[p].log, r)
            /\ FileOf[r] < req[p].next => rows[r] = req[p].rows[r]
            /\ ~ FileOf[r] < req[p].next /\ ~ LogFile < req[p].next => Replayed(rows, log, r)
        BY <3>0 DEF TrailInv
      <4>2. rows'[r] = IF FileOf[r] = req[p].next THEN req[p].rows[r] ELSE rows[r]
        BY <3>2
      <4>3. FileOf[r] < req[p].next + 1 => rows'[r] = req[p].rows[r]
        BY <3>1, <4>1, <4>2
      <4>4. ASSUME ~ FileOf[r] < req[p].next + 1, ~ LogFile < req[p].next + 1
            PROVE  Replayed(rows', log', r)
        <5>1. rows'[r] = rows[r] /\ log' = log /\ ~ FileOf[r] < req[p].next
              /\ ~ LogFile < req[p].next
          BY <3>1, <3>2, <4>2, <4>4
        <5>2. QED BY <4>1, <5>1 DEF Replayed
      <4>5. QED BY <4>1, <4>3, <4>4
    <3>6. CASE req[p].next # NFiles
      <4>1. /\ req'[p].pc = "save" /\ req'[p].next = req[p].next + 1
            /\ req'[p].rows = req[p].rows /\ req'[p].log = req[p].log
        BY <2>6, <3>6, SaveFileMoves
      <4>2. TrailExplainsRows'
        BY <4>1 DEF TrailExplainsRows
      <4>3. QED BY <2>0, <3>0, <3>4, <3>5, <4>1, <4>2 DEF TrailInv, Replayed
    <3>7. CASE req[p].next = NFiles
      <4>1. req'[p].pc = "idle"
        BY <2>6, <3>7, SaveFileMoves
      <4>2. ASSUME NEW r \in Rows \ torn' PROVE rows'[r] = ApplyAll(Fresh, log')[r]
        <5>1. FileOf[r] < req[p].next + 1 /\ LogFile < req[p].next + 1
          BY <3>1, <3>7
        <5>2. r \in Rows \ torn
          BY <3>0, <4>2
        <5>3. QED BY <3>4, <3>5, <5>1, <5>2 DEF Replayed
      <4>3. QED BY <2>0, <4>1, <4>2 DEF TrailInv, TrailExplainsRows
    <3>8. QED BY <3>6, <3>7
  <2>7. QED BY <1>1, <2>2, <2>3, <2>4, <2>5, <2>6 DEF Steps
<1>2. CASE Generate
  <2>1. UNCHANGED <<rows, log, req, torn>>
    BY <1>0, <1>2, GenerateMoves
  <2>2. QED BY <2>1 DEF TrailInv, TrailExplainsRows, Replayed
<1>3. CASE UNCHANGED vars
  BY <1>3 DEF vars, TrailInv, TrailExplainsRows, Replayed
<1>4. QED BY <1>1, <1>2, <1>3, NextSteps

LEMMA TrailInit == Init => TrailInv
<1> SUFFICES ASSUME Init PROVE TrailInv
  OBVIOUS
<1>1. \A p \in Reviewers : req[p].pc = "idle"
  BY NoRequestType DEF Init
<1>2. Len(log) = 0
  BY DEF Init
<1>3. ApplyAll(Fresh, log) = Fresh
  BY <1>2, AfterSteps DEF ApplyAll
<1>4. rows = Fresh
  BY DEF Init
<1>5. QED BY <1>1, <1>3, <1>4 DEF TrailInv, TrailExplainsRows

\* Between two requests a row is what replaying the op log makes of it, unless a save
\* that died left it and the log on different sides, with one reviewer at a time,
\* wherever the log stands among the files: applyOp moves the row and logs the entry
\* together, and a save that comes to its end has written both.
THEOREM TrailIsTheWholeStory ==
  ASSUME OneReviewer
  PROVE  Spec => []TrailExplainsRows
<1>1. OneReviewer
  OBVIOUS
<1>2. Init => TypeInv /\ TrailInv
  BY TypeInit, TrailInit
<1>3. TypeInv /\ TrailInv /\ [Next]_vars => TypeInv' /\ TrailInv'
  BY <1>1, TypeStep, TrailStep
<1>4. TypeInv /\ TrailInv => TrailExplainsRows
  BY DEF TrailInv
<1>5. QED BY <1>2, <1>3, <1>4, PTL DEF Spec

-----------------------------------------------------------------------------
(***************************************************************************)
(* Who decides a high-risk row.                                            *)
(***************************************************************************)

\* What the log l has entry i do to the high-risk rows.
Alone(l, i) ==
  \A r \in (Moves(After(Fresh, l)[i - 1], l[i]) \cap HighRisk) \ torn :
     l[i].action # "reset" /\ l[i].via # "op" => l[i].row = r /\ l[i].batch = NoBatch

AllAlone(l) == \A i \in 1..Len(l) : Alone(l, i)

AloneInv == AllAlone(log) /\ \A p \in Reviewers : req[p].pc = "save" => AllAlone(req[p].log)

\* A log that goes on has been through the state before.
LEMMA SameSoFar ==
  ASSUME NEW k \in Seq(Review), NEW l \in Seq(Review), GoesOn(l, k)
  PROVE  After(Fresh, l)[Len(k)] = After(Fresh, k)[Len(k)]
<1>1. Len(k) \in Nat /\ Len(l) \in Nat /\ Len(k) <= Len(l) /\ \A j \in 1..Len(k) : l[j] = k[j]
  BY LenProperties DEF GoesOn
<1>2. Len(k) <= Len(k)
  BY <1>1
<1>3. QED BY <1>1, <1>2, ReplayAgrees

\* An entry means the same in a log that goes on.
LEMMA AloneInLonger ==
  ASSUME NEW k \in Seq(Review), NEW l \in Seq(Review), GoesOn(l, k),
         NEW i \in 1..Len(k), Alone(k, i)
  PROVE  Alone(l, i)
<1>1. Len(k) \in Nat /\ Len(l) \in Nat /\ Len(k) <= Len(l) /\ \A j \in 1..Len(k) : l[j] = k[j]
  BY LenProperties DEF GoesOn
<1>2. i - 1 \in Nat /\ i - 1 <= Len(k) /\ i - 1 <= Len(l) /\ \A j \in 1..(i - 1) : k[j] = l[j]
  BY <1>1
<1>3. After(Fresh, k)[i - 1] = After(Fresh, l)[i - 1]
  BY <1>1, <1>2, ReplayAgrees
<1>4. QED BY <1>1, <1>3 DEF Alone

\* The entries a decision adds to the log.
LEMMA Added ==
  ASSUME NEW l \in Seq(Review), NEW ops \in Seq(Review), NEW k, k = l \o ops
  PROVE  /\ k \in Seq(Review) /\ Len(k) = Len(l) + Len(ops) /\ GoesOn(k, l)
         /\ Len(l) \in Nat /\ Len(ops) \in Nat
         /\ \A i \in 1..Len(k) : i > Len(l) => i - Len(l) \in 1..Len(ops)
                                               /\ k[i] = ops[i - Len(l)]
<1>1. Len(l) \in Nat /\ Len(ops) \in Nat
  BY LenProperties
<1>2. /\ k \in Seq(Review) /\ Len(k) = Len(l) + Len(ops)
      /\ \A i \in 1..Len(l) + Len(ops) : k[i] =
            IF i <= Len(l) THEN l[i] ELSE ops[i - Len(l)]
  BY ConcatProperties
<1>3. GoesOn(k, l)
  BY GoesOnMore
<1>4. QED BY <1>1, <1>2, <1>3

\* A new entry settles a high-risk row only when it names it.
LEMMA NewAlone ==
  ASSUME OneReviewer, TypeInv, TrailInv, NEW p \in Reviewers, req[p].pc = "loaded",
         NEW ops \in Seq(Review), AsBatch(p, ops) \/ AsUndo(p, ops) \/ ByName(p, ops),
         NEW k, k = log \o ops, NEW i \in 1..Len(k), i > Len(log)
  PROVE  Alone(k, i)
<1>0. log \in Seq(Review) /\ req[p].rows = rows
  BY DEF TypeInv, TypeOK, CopyOf
<1>1. /\ k \in Seq(Review) /\ Len(k) = Len(log) + Len(ops) /\ GoesOn(k, log)
      /\ Len(log) \in Nat /\ Len(ops) \in Nat
      /\ i - Len(log) \in 1..Len(ops) /\ k[i] = ops[i - Len(log)]
  BY <1>0, Added
<1>2. SUFFICES ASSUME NEW r \in (Moves(After(Fresh, k)[i - 1], k[i]) \cap HighRisk) \ torn,
                      k[i].action # "reset", k[i].via # "op"
               PROVE  k[i].row = r /\ k[i].batch = NoBatch
  BY DEF Alone
<1>3. k[i].cascade \/ r = k[i].row
  BY <1>2 DEF Moves
<1>4. CASE AsBatch(p, ops)
  <2>1. ~ k[i].cascade /\ k[i].row \notin HighRisk
    BY <1>1, <1>4 DEF AsBatch
  <2>2. QED BY <1>2, <1>3, <2>1
<1>5. CASE AsUndo(p, ops)
  <2>1. k[i].action = "reset"
    BY <1>1, <1>5 DEF AsUndo
  <2>2. QED BY <1>2, <2>1
<1>6. CASE ByName(p, ops)
  <2>1. i - Len(log) = 1 /\ i - 1 = Len(log)
    BY <1>1, <1>6 DEF ByName
  <2>2. /\ k[i].batch = NoBatch
        /\ k[i].cascade => CascadeRisks(rows, k[i].row) = {}
    BY <1>0, <1>1, <1>2, <1>6, <2>1 DEF ByName
  <2>3. ASSUME k[i].cascade, r # k[i].row PROVE FALSE
    <3>1. /\ r \in Rows \ torn /\ r \in HighRisk /\ r \in Nested[k[i].row]
          /\ Movable(After(Fresh, k)[i - 1], r, k[i].action)
      <4>1. r \in HighRisk /\ r \notin torn /\ HighRisk \subseteq Rows
        BY <1>2, ConstantsAssumption
      <4>2. r \in {s \in {k[i].row} \cup Nested[k[i].row] :
                     Movable(After(Fresh, k)[i - 1], s, k[i].action)}
        BY <1>2, <2>3 DEF Moves
      <4>3. QED BY <2>3, <4>1, <4>2
    <3>2. Pending(After(Fresh, k)[i - 1], r)
      BY <1>2, <3>1 DEF Movable
    <3>3. After(Fresh, k)[Len(log)] = After(Fresh, log)[Len(log)]
      BY <1>0, <1>1, SameSoFar
    <3>4. rows[r] = After(Fresh, k)[i - 1][r]
      BY <2>1, <3>1, <3>3, Explained DEF Replayed, ApplyAll
    <3>5. Pending(rows, r)
      BY <3>2, <3>4 DEF Pending
    <3>6. r \in CascadeRisks(rows, k[i].row)
      BY <3>1, <3>5 DEF CascadeRisks
    <3>7. QED BY <2>2, <2>3, <3>6
  <2>4. QED BY <1>3, <2>2, <2>3
<1>7. QED BY <1>4, <1>5, <1>6

LEMMA AloneStep ==
  OneReviewer /\ TypeInv /\ TrailInv /\ AloneInv /\ [Next]_vars => AloneInv'
<1> SUFFICES ASSUME OneReviewer, TypeInv, TrailInv, AloneInv, [Next]_vars PROVE AloneInv'
  OBVIOUS
<1>0. TypeOK
  BY DEF TypeInv
<1>1. ASSUME NEW p \in Reviewers, Steps(p) PROVE AloneInv'
  <2>0. \A q \in Reviewers : q = p
    BY DEF OneReviewer
  <2>1. ASSUME log' = log, torn \subseteq torn', req'[p].pc = "save" => AllAlone(req[p].log)'
        PROVE  AloneInv'
    <3>1. AllAlone(log)'
      <4>1. \A i \in 1..Len(log) : Alone(log, i)
        BY DEF AloneInv, AllAlone
      <4>2. QED BY <2>1, <4>1 DEF AllAlone, Alone
    <3>2. QED BY <2>0, <2>1, <3>1 DEF AloneInv
  <2>2. CASE Load(p)
    BY <2>1, <2>2, LoadMoves
  <2>3. CASE Refuse(p)
    BY <2>1, <2>3, RefuseMoves
  <2>4. CASE Crash(p)
    BY <2>1, <2>4, CrashMoves
  <2>5. ASSUME NEW ops, Decides(p, ops) PROVE AloneInv'
    <3>1. /\ ops \in Seq(Review) /\ Decide(p, ops)
          /\ AsBatch(p, ops) \/ AsUndo(p, ops) \/ ByName(p, ops)
      BY <2>5 DEF Decides
    <3>2. /\ req[p].pc = "loaded" /\ req'[p].log = log \o ops
          /\ log' = log /\ torn' = torn
      BY <3>1, DecideMoves
    <3>3. PICK k : k = log \o ops
      OBVIOUS
    <3>4. log \in Seq(Review)
      BY <1>0 DEF TypeOK
    <3>5. k \in Seq(Review) /\ GoesOn(k, log) /\ Len(log) \in Nat /\ Len(k) \in Nat
      BY <3>1, <3>3, <3>4, Added, LenProperties
    <3>6. ASSUME NEW i \in 1..Len(k) PROVE Alone(k, i)
      <4>1. CASE i > Len(log)
        BY <3>1, <3>2, <3>3, <4>1, NewAlone
      <4>2. CASE ~ i > Len(log)
        <5>1. i \in 1..Len(log)
          BY <3>5, <4>2
        <5>2. Alone(log, i)
          BY <5>1 DEF AloneInv, AllAlone
        <5>3. QED BY <3>4, <3>5, <5>1, <5>2, AloneInLonger
      <4>3. QED BY <4>1, <4>2
    <3>7. AllAlone(req[p].log)'
      BY <3>2, <3>3, <3>6 DEF AllAlone, Alone
    <3>8. QED BY <2>1, <3>2, <3>7
  <2>6. CASE SaveFile(p)
    <3>0. req[p].pc = "save" /\ torn' = torn /\ AllAlone(req[p].log)
      BY <2>6, SaveFileMoves DEF AloneInv
    <3>1. /\ log' = log \/ log' = req[p].log
          /\ req'[p].pc = "save" => req'[p].log = req[p].log
      BY <2>6, SaveFileMoves
    <3>2. req'[p].pc = "save" => AllAlone(req[p].log)'
      BY <3>0, <3>1 DEF AllAlone, Alone
    <3>3. CASE log' = log
      BY <2>1, <3>0, <3>2, <3>3
    <3>4. CASE log' = req[p].log
      <4>1. AllAlone(log)'
        BY <3>0, <3>4 DEF AllAlone, Alone
      <4>2. QED BY <2>0, <3>2, <4>1 DEF AloneInv
    <3>5. QED BY <3>1, <3>3, <3>4
  <2>7. QED BY <1>1, <2>2, <2>3, <2>4, <2>5, <2>6 DEF Steps
<1>2. CASE Generate
  <2>1. UNCHANGED <<rows, log, req, torn>>
    BY <1>0, <1>2, GenerateMoves
  <2>2. QED BY <2>1 DEF AloneInv, AllAlone, Alone
<1>3. CASE UNCHANGED vars
  BY <1>3 DEF vars, AloneInv, AllAlone, Alone
<1>4. QED BY <1>1, <1>2, <1>3, NextSteps

LEMMA AloneInit == Init => AloneInv
<1> SUFFICES ASSUME Init PROVE AloneInv
  OBVIOUS
<1>1. \A p \in Reviewers : req[p].pc = "idle"
  BY NoRequestType DEF Init
<1>2. 1..Len(log) = {}
  BY DEF Init
<1>3. QED BY <1>1, <1>2 DEF AloneInv, AllAlone

\* No batch and no cascade of the workbench ever settles a high-risk row, for any
\* rows, nesting, files and selections, with one reviewer at a time.
THEOREM HighRiskIsDecidedByName ==
  ASSUME OneReviewer
  PROVE  Spec => []HighRiskDecidedAlone
<1>1. OneReviewer
  OBVIOUS
<1>2. Init => TypeInv /\ TrailInv /\ AloneInv
  BY TypeInit, TrailInit, AloneInit
<1>3. TypeInv /\ TrailInv /\ AloneInv /\ [Next]_vars => TypeInv' /\ TrailInv' /\ AloneInv'
  BY <1>1, TypeStep, TrailStep, AloneStep
<1>4. ASSUME TypeInv, AloneInv PROVE HighRiskDecidedAlone
  <2>1. log \in Seq(Review)
    BY <1>4 DEF TypeInv, TypeOK
  <2>2. ASSUME NEW i \in 1..Len(log)
        PROVE  MovedBy(i) = Moves(After(Fresh, log)[i - 1], log[i])
    BY <2>1, <2>2, BeforeEntry DEF MovedBy, Before
  <2>3. QED BY <1>4, <2>2 DEF AloneInv, AllAlone, Alone, HighRiskDecidedAlone
<1>5. TypeInv /\ TrailInv /\ AloneInv => HighRiskDecidedAlone
  BY <1>4
<1>6. QED BY <1>2, <1>3, <1>5, PTL DEF Spec

-----------------------------------------------------------------------------
(***************************************************************************)
(* What was generated before an undo.                                      *)
(***************************************************************************)

\* A generation consumed all of a batch or none of it.
AllOrNone(l) ==
  \A b : b # NoBatch => \A i, j \in EntriesOf(l, b) : built < i => built < j

UndoInv == AllOrNone(log) /\ \A p \in Reviewers : req[p].pc = "save" => AllOrNone(req[p].log)

\* Of a batch that has not been generated from, nothing has been.
LEMMA NothingGenerated ==
  ASSUME NEW l \in Seq(Review), NEW b, built \in Nat, ~ HasGenerated(l, b, built),
         \A i, j \in EntriesOf(l, b) : built < i => built < j
  PROVE  \A j \in EntriesOf(l, b) : built < j
<1> SUFFICES ASSUME NEW j \in EntriesOf(l, b) PROVE built < j
  OBVIOUS
<1>1. Len(l) \in Nat /\ EntriesOf(l, b) \subseteq 1..Len(l) /\ EntriesOf(l, b) # {}
  BY LenProperties DEF EntriesOf
<1>2. PICK i \in EntriesOf(l, b) : \A k \in EntriesOf(l, b) : k <= i
  BY <1>1, Greatest
<1>3. ~ built >= i
  BY <1>2 DEF HasGenerated
<1>4. i \in Nat
  BY <1>1, <1>2
<1>5. built < i
  BY <1>3, <1>4
<1>6. QED BY <1>2, <1>5

LEMMA DecidesAllOrNone ==
  ASSUME TypeInv, AllOrNone(log), NEW p \in Reviewers, req[p].pc = "loaded",
         NEW ops \in Seq(Review), AsBatch(p, ops) \/ AsUndo(p, ops) \/ ByName(p, ops),
         NEW k, k = log \o ops
  PROVE  AllOrNone(k)
<1>0. log \in Seq(Review) /\ req[p].log = log /\ built \in Nat /\ built <= Len(log)
  BY DEF TypeInv, TypeOK, CopyOf
<1>1. /\ k \in Seq(Review) /\ Len(k) = Len(log) + Len(ops) /\ GoesOn(k, log)
      /\ Len(log) \in Nat /\ Len(ops) \in Nat
  BY <1>0, Added
<1>1a. ASSUME NEW i \in 1..Len(k), i > Len(log)
      PROVE  i - Len(log) \in 1..Len(ops) /\ k[i] = ops[i - Len(log)]
  BY <1>0, <1>1a, Added
<1>2. SUFFICES ASSUME NEW b, b # NoBatch, NEW i \in EntriesOf(k, b), NEW j \in EntriesOf(k, b),
                      built < i
               PROVE  built < j
  BY DEF AllOrNone
<1>3. i \in 1..Len(k) /\ j \in 1..Len(k) /\ k[i].batch = b /\ k[j].batch = b
  BY <1>2 DEF EntriesOf
<1>4. CASE j > Len(log)
  BY <1>0, <1>1, <1>3, <1>4
<1>5. CASE ~ j > Len(log)
  <2>1. j \in 1..Len(log) /\ log[j] = k[j]
    BY <1>1, <1>3, <1>5 DEF GoesOn
  <2>2. j \in EntriesOf(log, b)
    BY <1>3, <2>1 DEF EntriesOf
  <2>3. CASE ~ i > Len(log)
    <3>1. i \in 1..Len(log) /\ log[i] = k[i]
      BY <1>1, <1>3, <2>3 DEF GoesOn
    <3>2. i \in EntriesOf(log, b)
      BY <1>3, <3>1 DEF EntriesOf
    <3>3. QED BY <1>2, <2>2, <3>2 DEF AllOrNone
  <2>4. CASE i > Len(log)
    <3>1. i - Len(log) \in 1..Len(ops) /\ ops[i - Len(log)].batch = b
      BY <1>1a, <1>3, <2>4
    <3>2. CASE AsBatch(p, ops)
      <4>1. \A n \in 1..Len(log) : log[n].batch # b
        BY <1>0, <3>1, <3>2 DEF AsBatch
      <4>2. QED BY <1>3, <2>1, <4>1
    <3>3. CASE AsUndo(p, ops)
      <4>1. ~ HasGenerated(log, b, built)
        BY <1>0, <3>1, <3>3 DEF AsUndo
      <4>2. \A m, n \in EntriesOf(log, b) : built < m => built < n
        BY <1>2 DEF AllOrNone
      <4>3. QED BY <1>0, <2>2, <4>1, <4>2, NothingGenerated
    <3>4. CASE ByName(p, ops)
      <4>1. ops[i - Len(log)].batch = NoBatch
        BY <1>1, <3>1, <3>4 DEF ByName
      <4>2. QED BY <1>2, <3>1, <4>1
    <3>5. QED BY <3>2, <3>3, <3>4
  <2>5. QED BY <2>3, <2>4
<1>6. QED BY <1>4, <1>5

LEMMA UndoStep ==
  OneReviewer /\ ~ GenerateAnytime /\ TypeInv /\ UndoInv /\ [Next]_vars => UndoInv'
<1> SUFFICES ASSUME OneReviewer, ~ GenerateAnytime, TypeInv, UndoInv, [Next]_vars
             PROVE  UndoInv'
  OBVIOUS
<1>0. TypeOK
  BY DEF TypeInv
<1>1. ASSUME NEW p \in Reviewers, Steps(p) PROVE UndoInv'
  <2>0. \A q \in Reviewers : q = p
    BY DEF OneReviewer
  <2>1. ASSUME log' = log, built' = built, req'[p].pc = "save" => AllOrNone(req[p].log)'
        PROVE  UndoInv'
    <3>1. AllOrNone(log)'
      BY <2>1 DEF UndoInv, AllOrNone, EntriesOf
    <3>2. QED BY <2>0, <2>1, <3>1 DEF UndoInv
  <2>2. CASE Load(p)
    BY <2>1, <2>2, LoadMoves
  <2>3. CASE Refuse(p)
    BY <2>1, <2>3, RefuseMoves
  <2>4. CASE Crash(p)
    BY <2>1, <2>4, CrashMoves
  <2>5. ASSUME NEW ops, Decides(p, ops) PROVE UndoInv'
    <3>1. /\ ops \in Seq(Review) /\ Decide(p, ops)
          /\ AsBatch(p, ops) \/ AsUndo(p, ops) \/ ByName(p, ops)
      BY <2>5 DEF Decides
    <3>2. /\ req[p].pc = "loaded" /\ req'[p].log = log \o ops
          /\ log' = log /\ built' = built
      BY <3>1, DecideMoves
    <3>3. PICK k : k = log \o ops
      OBVIOUS
    <3>4. AllOrNone(k)
      BY <3>1, <3>2, <3>3, DecidesAllOrNone DEF UndoInv
    <3>5. AllOrNone(req[p].log)'
      BY <3>2, <3>3, <3>4 DEF AllOrNone, EntriesOf
    <3>6. QED BY <2>1, <3>2, <3>5
  <2>6. CASE SaveFile(p)
    <3>0. req[p].pc = "save" /\ built' = built /\ AllOrNone(req[p].log)
      BY <2>6, SaveFileMoves DEF UndoInv
    <3>1. /\ log' = log \/ log' = req[p].log
          /\ req'[p].pc = "save" => req'[p].log = req[p].log
      BY <2>6, SaveFileMoves
    <3>2. req'[p].pc = "save" => AllOrNone(req[p].log)'
      BY <3>0, <3>1 DEF AllOrNone, EntriesOf
    <3>3. CASE log' = log
      BY <2>1, <3>0, <3>2, <3>3
    <3>4. CASE log' = req[p].log
      <4>1. AllOrNone(log)'
        BY <3>0, <3>4 DEF AllOrNone, EntriesOf
      <4>2. QED BY <2>0, <3>2, <4>1 DEF UndoInv
    <3>5. QED BY <3>1, <3>3, <3>4
  <2>7. QED BY <1>1, <2>2, <2>3, <2>4, <2>5, <2>6 DEF Steps
<1>2. CASE Generate
  <2>1. /\ log' = log /\ req' = req /\ built' \in {built, Len(log)}
        /\ \A p \in Reviewers : req[p].pc = "idle"
    BY <1>0, <1>2, GenerateMoves DEF Generate
  <2>2. ASSUME NEW b, b # NoBatch, NEW i \in EntriesOf(log, b), NEW j \in EntriesOf(log, b),
               built' < i
        PROVE  built' < j
    <3>1. CASE built' = built
      BY <2>2, <3>1 DEF UndoInv, AllOrNone
    <3>2. CASE built' = Len(log)
      <4>1. i \in 1..Len(log) /\ Len(log) \in Nat
        BY <1>0, <2>2, LenProperties DEF EntriesOf, TypeOK
      <4>2. QED BY <2>2, <3>2, <4>1
    <3>3. QED BY <2>1, <3>1, <3>2
  <2>3. AllOrNone(log)'
    BY <2>1, <2>2 DEF AllOrNone, EntriesOf
  <2>4. QED BY <2>1, <2>3 DEF UndoInv
<1>3. CASE UNCHANGED vars
  BY <1>3 DEF vars, UndoInv, AllOrNone, EntriesOf
<1>4. QED BY <1>1, <1>2, <1>3, NextSteps

LEMMA UndoInit == Init => UndoInv
<1> SUFFICES ASSUME Init PROVE UndoInv
  OBVIOUS
<1>1. \A p \in Reviewers : req[p].pc = "idle"
  BY NoRequestType DEF Init
<1>2. 1..Len(log) = {}
  BY DEF Init
<1>3. QED BY <1>1, <1>2 DEF UndoInv, AllOrNone, EntriesOf

\* What one step may log.
LEMMA LogsUngenerated ==
  ASSUME OneReviewer, TypeInv, UndoInv, [Next]_vars
  PROVE  \A i \in (Len(log) + 1)..Len(log') :
           log'[i].batch # NoBatch /\ log'[i].action = "reset" =>
             \A j \in EntriesOf(log, log'[i].batch) : built < j
<1>0. TypeOK /\ Len(log) \in Nat /\ built \in Nat /\ built <= Len(log)
  BY LenProperties DEF TypeInv, TypeOK
<1>1. CASE log' = log
  <2>1. (Len(log) + 1)..Len(log') = {}
    BY <1>0, <1>1
  <2>2. QED BY <2>1
<1>2. ASSUME NEW p \in Reviewers, SaveFile(p), log' = req[p].log,
             NEW i \in (Len(log) + 1)..Len(log'), log'[i].batch # NoBatch,
             NEW j \in EntriesOf(log, log'[i].batch)
      PROVE  built < j
  <2>1. req[p].pc = "save" /\ log' = req[p].log
    BY <1>2, SaveFileMoves
  <2>2. AllOrNone(log') /\ GoesOn(log', log) /\ log' \in Seq(Review)
    BY <1>0, <2>1 DEF UndoInv, TypeInv, CopyOf, TypeOK, Request
  <2>3. Len(log') \in Nat /\ Len(log) <= Len(log') /\ \A n \in 1..Len(log) : log'[n] = log[n]
    BY <2>2, LenProperties DEF GoesOn
  <2>4. i \in 1..Len(log') /\ built < i /\ i \in EntriesOf(log', log'[i].batch)
    BY <1>0, <1>2, <2>3 DEF EntriesOf
  <2>5. j \in EntriesOf(log', log'[i].batch)
    <3>1. j \in 1..Len(log) /\ log[j].batch = log'[i].batch
      BY <1>2 DEF EntriesOf
    <3>2. j \in 1..Len(log') /\ log'[j].batch = log'[i].batch
      BY <1>0, <2>3, <3>1
    <3>3. QED BY <3>2 DEF EntriesOf
  <2>6. QED BY <1>2, <2>2, <2>4, <2>5 DEF AllOrNone
<1>3. ASSUME NEW p \in Reviewers, Steps(p)
      PROVE  log' = log \/ (SaveFile(p) /\ log' = req[p].log)
  <2>1. CASE Load(p)
    BY <2>1, LoadMoves
  <2>2. CASE Refuse(p)
    BY <2>2, RefuseMoves
  <2>3. CASE Crash(p)
    BY <2>3, CrashMoves
  <2>4. ASSUME NEW ops, Decides(p, ops) PROVE log' = log
    BY <2>4, DecideMoves DEF Decides
  <2>5. CASE SaveFile(p)
    BY <2>5, SaveFileMoves
  <2>6. QED BY <1>3, <2>1, <2>2, <2>3, <2>4, <2>5 DEF Steps
<1>4. CASE \E p \in Reviewers : Steps(p)
  BY <1>1, <1>2, <1>3, <1>4
<1>5. CASE Generate
  BY <1>0, <1>1, <1>5, GenerateMoves
<1>6. CASE UNCHANGED vars
  BY <1>1, <1>6 DEF vars
<1>7. QED BY <1>4, <1>5, <1>6, NextSteps

\* No step logs the undo of a batch that a generation has consumed any part of, with
\* one reviewer at a time and no generation while it works.
THEOREM UndoneBeforeGeneration ==
  ASSUME OneReviewer, ~ GenerateAnytime
  PROVE  Spec => UndoOnlyUngenerated
<1>1. OneReviewer /\ ~ GenerateAnytime
  OBVIOUS
<1>2. Init => TypeInv /\ UndoInv
  BY TypeInit, UndoInit
<1>3. TypeInv /\ UndoInv /\ [Next]_vars => TypeInv' /\ UndoInv'
  BY <1>1, TypeStep, UndoStep
<1>4. TypeInv /\ UndoInv /\ [Next]_vars =>
        [\A i \in (Len(log) + 1)..Len(log') :
           log'[i].batch # NoBatch /\ log'[i].action = "reset" =>
             \A j \in EntriesOf(log, log'[i].batch) : built < j]_vars
  BY <1>1, LogsUngenerated
<1>5. QED BY <1>2, <1>3, <1>4, PTL DEF Spec, UndoOnlyUngenerated
=============================================================================
