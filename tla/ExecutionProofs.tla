--------------------------- MODULE ExecutionProofs ---------------------------
(***************************************************************************)
(* What TLAPS proves of the working-time arithmetic on any compiled         *)
(* calendar, with no bound on its intervals, its coordinates or the         *)
(* durations asked of it; of the passes over a network; and of reported     *)
(* progress and its bounded recalculation, for schedules of any size and    *)
(* any number of reports.                                                   *)
(***************************************************************************)
EXTENDS Execution, FiniteSetTheorems, TLAPS

----------------------------------------------------------------------------
(* Working time.                                                            *)

Increasing(seq) == \A i, j \in 1..Len(seq) : i < j => seq[i] < seq[j]

(* bisect_right: everything up to the index it leaves behind is at or       *)
(* before x, and nothing after it.                                          *)
LEMMA BisectRight ==
    ASSUME NEW seq \in Seq(Int), Increasing(seq), NEW x \in Int
    PROVE  /\ AtOrBefore(seq, x) \in 0..Len(seq)
           /\ \A i \in 1..Len(seq) : seq[i] <= x <=> i <= AtOrBefore(seq, x)
<1> DEFINE S == {i \in DOMAIN seq : seq[i] <= x}
           k == Cardinality(S)
<1>1. DOMAIN seq = 1..Len(seq) /\ Len(seq) \in Nat
  OBVIOUS
<1>2. IsFiniteSet(S) /\ k \in Nat /\ k <= Len(seq)
  <2>1. IsFiniteSet(1..Len(seq)) /\ Cardinality(1..Len(seq)) = Len(seq)
    <3>1. \A m \in Nat : IsFiniteSet(1..m) /\ Cardinality(1..m) = m
      BY ONLY FS_Interval
    <3> QED BY <1>1, <3>1
  <2>2. S \in SUBSET (1..Len(seq))
    BY <1>1
  <2>3. IsFiniteSet(S) /\ k <= Len(seq)
    BY <2>1, <2>2, FS_Subset
  <2>4. k \in Nat
    BY <2>3, FS_CardinalityType
  <2> QED BY <2>3, <2>4
<1>3. ASSUME NEW i \in S
      PROVE  i <= k
  <2>1. 1..i \subseteq S
    BY <1>1 DEF Increasing
  <2>2. Cardinality(1..i) = i /\ i \in Nat
    BY <1>1, FS_Interval
  <2> QED BY <2>1, <2>2, <1>2, FS_Subset
<1>4. S \subseteq 1..k
  BY <1>1, <1>2, <1>3
<1>5. S = 1..k
  <2>1. IsFiniteSet(1..k) /\ Cardinality(1..k) = k
    BY <1>2, FS_Interval
  <2> QED BY <1>4, <2>1, FS_Subset
<1> QED BY <1>1, <1>2, <1>5 DEF AtOrBefore

(* bisect_left, likewise.                                                   *)
LEMMA BisectLeft ==
    ASSUME NEW seq \in Seq(Int), Increasing(seq), NEW x \in Int
    PROVE  /\ Before(seq, x) \in 0..Len(seq)
           /\ \A i \in 1..Len(seq) : seq[i] < x <=> i <= Before(seq, x)
<1>1. DOMAIN seq = 1..Len(seq)
  OBVIOUS
<1>2. {i \in DOMAIN seq : seq[i] <= x - 1} = {i \in DOMAIN seq : seq[i] < x}
  BY <1>1
<1>3. Before(seq, x) = AtOrBefore(seq, x - 1)
  BY <1>2 DEF Before, AtOrBefore
<1>4. x - 1 \in Int
  OBVIOUS
<1>5. /\ AtOrBefore(seq, x - 1) \in 0..Len(seq)
      /\ \A i \in 1..Len(seq) : seq[i] <= x - 1 <=> i <= AtOrBefore(seq, x - 1)
  BY <1>4, BisectRight
<1> QED BY <1>1, <1>3, <1>5

(* Min and Max of two numbers, as the code uses min and max.                *)
LEMMA MinMaxOfTwo ==
    ASSUME NEW a \in Int, NEW b \in Int
    PROVE  /\ Min({a, b}) = IF a <= b THEN a ELSE b
           /\ Max({a, b}) = IF a >= b THEN a ELSE b
BY DEF Min, Max

(* The fields of a compiled calendar, for the solver.                       *)
LEMMA Fields ==
    ASSUME NEW cal, Indexed(cal)
    PROVE  /\ cal.starts \in Seq(Int) /\ cal.finishes \in Seq(Int) /\ cal.before \in Seq(Int)
           /\ Increasing(cal.starts) /\ Increasing(cal.before)
           /\ Len(cal.finishes) = Len(cal.starts) /\ Len(cal.before) = Len(cal.starts)
           /\ DOMAIN cal.starts = 1..Len(cal.starts) /\ Len(cal.starts) \in Nat
           /\ \A i \in 1..Len(cal.starts) : /\ cal.starts[i] \in Int /\ cal.finishes[i] \in Int
                                            /\ cal.before[i] \in Int
                                            /\ cal.starts[i] < cal.finishes[i]
           /\ \A i, j \in 1..Len(cal.starts) : i < j => cal.finishes[i] < cal.starts[j]
           /\ Len(cal.starts) > 0 => cal.before[1] = 0
           /\ \A i \in 2..Len(cal.starts) :
                 cal.before[i] = cal.before[i - 1] + cal.finishes[i - 1] - cal.starts[i - 1]
<1>1. cal.starts \in Seq(Int) /\ cal.finishes \in Seq(Int) /\ cal.before \in Seq(Int)
  BY DEF Indexed
<1>2. /\ \A i \in 1..Len(cal.starts) : cal.starts[i] \in Int /\ cal.finishes[i] \in Int
      /\ \A i \in 1..Len(cal.starts) : cal.starts[i] < cal.finishes[i]
      /\ \A i, j \in 1..Len(cal.starts) : i < j => cal.finishes[i] < cal.starts[j]
  BY <1>1 DEF Indexed
<1>3. \A i, j \in 1..Len(cal.starts) : i < j => cal.starts[i] < cal.starts[j]
  <2>1. ASSUME NEW i \in 1..Len(cal.starts), NEW j \in 1..Len(cal.starts), i < j
        PROVE  cal.starts[i] < cal.starts[j]
    <3>1. /\ cal.starts[i] \in Int /\ cal.starts[j] \in Int /\ cal.finishes[i] \in Int
          /\ cal.starts[i] < cal.finishes[i] /\ cal.finishes[i] < cal.starts[j]
      BY <1>2, <2>1
    <3> QED BY <3>1
  <2> QED BY <2>1
<1> QED BY <1>1, <1>2, <1>3 DEF Indexed, Increasing

----------------------------------------------------------------------------
(* Moving over working time.                                               *)

(* next_working answers the first second, at or after the one asked, at     *)
(* which work can start, and None only when there is none.                  *)
THEOREM NextWorkingIsFirst ==
    ASSUME NEW cal, Indexed(cal), NEW t \in Int
    PROVE  LET next == NextWorking(cal, t) IN
           IF next = None THEN \A u \in Int : WorkingAt(cal, u) => u < t
           ELSE /\ next \in Int /\ t <= next /\ WorkingAt(cal, next)
                /\ \A u \in Int : WorkingAt(cal, u) /\ t <= u => next <= u
<1> DEFINE n == Len(cal.starts)
           k == AtOrBefore(cal.starts, t)
<1>1. k \in 0..n /\ \A i \in 1..n : cal.starts[i] <= t <=> i <= k
  BY Fields, BisectRight
<1>2. n \in Nat /\ DOMAIN cal.starts = 1..n
  BY Fields
<1>3. \A i \in 1..n : cal.starts[i] \in Int /\ cal.finishes[i] \in Int
                         /\ cal.starts[i] < cal.finishes[i]
  BY Fields
<1>4. \A i, j \in 1..n : i < j => cal.finishes[i] < cal.starts[j]
  BY Fields
<1>5. CASE k > 0 /\ t < cal.finishes[k]
  <2>1. NextWorking(cal, t) = t
    BY <1>1, <1>5 DEF NextWorking, IndexAt
  <2>2. WorkingAt(cal, t) /\ t # None
    BY <1>1, <1>2, <1>5, NoneAssumption DEF WorkingAt
  <2> QED BY <2>1, <2>2
<1>6. CASE ~(k > 0 /\ t < cal.finishes[k])
  <2>1. IndexAt(cal, t) = 0
    BY <1>1, <1>6 DEF IndexAt
  <2>2. \A i \in 1..k : cal.finishes[i] <= t
    <3>1. ASSUME NEW i \in 1..k PROVE cal.finishes[i] <= t
      <4>1. k \in 1..n /\ i \in 1..n /\ cal.finishes[k] <= t
        BY <1>1, <1>2, <1>3, <1>6
      <4>2. CASE i = k
        BY <4>1, <4>2
      <4>3. CASE i < k
        BY <4>1, <4>3, <1>3, <1>4
      <4> QED BY <4>1, <4>2, <4>3
    <3> QED BY <3>1
  <2>3. \A u \in Int : WorkingAt(cal, u) /\ t <= u => \E i \in (k + 1)..n : cal.starts[i] <= u
    BY <1>1, <1>2, <1>3, <2>2 DEF WorkingAt
  <2>4. CASE k + 1 \in 1..n
    <3>1. NextWorking(cal, t) = cal.starts[k + 1]
      BY <1>2, <2>1, <2>4 DEF NextWorking
    <3>2. t < cal.starts[k + 1] /\ cal.starts[k + 1] \in Int
      BY <1>1, <1>3, <2>4
    <3>3. WorkingAt(cal, cal.starts[k + 1])
      BY <1>2, <1>3, <2>4 DEF WorkingAt
    <3>4. \A i \in (k + 1)..n : cal.starts[k + 1] <= cal.starts[i]
      <4>1. ASSUME NEW i \in (k + 1)..n PROVE cal.starts[k + 1] <= cal.starts[i]
        <5>1. CASE i = k + 1
          BY <5>1, <1>3, <2>4
        <5>2. CASE i > k + 1
          BY <5>2, <1>1, <1>3, <1>4, <2>4
        <5> QED BY <5>1, <5>2, <1>1
      <4> QED BY <4>1
    <3>5. \A u \in Int : WorkingAt(cal, u) /\ t <= u => cal.starts[k + 1] <= u
      BY <1>1, <1>3, <2>3, <3>2, <3>4
    <3>6. cal.starts[k + 1] # None
      BY <3>2, NoneAssumption
    <3> QED BY <3>1, <3>2, <3>3, <3>5, <3>6
  <2>5. CASE k + 1 \notin 1..n
    <3>1. NextWorking(cal, t) = None
      BY <1>2, <2>1, <2>5 DEF NextWorking
    <3>2. \A i \in (k + 1)..n : FALSE
      BY <1>1, <1>2, <2>5
    <3> QED BY <2>3, <3>1, <3>2
  <2> QED BY <2>4, <2>5
<1> QED BY <1>5, <1>6

(* prev_working answers the last second, at or before the one asked, at     *)
(* which work can finish.                                                   *)
THEOREM PrevWorkingIsLast ==
    ASSUME NEW cal, Indexed(cal), NEW t \in Int
    PROVE  LET prev == PrevWorking(cal, t) IN
           IF prev = None THEN \A u \in Int : FinishingAt(cal, u) => t < u
           ELSE /\ prev \in Int /\ prev <= t /\ FinishingAt(cal, prev)
                /\ \A u \in Int : FinishingAt(cal, u) /\ u <= t => u <= prev
<1> DEFINE n == Len(cal.starts)
           k == Before(cal.starts, t)
<1>1. k \in 0..n /\ \A i \in 1..n : cal.starts[i] < t <=> i <= k
  BY Fields, BisectLeft
<1>2. n \in Nat /\ DOMAIN cal.starts = 1..n
  BY Fields
<1>3. \A i \in 1..n : cal.starts[i] \in Int /\ cal.finishes[i] \in Int
                         /\ cal.starts[i] < cal.finishes[i]
  BY Fields
<1>4. \A i, j \in 1..n : i < j => cal.finishes[i] < cal.starts[j]
  BY Fields
<1>5. \A u \in Int : FinishingAt(cal, u) /\ u <= t =>
          \E i \in 1..k : cal.starts[i] < u /\ u <= cal.finishes[i]
  BY <1>1, <1>2, <1>3 DEF FinishingAt
<1>6. CASE k = 0
  <2>1. PrevWorking(cal, t) = None
    BY <1>6 DEF PrevWorking
  <2> QED BY <2>1, <1>5, <1>6
<1>7. CASE k > 0
  <2> DEFINE p == IF t <= cal.finishes[k] THEN t ELSE cal.finishes[k]
  <2>1. k \in 1..n /\ cal.finishes[k] \in Int /\ cal.starts[k] < t
    BY <1>1, <1>3, <1>7
  <2>2. PrevWorking(cal, t) = p
    BY <1>7, <2>1, MinMaxOfTwo DEF PrevWorking
  <2>3. p \in Int /\ p # None /\ p <= t
    BY <2>1, NoneAssumption
  <2>4. FinishingAt(cal, p)
    BY <2>1, <1>2, <1>3 DEF FinishingAt
  <2>5. ASSUME NEW i \in 1..k PROVE cal.finishes[i] <= cal.finishes[k]
    <3>1. CASE i = k
      BY <3>1, <2>1
    <3>2. CASE i < k
      BY <3>2, <2>1, <1>3, <1>4, <1>1
    <3> QED BY <3>1, <3>2, <1>1
  <2>6. \A u \in Int : FinishingAt(cal, u) /\ u <= t => u <= p
    <3>1. ASSUME NEW u \in Int, FinishingAt(cal, u), u <= t PROVE u <= p
      <4>1. PICK i \in 1..k : u <= cal.finishes[i]
        BY <3>1, <1>5
      <4>2. cal.finishes[i] \in Int /\ cal.finishes[i] <= cal.finishes[k]
        BY <2>5, <1>1, <1>3
      <4> QED BY <3>1, <4>1, <4>2, <2>1
    <3> QED BY <3>1
  <2> QED BY <2>2, <2>3, <2>4, <2>6
<1> QED BY <1>1, <1>6, <1>7

(* prev_working_start answers the last second, at or before the one asked,  *)
(* at which work can start: the mirror of next_working.                     *)
THEOREM PrevWorkingStartIsLast ==
    ASSUME NEW cal, Indexed(cal), NEW t \in Int
    PROVE  LET prev == PrevWorkingStart(cal, t) IN
           IF prev = None THEN \A u \in Int : WorkingAt(cal, u) => t < u
           ELSE /\ prev \in Int /\ prev <= t /\ WorkingAt(cal, prev)
                /\ \A u \in Int : WorkingAt(cal, u) /\ u <= t => u <= prev
<1> DEFINE n == Len(cal.starts)
           k == AtOrBefore(cal.starts, t)
<1>1. k \in 0..n /\ \A i \in 1..n : cal.starts[i] <= t <=> i <= k
  BY Fields, BisectRight
<1>2. n \in Nat /\ DOMAIN cal.starts = 1..n
  BY Fields
<1>3. \A i \in 1..n : cal.starts[i] \in Int /\ cal.finishes[i] \in Int
                         /\ cal.starts[i] < cal.finishes[i]
  BY Fields
<1>4. \A i, j \in 1..n : i < j => cal.finishes[i] < cal.starts[j]
  BY Fields
<1>5. \A u \in Int : WorkingAt(cal, u) /\ u <= t =>
          \E i \in 1..k : cal.starts[i] <= u /\ u < cal.finishes[i]
  BY <1>1, <1>2, <1>3 DEF WorkingAt
<1>6. CASE k = 0
  <2>1. PrevWorkingStart(cal, t) = None
    BY <1>6 DEF PrevWorkingStart, IndexAt
  <2> QED BY <2>1, <1>5, <1>6
<1>7. CASE k > 0 /\ t < cal.finishes[k]
  <2>1. PrevWorkingStart(cal, t) = t
    BY <1>1, <1>7 DEF PrevWorkingStart, IndexAt
  <2>2. WorkingAt(cal, t) /\ t # None
    BY <1>1, <1>2, <1>7, NoneAssumption DEF WorkingAt
  <2> QED BY <2>1, <2>2
<1>8. CASE k > 0 /\ ~(t < cal.finishes[k])
  <2> DEFINE p == cal.finishes[k] - 1
  <2>1. k \in 1..n /\ cal.finishes[k] \in Int /\ cal.finishes[k] <= t
    BY <1>1, <1>3, <1>8
  <2>2. PrevWorkingStart(cal, t) = p
    BY <1>8 DEF PrevWorkingStart, IndexAt
  <2>3. p \in Int /\ p # None /\ p <= t
    BY <2>1, NoneAssumption
  <2>4. WorkingAt(cal, p)
    BY <2>1, <1>2, <1>3 DEF WorkingAt
  <2>5. ASSUME NEW i \in 1..k PROVE cal.finishes[i] <= cal.finishes[k]
    <3>1. CASE i = k
      BY <3>1, <2>1
    <3>2. CASE i < k
      <4>1. i \in 1..n /\ k \in 1..n /\ i \in Int
        BY <2>1, <1>2
      <4>2. cal.finishes[i] < cal.starts[k]
        BY <3>2, <4>1, <1>4
      <4>3. cal.finishes[i] \in Int /\ cal.starts[k] \in Int /\ cal.starts[k] < cal.finishes[k]
        BY <4>1, <1>3
      <4> QED BY ONLY <4>2, <4>3, <2>1
    <3> QED BY <3>1, <3>2, <1>1
  <2>6. \A u \in Int : WorkingAt(cal, u) /\ u <= t => u <= p
    <3>1. ASSUME NEW u \in Int, WorkingAt(cal, u), u <= t PROVE u <= p
      <4>1. PICK i \in 1..k : u < cal.finishes[i]
        BY <3>1, <1>5
      <4>2. cal.finishes[i] \in Int /\ cal.finishes[i] <= cal.finishes[k]
        BY <2>5, <1>1, <1>3
      <4> QED BY <3>1, <4>1, <4>2, <2>1
    <3> QED BY <3>1
  <2> QED BY <2>2, <2>3, <2>4, <2>6
<1> QED BY <1>1, <1>6, <1>7, <1>8

----------------------------------------------------------------------------
(* Measuring work.                                                         *)

(* Inside an interval, both its edges included, work grows by the second.   *)
LEMMA WorkInside ==
    ASSUME NEW cal, Indexed(cal), NEW i \in 1..Len(cal.starts), NEW t \in Int,
           cal.starts[i] <= t, t <= cal.finishes[i]
    PROVE  WorkUntil(cal, t) = cal.before[i] + t - cal.starts[i]
<1> DEFINE n == Len(cal.starts)
           k == AtOrBefore(cal.starts, t)
<1>1. k \in 0..n /\ \A j \in 1..n : cal.starts[j] <= t <=> j <= k
  BY Fields, BisectRight
<1>2. \A j \in 1..n : cal.starts[j] \in Int /\ cal.finishes[j] \in Int /\ cal.before[j] \in Int
  BY Fields
<1>3. \A j \in 1..n : i < j => cal.finishes[i] < cal.starts[j]
  BY Fields
<1>4. n \in Nat /\ i <= k
  BY <1>1, Fields
<1>5. ~(i < k)
  <2>1. SUFFICES ASSUME i < k PROVE FALSE
    OBVIOUS
  <2>2. k \in 1..n
    BY <1>1, <1>4
  <2>3. cal.finishes[i] < cal.starts[k] /\ cal.starts[k] <= t
    BY <2>1, <2>2, <1>1, <1>3
  <2> QED BY <2>2, <2>3, <1>2
<1>6. k = i
  BY <1>1, <1>4, <1>5
<1>7. Min({t, cal.finishes[i]}) = t
  BY <1>2, MinMaxOfTwo
<1> QED BY <1>2, <1>6, <1>7 DEF WorkUntil

(* Before the first interval nothing is done.                               *)
LEMMA WorkBeforeAll ==
    ASSUME NEW cal, NEW t, AtOrBefore(cal.starts, t) = 0
    PROVE  WorkUntil(cal, t) = 0
BY DEF WorkUntil

(* Outside the intervals no work is done: up to the next one it stands at   *)
(* what the last one finished with.                                         *)
LEMMA WorkAt ==
    ASSUME NEW cal, Indexed(cal), NEW t \in Int
    PROVE  LET k == AtOrBefore(cal.starts, t) IN
           /\ k \in 0..Len(cal.starts)
           /\ k = 0 => WorkUntil(cal, t) = 0
           /\ k > 0 => /\ cal.starts[k] <= t
                       /\ WorkUntil(cal, t) =
                            IF t <= cal.finishes[k] THEN cal.before[k] + t - cal.starts[k]
                            ELSE cal.before[k] + cal.finishes[k] - cal.starts[k]
<1> DEFINE n == Len(cal.starts)
           k == AtOrBefore(cal.starts, t)
<1>1. k \in 0..n /\ \A j \in 1..n : cal.starts[j] <= t <=> j <= k
  BY Fields, BisectRight
<1>2. \A j \in 1..n : cal.finishes[j] \in Int
  BY Fields
<1>3. n \in Nat
  BY Fields
<1>4. CASE k = 0
  BY <1>1, <1>4 DEF WorkUntil
<1>5. CASE k > 0
  <2>1. k \in 1..n /\ cal.finishes[k] \in Int /\ cal.starts[k] <= t
    BY <1>1, <1>2, <1>3, <1>5
  <2>2. Min({t, cal.finishes[k]}) = IF t <= cal.finishes[k] THEN t ELSE cal.finishes[k]
    BY <2>1, MinMaxOfTwo
  <2> QED BY <1>1, <1>5, <2>1, <2>2 DEF WorkUntil
<1> QED BY <1>1, <1>3, <1>4, <1>5

(* The work before an interval is a natural number.                         *)
LEMMA BeforeIsNat ==
    ASSUME NEW cal, Indexed(cal), NEW i \in 1..Len(cal.starts)
    PROVE  cal.before[i] \in Nat
<1>1. Len(cal.starts) \in Nat /\ cal.before[1] = 0 /\ cal.before[i] \in Int
  BY Fields
<1>2. Increasing(cal.before) /\ Len(cal.before) = Len(cal.starts)
  BY Fields
<1>3. i # 1 => 1 \in 1..Len(cal.before) /\ i \in 1..Len(cal.before) /\ 1 < i
  BY <1>1, <1>2
<1>4. i # 1 => cal.before[1] < cal.before[i]
  BY <1>2, <1>3 DEF Increasing
<1> QED BY <1>1, <1>4

(* The work before an interval is that before the last one, and the last    *)
(* one's.                                                                   *)
LEMMA NextBefore ==
    ASSUME NEW cal, Indexed(cal), NEW i \in 1..Len(cal.starts), i < Len(cal.starts)
    PROVE  cal.before[i + 1] = cal.before[i] + cal.finishes[i] - cal.starts[i]
<1> DEFINE j == i + 1
<1>1. Len(cal.starts) \in Nat
  BY Fields
<1>2. \A k \in 2..Len(cal.starts) :
         cal.before[k] = cal.before[k - 1] + cal.finishes[k - 1] - cal.starts[k - 1]
  BY Fields
<1>3. j \in 2..Len(cal.starts) /\ j - 1 = i
  BY <1>1
<1> HIDE DEF j
<1>4. cal.before[j] = cal.before[j - 1] + cal.finishes[j - 1] - cal.starts[j - 1]
  BY <1>2, <1>3
<1>5. cal.before[j] = cal.before[i] + cal.finishes[i] - cal.starts[i]
  BY <1>3, <1>4
<1> QED BY <1>5 DEF j

(* The work done by z of an interval [s, f) that b was done before.         *)
Done(b, s, f, z) == IF z <= f THEN b + z - s ELSE b + f - s

(* The work done by a coordinate within an interval grows with it, up to    *)
(* the interval's length.                                                   *)
LEMMA Clipped ==
    ASSUME NEW b \in Nat, NEW s \in Int, NEW f \in Int, s < f,
           NEW x \in Int, NEW y \in Int, s <= x, x <= y
    PROVE  /\ Done(b, s, f, x) \in Nat /\ Done(b, s, f, y) \in Nat
           /\ b <= Done(b, s, f, x) /\ Done(b, s, f, x) <= Done(b, s, f, y)
           /\ Done(b, s, f, y) <= b + f - s
BY DEF Done

(* Work is never undone: it is a number and does not shrink over time.      *)
THEOREM WorkIsMonotone ==
    ASSUME NEW cal, Indexed(cal), NEW u \in Int, NEW v \in Int, u <= v
    PROVE  /\ WorkUntil(cal, u) \in Nat /\ WorkUntil(cal, v) \in Nat
           /\ WorkUntil(cal, u) <= WorkUntil(cal, v)
<1> DEFINE n == Len(cal.starts)
           k == AtOrBefore(cal.starts, u)
           m == AtOrBefore(cal.starts, v)
           Full(i) == cal.before[i] + cal.finishes[i] - cal.starts[i]
<1>1. n \in Nat
      /\ \A j \in 1..n : /\ cal.starts[j] \in Int /\ cal.finishes[j] \in Int
                         /\ cal.starts[j] < cal.finishes[j]
  BY Fields
<1>2. \A j \in 1..n : cal.before[j] \in Nat
  BY BeforeIsNat
<1>3. k \in 0..n /\ m \in 0..n
      /\ \A j \in 1..n : (cal.starts[j] <= u <=> j <= k) /\ (cal.starts[j] <= v <=> j <= m)
  BY Fields, BisectRight
<1>4. k <= m
  <2>1. CASE k = 0
    BY <2>1, <1>3
  <2>2. CASE k > 0
    <3>1. k \in 1..n /\ cal.starts[k] <= u /\ cal.starts[k] \in Int
      BY <2>2, <1>1, <1>3
    <3> QED BY <3>1, <1>3
  <2> QED BY <2>1, <2>2, <1>3
<1>5. /\ k = 0 => WorkUntil(cal, u) = 0
      /\ k > 0 => cal.starts[k] <= u
      /\ k > 0 => WorkUntil(cal, u) = Done(cal.before[k], cal.starts[k], cal.finishes[k], u)
  BY WorkAt DEF Done
<1>6. /\ m = 0 => WorkUntil(cal, v) = 0
      /\ m > 0 => cal.starts[m] <= v
      /\ m > 0 => WorkUntil(cal, v) = Done(cal.before[m], cal.starts[m], cal.finishes[m], v)
  BY WorkAt DEF Done
<1> HIDE DEF k, m
<1>7. CASE m = 0
  BY <1>3, <1>4, <1>5, <1>6, <1>7
<1>8. CASE m > 0
  <2>1. m \in 1..n /\ cal.before[m] \in Nat /\ cal.starts[m] \in Int /\ cal.finishes[m] \in Int
        /\ cal.starts[m] < cal.finishes[m]
    BY <1>1, <1>2, <1>3, <1>8
  <2>2. WorkUntil(cal, v) \in Nat /\ cal.before[m] <= WorkUntil(cal, v)
    <3>1. cal.starts[m] <= v /\ v <= v
          /\ WorkUntil(cal, v) = Done(cal.before[m], cal.starts[m], cal.finishes[m], v)
      BY <1>6, <1>8
    <3> QED BY <2>1, <3>1, Clipped
  <2>3. CASE k = 0
    BY <2>2, <2>3, <1>5
  <2>4. CASE k = m
    <3>1. WorkUntil(cal, u) = Done(cal.before[m], cal.starts[m], cal.finishes[m], u)
      BY <2>4, <1>5, <1>8
    <3>2. WorkUntil(cal, v) = Done(cal.before[m], cal.starts[m], cal.finishes[m], v)
      BY <1>6, <1>8
    <3>3. cal.starts[m] <= u
      BY <2>4, <1>5, <1>8
    <3>4. /\ Done(cal.before[m], cal.starts[m], cal.finishes[m], u) \in Nat
          /\ Done(cal.before[m], cal.starts[m], cal.finishes[m], v) \in Nat
          /\ Done(cal.before[m], cal.starts[m], cal.finishes[m], u)
               <= Done(cal.before[m], cal.starts[m], cal.finishes[m], v)
      BY <2>1, <3>3, Clipped
    <3> QED BY <3>1, <3>2, <3>4
  <2>5. CASE 0 < k /\ k < m
    <3>1. k \in 1..n /\ cal.before[k] \in Nat /\ cal.starts[k] \in Int
          /\ cal.finishes[k] \in Int /\ cal.starts[k] < cal.finishes[k]
      BY <1>1, <1>2, <1>3, <2>5
    <3>2. WorkUntil(cal, u) \in Nat /\ WorkUntil(cal, u) <= Full(k)
      <4>1. /\ cal.starts[k] <= u /\ u <= u
            /\ WorkUntil(cal, u) = Done(cal.before[k], cal.starts[k], cal.finishes[k], u)
        BY <1>5, <2>5
      <4>2. /\ Done(cal.before[k], cal.starts[k], cal.finishes[k], u) \in Nat
            /\ Done(cal.before[k], cal.starts[k], cal.finishes[k], u)
                 <= cal.before[k] + cal.finishes[k] - cal.starts[k]
        BY <3>1, <4>1, Clipped
      <4> QED BY <4>1, <4>2
    <3>3. k < n /\ k + 1 \in 1..n
      BY <1>1, <1>3, <2>5
    <3>4. cal.before[k + 1] = Full(k)
      BY <3>1, <3>3, NextBefore
    <3>5. cal.before[k + 1] <= cal.before[m]
      <4>1. CASE k + 1 = m
        BY <4>1, <2>1
      <4>2. CASE k + 1 < m
        <5>1. cal.before[k + 1] < cal.before[m]
          BY <4>2, <3>3, <2>1, Fields DEF Increasing
        <5>2. cal.before[k + 1] \in Nat
          BY <3>3, <1>2
        <5> QED BY <5>1, <5>2, <2>1
      <4> QED BY <4>1, <4>2, <2>5, <1>3
    <3>6. cal.before[k + 1] \in Nat
      BY <3>3, <1>2
    <3>7. WorkUntil(cal, u) <= cal.before[k + 1]
      BY <3>2, <3>4
    <3> QED BY <2>1, <2>2, <3>2, <3>5, <3>6, <3>7
  <2> QED BY <2>3, <2>4, <2>5, <1>3, <1>4
<1> QED BY <1>3, <1>7, <1>8

----------------------------------------------------------------------------
(* Adding work.                                                            *)

(* Skipping to the next working second does no work; when there is none     *)
(* all the work there is is done.                                           *)
LEMMA WorkAtNext ==
    ASSUME NEW cal, Indexed(cal), NEW t \in Int
    PROVE  LET next == NextWorking(cal, t) IN
           IF next = None THEN WorkUntil(cal, t) = TotalWork(cal)
           ELSE next \in Int /\ WorkUntil(cal, next) = WorkUntil(cal, t)
<1> DEFINE n == Len(cal.starts)
           k == AtOrBefore(cal.starts, t)
           Full(i) == cal.before[i] + cal.finishes[i] - cal.starts[i]
<1>1. n \in Nat /\ DOMAIN cal.starts = 1..n
      /\ \A j \in 1..n : /\ cal.starts[j] \in Int /\ cal.finishes[j] \in Int
                         /\ cal.before[j] \in Int
                         /\ cal.starts[j] < cal.finishes[j]
  BY Fields
<1>2. /\ k \in 0..n
      /\ k = 0 => WorkUntil(cal, t) = 0
      /\ k > 0 => WorkUntil(cal, t) = IF t <= cal.finishes[k]
                                      THEN cal.before[k] + t - cal.starts[k] ELSE Full(k)
  BY WorkAt
<1>3. CASE k > 0 /\ t < cal.finishes[k]
  <2>1. NextWorking(cal, t) = t /\ t # None
    BY <1>2, <1>3, NoneAssumption DEF NextWorking, IndexAt
  <2> QED BY <2>1
<1>4. CASE ~(k > 0 /\ t < cal.finishes[k])
  <2>1. NextWorking(cal, t) = IF k + 1 \in 1..n THEN cal.starts[k + 1] ELSE None
    BY <1>1, <1>2, <1>4 DEF NextWorking, IndexAt
  <2>2. k > 0 => WorkUntil(cal, t) = Full(k)
    <3>1. ASSUME k > 0 PROVE k \in 1..n /\ cal.finishes[k] \in Int /\ cal.finishes[k] <= t
      BY <3>1, <1>1, <1>2, <1>4
    <3> QED BY <3>1, <1>1, <1>2
  <2>3. CASE k = n
    <3>1. NextWorking(cal, t) = None
      BY <2>1, <2>3, <1>1
    <3>2. WorkUntil(cal, t) = TotalWork(cal)
      BY <2>2, <2>3, <1>1, <1>2 DEF TotalWork
    <3> QED BY <3>1, <3>2
  <2>4. CASE k < n
    <3>1. k + 1 \in 1..n /\ NextWorking(cal, t) = cal.starts[k + 1]
          /\ cal.starts[k + 1] \in Int /\ cal.starts[k + 1] # None
      BY <2>1, <2>4, <1>1, <1>2, NoneAssumption
    <3>2. WorkUntil(cal, cal.starts[k + 1]) = cal.before[k + 1]
      <4>1. cal.starts[k + 1] <= cal.starts[k + 1] /\ cal.starts[k + 1] <= cal.finishes[k + 1]
            /\ cal.before[k + 1] \in Int
        BY <3>1, <1>1
      <4>2. WorkUntil(cal, cal.starts[k + 1])
              = cal.before[k + 1] + cal.starts[k + 1] - cal.starts[k + 1]
        BY <4>1, <3>1, WorkInside
      <4> QED BY <4>1, <4>2, <3>1
    <3>3. cal.before[k + 1] = WorkUntil(cal, t)
      <4>1. CASE k = 0
        BY <4>1, <1>2, <1>1, <2>4, Fields
      <4>2. CASE k > 0
        <5>1. k \in 1..n /\ k < n
          BY <4>2, <2>4, <1>1, <1>2
        <5>2. cal.before[k + 1] = Full(k)
          BY <5>1, NextBefore
        <5> QED BY <5>2, <4>2, <2>2
      <4> QED BY <4>1, <4>2, <1>2
    <3> QED BY <3>1, <3>2, <3>3
  <2> QED BY <2>3, <2>4, <1>1, <1>2
<1> QED BY <1>3, <1>4

(* Where a given amount of work, all of it available, has been done: inside *)
(* the interval bisect_left finds for it, at a second work can finish.      *)
LEMMA FinishOfWork ==
    ASSUME NEW cal, Indexed(cal), NEW w \in Nat \ {0}, w <= TotalWork(cal)
    PROVE  LET i == Before(cal.before, w)
               f == cal.starts[i] + w - cal.before[i]
           IN  f \in Int /\ FinishingAt(cal, f) /\ WorkUntil(cal, f) = w
<1> DEFINE n == Len(cal.starts)
           i == Before(cal.before, w)
           f == cal.starts[i] + w - cal.before[i]
           Full(j) == cal.before[j] + cal.finishes[j] - cal.starts[j]
<1>1. n \in Nat /\ DOMAIN cal.starts = 1..n
      /\ \A j \in 1..n : /\ cal.starts[j] \in Int /\ cal.finishes[j] \in Int
                         /\ cal.before[j] \in Int
                         /\ cal.starts[j] < cal.finishes[j]
  BY Fields
<1>2. i \in 0..n /\ \A j \in 1..n : cal.before[j] < w <=> j <= i
  <2>1. cal.before \in Seq(Int) /\ Increasing(cal.before) /\ Len(cal.before) = n
        /\ w \in Int
    BY Fields
  <2>2. /\ i \in 0..Len(cal.before)
        /\ \A j \in 1..Len(cal.before) : cal.before[j] < w <=> j <= i
    BY <2>1, BisectLeft
  <2> QED BY <2>1, <2>2
<1>3. n > 0
  BY <1>1 DEF TotalWork
<1>4. i \in 1..n
  <2>1. cal.before[1] = 0 /\ 1 \in 1..n
    BY <1>1, <1>3, Fields
  <2> QED BY <2>1, <1>1, <1>2
<1>5. cal.before[i] < w
  BY <1>2, <1>4
<1>6. w <= Full(i)
  <2>1. CASE i = n
    BY <2>1, <1>1, <1>3 DEF TotalWork
  <2>2. CASE i < n
    <3>1. i + 1 \in 1..n
      BY <2>2, <1>1, <1>4
    <3>2. cal.before[i + 1] = Full(i)
      BY <2>2, <1>4, NextBefore
    <3>3. ~(cal.before[i + 1] < w) /\ cal.before[i + 1] \in Int
      BY <3>1, <1>1, <1>2, <1>4
    <3> QED BY <3>1, <3>2, <3>3
  <2> QED BY <2>1, <2>2, <1>1, <1>4
<1>7. f \in Int /\ cal.starts[i] < f /\ f <= cal.finishes[i] /\ cal.starts[i] <= f
  <2>1. /\ cal.starts[i] \in Int /\ cal.finishes[i] \in Int /\ cal.before[i] \in Int
        /\ w <= cal.before[i] + cal.finishes[i] - cal.starts[i]
    BY <1>1, <1>4, <1>6
  <2> QED BY <1>5, <2>1
<1>8. FinishingAt(cal, f)
  BY <1>1, <1>4, <1>7 DEF FinishingAt
<1>9. WorkUntil(cal, f) = cal.before[i] + f - cal.starts[i]
  BY <1>4, <1>7, WorkInside
<1> QED BY <1>1, <1>4, <1>7, <1>8, <1>9

(* add_working ends after exactly the duration asked of it, at a second at  *)
(* which work can finish, and answers None only when the calendar has less  *)
(* work left than that.                                                     *)
THEOREM AddWorkingIsExact ==
    ASSUME NEW cal, Indexed(cal), NEW t \in Int, NEW d \in Nat \ {0}
    PROVE  LET f == AddWorking(cal, t, d) IN
           IF f = None THEN WorkUntil(cal, t) + d > TotalWork(cal)
           ELSE /\ f \in Int /\ t < f /\ FinishingAt(cal, f)
                /\ WorkUntil(cal, f) = WorkUntil(cal, t) + d
<1> DEFINE o == NextWorking(cal, t)
           w == WorkUntil(cal, t) + d
           i == Before(cal.before, w)
           f == cal.starts[i] + w - cal.before[i]
<1>1. WorkUntil(cal, t) \in Nat
  BY WorkIsMonotone
<1>2. CASE o = None
  <2>1. AddWorking(cal, t, d) = None
    BY <1>2 DEF AddWorking
  <2>2. WorkUntil(cal, t) = TotalWork(cal)
    BY <1>2, WorkAtNext
  <2> QED BY <1>1, <2>1, <2>2
<1>3. CASE o # None
  <2>1. WorkUntil(cal, o) = WorkUntil(cal, t)
    BY <1>3, WorkAtNext
  <2>2. AddWorking(cal, t, d) = IF w > TotalWork(cal) THEN None ELSE f
    BY <1>3, <2>1 DEF AddWorking
  <2>3. CASE w > TotalWork(cal)
    BY <2>2, <2>3
  <2>4. CASE ~(w > TotalWork(cal))
    <3>1. TotalWork(cal) \in Int
      <4>1. Len(cal.starts) \in Nat
            /\ \A j \in 1..Len(cal.starts) : /\ cal.starts[j] \in Int /\ cal.finishes[j] \in Int
                                             /\ cal.before[j] \in Int
        BY Fields
      <4> QED BY <4>1 DEF TotalWork
    <3>2. w \in Nat \ {0} /\ w <= TotalWork(cal)
      BY <1>1, <2>4, <3>1
    <3>3. f \in Int /\ FinishingAt(cal, f) /\ WorkUntil(cal, f) = w
      BY <3>2, FinishOfWork
    <3>4. ~(f <= t)
      <4>1. f <= t => WorkUntil(cal, f) <= WorkUntil(cal, t)
        BY <3>3, WorkIsMonotone
      <4> QED BY <4>1, <3>3, <1>1
    <3> QED BY <2>2, <2>4, <3>3, <3>4, NoneAssumption
  <2> QED BY <2>3, <2>4
<1> QED BY <1>2, <1>3

----------------------------------------------------------------------------
(* Taking work away.                                                       *)

(* As much work lies before a coordinate as before the last finish up to    *)
(* it.                                                                      *)
LEMMA WorkAtPrev ==
    ASSUME NEW cal, Indexed(cal), NEW t \in Int
    PROVE  LET prev == PrevWorking(cal, t) IN
           IF prev = None THEN WorkUntil(cal, t) = 0
           ELSE prev \in Int /\ WorkUntil(cal, prev) = WorkUntil(cal, t)
<1> DEFINE n == Len(cal.starts)
           k == Before(cal.starts, t)
           m == AtOrBefore(cal.starts, t)
           Full(j) == cal.before[j] + cal.finishes[j] - cal.starts[j]
<1>1. n \in Nat /\ \A j \in 1..n : /\ cal.starts[j] \in Int /\ cal.finishes[j] \in Int
                                   /\ cal.before[j] \in Int
                                   /\ cal.starts[j] < cal.finishes[j]
  BY Fields
<1>2. k \in 0..n /\ \A j \in 1..n : cal.starts[j] < t <=> j <= k
  BY Fields, BisectLeft
<1>3. m \in 0..n /\ \A j \in 1..n : cal.starts[j] <= t <=> j <= m
  BY Fields, BisectRight
<1>4. PrevWorking(cal, t) = IF k = 0 THEN None ELSE Min({t, cal.finishes[k]})
  BY DEF PrevWorking
<1>5. /\ m = 0 => WorkUntil(cal, t) = 0
      /\ m > 0 => WorkUntil(cal, t) = Done(cal.before[m], cal.starts[m], cal.finishes[m], t)
  BY WorkAt DEF Done
<1> HIDE DEF k, m
<1>6. CASE k = m
  <2>1. CASE k = 0
    BY <1>4, <1>5, <1>6, <2>1
  <2>2. CASE k > 0
    <3>1. k \in 1..n /\ cal.starts[k] < t
      BY <1>1, <1>2, <2>2
    <3>2. cal.starts[k] \in Int /\ cal.finishes[k] \in Int /\ cal.before[k] \in Int
          /\ cal.starts[k] < cal.finishes[k]
      BY <1>1, <3>1
    <3>3. CASE t <= cal.finishes[k]
      BY <1>4, <2>2, <3>2, <3>3, MinMaxOfTwo, NoneAssumption
    <3>4. CASE ~(t <= cal.finishes[k])
      <4>1. PrevWorking(cal, t) = cal.finishes[k] /\ cal.finishes[k] # None
        BY <1>4, <2>2, <3>2, <3>4, MinMaxOfTwo, NoneAssumption
      <4>2. WorkUntil(cal, t) = Full(k)
        BY <1>5, <1>6, <2>2, <3>4 DEF Done
      <4>3. cal.starts[k] <= cal.finishes[k] /\ cal.finishes[k] <= cal.finishes[k]
        BY <3>2
      <4>4. WorkUntil(cal, cal.finishes[k]) = Full(k)
        BY <3>1, <3>2, <4>3, WorkInside
      <4> QED BY <3>2, <4>1, <4>2, <4>4
    <3> QED BY <3>3, <3>4
  <2> QED BY <1>2, <2>1, <2>2
<1>7. CASE k # m
  <2>1. m = k + 1 /\ m \in 1..n /\ cal.starts[m] = t
    <3>1. k < m
      <4>1. CASE k = 0
        BY <4>1, <1>3, <1>7
      <4>2. CASE k > 0
        <5>1. k \in 1..n /\ cal.starts[k] < t /\ cal.starts[k] \in Int
          BY <4>2, <1>1, <1>2
        <5> QED BY <5>1, <1>2, <1>3, <1>7
      <4> QED BY <4>1, <4>2, <1>2
    <3>2. m \in 1..n /\ k + 1 \in 1..n
      BY <3>1, <1>1, <1>2, <1>3
    <3>3. cal.starts[m] <= t /\ ~(cal.starts[m] < t) /\ cal.starts[m] \in Int
      BY <3>1, <3>2, <1>1, <1>2, <1>3
    <3>4. ~(cal.starts[k + 1] < t)
      BY <3>2, <1>2
    <3>5. k + 1 < m => cal.starts[k + 1] < cal.starts[m]
      <4>1. Increasing(cal.starts)
        BY Fields
      <4> QED BY ONLY <3>2, <4>1, <1>1 DEF Increasing
    <3> QED BY <3>1, <3>2, <3>3, <3>4, <3>5, <1>2, <1>3
  <2>2. WorkUntil(cal, t) = cal.before[m]
    <3>1. /\ cal.starts[m] <= t /\ t <= cal.finishes[m]
          /\ cal.before[m] \in Int
      BY <2>1, <1>1
    <3>2. WorkUntil(cal, t) = cal.before[m] + t - cal.starts[m]
      BY <2>1, <3>1, WorkInside
    <3> QED BY <2>1, <3>1, <3>2
  <2>3. CASE k = 0
    BY <1>4, <2>1, <2>2, <2>3, <1>1, Fields
  <2>4. CASE k > 0
    <3>1. k \in 1..n /\ k < n
      BY <2>1, <2>4, <1>1, <1>2
    <3>2. cal.starts[k] \in Int /\ cal.finishes[k] \in Int /\ cal.before[k] \in Int
          /\ cal.starts[k] <= cal.finishes[k] /\ cal.finishes[k] <= cal.finishes[k]
      BY <1>1, <3>1
    <3>3. cal.before[m] = Full(k)
      BY <2>1, <3>1, NextBefore
    <3>4. cal.finishes[k] < cal.starts[m]
      <4>1. \A i, j \in 1..n : i < j => cal.finishes[i] < cal.starts[j]
        BY Fields
      <4>2. k \in 1..n /\ m \in 1..n /\ k < m
        BY <2>1, <3>1, <1>1
      <4> QED BY ONLY <4>1, <4>2
    <3>5. PrevWorking(cal, t) = cal.finishes[k] /\ cal.finishes[k] # None
      <4>1. ~(t <= cal.finishes[k])
        BY <2>1, <3>2, <3>4
      <4>2. PrevWorking(cal, t) = Min({t, cal.finishes[k]})
        BY <1>4, <2>4
      <4> QED BY <3>2, <4>1, <4>2, MinMaxOfTwo, NoneAssumption
    <3>6. WorkUntil(cal, cal.finishes[k]) = Full(k)
      BY <3>1, <3>2, WorkInside
    <3> QED BY <2>2, <3>2, <3>3, <3>5, <3>6
  <2> QED BY <2>3, <2>4, <1>2
<1> QED BY <1>6, <1>7

(* No coordinate has more work before it than there is.                     *)
LEMMA WorkIsAtMostTotal ==
    ASSUME NEW cal, Indexed(cal), NEW t \in Int
    PROVE  TotalWork(cal) \in Int /\ WorkUntil(cal, t) <= TotalWork(cal)
<1> DEFINE n == Len(cal.starts)
           k == AtOrBefore(cal.starts, t)
           late == IF t <= cal.finishes[n] THEN cal.finishes[n] ELSE t
<1>1. n \in Nat /\ \A j \in 1..n : /\ cal.starts[j] \in Int /\ cal.finishes[j] \in Int
                                   /\ cal.before[j] \in Int
                                   /\ cal.starts[j] < cal.finishes[j]
  BY Fields
<1>2. CASE n = 0
  BY <1>2, WorkAt DEF TotalWork
<1>3. CASE n > 0
  <2>1. n \in 1..n /\ TotalWork(cal) = cal.before[n] + cal.finishes[n] - cal.starts[n]
    BY <1>1, <1>3 DEF TotalWork
  <2>2. cal.starts[n] \in Int /\ cal.finishes[n] \in Int /\ cal.before[n] \in Int
        /\ cal.starts[n] <= cal.finishes[n] /\ cal.finishes[n] <= cal.finishes[n]
    BY <1>1, <2>1
  <2>3. CASE t <= cal.finishes[n]
    <3>1. WorkUntil(cal, cal.finishes[n]) = TotalWork(cal)
      BY <2>1, <2>2, WorkInside
    <3> QED BY <2>1, <2>2, <2>3, <3>1, WorkIsMonotone
  <2>4. CASE ~(t <= cal.finishes[n])
    <3>1. k \in 0..n /\ \A j \in 1..n : cal.starts[j] <= t <=> j <= k
      BY Fields, BisectRight
    <3>2. cal.starts[n] <= t
      BY <2>2, <2>4
    <3>3. k = n
      BY <2>1, <3>1, <3>2, <1>1
    <3>4. WorkUntil(cal, t) = TotalWork(cal)
      BY <2>1, <2>4, <3>3, <1>3, WorkAt
    <3> QED BY <2>1, <2>2, <3>4
  <2> QED BY <2>3, <2>4
<1> QED BY <1>1, <1>2, <1>3

(* Where w seconds of work are done and more are left, work can start.      *)
LEMMA StartOfWork ==
    ASSUME NEW cal, Indexed(cal), NEW w \in Nat, w < TotalWork(cal)
    PROVE  LET i == AtOrBefore(cal.before, w)
               s == cal.starts[i] + w - cal.before[i]
           IN  s \in Int /\ WorkingAt(cal, s) /\ WorkUntil(cal, s) = w
<1> DEFINE n == Len(cal.starts)
           i == AtOrBefore(cal.before, w)
           s == cal.starts[i] + w - cal.before[i]
           Full(j) == cal.before[j] + cal.finishes[j] - cal.starts[j]
<1>1. n \in Nat /\ DOMAIN cal.starts = 1..n
      /\ \A j \in 1..n : /\ cal.starts[j] \in Int /\ cal.finishes[j] \in Int
                         /\ cal.before[j] \in Int
                         /\ cal.starts[j] < cal.finishes[j]
  BY Fields
<1>2. i \in 0..n /\ \A j \in 1..n : cal.before[j] <= w <=> j <= i
  <2>1. cal.before \in Seq(Int) /\ Increasing(cal.before) /\ Len(cal.before) = n /\ w \in Int
    BY Fields
  <2>2. /\ i \in 0..Len(cal.before)
        /\ \A j \in 1..Len(cal.before) : cal.before[j] <= w <=> j <= i
    BY <2>1, BisectRight
  <2> QED BY <2>1, <2>2
<1>3. n > 0
  BY <1>1 DEF TotalWork
<1>4. i \in 1..n
  <2>1. cal.before[1] = 0 /\ 1 \in 1..n
    BY <1>1, <1>3, Fields
  <2> QED BY <2>1, <1>1, <1>2
<1>5. cal.before[i] <= w
  BY <1>2, <1>4
<1>6. w < Full(i)
  <2>1. CASE i = n
    BY <2>1, <1>1, <1>3 DEF TotalWork
  <2>2. CASE i < n
    <3>1. i + 1 \in 1..n
      BY <2>2, <1>1, <1>4
    <3>2. cal.before[i + 1] = Full(i)
      BY <2>2, <1>4, NextBefore
    <3>3. ~(cal.before[i + 1] <= w) /\ cal.before[i + 1] \in Int
      BY <3>1, <1>1, <1>2, <1>4
    <3> QED BY <3>1, <3>2, <3>3
  <2> QED BY <2>1, <2>2, <1>1, <1>4
<1>7. s \in Int /\ cal.starts[i] <= s /\ s < cal.finishes[i] /\ s <= cal.finishes[i]
  <2>1. /\ cal.starts[i] \in Int /\ cal.finishes[i] \in Int /\ cal.before[i] \in Int
        /\ w < cal.before[i] + cal.finishes[i] - cal.starts[i]
    BY <1>1, <1>4, <1>6
  <2> QED BY <1>5, <2>1
<1>8. WorkingAt(cal, s)
  BY <1>1, <1>4, <1>7 DEF WorkingAt
<1>9. WorkUntil(cal, s) = cal.before[i] + s - cal.starts[i]
  BY <1>4, <1>7, WorkInside
<1> QED BY <1>1, <1>4, <1>7, <1>8, <1>9

(* sub_working starts exactly the duration before the coordinate asked, at  *)
(* a second at which work can start, and answers None only when the         *)
(* calendar has less work than that before it.                              *)
THEOREM SubWorkingIsExact ==
    ASSUME NEW cal, Indexed(cal), NEW t \in Int, NEW d \in Nat \ {0}
    PROVE  LET s == SubWorking(cal, t, d) IN
           IF s = None THEN WorkUntil(cal, t) < d
           ELSE /\ s \in Int /\ s < t /\ WorkingAt(cal, s)
                /\ WorkUntil(cal, s) = WorkUntil(cal, t) - d
<1> DEFINE o == PrevWorking(cal, t)
           w == WorkUntil(cal, t) - d
           i == AtOrBefore(cal.before, w)
           s == cal.starts[i] + w - cal.before[i]
<1>1. WorkUntil(cal, t) \in Nat
  BY WorkIsMonotone
<1>2. CASE o = None
  <2>1. SubWorking(cal, t, d) = None
    BY <1>2 DEF SubWorking
  <2>2. WorkUntil(cal, t) = 0
    BY <1>2, WorkAtPrev
  <2> QED BY <2>1, <2>2
<1>3. CASE o # None
  <2>1. WorkUntil(cal, o) = WorkUntil(cal, t)
    BY <1>3, WorkAtPrev
  <2>2. SubWorking(cal, t, d) = IF w < 0 THEN None ELSE s
    BY <1>3, <2>1 DEF SubWorking
  <2>3. CASE w < 0
    BY <1>1, <2>2, <2>3
  <2>4. CASE ~(w < 0)
    <3>1. w \in Nat /\ w < TotalWork(cal)
      BY <1>1, <2>4, WorkIsAtMostTotal
    <3>2. s \in Int /\ WorkingAt(cal, s) /\ WorkUntil(cal, s) = w
      BY <3>1, StartOfWork
    <3>3. ~(t <= s)
      <4>1. t <= s => WorkUntil(cal, t) <= WorkUntil(cal, s)
        BY <3>2, WorkIsMonotone
      <4> QED BY <4>1, <3>2, <1>1
    <3> QED BY <2>2, <2>4, <3>2, <3>3, NoneAssumption
  <2> QED BY <2>3, <2>4
<1> QED BY <1>2, <1>3

----------------------------------------------------------------------------
(* Placing a span.                                                         *)

(* The second before one at which work can finish is worked, so a later     *)
(* finish has strictly more work done before it.                            *)
LEMMA LaterFinishMoreWork ==
    ASSUME NEW cal, Indexed(cal), NEW f \in Int, NEW g \in Int, f < g, FinishingAt(cal, g)
    PROVE  WorkUntil(cal, f) < WorkUntil(cal, g)
<1> DEFINE n == Len(cal.starts)
<1>1. DOMAIN cal.starts = 1..n
      /\ \A j \in 1..n : cal.starts[j] \in Int /\ cal.finishes[j] \in Int /\ cal.before[j] \in Int
  BY Fields
<1>2. PICK j \in 1..n : cal.starts[j] < g /\ g <= cal.finishes[j]
  BY <1>1 DEF FinishingAt
<1> DEFINE p == g - 1
<1>3. /\ p \in Int /\ f <= p /\ cal.starts[j] <= p /\ p <= cal.finishes[j]
      /\ cal.starts[j] <= g
  BY <1>1, <1>2
<1>4. WorkUntil(cal, g) = cal.before[j] + g - cal.starts[j]
  BY <1>2, <1>3, WorkInside
<1>5. WorkUntil(cal, p) = cal.before[j] + p - cal.starts[j]
  BY <1>3, WorkInside
<1>6. WorkUntil(cal, p) < WorkUntil(cal, g)
  BY <1>1, <1>4, <1>5
<1>7. /\ WorkUntil(cal, f) <= WorkUntil(cal, p)
      /\ WorkUntil(cal, f) \in Nat /\ WorkUntil(cal, p) \in Nat
  BY <1>3, WorkIsMonotone
<1>8. WorkUntil(cal, g) \in Nat
  BY WorkIsMonotone
<1> QED BY <1>6, <1>7, <1>8

(* Two finishes with the same work before them are one.                     *)
LEMMA SameWorkSameFinish ==
    ASSUME NEW cal, Indexed(cal), NEW f \in Int, NEW g \in Int,
           FinishingAt(cal, f), FinishingAt(cal, g), WorkUntil(cal, f) = WorkUntil(cal, g)
    PROVE  f = g
<1>1. WorkUntil(cal, f) \in Nat
  BY WorkIsMonotone
<1>2. ~(f < g)
  BY <1>1, LaterFinishMoreWork
<1>3. ~(g < f)
  BY <1>1, LaterFinishMoreWork
<1> QED BY <1>2, <1>3

(* Work between a start and any later coordinate is more than none.          *)
LEMMA LaterThanStartMoreWork ==
    ASSUME NEW cal, Indexed(cal), NEW s \in Int, NEW t \in Int, s < t, WorkingAt(cal, s)
    PROVE  WorkUntil(cal, s) < WorkUntil(cal, t)
<1> DEFINE n == Len(cal.starts)
<1>1. DOMAIN cal.starts = 1..n
      /\ \A j \in 1..n : cal.starts[j] \in Int /\ cal.finishes[j] \in Int /\ cal.before[j] \in Int
  BY Fields
<1>2. PICK j \in 1..n : cal.starts[j] <= s /\ s < cal.finishes[j]
  BY <1>1 DEF WorkingAt
<1>3. s + 1 \in Int /\ cal.starts[j] <= s + 1 /\ s + 1 <= cal.finishes[j] /\ s + 1 <= t
  BY <1>1, <1>2
<1>4. /\ WorkUntil(cal, s) = cal.before[j] + s - cal.starts[j]
      /\ WorkUntil(cal, s + 1) = cal.before[j] + (s + 1) - cal.starts[j]
  <2>1. cal.starts[j] <= s /\ s <= cal.finishes[j]
    BY <1>1, <1>2
  <2>2. WorkUntil(cal, s) = cal.before[j] + s - cal.starts[j]
    BY <2>1, WorkInside
  <2>3. WorkUntil(cal, s + 1) = cal.before[j] + (s + 1) - cal.starts[j]
    BY <1>3, WorkInside
  <2> QED BY <2>2, <2>3
<1>5. /\ WorkUntil(cal, s + 1) <= WorkUntil(cal, t)
      /\ WorkUntil(cal, s + 1) \in Nat /\ WorkUntil(cal, t) \in Nat
  BY <1>3, WorkIsMonotone
<1> QED BY <1>1, <1>4, <1>5

(* Theorem.  FirstFinish answers the first coordinate at or after its bound  *)
(* at which work can finish, or None when there is none (arithmetic.py).     *)
THEOREM FirstFinishIsFirst ==
    ASSUME NEW cal, Indexed(cal), NEW bound \in Int
    PROVE  LET reach == FirstFinish(cal, bound) IN
           IF reach = None THEN \A u \in Int : FinishingAt(cal, u) => u < bound
           ELSE /\ reach \in Int /\ bound <= reach /\ FinishingAt(cal, reach)
                /\ \A u \in Int : FinishingAt(cal, u) /\ bound <= u => reach <= u
<1> DEFINE n == Len(cal.starts)
           i == AtOrBefore(cal.starts, bound)
           k == Before(cal.starts, bound)
           reach == FirstFinish(cal, bound)
<1>1. /\ n \in Nat /\ DOMAIN cal.starts = 1..n
      /\ \A j \in 1..n : /\ cal.starts[j] \in Int /\ cal.finishes[j] \in Int
                         /\ cal.starts[j] < cal.finishes[j]
      /\ \A j, m \in 1..n : j < m => cal.finishes[j] < cal.starts[m]
  BY Fields
<1>2. i \in 0..n /\ \A j \in 1..n : cal.starts[j] <= bound <=> j <= i
  BY Fields, BisectRight
<1>3. k \in 0..n /\ \A j \in 1..n : cal.starts[j] < bound <=> j <= k
  BY Fields, BisectLeft
<1>4. CASE i > 0 /\ cal.starts[i] < bound /\ bound <= cal.finishes[i]
  <2>1. reach = bound
    BY <1>4 DEF FirstFinish
  <2>2. FinishingAt(cal, bound)
    BY <1>1, <1>2, <1>4 DEF FinishingAt
  <2>3. bound # None
    BY NoneAssumption
  <2> QED BY <2>1, <2>2, <2>3
<1>5. CASE ~(i > 0 /\ cal.starts[i] < bound /\ bound <= cal.finishes[i])
  <2>1. reach = IF k + 1 \in 1..n THEN cal.starts[k + 1] + 1 ELSE None
    BY <1>1, <1>5 DEF FirstFinish
  <2> HIDE DEF i, k, reach, n
  <2>2. ASSUME NEW u \in Int, NEW m \in 1..n, cal.starts[m] < u, u <= cal.finishes[m], bound <= u
        PROVE  k + 1 <= m
    <3> SUFFICES ASSUME m <= k PROVE FALSE
      BY <1>1, <1>3
    <3>1. cal.starts[m] < bound /\ bound <= cal.finishes[m]
      BY <1>1, <1>3, <2>2
    <3>2. m <= i
      BY <1>1, <1>2, <3>1
    <3>3. ~(m < i)
      <4> SUFFICES ASSUME m < i PROVE FALSE
        OBVIOUS
      <4>1. i \in 1..n /\ cal.starts[i] <= bound
        BY <1>1, <1>2
      <4>2. cal.finishes[m] < cal.starts[i]
        BY <1>1, <4>1
      <4> QED BY <1>1, <3>1, <4>1, <4>2
    <3>4. i = m
      BY <1>1, <1>2, <3>2, <3>3
    <3> QED BY <1>5, <3>1, <3>4
  <2>3. CASE k + 1 \in 1..n
    <3>1. reach = cal.starts[k + 1] + 1 /\ cal.starts[k + 1] \in Int
      BY <1>1, <2>1, <2>3
    <3>2. ~(cal.starts[k + 1] < bound)
      BY <1>1, <1>3, <2>3
    <3>3. FinishingAt(cal, reach)
      BY <1>1, <2>3, <3>1 DEF FinishingAt
    <3>4. ASSUME NEW u \in Int, FinishingAt(cal, u), bound <= u
          PROVE  reach <= u
      <4>1. PICK m \in 1..n : cal.starts[m] < u /\ u <= cal.finishes[m]
        BY <1>1, <3>4 DEF FinishingAt
      <4>2. k + 1 <= m
        BY <2>2, <3>4, <4>1
      <4>3. cal.starts[k + 1] <= cal.starts[m]
        <5>1. k + 1 < m => cal.finishes[k + 1] < cal.starts[m]
          BY <1>1, <2>3
        <5>2. k + 1 = m \/ k + 1 < m
          BY <1>1, <1>3, <2>3, <4>2
        <5>3. /\ cal.starts[k + 1] \in Int /\ cal.finishes[k + 1] \in Int /\ cal.starts[m] \in Int
              /\ cal.starts[k + 1] < cal.finishes[k + 1]
          BY <1>1, <2>3
        <5> QED BY <5>1, <5>2, <5>3
      <4> QED BY <1>1, <2>3, <3>1, <4>1, <4>3
    <3> QED BY <3>1, <3>2, <3>3, <3>4, NoneAssumption DEF reach
  <2>4. CASE k + 1 \notin 1..n
    <3>1. reach = None
      BY <2>1, <2>4
    <3>2. ASSUME NEW u \in Int, FinishingAt(cal, u)
          PROVE  u < bound
      <4> SUFFICES ASSUME bound <= u PROVE FALSE
        OBVIOUS
      <4>1. PICK m \in 1..n : cal.starts[m] < u /\ u <= cal.finishes[m]
        BY <1>1, <3>2 DEF FinishingAt
      <4>2. k + 1 <= m
        BY <2>2, <4>1
      <4> QED BY <1>1, <1>3, <2>4, <4>2
    <3> QED BY <3>1, <3>2 DEF reach
  <2> QED BY <2>3, <2>4 DEF reach
<1> QED BY <1>4, <1>5

(* A span worked from end to end: it starts where work can start, finishes  *)
(* where work can finish, and the work between is the duration.             *)
Worked(cal, span, d) ==
    /\ span = <<span[1], span[2]>> /\ span[1] \in Int /\ span[2] \in Int
    /\ span[1] < span[2]
    /\ WorkingAt(cal, span[1]) /\ FinishingAt(cal, span[2])
    /\ WorkUntil(cal, span[2]) = WorkUntil(cal, span[1]) + d

(* A span placed from a start works its duration.                           *)
LEMMA SpanFromIsWorked ==
    ASSUME NEW cal, Indexed(cal), NEW s \in Int, WorkingAt(cal, s), NEW d \in Nat \ {0},
           SpanFrom(cal, s, d) # None
    PROVE  LET span == SpanFrom(cal, s, d) IN span[1] = s /\ Worked(cal, span, d)
<1> DEFINE f == AddWorking(cal, s, d)
<1>1. SpanFrom(cal, s, d) = <<s, f>> /\ f # None
  BY DEF SpanFrom
<1>2. f \in Int /\ s < f /\ FinishingAt(cal, f) /\ WorkUntil(cal, f) = WorkUntil(cal, s) + d
  BY <1>1, AddWorkingIsExact
<1> HIDE DEF f
<1> QED BY <1>1, <1>2 DEF Worked

(* A span worked from a start on begins there, as it lies.                   *)
LEMMA NextWorkingOfStart ==
    ASSUME NEW cal, Indexed(cal), NEW s \in Int, WorkingAt(cal, s)
    PROVE  NextWorking(cal, s) = s
<1> DEFINE next == NextWorking(cal, s)
<1>1. next # None
  BY NextWorkingIsFirst
<1>2. next \in Int /\ s <= next /\ next <= s
  BY <1>1, NextWorkingIsFirst
<1> HIDE DEF next
<1> QED BY <1>2 DEF next

(* What the forward pass's placement chooses between: the span from the      *)
(* first start, or, when that one ends too soon, the one that ends at the    *)
(* first finish there may be.                                                *)
Chosen(cal, startBound, finishBound, d, horizon) ==
    LET lower == Max({0, startBound})
        span == EarliestSpan(cal, startBound, finishBound, d, horizon)
        first == SpanFrom(cal, NextWorking(cal, lower), d)
        reach == FirstFinish(cal, finishBound)
    IN  /\ lower \in Int /\ 0 <= lower /\ startBound <= lower
        /\ lower = IF 0 <= startBound THEN startBound ELSE 0
        /\ Worked(cal, first, d) /\ first[1] = NextWorking(cal, lower) /\ lower <= first[1]
        /\ Worked(cal, span, d) /\ span[2] <= horizon
        /\ first[2] >= finishBound => span = first
        /\ ~(first[2] >= finishBound) => reach # None /\ span[2] = reach /\ lower <= span[1]

(* The forward pass's placement is one of the two.                           *)
LEMMA EarliestSpanChoice ==
    ASSUME NEW cal, Indexed(cal), NEW startBound \in Int, NEW finishBound \in Int,
           NEW d \in Nat \ {0}, NEW horizon \in Int,
           EarliestSpan(cal, startBound, finishBound, d, horizon) # None
    PROVE  Chosen(cal, startBound, finishBound, d, horizon)
<1> DEFINE lower == Max({0, startBound})
           s == NextWorking(cal, lower)
           first == SpanFrom(cal, s, d)
           reach == FirstFinish(cal, finishBound)
           start == SubWorking(cal, reach, d)
           again == SpanFrom(cal, NextWorking(cal, start), d)
           span == EarliestSpan(cal, startBound, finishBound, d, horizon)
<1>1. /\ lower \in Int /\ 0 <= lower /\ startBound <= lower
      /\ lower = IF 0 <= startBound THEN startBound ELSE 0
  <2>1. 0 \in Int
    OBVIOUS
  <2>2. lower = IF 0 >= startBound THEN 0 ELSE startBound
    BY <2>1, MinMaxOfTwo
  <2> QED BY <2>2
<1>2. first # None
  BY DEF EarliestSpan
<1>3. s # None
  BY <1>2 DEF SpanFrom
<1>4. s \in Int /\ lower <= s /\ WorkingAt(cal, s)
  BY <1>1, <1>3, NextWorkingIsFirst
<1>5. first[1] = s /\ Worked(cal, first, d)
  BY <1>2, <1>4, SpanFromIsWorked
<1>6. CASE first[2] >= finishBound
  <2>1. span = first /\ first[2] <= horizon
    BY <1>2, <1>6 DEF EarliestSpan, Within
  <2> HIDE DEF first, span, s, lower
  <2> QED BY <1>1, <1>4, <1>5, <1>6, <2>1 DEF span, first, s, lower, Chosen
<1>7. CASE ~(first[2] >= finishBound)
  <2>1. /\ reach # None /\ start # None /\ ~(start < lower)
        /\ span = Within(again, horizon)
    BY <1>2, <1>7 DEF EarliestSpan
  <2>2. again # None /\ span = again /\ again[2] <= horizon
    BY <2>1 DEF Within
  <2>3. reach \in Int /\ finishBound <= reach /\ FinishingAt(cal, reach)
    BY <2>1, FirstFinishIsFirst
  <2>4. /\ start \in Int /\ WorkingAt(cal, start)
        /\ WorkUntil(cal, start) = WorkUntil(cal, reach) - d
    BY <2>1, <2>3, SubWorkingIsExact
  <2>5. NextWorking(cal, start) = start
    <3> HIDE DEF start
    <3> QED BY <2>4, NextWorkingOfStart
  <2>6. again[1] = start /\ Worked(cal, again, d)
    BY <2>2, <2>4, <2>5, SpanFromIsWorked
  <2>7. again[2] = reach
    <3>1. /\ again[2] \in Int /\ FinishingAt(cal, again[2])
          /\ WorkUntil(cal, again[2]) = WorkUntil(cal, start) + d
      BY <2>6 DEF Worked
    <3>2. WorkUntil(cal, reach) \in Nat
      BY <2>3, WorkIsMonotone
    <3> HIDE DEF again, start, reach
    <3>3. WorkUntil(cal, again[2]) = WorkUntil(cal, reach)
      BY <2>4, <3>1, <3>2
    <3> QED BY <2>3, <3>1, <3>3, SameWorkSameFinish
  <2>8. lower <= span[1]
    <3> HIDE DEF again, start, lower, span
    <3> QED BY <1>1, <2>1, <2>2, <2>4, <2>6
  <2> HIDE DEF span, again, start, reach, lower, first, s
  <2> QED BY <1>1, <1>4, <1>5, <1>7, <2>1, <2>2, <2>6, <2>7, <2>8
           DEF span, first, s, lower, reach, Chosen
<1> QED BY <1>6, <1>7

(* Theorem.  The forward pass's placement respects both its bounds and the   *)
(* horizon, and works exactly the duration.                                  *)
THEOREM EarliestSpanFits ==
    ASSUME NEW cal, Indexed(cal), NEW startBound \in Int, NEW finishBound \in Int,
           NEW d \in Nat \ {0}, NEW horizon \in Int,
           EarliestSpan(cal, startBound, finishBound, d, horizon) # None
    PROVE  LET span == EarliestSpan(cal, startBound, finishBound, d, horizon) IN
           /\ Worked(cal, span, d)
           /\ 0 <= span[1] /\ startBound <= span[1]
           /\ finishBound <= span[2] /\ span[2] <= horizon
<1> DEFINE lower == Max({0, startBound})
           span == EarliestSpan(cal, startBound, finishBound, d, horizon)
           first == SpanFrom(cal, NextWorking(cal, lower), d)
           reach == FirstFinish(cal, finishBound)
<1>0. Chosen(cal, startBound, finishBound, d, horizon)
  BY EarliestSpanChoice
<1>1. /\ lower \in Int /\ 0 <= lower /\ startBound <= lower
      /\ Worked(cal, first, d) /\ lower <= first[1]
      /\ Worked(cal, span, d) /\ span[2] <= horizon
      /\ first[2] >= finishBound => span = first
      /\ ~(first[2] >= finishBound) => reach # None /\ span[2] = reach /\ lower <= span[1]
  BY Zenon, <1>0 DEF Chosen
<1>2. reach # None => reach \in Int /\ finishBound <= reach
  BY FirstFinishIsFirst
<1> HIDE DEF lower, span, first, reach
<1>3. first[1] \in Int /\ first[2] \in Int /\ span[1] \in Int /\ span[2] \in Int
  BY <1>1 DEF Worked
<1> QED BY <1>1, <1>2, <1>3 DEF span

(* Theorem.  No span that works the duration within the bounds and the       *)
(* horizon begins, or ends, before the one the forward pass places; and when *)
(* there is one it places one (arithmetic.py, earliest_span).                *)
THEOREM EarliestSpanIsFirst ==
    ASSUME NEW cal, Indexed(cal), NEW startBound \in Int, NEW finishBound \in Int,
           NEW d \in Nat \ {0}, NEW horizon \in Int,
           NEW other, Worked(cal, other, d), 0 <= other[1], startBound <= other[1],
           finishBound <= other[2], other[2] <= horizon
    PROVE  LET span == EarliestSpan(cal, startBound, finishBound, d, horizon) IN
           span # None /\ span[1] <= other[1] /\ span[2] <= other[2]
<1> DEFINE lower == Max({0, startBound})
           s == NextWorking(cal, lower)
           first == SpanFrom(cal, s, d)
           reach == FirstFinish(cal, finishBound)
           start == SubWorking(cal, reach, d)
           again == SpanFrom(cal, NextWorking(cal, start), d)
           span == EarliestSpan(cal, startBound, finishBound, d, horizon)
           W(t) == WorkUntil(cal, t)
<1>1. /\ other[1] \in Int /\ other[2] \in Int /\ WorkingAt(cal, other[1])
      /\ FinishingAt(cal, other[2]) /\ W(other[2]) = W(other[1]) + d
      /\ W(other[1]) \in Nat /\ W(other[2]) \in Nat
  BY WorkIsMonotone DEF Worked
<1>2. lower \in Int /\ lower <= other[1] /\ 0 <= lower
  <2>1. 0 \in Int
    OBVIOUS
  <2>2. lower = IF 0 >= startBound THEN 0 ELSE startBound
    BY <2>1, MinMaxOfTwo
  <2> QED BY <1>1, <2>2
<1>3. s # None /\ s \in Int /\ lower <= s /\ s <= other[1] /\ WorkingAt(cal, s)
  <2> HIDE DEF lower
  <2>1. s # None
    BY <1>1, <1>2, NextWorkingIsFirst
  <2> QED BY <1>1, <1>2, <2>1, NextWorkingIsFirst
<1> HIDE DEF s, lower, W
<1>4. W(s) \in Nat /\ W(s) <= W(other[1])
  BY <1>1, <1>3, WorkIsMonotone DEF W
<1>5. first # None
  <2>1. TotalWork(cal) \in Int /\ W(other[2]) <= TotalWork(cal)
    BY <1>1, WorkIsAtMostTotal DEF W
  <2>2. ~(W(s) + d > TotalWork(cal))
    BY <1>1, <1>4, <2>1
  <2>3. AddWorking(cal, s, d) # None /\ AddWorking(cal, s, d) \in Int
    BY <1>3, <2>2, AddWorkingIsExact DEF W
  <2> QED BY <1>3, <2>3, NoneAssumption DEF SpanFrom
<1>6. first[1] = s /\ Worked(cal, first, d)
  BY <1>3, <1>5, SpanFromIsWorked
<1>7. first[2] \in Int /\ W(first[2]) = W(s) + d /\ first[2] <= other[2]
  <2>1. first[2] \in Int /\ FinishingAt(cal, first[2]) /\ W(first[2]) = W(s) + d
    BY <1>6 DEF Worked, W
  <2>2. other[2] < first[2] => W(other[2]) < W(first[2])
    BY <1>1, <2>1, LaterFinishMoreWork DEF W
  <2>3. ~(W(other[2]) < W(first[2]))
    BY <1>1, <1>4, <2>1
  <2> QED BY <1>1, <2>1, <2>2, <2>3
<1>8. CASE first[2] >= finishBound
  <2>1. span = Within(first, horizon)
    BY <1>5, <1>8 DEF EarliestSpan, s, lower
  <2>2. first[2] <= horizon
    BY <1>1, <1>7
  <2> HIDE DEF first, span
  <2> QED BY <1>3, <1>5, <1>6, <1>7, <2>1, <2>2 DEF Within, span
<1>9. CASE ~(first[2] >= finishBound)
  <2>1. reach # None
    BY <1>1, FirstFinishIsFirst
  <2>2. /\ reach \in Int /\ finishBound <= reach /\ FinishingAt(cal, reach)
        /\ reach <= other[2]
    BY <1>1, <2>1, FirstFinishIsFirst
  <2> HIDE DEF first, reach
  <2>3. W(reach) \in Nat /\ W(first[2]) < W(reach) /\ W(reach) <= W(other[2])
    <3>1. first[2] < reach
      BY <1>7, <1>9, <2>2
    <3>2. W(first[2]) < W(reach)
      BY <1>7, <2>2, <3>1, LaterFinishMoreWork DEF W
    <3>3. W(reach) \in Nat /\ W(reach) <= W(other[2])
      BY <1>1, <2>2, WorkIsMonotone DEF W
    <3> QED BY <3>2, <3>3
  <2>4. start # None
    <3>1. ~(W(reach) < d)
      BY <1>4, <1>7, <2>3
    <3> QED BY <2>2, <3>1, SubWorkingIsExact DEF W
  <2>5. start \in Int /\ start < reach /\ WorkingAt(cal, start) /\ W(start) = W(reach) - d
    BY <2>2, <2>4, SubWorkingIsExact DEF W
  <2> HIDE DEF start
  <2>6. ~(start < lower)
    <3>1. ~(start <= s)
      <4> SUFFICES ASSUME start <= s PROVE FALSE
        OBVIOUS
      <4>1. W(start) <= W(s)
        BY <1>3, <2>5, WorkIsMonotone DEF W
      <4> QED BY <1>4, <1>7, <2>3, <2>5, <4>1
    <3> QED BY <1>2, <1>3, <2>5, <3>1
  <2>7. start <= other[1]
    <3>1. other[1] < start => W(other[1]) < W(start)
      BY <1>1, <2>5, LaterThanStartMoreWork DEF W
    <3>2. W(start) <= W(other[1])
      BY <1>1, <2>3, <2>5
    <3> QED BY <1>1, <2>3, <2>5, <3>1, <3>2
  <2>8. NextWorking(cal, start) = start
    BY <2>5, NextWorkingOfStart
  <2>9. again # None
    <3>1. W(start) + d = W(reach)
      BY <2>3, <2>5
    <3>2. TotalWork(cal) \in Int /\ W(reach) <= TotalWork(cal)
      BY <2>2, WorkIsAtMostTotal DEF W
    <3>3. AddWorking(cal, start, d) # None /\ AddWorking(cal, start, d) \in Int
      <4>1. ~(WorkUntil(cal, start) + d > TotalWork(cal))
        BY <2>3, <3>1, <3>2 DEF W
      <4> QED BY <2>5, <4>1, AddWorkingIsExact
    <3> QED BY <2>4, <2>5, <2>8, <3>3, NoneAssumption DEF SpanFrom
  <2>10. again[1] = start /\ Worked(cal, again, d)
    BY <2>5, <2>8, <2>9, SpanFromIsWorked
  <2>11. again[2] = reach
    <3>1. /\ again[2] \in Int /\ FinishingAt(cal, again[2])
          /\ WorkUntil(cal, again[2]) = WorkUntil(cal, start) + d
      BY <2>10 DEF Worked
    <3> HIDE DEF again
    <3>2. WorkUntil(cal, again[2]) = WorkUntil(cal, reach)
      BY <2>3, <2>5, <3>1 DEF W
    <3> QED BY <2>2, <3>1, <3>2, SameWorkSameFinish
  <2>12. span = Within(again, horizon)
    BY <1>5, <1>9, <2>1, <2>4, <2>6 DEF EarliestSpan, s, lower, first, reach, start
  <2> HIDE DEF again, span
  <2>13. span = again
    <3>1. again[2] <= horizon
      BY <1>1, <2>2, <2>11
    <3> QED BY <2>9, <2>12, <3>1 DEF Within
  <2> QED BY <2>2, <2>7, <2>9, <2>10, <2>11, <2>13 DEF span
<1> QED BY <1>8, <1>9

(* The backward pass's placement respects both its bounds and the floor,    *)
(* and works exactly the duration.                                          *)
THEOREM LatestSpanFits ==
    ASSUME NEW cal, Indexed(cal), NEW startBound \in Int, NEW finishBound \in Int,
           NEW d \in Nat \ {0}, NEW floor \in Int,
           LatestSpan(cal, startBound, finishBound, d, floor) # None
    PROVE  LET span == LatestSpan(cal, startBound, finishBound, d, floor) IN
           /\ Worked(cal, span, d)
           /\ span[1] <= startBound /\ span[2] <= finishBound
           /\ floor <= span[1]
<1> DEFINE finish == PrevWorking(cal, finishBound)
           start == SubWorking(cal, finish, d)
           s == PrevWorkingStart(cal, startBound)
           other == SpanFrom(cal, s, d)
           span == LatestSpan(cal, startBound, finishBound, d, floor)
<1>1. finish # None /\ start # None
  BY DEF LatestSpan
<1>2. finish \in Int /\ finish <= finishBound /\ FinishingAt(cal, finish)
  BY <1>1, PrevWorkingIsLast
<1>3. /\ start \in Int /\ start < finish /\ WorkingAt(cal, start)
      /\ WorkUntil(cal, start) = WorkUntil(cal, finish) - d
  BY <1>1, <1>2, SubWorkingIsExact
<1>4. WorkUntil(cal, finish) \in Nat
  BY <1>2, WorkIsMonotone
<1>5. span = NotBefore(IF start <= startBound THEN <<start, finish>> ELSE other, floor)
  BY <1>1 DEF LatestSpan
<1>6. CASE start <= startBound
  <2>1. span = <<start, finish>> /\ start >= floor
    BY <1>5, <1>6 DEF NotBefore
  <2> HIDE DEF span, start, finish
  <2>2. Worked(cal, span, d)
    BY <1>2, <1>3, <1>4, <2>1 DEF Worked
  <2> QED BY <1>2, <1>3, <1>6, <2>1, <2>2 DEF span
<1>7. CASE ~(start <= startBound)
  <2>1. other # None /\ span = other /\ other[1] >= floor
    BY <1>5, <1>7 DEF NotBefore
  <2>2. s # None
    BY <2>1 DEF SpanFrom
  <2>3. s \in Int /\ s <= startBound /\ WorkingAt(cal, s)
    BY <2>2, PrevWorkingStartIsLast
  <2>4. other[1] = s /\ Worked(cal, other, d)
    BY <2>1, <2>3, SpanFromIsWorked
  <2>5. /\ other[2] \in Int /\ FinishingAt(cal, other[2])
        /\ WorkUntil(cal, other[2]) = WorkUntil(cal, s) + d
    BY <2>4 DEF Worked
  <2> HIDE DEF span, other, start, s, finish
  <2>6. /\ WorkUntil(cal, s) \in Nat
        /\ WorkUntil(cal, start) \in Nat
        /\ WorkUntil(cal, s) <= WorkUntil(cal, start)
    <3>1. s <= start
      BY <1>3, <1>7, <2>3
    <3> QED BY <1>3, <2>3, <3>1, WorkIsMonotone
  <2>7. ~(finish < other[2])
    <3>1. finish < other[2] => WorkUntil(cal, finish) < WorkUntil(cal, other[2])
      BY <1>2, <2>5, LaterFinishMoreWork
    <3>2. WorkUntil(cal, other[2]) <= WorkUntil(cal, finish)
      BY <1>3, <1>4, <2>5, <2>6
    <3>3. WorkUntil(cal, other[2]) \in Nat
      BY <2>5, WorkIsMonotone
    <3> QED BY <1>4, <3>1, <3>2, <3>3
  <2>8. other[2] <= finishBound
    BY <1>2, <2>5, <2>7
  <2> QED BY <2>1, <2>3, <2>4, <2>8 DEF span
<1> QED BY <1>6, <1>7

(* Theorem.  No span that works the duration within the bounds and the floor *)
(* begins, or ends, after the one the backward pass places; and when there   *)
(* is one it places one (arithmetic.py, latest_span).                        *)
THEOREM LatestSpanIsLast ==
    ASSUME NEW cal, Indexed(cal), NEW startBound \in Int, NEW finishBound \in Int,
           NEW d \in Nat \ {0}, NEW floor \in Int,
           NEW other, Worked(cal, other, d), other[1] <= startBound,
           other[2] <= finishBound, floor <= other[1]
    PROVE  LET span == LatestSpan(cal, startBound, finishBound, d, floor) IN
           span # None /\ other[1] <= span[1] /\ other[2] <= span[2]
<1> DEFINE finish == PrevWorking(cal, finishBound)
           start == SubWorking(cal, finish, d)
           s == PrevWorkingStart(cal, startBound)
           again == SpanFrom(cal, s, d)
           span == LatestSpan(cal, startBound, finishBound, d, floor)
           W(t) == WorkUntil(cal, t)
<1>1. /\ other[1] \in Int /\ other[2] \in Int /\ WorkingAt(cal, other[1])
      /\ FinishingAt(cal, other[2]) /\ W(other[2]) = W(other[1]) + d
      /\ W(other[1]) \in Nat /\ W(other[2]) \in Nat
  BY WorkIsMonotone DEF Worked
<1> HIDE DEF W
<1>2. finish # None /\ finish \in Int /\ FinishingAt(cal, finish) /\ other[2] <= finish
  <2>1. finish # None
    BY <1>1, PrevWorkingIsLast
  <2> QED BY <1>1, <2>1, PrevWorkingIsLast
<1> HIDE DEF finish
<1>3. W(finish) \in Nat /\ W(other[2]) <= W(finish)
  BY <1>1, <1>2, WorkIsMonotone DEF W
<1>4. start # None
  <2>1. ~(W(finish) < d)
    BY <1>1, <1>3
  <2> QED BY <1>2, <2>1, SubWorkingIsExact DEF W
<1>5. /\ start \in Int /\ WorkingAt(cal, start) /\ W(start) = W(finish) - d
      /\ W(start) \in Nat
  BY <1>2, <1>4, SubWorkingIsExact, WorkIsMonotone DEF W
<1> HIDE DEF start
<1>6. other[1] <= start
  <2>1. start < other[1] => W(start) < W(other[1])
    BY <1>1, <1>5, LaterThanStartMoreWork DEF W
  <2>2. W(other[1]) <= W(start)
    BY <1>1, <1>3, <1>5
  <2> QED BY <1>1, <1>5, <2>1, <2>2
<1>7. CASE start <= startBound
  <2>1. span = NotBefore(<<start, finish>>, floor)
    BY <1>2, <1>4, <1>7 DEF LatestSpan, finish, start
  <2> HIDE DEF span
  <2>2. <<start, finish>> # None
    BY <1>2, <1>5, NoneAssumption
  <2>3. start >= floor
    BY <1>1, <1>5, <1>6
  <2>4. span = <<start, finish>>
    BY <2>1, <2>2, <2>3 DEF NotBefore
  <2> QED BY <1>2, <1>6, <2>2, <2>4 DEF span
<1>8. CASE ~(start <= startBound)
  <2>1. s # None /\ s \in Int /\ s <= startBound /\ WorkingAt(cal, s) /\ other[1] <= s
    <3>1. s # None
      BY <1>1, PrevWorkingStartIsLast
    <3> QED BY <1>1, <3>1, PrevWorkingStartIsLast
  <2> HIDE DEF s
  <2>2. W(s) \in Nat /\ W(s) <= W(start) /\ W(other[1]) <= W(s)
    <3>1. s <= start
      BY <1>5, <1>8, <2>1
    <3> QED BY <1>1, <1>5, <2>1, <3>1, WorkIsMonotone DEF W
  <2>3. again # None
    <3>1. TotalWork(cal) \in Int /\ W(finish) <= TotalWork(cal)
      BY <1>2, WorkIsAtMostTotal DEF W
    <3>2. ~(W(s) + d > TotalWork(cal))
      BY <1>3, <1>5, <2>2, <3>1
    <3>3. AddWorking(cal, s, d) # None /\ AddWorking(cal, s, d) \in Int
      BY <2>1, <3>2, AddWorkingIsExact DEF W
    <3> QED BY <2>1, <3>3, NoneAssumption DEF SpanFrom
  <2>4. again[1] = s /\ Worked(cal, again, d)
    BY <2>1, <2>3, SpanFromIsWorked
  <2>5. /\ again[2] \in Int /\ FinishingAt(cal, again[2]) /\ W(again[2]) = W(s) + d
    BY <2>4 DEF Worked, W
  <2>6. other[2] <= again[2]
    <3>1. again[2] < other[2] => W(again[2]) < W(other[2])
      BY <1>1, <2>5, LaterFinishMoreWork DEF W
    <3>2. ~(W(again[2]) < W(other[2]))
      BY <1>1, <2>2, <2>5
    <3> QED BY <1>1, <2>5, <3>1, <3>2
  <2>7. span = NotBefore(again, floor)
    BY <1>2, <1>4, <1>8 DEF LatestSpan, finish, start, s
  <2> HIDE DEF again, span
  <2>8. again[1] >= floor
    BY <1>1, <2>1, <2>4
  <2>9. span = again
    BY <2>3, <2>7, <2>8 DEF NotBefore
  <2> QED BY <2>1, <2>3, <2>4, <2>6, <2>9 DEF span
<1> QED BY <1>7, <1>8

----------------------------------------------------------------------------
(* Moving later.                                                            *)

(* Theorem.  From a later coordinate, add_working never ends earlier.        *)
THEOREM AddWorkingIsMonotone ==
    ASSUME NEW cal, Indexed(cal), NEW s \in Int, NEW t \in Int, s <= t, NEW d \in Nat,
           AddWorking(cal, s, d) # None, AddWorking(cal, t, d) # None
    PROVE  AddWorking(cal, s, d) <= AddWorking(cal, t, d)
<1> DEFINE f == AddWorking(cal, s, d)
           g == AddWorking(cal, t, d)
<1>1. CASE d = 0
  BY <1>1 DEF AddWorking
<1>2. CASE d # 0
  <2>1. f \in Int /\ FinishingAt(cal, f) /\ WorkUntil(cal, f) = WorkUntil(cal, s) + d
    BY <1>2, AddWorkingIsExact
  <2>2. g \in Int /\ WorkUntil(cal, g) = WorkUntil(cal, t) + d
    BY <1>2, AddWorkingIsExact
  <2>3. WorkUntil(cal, s) \in Nat /\ WorkUntil(cal, t) \in Nat /\ WorkUntil(cal, s) <= WorkUntil(cal, t)
    BY WorkIsMonotone
  <2> HIDE DEF f, g
  <2>4. ~(g < f)
    <3>1. g < f => WorkUntil(cal, g) < WorkUntil(cal, f)
      BY <2>1, <2>2, LaterFinishMoreWork
    <3> QED BY <2>1, <2>2, <2>3, <3>1
  <2> QED BY <2>1, <2>2, <2>4 DEF f, g
<1> QED BY <1>1, <1>2

(* Theorem.  Nor does sub_working begin earlier (arithmetic.py).             *)
THEOREM SubWorkingIsMonotone ==
    ASSUME NEW cal, Indexed(cal), NEW s \in Int, NEW t \in Int, s <= t, NEW d \in Nat,
           SubWorking(cal, s, d) # None, SubWorking(cal, t, d) # None
    PROVE  SubWorking(cal, s, d) <= SubWorking(cal, t, d)
<1> DEFINE f == SubWorking(cal, s, d)
           g == SubWorking(cal, t, d)
<1>1. CASE d = 0
  BY <1>1 DEF SubWorking
<1>2. CASE d # 0
  <2>1. f \in Int /\ WorkUntil(cal, f) = WorkUntil(cal, s) - d
    BY <1>2, SubWorkingIsExact
  <2>2. g \in Int /\ WorkingAt(cal, g) /\ WorkUntil(cal, g) = WorkUntil(cal, t) - d
    BY <1>2, SubWorkingIsExact
  <2>3. WorkUntil(cal, s) \in Nat /\ WorkUntil(cal, t) \in Nat /\ WorkUntil(cal, s) <= WorkUntil(cal, t)
    BY WorkIsMonotone
  <2> HIDE DEF f, g
  <2>4. ~(g < f)
    <3>1. g < f => WorkUntil(cal, g) < WorkUntil(cal, f)
      BY <2>1, <2>2, LaterThanStartMoreWork
    <3> QED BY <2>1, <2>2, <2>3, <3>1
  <2> QED BY <2>1, <2>2, <2>4 DEF f, g
<1> QED BY <1>1, <1>2

(* Theorem.  So an anchor moved later, shifted by a lag or a lead, lands no  *)
(* earlier (network.py, shift_lag).                                          *)
THEOREM ShiftLagIsMonotone ==
    ASSUME NEW cal, Indexed(cal), NEW s \in Int, NEW t \in Int, s <= t, NEW lag \in Int,
           ShiftLag(cal, s, lag) # None, ShiftLag(cal, t, lag) # None
    PROVE  ShiftLag(cal, s, lag) <= ShiftLag(cal, t, lag)
<1>1. CASE lag >= 0
  <2>1. lag \in Nat /\ ShiftLag(cal, s, lag) = AddWorking(cal, s, lag)
        /\ ShiftLag(cal, t, lag) = AddWorking(cal, t, lag)
    BY <1>1 DEF ShiftLag
  <2> QED BY <2>1, AddWorkingIsMonotone
<1>2. CASE ~(lag >= 0)
  <2>1. -lag \in Nat /\ ShiftLag(cal, s, lag) = SubWorking(cal, s, -lag)
        /\ ShiftLag(cal, t, lag) = SubWorking(cal, t, -lag)
    BY <1>2 DEF ShiftLag
  <2> QED BY <2>1, SubWorkingIsMonotone
<1> QED BY <1>1, <1>2

----------------------------------------------------------------------------
(* Choosing from a sequence.                                                *)

NoneYet(c) == <<>>
ThisToo(c, before, n) == IF c[1][n] \in c[2] THEN Append(before, c[1][n]) ELSE before
(* What has been chosen from the first n.                                    *)
ChosenSoFar(c, n, out) ==
    /\ out \in Seq(c[3])
    /\ \A x : (\E i \in 1..Len(out) : out[i] = x) <=> x \in c[2] /\ \E i \in 1..n : c[1][i] = x
    /\ Distinct(c[1]) => Distinct(out)
Choosing == INSTANCE Recursion WITH First <- NoneYet, Following <- ThisToo, Claim <- ChosenSoFar

(* What a set chooses from a sequence: its elements that the set has, each   *)
(* once when the sequence has them once.                                     *)
LEMMA AmongFacts ==
    ASSUME NEW X, NEW seq \in Seq(X), NEW S
    PROVE  /\ Among(seq, S) \in Seq(X)
           /\ \A x : (\E i \in 1..Len(Among(seq, S)) : Among(seq, S)[i] = x)
                        <=> x \in S /\ \E i \in 1..Len(seq) : seq[i] = x
           /\ Distinct(seq) => Distinct(Among(seq, S))
<1> DEFINE c == <<seq, S, X>>
           n == Len(seq)
           f == CHOOSE g : g = [k \in 0..n |-> IF k = 0 THEN <<>>
                                 ELSE IF seq[k] \in S THEN Append(g[k - 1], seq[k]) ELSE g[k - 1]]
<1>1. f = CHOOSE g : Choosing!Recursive(c, n, g)
  BY DEF Choosing!Recursive, NoneYet, ThisToo
<1>2. Among(seq, S) = f[n]
  BY DEF Among
<1>3. n \in Nat
  OBVIOUS
<1> HIDE DEF f
<1>4. /\ f[0] = NoneYet(c)
      /\ \A k \in 1..n : f[k] = ThisToo(c, f[k - 1], k)
  BY <1>1, <1>3, Choosing!RecursiveDefinition
<1>5. ChosenSoFar(c, 0, NoneYet(c))
  BY DEF ChosenSoFar, NoneYet, Distinct
<1>6. ASSUME NEW k \in 1..n, ChosenSoFar(c, k - 1, f[k - 1])
      PROVE  ChosenSoFar(c, k, ThisToo(c, f[k - 1], k))
  <2> DEFINE out == f[k - 1]
  <2>1. /\ out \in Seq(X)
        /\ \A x : (\E i \in 1..Len(out) : out[i] = x) <=> x \in S /\ \E i \in 1..(k - 1) : seq[i] = x
        /\ Distinct(seq) => Distinct(out)
    BY <1>6 DEF ChosenSoFar
  <2> HIDE DEF out
  <2>2. \A x : (\E i \in 1..k : seq[i] = x) <=> (\E i \in 1..(k - 1) : seq[i] = x) \/ seq[k] = x
    OBVIOUS
  <2>3. CASE seq[k] \in S
    <3> DEFINE new == Append(out, seq[k])
    <3>1. new \in Seq(X) /\ Len(new) = Len(out) + 1 /\ Len(out) \in Nat
      BY <2>1
    <3>2. \A i \in 1..Len(out) : new[i] = out[i]
      BY <2>1
    <3>3. new[Len(out) + 1] = seq[k]
      BY <2>1
    <3> HIDE DEF new
    <3>4. \A x : (\E i \in 1..Len(new) : new[i] = x) <=> (\E i \in 1..Len(out) : out[i] = x) \/ x = seq[k]
      <4>1. ASSUME NEW x, NEW i \in 1..Len(new), new[i] = x
            PROVE  (\E j \in 1..Len(out) : out[j] = x) \/ x = seq[k]
        <5>1. i \in 1..Len(out) \/ i = Len(out) + 1
          BY <3>1
        <5> QED BY <5>1, <4>1, <3>2, <3>3
      <4>2. ASSUME NEW x, (\E j \in 1..Len(out) : out[j] = x) \/ x = seq[k]
            PROVE  \E i \in 1..Len(new) : new[i] = x
        <5>1. Len(out) + 1 \in 1..Len(new) /\ \A j \in 1..Len(out) : j \in 1..Len(new)
          BY <3>1
        <5> QED BY <5>1, <4>2, <3>2, <3>3
      <4> QED BY <4>1, <4>2
    <3>5. ASSUME Distinct(seq) PROVE Distinct(new)
      <4>1. ~\E i \in 1..(k - 1) : seq[i] = seq[k]
        BY <3>5 DEF Distinct
      <4>2. ~\E i \in 1..Len(out) : out[i] = seq[k]
        BY <4>1, <2>1
      <4>3. Distinct(out)
        BY <3>5, <2>1
      <4>4. \A i \in 1..Len(new) : i \in 1..Len(out) \/ i = Len(out) + 1
        BY <3>1
      <4> QED BY <4>2, <4>3, <4>4, <3>2, <3>3 DEF Distinct
    <3>6. ThisToo(c, f[k - 1], k) = new
      BY <2>3 DEF ThisToo, out, new
    <3> QED BY <3>1, <3>4, <3>5, <3>6, <2>1, <2>2, <2>3 DEF ChosenSoFar
  <2>4. CASE seq[k] \notin S
    <3>1. ThisToo(c, f[k - 1], k) = out
      BY <2>4 DEF ThisToo, out
    <3> QED BY <3>1, <2>1, <2>2, <2>4 DEF ChosenSoFar
  <2> QED BY <2>3, <2>4
<1>7. \A k \in 0..n : ChosenSoFar(c, k, f[k])
  BY <1>3, <1>4, <1>5, <1>6, Choosing!RecursiveInduction
<1>8. ChosenSoFar(c, n, f[n])
  BY <1>3, <1>7
<1> QED BY <1>2, <1>8 DEF ChosenSoFar

----------------------------------------------------------------------------
(* The topological order.                                                   *)

KahnStart(net) == [order |-> <<>>, ready |-> Among(net.order, Free(net, {}))]
KahnStep(net, walk, n) == Visit(net, walk)

(* Behind each activity of a sequence are its predecessors.                  *)
Sorted(net, seq) ==
    \A i \in 1..Len(seq) : \A k \in Into(net, seq[i]) :
        \E j \in 1..(i - 1) : seq[j] = net.edges[k].predecessor

(* The walk takes an activity once, when its predecessors are behind it.     *)
KahnHolds(net, n, walk) ==
    /\ walk.order \in Seq(DOMAIN net.act) /\ walk.ready \in Seq(DOMAIN net.act)
    /\ Distinct(walk.order) /\ Distinct(walk.ready)
    /\ ToSet(walk.order) \intersect ToSet(walk.ready) = {}
    /\ ToSet(walk.ready) \subseteq Free(net, ToSet(walk.order))
    /\ Sorted(net, walk.order)
Kahn == INSTANCE Recursion WITH First <- KahnStart, Following <- KahnStep, Claim <- KahnHolds

(* What a sequence has, by place.                                            *)
LEMMA ToSetByPlace ==
    ASSUME NEW X, NEW seq \in Seq(X)
    PROVE  /\ \A x : x \in ToSet(seq) <=> \E i \in 1..Len(seq) : seq[i] = x
           /\ ToSet(seq) \subseteq X
<1>1. DOMAIN seq = 1..Len(seq) /\ \A i \in 1..Len(seq) : seq[i] \in X
  OBVIOUS
<1>2. ToSet(seq) = {seq[i] : i \in DOMAIN seq}
  BY DEF ToSet
<1> HIDE DEF ToSet
<1> QED BY <1>1, <1>2

(* One after the other, two sequences with nothing in common.                *)
LEMMA DistinctTogether ==
    ASSUME NEW X, NEW s \in Seq(X), NEW t \in Seq(X), Distinct(s), Distinct(t),
           ToSet(s) \intersect ToSet(t) = {}
    PROVE  /\ s \o t \in Seq(X) /\ Distinct(s \o t)
           /\ ToSet(s \o t) = ToSet(s) \union ToSet(t)
<1> DEFINE w == s \o t
<1>1. /\ w \in Seq(X) /\ Len(w) = Len(s) + Len(t) /\ Len(s) \in Nat /\ Len(t) \in Nat
      /\ \A i \in 1..Len(s) : w[i] = s[i]
      /\ \A i \in 1..Len(w) : i > Len(s) => w[i] = t[i - Len(s)]
  OBVIOUS
<1> HIDE DEF w
<1>2. \A i \in 1..Len(w) : (i \in 1..Len(s) \/ (i > Len(s) /\ i - Len(s) \in 1..Len(t)))
  BY <1>1
<1>3. \A x : x \in ToSet(s) <=> \E i \in 1..Len(s) : s[i] = x
  BY ToSetByPlace
<1>4. \A x : x \in ToSet(t) <=> \E i \in 1..Len(t) : t[i] = x
  BY ToSetByPlace
<1>5. \A x : x \in ToSet(w) <=> \E i \in 1..Len(w) : w[i] = x
  BY <1>1, ToSetByPlace
<1>6. Distinct(w)
  <2> SUFFICES ASSUME NEW i \in 1..Len(w), NEW j \in 1..Len(w), w[i] = w[j]
               PROVE  i = j
    BY DEF Distinct
  <2>1. CASE i \in 1..Len(s) /\ j \in 1..Len(s)
    BY <2>1, <1>1 DEF Distinct
  <2>2. CASE i > Len(s) /\ j > Len(s)
    <3>1. i - Len(s) \in 1..Len(t) /\ j - Len(s) \in 1..Len(t)
      BY <1>2, <2>2
    <3>2. t[i - Len(s)] = t[j - Len(s)]
      BY <1>1, <2>2
    <3>3. i - Len(s) = j - Len(s)
      BY <3>1, <3>2 DEF Distinct
    <3> QED BY <3>3, <1>1
  <2>3. CASE i \in 1..Len(s) /\ j > Len(s)
    <3>1. w[i] \in ToSet(s) /\ w[j] \in ToSet(t)
      BY <1>1, <1>2, <1>3, <1>4, <2>3
    <3> QED BY <3>1
  <2>4. CASE j \in 1..Len(s) /\ i > Len(s)
    <3>1. w[j] \in ToSet(s)
      BY <1>1, <1>3, <2>4
    <3>2. i - Len(s) \in 1..Len(t) /\ w[i] = t[i - Len(s)]
      BY <1>1, <1>2, <2>4
    <3>3. w[i] \in ToSet(t)
      BY <3>2, <1>4
    <3> QED BY <3>1, <3>3
  <2> QED BY <1>1, <1>2, <2>1, <2>2, <2>3, <2>4
<1>7. ToSet(w) = ToSet(s) \union ToSet(t)
  <2>1. ASSUME NEW x \in ToSet(w) PROVE x \in ToSet(s) \union ToSet(t)
    <3>1. PICK i \in 1..Len(w) : w[i] = x
      BY <1>5
    <3> QED BY <3>1, <1>1, <1>2, <1>3, <1>4
  <2>2. ASSUME NEW x \in ToSet(s) PROVE x \in ToSet(w)
    <3>1. PICK i \in 1..Len(s) : s[i] = x
      BY <1>3
    <3>2. i \in 1..Len(w)
      BY <1>1
    <3> QED BY <3>1, <3>2, <1>1, <1>5
  <2>3. ASSUME NEW x \in ToSet(t) PROVE x \in ToSet(w)
    <3>1. PICK i \in 1..Len(t) : t[i] = x
      BY <1>4
    <3>2. i + Len(s) \in 1..Len(w) /\ i + Len(s) > Len(s) /\ (i + Len(s)) - Len(s) = i
      BY <1>1
    <3> QED BY <3>1, <3>2, <1>1, <1>5
  <2> QED BY <2>1, <2>2, <2>3
<1> QED BY <1>1, <1>6, <1>7 DEF w

(* One step of Kahn's algorithm keeps what the walk means.                   *)
LEMMA KahnStepHolds ==
    ASSUME NEW net, Enumerated(net), NEW n, NEW walk, KahnHolds(net, n - 1, walk)
    PROVE  KahnHolds(net, n, Visit(net, walk))
<1> DEFINE D == DOMAIN net.act
           seq == walk.order
           rest == walk.ready
<1>1. /\ seq \in Seq(D) /\ rest \in Seq(D)
      /\ Distinct(seq) /\ Distinct(rest)
      /\ ToSet(seq) \intersect ToSet(rest) = {}
      /\ ToSet(rest) \subseteq Free(net, ToSet(seq))
      /\ Sorted(net, seq)
  BY DEF KahnHolds
<1>2. CASE rest = <<>>
  <2>1. Visit(net, walk) = walk
    BY <1>2 DEF Visit
  <2> QED BY <2>1 DEF KahnHolds
<1>3. CASE rest # <<>>
  <2> DEFINE u == Head(rest)
             done == ToSet(seq) \union {u}
             freed == {v \in Free(net, done) : \E k \in Into(net, v) : net.edges[k].predecessor = u}
             more == Among(net.order, freed)
             next == Append(seq, u)
  <2>1. Visit(net, walk) = [order |-> next, ready |-> Tail(rest) \o more]
    BY <1>3 DEF Visit
  <2>2. /\ Tail(rest) \in Seq(D) /\ u \in D /\ Len(rest) \in Nat /\ Len(rest) >= 1
        /\ Len(Tail(rest)) = Len(rest) - 1 /\ u = rest[1]
        /\ \A i \in 1..Len(Tail(rest)) : Tail(rest)[i] = rest[i + 1]
    <3>1. \A t \in Seq(D) : t # <<>> =>
            /\ Tail(t) \in Seq(D) /\ Head(t) \in D /\ Len(t) \in Nat /\ Len(t) >= 1
            /\ Len(Tail(t)) = Len(t) - 1 /\ Head(t) = t[1]
            /\ \A i \in 1..Len(Tail(t)) : Tail(t)[i] = t[i + 1]
      <4> HIDE DEF D
      <4> QED OBVIOUS
    <3> QED BY <3>1, <1>1, <1>3
  <2>3. u \in ToSet(rest)
    BY <2>2, <1>1, ToSetByPlace
  <2>4. /\ Distinct(Tail(rest))
        /\ ToSet(Tail(rest)) \subseteq ToSet(rest)
        /\ u \notin ToSet(Tail(rest))
    <3>1. \A x : x \in ToSet(Tail(rest)) <=> \E i \in 1..Len(Tail(rest)) : Tail(rest)[i] = x
      BY <2>2, ToSetByPlace
    <3>2. \A x : x \in ToSet(rest) <=> \E i \in 1..Len(rest) : rest[i] = x
      BY <1>1, ToSetByPlace
    <3>3. \A i \in 1..Len(Tail(rest)) : i + 1 \in 1..Len(rest)
      BY <2>2
    <3>4. Distinct(Tail(rest))
      <4> SUFFICES ASSUME NEW i \in 1..Len(Tail(rest)), NEW j \in 1..Len(Tail(rest)),
                          Tail(rest)[i] = Tail(rest)[j]
                   PROVE  i = j
        BY DEF Distinct
      <4>1. rest[i + 1] = rest[j + 1] /\ i + 1 \in 1..Len(rest) /\ j + 1 \in 1..Len(rest)
        BY <2>2, <3>3
      <4>2. i + 1 = j + 1
        BY <1>1, <4>1 DEF Distinct
      <4> QED BY <2>2, <4>2
    <3>5. u \notin ToSet(Tail(rest))
      <4> SUFFICES ASSUME NEW i \in 1..Len(Tail(rest)), Tail(rest)[i] = u PROVE FALSE
        BY <3>1
      <4>1. rest[i + 1] = rest[1] /\ i + 1 \in 1..Len(rest) /\ 1 \in 1..Len(rest)
        BY <2>2, <3>3
      <4>2. i + 1 = 1
        BY <4>1, <1>1 DEF Distinct
      <4> QED BY <4>2
    <3>6. ToSet(Tail(rest)) \subseteq ToSet(rest)
      BY <3>1, <3>2, <3>3, <2>2
    <3> QED BY <3>4, <3>5, <3>6
  <2>5. /\ next \in Seq(D) /\ Len(next) = Len(seq) + 1 /\ Len(seq) \in Nat
        /\ \A i \in 1..Len(seq) : next[i] = seq[i]
        /\ next[Len(seq) + 1] = u
        /\ \A i \in 1..Len(next) : i \in 1..Len(seq) \/ i = Len(seq) + 1
    <3>1. \A t \in Seq(D), v \in D :
            /\ Append(t, v) \in Seq(D) /\ Len(Append(t, v)) = Len(t) + 1 /\ Len(t) \in Nat
            /\ \A i \in 1..Len(t) : Append(t, v)[i] = t[i]
            /\ Append(t, v)[Len(t) + 1] = v
            /\ \A i \in 1..Len(Append(t, v)) : i \in 1..Len(t) \/ i = Len(t) + 1
      <4> HIDE DEF D
      <4> QED OBVIOUS
    <3> HIDE DEF u, D
    <3> QED BY <3>1, <1>1, <2>2
  <2>6. \A x : x \in ToSet(seq) <=> \E i \in 1..Len(seq) : seq[i] = x
    BY <1>1, ToSetByPlace
  <2>7. ToSet(next) = done
    <3>1. \A x : x \in ToSet(next) <=> \E i \in 1..Len(next) : next[i] = x
      BY <2>5, ToSetByPlace
    <3>2. \A i \in 1..Len(seq) : i \in 1..Len(next)
      BY <2>5
    <3>3. Len(seq) + 1 \in 1..Len(next)
      BY <2>5
    <3> HIDE DEF next, u
    <3>4. \A x \in ToSet(next) : x \in done
      BY <3>1, <2>5, <2>6
    <3>5. \A x \in ToSet(seq) : x \in ToSet(next)
      BY <3>1, <3>2, <2>5, <2>6
    <3>6. u \in ToSet(next)
      BY <3>1, <3>3, <2>5
    <3> QED BY <3>4, <3>5, <3>6
  <2>8. u \notin ToSet(seq)
    BY <2>3, <1>1
  <2>9. Distinct(next)
    <3> HIDE DEF next, u
    <3> QED BY <2>5, <2>6, <2>8, <1>1 DEF Distinct
  <2>10. more \in Seq(D) /\ Distinct(more) /\ ToSet(more) \subseteq freed
    <3>1. net.order \in Seq(D) /\ Distinct(net.order)
      BY DEF Enumerated
    <3> HIDE DEF freed
    <3>2. more \in Seq(D) /\ Distinct(more)
      BY <3>1, AmongFacts
    <3>3. \A x : (\E i \in 1..Len(more) : more[i] = x) => x \in freed
      BY <3>1, AmongFacts
    <3>4. \A x : x \in ToSet(more) <=> \E i \in 1..Len(more) : more[i] = x
      BY <3>2, ToSetByPlace
    <3> QED BY <3>2, <3>3, <3>4
  <2>11. ASSUME NEW v \in freed
         PROVE  v \notin ToSet(seq) /\ v \notin ToSet(rest)
    <3>1. PICK k \in Into(net, v) : net.edges[k].predecessor = u
      OBVIOUS
    <3>2. ASSUME v \in ToSet(seq) PROVE FALSE
      <4>1. PICK i \in 1..Len(seq) : seq[i] = v
        BY <3>2, <2>6
      <4>2. PICK j \in 1..(i - 1) : seq[j] = u
        BY <4>1, <3>1, <1>1 DEF Sorted
      <4>3. j \in 1..Len(seq)
        BY <2>5
      <4> QED BY <4>2, <4>3, <2>6, <2>8
    <3>3. ASSUME v \in ToSet(rest) PROVE FALSE
      <4>1. v \in Free(net, ToSet(seq))
        BY <3>3, <1>1
      <4>2. u \in ToSet(seq)
        BY <4>1, <3>1 DEF Free
      <4> QED BY <4>2, <2>8
    <3> QED BY <3>2, <3>3
  <2>12. ToSet(Tail(rest)) \intersect ToSet(more) = {}
    BY <2>4, <2>10, <2>11
  <2>13. /\ Tail(rest) \o more \in Seq(D) /\ Distinct(Tail(rest) \o more)
         /\ ToSet(Tail(rest) \o more) = ToSet(Tail(rest)) \union ToSet(more)
    <3>1. Tail(rest) \in Seq(D) /\ Distinct(Tail(rest)) /\ more \in Seq(D) /\ Distinct(more)
      BY <2>2, <2>4, <2>10
    <3> DEFINE left == Tail(rest)
    <3>2. left \in Seq(D) /\ Distinct(left) /\ ToSet(left) \intersect ToSet(more) = {}
      BY <3>1, <2>12
    <3> HIDE DEF D, more, rest, left
    <3>3. /\ left \o more \in Seq(D) /\ Distinct(left \o more)
          /\ ToSet(left \o more) = ToSet(left) \union ToSet(more)
      BY ONLY <3>1, <3>2, DistinctTogether
    <3> QED BY <3>3 DEF left
  <2>14. done \intersect ToSet(Tail(rest) \o more) = {}
    <3>1. ToSet(Tail(rest)) \subseteq ToSet(rest) /\ u \notin ToSet(Tail(rest))
      BY <2>4
    <3>2. ToSet(seq) \intersect ToSet(rest) = {}
      BY <1>1
    <3>3. \A v \in ToSet(more) : v \notin ToSet(seq) /\ v # u
      BY <2>3, <2>10, <2>11
    <3> HIDE DEF u, more
    <3> QED BY <2>13, <3>1, <3>2, <3>3
  <2>15. ToSet(Tail(rest) \o more) \subseteq Free(net, done)
    <3>1. ToSet(more) \subseteq Free(net, done)
      BY <2>10
    <3>2. ToSet(Tail(rest)) \subseteq Free(net, done)
      <4> SUFFICES ASSUME NEW v \in Free(net, ToSet(seq)) PROVE v \in Free(net, done)
        BY <2>4, <1>1
      <4> QED BY DEF Free
    <3> QED BY <3>1, <3>2, <2>13
  <2>16. Sorted(net, next)
    <3> SUFFICES ASSUME NEW i \in 1..Len(next), NEW k \in Into(net, next[i])
                 PROVE  \E j \in 1..(i - 1) : next[j] = net.edges[k].predecessor
      BY DEF Sorted
    <3>1. CASE i \in 1..Len(seq)
      <4>1. PICK j \in 1..(i - 1) : seq[j] = net.edges[k].predecessor
        BY <3>1, <2>5, <1>1 DEF Sorted
      <4>2. j \in 1..Len(seq)
        BY <2>5, <3>1
      <4> QED BY <4>1, <4>2, <2>5
    <3>2. CASE i = Len(seq) + 1
      <4>1. u \in Free(net, ToSet(seq))
        BY <2>3, <1>1
      <4>2. k \in Into(net, u)
        BY <3>2, <2>5
      <4>3. net.edges[k].predecessor \in ToSet(seq)
        BY <4>1, <4>2 DEF Free
      <4>4. PICK j \in 1..Len(seq) : seq[j] = net.edges[k].predecessor
        BY <4>3, <2>6
      <4>5. j \in 1..(i - 1)
        BY <3>2, <2>5
      <4> QED BY <4>4, <4>5, <2>5
    <3> QED BY <2>5, <3>1, <3>2
  <2>17. DOMAIN net.act = D
    OBVIOUS
  <2> HIDE DEF next, done, freed, more, u, D
  <2> QED BY <2>1, <2>5, <2>7, <2>9, <2>13, <2>14, <2>15, <2>16, <2>17 DEF KahnHolds
<1> QED BY <1>2, <1>3

(* A topological order has no activity twice, each behind its predecessors,  *)
(* and has them all unless there is a cycle.                                 *)
LEMMA TopologicalOrderFacts ==
    ASSUME NEW net, Enumerated(net)
    PROVE  LET seq == TopologicalOrder(net) IN
           /\ seq \in Seq(DOMAIN net.act) /\ Distinct(seq) /\ Sorted(net, seq)
           /\ Acyclic(net) => \A u \in DOMAIN net.act : \E i \in 1..Len(seq) : seq[i] = u
<1> DEFINE n == Len(net.order)
           f == CHOOSE g : g = [k \in 0..n |-> IF k = 0
                    THEN [order |-> <<>>, ready |-> Among(net.order, Free(net, {}))]
                    ELSE Visit(net, g[k - 1])]
           D == DOMAIN net.act
<1>1. f = CHOOSE g : Kahn!Recursive(net, n, g)
  BY DEF Kahn!Recursive, KahnStart, KahnStep
<1>2. TopologicalOrder(net) = f[n].order
  BY DEF TopologicalOrder
<1>3. n \in Nat /\ net.order \in Seq(D) /\ Distinct(net.order)
  BY DEF Enumerated
<1> HIDE DEF f
<1>4. /\ f[0] = KahnStart(net)
      /\ \A k \in 1..n : f[k] = KahnStep(net, f[k - 1], k)
  BY <1>1, <1>3, Kahn!RecursiveDefinition
<1>5. KahnHolds(net, 0, KahnStart(net))
  <2> DEFINE first == Among(net.order, Free(net, {}))
  <2>1. first \in Seq(D) /\ Distinct(first)
    BY <1>3, AmongFacts
  <2>2. \A x : (\E i \in 1..Len(first) : first[i] = x) => x \in Free(net, {})
    BY <1>3, AmongFacts
  <2>3. \A x : x \in ToSet(first) <=> \E i \in 1..Len(first) : first[i] = x
    BY <2>1, ToSetByPlace
  <2>4. KahnStart(net) = [order |-> <<>>, ready |-> first]
    BY DEF KahnStart
  <2>5. /\ <<>> \in Seq(D) /\ Distinct(<<>>) /\ Sorted(net, <<>>)
        /\ ToSet(<<>>) = {}
    BY DEF Distinct, Sorted, ToSet
  <2> HIDE DEF first
  <2>6. ToSet(first) \subseteq Free(net, {})
    BY <2>2, <2>3
  <2>7. KahnStart(net).order = <<>> /\ KahnStart(net).ready = first
    BY <2>4
  <2> QED BY <2>1, <2>5, <2>6, <2>7 DEF KahnHolds
<1>6. ASSUME NEW k \in 1..n, KahnHolds(net, k - 1, f[k - 1])
      PROVE  KahnHolds(net, k, KahnStep(net, f[k - 1], k))
  BY <1>6, KahnStepHolds DEF KahnStep
<1>7. \A k \in 0..n : KahnHolds(net, k, f[k])
  BY <1>3, <1>4, <1>5, <1>6, Kahn!RecursiveInduction
<1>8. KahnHolds(net, n, f[n])
  BY <1>3, <1>7
<1> DEFINE seq == TopologicalOrder(net)
<1>9. seq \in Seq(D) /\ Distinct(seq) /\ Sorted(net, seq)
  BY <1>2, <1>8 DEF KahnHolds
<1>10. ASSUME Acyclic(net)
       PROVE  \A u \in D : \E i \in 1..Len(seq) : seq[i] = u
  <2>1. Len(seq) = n
    BY <1>10 DEF Acyclic
  <2>2. IsFiniteSet(1..n) /\ Cardinality(1..n) = n
    BY <1>3, FS_Interval
  <2>3. net.order \in Bijection(1..n, D)
    <3>1. net.order \in [1..n -> D] /\ DOMAIN net.order = 1..n
      BY <1>3 DEF Enumerated
    <3>2. IsInjective(net.order)
      BY <3>1, <1>3 DEF Enumerated, Distinct, IsInjective
    <3>3. \A u \in D : \E i \in 1..n : net.order[i] = u
      BY <1>3 DEF Enumerated
    <3> HIDE DEF D, n
    <3>4. net.order \in Injection(1..n, D)
      BY <3>1, <3>2 DEF Injection
    <3>5. net.order \in Surjection(1..n, D)
      BY <3>1, <3>3 DEF Surjection
    <3> QED BY <3>4, <3>5 DEF Bijection
  <2>4. IsFiniteSet(D) /\ Cardinality(D) = n
    BY <2>2, <2>3, FS_Bijection DEF ExistsBijection
  <2>5. seq \in Injection(1..n, D)
    BY <1>9, <2>1 DEF Distinct, Injection, IsInjective
  <2>6. seq \in Surjection(1..n, D)
    BY <2>2, <2>4, <2>5, FS_Injection
  <2> QED BY <2>1, <2>6 DEF Surjection
<1> QED BY <1>9, <1>10

----------------------------------------------------------------------------
(* A pass from row to row.                                                 *)

(* A traversal: a pass over a network in an order, reading what it placed.   *)
RowOf(c, placed, u) ==
    IF c.late THEN LateRow(c.net, c.rule, c.early, c.finish, placed, u)
    ELSE EarlyRow(c.net, c.rule, placed, u)
Traversal(late, net, rule, early, finish, order, given) ==
    [late |-> late, net |-> net, rule |-> rule, early |-> early, finish |-> finish,
     order |-> order, given |-> given]

NothingPlaced(c) == [error |-> None, times |-> <<>>]
PlaceNext(c, done, n) == WithRow(done, c.order[n], RowOf(c, done.times, c.order[n]))
Upto(c, n) == {c.order[i] : i \in 1..n}

IsFunction(t) == t = [v \in DOMAIN t |-> t[v]]

(* The rows that a set of activities has are those the pass gives to each,   *)
(* reading the others.                                                       *)
Settled(c, times, S) ==
    /\ DOMAIN times = S /\ IsFunction(times)
    /\ \A u \in S : times[u] = RowOf(c, times, u) /\ times[u].error = None

(* A row reads no rows but those of the activities before it.                *)
ReadsBehind(c) ==
    \A i \in 1..Len(c.order) : \A p, q :
        (\A j \in 1..(i - 1) : p[c.order[j]] = q[c.order[j]])
            => RowOf(c, p, c.order[i]) = RowOf(c, q, c.order[i])

SettledSoFar(c, n, done) ==
    \/ done.error # None
    \/ done = [error |-> None, times |-> done.times] /\ Settled(c, done.times, Upto(c, n))
Placing == INSTANCE Recursion WITH
    First <- NothingPlaced, Following <- PlaceNext, Claim <- SettledSoFar

(* The given rows, one after another.                                        *)
GivenSoFar(c, n, done) ==
    /\ done = [error |-> None, times |-> done.times]
    /\ DOMAIN done.times = Upto(c, n) /\ IsFunction(done.times)
    /\ \A u \in Upto(c, n) : done.times[u] = c.given[u]
Giving == INSTANCE Recursion WITH
    First <- NothingPlaced, Following <- PlaceNext, Claim <- GivenSoFar

(* A row more.                                                               *)
LEMMA OneRowMore ==
    ASSUME NEW done, NEW u, NEW row, done.error = None, row.error = None
    PROVE  LET new == WithRow(done, u, row) IN
           /\ new = [error |-> None, times |-> new.times]
           /\ DOMAIN new.times = DOMAIN done.times \union {u}
           /\ IsFunction(new.times)
           /\ new.times[u] = row
           /\ \A v \in DOMAIN done.times : v # u => new.times[v] = done.times[v]
<1> DEFINE t == [v \in DOMAIN done.times \union {u} |-> IF v = u THEN row ELSE done.times[v]]
<1>1. WithRow(done, u, row) = [error |-> None, times |-> t]
  BY DEF WithRow
<1>2. DOMAIN t = DOMAIN done.times \union {u}
  OBVIOUS
<1>3. t[u] = row /\ \A v \in DOMAIN done.times : v # u => t[v] = done.times[v]
  OBVIOUS
<1>4. IsFunction(t)
  BY DEF IsFunction
<1> HIDE DEF t
<1>5. WithRow(done, u, row).times = t
  BY <1>1
<1> QED BY <1>1, <1>2, <1>3, <1>4, <1>5

(* One place more of the order.                                              *)
LEMMA UptoNext ==
    ASSUME NEW c, NEW X, c.order \in Seq(X), Distinct(c.order), NEW n \in 1..Len(c.order)
    PROVE  /\ Upto(c, n) = Upto(c, n - 1) \union {c.order[n]}
           /\ c.order[n] \notin Upto(c, n - 1)
           /\ \A u \in Upto(c, n - 1) : \E i \in 1..(n - 1) : c.order[i] = u
           /\ \A i \in 1..(n - 1) : c.order[i] \in Upto(c, n - 1)
<1>1. Len(c.order) \in Nat
  OBVIOUS
<1>2. 1..n = 1..(n - 1) \union {n}
  BY <1>1
<1>3. \A i \in 1..(n - 1) : i \in 1..Len(c.order) /\ i # n
  BY <1>1
<1>4. c.order[n] \notin Upto(c, n - 1)
  BY <1>3 DEF Upto, Distinct
<1> QED BY <1>2, <1>4 DEF Upto

(* A traversal that places every row settles them.                           *)
LEMMA PlaceNextSettles ==
    ASSUME NEW c, NEW X, c.order \in Seq(X), Distinct(c.order), ReadsBehind(c),
           NEW n \in 1..Len(c.order), NEW done, SettledSoFar(c, n - 1, done)
    PROVE  SettledSoFar(c, n, PlaceNext(c, done, n))
<1> DEFINE u == c.order[n]
           row == RowOf(c, done.times, u)
           new == WithRow(done, u, row)
           t == done.times
<1>1. PlaceNext(c, done, n) = new
  BY DEF PlaceNext
<1>2. CASE done.error # None
  <2>1. new = done
    BY <1>2 DEF WithRow
  <2> QED BY <2>1, <1>1, <1>2 DEF SettledSoFar
<1>3. CASE done.error = None /\ row.error # None
  <2>1. new = [error |-> row.error, times |-> <<>>]
    BY <1>3 DEF WithRow
  <2>2. new.error # None
    BY <2>1, <1>3
  <2> QED BY <2>2, <1>1 DEF SettledSoFar
<1>4. CASE done.error = None /\ row.error = None
  <2>1. Settled(c, t, Upto(c, n - 1))
    BY <1>4 DEF SettledSoFar
  <2>2. /\ new = [error |-> None, times |-> new.times]
        /\ DOMAIN new.times = DOMAIN t \union {u}
        /\ IsFunction(new.times)
        /\ new.times[u] = row
        /\ \A v \in DOMAIN t : v # u => new.times[v] = t[v]
    <3> HIDE DEF row
    <3> QED BY <1>4, OneRowMore
  <2>3. /\ Upto(c, n) = Upto(c, n - 1) \union {u}
        /\ u \notin Upto(c, n - 1)
        /\ \A v \in Upto(c, n - 1) : \E i \in 1..(n - 1) : c.order[i] = v
        /\ \A i \in 1..(n - 1) : c.order[i] \in Upto(c, n - 1)
    BY UptoNext
  <2>4. DOMAIN t = Upto(c, n - 1)
    BY <2>1 DEF Settled
  <2> DEFINE nt == new.times
  <2> HIDE DEF new
  <2>5. \A j \in 1..(n - 1) : nt[c.order[j]] = t[c.order[j]]
    BY <2>2, <2>3, <2>4
  <2>6. \A i \in 1..n : RowOf(c, nt, c.order[i]) = RowOf(c, t, c.order[i])
    <3> SUFFICES ASSUME NEW i \in 1..n PROVE RowOf(c, nt, c.order[i]) = RowOf(c, t, c.order[i])
      OBVIOUS
    <3>1. i \in 1..Len(c.order) /\ \A j \in 1..(i - 1) : j \in 1..(n - 1)
      OBVIOUS
    <3>2. \A j \in 1..(i - 1) : nt[c.order[j]] = t[c.order[j]]
      BY <3>1, <2>5
    <3> HIDE DEF nt, t
    <3> QED BY <3>1, <3>2 DEF ReadsBehind
  <2>7. n \in 1..n /\ 1..(n - 1) \subseteq 1..n
    OBVIOUS
  <2>8. ASSUME NEW v \in Upto(c, n - 1)
        PROVE  nt[v] = RowOf(c, nt, v) /\ nt[v].error = None
    <3>1. PICK i \in 1..(n - 1) : c.order[i] = v
      BY <2>3
    <3>2. RowOf(c, nt, v) = RowOf(c, t, v)
      BY <3>1, <2>6, <2>7
    <3>3. nt[v] = t[v]
      BY <3>1, <2>5
    <3>4. t[v] = RowOf(c, t, v) /\ t[v].error = None
      BY <2>1 DEF Settled
    <3> QED BY <3>2, <3>3, <3>4
  <2>9. nt[u] = RowOf(c, nt, u) /\ nt[u].error = None
    <3>1. RowOf(c, nt, u) = row
      BY <2>6, <2>7
    <3> HIDE DEF row
    <3> QED BY <3>1, <2>2, <1>4
  <2>10. Settled(c, nt, Upto(c, n))
    <3> HIDE DEF u, nt, t
    <3>1. DOMAIN nt = Upto(c, n) /\ IsFunction(nt)
      BY <2>2, <2>3, <2>4 DEF nt
    <3> QED BY <2>3, <2>8, <2>9, <3>1 DEF Settled
  <2>11. new = [error |-> None, times |-> new.times]
    BY <2>2
  <2> QED BY <1>1, <2>10, <2>11 DEF SettledSoFar
<1> QED BY <1>2, <1>3, <1>4

(* A traversal finds the rows that are settled, if there are any.            *)
LEMMA PlaceNextGiven ==
    ASSUME NEW c, NEW X, c.order \in Seq(X), Distinct(c.order), ReadsBehind(c),
           Settled(c, c.given, Upto(c, Len(c.order))),
           NEW n \in 1..Len(c.order), NEW done, GivenSoFar(c, n - 1, done)
    PROVE  GivenSoFar(c, n, PlaceNext(c, done, n))
<1> DEFINE u == c.order[n]
           row == RowOf(c, done.times, u)
           new == WithRow(done, u, row)
           t == done.times
<1>1. PlaceNext(c, done, n) = new
  BY DEF PlaceNext
<1>2. /\ Upto(c, n) = Upto(c, n - 1) \union {u}
      /\ u \notin Upto(c, n - 1)
      /\ \A i \in 1..(n - 1) : c.order[i] \in Upto(c, n - 1)
  BY UptoNext
<1>3. /\ done.error = None /\ DOMAIN t = Upto(c, n - 1)
      /\ \A v \in Upto(c, n - 1) : t[v] = c.given[v]
  <2>1. done = [error |-> None, times |-> t]
    BY DEF GivenSoFar
  <2>2. done.error = None
    BY <2>1
  <2> QED BY <2>2 DEF GivenSoFar
<1>4. \A j \in 1..(n - 1) : t[c.order[j]] = c.given[c.order[j]]
  BY <1>2, <1>3
<1>5. row = RowOf(c, c.given, u)
  <2> HIDE DEF t
  <2>1. row = RowOf(c, t, u)
    BY DEF t
  <2> HIDE DEF row
  <2> QED BY <1>4, <2>1 DEF ReadsBehind
<1>6. u \in Upto(c, Len(c.order))
  BY DEF Upto
<1>7. c.given[u] = row /\ row.error = None
  <2> HIDE DEF row, u
  <2> QED BY <1>5, <1>6 DEF Settled
<1>8. /\ new = [error |-> None, times |-> new.times]
      /\ DOMAIN new.times = DOMAIN t \union {u}
      /\ IsFunction(new.times)
      /\ new.times[u] = row
      /\ \A v \in DOMAIN t : v # u => new.times[v] = t[v]
  <2> HIDE DEF row
  <2> QED BY <1>3, <1>7, OneRowMore
<1> HIDE DEF new, row, t, u
<1>9. \A v \in Upto(c, n) : new.times[v] = c.given[v]
  BY <1>2, <1>3, <1>7, <1>8
<1>10. DOMAIN new.times = Upto(c, n)
  BY <1>2, <1>3, <1>8
<1> QED BY <1>1, <1>8, <1>9, <1>10 DEF GivenSoFar

(* The rows of a traversal without error are settled, and rows that are      *)
(* settled are what it answers.                                              *)
LEMMA TraversalFacts ==
    ASSUME NEW c, NEW X, c.order \in Seq(X), Distinct(c.order), ReadsBehind(c), NEW f,
           f[0] = NothingPlaced(c),
           \A k \in 1..Len(c.order) : f[k] = PlaceNext(c, f[k - 1], k)
    PROVE  LET done == f[Len(c.order)] IN
           /\ done.error = None =>
                /\ done = [error |-> None, times |-> done.times]
                /\ Settled(c, done.times, Upto(c, Len(c.order)))
           /\ Settled(c, c.given, Upto(c, Len(c.order))) => done = [error |-> None, times |-> c.given]
<1> DEFINE n == Len(c.order)
           done == f[n]
<1>3. n \in Nat /\ n \in 0..n
  OBVIOUS
<1>5. Upto(c, 0) = {}
  <2>1. 1..0 = {}
    OBVIOUS
  <2> QED BY <2>1 DEF Upto
<1>6. /\ NothingPlaced(c).times = <<>> /\ DOMAIN NothingPlaced(c).times = {}
      /\ NothingPlaced(c) = [error |-> None, times |-> NothingPlaced(c).times]
      /\ IsFunction(NothingPlaced(c).times)
  <2>1. <<>> = [v \in DOMAIN <<>> |-> <<>>[v]] /\ DOMAIN <<>> = {}
    OBVIOUS
  <2>2. NothingPlaced(c).times = <<>>
    BY DEF NothingPlaced
  <2>3. NothingPlaced(c) = [error |-> None, times |-> NothingPlaced(c).times]
    BY <2>2 DEF NothingPlaced
  <2> QED BY <2>1, <2>2, <2>3 DEF IsFunction
<1>7. SettledSoFar(c, 0, NothingPlaced(c))
  BY <1>5, <1>6 DEF SettledSoFar, Settled
<1>8. GivenSoFar(c, 0, NothingPlaced(c))
  BY <1>5, <1>6 DEF GivenSoFar
<1>9. \A k \in 1..n : SettledSoFar(c, k - 1, f[k - 1]) => SettledSoFar(c, k, PlaceNext(c, f[k - 1], k))
  BY PlaceNextSettles
<1>10. \A k \in 0..n : SettledSoFar(c, k, f[k])
  BY <1>3, <1>7, <1>9, Placing!RecursiveInduction
<1>11. SettledSoFar(c, n, done)
  BY <1>3, <1>10
<1>12. ASSUME Settled(c, c.given, Upto(c, n))
       PROVE  done = [error |-> None, times |-> c.given]
  <2>1. \A k \in 1..n : GivenSoFar(c, k - 1, f[k - 1]) => GivenSoFar(c, k, PlaceNext(c, f[k - 1], k))
    BY <1>12, PlaceNextGiven
  <2>2. \A k \in 0..n : GivenSoFar(c, k, f[k])
    BY <1>3, <1>8, <2>1, Giving!RecursiveInduction
  <2>3. GivenSoFar(c, n, done)
    BY <1>3, <2>2
  <2>4. /\ DOMAIN done.times = DOMAIN c.given
        /\ IsFunction(done.times) /\ IsFunction(c.given)
        /\ \A u \in DOMAIN c.given : done.times[u] = c.given[u]
    BY <1>12, <2>3 DEF GivenSoFar, Settled
  <2>5. done.times = c.given
    BY <2>4 DEF IsFunction
  <2> QED BY <2>3, <2>5 DEF GivenSoFar
<1> QED BY <1>11, <1>12 DEF SettledSoFar

----------------------------------------------------------------------------
(* What the early row of an activity depends on.                           *)

(* Two networks are alike to an activity's early row.                        *)
AlikeBehind(m, n, u) ==
    /\ m.act[u] = n.act[u]
    /\ m.start = n.start /\ m.horizon = n.horizon /\ m.status = n.status
    /\ Into(m, u) = Into(n, u)
    /\ \A k \in Into(m, u) : m.edges[k] = n.edges[k]

(* Networks alike to an activity base and place it alike.                    *)
LEMMA PlaceAlike ==
    ASSUME NEW m, NEW n, NEW u, AlikeBehind(m, n, u), NEW rule
    PROVE  /\ Base(m, u) = Base(n, u)
           /\ Binding(m, rule, u) = Binding(n, rule, u)
           /\ \A a, s, f : Place(m, rule, a, s, f) = Place(n, rule, a, s, f)
           /\ \A a : PlacePinned(m, a) = PlacePinned(n, a)
           /\ \A a, b : EarlyEnvelope(m, a, b) = EarlyEnvelope(n, a, b)
           /\ \A a, b, f : Driver(m, rule, a, b, f) = Driver(n, rule, a, b, f)
<1>1. Base(m, u) = Base(n, u)
  BY DEF AlikeBehind, Base
<1>2. \A k \in Into(m, u) : /\ k \in DOMAIN m.edges /\ k \in DOMAIN n.edges
                            /\ m.edges[k].successor = u /\ n.edges[k].successor = u
  BY DEF AlikeBehind, Into
<1>3. \A k \in Into(m, u) : RelationshipBinds(m, rule, m.edges[k]) <=> RelationshipBinds(n, rule, n.edges[k])
  BY <1>2 DEF AlikeBehind, RelationshipBinds
<1>4. Binding(m, rule, u) = Binding(n, rule, u)
  BY <1>2, <1>3 DEF AlikeBehind, Binding, Released
<1>5. \A a, s, f : Place(m, rule, a, s, f) = Place(n, rule, a, s, f)
  BY DEF AlikeBehind, Place
<1>6. \A a : PlacePinned(m, a) = PlacePinned(n, a)
  BY DEF AlikeBehind, PlacePinned
<1>7. \A a, b : EarlyEnvelope(m, a, b) = EarlyEnvelope(n, a, b)
  BY DEF AlikeBehind, EarlyEnvelope
<1>8. \A a, b, f : Driver(m, rule, a, b, f) = Driver(n, rule, a, b, f)
  BY <1>5 DEF Driver
<1> QED BY <1>1, <1>4, <1>5, <1>6, <1>7, <1>8

(* They place what is left of reported work alike.                           *)
LEMMA PlaceReportedAlike ==
    ASSUME NEW m, NEW n, NEW u, AlikeBehind(m, n, u), NEW rule, NEW logic
    PROVE  PlaceReported(m, rule, u, logic) = PlaceReported(n, rule, u, logic)
<1> DEFINE a == m.act[u]
<1>1. a = n.act[u] /\ m.start = n.start /\ m.horizon = n.horizon /\ m.status = n.status
  BY DEF AlikeBehind
<1>2. HeldBounds(m, rule, a, logic) = HeldBounds(n, rule, a, logic)
  BY <1>1 DEF HeldBounds, HeldBack
<1>3. /\ \A s, f : Place(m, rule, a, s, f) = Place(n, rule, a, s, f)
      /\ \A b, f : Driver(m, rule, a, b, f) = Driver(n, rule, a, b, f)
  BY PlaceAlike
<1> DEFINE Span(net) == Place(net, rule, net.act[u], HeldBounds(net, rule, net.act[u], logic).start.at,
                            HeldBounds(net, rule, net.act[u], logic).finish.at)
           By(net) == Driver(net, rule, net.act[u], HeldBounds(net, rule, net.act[u], logic),
                              net.act[u].actual_start)
           Source(net) == IF By(net) # None THEN "relationship"
                          ELSE IF net.status # None /\ net.status >= net.act[u].actual_start
                          THEN "status_time" ELSE "actuals"
           Row(net) ==
             [error |-> None, start |-> net.act[u].actual_start, finish |-> Span(net)[2],
              remaining_start |-> Span(net)[1], driver |-> By(net), source |-> Source(net),
              deferred |-> net.act[u].constraint # "ASAP", violated |-> FALSE, unbounded |-> FALSE]
           Left(net) == IF Span(net) = None THEN Exceeded ELSE Row(net)
<1>4. Span(m) = Span(n) /\ By(m) = By(n)
  BY <1>1, <1>2, <1>3
<1>5. Source(m) = Source(n)
  <2> HIDE DEF By
  <2> QED BY <1>1, <1>4
<1>6. CASE StateOf(a) = "complete"
  <2> DEFINE Complete(net) ==
             [error |-> None, start |-> net.act[u].actual_start, finish |-> net.act[u].actual_finish,
              remaining_start |-> None, driver |-> None, source |-> "actuals",
              deferred |-> net.act[u].constraint # "ASAP", violated |-> FALSE, unbounded |-> FALSE]
  <2>1. PlaceReported(m, rule, u, logic) = Complete(m)
    BY <1>6, Zenon DEF PlaceReported
  <2>2. PlaceReported(n, rule, u, logic) = Complete(n)
    BY <1>1, <1>6, Zenon DEF PlaceReported
  <2>3. Complete(m) = Complete(n)
    BY <1>1
  <2> HIDE DEF Complete
  <2> QED BY <2>1, <2>2, <2>3
<1>7. CASE StateOf(a) # "complete"
  <2>1. PlaceReported(m, rule, u, logic) = Left(m)
    BY <1>7, Zenon DEF PlaceReported
  <2>2. PlaceReported(n, rule, u, logic) = Left(n)
    BY <1>1, <1>7, Zenon DEF PlaceReported
  <2>3. Left(m) = Left(n)
    <3> HIDE DEF Span, By, Source
    <3> QED BY <1>1, <1>4, <1>5
  <2> HIDE DEF Left
  <2> QED BY <2>1, <2>2, <2>3
<1> QED BY <1>6, <1>7

(* They give an activity the same row where logic asks for the same.         *)
LEMMA PlaceRowAlike ==
    ASSUME NEW m, NEW n, NEW u, AlikeBehind(m, n, u), NEW rule, NEW logic
    PROVE  PlaceRow(m, rule, u, logic) = PlaceRow(n, rule, u, logic)
<1> DEFINE a == m.act[u]
<1>1. a = n.act[u] /\ m.start = n.start /\ m.horizon = n.horizon /\ m.status = n.status
  BY DEF AlikeBehind
<1>2. UntouchedSpan(m, rule, a, logic) = UntouchedSpan(n, rule, a, logic)
  BY PlaceAlike DEF UntouchedSpan
<1>3. UntouchedDriver(m, rule, u, logic) = UntouchedDriver(n, rule, u, logic)
  BY <1>1, PlaceAlike DEF UntouchedDriver
<1>4. \A span : Fallback(m, rule, u, logic, span) = Fallback(n, rule, u, logic, span)
  BY <1>1, PlaceAlike DEF Fallback
<1>5. PlaceUntouched(m, rule, u, logic) = PlaceUntouched(n, rule, u, logic)
  BY <1>1, <1>2, <1>3, <1>4 DEF PlaceUntouched
<1> QED BY <1>1, <1>5, PlaceReportedAlike DEF PlaceRow

(* Logic asks for the same where the predecessors are placed alike.          *)
LEMMA BoundsAlike ==
    ASSUME NEW m, NEW n, NEW u, AlikeBehind(m, n, u), NEW rule, NEW p, NEW q,
           \A k \in Into(m, u) : p[m.edges[k].predecessor] = q[m.edges[k].predecessor]
    PROVE  /\ \A k \in Into(m, u) : Landing(m, p, k) = Landing(n, q, k)
           /\ Bounds(m, rule, p, u) = Bounds(n, rule, q, u)
<1>1. \A k \in Into(m, u) : Landing(m, p, k) = Landing(n, q, k)
  <2> SUFFICES ASSUME NEW k \in Into(m, u) PROVE Landing(m, p, k) = Landing(n, q, k)
    OBVIOUS
  <2>1. m.edges[k] = n.edges[k] /\ m.edges[k].successor = u
    BY DEF AlikeBehind, Into
  <2>2. LagCalendar(m, m.edges[k]) = LagCalendar(n, n.edges[k])
    BY <2>1 DEF LagCalendar, AlikeBehind
  <2> QED BY <2>1, <2>2 DEF Landing
<1> DEFINE Of(net, starts) == {j \in Binding(net, rule, u) : BoundsStart(net.edges[j]) = starts}
           Side(net, placed, starts) == [k \in Of(net, starts) |-> Landing(net, placed, k)]
<1>2. \A starts \in BOOLEAN : Of(m, starts) = Of(n, starts)
  BY PlaceAlike DEF AlikeBehind, Binding
<1>3. \A starts \in BOOLEAN : Of(m, starts) \subseteq Into(m, u)
  BY DEF Binding
<1>4. \A starts \in BOOLEAN : Side(m, p, starts) = Side(n, q, starts)
  BY <1>1, <1>2, <1>3
<1>5. Bounds(m, rule, p, u) =
        [start |-> Floored(Highest(Side(m, p, TRUE), Base(m, u)), m.start, CalendarFloor(m.act[u])),
         finish |-> Floored(Highest(Side(m, p, FALSE), Base(m, u)), CalendarFloor(m.act[u]),
                            CalendarFloor(m.act[u]))]
  BY DEF Bounds
<1>6. Bounds(n, rule, q, u) =
        [start |-> Floored(Highest(Side(n, q, TRUE), Base(n, u)), n.start, CalendarFloor(n.act[u])),
         finish |-> Floored(Highest(Side(n, q, FALSE), Base(n, u)), CalendarFloor(n.act[u]),
                            CalendarFloor(n.act[u]))]
  BY DEF Bounds
<1>7. Side(m, p, TRUE) = Side(n, q, TRUE) /\ Side(m, p, FALSE) = Side(n, q, FALSE)
  BY <1>4
<1> HIDE DEF Side, Of
<1>8. Base(m, u) = Base(n, u) /\ m.start = n.start /\ m.act[u] = n.act[u]
  BY PlaceAlike DEF AlikeBehind
<1>9. Bounds(m, rule, p, u) = Bounds(n, rule, q, u)
  BY <1>5, <1>6, <1>7, <1>8
<1> QED BY <1>1, <1>9

(* The early row is of the activity, the edges into it and the rows they     *)
(* come from.                                                                *)
LEMMA EarlyRowAlike ==
    ASSUME NEW m, NEW n, NEW u, AlikeBehind(m, n, u), NEW rule, NEW p, NEW q,
           \A k \in Into(m, u) : p[m.edges[k].predecessor] = q[m.edges[k].predecessor]
    PROVE  EarlyRow(m, rule, p, u) = EarlyRow(n, rule, q, u)
<1>1. \A k \in Binding(m, rule, u) : k \in Into(m, u)
  BY DEF Binding
<1>2. (\E k \in Binding(m, rule, u) : Landing(m, p, k) = None)
        <=> (\E k \in Binding(n, rule, u) : Landing(n, q, k) = None)
  BY <1>1, PlaceAlike, BoundsAlike
<1>3. Bounds(m, rule, p, u) = Bounds(n, rule, q, u)
  BY BoundsAlike
<1> QED BY <1>2, <1>3, PlaceRowAlike DEF EarlyRow

----------------------------------------------------------------------------
(* What the late row of an activity depends on.                            *)

(* Two networks are alike to an activity's late row.                         *)
AlikeAhead(m, n, u) ==
    /\ m.act[u] = n.act[u]
    /\ m.horizon = n.horizon /\ m.status = n.status
    /\ OutOf(m, u) = OutOf(n, u)
    /\ \A k \in OutOf(m, u) :
          /\ m.edges[k] = n.edges[k]
          /\ m.act[m.edges[k].successor] = n.act[m.edges[k].successor]

(* An edge asks the same of its predecessor where the successor is alike.    *)
LEMMA LateLandingAlike ==
    ASSUME NEW m, NEW n, NEW u, AlikeAhead(m, n, u), NEW e, NEW f, e[u] = f[u],
           NEW p, NEW q,
           \A k \in OutOf(m, u) : p[m.edges[k].successor] = q[m.edges[k].successor],
           NEW k \in OutOf(m, u)
    PROVE  LateLanding(m, e, p, k) = LateLanding(n, f, q, k)
<1>1. /\ m.edges[k] = n.edges[k] /\ m.edges[k].predecessor = u
      /\ m.act[m.edges[k].successor] = n.act[m.edges[k].successor] /\ m.horizon = n.horizon
      /\ p[m.edges[k].successor] = q[m.edges[k].successor]
  BY DEF AlikeAhead, OutOf
<1>2. LagCalendar(m, m.edges[k]) = LagCalendar(n, n.edges[k])
  BY <1>1 DEF LagCalendar
<1>3. Landing(m, e, k) = Landing(n, f, k)
  BY <1>1, <1>2 DEF Landing
<1>4. LateAnchor(m, e, p, k) = LateAnchor(n, f, q, k)
  BY <1>1, <1>3 DEF LateAnchor
<1> QED BY <1>1, <1>2, <1>4 DEF LateLanding

(* The same edges hold an activity back, and the same ties refuse it.        *)
LEMMA LateHeldAlike ==
    ASSUME NEW m, NEW n, NEW u, AlikeAhead(m, n, u), NEW rule, NEW p, NEW q,
           \A k \in OutOf(m, u) : p[m.edges[k].successor] = q[m.edges[k].successor]
    PROVE  /\ BindingBack(m, rule, p, u) = BindingBack(n, rule, q, u)
           /\ LateTie(m, p, OutOf(m, u)) <=> LateTie(n, q, OutOf(n, u))
<1>1. OutOf(m, u) = OutOf(n, u)
  BY DEF AlikeAhead
<1>2. ASSUME NEW k \in OutOf(m, u)
      PROVE  /\ m.edges[k] = n.edges[k] /\ m.edges[k].predecessor = u
             /\ p[m.edges[k].successor] = q[m.edges[k].successor]
             /\ k \in DOMAIN m.edges /\ k \in DOMAIN n.edges
             /\ RelationshipBinds(m, rule, m.edges[k]) <=> RelationshipBinds(n, rule, n.edges[k])
  <2>1. m.edges[k] = n.edges[k] /\ m.edges[k].predecessor = u
        /\ k \in DOMAIN m.edges /\ k \in DOMAIN n.edges
    BY DEF AlikeAhead, OutOf
  <2>2. m.act[m.edges[k].successor] = n.act[n.edges[k].successor] /\ m.status = n.status
    BY <2>1 DEF AlikeAhead
  <2>3. RelationshipBinds(m, rule, m.edges[k]) <=> RelationshipBinds(n, rule, n.edges[k])
    BY <2>1, <2>2 DEF RelationshipBinds
  <2> QED BY <2>1, <2>3
<1>3. ASSUME NEW k \in OutOf(m, u)
      PROVE  LaterAcross(m, p, k) = LaterAcross(n, q, k)
  <2>1. OutOf(m, m.edges[k].predecessor) = OutOf(m, u) /\ OutOf(n, n.edges[k].predecessor) = OutOf(m, u)
    BY <1>1, <1>2
  <2>2. \A j \in OutOf(m, u) : m.edges[j] = n.edges[j] /\ p[m.edges[j].successor] = q[n.edges[j].successor]
    BY <1>2
  <2> QED BY <2>1, <2>2 DEF LaterAcross
<1>4. BindingBack(m, rule, p, u) = BindingBack(n, rule, q, u)
  <2>1. \A k \in OutOf(m, u) : k \in Released(m, rule) <=> k \in Released(n, rule)
    BY <1>2 DEF Released
  <2> QED BY <2>1, <1>1, <1>3 DEF BindingBack
<1>5. LateTie(m, p, OutOf(m, u)) <=> LateTie(n, q, OutOf(n, u))
  BY <1>1, <1>3 DEF LateTie
<1> QED BY <1>4, <1>5

(* What is placed late is of the activity and its bounds.                    *)
LEMMA LateRowOfAlike ==
    ASSUME NEW m, NEW n, NEW u, m.act[u] = n.act[u], NEW rule, NEW logic, NEW finish
    PROVE  LateRowOf(m, rule, u, logic, finish) = LateRowOf(n, rule, u, logic, finish)
<1>1. \A a, s, f : PlaceLate(m, rule, a, s, f) = PlaceLate(n, rule, a, s, f)
  BY DEF PlaceLate
<1>2. LateSpan(m, rule, m.act[u], logic) = LateSpan(n, rule, n.act[u], logic)
  BY <1>1 DEF LateSpan
<1> QED BY <1>2 DEF LateRowOf

(* The late row is of the activity, the edges out of it and the rows they    *)
(* lead to.                                                                  *)
LEMMA LateRowAlike ==
    ASSUME NEW m, NEW n, NEW u, AlikeAhead(m, n, u), NEW rule, NEW e, NEW f, e[u] = f[u],
           NEW finish, NEW p, NEW q,
           \A k \in OutOf(m, u) : p[m.edges[k].successor] = q[m.edges[k].successor]
    PROVE  LateRow(m, rule, e, finish, p, u) = LateRow(n, rule, f, finish, q, u)
<1> DEFINE held == BindingBack(m, rule, p, u)
<1>1. held = BindingBack(n, rule, q, u) /\ m.act[u] = n.act[u]
  BY LateHeldAlike DEF AlikeAhead
<1>2. held \subseteq OutOf(m, u)
  BY DEF BindingBack
<1>3. \A k \in held : LateLanding(m, e, p, k) = LateLanding(n, f, q, k)
  BY <1>2, LateLandingAlike
<1>4. \A k \in held : AnchorsFinish(m.edges[k]) = AnchorsFinish(n.edges[k])
  BY <1>2 DEF AlikeAhead
<1> HIDE DEF held
<1> DEFINE Of(net, finishes) == {j \in held : AnchorsFinish(net.edges[j]) = finishes}
           Side(net, early, placed, finishes) ==
               [k \in Of(net, finishes) |-> LateLanding(net, early, placed, k)]
<1>5. \A finishes \in BOOLEAN : Of(m, finishes) = Of(n, finishes)
  BY <1>4
<1>6. \A finishes \in BOOLEAN : Side(m, e, p, finishes) = Side(n, f, q, finishes)
  BY <1>3, <1>5
<1>7. Side(m, e, p, TRUE) = Side(n, f, q, TRUE) /\ Side(m, e, p, FALSE) = Side(n, f, q, FALSE)
  BY <1>6
<1>8. LateBounds(m, e, p, finish, held) =
        [start |-> Lowest(Side(m, e, p, FALSE), finish), finish |-> Lowest(Side(m, e, p, TRUE), finish)]
  BY DEF LateBounds
<1>9. LateBounds(n, f, q, finish, held) =
        [start |-> Lowest(Side(n, f, q, FALSE), finish), finish |-> Lowest(Side(n, f, q, TRUE), finish)]
  BY DEF LateBounds
<1> HIDE DEF Side, Of
<1>10. LateBounds(m, e, p, finish, held) = LateBounds(n, f, q, finish, held)
  BY <1>7, <1>8, <1>9
<1>11. \A logic : LateRowOf(m, rule, u, logic, finish) = LateRowOf(n, rule, u, logic, finish)
  BY <1>1, LateRowOfAlike
<1>12. LateTie(m, p, OutOf(m, u)) <=> LateTie(n, q, OutOf(n, u))
  BY LateHeldAlike
<1>13. (\E k \in held : LateLanding(m, e, p, k) = None) <=> (\E k \in held : LateLanding(n, f, q, k) = None)
  BY <1>3
<1> DEFINE Complete(net) ==
             [error |-> None, start |-> net.act[u].actual_start, finish |-> net.act[u].actual_finish,
              remaining_start |-> None, driver |-> None, source |-> "actuals",
              deferred |-> net.act[u].constraint # "ASAP"]
           Rest(net, early, placed) ==
             IF LateTie(net, placed, OutOf(net, u))
             THEN [error |-> "SCHEDULE_INACTIVE_BOUNDARY_LATE_TIE"]
             ELSE IF \E k \in held : LateLanding(net, early, placed, k) = None
             THEN [error |-> "SCHEDULE_LAG_UNREACHABLE"]
             ELSE LateRowOf(net, rule, u, LateBounds(net, early, placed, finish, held), finish)
<1>14. LateRow(m, rule, e, finish, p, u) = IF StateOf(m.act[u]) = "complete" THEN Complete(m) ELSE Rest(m, e, p)
  BY Zenon DEF LateRow, held
<1>15. LateRow(n, rule, f, finish, q, u) = IF StateOf(n.act[u]) = "complete" THEN Complete(n) ELSE Rest(n, f, q)
  BY <1>1, Zenon DEF LateRow
<1>16. Complete(m) = Complete(n)
  BY <1>1
<1>17. Rest(m, e, p) = Rest(n, f, q)
  BY <1>10, <1>11, <1>12, <1>13
<1> HIDE DEF Done, Rest
<1> QED BY <1>1, <1>14, <1>15, <1>16, <1>17

----------------------------------------------------------------------------
(* What the rows of a whole pass are.                                       *)

EarlyNext(c, done, n) == WithRow(done, c.order[n], EarlyRow(c.net, c.rule, done.times, c.order[n]))
EarlyRecursion == INSTANCE Recursion WITH
    First <- NothingPlaced, Following <- EarlyNext, Claim <- GivenSoFar
LateNext(c, done, n) ==
    WithRow(done, c.order[n], LateRow(c.net, c.rule, c.early, c.finish, done.times, c.order[n]))
LateRecursion == INSTANCE Recursion WITH
    First <- NothingPlaced, Following <- LateNext, Claim <- GivenSoFar

(* Rows of all activities, each what the pass gives it when it reads the     *)
(* others.                                                                   *)
EarlySettled(net, rule, times) ==
    /\ DOMAIN times = DOMAIN net.act /\ IsFunction(times)
    /\ \A u \in DOMAIN net.act : times[u] = EarlyRow(net, rule, times, u) /\ times[u].error = None
LateSettled(net, rule, early, finish, times) ==
    /\ DOMAIN times = DOMAIN net.act /\ IsFunction(times)
    /\ \A u \in DOMAIN net.act :
          times[u] = LateRow(net, rule, early, finish, times, u) /\ times[u].error = None

(* The forward pass finds the one settlement of the early rows there is.     *)
LEMMA EarlyRowsSettle ==
    ASSUME NEW net, Enumerated(net), Acyclic(net), NEW rule
    PROVE  LET done == EarlyRows(net, rule) IN
           /\ done.error = None =>
                 done = [error |-> None, times |-> done.times] /\ EarlySettled(net, rule, done.times)
           /\ \A times : EarlySettled(net, rule, times) => done = [error |-> None, times |-> times]
<1> DEFINE seq == TopologicalOrder(net)
           D == DOMAIN net.act
           n == Len(seq)
           done == EarlyRows(net, rule)
           f == CHOOSE g : g = [k \in 0..n |-> IF k = 0 THEN [error |-> None, times |-> <<>>]
                    ELSE WithRow(g[k - 1], seq[k], EarlyRow(net, rule, g[k - 1].times, seq[k]))]
<1>1. /\ seq \in Seq(D) /\ Distinct(seq) /\ Sorted(net, seq)
      /\ \A u \in D : \E i \in 1..n : seq[i] = u
  BY TopologicalOrderFacts
<1>2. done = f[n]
  BY DEF EarlyRows, Traverse
<1> HIDE DEF seq
<1>3. n \in Nat
  BY <1>1
<1> SUFFICES ASSUME NEW times
             PROVE  /\ done.error = None => done = [error |-> None, times |-> done.times]
                                             /\ EarlySettled(net, rule, done.times)
                    /\ EarlySettled(net, rule, times) => done = [error |-> None, times |-> times]
  BY DEF seq
<1> DEFINE c == Traversal(FALSE, net, rule, None, None, seq, times)
<1>4. /\ c.order = seq /\ c.net = net /\ c.rule = rule /\ c.late = FALSE /\ c.given = times
  BY DEF Traversal
<1>5. f = CHOOSE g : EarlyRecursion!Recursive([order |-> seq, net |-> net, rule |-> rule], n, g)
  BY DEF EarlyRecursion!Recursive, NothingPlaced, EarlyNext
<1> HIDE DEF f, c, done
<1> DEFINE b == [order |-> seq, net |-> net, rule |-> rule]
<1>6. f[0] = NothingPlaced(b) /\ \A k \in 1..n : f[k] = EarlyNext(b, f[k - 1], k)
  <2>1. f = CHOOSE g : EarlyRecursion!Recursive(b, n, g)
    BY <1>5
  <2> HIDE DEF b, n
  <2> QED BY ONLY <1>3, <2>1, EarlyRecursion!RecursiveDefinition
<1>7. \A p, u : RowOf(c, p, u) = EarlyRow(net, rule, p, u)
  BY <1>4 DEF RowOf
<1>8. f[0] = NothingPlaced(c) /\ \A k \in 1..n : f[k] = PlaceNext(c, f[k - 1], k)
  BY <1>4, <1>6, <1>7 DEF NothingPlaced, EarlyNext, PlaceNext
<1>9. ReadsBehind(c)
  <2> SUFFICES ASSUME NEW i \in 1..n, NEW p, NEW q, \A j \in 1..(i - 1) : p[seq[j]] = q[seq[j]]
               PROVE  EarlyRow(net, rule, p, seq[i]) = EarlyRow(net, rule, q, seq[i])
    BY <1>4, <1>7 DEF ReadsBehind
  <2>1. AlikeBehind(net, net, seq[i])
    BY DEF AlikeBehind
  <2>2. \A k \in Into(net, seq[i]) : p[net.edges[k].predecessor] = q[net.edges[k].predecessor]
    <3> SUFFICES ASSUME NEW k \in Into(net, seq[i])
                 PROVE  p[net.edges[k].predecessor] = q[net.edges[k].predecessor]
      OBVIOUS
    <3>1. PICK j \in 1..(i - 1) : seq[j] = net.edges[k].predecessor
      BY <1>1 DEF Sorted
    <3> QED BY ONLY <3>1, \A h \in 1..(i - 1) : p[seq[h]] = q[seq[h]]
  <2> QED BY <2>1, <2>2, EarlyRowAlike
<1>10. /\ done.error = None => done = [error |-> None, times |-> done.times]
                                  /\ Settled(c, done.times, Upto(c, n))
       /\ Settled(c, times, Upto(c, n)) => done = [error |-> None, times |-> times]
  <2>1. /\ c.order \in Seq(D) /\ Distinct(c.order) /\ n = Len(c.order) /\ done = f[Len(c.order)]
        /\ c.given = times /\ \A k \in 1..Len(c.order) : f[k] = PlaceNext(c, f[k - 1], k)
    BY <1>1, <1>2, <1>4, <1>8
  <2>2. f[0] = NothingPlaced(c)
    BY <1>8
  <2> HIDE DEF n, D
  <2> QED BY <2>1, <2>2, <1>9, TraversalFacts
<1>11. Upto(c, n) = D
  BY <1>1, <1>3, <1>4 DEF Upto
<1>12. \A t : Settled(c, t, Upto(c, n)) <=> EarlySettled(net, rule, t)
  BY <1>7, <1>11 DEF Settled, EarlySettled
<1> QED BY <1>10, <1>12

(* A sequence backwards.                                                     *)
LEMMA ReverseFacts ==
    ASSUME NEW X, NEW seq \in Seq(X)
    PROVE  /\ Reverse(seq) \in Seq(X) /\ Len(Reverse(seq)) = Len(seq)
           /\ \A i \in 1..Len(seq) : Reverse(seq)[i] = seq[Len(seq) - i + 1]
           /\ Distinct(seq) => Distinct(Reverse(seq))
<1>1. Reverse(seq) = [i \in 1..Len(seq) |-> seq[(Len(seq) - i) + 1]]
  BY DEF Reverse
<1>2. Len(seq) \in Nat
  OBVIOUS
<1>3. \A i \in 1..Len(seq) : (Len(seq) - i) + 1 \in 1..Len(seq)
  BY <1>2
<1>4. Reverse(seq) \in Seq(X) /\ Len(Reverse(seq)) = Len(seq)
  BY <1>1, <1>2, <1>3
<1>5. \A i \in 1..Len(seq) : Reverse(seq)[i] = seq[Len(seq) - i + 1]
  BY <1>1
<1>6. Distinct(seq) => Distinct(Reverse(seq))
  <2> SUFFICES ASSUME Distinct(seq), NEW i \in 1..Len(seq), NEW j \in 1..Len(seq),
                      Reverse(seq)[i] = Reverse(seq)[j]
               PROVE  i = j
    BY <1>4 DEF Distinct
  <2>1. (Len(seq) - i) + 1 = (Len(seq) - j) + 1
    BY <1>3, <1>5 DEF Distinct
  <2> QED BY <1>2, <2>1
<1> QED BY <1>4, <1>5, <1>6

(* The backward pass finds the one settlement of the late rows there is.     *)
LEMMA LateRowsSettle ==
    ASSUME NEW net, Enumerated(net), Acyclic(net),
           \A k \in DOMAIN net.edges : net.edges[k].successor \in DOMAIN net.act,
           NEW rule, NEW early, NEW finish
    PROVE  LET done == LateRows(net, rule, early, finish) IN
           /\ done.error = None => done = [error |-> None, times |-> done.times]
                                    /\ LateSettled(net, rule, early, finish, done.times)
           /\ \A times : LateSettled(net, rule, early, finish, times)
                            => done = [error |-> None, times |-> times]
<1> DEFINE order == TopologicalOrder(net)
           seq == Reverse(order)
           D == DOMAIN net.act
           n == Len(seq)
           done == LateRows(net, rule, early, finish)
           f == CHOOSE g : g = [k \in 0..n |-> IF k = 0 THEN [error |-> None, times |-> <<>>]
                    ELSE WithRow(g[k - 1], seq[k],
                                 LateRow(net, rule, early, finish, g[k - 1].times, seq[k]))]
<1>1. /\ order \in Seq(D) /\ Distinct(order) /\ Sorted(net, order)
      /\ \A u \in D : \E i \in 1..Len(order) : order[i] = u
  BY TopologicalOrderFacts
<1>2. done = f[n]
  BY DEF LateRows, Traverse
<1> HIDE DEF order
<1>3. /\ seq \in Seq(D) /\ n = Len(order) /\ Distinct(seq) /\ n \in Nat
      /\ \A i \in 1..n : seq[i] = order[n - i + 1]
  <2>1. Len(order) \in Nat
    BY <1>1
  <2>2. seq \in Seq(D) /\ n = Len(order) /\ Distinct(seq)
        /\ \A i \in 1..Len(order) : seq[i] = order[Len(order) - i + 1]
    BY <1>1, ReverseFacts
  <2> HIDE DEF seq
  <2> QED BY <2>1, <2>2
<1> HIDE DEF seq
<1>4. \A i \in 1..n : n - i + 1 \in 1..n /\ n - (n - i + 1) + 1 = i
  <2> HIDE DEF n
  <2> QED BY <1>3
<1>5. \A u \in D : \E i \in 1..n : seq[i] = u
  <2> SUFFICES ASSUME NEW u \in D PROVE \E i \in 1..n : seq[i] = u
    OBVIOUS
  <2>1. PICK i \in 1..n : order[i] = u
    BY <1>1, <1>3
  <2>2. n - i + 1 \in 1..n /\ seq[n - i + 1] = order[i]
    BY <1>3, <1>4
  <2> QED BY <2>1, <2>2
<1>6. ASSUME NEW i \in 1..n, NEW k \in OutOf(net, seq[i])
      PROVE  \E j \in 1..(i - 1) : seq[j] = net.edges[k].successor
  <2> DEFINE s == net.edges[k].successor
  <2>1. s \in D /\ k \in Into(net, s) /\ net.edges[k].predecessor = seq[i]
    BY DEF OutOf, Into
  <2>2. PICK j \in 1..n : seq[j] = s
    BY <1>5, <2>1
  <2> HIDE DEF s, n
  <2>3. PICK m \in 1..Len(order) : m = n - j + 1 /\ order[m] = s
    BY <1>3, <1>4, <2>2
  <2>4. PICK h \in 1..(m - 1) : order[h] = seq[i]
    <3>1. k \in Into(net, order[m])
      BY <2>1, <2>3
    <3> QED BY <1>1, <2>1, <3>1 DEF Sorted
  <2>5. h \in 1..Len(order) /\ n - i + 1 \in 1..Len(order) /\ order[n - i + 1] = seq[i]
    BY <1>3, <1>4, <2>3, <2>4
  <2>6. h = n - i + 1
    BY <1>1, <2>4, <2>5 DEF Distinct
  <2>7. j \in 1..(i - 1)
    BY <1>3, <2>3, <2>4, <2>6
  <2> QED BY <2>2, <2>7 DEF s
<1> SUFFICES ASSUME NEW times
             PROVE  /\ done.error = None => done = [error |-> None, times |-> done.times]
                                             /\ LateSettled(net, rule, early, finish, done.times)
                    /\ LateSettled(net, rule, early, finish, times)
                          => done = [error |-> None, times |-> times]
  BY DEF order
<1> DEFINE c == Traversal(TRUE, net, rule, early, finish, seq, times)
           b == [order |-> seq, net |-> net, rule |-> rule, early |-> early, finish |-> finish]
<1>7. /\ c.order = seq /\ c.net = net /\ c.rule = rule /\ c.late = TRUE /\ c.given = times
      /\ c.early = early /\ c.finish = finish
  BY DEF Traversal
<1>8. f = CHOOSE g : LateRecursion!Recursive(b, n, g)
  BY DEF LateRecursion!Recursive, NothingPlaced, LateNext
<1> HIDE DEF f, c, done
<1>9. f[0] = NothingPlaced(b) /\ \A k \in 1..n : f[k] = LateNext(b, f[k - 1], k)
  <2> HIDE DEF b, n
  <2> QED BY <1>3, <1>8, LateRecursion!RecursiveDefinition
<1>10. \A p, u : RowOf(c, p, u) = LateRow(net, rule, early, finish, p, u)
  BY <1>7 DEF RowOf
<1>11. f[0] = NothingPlaced(c) /\ \A k \in 1..n : f[k] = PlaceNext(c, f[k - 1], k)
  BY <1>7, <1>9, <1>10 DEF NothingPlaced, LateNext, PlaceNext
<1>12. ReadsBehind(c)
  <2> SUFFICES ASSUME NEW i \in 1..n, NEW p, NEW q, \A j \in 1..(i - 1) : p[seq[j]] = q[seq[j]]
               PROVE  LateRow(net, rule, early, finish, p, seq[i])
                        = LateRow(net, rule, early, finish, q, seq[i])
    BY <1>7, <1>10 DEF ReadsBehind
  <2>1. AlikeAhead(net, net, seq[i])
    BY DEF AlikeAhead
  <2>2. \A k \in OutOf(net, seq[i]) : p[net.edges[k].successor] = q[net.edges[k].successor]
    BY <1>6
  <2> QED BY <2>1, <2>2, LateRowAlike
<1>13. /\ done.error = None => done = [error |-> None, times |-> done.times]
                                  /\ Settled(c, done.times, Upto(c, n))
       /\ Settled(c, times, Upto(c, n)) => done = [error |-> None, times |-> times]
  BY <1>2, <1>3, <1>7, <1>11, <1>12, TraversalFacts
<1>14. Upto(c, n) = D
  <2>1. \A i \in 1..n : seq[i] \in D
    BY <1>3
  <2> QED BY <2>1, <1>5, <1>7 DEF Upto
<1>15. \A t : Settled(c, t, Upto(c, n)) <=> LateSettled(net, rule, early, finish, t)
  BY <1>10, <1>14 DEF Settled, LateSettled
<1> QED BY <1>13, <1>15

----------------------------------------------------------------------------
(* What an error-free pass is.                                              *)

(* The ends of the edges are activities.                                     *)
EdgesJoin(net) ==
    \A k \in DOMAIN net.edges :
        net.edges[k].predecessor \in DOMAIN net.act /\ net.edges[k].successor \in DOMAIN net.act

Forward(net, rule, times) ==
    [error |-> None, network |-> net, rule |-> rule, times |-> times,
     finish |-> ProjectFinish(net, times)]
Backward(net, rule, times, finish) ==
    [error |-> None, network |-> net, rule |-> rule, times |-> times,
     late_finish |-> finish, released |-> Released(net, rule)]

(* A forward pass without an error placed every activity of a valid network. *)
LEMMA ForwardFacts ==
    ASSUME NEW net, Enumerated(net), NEW rule, ForwardPass(net, rule).error = None
    PROVE  /\ Validated(net) /\ Supported(net, rule) /\ Acyclic(net) /\ EdgesJoin(net)
           /\ ForwardPass(net, rule) = Forward(net, rule, ForwardPass(net, rule).times)
           /\ EarlySettled(net, rule, ForwardPass(net, rule).times)
<1> DEFINE rows == EarlyRows(net, rule)
           pass == ForwardPass(net, rule)
<1>1. None \notin {"SCHEDULE_INVALID", "PROGRESS_POLICY_NOT_EVIDENCED", "SCHEDULE_CYCLE"}
  BY RefusalsAssumption DEF Codes
<1>2. Validated(net) /\ Supported(net, rule) /\ Acyclic(net)
  BY <1>1 DEF ForwardPass
<1>3. EdgesJoin(net)
  BY <1>2 DEF Validated, EdgesJoin
<1>4. pass = [error |-> rows.error, network |-> net, rule |-> rule, times |-> rows.times,
              finish |-> ProjectFinish(net, rows.times)]
  BY <1>2 DEF ForwardPass
<1> HIDE DEF rows, pass
<1>5. rows.error = None /\ pass.times = rows.times
  BY <1>4 DEF pass
<1>6. EarlySettled(net, rule, rows.times)
  BY <1>2, <1>5, EarlyRowsSettle DEF rows
<1>7. pass = Forward(net, rule, pass.times)
  BY <1>4, <1>5 DEF Forward
<1> QED BY <1>2, <1>3, <1>5, <1>6, <1>7 DEF pass

(* Rows that settle a valid network are the answer of the forward pass.      *)
LEMMA ForwardOfSettled ==
    ASSUME NEW net, Enumerated(net), NEW rule, NEW times,
           Validated(net), Supported(net, rule), Acyclic(net), EarlySettled(net, rule, times)
    PROVE  ForwardPass(net, rule) = Forward(net, rule, times)
<1>1. EarlyRows(net, rule) = [error |-> None, times |-> times]
  BY EarlyRowsSettle
<1> QED BY <1>1 DEF ForwardPass, Forward

(* A backward pass without an error placed every activity as late as it can. *)
LEMMA BackwardFacts ==
    ASSUME NEW net, Enumerated(net), Acyclic(net), EdgesJoin(net), NEW forward, NEW finish,
           BackwardPass(net, forward, finish).error = None
    PROVE  LET times == BackwardPass(net, forward, finish).times IN
           /\ forward.network = net /\ ~(finish > net.horizon)
           /\ BackwardPass(net, forward, finish) = Backward(net, forward.rule, times, finish)
           /\ LateSettled(net, forward.rule, forward.times, finish, times)
<1> DEFINE rows == LateRows(net, forward.rule, forward.times, finish)
           pass == BackwardPass(net, forward, finish)
<1>1. None \notin {"SCHEDULE_PASS_MISMATCH", "SCHEDULE_HORIZON_EXCEEDED"}
  BY RefusalsAssumption DEF Codes
<1>2. forward.network = net /\ ~(finish > net.horizon)
  BY <1>1 DEF BackwardPass
<1>3. pass = [error |-> rows.error, network |-> net, rule |-> forward.rule, times |-> rows.times,
              late_finish |-> finish, released |-> Released(net, forward.rule)]
  BY <1>2 DEF BackwardPass
<1> HIDE DEF rows, pass
<1>4. rows.error = None /\ pass.times = rows.times
  BY <1>3 DEF pass
<1>5. LateSettled(net, forward.rule, forward.times, finish, rows.times)
  BY <1>4, LateRowsSettle DEF rows, EdgesJoin
<1>6. pass = Backward(net, forward.rule, pass.times, finish)
  BY <1>3, <1>4 DEF Backward
<1> QED BY <1>2, <1>4, <1>5, <1>6 DEF pass

(* Late rows that settle a network are the answer of the backward pass.      *)
LEMMA BackwardOfSettled ==
    ASSUME NEW net, Enumerated(net), Acyclic(net), EdgesJoin(net), NEW forward, NEW finish,
           NEW times, forward.network = net, ~(finish > net.horizon),
           LateSettled(net, forward.rule, forward.times, finish, times)
    PROVE  BackwardPass(net, forward, finish) = Backward(net, forward.rule, times, finish)
<1>1. LateRows(net, forward.rule, forward.times, finish) = [error |-> None, times |-> times]
  BY LateRowsSettle DEF EdgesJoin
<1> QED BY <1>1 DEF BackwardPass, Backward

----------------------------------------------------------------------------
(* The component of an activity.                                            *)

OnlyIt(c) == {c.from}
AndNeighbours(c, before, n) == Neighbourhood(c.net, before)
ClosedUnder(net, S) == \A v \in S : Neighbours(net, v) \subseteq S
(* What n rounds reached is closed, or has n more activities than one.       *)
Growing(c, n, S) ==
    /\ c.from \in S /\ S \subseteq DOMAIN c.net.act
    /\ ClosedUnder(c.net, S) \/ n < Cardinality(S)
Reaching == INSTANCE Recursion WITH First <- OnlyIt, Following <- AndNeighbours, Claim <- Growing

(* The activities of a network are as many as it declares.                   *)
LEMMA ActivitiesCounted ==
    ASSUME NEW net, Enumerated(net)
    PROVE  /\ IsFiniteSet(DOMAIN net.act) /\ Cardinality(DOMAIN net.act) = Len(net.order)
           /\ Len(net.order) \in Nat
<1> DEFINE n == Len(net.order)
<1>1. n \in Nat /\ net.order \in Seq(DOMAIN net.act)
  BY DEF Enumerated
<1>2. IsFiniteSet(1..n) /\ Cardinality(1..n) = n
  BY <1>1, FS_Interval
<1>3. net.order \in Bijection(1..n, DOMAIN net.act)
  <2>1. /\ net.order \in [1..n -> DOMAIN net.act]
        /\ \A i, j \in 1..n : net.order[i] = net.order[j] => i = j
        /\ \A u \in DOMAIN net.act : \E i \in 1..n : net.order[i] = u
    BY <1>1 DEF Enumerated, Distinct
  <2> HIDE DEF n
  <2> QED BY <2>1 DEF Bijection, Injection, IsInjective, Surjection
<1> QED BY <1>1, <1>2, <1>3, FS_Bijection DEF ExistsBijection

(* The component of an activity has both ends of an edge or neither.         *)
LEMMA ComponentIsClosed ==
    ASSUME NEW net, Enumerated(net), EdgesJoin(net), NEW u \in DOMAIN net.act
    PROVE  /\ u \in Component(net, u) /\ Component(net, u) \subseteq DOMAIN net.act
           /\ \A k \in DOMAIN net.edges :
                 net.edges[k].predecessor \in Component(net, u)
                    <=> net.edges[k].successor \in Component(net, u)
<1> DEFINE n == Len(net.order)
           D == DOMAIN net.act
           C == Component(net, u)
           c == [net |-> net, from |-> u]
           f == CHOOSE g : g = [k \in 0..n |-> IF k = 0 THEN {u}
                    ELSE Neighbourhood(net, g[k - 1])]
<1>1. IsFiniteSet(D) /\ Cardinality(D) = n /\ n \in Nat
  BY ActivitiesCounted
<1>2. f = CHOOSE g : Reaching!Recursive(c, n, g)
  BY DEF Reaching!Recursive, OnlyIt, AndNeighbours
<1>3. C = f[n]
  BY DEF Component, Reached
<1> HIDE DEF f, n
<1>4. f[0] = OnlyIt(c) /\ \A k \in 1..n : f[k] = AndNeighbours(c, f[k - 1], k)
  <2> HIDE DEF c
  <2> QED BY <1>1, <1>2, Reaching!RecursiveDefinition
<1>5. \A v : Neighbours(net, v) \subseteq D
  BY DEF Neighbours
<1>6. Growing(c, 0, OnlyIt(c))
  <2>1. Cardinality({u}) = 1
    BY FS_Singleton
  <2> QED BY <2>1 DEF Growing, OnlyIt
<1>7. ASSUME NEW k \in 1..n, Growing(c, k - 1, f[k - 1])
      PROVE  Growing(c, k, AndNeighbours(c, f[k - 1], k))
  <2> DEFINE S == f[k - 1]
             T == S \union UNION {Neighbours(net, v) : v \in S}
  <2>1. u \in S /\ S \subseteq D /\ (ClosedUnder(net, S) \/ k - 1 < Cardinality(S))
    BY <1>7 DEF Growing
  <2>2. AndNeighbours(c, f[k - 1], k) = T
    BY DEF AndNeighbours, Neighbourhood
  <2> HIDE DEF S
  <2>3. u \in T /\ T \subseteq D
    BY <1>5, <2>1
  <2>4. CASE ClosedUnder(net, S)
    <3>1. T = S
      BY <2>4 DEF ClosedUnder
    <3> QED BY <2>2, <2>3, <2>4, <3>1 DEF Growing
  <2>5. CASE ~ClosedUnder(net, S)
    <3>1. PICK w \in T : w \notin S
      BY <2>5 DEF ClosedUnder
    <3>2. IsFiniteSet(S) /\ IsFiniteSet(T)
      BY <1>1, <2>1, <2>3, FS_Subset
    <3>3. S \subseteq T
      OBVIOUS
    <3> HIDE DEF T
    <3>4. Cardinality(S) <= Cardinality(T) /\ (Cardinality(T) = Cardinality(S) => T = S)
      BY <3>2, <3>3, FS_Subset
    <3>5. Cardinality(S) \in Nat /\ Cardinality(T) \in Nat
      BY <3>2, FS_CardinalityType
    <3>6. k < Cardinality(T)
      BY <2>1, <2>5, <3>1, <3>4, <3>5
    <3> QED BY <2>2, <2>3, <3>6 DEF Growing
  <2> QED BY <2>4, <2>5
<1>8. \A k \in 0..n : Growing(c, k, f[k])
  <2> HIDE DEF c
  <2> QED BY <1>1, <1>4, <1>6, <1>7, Reaching!RecursiveInduction
<1>9. u \in C /\ C \subseteq D /\ (ClosedUnder(net, C) \/ n < Cardinality(C))
  BY <1>1, <1>3, <1>8 DEF Growing
<1>10. ClosedUnder(net, C)
  <2>1. IsFiniteSet(C) /\ Cardinality(C) <= n
    BY <1>1, <1>9, FS_Subset
  <2>2. Cardinality(C) \in Nat
    BY <2>1, FS_CardinalityType
  <2> QED BY <1>1, <1>9, <2>1, <2>2
<1>11. ASSUME NEW k \in DOMAIN net.edges
       PROVE  net.edges[k].predecessor \in C <=> net.edges[k].successor \in C
  <2> DEFINE p == net.edges[k].predecessor
             s == net.edges[k].successor
  <2>1. p \in D /\ s \in D
    BY DEF EdgesJoin
  <2>2. s \in Neighbours(net, p) /\ p \in Neighbours(net, s)
    BY <2>1 DEF Neighbours
  <2> HIDE DEF p, s, C
  <2>3. p \in C <=> s \in C
    BY <1>10, <2>2 DEF ClosedUnder
  <2> QED BY <2>3 DEF p, s
<1> QED BY <1>9, <1>11

----------------------------------------------------------------------------
(* A network whose component is recalculated by itself.                     *)

(* The part of a network on a set of its activities with all their edges.    *)
LEMMA SubsetFacts ==
    ASSUME NEW net, IsNetwork(net), NEW C \in SUBSET DOMAIN net.act,
           \A k \in DOMAIN net.edges :
               net.edges[k].predecessor \in C <=> net.edges[k].successor \in C
    PROVE  LET part == Subset(net, C) IN
           /\ Enumerated(part) /\ DOMAIN part.act = C
           /\ part.start = net.start /\ part.horizon = net.horizon /\ part.status = net.status
           /\ \A v \in C : part.act[v] = net.act[v]
           /\ \A v \in C : Into(part, v) = Into(net, v) /\ OutOf(part, v) = OutOf(net, v)
           /\ DOMAIN part.edges = {k \in DOMAIN net.edges : net.edges[k].predecessor \in C}
           /\ \A k \in DOMAIN part.edges : part.edges[k] = net.edges[k]
<1> DEFINE part == Subset(net, C)
           E == {k \in DOMAIN net.edges :
                    {net.edges[k].predecessor, net.edges[k].successor} \subseteq C}
<1>1. part = [order |-> Among(net.order, C), act |-> [v \in C |-> net.act[v]],
              edges |-> [k \in E |-> net.edges[k]],
              start |-> net.start, horizon |-> net.horizon, status |-> net.status]
  <2> SUFFICES ASSUME NEW o, NEW a, NEW e, NEW s, NEW h, NEW t,
                      net = [order |-> o, act |-> a, edges |-> e, start |-> s, horizon |-> h,
                             status |-> t]
               PROVE  part = [order |-> Among(o, C), act |-> [v \in C |-> a[v]],
                              edges |-> [k \in E |-> e[k]], start |-> s, horizon |-> h,
                              status |-> t]
    BY DEF IsNetwork
  <2>1. net.order = o /\ net.act = a /\ net.edges = e
    OBVIOUS
  <2>2. part = [net EXCEPT !.order = Among(net.order, C), !.act = [v \in C |-> net.act[v]],
                           !.edges = [k \in E |-> net.edges[k]]]
    BY Zenon DEF Subset
  <2> HIDE DEF E, part
  <2>3. \A x, y, z : [net EXCEPT !.order = x, !.act = y, !.edges = z]
                       = [order |-> x, act |-> y, edges |-> z, start |-> s, horizon |-> h,
                          status |-> t]
    <3> SUFFICES ASSUME NEW x, NEW y, NEW z
                 PROVE  [net EXCEPT !.order = x, !.act = y, !.edges = z]
                          = [order |-> x, act |-> y, edges |-> z, start |-> s, horizon |-> h,
                             status |-> t]
      OBVIOUS
    <3>1. [net EXCEPT !.order = x] = [order |-> x, act |-> a, edges |-> e, start |-> s,
                                      horizon |-> h, status |-> t]
      OBVIOUS
    <3>2. [[order |-> x, act |-> a, edges |-> e, start |-> s, horizon |-> h, status |-> t]
              EXCEPT !.act = y] = [order |-> x, act |-> y, edges |-> e, start |-> s,
                                   horizon |-> h, status |-> t]
      OBVIOUS
    <3>3. [[order |-> x, act |-> y, edges |-> e, start |-> s, horizon |-> h, status |-> t]
              EXCEPT !.edges = z] = [order |-> x, act |-> y, edges |-> z, start |-> s,
                                     horizon |-> h, status |-> t]
      OBVIOUS
    <3> QED BY <3>1, <3>2, <3>3
  <2> QED BY <2>1, <2>2, <2>3
<1>2. E = {k \in DOMAIN net.edges : net.edges[k].predecessor \in C}
  OBVIOUS
<1> HIDE DEF E
<1>3. /\ part.order = Among(net.order, C) /\ DOMAIN part.act = C
      /\ part.start = net.start /\ part.horizon = net.horizon /\ part.status = net.status
      /\ \A v \in C : part.act[v] = net.act[v]
      /\ DOMAIN part.edges = E /\ \A k \in E : part.edges[k] = net.edges[k]
  BY <1>1
<1> HIDE DEF part
<1>4. \A v \in C : Into(part, v) = Into(net, v) /\ OutOf(part, v) = OutOf(net, v)
  BY <1>2, <1>3 DEF Into, OutOf
<1>5. Enumerated(part)
  <2>1. net.order \in Seq(DOMAIN net.act) /\ Distinct(net.order)
        /\ \A v \in DOMAIN net.act : \E i \in 1..Len(net.order) : net.order[i] = v
    BY DEF IsNetwork, Enumerated
  <2> DEFINE some == Among(net.order, C)
  <2>2. /\ some \in Seq(DOMAIN net.act) /\ Distinct(some)
        /\ \A x : (\E i \in 1..Len(some) : some[i] = x)
                    <=> x \in C /\ \E i \in 1..Len(net.order) : net.order[i] = x
    BY <2>1, AmongFacts
  <2> HIDE DEF some
  <2>3. \A i \in 1..Len(some) : some[i] \in C
    BY <2>2
  <2>4. some \in Seq(C)
    BY <2>2, <2>3
  <2>5. \A v \in C : \E i \in 1..Len(some) : some[i] = v
    BY <2>1, <2>2
  <2> QED BY <1>3, <2>2, <2>4, <2>5 DEF Enumerated, some
<1> QED BY <1>2, <1>3, <1>4, <1>5 DEF part

(* A network with one activity reported on.                                  *)
LEMMA ReportedNetwork ==
    ASSUME NEW old, IsNetwork(old), NEW u, NEW a
    PROVE  LET network == [old EXCEPT !.act[u] = a] IN
           /\ IsNetwork(network) /\ DOMAIN network.act = DOMAIN old.act
           /\ network.order = old.order /\ network.edges = old.edges
           /\ network.start = old.start /\ network.horizon = old.horizon
           /\ network.status = old.status
           /\ \A v \in DOMAIN old.act : network.act[v] = IF v = u THEN a ELSE old.act[v]
<1> SUFFICES ASSUME NEW o, NEW b, NEW e, NEW s, NEW h, NEW t,
                    old = [order |-> o, act |-> b, edges |-> e, start |-> s, horizon |-> h,
                           status |-> t]
             PROVE  LET network == [old EXCEPT !.act[u] = a] IN
                    /\ network = [order |-> o, act |-> [b EXCEPT ![u] = a], edges |-> e,
                                  start |-> s, horizon |-> h, status |-> t]
  <2>1. PICK o, b, e, s, h, t : old = [order |-> o, act |-> b, edges |-> e, start |-> s,
                                       horizon |-> h, status |-> t]
    BY DEF IsNetwork
  <2> DEFINE network == [old EXCEPT !.act[u] = a]
             c == [b EXCEPT ![u] = a]
  <2>2. network = [order |-> o, act |-> c, edges |-> e, start |-> s, horizon |-> h, status |-> t]
    BY <2>1
  <2>3. DOMAIN c = DOMAIN b /\ \A v \in DOMAIN b : c[v] = IF v = u THEN a ELSE b[v]
    OBVIOUS
  <2>4. old.order = o /\ old.act = b /\ old.edges = e /\ old.start = s /\ old.horizon = h
        /\ old.status = t
    BY <2>1
  <2> HIDE DEF network, c
  <2>5. network.order = o /\ network.act = c /\ network.edges = e /\ network.start = s
        /\ network.horizon = h /\ network.status = t
    BY <2>2
  <2>6. Enumerated(network)
    BY <2>3, <2>4, <2>5 DEF IsNetwork, Enumerated
  <2>7. IsNetwork(network)
    BY <2>2, <2>5, <2>6 DEF IsNetwork
  <2> QED BY <2>3, <2>4, <2>5, <2>7 DEF network
<1>1. old.act = b
  OBVIOUS
<1>2. \A x : [old EXCEPT !.act = x] = [order |-> o, act |-> x, edges |-> e, start |-> s,
                                       horizon |-> h, status |-> t]
  OBVIOUS
<1>3. [old EXCEPT !.act[u] = a] = [old EXCEPT !.act = [old.act EXCEPT ![u] = a]]
  OBVIOUS
<1> QED BY <1>1, <1>2, <1>3

(* The order of a network is of its declaration and its edges alone.         *)
LEMMA OrderAlike ==
    ASSUME NEW m, NEW n, Enumerated(m), Enumerated(n), m.order = n.order, m.edges = n.edges,
           DOMAIN m.act = DOMAIN n.act
    PROVE  TopologicalOrder(m) = TopologicalOrder(n)
<1> DEFINE top == Len(m.order)
           Walk(net) == CHOOSE g : g = [k \in 0..Len(net.order) |-> IF k = 0
                    THEN [order |-> <<>>, ready |-> Among(net.order, Free(net, {}))]
                    ELSE Visit(net, g[k - 1])]
           f == Walk(m)
           g == Walk(n)
<1>1. top \in Nat
  BY DEF Enumerated
<1>2. f = CHOOSE x : Kahn!Recursive(m, top, x)
  BY DEF Kahn!Recursive, KahnStart, KahnStep
<1>3. g = CHOOSE x : Kahn!Recursive(n, Len(n.order), x)
  BY DEF Kahn!Recursive, KahnStart, KahnStep
<1>4. TopologicalOrder(m) = f[top].order /\ TopologicalOrder(n) = g[Len(n.order)].order
  BY DEF TopologicalOrder
<1> HIDE DEF f, g, top, Walk
<1>5. top = Len(n.order)
  BY DEF top
<1>6. f[0] = KahnStart(m) /\ \A k \in 1..top : f[k] = KahnStep(m, f[k - 1], k)
  BY <1>1, <1>2, Kahn!RecursiveDefinition
<1>7. g[0] = KahnStart(n) /\ \A k \in 1..top : g[k] = KahnStep(n, g[k - 1], k)
  BY <1>1, <1>3, <1>5, Kahn!RecursiveDefinition
<1>8. \A v : Into(m, v) = Into(n, v)
  BY DEF Into
<1>9. \A done : Free(m, done) = Free(n, done)
  BY <1>8 DEF Free
<1>10. KahnStart(m) = KahnStart(n)
  BY <1>9 DEF KahnStart
<1>11. \A walk, k : KahnStep(m, walk, k) = KahnStep(n, walk, k)
  <2> SUFFICES ASSUME NEW walk PROVE Visit(m, walk) = Visit(n, walk)
    BY DEF KahnStep
  <2> DEFINE Freed(net) == {v \in Free(net, ToSet(walk.order) \union {Head(walk.ready)}) :
                              \E k \in Into(net, v) : net.edges[k].predecessor = Head(walk.ready)}
  <2>1. Freed(m) = Freed(n)
    BY <1>8, <1>9
  <2>2. Visit(m, walk) = IF walk.ready = <<>> THEN walk
                         ELSE [order |-> Append(walk.order, Head(walk.ready)),
                               ready |-> Tail(walk.ready) \o Among(m.order, Freed(m))]
    BY DEF Visit
  <2>3. Visit(n, walk) = IF walk.ready = <<>> THEN walk
                         ELSE [order |-> Append(walk.order, Head(walk.ready)),
                               ready |-> Tail(walk.ready) \o Among(n.order, Freed(n))]
    BY DEF Visit
  <2> HIDE DEF Freed
  <2> QED BY <2>1, <2>2, <2>3
<1> DEFINE S == {k \in Nat : k <= top => f[k] = g[k]}
<1>12. 0 \in S
  BY <1>6, <1>7, <1>10
<1>13. ASSUME NEW k \in Nat, k \in S PROVE k + 1 \in S
  <2> SUFFICES ASSUME k + 1 <= top PROVE f[k + 1] = g[k + 1]
    OBVIOUS
  <2>1. k + 1 \in 1..top /\ (k + 1) - 1 = k /\ f[k] = g[k]
    BY <1>1, <1>13
  <2>2. f[k + 1] = KahnStep(m, f[k], k + 1) /\ g[k + 1] = KahnStep(n, g[k], k + 1)
    BY <1>6, <1>7, <2>1
  <2> QED BY <1>11, <2>1, <2>2
<1>14. top \in S
  <2> HIDE DEF S
  <2> QED BY <1>1, <1>12, <1>13, Kahn!EveryNatural
<1> QED BY <1>1, <1>4, <1>5, <1>14

(* What is valid on a component and was valid before it changed is valid.    *)
LEMMA ValidTogether ==
    ASSUME NEW old, NEW network, NEW part, NEW C, Validated(old), Validated(part),
           DOMAIN network.act = DOMAIN old.act, network.edges = old.edges,
           network.start = old.start, network.horizon = old.horizon, network.status = old.status,
           DOMAIN part.act = C,
           \A v \in C : part.act[v] = network.act[v],
           \A v \in DOMAIN old.act \ C : network.act[v] = old.act[v],
           DOMAIN part.edges = {k \in DOMAIN old.edges : old.edges[k].predecessor \in C},
           \A k \in DOMAIN part.edges : part.edges[k] = old.edges[k],
           \A k \in DOMAIN old.edges : old.edges[k].predecessor \in C <=> old.edges[k].successor \in C
    PROVE  Validated(network)
<1>1. \A v \in DOMAIN network.act : network.act[v] = IF v \in C THEN part.act[v] ELSE old.act[v]
  OBVIOUS
<1> DEFINE Shaped(edges, B, k) ==
              LET e == edges[k]
                  across == {j \in B : edges[j].boundary = e.boundary}
              IN  /\ e.type = "FS" /\ e.lag = 0 /\ e.lag_calendar = None
                  /\ \A j \in B : edges[j].boundary = e.boundary <=> edges[j].predecessor = e.predecessor
                  /\ Cardinality(across) <= 2
                  /\ Cardinality({edges[j].successor : j \in across}) = Cardinality(across)
           Unstarted(net, k) ==
              \A u \in {net.edges[k].predecessor, net.edges[k].successor} :
                  StateOf(net.act[u]) = "not_started"
<1>2. BoundariesSupported(network)
  <2>1. BoundariesSupported(old) /\ BoundariesSupported(part)
    BY DEF Validated
  <2>2. Boundary(network) = Boundary(old)
    BY DEF Boundary
  <2>3. ASSUME NEW k \in Boundary(old) PROVE Shaped(old.edges, Boundary(old), k) /\ Unstarted(old, k)
    BY <2>1, Zenon DEF BoundariesSupported
  <2>4. ASSUME NEW k \in Boundary(part) PROVE Unstarted(part, k)
    BY <2>1, Zenon DEF BoundariesSupported
  <2>5. ASSUME NEW k \in Boundary(network) PROVE Unstarted(network, k)
    <3> SUFFICES ASSUME NEW u \in {network.edges[k].predecessor, network.edges[k].successor}
                 PROVE  StateOf(network.act[u]) = "not_started"
      OBVIOUS
    <3>1. k \in DOMAIN old.edges /\ k \in Boundary(old) /\ u \in DOMAIN old.act
      BY <2>2 DEF Boundary, Validated
    <3>2. CASE old.edges[k].predecessor \in C
      <4>1. k \in Boundary(part) /\ u \in {part.edges[k].predecessor, part.edges[k].successor} /\ u \in C
        BY <3>1, <3>2 DEF Boundary
      <4> QED BY <2>4, <4>1
    <3>3. CASE old.edges[k].predecessor \notin C
      <4>1. u \in {old.edges[k].predecessor, old.edges[k].successor} /\ u \notin C
        BY <3>1, <3>3
      <4>2. Unstarted(old, k)
        BY <2>3, <3>1
      <4>3. StateOf(old.act[u]) = "not_started"
        <5> HIDE <2>3
        <5> QED BY <4>1, <4>2
      <4> QED BY <3>1, <4>1, <4>3
    <3> QED BY <3>2, <3>3
  <2>6. ASSUME NEW k \in Boundary(network) PROVE Shaped(network.edges, Boundary(network), k)
    <3> HIDE DEF Shaped
    <3> QED BY <2>2, <2>3
  <2> QED BY <2>5, <2>6, Zenon DEF BoundariesSupported
<1> HIDE DEF Shaped, Unstarted
<1>3. \A v \in DOMAIN network.act : EnvelopeSupported(network.act[v])
  BY <1>1 DEF Validated
<1>4. /\ network.start < network.horizon
      /\ network.status # None => network.start <= network.status /\ network.status <= network.horizon
  BY DEF Validated
<1>5. \A k \in DOMAIN network.edges :
          /\ {network.edges[k].predecessor, network.edges[k].successor} \subseteq DOMAIN network.act
          /\ network.edges[k].predecessor # network.edges[k].successor
  BY DEF Validated
<1>6. \A v \in DOMAIN network.act :
          LET a == network.act[v] IN
          /\ Len(a.calendar.starts) > 0 /\ Len(a.measure.starts) > 0
          /\ a.constraint \in {"SNET", "FNET", "SNLT", "FNLT", "MSO", "MFO"} => a.coordinate # None
          /\ a.actual_finish # None => a.actual_start # None /\ a.actual_start <= a.actual_finish
          /\ StateOf(a) = "in_progress" => a.remaining # None
  BY <1>1 DEF Validated
<1> QED BY <1>2, <1>3, <1>4, <1>5, <1>6 DEF Validated
----------------------------------------------------------------------------
(* A report and the part of the network it is recalculated on.              *)

(* Two networks that differ in what one activity is.                         *)
Changed(old, network, u) ==
    /\ IsNetwork(old) /\ IsNetwork(network) /\ u \in DOMAIN old.act
    /\ DOMAIN network.act = DOMAIN old.act /\ network.order = old.order
    /\ network.edges = old.edges /\ network.start = old.start
    /\ network.horizon = old.horizon /\ network.status = old.status
    /\ \A v \in DOMAIN old.act : v # u => network.act[v] = old.act[v]

(* An edge has both its ends in the set or neither.                          *)
KeptApart(net, C) ==
    \A k \in DOMAIN net.edges :
        net.edges[k].predecessor \in C <=> net.edges[k].successor \in C

(* The component is to its activities what the network is, and the network   *)
(* as it was is the same to all others.                                      *)
LEMMA SidesAlike ==
    ASSUME NEW old, NEW network, NEW u, Changed(old, network, u), EdgesJoin(old)
    PROVE  LET C == Component(network, u)
               part == Subset(network, C)
           IN  /\ u \in C /\ C \subseteq DOMAIN old.act
               /\ Enumerated(part) /\ DOMAIN part.act = C
               /\ KeptApart(old, C)
               /\ DOMAIN part.edges = {k \in DOMAIN old.edges : old.edges[k].predecessor \in C}
               /\ \A k \in DOMAIN part.edges : part.edges[k] = old.edges[k]
               /\ part.horizon = old.horizon /\ part.status = old.status
               /\ \A v \in C : part.act[v] = network.act[v]
               /\ \A v \in C : AlikeBehind(part, network, v) /\ AlikeAhead(part, network, v)
               /\ \A v \in DOMAIN old.act \ C :
                     AlikeBehind(old, network, v) /\ AlikeAhead(old, network, v)
<1> DEFINE C == Component(network, u)
           part == Subset(network, C)
<1>1. /\ IsNetwork(network) /\ Enumerated(network) /\ EdgesJoin(network) /\ u \in DOMAIN network.act
      /\ network.edges = old.edges /\ DOMAIN network.act = DOMAIN old.act
  BY DEF Changed, IsNetwork, EdgesJoin
<1>2. /\ u \in C /\ C \subseteq DOMAIN network.act
      /\ \A k \in DOMAIN network.edges :
            network.edges[k].predecessor \in C <=> network.edges[k].successor \in C
  BY <1>1, ComponentIsClosed
<1> HIDE DEF C
<1>3. /\ Enumerated(part) /\ DOMAIN part.act = C
      /\ part.start = network.start /\ part.horizon = network.horizon /\ part.status = network.status
      /\ \A v \in C : part.act[v] = network.act[v]
      /\ \A v \in C : Into(part, v) = Into(network, v) /\ OutOf(part, v) = OutOf(network, v)
      /\ DOMAIN part.edges = {k \in DOMAIN network.edges : network.edges[k].predecessor \in C}
      /\ \A k \in DOMAIN part.edges : part.edges[k] = network.edges[k]
  BY <1>1, <1>2, SubsetFacts
<1> HIDE DEF part
<1>4. ASSUME NEW v \in C PROVE AlikeBehind(part, network, v) /\ AlikeAhead(part, network, v)
  <2>1. AlikeBehind(part, network, v)
    BY <1>3 DEF AlikeBehind, Into
  <2>2. \A k \in OutOf(part, v) : /\ part.edges[k] = network.edges[k]
                                  /\ network.edges[k].successor \in C
    BY <1>2, <1>3 DEF OutOf
  <2> QED BY <1>3, <2>1, <2>2 DEF AlikeAhead
<1>5. ASSUME NEW v \in DOMAIN old.act \ C
      PROVE  AlikeBehind(old, network, v) /\ AlikeAhead(old, network, v)
  <2>1. old.act[v] = network.act[v]
    BY <1>2 DEF Changed
  <2>2. Into(old, v) = Into(network, v) /\ OutOf(old, v) = OutOf(network, v)
    BY <1>1 DEF Into, OutOf
  <2>3. AlikeBehind(old, network, v)
    BY <1>1, <2>1, <2>2 DEF AlikeBehind, Changed
  <2>4. \A k \in OutOf(old, v) : /\ network.edges[k].successor \in DOMAIN old.act
                                 /\ network.edges[k].successor \notin C
    BY <1>1, <1>2 DEF OutOf, EdgesJoin
  <2>5. \A k \in OutOf(old, v) :
            old.act[old.edges[k].successor] = network.act[network.edges[k].successor]
    BY <1>1, <1>2, <2>4 DEF Changed
  <2> QED BY <1>1, <2>1, <2>2, <2>3, <2>5 DEF AlikeAhead, Changed
<1>6. KeptApart(old, C)
  BY <1>1, <1>2 DEF KeptApart
<1>7. network.horizon = old.horizon /\ network.status = old.status
  BY DEF Changed
<1> QED BY <1>1, <1>2, <1>3, <1>4, <1>5, <1>6, <1>7 DEF part, C

(* The early rows of the component with those of before outside it are the   *)
(* forward pass of the whole.                                                *)
LEMMA ForwardRejoins ==
    ASSUME NEW old, NEW network, NEW u, Changed(old, network, u), NEW rule,
           ForwardPass(old, rule).error = None,
           ForwardPass(Subset(network, Component(network, u)), rule).error = None
    PROVE  LET part == Subset(network, Component(network, u))
               times == Merged(ForwardPass(part, rule).times, ForwardPass(old, rule).times)
           IN  /\ Acyclic(network) /\ Acyclic(part) /\ EdgesJoin(part)
               /\ EarlySettled(network, rule, times)
               /\ ForwardPass(network, rule) = Forward(network, rule, times)
<1> DEFINE C == Component(network, u)
           part == Subset(network, C)
           before == ForwardPass(old, rule).times
           new == ForwardPass(part, rule).times
           times == Merged(new, before)
           D == DOMAIN old.act
<1>1. Enumerated(old) /\ Enumerated(network) /\ DOMAIN network.act = D
  BY DEF Changed, IsNetwork
<1>2. /\ Validated(old) /\ Supported(old, rule) /\ Acyclic(old) /\ EdgesJoin(old)
      /\ EarlySettled(old, rule, before)
  BY <1>1, ForwardFacts
<1>3. /\ u \in C /\ C \subseteq D
      /\ Enumerated(part) /\ DOMAIN part.act = C
      /\ KeptApart(old, C)
      /\ DOMAIN part.edges = {k \in DOMAIN old.edges : old.edges[k].predecessor \in C}
      /\ \A k \in DOMAIN part.edges : part.edges[k] = old.edges[k]
      /\ \A v \in C : part.act[v] = network.act[v]
      /\ \A v \in C : AlikeBehind(part, network, v) /\ AlikeAhead(part, network, v)
      /\ \A v \in D \ C : AlikeBehind(old, network, v) /\ AlikeAhead(old, network, v)
  BY <1>2, SidesAlike
<1>4. ForwardPass(part, rule).error = None
  OBVIOUS
<1> HIDE DEF C, part
<1>5. /\ Validated(part) /\ Supported(part, rule) /\ Acyclic(part) /\ EdgesJoin(part)
      /\ EarlySettled(part, rule, new)
  BY <1>3, <1>4, ForwardFacts
<1> HIDE DEF before, new
<1>6. Acyclic(network)
  <2>1. TopologicalOrder(network) = TopologicalOrder(old)
    BY <1>1, OrderAlike DEF Changed
  <2> QED BY <1>2, <2>1 DEF Acyclic, Changed
<1>7. Validated(network)
  <2>1. /\ network.edges = old.edges /\ network.start = old.start
        /\ network.horizon = old.horizon /\ network.status = old.status
    BY DEF Changed
  <2>2. \A v \in D \ C : network.act[v] = old.act[v]
    BY <1>3 DEF Changed
  <2>3. \A k \in DOMAIN old.edges : old.edges[k].predecessor \in C <=> old.edges[k].successor \in C
    BY <1>3 DEF KeptApart
  <2> QED BY <1>1, <1>2, <1>3, <1>5, <2>1, <2>2, <2>3, ValidTogether
<1>8. Supported(network, rule)
  <2>1. \A v \in D : network.act[v] = IF v \in C THEN part.act[v] ELSE old.act[v]
    BY <1>3 DEF Changed
  <2> QED BY <1>1, <1>2, <1>3, <1>5, <2>1 DEF Supported
<1>9. DOMAIN before = D /\ DOMAIN new = C
  BY <1>2, <1>3, <1>5 DEF EarlySettled
<1>10. /\ DOMAIN times = D /\ IsFunction(times)
       /\ \A v \in D : times[v] = IF v \in C THEN new[v] ELSE before[v]
  BY <1>9 DEF Merged, IsFunction
<1> HIDE DEF times
<1>11. ASSUME NEW v \in D
       PROVE  times[v] = EarlyRow(network, rule, times, v) /\ times[v].error = None
  <2>1. CASE v \in C
    <3>1. \A k \in Into(part, v) : part.edges[k].predecessor \in C
      BY <1>3 DEF Into
    <3>2. \A k \in Into(part, v) : new[part.edges[k].predecessor] = times[part.edges[k].predecessor]
      BY <1>3, <1>10, <3>1
    <3>3. EarlyRow(part, rule, new, v) = EarlyRow(network, rule, times, v)
      BY <1>3, <2>1, <3>2, EarlyRowAlike
    <3> QED BY <1>3, <1>5, <1>10, <2>1, <3>3 DEF EarlySettled
  <2>2. CASE v \notin C
    <3>1. \A k \in Into(old, v) : old.edges[k].predecessor \in D \ C
      BY <1>2, <1>3, <2>2 DEF Into, KeptApart, EdgesJoin
    <3>2. \A k \in Into(old, v) : before[old.edges[k].predecessor] = times[old.edges[k].predecessor]
      BY <1>10, <3>1
    <3>3. EarlyRow(old, rule, before, v) = EarlyRow(network, rule, times, v)
      BY <1>3, <2>2, <3>2, EarlyRowAlike
    <3> QED BY <1>2, <1>10, <2>2, <3>3 DEF EarlySettled
  <2> QED BY <2>1, <2>2
<1>12. EarlySettled(network, rule, times)
  BY <1>1, <1>10, <1>11 DEF EarlySettled
<1>13. ForwardPass(network, rule) = Forward(network, rule, times)
  BY <1>1, <1>6, <1>7, <1>8, <1>12, ForwardOfSettled
<1> QED BY <1>5, <1>6, <1>12, <1>13 DEF times, new, before, part, C

(* So do the late rows, against the same finish.                             *)
LEMMA BackwardRejoins ==
    ASSUME NEW old, NEW network, NEW u, Changed(old, network, u), EdgesJoin(old), Acyclic(old),
           NEW rule, NEW before, NEW new, NEW finish,
           LET part == Subset(network, Component(network, u)) IN
           /\ Acyclic(part) /\ Acyclic(network) /\ EdgesJoin(part)
           /\ DOMAIN new = DOMAIN part.act /\ DOMAIN before = DOMAIN old.act
           /\ BackwardPass(old, Forward(old, rule, before), finish).error = None
           /\ BackwardPass(part, Forward(part, rule, new), finish).error = None
    PROVE  LET part == Subset(network, Component(network, u))
               late == Merged(BackwardPass(part, Forward(part, rule, new), finish).times,
                              BackwardPass(old, Forward(old, rule, before), finish).times)
           IN  BackwardPass(network, Forward(network, rule, Merged(new, before)), finish)
                  = Backward(network, rule, late, finish)
<1> DEFINE C == Component(network, u)
           part == Subset(network, C)
           times == Merged(new, before)
           lateBefore == BackwardPass(old, Forward(old, rule, before), finish).times
           lateNew == BackwardPass(part, Forward(part, rule, new), finish).times
           late == Merged(lateNew, lateBefore)
           D == DOMAIN old.act
<1>1. Enumerated(old) /\ Enumerated(network) /\ DOMAIN network.act = D
  BY DEF Changed, IsNetwork
<1>2. /\ u \in C /\ C \subseteq D
      /\ Enumerated(part) /\ DOMAIN part.act = C
      /\ KeptApart(old, C)
      /\ \A k \in DOMAIN part.edges : part.edges[k] = old.edges[k]
      /\ \A v \in C : AlikeAhead(part, network, v)
      /\ \A v \in D \ C : AlikeAhead(old, network, v)
  BY SidesAlike
<1>3. DOMAIN part.edges = {k \in DOMAIN old.edges : old.edges[k].predecessor \in C}
  BY SidesAlike
<1>4. /\ Acyclic(part) /\ Acyclic(network) /\ EdgesJoin(part)
      /\ DOMAIN new = C /\ DOMAIN before = D
      /\ BackwardPass(old, Forward(old, rule, before), finish).error = None
      /\ BackwardPass(part, Forward(part, rule, new), finish).error = None
  BY <1>2
<1> HIDE DEF C, part
<1>5. \A net, placed : /\ Forward(net, rule, placed).rule = rule
                       /\ Forward(net, rule, placed).times = placed
                       /\ Forward(net, rule, placed).network = net
  BY DEF Forward
<1>6. ~(finish > old.horizon) /\ LateSettled(old, rule, before, finish, lateBefore)
  BY <1>1, <1>4, <1>5, BackwardFacts
<1>7. LateSettled(part, rule, new, finish, lateNew)
  BY <1>2, <1>4, <1>5, BackwardFacts
<1> HIDE DEF lateBefore, lateNew
<1>8. DOMAIN lateBefore = D /\ DOMAIN lateNew = C
  BY <1>2, <1>6, <1>7 DEF LateSettled
<1>9. \A v \in D : times[v] = IF v \in C THEN new[v] ELSE before[v]
  BY <1>4 DEF Merged
<1>10. /\ DOMAIN late = D /\ IsFunction(late)
       /\ \A v \in D : late[v] = IF v \in C THEN lateNew[v] ELSE lateBefore[v]
  BY <1>8 DEF Merged, IsFunction
<1> HIDE DEF times, late
<1>11. ASSUME NEW v \in D
       PROVE  late[v] = LateRow(network, rule, times, finish, late, v) /\ late[v].error = None
  <2>1. CASE v \in C
    <3>1. \A k \in OutOf(part, v) : part.edges[k].successor \in C
      BY <1>2, <1>4, <2>1 DEF OutOf, EdgesJoin
    <3>2. \A k \in OutOf(part, v) : lateNew[part.edges[k].successor] = late[part.edges[k].successor]
      BY <1>2, <1>10, <3>1
    <3>3. new[v] = times[v]
      BY <1>9, <2>1
    <3>4. LateRow(part, rule, new, finish, lateNew, v) = LateRow(network, rule, times, finish, late, v)
      BY <1>2, <2>1, <3>2, <3>3, LateRowAlike
    <3> QED BY <1>2, <1>7, <1>10, <2>1, <3>4 DEF LateSettled
  <2>2. CASE v \notin C
    <3>1. \A k \in OutOf(old, v) : old.edges[k].successor \in D \ C
      BY <1>2, <2>2 DEF OutOf, KeptApart, EdgesJoin
    <3>2. \A k \in OutOf(old, v) : lateBefore[old.edges[k].successor] = late[old.edges[k].successor]
      BY <1>10, <3>1
    <3>3. before[v] = times[v]
      BY <1>9, <2>2
    <3>4. LateRow(old, rule, before, finish, lateBefore, v) = LateRow(network, rule, times, finish, late, v)
      BY <1>2, <2>2, <3>2, <3>3, LateRowAlike
    <3> QED BY <1>6, <1>10, <2>2, <3>4 DEF LateSettled
  <2> QED BY <2>1, <2>2
<1>12. LateSettled(network, rule, times, finish, late)
  BY <1>1, <1>10, <1>11 DEF LateSettled
<1>13. EdgesJoin(network) /\ ~(finish > network.horizon)
  BY <1>1, <1>6 DEF Changed, EdgesJoin
<1>14. BackwardPass(network, Forward(network, rule, times), finish) = Backward(network, rule, late, finish)
  BY <1>1, <1>4, <1>5, <1>12, <1>13, BackwardOfSettled
<1> QED BY <1>14 DEF times, late, lateBefore, lateNew, part, C

----------------------------------------------------------------------------
(* Recalculation.                                                           *)

(* Both passes of a schedule, calculated in full.                            *)
Calculated(net, rule, forward, backward) ==
    [error |-> None, forward |-> forward, backward |-> backward] = FullPasses(net, rule)

(* What both passes say of a schedule they could calculate.                  *)
LEMMA CalculatedFacts ==
    ASSUME NEW net, IsNetwork(net), NEW rule, NEW forward, NEW backward,
           Calculated(net, rule, forward, backward)
    PROVE  /\ forward = ForwardPass(net, rule) /\ forward.error = None
           /\ backward = BackwardPass(net, forward, forward.finish) /\ backward.error = None
           /\ forward = Forward(net, rule, forward.times)
           /\ backward = Backward(net, rule, backward.times, forward.finish)
           /\ EarlySettled(net, rule, forward.times)
           /\ Acyclic(net) /\ EdgesJoin(net)
<1> DEFINE passes == FullPasses(net, rule)
           early == ForwardPass(net, rule)
           late == BackwardPass(early.network, early, early.finish)
<1>1. passes.error = None /\ passes.forward = forward /\ passes.backward = backward
  BY DEF Calculated
<1>2. passes = IF early.error # None THEN [error |-> early.error]
               ELSE IF late.error # None THEN [error |-> late.error]
               ELSE [error |-> None, forward |-> early, backward |-> late]
  BY DEF FullPasses, ThenBackward, Both
<1> HIDE DEF passes, early, late
<1>3. early.error = None /\ late.error = None /\ forward = early /\ backward = late
  BY <1>1, <1>2
<1>4. Enumerated(net)
  BY DEF IsNetwork
<1>5. /\ Acyclic(net) /\ EdgesJoin(net) /\ early = Forward(net, rule, early.times)
      /\ EarlySettled(net, rule, early.times)
  BY <1>3, <1>4, ForwardFacts DEF early
<1>6. early.network = net /\ early.rule = rule
  BY <1>5 DEF Forward
<1>7. late = Backward(net, rule, late.times, early.finish)
  BY <1>3, <1>4, <1>5, <1>6, BackwardFacts DEF late
<1>8. late = BackwardPass(net, early, early.finish)
  BY <1>6 DEF late
<1> QED BY <1>3, <1>5, <1>7, <1>8 DEF early

(* Two passes without an error are the answer of the full calculation.       *)
LEMMA FullOfPasses ==
    ASSUME NEW net, NEW rule, NEW forward, NEW backward,
           ForwardPass(net, rule) = forward, forward.error = None, forward.network = net,
           BackwardPass(net, forward, forward.finish) = backward, backward.error = None
    PROVE  Calculated(net, rule, forward, backward)
BY DEF Calculated, FullPasses, ThenBackward, Both

(* The two passes joined from the component and what was before.             *)
JoinedForward(before, network, times) == [before EXCEPT !.network = network, !.times = times]
JoinedBackward(later, network, freed, times) ==
    [later EXCEPT !.network = network, !.released = freed, !.times = times]

(* Joined, they are passes of the network as it is.                          *)
LEMMA JoinedPasses ==
    ASSUME NEW old, NEW network, NEW rule, NEW times, NEW given, NEW lateTimes, NEW late,
           NEW finish, ProjectFinish(network, times) = finish,
           NEW before, before = Forward(old, rule, given), before.finish = finish,
           NEW later, later = Backward(old, rule, late, finish)
    PROVE  /\ JoinedForward(before, network, times) = Forward(network, rule, times)
           /\ JoinedBackward(later, network, Released(network, rule), lateTimes)
                 = Backward(network, rule, lateTimes, finish)
<1> DEFINE end == ProjectFinish(old, given)
           freed == Released(old, rule)
           freedNow == Released(network, rule)
<1>1. before = [error |-> None, network |-> old, rule |-> rule, times |-> given, finish |-> end]
  BY DEF Forward
<1>2. later = [error |-> None, network |-> old, rule |-> rule, times |-> late,
               late_finish |-> finish, released |-> freed]
  BY DEF Backward
<1> HIDE DEF end, freed, freedNow
<1>3. end = finish
  BY <1>1
<1>4. [before EXCEPT !.network = network]
        = [error |-> None, network |-> network, rule |-> rule, times |-> given, finish |-> finish]
  BY <1>1, <1>3
<1>5. [[error |-> None, network |-> network, rule |-> rule, times |-> given, finish |-> finish]
         EXCEPT !.times = times]
        = [error |-> None, network |-> network, rule |-> rule, times |-> times, finish |-> finish]
  OBVIOUS
<1>6. [before EXCEPT !.network = network, !.times = times]
        = [error |-> None, network |-> network, rule |-> rule, times |-> times, finish |-> finish]
  BY <1>4, <1>5
<1>7. [later EXCEPT !.network = network]
        = [error |-> None, network |-> network, rule |-> rule, times |-> late,
           late_finish |-> finish, released |-> freed]
  BY <1>2
<1>8. [[error |-> None, network |-> network, rule |-> rule, times |-> late,
        late_finish |-> finish, released |-> freed] EXCEPT !.released = freedNow]
        = [error |-> None, network |-> network, rule |-> rule, times |-> late,
           late_finish |-> finish, released |-> freedNow]
  OBVIOUS
<1>9. [[error |-> None, network |-> network, rule |-> rule, times |-> late,
        late_finish |-> finish, released |-> freedNow] EXCEPT !.times = lateTimes]
        = [error |-> None, network |-> network, rule |-> rule, times |-> lateTimes,
           late_finish |-> finish, released |-> freedNow]
  OBVIOUS
<1>10. [later EXCEPT !.network = network, !.released = freedNow, !.times = lateTimes]
        = [error |-> None, network |-> network, rule |-> rule, times |-> lateTimes,
           late_finish |-> finish, released |-> freedNow]
  BY <1>7, <1>8, <1>9
<1> QED BY <1>6, <1>10 DEF Forward, Backward, freedNow, JoinedForward, JoinedBackward

(* The full passes that are answered are of the network they were given.     *)
LEMMA FullAnswered ==
    ASSUME NEW net, IsNetwork(net), NEW rule, FullPasses(net, rule).error = None
    PROVE  LET passes == FullPasses(net, rule) IN
           /\ passes.forward.network = net
           /\ Calculated(net, rule, passes.forward, passes.backward)
<1> DEFINE passes == FullPasses(net, rule)
           now == ForwardPass(net, rule)
           then == BackwardPass(now.network, now, now.finish)
<1>1. passes = IF now.error # None THEN [error |-> now.error]
               ELSE IF then.error # None THEN [error |-> then.error]
               ELSE [error |-> None, forward |-> now, backward |-> then]
  BY DEF FullPasses, ThenBackward, Both
<1>2. now.error = None => now.network = net
  BY ForwardFacts DEF Forward, IsNetwork
<1>3. passes.error = None
  OBVIOUS
<1> HIDE DEF now, then, passes
<1> QED BY <1>1, <1>2, <1>3 DEF Calculated, passes

(* A recalculation that is answered answers what the full passes would.      *)
LEMMA RecalculatedInFull ==
    ASSUME NEW old, IsNetwork(old), NEW network, IsNetwork(network),
           DOMAIN network.act = DOMAIN old.act, NEW u,
           u \in DOMAIN old.act => Changed(old, network, u), NEW rule,
           NEW previous, Calculated(old, rule, previous.forward, previous.backward),
           RecalculateNetwork(previous, network, u).error = None
    PROVE  LET passes == RecalculateNetwork(previous, network, u) IN
           /\ passes.forward.network = network
           /\ Calculated(network, rule, passes.forward, passes.backward)
<1> DEFINE before == previous.forward
           late == previous.backward
           comparable == /\ late.network = before.network /\ late.rule = before.rule
                         /\ late.late_finish = before.finish
                         /\ u \in DOMAIN network.act
                         /\ network = [before.network EXCEPT !.act[u] = network.act[u]]
           part == Subset(network, Component(network, u))
           early == ForwardPass(part, before.rule)
           times == Merged(early.times, before.times)
           later == BackwardPass(part, early, before.finish)
           lateTimes == Merged(later.times, late.times)
           joined == [error |-> None,
                      forward |-> [before EXCEPT !.network = network, !.times = times],
                      backward |-> [late EXCEPT !.network = network,
                                                !.released = Released(network, before.rule),
                                                !.times = lateTimes]]
           full == FullPasses(network, before.rule)
           bounded == IF ~comparable \/ DOMAIN part.act = DOMAIN network.act THEN None
                      ELSE IF early.error # None THEN [error |-> early.error]
                      ELSE IF ProjectFinish(network, times) # before.finish THEN None
                      ELSE IF later.error # None THEN [error |-> later.error]
                      ELSE joined
           passes == RecalculateNetwork(previous, network, u)
<1>1. passes = IF bounded = None THEN full ELSE bounded
  BY Zenon DEF RecalculateNetwork
<1>2. /\ before = ForwardPass(old, rule) /\ before.error = None
      /\ late = BackwardPass(old, before, before.finish) /\ late.error = None
      /\ before = Forward(old, rule, before.times)
      /\ late = Backward(old, rule, late.times, before.finish)
      /\ EarlySettled(old, rule, before.times)
      /\ Acyclic(old) /\ EdgesJoin(old)
  BY CalculatedFacts
<1>3. before.rule = rule
  BY <1>2 DEF Forward
<1>4. passes.error = None
  OBVIOUS
<1>5. CASE passes = full
  BY <1>3, <1>4, <1>5, FullAnswered
<1>6. CASE passes # full
  <2>1. passes = bounded /\ bounded # None
    BY <1>1, <1>6
  <2>2. /\ early.error = None /\ ProjectFinish(network, times) = before.finish
        /\ later.error = None /\ passes = joined /\ comparable
    <3> HIDE DEF comparable, part, early, times, later, joined, full, passes
    <3> QED BY <1>4, <2>1
  <2> Changed(old, network, u)
    BY <2>2
  <2>3. ForwardPass(part, rule).error = None /\ early = ForwardPass(part, rule)
    BY <1>3, <2>2
  <2>4. /\ Enumerated(part) /\ DOMAIN part.act \subseteq DOMAIN old.act
    BY <1>2, SidesAlike
  <2>5. early = Forward(part, rule, early.times) /\ EarlySettled(part, rule, early.times)
    BY <2>3, <2>4, ForwardFacts
  <2>6. /\ Acyclic(network) /\ Acyclic(part) /\ EdgesJoin(part)
        /\ ForwardPass(network, rule) = Forward(network, rule, times)
    BY <1>2, <2>3, ForwardRejoins
  <2>7. DOMAIN early.times = DOMAIN part.act /\ DOMAIN before.times = DOMAIN old.act
    BY <1>2, <2>5 DEF EarlySettled
  <2>8. BackwardPass(network, Forward(network, rule, times), before.finish)
          = Backward(network, rule, lateTimes, before.finish)
    <3>1. BackwardPass(old, Forward(old, rule, before.times), before.finish) = late
      BY <1>2
    <3>2. BackwardPass(part, Forward(part, rule, early.times), before.finish) = later
      BY <2>5
    <3>3. late.error = None /\ later.error = None
      BY <1>2, <2>2
    <3> HIDE DEF before, late, early, later
    <3> QED BY <1>2, <2>6, <2>7, <3>1, <3>2, <3>3, BackwardRejoins
  <2>9. /\ joined.forward = Forward(network, rule, times)
        /\ joined.backward = Backward(network, rule, lateTimes, before.finish)
    <3> DEFINE given == before.times
               lateGiven == late.times
               finish == before.finish
    <3>1. /\ before = Forward(old, rule, given) /\ late = Backward(old, rule, lateGiven, finish)
          /\ ProjectFinish(network, times) = finish /\ before.finish = finish /\ before.rule = rule
      BY <1>2, <1>3, <2>2
    <3>2. joined = [error |-> None,
                    forward |-> JoinedForward(before, network, times),
                    backward |-> JoinedBackward(late, network, Released(network, before.rule), lateTimes)]
      BY Zenon DEF JoinedForward, JoinedBackward
    <3> HIDE DEF before, late, times, lateTimes, given, lateGiven, finish, joined
    <3>3. /\ JoinedForward(before, network, times) = Forward(network, rule, times)
          /\ JoinedBackward(late, network, Released(network, rule), lateTimes)
                = Backward(network, rule, lateTimes, finish)
      BY <3>1, JoinedPasses
    <3> QED BY <3>1, <3>2, <3>3
  <2> HIDE DEF before, late, times, lateTimes, joined, passes
  <2> DEFINE F == Forward(network, rule, times)
             B == Backward(network, rule, lateTimes, before.finish)
  <2>10. /\ F.error = None /\ F.network = network /\ F.finish = before.finish
         /\ B.error = None
    BY <2>2 DEF Forward, Backward
  <2> HIDE DEF F, B
  <2>11. Calculated(network, rule, F, B)
    BY <2>6, <2>8, <2>10, FullOfPasses DEF F, B
  <2> QED BY <2>2, <2>9, <2>10, <2>11 DEF F, B, passes
<1> QED BY <1>5, <1>6

----------------------------------------------------------------------------
(* Extremes.                                                                *)

(* Among finitely many numbers one is greatest.                              *)
LEMMA Greatest ==
    ASSUME NEW D, IsFiniteSet(D), D # {}, NEW at, \A k \in D : at[k] \in Int
    PROVE  \E m \in D : \A k \in D : at[k] <= at[m]
<1> DEFINE Has(S) == \E m \in S : \A k \in S : at[k] <= at[m]
           Sized == {n \in Nat : \A S \in SUBSET D :
                        IsFiniteSet(S) /\ Cardinality(S) = n /\ S # {} => Has(S)}
<1>1. 0 \in Sized
  <2> SUFFICES ASSUME NEW S \in SUBSET D, IsFiniteSet(S), Cardinality(S) = 0, S # {} PROVE FALSE
    OBVIOUS
  <2> QED BY FS_EmptySet
<1>2. ASSUME NEW n \in Nat, n \in Sized
      PROVE  n + 1 \in Sized
  <2> SUFFICES ASSUME NEW S \in SUBSET D, IsFiniteSet(S), Cardinality(S) = n + 1, S # {}
               PROVE  Has(S)
    OBVIOUS
  <2>1. PICK x \in S : TRUE
    OBVIOUS
  <2> DEFINE T == S \ {x}
  <2>2. IsFiniteSet(T) /\ Cardinality(T) = n /\ T \in SUBSET D
    <3>1. IsFiniteSet(T) /\ Cardinality(T) = Cardinality(S) - 1
      BY <2>1, FS_RemoveElement
    <3> QED BY <3>1
  <2>3. CASE T = {}
    <3>1. \A k \in S : k = x
      BY <2>3
    <3> QED BY <2>1, <3>1
  <2>4. CASE T # {}
    <3>1. PICK m \in T : \A k \in T : at[k] <= at[m]
      BY <1>2, <2>2, <2>4
    <3>2. \A k \in S : k = x \/ k \in T
      OBVIOUS
    <3>3. at[x] \in Int /\ at[m] \in Int /\ \A k \in T : at[k] \in Int
      BY <2>1, <3>1
    <3> HIDE DEF T
    <3>4. CASE at[x] <= at[m]
      BY <3>1, <3>2, <3>4, <2>1 DEF T
    <3>5. CASE ~(at[x] <= at[m])
      <4>1. \A k \in T : at[k] <= at[x]
        BY <3>1, <3>3, <3>5
      <4>2. \A k \in S : at[k] <= at[x]
        BY <3>2, <3>3, <4>1
      <4> QED BY <2>1, <4>2
    <3> QED BY <3>4, <3>5
  <2> QED BY <2>3, <2>4
<1> HIDE DEF Sized
<1>3. \A n \in Nat : n \in Sized
  BY <1>1, <1>2, Choosing!EveryNatural
<1>4. Cardinality(D) \in Nat /\ Cardinality(D) \in Sized
  BY <1>3, FS_CardinalityType
<1> QED BY <1>4 DEF Sized

(* And one is least.                                                         *)
LEMMA Least ==
    ASSUME NEW D, IsFiniteSet(D), D # {}, NEW at, \A k \in D : at[k] \in Int
    PROVE  \E m \in D : \A k \in D : at[m] <= at[k]
<1> DEFINE neg == [k \in D |-> 0 - at[k]]
<1>1. \A k \in D : neg[k] \in Int /\ neg[k] = 0 - at[k]
  OBVIOUS
<1> HIDE DEF neg
<1>2. PICK m \in D : \A k \in D : neg[k] <= neg[m]
  BY <1>1, Greatest
<1>3. \A k \in D : at[m] <= at[k]
  BY <1>1, <1>2
<1> QED BY <1>3

(* So the operators that choose them name one.                               *)
LEMMA ExtremesOf ==
    ASSUME NEW D, IsFiniteSet(D), D # {}, NEW at, \A k \in D : at[k] \in Int
    PROVE  /\ \E m \in D : Max({at[k] : k \in D}) = at[m] /\ \A k \in D : at[k] <= at[m]
           /\ \E m \in D : Min({at[k] : k \in D}) = at[m] /\ \A k \in D : at[m] <= at[k]
<1> DEFINE V == {at[k] : k \in D}
<1>1. \A v \in V : v \in Int /\ \E k \in D : v = at[k]
  OBVIOUS
<1>2. PICK m \in D : \A k \in D : at[k] <= at[m]
  BY Greatest
<1>3. PICK l \in D : \A k \in D : at[l] <= at[k]
  BY Least
<1>4. at[m] \in V /\ at[l] \in V /\ at[m] \in Int /\ at[l] \in Int /\ \A k \in D : at[k] \in V
  OBVIOUS
<1>5. (\A v \in V : at[m] >= v) /\ (\A v \in V : at[l] <= v)
  BY <1>1, <1>2, <1>3
<1> HIDE DEF V
<1>6. Max(V) \in V /\ \A v \in V : Max(V) >= v
  BY <1>4, <1>5 DEF Max
<1>7. Min(V) \in V /\ \A v \in V : Min(V) <= v
  BY <1>4, <1>5 DEF Min
<1>8. Max(V) = at[m] /\ Min(V) = at[l]
  BY <1>1, <1>4, <1>5, <1>6, <1>7
<1> QED BY <1>2, <1>3, <1>8 DEF V

(* The least of a set of numbers.                                            *)
LEMMA LeastOf ==
    ASSUME NEW S, IsFiniteSet(S), S # {}, S \subseteq Int
    PROVE  Min(S) \in S /\ \A k \in S : Min(S) <= k
<1> DEFINE at == [k \in S |-> k]
<1>1. \A k \in S : at[k] = k /\ at[k] \in Int
  OBVIOUS
<1> HIDE DEF at
<1>2. PICK l \in S : \A k \in S : at[l] <= at[k]
  BY <1>1, Least
<1>3. \A k \in S : l <= k
  BY <1>1, <1>2
<1> QED BY <1>3 DEF Min

----------------------------------------------------------------------------
(* Bounds.                                                                  *)

(* The highest of what edges ask for and a base: an edge that reaches it is  *)
(* named, and none asks for more.                                            *)
IsHighest(bound, at, base) ==
    /\ bound.at \in Int \union {None}
    /\ bound.by = None => bound.at = base
    /\ bound.by # None =>
          /\ bound.by \in DOMAIN at /\ bound.at = at[bound.by] /\ bound.at \in Int
          /\ base # None => base <= bound.at
    /\ \A k \in DOMAIN at : bound.at # None /\ at[k] <= bound.at
    /\ bound.at = base \/ \E k \in DOMAIN at : bound.at = at[k]
LEMMA HighestFacts ==
    ASSUME NEW at, IsFiniteSet(DOMAIN at), DOMAIN at \subseteq Nat,
           \A k \in DOMAIN at : at[k] \in Int, NEW base \in Int \union {None}
    PROVE  IsHighest(Highest(at, base), at, base)
<1> DEFINE D == DOMAIN at
           top == Max({at[k] : k \in DOMAIN at})
           tops == {k \in DOMAIN at : at[k] = top}
           bound == Highest(at, base)
<1>1. CASE D = {}
  <2>1. bound = [at |-> base, by |-> None]
    BY <1>1 DEF Highest
  <2> HIDE DEF bound
  <2> QED BY <1>1, <2>1 DEF bound, IsHighest
<1>2. CASE D # {}
  <2>1. PICK m \in D : top = at[m] /\ \A k \in D : at[k] <= at[m]
    BY <1>2, ExtremesOf
  <2>2. tops # {} /\ tops \subseteq D
    BY <2>1
  <2>3. IsFiniteSet(tops) /\ tops \subseteq Int
    <3>1. tops \in SUBSET D
      BY <2>2
    <3> HIDE DEF tops
    <3>2. IsFiniteSet(tops)
      BY <3>1, FS_Subset
    <3>3. tops \subseteq Int
      BY <3>1
    <3> QED BY <3>2, <3>3
  <2>4. Min(tops) \in tops
    <3> HIDE DEF tops
    <3> QED BY <2>2, <2>3, LeastOf
  <2>5. Min(tops) \in D /\ at[Min(tops)] = top /\ Min(tops) # None
    <3> HIDE DEF top
    <3>0. \A k \in D : k \in Int
      OBVIOUS
    <3>1. \A k \in tops : k \in D /\ at[k] = top /\ k \in Int
      <4>1. \A k \in tops : k \in D /\ at[k] = top
        BY Zenon
      <4> QED BY <3>0, <4>1
    <3> HIDE DEF tops
    <3> QED BY <2>4, <3>1, NoneAssumption
  <2>6. bound = IF base = None \/ top >= base THEN [at |-> top, by |-> Min(tops)]
                ELSE [at |-> base, by |-> None]
    BY <1>2 DEF Highest
  <2> DEFINE by == Min(tops)
  <2> HIDE DEF bound, top, tops, by
  <2>7. CASE base = None \/ top >= base
    <3>1. bound.at = top /\ bound.by = by
      BY <2>6, <2>7 DEF by
    <3>2. by \in D /\ at[by] = top /\ by # None /\ top \in Int
      BY <2>1, <2>5 DEF by
    <3>3. (base # None => base <= top) /\ top # None /\ \A k \in D : at[k] <= top
      BY <2>1, <2>7, <3>2, NoneAssumption
    <3> QED BY <3>1, <3>2, <3>3 DEF bound, IsHighest
  <2>8. CASE ~(base = None \/ top >= base)
    <3>1. bound.at = base /\ bound.by = None /\ base \in Int
      BY <2>6, <2>8
    <3>2. \A k \in D : at[k] <= base
      BY <2>1, <2>8, <3>1
    <3> QED BY <3>1, <3>2, NoneAssumption DEF bound, IsHighest
  <2> QED BY <2>7, <2>8
<1> QED BY <1>1, <1>2

(* A side floored: an edge still named lands at or after the floor, and a    *)
(* side without one stands at its base or a floor.                           *)
LEMMA FlooredFacts ==
    ASSUME NEW bound, bound.at \in Int \union {None}, NEW unbounded \in Int, NEW floor \in Int
    PROVE  LET side == Floored(bound, unbounded, floor) IN
           /\ side.at \in Int
           /\ side.by # None => side.by = bound.by /\ side.at = bound.at /\ floor <= side.at
           /\ side.by = None => \/ side.at = floor
                                \/ bound.at = None /\ side.at = unbounded
                                \/ side.at = bound.at /\ bound.by = None /\ floor <= side.at
           /\ side.at = IF bound.at = None THEN unbounded
                        ELSE IF bound.at < floor THEN floor ELSE bound.at
<1>1. CASE bound.at = None
  BY <1>1 DEF Floored
<1>2. CASE bound.at # None /\ bound.at < floor
  BY <1>2 DEF Floored
<1>3. CASE bound.at # None /\ ~(bound.at < floor)
  BY <1>3 DEF Floored
<1> QED BY <1>1, <1>2, <1>3

(* What is shifted by a lag is a coordinate.                                 *)
LEMMA ShiftLagIsTimed ==
    ASSUME NEW cal, Indexed(cal), NEW at \in Int, NEW lag \in Int
    PROVE  ShiftLag(cal, at, lag) \in Int \union {None}
<1>1. CASE lag = 0
  BY <1>1 DEF ShiftLag, AddWorking
<1>2. CASE lag > 0
  <2>1. lag \in Nat \ {0} /\ ShiftLag(cal, at, lag) = AddWorking(cal, at, lag)
    BY <1>2 DEF ShiftLag
  <2> QED BY <2>1, AddWorkingIsExact
<1>3. CASE lag < 0
  <2>1. -lag \in Nat \ {0} /\ ShiftLag(cal, at, lag) = SubWorking(cal, at, -lag)
    BY <1>3 DEF ShiftLag
  <2> QED BY <2>1, SubWorkingIsExact
<1> QED BY <1>1, <1>2, <1>3

(* A row of a pass holds coordinates.                                        *)
TimedRow(row) ==
    /\ row.start \in Int /\ row.finish \in Int
    /\ row.remaining_start \in Int \union {None}

(* What an edge allows is one too.                                           *)
LEMMA LandingIsTimed ==
    ASSUME NEW net, IsTimed(net), NEW placed, NEW k \in DOMAIN net.edges,
           net.edges[k].successor \in DOMAIN net.act, TimedRow(placed[net.edges[k].predecessor])
    PROVE  /\ Indexed(LagCalendar(net, net.edges[k]))
           /\ Landing(net, placed, k) \in Int \union {None}
<1> DEFINE e == net.edges[k]
<1>1. IsEdge(e) /\ IsActivity(net.act[e.successor])
  BY DEF IsTimed
<1>2. Indexed(LagCalendar(net, e))
  BY <1>1 DEF LagCalendar, IsEdge, IsActivity
<1>3. EarlyAnchor(e, placed[e.predecessor]) \in Int
  BY DEF EarlyAnchor, TimedRow
<1>4. e.lag \in Int
  BY <1>1 DEF IsEdge
<1> QED BY <1>2, <1>3, <1>4, ShiftLagIsTimed DEF Landing

(* What a valid network's activities are, for the solver.                    *)
LEMMA ActivityFacts ==
    ASSUME NEW net, IsTimed(net), Validated(net), NEW u \in DOMAIN net.act
    PROVE  LET a == net.act[u] IN
           /\ IsActivity(a) /\ Indexed(a.calendar) /\ CalendarFloor(a) \in Int /\ 0 <= CalendarFloor(a)
           /\ Remaining(a) \in Nat
           /\ StateOf(a) # "not_started" => a.actual_start \in Int
           /\ StateOf(a) = "complete" => a.actual_finish \in Int
           /\ StateOf(a) = "not_started" => a.actual_start = None
           /\ a.constraint \in {"SNET", "FNET", "SNLT", "FNLT", "MSO", "MFO"} => a.coordinate \in Int
           /\ a.envelope # {} => /\ a.actual_start = None /\ a.constraint = "ASAP"
                                 /\ \A p \in a.envelope : p.work \in Nat \ {0} /\ Indexed(p.calendar)
           /\ Base(net, u) \in Int \union {None}
           /\ StateOf(a) # "not_started" => Base(net, u) = a.actual_start
<1> DEFINE a == net.act[u]
<1>1. /\ IsActivity(a) /\ Len(a.calendar.starts) > 0
      /\ a.constraint \in {"SNET", "FNET", "SNLT", "FNLT", "MSO", "MFO"} => a.coordinate # None
      /\ a.actual_finish # None => a.actual_start # None
      /\ StateOf(a) = "in_progress" => a.remaining # None
      /\ EnvelopeSupported(a)
      /\ net.start \in Int
  BY DEF Validated, IsTimed
<1> HIDE DEF a
<1>2. /\ a.duration \in Nat /\ a.remaining \in Nat \union {None} /\ Indexed(a.calendar)
      /\ a.coordinate \in Int \union {None}
      /\ a.actual_start \in Int \union {None} /\ a.actual_finish \in Int \union {None}
      /\ \A i \in DOMAIN a.calendar.starts : a.calendar.starts[i] >= 0
      /\ \A p \in a.envelope : Indexed(p.calendar) /\ p.work \in Nat
  BY <1>1 DEF IsActivity
<1>3. CalendarFloor(a) \in Int /\ 0 <= CalendarFloor(a)
  <2>1. 1 \in DOMAIN a.calendar.starts /\ a.calendar.starts[1] \in Int
    BY <1>1, <1>2, Fields
  <2> QED BY <1>2, <2>1 DEF CalendarFloor
<1>4. Remaining(a) \in Nat
  BY <1>2 DEF Remaining
<1>5. /\ StateOf(a) # "not_started" => a.actual_start \in Int
      /\ StateOf(a) = "complete" => a.actual_finish \in Int
      /\ StateOf(a) = "not_started" => a.actual_start = None
  BY <1>1, <1>2 DEF StateOf
<1>6. a.envelope # {} => /\ a.actual_start = None /\ a.constraint = "ASAP"
                         /\ \A p \in a.envelope : p.work \in Nat \ {0} /\ Indexed(p.calendar)
  BY <1>1, <1>2 DEF EnvelopeSupported
<1>7. Base(net, u) = IF StateOf(a) # "not_started" THEN a.actual_start
                     ELSE IF Into(net, u) # {} THEN None ELSE net.start
  BY DEF Base, a
<1> QED BY <1>1, <1>2, <1>3, <1>4, <1>5, <1>6, <1>7 DEF a

(* Where logic lets an activity begin and end: an edge named drove that side *)
(* to at least its floor, and a finish without one stands at a floor.        *)
SideOf(net, rule, placed, u, starts) ==
    [k \in {j \in Binding(net, rule, u) : BoundsStart(net.edges[j]) = starts} |->
        Landing(net, placed, k)]
Floor(net, u) == IF Base(net, u) # None THEN Base(net, u) ELSE CalendarFloor(net.act[u])
DrivenBy(net, rule, placed, u, side, starts) ==
    /\ side.by \in Binding(net, rule, u) /\ BoundsStart(net.edges[side.by]) = starts
    /\ side.at = Landing(net, placed, side.by) /\ side.at # None
    /\ CalendarFloor(net.act[u]) <= side.at /\ Floor(net, u) <= side.at
LEMMA BoundsFacts ==
    ASSUME NEW net, IsTimed(net), Validated(net), NEW rule, NEW placed, NEW u \in DOMAIN net.act,
           \A k \in Binding(net, rule, u) : Landing(net, placed, k) \in Int
    PROVE  LET logic == Bounds(net, rule, placed, u) IN
           /\ logic.start.at \in Int /\ logic.finish.at \in Int
           /\ Floor(net, u) \in Int
           /\ logic.start.by # None => DrivenBy(net, rule, placed, u, logic.start, TRUE)
           /\ logic.finish.by # None => DrivenBy(net, rule, placed, u, logic.finish, FALSE)
           /\ logic.finish.by = None => logic.finish.at \in {CalendarFloor(net.act[u]), Floor(net, u)}
<1> DEFINE a == net.act[u]
           base == Base(net, u)
           floor == CalendarFloor(a)
           At(starts) == SideOf(net, rule, placed, u, starts)
           High(starts) == Highest(At(starts), base)
           logic == Bounds(net, rule, placed, u)
<1>1. base \in Int \union {None} /\ floor \in Int /\ net.start \in Int
  BY ActivityFacts DEF IsTimed
<1>2. Floor(net, u) = IF base # None THEN base ELSE floor
  BY DEF Floor
<1>3. logic.start = Floored(High(TRUE), net.start, floor)
      /\ logic.finish = Floored(High(FALSE), floor, floor)
  BY DEF Bounds, SideOf
<1>4. /\ IsFiniteSet(Binding(net, rule, u)) /\ Binding(net, rule, u) \subseteq Nat
  <2>1. Binding(net, rule, u) \in SUBSET (1..Len(net.edges)) /\ Len(net.edges) \in Nat
    BY DEF Binding, Into, IsTimed
  <2>2. IsFiniteSet(1..Len(net.edges))
    BY <2>1, FS_Interval
  <2>3. IsFiniteSet(Binding(net, rule, u))
    BY <2>1, <2>2, FS_Subset
  <2> QED BY <2>1, <2>3
<1>5. ASSUME NEW starts \in BOOLEAN
      PROVE  LET high == High(starts) IN
             /\ high.at \in Int \union {None}
             /\ high.by = None => high.at = base
             /\ high.by # None =>
                   /\ high.by \in Binding(net, rule, u) /\ BoundsStart(net.edges[high.by]) = starts
                   /\ high.at = Landing(net, placed, high.by)
                   /\ base # None => base <= high.at
  <2> DEFINE at == At(starts)
             high == Highest(at, base)
  <2>1. \A k \in DOMAIN at : /\ k \in Binding(net, rule, u) /\ BoundsStart(net.edges[k]) = starts
                             /\ at[k] = Landing(net, placed, k) /\ at[k] \in Int
    BY DEF SideOf
  <2>2. DOMAIN at \in SUBSET Binding(net, rule, u) /\ DOMAIN at \subseteq Nat
    BY <1>4, <2>1
  <2>3. IsFiniteSet(DOMAIN at)
    <3> HIDE DEF at
    <3> QED BY <1>4, <2>2, FS_Subset
  <2>4. IsHighest(high, at, base)
    <3> HIDE DEF at, base
    <3> QED BY <1>1, <2>1, <2>2, <2>3, HighestFacts
  <2> HIDE DEF high, base, at
  <2> QED BY <1>1, <2>1, <2>4 DEF high, at, IsHighest
<1> HIDE DEF base, floor, High, logic
<1>6. /\ logic.start.at \in Int
      /\ logic.start.by # None => /\ logic.start.by = High(TRUE).by /\ logic.start.at = High(TRUE).at
                                  /\ floor <= logic.start.at
  <2> DEFINE high == High(TRUE)
             side == Floored(high, net.start, floor)
  <2>1. high.at \in Int \union {None} /\ logic.start = side
    BY <1>3, <1>5
  <2> HIDE DEF high
  <2>2. side.at \in Int /\ (side.by # None => side.by = high.by /\ side.at = high.at /\ floor <= side.at)
    BY <1>1, <2>1, FlooredFacts
  <2> QED BY <2>1, <2>2 DEF high
<1>7. /\ logic.finish.at \in Int
      /\ logic.finish.by # None => /\ logic.finish.by = High(FALSE).by /\ logic.finish.at = High(FALSE).at
                                   /\ floor <= logic.finish.at
      /\ logic.finish.by = None => \/ logic.finish.at = floor
                                   \/ logic.finish.at = High(FALSE).at /\ High(FALSE).by = None
  <2> DEFINE high == High(FALSE)
             side == Floored(high, floor, floor)
  <2>1. high.at \in Int \union {None} /\ logic.finish = side
    BY <1>3, <1>5
  <2> HIDE DEF high
  <2>2. /\ side.at \in Int
        /\ side.by # None => side.by = high.by /\ side.at = high.at /\ floor <= side.at
        /\ side.by = None => \/ side.at = floor
                             \/ side.at = high.at /\ high.by = None
    BY <1>1, <2>1, FlooredFacts
  <2> QED BY <2>1, <2>2 DEF high
<1>8. logic.start.by # None => DrivenBy(net, rule, placed, u, logic.start, TRUE)
  BY <1>1, <1>2, <1>5, <1>6, NoneAssumption DEF DrivenBy, floor
<1>9. logic.finish.by # None => DrivenBy(net, rule, placed, u, logic.finish, FALSE)
  BY <1>1, <1>2, <1>5, <1>7, NoneAssumption DEF DrivenBy, floor
<1>10. logic.finish.by = None => logic.finish.at \in {floor, Floor(net, u)}
  BY <1>1, <1>2, <1>5, <1>7, NoneAssumption
<1> QED BY <1>1, <1>2, <1>6, <1>7, <1>8, <1>9, <1>10 DEF logic, floor

----------------------------------------------------------------------------
(* Placement.                                                               *)

(* Between a coordinate and where work can next start, work next starts at   *)
(* the same.                                                                 *)
LEMMA NextWorkingAlong ==
    ASSUME NEW cal, Indexed(cal), NEW t \in Int, NEW m \in Int,
           NextWorking(cal, t) # None, t <= m, m <= NextWorking(cal, t)
    PROVE  NextWorking(cal, m) = NextWorking(cal, t)
<1> DEFINE next == NextWorking(cal, t)
           later == NextWorking(cal, m)
<1>1. /\ next \in Int /\ t <= next /\ WorkingAt(cal, next)
      /\ \A u \in Int : WorkingAt(cal, u) /\ t <= u => next <= u
  BY NextWorkingIsFirst
<1>2. later # None
  BY <1>1, NextWorkingIsFirst
<1>3. /\ later \in Int /\ m <= later /\ WorkingAt(cal, later)
      /\ \A u \in Int : WorkingAt(cal, u) /\ m <= u => later <= u
  BY <1>2, NextWorkingIsFirst
<1> HIDE DEF next, later
<1>4. later <= next /\ next <= later
  BY <1>1, <1>3 DEF next
<1> QED BY <1>1, <1>3, <1>4 DEF next, later

(* What is placed between two bounds: a moment for no work, a chosen span    *)
(* for some.                                                                 *)
Moment(rule, a, s, f) ==
    LET moment == IF s >= f THEN s ELSE f IN
    IF rule.snap THEN NextWorking(a.calendar, moment) ELSE moment
LEMMA PlaceFacts ==
    ASSUME NEW net, net.horizon \in Int, NEW rule, NEW a, Indexed(a.calendar), Remaining(a) \in Nat,
           NEW s \in Int, NEW f \in Int, Place(net, rule, a, s, f) # None
    PROVE  LET span == Place(net, rule, a, s, f) IN
           /\ span[1] \in Int /\ span[2] \in Int
           /\ Remaining(a) = 0 =>
                 /\ span[1] = Moment(rule, a, s, f) /\ span[2] = Moment(rule, a, s, f)
                 /\ s <= span[2] /\ f <= span[2]
           /\ Remaining(a) # 0 =>
                 /\ span = EarliestSpan(a.calendar, s, f, Remaining(a), net.horizon)
                 /\ Chosen(a.calendar, s, f, Remaining(a), net.horizon)
<1> DEFINE span == Place(net, rule, a, s, f)
           moment == IF s >= f THEN s ELSE f
           at == IF rule.snap THEN NextWorking(a.calendar, moment) ELSE moment
<1>1. Max({s, f}) = moment /\ moment \in Int /\ s <= moment /\ f <= moment
  BY MinMaxOfTwo
<1>2. CASE Remaining(a) = 0
  <2>1. span = Within(IF at = None THEN None ELSE <<at, at>>, net.horizon)
    BY <1>1, <1>2 DEF Place
  <2>2. at # None /\ span = <<at, at>>
    <3> HIDE DEF at, span
    <3> QED BY <2>1 DEF Within, span
  <2>3. at \in Int /\ moment <= at
    <3> HIDE DEF moment
    <3> QED BY <1>1, <2>2, NextWorkingIsFirst
  <2>4. at = Moment(rule, a, s, f)
    BY DEF Moment
  <2> HIDE DEF span, at, moment
  <2> QED BY <1>1, <1>2, <2>2, <2>3, <2>4 DEF span
<1>3. CASE Remaining(a) # 0
  <2>1. span = EarliestSpan(a.calendar, s, f, Remaining(a), net.horizon)
    BY <1>3 DEF Place
  <2>2. Chosen(a.calendar, s, f, Remaining(a), net.horizon)
    BY <1>3, <2>1, EarliestSpanChoice
  <2>3. Worked(a.calendar, span, Remaining(a))
    BY Zenon, <2>1, <2>2 DEF Chosen
  <2> HIDE DEF span
  <2> QED BY <1>3, <2>1, <2>2, <2>3 DEF Worked, span
<1> QED BY <1>2, <1>3

(* A span is where a side's bound puts it.                                   *)
PlacedBy(rule, a, span, at, starts) ==
    IF Remaining(a) = 0 THEN span[2] = IF rule.snap THEN NextWorking(a.calendar, at) ELSE at
    ELSE IF starts THEN span[1] = NextWorking(a.calendar, at)
    ELSE /\ FirstFinish(a.calendar, at) # None /\ span[2] = FirstFinish(a.calendar, at)

(* What the driver's side may be, when it is the start's.                    *)
LEMMA StartPlaces ==
    ASSUME NEW net, net.horizon \in Int, NEW rule, NEW a, Indexed(a.calendar), Remaining(a) \in Nat,
           NEW s \in Int, NEW f \in Int, NEW floor \in Int, 0 <= s, floor <= s,
           Place(net, rule, a, s, f) # None,
           f <= s \/ Reaches(Place(net, rule, a, s, floor), f)
    PROVE  PlacedBy(rule, a, Place(net, rule, a, s, f), s, TRUE)
<1> DEFINE span == Place(net, rule, a, s, f)
           alone == Place(net, rule, a, s, floor)
<1>1. CASE Remaining(a) = 0
  <2>1. span[2] = Moment(rule, a, s, f)
    BY <1>1, PlaceFacts
  <2>2. CASE f <= s
    <3>1. Moment(rule, a, s, f) = IF rule.snap THEN NextWorking(a.calendar, s) ELSE s
      BY <2>2 DEF Moment
    <3> HIDE DEF span
    <3> QED BY <1>1, <2>1, <3>1 DEF PlacedBy, span
  <2>3. CASE ~(f <= s)
    <3>1. alone # None /\ alone[2] >= f
      BY <2>3 DEF Reaches
    <3>2. alone[2] = Moment(rule, a, s, floor) /\ alone[2] \in Int
      BY <1>1, <3>1, PlaceFacts
    <3>3. Moment(rule, a, s, floor) = IF rule.snap THEN NextWorking(a.calendar, s) ELSE s
      BY DEF Moment
    <3>4. Moment(rule, a, s, f) = IF rule.snap THEN NextWorking(a.calendar, f) ELSE f
      BY <2>3 DEF Moment
    <3> HIDE DEF span, alone
    <3>5. rule.snap
      BY <2>3, <3>1, <3>2, <3>3
    <3>6. NextWorking(a.calendar, s) # None /\ f <= NextWorking(a.calendar, s)
      BY <3>1, <3>2, <3>3, <3>5, NoneAssumption
    <3>7. NextWorking(a.calendar, f) = NextWorking(a.calendar, s)
      BY <2>3, <3>6, NextWorkingAlong
    <3> QED BY <1>1, <2>1, <3>4, <3>5, <3>7 DEF PlacedBy, span
  <2> QED BY <2>2, <2>3
<1>2. CASE Remaining(a) # 0
  <2> DEFINE d == Remaining(a)
             first == SpanFrom(a.calendar, NextWorking(a.calendar, s), d)
  <2>1. Max({0, s}) = s
    <3>0. 0 \in Int /\ s \in Int
      OBVIOUS
    <3>1. Max({0, s}) = IF 0 >= s THEN 0 ELSE s
      BY Zenon, <3>0, MinMaxOfTwo
    <3> QED BY <3>1
  <2>2. ASSUME NEW g \in Int, Place(net, rule, a, s, g) # None
        PROVE  /\ first[1] = NextWorking(a.calendar, s) /\ s <= first[1] /\ Worked(a.calendar, first, d)
               /\ first[2] >= g => Place(net, rule, a, s, g) = first
    <3>1. /\ Chosen(a.calendar, s, g, d, net.horizon)
          /\ Place(net, rule, a, s, g) = EarliestSpan(a.calendar, s, g, d, net.horizon)
      BY <1>2, <2>2, PlaceFacts
    <3> QED BY Zenon, <2>1, <3>1 DEF Chosen
  <2>3. /\ first[1] = NextWorking(a.calendar, s) /\ s <= first[1] /\ Worked(a.calendar, first, d)
        /\ first[2] >= f => span = first
    BY <2>2
  <2>4. first[1] \in Int /\ first[2] \in Int /\ first[1] < first[2]
    BY <2>3 DEF Worked
  <2>5. first[2] >= f
    <3>1. CASE f <= s
      <4> HIDE DEF first
      <4> QED BY <2>3, <2>4, <3>1
    <3>2. CASE Reaches(alone, f)
      <4>1. alone # None /\ alone[2] >= f
        BY <3>2 DEF Reaches
      <4>2. first[2] >= floor => alone = first
        BY <2>2, <4>1
      <4>3. first[2] >= floor
        <5> HIDE DEF first
        <5> QED BY <2>3, <2>4
      <4> QED BY <4>1, <4>2, <4>3
    <3> QED BY <3>1, <3>2
  <2> HIDE DEF first, span
  <2> QED BY <1>2, <2>3, <2>5 DEF PlacedBy, span
<1> QED BY <1>1, <1>2

(* And when it is the finish's.                                              *)
LEMMA FinishPlaces ==
    ASSUME NEW net, net.horizon \in Int, NEW rule, NEW a, Indexed(a.calendar), Remaining(a) \in Nat,
           NEW s \in Int, NEW f \in Int, NEW floor \in Int, floor <= f,
           Place(net, rule, a, s, f) # None, ~Reaches(Place(net, rule, a, s, floor), f)
    PROVE  PlacedBy(rule, a, Place(net, rule, a, s, f), f, FALSE)
<1> DEFINE span == Place(net, rule, a, s, f)
           alone == Place(net, rule, a, s, floor)
<1>1. CASE Remaining(a) = 0
  <2>1. span[2] = Moment(rule, a, s, f) /\ f <= span[2]
    BY <1>1, PlaceFacts
  <2>2. CASE s <= f
    <3>1. Moment(rule, a, s, f) = IF rule.snap THEN NextWorking(a.calendar, f) ELSE f
      BY <2>2 DEF Moment
    <3> HIDE DEF span
    <3> QED BY <1>1, <2>1, <3>1 DEF PlacedBy, span
  <2>3. CASE ~(s <= f)
    <3>1. Max({s, floor}) = s /\ Max({s, f}) = s
      <4>1. Max({s, floor}) = IF s >= floor THEN s ELSE floor
        BY MinMaxOfTwo
      <4>2. Max({s, f}) = IF s >= f THEN s ELSE f
        BY MinMaxOfTwo
      <4> QED BY <2>3, <4>1, <4>2
    <3>2. alone = span
      BY <1>1, <3>1 DEF Place
    <3> HIDE DEF span, alone
    <3> QED BY <2>1, <3>2 DEF Reaches, span, alone
  <2> QED BY <2>2, <2>3
<1>2. CASE Remaining(a) # 0
  <2> DEFINE d == Remaining(a)
             lower == Max({0, s})
             first == SpanFrom(a.calendar, NextWorking(a.calendar, lower), d)
             reach == FirstFinish(a.calendar, f)
  <2>1. Chosen(a.calendar, s, f, d, net.horizon) /\ span = EarliestSpan(a.calendar, s, f, d, net.horizon)
    BY <1>2, PlaceFacts
  <2>2. /\ Worked(a.calendar, first, d) /\ span[2] <= net.horizon
        /\ first[2] >= f => span = first
        /\ ~(first[2] >= f) => reach # None /\ span[2] = reach
    BY Zenon, <2>1 DEF Chosen
  <2>3. ~(first[2] >= f)
    <3> SUFFICES ASSUME first[2] >= f PROVE FALSE
      OBVIOUS
    <3>1. span = first /\ first # None /\ first[2] <= net.horizon /\ first[2] \in Int
      BY <2>2 DEF Worked
    <3>2. first[2] >= floor
      <4> HIDE DEF first
      <4> QED BY <3>1
    <3>3. alone = Within(first, net.horizon)
      BY <1>2, <3>1, <3>2 DEF Place, EarliestSpan
    <3> HIDE DEF first, alone
    <3>4. alone = first
      BY <3>1, <3>3 DEF Within
    <3> QED BY <3>1, <3>4 DEF Reaches, alone
  <2> HIDE DEF first, span, reach
  <2> QED BY <1>2, <2>2, <2>3 DEF PlacedBy, span, reach
<1> QED BY <1>1, <1>2

(* So the side named as the driver is the side that placed the activity.     *)
LEMMA DriverPlaces ==
    ASSUME NEW net, net.horizon \in Int, NEW rule, NEW a, Indexed(a.calendar), Remaining(a) \in Nat,
           NEW bounds, bounds.start.at \in Int, bounds.finish.at \in Int, NEW floor \in Int,
           bounds.start.by # None =>
               /\ 0 <= bounds.start.at /\ floor <= bounds.start.at
               /\ bounds.finish.by = None => bounds.finish.at <= bounds.start.at,
           bounds.finish.by # None => floor <= bounds.finish.at,
           Place(net, rule, a, bounds.start.at, bounds.finish.at) # None,
           Driver(net, rule, a, bounds, floor) # None
    PROVE  LET span == Place(net, rule, a, bounds.start.at, bounds.finish.at)
               driver == Driver(net, rule, a, bounds, floor)
           IN  \/ /\ driver = bounds.start.by /\ PlacedBy(rule, a, span, bounds.start.at, TRUE)
               \/ /\ driver = bounds.finish.by /\ PlacedBy(rule, a, span, bounds.finish.at, FALSE)
<1> DEFINE s == bounds.start.at
           f == bounds.finish.at
<1>1. CASE bounds.finish.by = None
  <2>1. Driver(net, rule, a, bounds, floor) = bounds.start.by
    BY <1>1 DEF Driver
  <2> QED BY <1>1, <2>1, StartPlaces
<1>2. CASE bounds.finish.by # None /\ Reaches(Place(net, rule, a, s, floor), f)
  <2>1. Driver(net, rule, a, bounds, floor) = bounds.start.by
    BY <1>2 DEF Driver
  <2> QED BY <1>2, <2>1, StartPlaces
<1>3. CASE bounds.finish.by # None /\ ~Reaches(Place(net, rule, a, s, floor), f)
  <2>1. Driver(net, rule, a, bounds, floor) = bounds.finish.by
    BY <1>3 DEF Driver
  <2> QED BY <1>3, <2>1, FinishPlaces
<1> QED BY <1>1, <1>2, <1>3

(* Reported work is held back to its actual start and the status time: a     *)
(* bound that still names an edge stands where logic put it.                 *)
LEMMA HeldFacts ==
    ASSUME NEW net, net.status \in Int \union {None}, NEW rule, NEW a, a.actual_start \in Int,
           NEW bound, bound.at \in Int
    PROVE  LET held == HeldBack(net, rule, a, bound) IN
           /\ held.at \in Int /\ a.actual_start <= held.at
           /\ held.by # None =>
                 /\ held.by = bound.by /\ rule.policy # "progress_override"
                 /\ net.status # None => net.status <= bound.at
                 /\ a.actual_start <= bound.at => held.at = bound.at
           /\ held.by = None =>
                 \/ bound.by = None \/ rule.policy = "progress_override"
                 \/ net.status # None /\ bound.at < net.status
           /\ \A m \in Int : /\ a.actual_start <= m /\ bound.at <= m
                             /\ net.status # None => net.status <= m
                             => held.at <= m
<1> DEFINE held == HeldBack(net, rule, a, bound)
           asked == IF net.status = None THEN bound.at
                    ELSE IF rule.policy = "progress_override" THEN net.status
                    ELSE IF bound.at >= net.status THEN bound.at ELSE net.status
<1>1. net.status # None => Max({bound.at, net.status}) = IF bound.at >= net.status THEN bound.at ELSE net.status
  BY MinMaxOfTwo
<1>2. asked \in Int
  OBVIOUS
<1>3. held.at = Max({a.actual_start, asked})
  BY <1>1 DEF HeldBack, RemainingBound
<1>4. held.by = IF \/ rule.policy = "progress_override"
                   \/ net.status # None /\ net.status > bound.at THEN None ELSE bound.by
  BY DEF HeldBack
<1> HIDE DEF held
<1>5. held.at = IF a.actual_start >= asked THEN a.actual_start ELSE asked
  <2> HIDE DEF asked
  <2> QED BY <1>2, <1>3, MinMaxOfTwo
<1>6. held.at \in Int /\ a.actual_start <= held.at
  <2> HIDE DEF asked
  <2> QED BY <1>2, <1>5
<1>7. CASE net.status = None
  BY <1>4, <1>5, <1>6, <1>7 DEF held
<1>8. CASE net.status # None
  <2>1. net.status \in Int
    BY <1>8
  <2> QED BY <2>1, <1>4, <1>5, <1>6, <1>8 DEF held
<1> QED BY <1>7, <1>8

(* A hard date places its activity at coordinates.                           *)
LEMMA PinnedIsTimed ==
    ASSUME NEW net, NEW a, Indexed(a.calendar), Remaining(a) \in Nat, a.coordinate \in Int,
           PlacePinned(net, a) # None
    PROVE  PlacePinned(net, a)[1] \in Int /\ PlacePinned(net, a)[2] \in Int
<1> DEFINE d == Remaining(a)
           add == AddWorking(a.calendar, a.coordinate, d)
           sub == SubWorking(a.calendar, a.coordinate, d)
<1>1. add \in Int \union {None}
  <2>1. ShiftLag(a.calendar, a.coordinate, d) = add
    BY DEF ShiftLag
  <2> QED BY <2>1, ShiftLagIsTimed
<1>2. sub \in Int \union {None}
  <2>1. CASE d = 0
    BY <2>1 DEF SubWorking
  <2>2. CASE d # 0
    BY <2>2, SubWorkingIsExact
  <2> QED BY <2>1, <2>2
<1>3. PlacePinned(net, a) =
         IF a.constraint = "MSO"
         THEN Within(IF a.coordinate = None \/ add = None THEN None ELSE <<a.coordinate, add>>, net.horizon)
         ELSE IF sub = None THEN None ELSE Within(<<sub, a.coordinate>>, net.horizon)
  BY DEF PlacePinned, SpanFrom
<1> HIDE DEF add, sub, d
<1>4. CASE a.constraint = "MSO"
  <2> DEFINE span == IF a.coordinate = None \/ add = None THEN None ELSE <<a.coordinate, add>>
  <2>1. PlacePinned(net, a) = Within(span, net.horizon)
    BY <1>3, <1>4
  <2>2. PlacePinned(net, a) = span /\ span # None
    <3> HIDE DEF span
    <3> QED BY <2>1 DEF Within
  <2> QED BY <1>1, <2>2
<1>5. CASE a.constraint # "MSO"
  <2> DEFINE span == <<sub, a.coordinate>>
  <2>1. sub # None /\ PlacePinned(net, a) = Within(span, net.horizon)
    BY <1>3, <1>5
  <2>2. PlacePinned(net, a) = span
    <3> HIDE DEF span
    <3> QED BY <2>1 DEF Within
  <2> QED BY <1>2, <2>1, <2>2
<1> QED BY <1>4, <1>5

(* What several assignments span begins where the first of them can.         *)
LEMMA EnvelopeFacts ==
    ASSUME NEW net, net.horizon \in Int, NEW a, IsFiniteSet(a.envelope), a.envelope # {},
           \A p \in a.envelope : p.work \in Nat \ {0} /\ Indexed(p.calendar),
           NEW bound \in Int, EarlyEnvelope(net, a, bound) # None
    PROVE  LET span == EarlyEnvelope(net, a, bound) IN
           /\ span[1] \in Int /\ span[2] \in Int
           /\ 0 <= bound =>
                 /\ bound <= span[1]
                 /\ \A p \in a.envelope : NextWorking(p.calendar, bound) # None
                                          /\ span[1] <= NextWorking(p.calendar, bound)
<1> DEFINE Of(p) == EarliestSpan(p.calendar, bound, bound, p.work, net.horizon)
           spans == {Of(p) : p \in a.envelope}
           span == EarlyEnvelope(net, a, bound)
           starts == [p \in a.envelope |-> Of(p)[1]]
           finishes == [p \in a.envelope |-> Of(p)[2]]
<1>1. span = IF None \in spans THEN None
             ELSE <<Min({s[1] : s \in spans}), Max({s[2] : s \in spans})>>
  BY DEF EarlyEnvelope, Enclosing
<1>2. /\ None \notin spans
      /\ span = <<Min({s[1] : s \in spans}), Max({s[2] : s \in spans})>>
  <2> HIDE DEF spans, span
  <2> QED BY <1>1 DEF span
<1>3. ASSUME NEW p \in a.envelope
      PROVE  /\ Of(p)[1] \in Int /\ Of(p)[2] \in Int
             /\ 0 <= bound => /\ NextWorking(p.calendar, bound) # None
                              /\ Of(p)[1] = NextWorking(p.calendar, bound) /\ bound <= Of(p)[1]
  <2>1. Of(p) # None
    BY <1>2
  <2>2. Chosen(p.calendar, bound, bound, p.work, net.horizon)
    BY <2>1, EarliestSpanChoice
  <2> DEFINE lower == Max({0, bound})
             next == NextWorking(p.calendar, lower)
             first == SpanFrom(p.calendar, next, p.work)
  <2>3. /\ lower \in Int /\ bound <= lower
        /\ lower = IF 0 <= bound THEN bound ELSE 0
        /\ Worked(p.calendar, first, p.work) /\ first[1] = next /\ lower <= first[1]
        /\ first[2] >= bound => Of(p) = first
    BY Zenon, <2>2 DEF Chosen
  <2>4. first[1] \in Int /\ first[2] \in Int /\ first[1] < first[2]
    BY <2>3 DEF Worked
  <2> HIDE DEF first, lower
  <2>5. Of(p) = first
    BY <2>3, <2>4
  <2>6. 0 <= bound => next = NextWorking(p.calendar, bound)
    BY <2>3
  <2> HIDE DEF Of, next
  <2> QED BY <2>3, <2>4, <2>5, <2>6, NoneAssumption
<1>4. {s[1] : s \in spans} = {starts[p] : p \in a.envelope}
      /\ {s[2] : s \in spans} = {finishes[p] : p \in a.envelope}
  <2> HIDE DEF Of
  <2> QED OBVIOUS
<1>5. \A p \in a.envelope : starts[p] = Of(p)[1] /\ finishes[p] = Of(p)[2]
  OBVIOUS
<1> HIDE DEF Of, starts, finishes, spans, span
<1>6. \A p \in a.envelope : starts[p] \in Int /\ finishes[p] \in Int
  BY <1>3, <1>5
<1>7. PICK m \in a.envelope : Min({starts[p] : p \in a.envelope}) = starts[m]
                              /\ \A p \in a.envelope : starts[m] <= starts[p]
  BY <1>6, ExtremesOf
<1>8. PICK l \in a.envelope : Max({finishes[p] : p \in a.envelope}) = finishes[l]
  BY <1>6, ExtremesOf
<1>9. span[1] = starts[m] /\ span[2] = finishes[l]
  BY <1>2, <1>4, <1>7, <1>8
<1>10. ASSUME 0 <= bound
       PROVE  /\ bound <= starts[m]
              /\ \A p \in a.envelope : NextWorking(p.calendar, bound) # None
                                       /\ starts[m] <= NextWorking(p.calendar, bound)
  BY <1>3, <1>5, <1>7, <1>10
<1> QED BY <1>6, <1>9, <1>10 DEF span

(* The edge named as a row's driver is the edge that placed it.              *)
TightRow(net, rule, placed, u, row) ==
    LET a == net.act[u]
        e == net.edges[row.driver]
        landing == Landing(net, placed, row.driver)
    IN  row.driver # None =>
        /\ landing # None
        /\ IF Milestone(a)
           THEN IF rule.snap THEN StartsAsSoon(a.calendar, landing, row.finish)
                ELSE row.finish = landing
           ELSE IF BoundsStart(e) THEN StartsAsSoon(a.calendar, landing, MovableStart(row))
           ELSE FinishesAsSoon(a.calendar, landing, row.finish)

(* Work that starts, or finishes, at the first second it may.                *)
LEMMA NextIsAsSoon ==
    ASSUME NEW cal, Indexed(cal), NEW landing \in Int, NextWorking(cal, landing) # None
    PROVE  StartsAsSoon(cal, landing, NextWorking(cal, landing))
<1> DEFINE at == NextWorking(cal, landing)
<1>1. /\ at \in Int /\ landing <= at
      /\ \A c \in Int : WorkingAt(cal, c) /\ landing <= c => at <= c
  BY NextWorkingIsFirst
<1> HIDE DEF at
<1>2. \A c \in landing..(at - 1) : ~WorkingAt(cal, c)
  BY <1>1
<1> QED BY <1>1, <1>2 DEF StartsAsSoon, at
LEMMA FirstFinishIsAsSoon ==
    ASSUME NEW cal, Indexed(cal), NEW landing \in Int, FirstFinish(cal, landing) # None
    PROVE  FinishesAsSoon(cal, landing, FirstFinish(cal, landing))
<1> DEFINE at == FirstFinish(cal, landing)
<1>1. /\ at \in Int /\ landing <= at
      /\ \A c \in Int : FinishingAt(cal, c) /\ landing <= c => at <= c
  BY FirstFinishIsFirst
<1> HIDE DEF at
<1>2. \A c \in landing..(at - 1) : ~FinishingAt(cal, c)
  BY <1>1
<1> QED BY <1>1, <1>2 DEF FinishesAsSoon, at

(* A row placed by the bound of the edge it names is tight.                  *)
LEMMA PlacedIsTight ==
    ASSUME NEW net, NEW rule, NEW placed, NEW u, Indexed(net.act[u].calendar),
           net.act[u].envelope = {},
           NEW row, NEW span, span[1] \in Int, span[2] \in Int,
           MovableStart(row) = span[1], row.finish = span[2],
           Landing(net, placed, row.driver) \in Int,
           PlacedBy(rule, net.act[u], span, Landing(net, placed, row.driver),
                    BoundsStart(net.edges[row.driver]))
    PROVE  TightRow(net, rule, placed, u, row)
<1> DEFINE a == net.act[u]
           e == net.edges[row.driver]
           landing == Landing(net, placed, row.driver)
<1>1. landing \in Int /\ landing # None
  BY NoneAssumption
<1>2. span[1] # None /\ span[2] # None
  BY NoneAssumption
<1>3. CASE Remaining(a) = 0
  <2>1. Milestone(a) /\ span[2] = IF rule.snap THEN NextWorking(a.calendar, landing) ELSE landing
    BY <1>3 DEF Milestone, PlacedBy
  <2>2. rule.snap => StartsAsSoon(a.calendar, landing, span[2])
    <3> HIDE DEF landing
    <3> QED BY <1>1, <1>2, <2>1, NextIsAsSoon
  <2> HIDE DEF landing
  <2> QED BY <1>1, <2>1, <2>2 DEF TightRow, landing
<1>4. CASE Remaining(a) # 0 /\ BoundsStart(e)
  <2>1. ~Milestone(a) /\ span[1] = NextWorking(a.calendar, landing)
    BY <1>4 DEF Milestone, PlacedBy
  <2>2. StartsAsSoon(a.calendar, landing, span[1])
    <3> HIDE DEF landing
    <3> QED BY <1>1, <1>2, <2>1, NextIsAsSoon
  <2> HIDE DEF landing
  <2> QED BY <1>1, <1>4, <2>1, <2>2 DEF TightRow, landing
<1>5. CASE Remaining(a) # 0 /\ ~BoundsStart(e)
  <2>1. ~Milestone(a) /\ span[2] = FirstFinish(a.calendar, landing)
    BY <1>5 DEF Milestone, PlacedBy
  <2>2. FinishesAsSoon(a.calendar, landing, span[2])
    <3> HIDE DEF landing
    <3> QED BY <1>1, <1>2, <2>1, FirstFinishIsAsSoon
  <2> HIDE DEF landing
  <2> QED BY <1>1, <1>5, <2>1, <2>2 DEF TightRow, landing
<1> QED BY <1>3, <1>4, <1>5

(* Work shared out begins as soon as its logic lets any of it.               *)
LEMMA EnvelopeIsTight ==
    ASSUME NEW net, net.horizon \in Int, NEW rule, NEW placed, NEW u \in DOMAIN net.act,
           IsActivity(net.act[u]), net.act[u].envelope # {},
           \A p \in net.act[u].envelope : p.work \in Nat \ {0} /\ Indexed(p.calendar),
           NEW row, Landing(net, placed, row.driver) \in Int, 0 <= Landing(net, placed, row.driver),
           BoundsStart(net.edges[row.driver]),
           EarlyEnvelope(net, net.act[u], Landing(net, placed, row.driver)) # None,
           MovableStart(row) = EarlyEnvelope(net, net.act[u], Landing(net, placed, row.driver))[1]
    PROVE  TightRow(net, rule, placed, u, row)
<1> DEFINE a == net.act[u]
           landing == Landing(net, placed, row.driver)
           at == EarlyEnvelope(net, a, landing)[1]
<1>1. /\ IsFiniteSet(a.envelope) /\ Covered(a)
      /\ DOMAIN a.calendar.starts = 1..Len(a.calendar.starts)
      /\ \A i \in DOMAIN a.calendar.starts :
            a.calendar.starts[i] \in Int /\ a.calendar.finishes[i] \in Int
  <2>1. IsFiniteSet(a.envelope) /\ Covered(a) /\ Indexed(a.calendar)
    BY DEF IsActivity
  <2> HIDE DEF a
  <2> QED BY <2>1, Fields
<1>2. /\ at \in Int /\ landing <= at
      /\ \A p \in a.envelope : NextWorking(p.calendar, landing) # None
                               /\ at <= NextWorking(p.calendar, landing)
  BY <1>1, EnvelopeFacts
<1> HIDE DEF landing, at, a
<1>3. ASSUME NEW c \in landing..(at - 1), WorkingAt(a.calendar, c)
      PROVE  FALSE
  <2>1. PICK i \in DOMAIN a.calendar.starts : a.calendar.starts[i] <= c /\ c < a.calendar.finishes[i]
    BY <1>3 DEF WorkingAt
  <2>2. landing \in Int
    BY DEF landing
  <2>3. c \in Int /\ landing <= c /\ c < at
    BY <1>2, <2>2
  <2>4. c \in a.calendar.starts[i]..(a.calendar.finishes[i] - 1)
    BY <1>1, <2>1, <2>3
  <2>5. PICK p \in a.envelope : WorkingAt(p.calendar, c)
    BY <1>1, <2>4 DEF Covered
  <2>6. Indexed(p.calendar)
    BY DEF a
  <2>7. NextWorking(p.calendar, landing) \in Int /\ NextWorking(p.calendar, landing) <= c
    BY <1>2, <2>2, <2>3, <2>5, <2>6, NextWorkingIsFirst
  <2> QED BY <1>2, <2>3, <2>7
<1>4. StartsAsSoon(a.calendar, landing, at)
  BY <1>2, <1>3 DEF StartsAsSoon
<1>5. ~Milestone(a) /\ landing # None
  BY NoneAssumption DEF Milestone, a, landing
<1> QED BY <1>4, <1>5 DEF TightRow, a, landing, at

(* What an activity not begun is placed at, when it can be.                  *)
LEMMA UntouchedRowFacts ==
    ASSUME NEW net, NEW rule, NEW placed, NEW u,
           NEW row, row = PlaceUntouched(net, rule, u, Bounds(net, rule, placed, u)),
           row.error = None
    PROVE  LET span == UntouchedSpan(net, rule, net.act[u], Bounds(net, rule, placed, u)) IN
           /\ span # None /\ row.start = span[1] /\ row.finish = span[2]
           /\ row.remaining_start = None
           /\ row.driver = UntouchedDriver(net, rule, u, Bounds(net, rule, placed, u))
<1> DEFINE a == net.act[u]
           logic == Bounds(net, rule, placed, u)
           span == UntouchedSpan(net, rule, a, logic)
           driver == UntouchedDriver(net, rule, u, logic)
           placedAs == [error |-> None, start |-> span[1], finish |-> span[2], remaining_start |-> None,
              driver |-> driver,
              source |-> IF Dominated(a, DatedLater(a, logic)) THEN "constraint"
                         ELSE IF driver # None THEN "relationship" ELSE "project_start",
              deferred |-> a.constraint \in {"ALAP", "SNLT", "FNLT"},
              violated |-> \/ a.constraint = "MSO" /\ logic.start.at > span[1]
                           \/ a.constraint = "MFO" /\ logic.finish.at > span[2],
              unbounded |-> Fallback(net, rule, u, logic, span)]
           unmeasured == a.envelope # {} /\ logic.finish.at > logic.start.at
<1>1. row = IF unmeasured THEN [error |-> "SCHEDULE_ASSIGNMENT_ENVELOPE_UNMEASURED_BOUND"]
            ELSE IF span = None THEN Exceeded ELSE placedAs
  BY Zenon DEF PlaceUntouched
<1>2. ~unmeasured /\ span # None /\ row = placedAs
  <2>1. [error |-> "SCHEDULE_ASSIGNMENT_ENVELOPE_UNMEASURED_BOUND"].error # None
        /\ Exceeded.error # None
    BY RefusalsAssumption DEF Codes, Exceeded
  <2> HIDE DEF unmeasured, span, placedAs
  <2> QED BY <1>1, <2>1
<1>3. /\ row.start = span[1] /\ row.finish = span[2]
      /\ row.remaining_start = None /\ row.driver = driver
  <2> HIDE DEF span, driver, a, logic
  <2> QED BY <1>2
<1> QED BY <1>2, <1>3

(* And what work under way, or done, is.                                     *)
LEMMA ReportedRowFacts ==
    ASSUME NEW net, NEW rule, NEW placed, NEW u,
           NEW row, row = PlaceReported(net, rule, u, Bounds(net, rule, placed, u)),
           row.error = None
    PROVE  LET a == net.act[u]
               held == HeldBounds(net, rule, a, Bounds(net, rule, placed, u))
               span == Place(net, rule, a, held.start.at, held.finish.at)
           IN  /\ row.start = a.actual_start
               /\ StateOf(a) = "complete" =>
                     row.finish = a.actual_finish /\ row.remaining_start = None /\ row.driver = None
               /\ StateOf(a) # "complete" =>
                     /\ span # None /\ row.finish = span[2] /\ row.remaining_start = span[1]
                     /\ row.driver = Driver(net, rule, a, held, a.actual_start)
<1> DEFINE a == net.act[u]
           logic == Bounds(net, rule, placed, u)
           held == HeldBounds(net, rule, a, logic)
           span == Place(net, rule, a, held.start.at, held.finish.at)
           driver == Driver(net, rule, a, held, a.actual_start)
           Row(finish, remainingStart, by, source) ==
            [error |-> None, start |-> a.actual_start, finish |-> finish,
             remaining_start |-> remainingStart, driver |-> by, source |-> source,
             deferred |-> a.constraint # "ASAP", violated |-> FALSE, unbounded |-> FALSE]
           source == IF driver # None THEN "relationship"
                     ELSE IF net.status # None /\ net.status >= a.actual_start THEN "status_time"
                     ELSE "actuals"
<1>1. row = IF StateOf(a) = "complete" THEN Row(a.actual_finish, None, None, "actuals")
            ELSE IF span = None THEN Exceeded ELSE Row(span[2], span[1], driver, source)
  BY Zenon DEF PlaceReported
<1>2. CASE StateOf(a) = "complete"
  <2>1. /\ row.start = a.actual_start /\ row.finish = a.actual_finish
        /\ row.remaining_start = None /\ row.driver = None
    <3> HIDE DEF a
    <3> QED BY <1>1, <1>2
  <2> QED BY <1>2, <2>1
<1>3. CASE StateOf(a) # "complete"
  <2>1. span # None /\ row = Row(span[2], span[1], driver, source)
    <3>1. Exceeded.error # None
      BY RefusalsAssumption DEF Codes, Exceeded
    <3> HIDE DEF span, Row, a, driver, source
    <3> QED BY <1>1, <1>3, <3>1
  <2>2. /\ row.start = a.actual_start /\ row.finish = span[2]
        /\ row.remaining_start = span[1] /\ row.driver = driver
    <3> HIDE DEF span, driver, a, source
    <3> QED BY <2>1
  <2> QED BY <1>3, <2>1, <2>2
<1> QED BY <1>2, <1>3

(* Work not begun is placed at coordinates, and tightly.                     *)
LEMMA UntouchedIsTight ==
    ASSUME NEW net, IsTimed(net), Validated(net), NEW rule, NEW placed, NEW u \in DOMAIN net.act,
           \A k \in Binding(net, rule, u) : Landing(net, placed, k) \in Int,
           StateOf(net.act[u]) = "not_started",
           NEW row, row = PlaceUntouched(net, rule, u, Bounds(net, rule, placed, u)),
           row.error = None
    PROVE  TimedRow(row) /\ TightRow(net, rule, placed, u, row)
<1> DEFINE a == net.act[u]
           logic == Bounds(net, rule, placed, u)
           s == logic.start.at
           f == logic.finish.at
           span == UntouchedSpan(net, rule, a, logic)
           driver == UntouchedDriver(net, rule, u, logic)
           sides == DatedLater(a, logic)
           dated == DatedBounds(a, logic, sides)
<1>2. span # None
  BY UntouchedRowFacts
<1>3. /\ row.start = span[1] /\ row.finish = span[2] /\ row.remaining_start = None
      /\ row.driver = driver /\ MovableStart(row) = span[1]
  <2>1. /\ row.start = span[1] /\ row.finish = span[2] /\ row.remaining_start = None
        /\ row.driver = driver
    BY UntouchedRowFacts
  <2> HIDE DEF span, driver
  <2> QED BY <2>1 DEF MovableStart
<1>4. /\ s \in Int /\ f \in Int /\ Floor(net, u) \in Int
      /\ logic.start.by # None => DrivenBy(net, rule, placed, u, logic.start, TRUE)
      /\ logic.finish.by # None => DrivenBy(net, rule, placed, u, logic.finish, FALSE)
      /\ logic.finish.by = None => f \in {CalendarFloor(a), Floor(net, u)}
  BY BoundsFacts
<1>5. /\ IsActivity(a) /\ Indexed(a.calendar) /\ CalendarFloor(a) \in Int /\ 0 <= CalendarFloor(a)
      /\ Remaining(a) \in Nat
      /\ a.constraint \in {"SNET", "FNET", "SNLT", "FNLT", "MSO", "MFO"} => a.coordinate \in Int
      /\ a.envelope # {} => /\ a.constraint = "ASAP"
                            /\ \A p \in a.envelope : p.work \in Nat \ {0} /\ Indexed(p.calendar)
  BY ActivityFacts
<1>6. IsFiniteSet(a.envelope) /\ net.horizon \in Int
  BY <1>5 DEF IsActivity, IsTimed
<1>7. span = IF Pinned(a) THEN PlacePinned(net, a)
             ELSE IF a.envelope # {} THEN EarlyEnvelope(net, a, s)
             ELSE Place(net, rule, a, dated.start.at, dated.finish.at)
  BY DEF UntouchedSpan
<1>8. driver = IF Dominated(a, sides) THEN None
               ELSE IF a.envelope # {} THEN logic.start.by
               ELSE Driver(net, rule, a, logic, Floor(net, u))
  BY DEF UntouchedDriver, Floor
<1>9. /\ sides.start <=> a.constraint = "SNET" /\ a.coordinate > s
      /\ sides.finish <=> a.constraint = "FNET" /\ a.coordinate > f
  BY DEF DatedLater
<1>10. /\ dated.start.at = IF sides.start THEN a.coordinate ELSE s
       /\ dated.finish.at = IF sides.finish THEN a.coordinate ELSE f
  BY DEF DatedBounds
<1>11. span[1] \in Int /\ span[2] \in Int
  <2>1. CASE Pinned(a)
    <3>1. a.coordinate \in Int /\ PlacePinned(net, a) # None
      BY <1>2, <1>5, <1>7, <2>1 DEF Pinned
    <3> QED BY <1>5, <1>7, <2>1, <3>1, PinnedIsTimed
  <2>2. CASE ~Pinned(a) /\ a.envelope # {}
    <3>1. EarlyEnvelope(net, a, s) # None /\ span = EarlyEnvelope(net, a, s)
      BY <1>2, <1>7, <2>2
    <3> HIDE DEF span, s, a
    <3> QED BY <1>4, <1>5, <1>6, <2>2, <3>1, EnvelopeFacts
  <2>3. CASE ~Pinned(a) /\ a.envelope = {}
    <3> DEFINE x == dated.start.at
               y == dated.finish.at
    <3>1. x \in Int /\ y \in Int
      <4> HIDE DEF sides, s, f
      <4> QED BY <1>4, <1>5, <1>9, <1>10
    <3>2. Place(net, rule, a, x, y) # None /\ span = Place(net, rule, a, x, y)
      BY <1>2, <1>7, <2>3
    <3> HIDE DEF span, x, y, a
    <3> QED BY <1>5, <1>6, <3>1, <3>2, PlaceFacts
  <2> QED BY <2>1, <2>2, <2>3
<1>12. TimedRow(row)
  BY <1>3, <1>11 DEF TimedRow
<1>13. TightRow(net, rule, placed, u, row)
  <2>1. SUFFICES ASSUME driver # None PROVE TightRow(net, rule, placed, u, row)
    BY <1>3 DEF TightRow
  <2>2. ~Dominated(a, sides)
    BY <1>8, <2>1
  <2>3. ~Pinned(a) /\ ~sides.start /\ ~sides.finish
    BY <2>2 DEF Dominated
  <2>4. CASE a.envelope # {}
    <3>1. /\ driver = logic.start.by /\ span = EarlyEnvelope(net, a, s)
      BY <1>7, <1>8, <2>2, <2>3, <2>4
    <3>2. /\ s = Landing(net, placed, driver) /\ CalendarFloor(a) <= s
          /\ BoundsStart(net.edges[driver])
      BY <1>4, <2>1, <3>1 DEF DrivenBy
    <3>3. 0 <= s
      <4> HIDE DEF s
      <4> QED BY <1>4, <1>5, <3>2
    <3> HIDE DEF span, s, driver
    <3> QED BY <1>2, <1>3, <1>4, <1>5, <1>6, <2>4, <3>1, <3>2, <3>3, EnvelopeIsTight
  <2>5. CASE a.envelope = {}
    <3> DEFINE floor == Floor(net, u)
    <3>1. driver = Driver(net, rule, a, logic, floor) /\ span = Place(net, rule, a, s, f)
      BY <1>7, <1>8, <1>10, <2>2, <2>3, <2>5
    <3>2. logic.start.by # None => /\ 0 <= s /\ floor <= s
                                   /\ logic.finish.by = None => f <= s
      <4>1. logic.start.by # None => CalendarFloor(a) <= s /\ floor <= s
        BY <1>4 DEF DrivenBy
      <4> HIDE DEF s, f, floor, a
      <4> QED BY <1>4, <1>5, <4>1 DEF floor
    <3>3. logic.finish.by # None => floor <= f
      BY <1>4 DEF DrivenBy
    <3>4. \/ driver = logic.start.by /\ PlacedBy(rule, a, span, s, TRUE)
          \/ driver = logic.finish.by /\ PlacedBy(rule, a, span, f, FALSE)
      <4>1. Place(net, rule, a, s, f) # None /\ Driver(net, rule, a, logic, floor) # None
        BY <1>2, <2>1, <3>1
      <4>2. floor \in Int
        BY <1>4
      <4> HIDE DEF logic, a, floor, span, driver
      <4>3. /\ net.horizon \in Int /\ Indexed(a.calendar) /\ Remaining(a) \in Nat
            /\ logic.start.at \in Int /\ logic.finish.at \in Int
        BY <1>4, <1>5, <1>6
      <4>4. LET there == Place(net, rule, a, logic.start.at, logic.finish.at)
                by == Driver(net, rule, a, logic, floor)
            IN  \/ by = logic.start.by /\ PlacedBy(rule, a, there, logic.start.at, TRUE)
                \/ by = logic.finish.by /\ PlacedBy(rule, a, there, logic.finish.at, FALSE)
        BY <3>2, <3>3, <4>1, <4>2, <4>3, DriverPlaces
      <4> QED BY <3>1, <4>4
    <3>5. \/ /\ s = Landing(net, placed, driver) /\ BoundsStart(net.edges[driver]) = TRUE
             /\ PlacedBy(rule, a, span, s, TRUE)
          \/ /\ f = Landing(net, placed, driver) /\ BoundsStart(net.edges[driver]) = FALSE
             /\ PlacedBy(rule, a, span, f, FALSE)
      BY <1>4, <2>1, <3>4 DEF DrivenBy
    <3>6. /\ Landing(net, placed, row.driver) \in Int
          /\ PlacedBy(rule, a, span, Landing(net, placed, row.driver), BoundsStart(net.edges[row.driver]))
      <4> HIDE DEF s, f, span, driver, a
      <4> QED BY <1>3, <1>4, <3>5
    <3> HIDE DEF span, driver
    <3> QED BY <1>3, <1>5, <1>11, <2>5, <3>6, PlacedIsTight
  <2> QED BY <2>4, <2>5
<1> QED BY <1>12, <1>13

(* So is what is left of work under way.                                     *)
LEMMA ReportedIsTight ==
    ASSUME NEW net, IsTimed(net), Validated(net), NEW rule, NEW placed, NEW u \in DOMAIN net.act,
           \A k \in Binding(net, rule, u) : Landing(net, placed, k) \in Int,
           StateOf(net.act[u]) # "not_started",
           NEW row, row = PlaceReported(net, rule, u, Bounds(net, rule, placed, u)),
           row.error = None
    PROVE  TimedRow(row) /\ TightRow(net, rule, placed, u, row)
<1> DEFINE a == net.act[u]
           logic == Bounds(net, rule, placed, u)
           s == logic.start.at
           f == logic.finish.at
           held == HeldBounds(net, rule, a, logic)
           span == Place(net, rule, a, held.start.at, held.finish.at)
           driver == Driver(net, rule, a, held, a.actual_start)
<1>1. /\ row.start = a.actual_start
      /\ StateOf(a) = "complete" =>
            row.finish = a.actual_finish /\ row.remaining_start = None /\ row.driver = None
      /\ StateOf(a) # "complete" =>
            /\ span # None /\ row.finish = span[2] /\ row.remaining_start = span[1]
            /\ row.driver = driver
  BY ReportedRowFacts
<1>2. /\ IsActivity(a) /\ Indexed(a.calendar) /\ CalendarFloor(a) \in Int /\ 0 <= CalendarFloor(a)
      /\ Remaining(a) \in Nat /\ a.actual_start \in Int
      /\ StateOf(a) = "complete" => a.actual_finish \in Int
      /\ a.envelope # {} => a.actual_start = None
      /\ Base(net, u) = a.actual_start
  BY ActivityFacts
<1>3. net.horizon \in Int /\ net.status \in Int \union {None} /\ a.envelope = {}
      /\ a.actual_start # None
  BY <1>2, NoneAssumption DEF IsTimed
<1>4. CASE StateOf(a) = "complete"
  <2> HIDE DEF a
  <2> QED BY <1>1, <1>2, <1>4 DEF TimedRow, TightRow
<1>5. CASE StateOf(a) # "complete"
  <2>1. span # None
    BY <1>1, <1>5
  <2>2. /\ row.start = a.actual_start /\ row.finish = span[2]
        /\ row.remaining_start = span[1] /\ row.driver = driver
    BY <1>1, <1>5
  <2>3. /\ s \in Int /\ f \in Int /\ Floor(net, u) = a.actual_start
        /\ logic.start.by # None => DrivenBy(net, rule, placed, u, logic.start, TRUE)
        /\ logic.finish.by # None => DrivenBy(net, rule, placed, u, logic.finish, FALSE)
        /\ logic.finish.by = None => f \in {CalendarFloor(a), a.actual_start}
    <3>1. Floor(net, u) = a.actual_start
      BY <1>2, <1>3 DEF Floor
    <3> QED BY <3>1, BoundsFacts
  <2>4. held.start = HeldBack(net, rule, a, logic.start)
        /\ held.finish = HeldBack(net, rule, a, logic.finish)
    BY DEF HeldBounds
  <2> DEFINE floor == a.actual_start
             x == held.start.at
             y == held.finish.at
  <2>5. /\ x \in Int /\ floor <= x
        /\ held.start.by # None =>
              /\ held.start.by = logic.start.by /\ rule.policy # "progress_override"
              /\ net.status # None => net.status <= s
              /\ floor <= s => x = s
    <3> DEFINE bound == logic.start
               now == HeldBack(net, rule, a, bound)
    <3>1. /\ now.at \in Int /\ floor <= now.at
          /\ now.by # None =>
              /\ now.by = bound.by /\ rule.policy # "progress_override"
              /\ net.status # None => net.status <= bound.at
              /\ floor <= bound.at => now.at = bound.at
      <4>1. bound.at \in Int
        BY <2>3
      <4> HIDE DEF a, bound
      <4> QED BY <1>2, <1>3, <4>1, HeldFacts
    <3> QED BY <2>4, <3>1
  <2>6. /\ y \in Int /\ floor <= y
        /\ held.finish.by # None =>
              held.finish.by = logic.finish.by /\ (floor <= f => y = f)
        /\ held.finish.by = None =>
              \/ logic.finish.by = None \/ rule.policy = "progress_override"
              \/ net.status # None /\ f < net.status
        /\ \A m \in Int : floor <= m /\ f <= m /\ (net.status # None => net.status <= m) => y <= m
    <3> DEFINE bound == logic.finish
               now == HeldBack(net, rule, a, bound)
    <3>1. /\ now.at \in Int /\ floor <= now.at
          /\ now.by # None => now.by = bound.by /\ (floor <= bound.at => now.at = bound.at)
          /\ now.by = None =>
                \/ bound.by = None \/ rule.policy = "progress_override"
                \/ net.status # None /\ bound.at < net.status
          /\ \A m \in Int : /\ floor <= m /\ bound.at <= m
                            /\ net.status # None => net.status <= m
                            => now.at <= m
      <4>1. bound.at \in Int
        BY <2>3
      <4> HIDE DEF a, bound
      <4> QED BY <1>2, <1>3, <4>1, HeldFacts
    <3> QED BY <2>4, <3>1
  <2>7. span[1] \in Int /\ span[2] \in Int
    <3> HIDE DEF span, x, y, a
    <3> QED BY <1>2, <1>3, <2>1, <2>5, <2>6, PlaceFacts DEF span, x, y
  <2>8. TimedRow(row) /\ MovableStart(row) = span[1]
    <3> HIDE DEF span
    <3> QED BY <1>2, <2>2, <2>7, NoneAssumption DEF TimedRow, MovableStart
  <2>9. TightRow(net, rule, placed, u, row)
    <3>1. SUFFICES ASSUME driver # None PROVE TightRow(net, rule, placed, u, row)
      BY <2>2 DEF TightRow
    <3>2. ASSUME held.start.by # None
          PROVE  /\ x = s /\ 0 <= x /\ floor <= x
                 /\ s = Landing(net, placed, held.start.by)
                 /\ BoundsStart(net.edges[held.start.by]) = TRUE
                 /\ held.finish.by = None => y <= x
      <4>1. /\ held.start.by = logic.start.by /\ rule.policy # "progress_override"
            /\ net.status # None => net.status <= s
            /\ DrivenBy(net, rule, placed, u, logic.start, TRUE)
        BY <2>3, <2>5, <3>2
      <4>2. /\ s = Landing(net, placed, held.start.by) /\ BoundsStart(net.edges[held.start.by]) = TRUE
            /\ CalendarFloor(a) <= s /\ floor <= s
        BY <2>3, <4>1 DEF DrivenBy
      <4>3. x = s
        BY <2>5, <3>2, <4>2
      <4>4. held.finish.by = None => f <= s
        <5>1. held.finish.by = None => \/ logic.finish.by = None
                                       \/ net.status # None /\ f < net.status
          BY <2>6, <4>1
        <5> HIDE DEF s, f, floor, a, held
        <5> QED BY <1>3, <2>3, <4>1, <4>2, <5>1 DEF floor
      <4>5. held.finish.by = None => y <= s
        <5> HIDE DEF s, f, floor, a, held, y
        <5> QED BY <2>3, <2>6, <4>1, <4>2, <4>4
      <4>6. 0 <= s
        <5> HIDE DEF s, a
        <5> QED BY <1>2, <2>3, <4>2
      <4> HIDE DEF s, x, y, floor
      <4> QED BY <4>2, <4>3, <4>5, <4>6
    <3>3. ASSUME held.finish.by # None
          PROVE  /\ y = f /\ floor <= y
                 /\ f = Landing(net, placed, held.finish.by)
                 /\ BoundsStart(net.edges[held.finish.by]) = FALSE
      <4>1. held.finish.by = logic.finish.by /\ DrivenBy(net, rule, placed, u, logic.finish, FALSE)
        BY <2>3, <2>6, <3>3
      <4> QED BY <2>3, <2>6, <3>3, <4>1 DEF DrivenBy
    <3>4. \/ driver = held.start.by /\ PlacedBy(rule, a, span, x, TRUE)
          \/ driver = held.finish.by /\ PlacedBy(rule, a, span, y, FALSE)
      <4> HIDE DEF held, a, floor
      <4> QED BY <1>2, <1>3, <2>1, <2>5, <2>6, <3>1, <3>2, <3>3, DriverPlaces DEF floor
    <3>5. /\ Landing(net, placed, row.driver) \in Int
          /\ PlacedBy(rule, a, span, Landing(net, placed, row.driver), BoundsStart(net.edges[row.driver]))
      <4> HIDE DEF s, f, x, y, span, driver, a, held
      <4> QED BY <2>2, <2>3, <3>1, <3>2, <3>3, <3>4
    <3> HIDE DEF span, driver
    <3> QED BY <1>2, <1>3, <2>2, <2>7, <2>8, <3>5, PlacedIsTight
  <2> QED BY <2>8, <2>9
<1> QED BY <1>4, <1>5

(* Behind rows that are coordinates a row is one, and tight.                 *)
LEMMA EarlyRowIsTight ==
    ASSUME NEW net, IsTimed(net), Validated(net), NEW rule, NEW placed, NEW u \in DOMAIN net.act,
           \A k \in Into(net, u) : TimedRow(placed[net.edges[k].predecessor]),
           NEW row, row = EarlyRow(net, rule, placed, u), row.error = None
    PROVE  TimedRow(row) /\ TightRow(net, rule, placed, u, row)
<1> DEFINE unreachable == \E k \in Binding(net, rule, u) : Landing(net, placed, k) = None
           there == PlaceRow(net, rule, u, Bounds(net, rule, placed, u))
<1>1. row = IF unreachable THEN [error |-> "SCHEDULE_LAG_UNREACHABLE"] ELSE there
  BY DEF EarlyRow
<1>2. ~unreachable /\ row = there
  <2>1. [error |-> "SCHEDULE_LAG_UNREACHABLE"].error # None
    BY RefusalsAssumption DEF Codes
  <2> HIDE DEF unreachable, there
  <2> QED BY <1>1, <2>1
<1>3. ASSUME NEW k \in Binding(net, rule, u)
      PROVE  Landing(net, placed, k) \in Int
  <2>1. k \in DOMAIN net.edges /\ net.edges[k].successor \in DOMAIN net.act /\ k \in Into(net, u)
    BY DEF Binding, Into
  <2>2. Landing(net, placed, k) \in Int \union {None}
    BY <2>1, LandingIsTimed
  <2> QED BY <1>2, <2>2
<1>4. CASE StateOf(net.act[u]) = "not_started"
  <2>1. row = PlaceUntouched(net, rule, u, Bounds(net, rule, placed, u))
    BY <1>2, <1>4 DEF PlaceRow
  <2> QED BY <1>3, <1>4, <2>1, UntouchedIsTight
<1>5. CASE StateOf(net.act[u]) # "not_started"
  <2>1. row = PlaceReported(net, rule, u, Bounds(net, rule, placed, u))
    BY <1>2, <1>5 DEF PlaceRow
  <2> QED BY <1>3, <1>5, <2>1, ReportedIsTight
<1> QED BY <1>4, <1>5

(* So, along the topological order, is every row of a forward pass.          *)
LEMMA EarlyIsTight ==
    ASSUME NEW net, Enumerated(net), IsTimed(net), Validated(net), Acyclic(net), EdgesJoin(net),
           NEW rule, NEW times, EarlySettled(net, rule, times)
    PROVE  \A u \in DOMAIN net.act : TimedRow(times[u]) /\ TightRow(net, rule, times, u, times[u])
<1> DEFINE seq == TopologicalOrder(net)
           S == {n \in Nat : \A i \in 1..Len(seq) : i <= n => TimedRow(times[seq[i]])}
<1>1. /\ seq \in Seq(DOMAIN net.act) /\ Sorted(net, seq)
      /\ \A u \in DOMAIN net.act : \E i \in 1..Len(seq) : seq[i] = u
  BY TopologicalOrderFacts
<1>2. ASSUME NEW u \in DOMAIN net.act,
             \A k \in Into(net, u) : TimedRow(times[net.edges[k].predecessor])
      PROVE  TimedRow(times[u]) /\ TightRow(net, rule, times, u, times[u])
  <2>1. times[u] = EarlyRow(net, rule, times, u) /\ times[u].error = None
    BY DEF EarlySettled
  <2> QED BY <1>2, <2>1, EarlyRowIsTight
<1> HIDE DEF seq
<1>3. Len(seq) \in Nat /\ \A i \in 1..Len(seq) : seq[i] \in DOMAIN net.act
  BY <1>1
<1>4. 0 \in S
  BY <1>3
<1>5. ASSUME NEW n \in Nat, n \in S
      PROVE  n + 1 \in S
  <2> SUFFICES ASSUME NEW i \in 1..Len(seq), i <= n + 1 PROVE TimedRow(times[seq[i]])
    OBVIOUS
  <2>1. ASSUME NEW k \in Into(net, seq[i]) PROVE TimedRow(times[net.edges[k].predecessor])
    <3>1. PICK j \in 1..(i - 1) : seq[j] = net.edges[k].predecessor
      BY <1>1 DEF Sorted
    <3>2. j \in 1..Len(seq) /\ j <= n
      BY <1>3
    <3> QED BY <1>5, <3>1, <3>2
  <2> QED BY <1>2, <1>3, <2>1
<1> HIDE DEF S
<1>6. \A n \in Nat : n \in S
  BY <1>4, <1>5, Choosing!EveryNatural
<1>7. \A u \in DOMAIN net.act : TimedRow(times[u])
  <2> SUFFICES ASSUME NEW u \in DOMAIN net.act PROVE TimedRow(times[u])
    OBVIOUS
  <2>1. PICK i \in 1..Len(seq) : seq[i] = u
    BY <1>1
  <2>2. Len(seq) \in S /\ i <= Len(seq)
    BY <1>3, <1>6
  <2> QED BY <2>1, <2>2 DEF S
<1>8. \A u \in DOMAIN net.act : \A k \in Into(net, u) : TimedRow(times[net.edges[k].predecessor])
  BY <1>7 DEF EdgesJoin, Into
<1> QED BY <1>2, <1>8

(* Reported, an activity is still one.                                       *)
LEMMA ReportedIsActivity ==
    ASSUME NEW a, IsActivity(a), NEW change \in Changes
    PROVE  IsActivity(Reported(a, change))
<1> DEFINE b == Reported(a, change)
           start == Or(a.actual_start, change.actual_start)
           finish == Or(a.actual_finish, change.actual_finish)
           left == IF finish # None THEN 0 ELSE Or(change.remaining, a.remaining)
<1>1. a = [duration |-> a.duration, calendar |-> a.calendar, measure |-> a.measure,
           constraint |-> a.constraint, coordinate |-> a.coordinate,
           actual_start |-> a.actual_start, actual_finish |-> a.actual_finish,
           remaining |-> a.remaining, elapsed_float |-> a.elapsed_float, envelope |-> a.envelope]
  BY Zenon DEF IsActivity
<1>2. b = [a EXCEPT !.actual_start = start, !.actual_finish = finish, !.remaining = left]
  BY DEF Reported
<1>3. start \in Int \union {None} /\ finish \in Int \union {None} /\ left \in Nat \union {None}
  <2>1. /\ change.actual_start \in Int \union {None} /\ change.actual_finish \in Int \union {None}
        /\ change.remaining \in Nat \union {None}
    BY ReportsAssumption DEF Changes
  <2>2. /\ a.actual_start \in Int \union {None} /\ a.actual_finish \in Int \union {None}
        /\ a.remaining \in Nat \union {None}
    BY DEF IsActivity
  <2> QED BY <2>1, <2>2 DEF Or
<1> HIDE DEF b, start, finish, left
<1>4. b = [duration |-> a.duration, calendar |-> a.calendar, measure |-> a.measure,
           constraint |-> a.constraint, coordinate |-> a.coordinate,
           actual_start |-> start, actual_finish |-> finish,
           remaining |-> left, elapsed_float |-> a.elapsed_float, envelope |-> a.envelope]
  BY <1>1, <1>2
<1>5. /\ b.duration = a.duration /\ b.calendar = a.calendar /\ b.measure = a.measure
      /\ b.constraint = a.constraint /\ b.coordinate = a.coordinate /\ b.actual_start = start
      /\ b.actual_finish = finish /\ b.remaining = left /\ b.elapsed_float = a.elapsed_float
      /\ b.envelope = a.envelope
  BY <1>4
<1>6. b = [duration |-> b.duration, calendar |-> b.calendar, measure |-> b.measure,
           constraint |-> b.constraint, coordinate |-> b.coordinate,
           actual_start |-> b.actual_start, actual_finish |-> b.actual_finish,
           remaining |-> b.remaining, elapsed_float |-> b.elapsed_float, envelope |-> b.envelope]
  BY Zenon, <1>4, <1>5
<1>7. /\ b.duration \in Nat /\ b.remaining \in Nat \union {None}
      /\ b.coordinate \in Int \union {None}
      /\ b.actual_start \in Int \union {None} /\ b.actual_finish \in Int \union {None}
      /\ Indexed(b.calendar) /\ Indexed(b.measure)
      /\ \A i \in DOMAIN b.calendar.starts : b.calendar.starts[i] >= 0
      /\ IsFiniteSet(b.envelope)
      /\ \A p \in b.envelope : Indexed(p.calendar) /\ p.work \in Nat
      /\ b.envelope # {} => Covered(b)
  BY <1>3, <1>5 DEF IsActivity, Covered
<1> QED BY <1>6, <1>7 DEF IsActivity, b

----------------------------------------------------------------------------
(* More work.                                                               *)

(* What may be absent is compared where it is there.                         *)
NoEarlier(x, y) == x \in Int \union {None} /\ y \in Int \union {None}
                   /\ (x = None <=> y = None) /\ (x # None => x <= y)

(* Where every edge asks for no less, the highest is no lower.               *)
LEMMA HighestIsMonotone ==
    ASSUME NEW at, IsFiniteSet(DOMAIN at), DOMAIN at \subseteq Nat,
           \A k \in DOMAIN at : at[k] \in Int, NEW base \in Int \union {None},
           NEW later, DOMAIN later = DOMAIN at,
           \A k \in DOMAIN at : later[k] \in Int /\ at[k] <= later[k]
    PROVE  NoEarlier(Highest(at, base).at, Highest(later, base).at)
<1> DEFINE low == Highest(at, base)
           high == Highest(later, base)
<1>1. IsHighest(low, at, base)
  BY HighestFacts
<1>2. IsHighest(high, later, base)
  BY HighestFacts
<1> HIDE DEF low, high
<1>3. low.at \in Int \union {None} /\ high.at \in Int \union {None}
  BY <1>1, <1>2 DEF IsHighest
<1>4. low.at = None <=> high.at = None
  BY <1>1, <1>2 DEF IsHighest
<1>5. ASSUME low.at # None PROVE low.at <= high.at
  <2>1. low.at = base \/ \E k \in DOMAIN at : low.at = at[k]
    BY <1>1 DEF IsHighest
  <2>2. high.at \in Int /\ (base # None => base <= high.at)
    BY <1>2, <1>3, <1>4, <1>5 DEF IsHighest
  <2>3. \A k \in DOMAIN at : later[k] <= high.at
    BY <1>2 DEF IsHighest
  <2>4. CASE low.at = base
    BY <1>5, <2>2, <2>4
  <2>5. CASE \E k \in DOMAIN at : low.at = at[k]
    <3>1. PICK k \in DOMAIN at : low.at = at[k]
      BY <2>5
    <3>2. at[k] \in Int /\ later[k] \in Int /\ at[k] <= later[k] /\ later[k] <= high.at
      BY <2>3
    <3> QED BY <2>2, <3>1, <3>2
  <2> QED BY <2>1, <2>4, <2>5
<1> QED BY <1>3, <1>4, <1>5 DEF NoEarlier, low, high

LEMMA FlooredIsMonotone ==
    ASSUME NEW low, NEW high, NoEarlier(low.at, high.at), NEW unbounded \in Int, NEW floor \in Int
    PROVE  Floored(low, unbounded, floor).at <= Floored(high, unbounded, floor).at
<1>1. low.at \in Int \union {None} /\ high.at \in Int \union {None}
  BY DEF NoEarlier
<1>2. Floored(low, unbounded, floor).at = IF low.at = None THEN unbounded
                        ELSE IF low.at < floor THEN floor ELSE low.at
  BY <1>1, FlooredFacts
<1>3. Floored(high, unbounded, floor).at = IF high.at = None THEN unbounded
                        ELSE IF high.at < floor THEN floor ELSE high.at
  BY <1>1, FlooredFacts
<1> QED BY <1>2, <1>3 DEF NoEarlier

(* Of one activity more work is left, or of none.                            *)
MoreLeft(rule, a, b) ==
    /\ StateOf(a) = "in_progress" /\ StateOf(b) = "in_progress"
    /\ b.calendar = a.calendar /\ b.actual_start = a.actual_start
    /\ Remaining(a) < Remaining(b)
    /\ rule.snap => Remaining(a) > 0
Busier(net, later, rule) ==
    /\ DOMAIN later.act = DOMAIN net.act /\ later.edges = net.edges
    /\ later.start = net.start /\ later.horizon = net.horizon /\ later.status = net.status
    /\ \A v \in DOMAIN net.act :
          later.act[v] = net.act[v] \/ MoreLeft(rule, net.act[v], later.act[v])

NoSooner(row, other) == row.start <= other.start /\ row.finish <= other.finish

(* An edge lands no earlier behind rows that are no earlier.                 *)
LEMMA LandsNoSooner ==
    ASSUME NEW net, IsTimed(net), NEW later, IsTimed(later), NEW rule, Busier(net, later, rule),
           NEW placed, NEW moved, NEW k \in DOMAIN net.edges,
           net.edges[k].successor \in DOMAIN net.act,
           LET p == net.edges[k].predecessor IN
           TimedRow(placed[p]) /\ TimedRow(moved[p]) /\ NoSooner(placed[p], moved[p]),
           Landing(net, placed, k) # None, Landing(later, moved, k) # None
    PROVE  /\ Landing(net, placed, k) \in Int /\ Landing(later, moved, k) \in Int
           /\ Landing(net, placed, k) <= Landing(later, moved, k)
<1> DEFINE e == net.edges[k]
           cal == LagCalendar(net, e)
           s == EarlyAnchor(e, placed[e.predecessor])
           t == EarlyAnchor(e, moved[e.predecessor])
<1>1. later.edges[k] = e /\ later.act[e.successor].calendar = net.act[e.successor].calendar
  BY DEF Busier, MoreLeft
<1>2. LagCalendar(later, e) = cal
  BY <1>1 DEF LagCalendar
<1>3. Landing(net, placed, k) = ShiftLag(cal, s, e.lag) /\ Landing(later, moved, k) = ShiftLag(cal, t, e.lag)
  BY <1>1, <1>2 DEF Landing
<1>4. Indexed(cal) /\ Landing(net, placed, k) \in Int \union {None}
  BY LandingIsTimed
<1>5. Landing(later, moved, k) \in Int \union {None}
  <2>1. k \in DOMAIN later.edges /\ later.edges[k].successor \in DOMAIN later.act
        /\ TimedRow(moved[later.edges[k].predecessor])
    BY <1>1 DEF Busier
  <2> QED BY <2>1, LandingIsTimed
<1>6. s \in Int /\ t \in Int /\ s <= t
  BY DEF EarlyAnchor, TimedRow, NoSooner
<1>7. e.lag \in Int
  BY DEF IsTimed, IsEdge
<1> HIDE DEF cal, s, t, e
<1>8. ShiftLag(cal, s, e.lag) <= ShiftLag(cal, t, e.lag)
  BY <1>3, <1>4, <1>6, <1>7, ShiftLagIsMonotone
<1> QED BY <1>3, <1>4, <1>5, <1>8

(* What holds an activity is the same.                                       *)
LEMMA BusierAlike ==
    ASSUME NEW net, NEW later, NEW rule, Busier(net, later, rule), NEW u \in DOMAIN net.act
    PROVE  /\ StateOf(later.act[u]) = StateOf(net.act[u])
           /\ later.act[u].calendar = net.act[u].calendar
           /\ later.act[u].actual_start = net.act[u].actual_start
           /\ Into(later, u) = Into(net, u) /\ CalendarFloor(later.act[u]) = CalendarFloor(net.act[u])
           /\ Base(later, u) = Base(net, u)
           /\ Binding(later, rule, u) = Binding(net, rule, u)
<1>1. /\ StateOf(later.act[u]) = StateOf(net.act[u])
      /\ later.act[u].calendar = net.act[u].calendar
      /\ StateOf(net.act[u]) # "not_started" => later.act[u].actual_start = net.act[u].actual_start
      /\ later.act[u].actual_start = net.act[u].actual_start
  BY DEF Busier, MoreLeft
<1>2. Into(later, u) = Into(net, u)
  BY DEF Busier, Into
<1>3. Binding(later, rule, u) = Binding(net, rule, u)
  <2>1. ASSUME NEW k \in Into(net, u)
        PROVE  k \in Released(later, rule) <=> k \in Released(net, rule)
    <3>1. k \in DOMAIN net.edges /\ later.edges = net.edges /\ net.edges[k].successor = u
          /\ later.status = net.status
      BY DEF Into, Busier
    <3> QED BY <1>1, <3>1 DEF Released, RelationshipBinds
  <2> QED BY <1>2, <2>1 DEF Binding
<1>4. Base(later, u) = Base(net, u)
  BY <1>1, <1>2 DEF Base, Busier
<1> QED BY <1>1, <1>2, <1>3, <1>4 DEF CalendarFloor

(* So nothing lets it begin or end earlier.                                  *)
LEMMA BoundsAreMonotone ==
    ASSUME NEW net, IsTimed(net), Validated(net), NEW later, NEW rule, Busier(net, later, rule),
           NEW placed, NEW moved, NEW u \in DOMAIN net.act,
           \A k \in Binding(net, rule, u) :
               /\ Landing(net, placed, k) \in Int /\ Landing(later, moved, k) \in Int
               /\ Landing(net, placed, k) <= Landing(later, moved, k)
    PROVE  /\ Bounds(net, rule, placed, u).start.at <= Bounds(later, rule, moved, u).start.at
           /\ Bounds(net, rule, placed, u).finish.at <= Bounds(later, rule, moved, u).finish.at
<1> DEFINE base == Base(net, u)
           floor == CalendarFloor(net.act[u])
           At(starts) == SideOf(net, rule, placed, u, starts)
           Then(starts) == SideOf(later, rule, moved, u, starts)
<1>1. base \in Int \union {None} /\ floor \in Int /\ net.start \in Int
  BY ActivityFacts DEF IsTimed
<1>2. /\ Base(later, u) = base /\ CalendarFloor(later.act[u]) = floor
      /\ Binding(later, rule, u) = Binding(net, rule, u) /\ later.start = net.start
      /\ later.edges = net.edges
  BY BusierAlike DEF Busier
<1>3. /\ Bounds(net, rule, placed, u).start = Floored(Highest(At(TRUE), base), net.start, floor)
      /\ Bounds(net, rule, placed, u).finish = Floored(Highest(At(FALSE), base), floor, floor)
  BY DEF Bounds, SideOf
<1>4. /\ Bounds(later, rule, moved, u).start = Floored(Highest(Then(TRUE), base), net.start, floor)
      /\ Bounds(later, rule, moved, u).finish = Floored(Highest(Then(FALSE), base), floor, floor)
  BY <1>2 DEF Bounds, SideOf
<1>5. /\ IsFiniteSet(Binding(net, rule, u)) /\ Binding(net, rule, u) \subseteq Nat
  <2>1. Binding(net, rule, u) \in SUBSET (1..Len(net.edges)) /\ Len(net.edges) \in Nat
    BY DEF Binding, Into, IsTimed
  <2>2. IsFiniteSet(1..Len(net.edges))
    BY <2>1, FS_Interval
  <2>3. IsFiniteSet(Binding(net, rule, u))
    BY <2>1, <2>2, FS_Subset
  <2> QED BY <2>1, <2>3
<1>6. ASSUME NEW starts \in BOOLEAN
      PROVE  NoEarlier(Highest(At(starts), base).at, Highest(Then(starts), base).at)
  <2> DEFINE at == At(starts)
             then == Then(starts)
  <2>1. \A k \in DOMAIN at : /\ k \in Binding(net, rule, u)
                             /\ at[k] = Landing(net, placed, k) /\ at[k] \in Int
    BY DEF SideOf
  <2>2. DOMAIN at \in SUBSET Binding(net, rule, u) /\ DOMAIN at \subseteq Nat
    BY <1>5, <2>1
  <2>3. IsFiniteSet(DOMAIN at)
    <3> HIDE DEF at
    <3> QED BY <1>5, <2>2, FS_Subset
  <2>4. DOMAIN then = DOMAIN at
    BY <1>2 DEF SideOf
  <2>5. \A k \in DOMAIN then : then[k] = Landing(later, moved, k)
    BY <1>2 DEF SideOf
  <2>6. \A k \in DOMAIN at : then[k] \in Int /\ at[k] <= then[k]
    <3> HIDE DEF at, then
    <3> QED BY <2>1, <2>4, <2>5
  <2> HIDE DEF at, then, base
  <2>7. NoEarlier(Highest(at, base).at, Highest(then, base).at)
    BY <1>1, <2>1, <2>2, <2>3, <2>4, <2>6, HighestIsMonotone
  <2> QED BY <2>7 DEF at, then
<1> DEFINE low == Highest(At(TRUE), base)
           high == Highest(Then(TRUE), base)
           least == Highest(At(FALSE), base)
           most == Highest(Then(FALSE), base)
<1>7. NoEarlier(low.at, high.at) /\ NoEarlier(least.at, most.at)
  BY <1>6
<1> HIDE DEF low, high, least, most, floor
<1>8. Floored(low, net.start, floor).at <= Floored(high, net.start, floor).at
  BY <1>1, <1>7, FlooredIsMonotone
<1>9. Floored(least, floor, floor).at <= Floored(most, floor, floor).at
  BY <1>1, <1>7, FlooredIsMonotone
<1> QED BY <1>3, <1>4, <1>8, <1>9 DEF low, high, least, most

(* The work asked for ends at the end of any span that works more, and       *)
(* begins no earlier than it does.                                           *)
LEMMA WorkedLess ==
    ASSUME NEW cal, Indexed(cal), NEW d \in Nat \ {0}, NEW more \in Nat \ {0}, d <= more,
           NEW span, Worked(cal, span, more)
    PROVE  \E other : Worked(cal, other, d) /\ span[1] <= other[1] /\ other[2] = span[2]
<1> DEFINE f == span[2]
           s == SubWorking(cal, f, d)
           other == <<s, f>>
<1>1. /\ span[1] \in Int /\ f \in Int /\ WorkingAt(cal, span[1]) /\ FinishingAt(cal, f)
      /\ WorkUntil(cal, f) = WorkUntil(cal, span[1]) + more
      /\ WorkUntil(cal, span[1]) \in Nat /\ WorkUntil(cal, f) \in Nat
  BY WorkIsMonotone DEF Worked
<1> HIDE DEF f
<1>2. ~(WorkUntil(cal, f) < d)
  BY <1>1
<1>3. s # None
  BY <1>1, <1>2, SubWorkingIsExact
<1>4. s \in Int /\ s < f /\ WorkingAt(cal, s) /\ WorkUntil(cal, s) = WorkUntil(cal, f) - d
  BY <1>1, <1>3, SubWorkingIsExact
<1> HIDE DEF s
<1>5. span[1] <= s
  <2>1. s < span[1] => WorkUntil(cal, s) < WorkUntil(cal, span[1])
    BY <1>1, <1>4, LaterThanStartMoreWork
  <2> QED BY <1>1, <1>4, <2>1
<1>6. Worked(cal, other, d)
  <2>1. other[1] = s /\ other[2] = f
    OBVIOUS
  <2>2. other = <<other[1], other[2]>>
    BY <2>1
  <2>3. WorkUntil(cal, f) = WorkUntil(cal, s) + d
    BY <1>1, <1>4
  <2> HIDE DEF other
  <2> QED BY <1>1, <1>4, <2>1, <2>2, <2>3 DEF Worked
<1>7. other[1] = s /\ other[2] = f
  OBVIOUS
<1> QED BY <1>5, <1>6, <1>7 DEF f

(* Placed at later bounds, or with more left, an activity ends no earlier;   *)
(* and with as much left it begins no earlier.                               *)
LEMMA PlaceIsMonotone ==
    ASSUME NEW net, net.horizon \in Int, NEW later, later.horizon = net.horizon, NEW rule,
           NEW a, NEW b, b = a \/ MoreLeft(rule, a, b),
           Indexed(a.calendar), Remaining(a) \in Nat, Remaining(b) \in Nat,
           NEW s \in Int, NEW f \in Int, NEW x \in Int, NEW y \in Int, s <= x, f <= y,
           Place(net, rule, a, s, f) # None, Place(later, rule, b, x, y) # None
    PROVE  /\ Place(net, rule, a, s, f)[2] <= Place(later, rule, b, x, y)[2]
           /\ b = a => Place(net, rule, a, s, f)[1] <= Place(later, rule, b, x, y)[1]
<1> DEFINE span == Place(net, rule, a, s, f)
           other == Place(later, rule, b, x, y)
           cal == a.calendar
           horizon == net.horizon
<1>1. b.calendar = cal /\ Indexed(b.calendar) /\ Remaining(a) <= Remaining(b)
      /\ (Remaining(b) = 0 => b = a)
      /\ (rule.snap /\ Remaining(a) = 0 => Remaining(b) = 0)
  <2>1. CASE b = a
    BY <2>1
  <2>2. CASE MoreLeft(rule, a, b)
    <3>1. /\ b.calendar = a.calendar /\ Remaining(a) < Remaining(b)
          /\ rule.snap => Remaining(a) > 0
      BY Zenon, <2>2 DEF MoreLeft
    <3> QED BY <3>1
  <2> QED BY <2>1, <2>2
<1>2. /\ span[1] \in Int /\ span[2] \in Int
      /\ Remaining(a) = 0 => /\ span[1] = Moment(rule, a, s, f) /\ span[2] = Moment(rule, a, s, f)
      /\ Remaining(a) # 0 => span = EarliestSpan(cal, s, f, Remaining(a), horizon)
  BY PlaceFacts
<1>3. /\ other[1] \in Int /\ other[2] \in Int
      /\ Remaining(b) = 0 => /\ other[1] = Moment(rule, b, x, y) /\ other[2] = Moment(rule, b, x, y)
      /\ Remaining(b) # 0 => other = EarliestSpan(cal, x, y, Remaining(b), horizon)
  BY <1>1, PlaceFacts
<1> DEFINE low == IF s >= f THEN s ELSE f
           high == IF x >= y THEN x ELSE y
<1>4. /\ Moment(rule, a, s, f) = IF rule.snap THEN NextWorking(cal, low) ELSE low
      /\ Moment(rule, b, x, y) = IF rule.snap THEN NextWorking(cal, high) ELSE high
  BY <1>1 DEF Moment
<1>5. low \in Int /\ high \in Int /\ low <= high /\ (low = s \/ low = f)
  OBVIOUS
<1>6. ASSUME Remaining(b) # 0
      PROVE  /\ Worked(cal, other, Remaining(b)) /\ 0 <= other[1] /\ x <= other[1]
             /\ y <= other[2] /\ other[2] <= horizon /\ other[1] < other[2]
  <2>1. Remaining(b) \in Nat \ {0} /\ other = EarliestSpan(cal, x, y, Remaining(b), horizon)
        /\ other # None
    BY <1>3, <1>6
  <2>2. /\ Worked(cal, other, Remaining(b)) /\ 0 <= other[1] /\ x <= other[1]
        /\ y <= other[2] /\ other[2] <= horizon
    <3> HIDE DEF other
    <3> QED BY <1>1, <2>1, EarliestSpanFits
  <2> QED BY <2>2 DEF Worked
<1> HIDE DEF span, other, low, high, cal, horizon
<1>7. CASE Remaining(b) = 0
  <2>1. Remaining(a) = 0 /\ b = a
    BY <1>1, <1>7
  <2>2. CASE rule.snap
    <3>1. span[1] = NextWorking(cal, low) /\ span[2] = NextWorking(cal, low)
          /\ other[1] = NextWorking(cal, high) /\ other[2] = NextWorking(cal, high)
      BY <1>2, <1>3, <1>4, <1>7, <2>1, <2>2
    <3>2. NextWorking(cal, low) # None /\ NextWorking(cal, high) # None
      BY <1>2, <1>3, <3>1, NoneAssumption
    <3>3. NextWorking(cal, low) <= NextWorking(cal, high)
      <4>1. /\ NextWorking(cal, high) \in Int /\ high <= NextWorking(cal, high)
            /\ WorkingAt(cal, NextWorking(cal, high))
        BY <1>1, <1>5, <3>2, NextWorkingIsFirst DEF cal
      <4>2. low <= NextWorking(cal, high)
        BY <1>5, <4>1
      <4> QED BY <1>1, <1>5, <3>2, <4>1, <4>2, NextWorkingIsFirst DEF cal
    <3> QED BY <2>1, <3>1, <3>3 DEF span, other
  <2>3. CASE ~rule.snap
    BY <1>2, <1>3, <1>4, <1>5, <1>7, <2>1, <2>3 DEF span, other
  <2> QED BY <2>2, <2>3
<1>8. CASE Remaining(b) # 0 /\ Remaining(a) = 0
  <2>1. ~rule.snap /\ b # a
    BY <1>1, <1>8
  <2>2. span[2] = low
    BY <1>2, <1>4, <1>8, <2>1
  <2>3. low <= other[2]
    BY <1>3, <1>5, <1>6, <1>8
  <2> QED BY <2>1, <2>2, <2>3 DEF span, other
<1>9. CASE Remaining(b) # 0 /\ Remaining(a) # 0
  <2>1. Remaining(a) \in Nat \ {0} /\ Remaining(b) \in Nat \ {0}
    BY <1>9
  <2>2. PICK less : Worked(cal, less, Remaining(a)) /\ other[1] <= less[1] /\ less[2] = other[2]
    BY <1>1, <1>6, <1>9, <2>1, WorkedLess DEF cal
  <2>3. less[1] \in Int /\ less[2] \in Int
    BY <2>2 DEF Worked
  <2>4. 0 <= less[1] /\ s <= less[1] /\ f <= less[2] /\ less[2] <= horizon
    <3>1. horizon \in Int
      BY DEF horizon
    <3> QED BY <1>3, <1>6, <1>9, <2>2, <2>3, <3>1
  <2>5. span[2] <= less[2]
    <3>1. span = EarliestSpan(cal, s, f, Remaining(a), horizon) /\ horizon \in Int /\ Indexed(cal)
      BY <1>1, <1>2, <1>9 DEF horizon, cal
    <3> QED BY <2>1, <2>2, <2>4, <3>1, EarliestSpanIsFirst
  <2>6. ASSUME b = a PROVE span[1] <= other[1]
    <3>1. /\ span = EarliestSpan(cal, s, f, Remaining(a), horizon) /\ horizon \in Int /\ Indexed(cal)
          /\ Worked(cal, other, Remaining(a))
      BY <1>1, <1>2, <1>6, <1>9, <2>6 DEF horizon, cal
    <3>2. 0 <= other[1] /\ s <= other[1] /\ f <= other[2] /\ other[2] <= horizon
      BY <1>3, <1>6, <1>9, <3>1
    <3> QED BY <2>1, <3>1, <3>2, EarliestSpanIsFirst
  <2> QED BY <2>2, <2>5, <2>6 DEF span, other
<1> QED BY <1>7, <1>8, <1>9

(* So with several assignments.                                              *)
LEMMA EnvelopeIsMonotone ==
    ASSUME NEW net, net.horizon \in Int, NEW later, later.horizon = net.horizon,
           NEW a, IsFiniteSet(a.envelope), a.envelope # {},
           \A p \in a.envelope : p.work \in Nat \ {0} /\ Indexed(p.calendar),
           NEW s \in Int, NEW x \in Int, s <= x,
           EarlyEnvelope(net, a, s) # None, EarlyEnvelope(later, a, x) # None
    PROVE  /\ EarlyEnvelope(net, a, s)[1] <= EarlyEnvelope(later, a, x)[1]
           /\ EarlyEnvelope(net, a, s)[2] <= EarlyEnvelope(later, a, x)[2]
<1> DEFINE horizon == net.horizon
           Of(p, at) == EarliestSpan(p.calendar, at, at, p.work, horizon)
           spans(at) == {Of(p, at) : p \in a.envelope}
           starts(at) == [p \in a.envelope |-> Of(p, at)[1]]
           finishes(at) == [p \in a.envelope |-> Of(p, at)[2]]
           span(at) == IF None \in spans(at) THEN None
                       ELSE <<Min({w[1] : w \in spans(at)}), Max({w[2] : w \in spans(at)})>>
<1>1. EarlyEnvelope(net, a, s) = span(s) /\ EarlyEnvelope(later, a, x) = span(x)
  BY DEF EarlyEnvelope, Enclosing
<1>2. ASSUME NEW at \in Int, span(at) # None
      PROVE  /\ \A p \in a.envelope :
                   /\ Of(p, at) # None /\ Of(p, at)[1] \in Int /\ Of(p, at)[2] \in Int
                   /\ Worked(p.calendar, Of(p, at), p.work) /\ 0 <= Of(p, at)[1]
                   /\ at <= Of(p, at)[1] /\ at <= Of(p, at)[2] /\ Of(p, at)[2] <= horizon
             /\ \E m \in a.envelope : /\ span(at)[1] = Of(m, at)[1]
                                      /\ \A p \in a.envelope : Of(m, at)[1] <= Of(p, at)[1]
             /\ \E l \in a.envelope : /\ span(at)[2] = Of(l, at)[2]
                                      /\ \A p \in a.envelope : Of(p, at)[2] <= Of(l, at)[2]
  <2>1. None \notin spans(at)
        /\ span(at) = <<Min({w[1] : w \in spans(at)}), Max({w[2] : w \in spans(at)})>>
    <3> HIDE DEF spans
    <3> QED BY <1>2
  <2>2. ASSUME NEW p \in a.envelope
        PROVE  /\ Of(p, at) # None /\ Of(p, at)[1] \in Int /\ Of(p, at)[2] \in Int
               /\ Worked(p.calendar, Of(p, at), p.work) /\ 0 <= Of(p, at)[1]
               /\ at <= Of(p, at)[1] /\ at <= Of(p, at)[2] /\ Of(p, at)[2] <= horizon
    <3>1. Of(p, at) # None
      BY <2>1
    <3>2. /\ Worked(p.calendar, Of(p, at), p.work) /\ 0 <= Of(p, at)[1]
          /\ at <= Of(p, at)[1] /\ at <= Of(p, at)[2] /\ Of(p, at)[2] <= horizon
      BY <3>1, EarliestSpanFits
    <3> HIDE DEF Of
    <3> QED BY <3>1, <3>2 DEF Worked
  <2> DEFINE first == starts(at)
             last == finishes(at)
  <2>3. {w[1] : w \in spans(at)} = {first[p] : p \in a.envelope}
        /\ {w[2] : w \in spans(at)} = {last[p] : p \in a.envelope}
    <3> HIDE DEF Of
    <3> QED OBVIOUS
  <2>4. \A p \in a.envelope : first[p] = Of(p, at)[1] /\ last[p] = Of(p, at)[2]
    OBVIOUS
  <2> HIDE DEF Of, first, last, spans, horizon, span
  <2>5. \A p \in a.envelope : first[p] \in Int /\ last[p] \in Int
    BY <2>2, <2>4
  <2>6. PICK m \in a.envelope : Min({first[p] : p \in a.envelope}) = first[m]
                                /\ \A p \in a.envelope : first[m] <= first[p]
    BY <2>5, ExtremesOf
  <2>7. PICK l \in a.envelope : Max({last[p] : p \in a.envelope}) = last[l]
                                /\ \A p \in a.envelope : last[p] <= last[l]
    BY <2>5, ExtremesOf
  <2> DEFINE least == Min({first[p] : p \in a.envelope})
             most == Max({last[p] : p \in a.envelope})
  <2>8. span(at)[1] = first[m] /\ span(at)[2] = last[l]
    <3>1. span(at) = <<least, most>>
      BY Zenon, <2>1, <2>3
    <3>2. least = first[m] /\ most = last[l]
      BY <2>6, <2>7
    <3> HIDE DEF least, most
    <3> QED BY <3>1, <3>2
  <2> QED BY <2>2, <2>4, <2>6, <2>7, <2>8
<1>3. ASSUME NEW p \in a.envelope, span(s) # None, span(x) # None
      PROVE  Of(p, s)[1] <= Of(p, x)[1] /\ Of(p, s)[2] <= Of(p, x)[2]
  <2> DEFINE other == Of(p, x)
  <2>1. /\ Worked(p.calendar, other, p.work) /\ 0 <= other[1] /\ x <= other[1] /\ x <= other[2]
        /\ other[2] <= horizon /\ other[1] \in Int /\ other[2] \in Int
    <3> HIDE DEF Of, horizon, span
    <3> QED BY <1>2, <1>3
  <2> HIDE DEF other
  <2>2. s <= other[1] /\ s <= other[2]
    BY <2>1
  <2>3. EarliestSpan(p.calendar, s, s, p.work, horizon)[1] <= other[1]
        /\ EarliestSpan(p.calendar, s, s, p.work, horizon)[2] <= other[2]
    BY <2>1, <2>2, EarliestSpanIsFirst
  <2> QED BY <2>3 DEF other
<1> HIDE DEF Of, span, horizon
<1>4. span(s) # None /\ span(x) # None
  BY <1>1
<1>5. PICK m \in a.envelope : /\ span(s)[1] = Of(m, s)[1]
                              /\ \A p \in a.envelope : Of(m, s)[1] <= Of(p, s)[1]
  BY <1>2, <1>4
<1>6. PICK l \in a.envelope : span(s)[2] = Of(l, s)[2]
  BY <1>2, <1>4
<1>7. PICK m2 \in a.envelope : span(x)[1] = Of(m2, x)[1]
  BY <1>2, <1>4
<1>8. PICK l2 \in a.envelope : /\ span(x)[2] = Of(l2, x)[2]
                               /\ \A p \in a.envelope : Of(p, x)[2] <= Of(l2, x)[2]
  BY <1>2, <1>4
<1>9. \A p \in a.envelope : /\ Of(p, s)[1] \in Int /\ Of(p, s)[2] \in Int
                            /\ Of(p, x)[1] \in Int /\ Of(p, x)[2] \in Int
  BY <1>2, <1>4
<1>10. span(s)[1] <= span(x)[1]
  <2>1. Of(m, s)[1] <= Of(m2, s)[1] /\ Of(m2, s)[1] <= Of(m2, x)[1]
    BY <1>3, <1>4, <1>5
  <2> QED BY <1>5, <1>7, <1>9, <2>1
<1>11. span(s)[2] <= span(x)[2]
  <2>1. Of(l, s)[2] <= Of(l, x)[2] /\ Of(l, x)[2] <= Of(l2, x)[2]
    BY <1>3, <1>4, <1>8
  <2> QED BY <1>6, <1>8, <1>9, <2>1
<1> QED BY <1>1, <1>10, <1>11

(* Held back no earlier, remaining work is bounded no earlier.               *)
LEMMA HeldIsMonotone ==
    ASSUME NEW net, net.status \in Int \union {None}, NEW later, later.status = net.status, NEW rule,
           NEW a, NEW b, a.actual_start \in Int, b.actual_start = a.actual_start,
           NEW low, NEW high, low.at \in Int, high.at \in Int, low.at <= high.at
    PROVE  /\ HeldBack(net, rule, a, low).at \in Int /\ HeldBack(later, rule, b, high).at \in Int
           /\ HeldBack(net, rule, a, low).at <= HeldBack(later, rule, b, high).at
<1> DEFINE Asked(at) == IF net.status = None THEN at
                        ELSE IF rule.policy = "progress_override" THEN net.status
                        ELSE IF at >= net.status THEN at ELSE net.status
           start == a.actual_start
<1>1. ASSUME NEW at \in Int
      PROVE  /\ RemainingBound(a, rule, net.status, at) = IF start >= Asked(at) THEN start ELSE Asked(at)
             /\ Asked(at) \in Int
  <2>1. net.status # None => Max({at, net.status}) = IF at >= net.status THEN at ELSE net.status
    BY MinMaxOfTwo
  <2>2. Asked(at) \in Int
    OBVIOUS
  <2>3. RemainingBound(a, rule, net.status, at) = Max({start, Asked(at)})
    BY <2>1 DEF RemainingBound
  <2> HIDE DEF Asked
  <2> QED BY <2>2, <2>3, MinMaxOfTwo
<1>2. RemainingBound(b, rule, net.status, high.at) = RemainingBound(a, rule, net.status, high.at)
  BY DEF RemainingBound
<1>3. /\ HeldBack(net, rule, a, low).at = RemainingBound(a, rule, net.status, low.at)
      /\ HeldBack(later, rule, b, high).at = RemainingBound(a, rule, net.status, high.at)
  BY <1>2 DEF HeldBack
<1>4. Asked(low.at) <= Asked(high.at) /\ Asked(low.at) \in Int /\ Asked(high.at) \in Int
  OBVIOUS
<1> HIDE DEF Asked
<1> QED BY <1>1, <1>3, <1>4

(* An activity not begun is placed no earlier.                               *)
LEMMA UntouchedNoSooner ==
    ASSUME NEW net, IsTimed(net), Validated(net), NEW later, IsTimed(later), Validated(later),
           NEW rule, Busier(net, later, rule), NEW placed, NEW moved, NEW u \in DOMAIN net.act,
           \A k \in Binding(net, rule, u) :
               /\ Landing(net, placed, k) \in Int /\ Landing(later, moved, k) \in Int
               /\ Landing(net, placed, k) <= Landing(later, moved, k),
           StateOf(net.act[u]) = "not_started",
           NEW row, row = PlaceUntouched(net, rule, u, Bounds(net, rule, placed, u)),
           row.error = None,
           NEW other, other = PlaceUntouched(later, rule, u, Bounds(later, rule, moved, u)),
           other.error = None
    PROVE  NoSooner(row, other)
<1> DEFINE a == net.act[u]
           logic == Bounds(net, rule, placed, u)
           after == Bounds(later, rule, moved, u)
           s == logic.start.at
           f == logic.finish.at
           x == after.start.at
           y == after.finish.at
           span == UntouchedSpan(net, rule, a, logic)
           next == UntouchedSpan(later, rule, a, after)
           Later(at, constraint) == IF a.constraint = constraint /\ a.coordinate > at THEN a.coordinate ELSE at
<1>1. later.act[u] = a /\ later.horizon = net.horizon /\ u \in DOMAIN later.act
  BY DEF Busier, MoreLeft
<1>2. span # None /\ row.start = span[1] /\ row.finish = span[2]
  BY UntouchedRowFacts
<1>3. next # None /\ other.start = next[1] /\ other.finish = next[2]
  BY <1>1, UntouchedRowFacts
<1>4. s \in Int /\ f \in Int
  BY BoundsFacts
<1>5. \A k \in Binding(later, rule, u) : Landing(later, moved, k) \in Int
  BY BusierAlike
<1>6. x \in Int /\ y \in Int
  BY <1>1, <1>5, BoundsFacts
<1>7. s <= x /\ f <= y
  BY BoundsAreMonotone
<1>8. /\ IsActivity(a) /\ Indexed(a.calendar) /\ Remaining(a) \in Nat
      /\ a.constraint \in {"SNET", "FNET", "SNLT", "FNLT", "MSO", "MFO"} => a.coordinate \in Int
      /\ a.envelope # {} => \A p \in a.envelope : p.work \in Nat \ {0} /\ Indexed(p.calendar)
  BY ActivityFacts
<1>9. IsFiniteSet(a.envelope) /\ net.horizon \in Int
  BY <1>8 DEF IsActivity, IsTimed
<1>10. /\ span = IF Pinned(a) THEN PlacePinned(net, a)
                 ELSE IF a.envelope # {} THEN EarlyEnvelope(net, a, s)
                 ELSE Place(net, rule, a, Later(s, "SNET"), Later(f, "FNET"))
       /\ next = IF Pinned(a) THEN PlacePinned(later, a)
                 ELSE IF a.envelope # {} THEN EarlyEnvelope(later, a, x)
                 ELSE Place(later, rule, a, Later(x, "SNET"), Later(y, "FNET"))
  BY DEF UntouchedSpan, DatedBounds, DatedLater
<1> HIDE DEF s, f, x, y, span, next, logic, after, a
<1>11. CASE Pinned(a)
  <2>1. PlacePinned(later, a) = PlacePinned(net, a)
    BY <1>1 DEF PlacePinned
  <2>2. span = PlacePinned(net, a) /\ next = span
    BY <1>10, <1>11, <2>1
  <2>3. span[1] \in Int /\ span[2] \in Int
    BY <1>2, <1>8, <1>11, <2>2, PinnedIsTimed DEF Pinned
  <2> QED BY <1>2, <1>3, <2>2, <2>3 DEF NoSooner
<1>12. CASE ~Pinned(a) /\ a.envelope # {}
  <2>1. span = EarlyEnvelope(net, a, s) /\ next = EarlyEnvelope(later, a, x)
    BY <1>10, <1>12
  <2>2. span[1] <= next[1] /\ span[2] <= next[2]
    BY <1>1, <1>2, <1>3, <1>4, <1>6, <1>7, <1>8, <1>9, <1>12, <2>1, EnvelopeIsMonotone
  <2> QED BY <1>2, <1>3, <2>2 DEF NoSooner
<1>13. CASE ~Pinned(a) /\ a.envelope = {}
  <2> DEFINE p == Later(s, "SNET")
             q == Later(f, "FNET")
             v == Later(x, "SNET")
             w == Later(y, "FNET")
  <2>1. span = Place(net, rule, a, p, q) /\ next = Place(later, rule, a, v, w)
    BY <1>10, <1>13
  <2>2. p \in Int /\ q \in Int /\ v \in Int /\ w \in Int /\ p <= v /\ q <= w
    BY <1>4, <1>6, <1>7, <1>8
  <2> HIDE DEF p, q, v, w
  <2>3. span[1] <= next[1] /\ span[2] <= next[2]
    BY <1>1, <1>2, <1>3, <1>8, <1>9, <2>1, <2>2, PlaceIsMonotone
  <2> QED BY <1>2, <1>3, <2>3 DEF NoSooner
<1> QED BY <1>11, <1>12, <1>13

(* And one under way, or done, ends no earlier.                              *)
LEMMA ReportedNoSooner ==
    ASSUME NEW net, IsTimed(net), Validated(net), NEW later, IsTimed(later), Validated(later),
           NEW rule, Busier(net, later, rule), NEW placed, NEW moved, NEW u \in DOMAIN net.act,
           \A k \in Binding(net, rule, u) :
               /\ Landing(net, placed, k) \in Int /\ Landing(later, moved, k) \in Int
               /\ Landing(net, placed, k) <= Landing(later, moved, k),
           StateOf(net.act[u]) # "not_started",
           NEW row, row = PlaceReported(net, rule, u, Bounds(net, rule, placed, u)),
           row.error = None,
           NEW other, other = PlaceReported(later, rule, u, Bounds(later, rule, moved, u)),
           other.error = None
    PROVE  NoSooner(row, other)
<1> DEFINE a == net.act[u]
           b == later.act[u]
           logic == Bounds(net, rule, placed, u)
           after == Bounds(later, rule, moved, u)
           held == HeldBounds(net, rule, a, logic)
           then == HeldBounds(later, rule, b, after)
           s == held.start.at
           f == held.finish.at
           x == then.start.at
           y == then.finish.at
           span == Place(net, rule, a, s, f)
           next == Place(later, rule, b, x, y)
<1>1. /\ b = a \/ MoreLeft(rule, a, b)
      /\ later.horizon = net.horizon /\ later.status = net.status /\ u \in DOMAIN later.act
      /\ StateOf(b) = StateOf(a) /\ b.actual_start = a.actual_start
  BY BusierAlike DEF Busier
<1>2. /\ row.start = a.actual_start
      /\ StateOf(a) = "complete" => row.finish = a.actual_finish
      /\ StateOf(a) # "complete" => span # None /\ row.finish = span[2]
  BY ReportedRowFacts
<1>3. /\ other.start = b.actual_start
      /\ StateOf(b) = "complete" => other.finish = b.actual_finish
      /\ StateOf(b) # "complete" => next # None /\ other.finish = next[2]
  BY ReportedRowFacts
<1>4. logic.start.at \in Int /\ logic.finish.at \in Int
  BY BoundsFacts
<1>5. \A k \in Binding(later, rule, u) : Landing(later, moved, k) \in Int
  BY BusierAlike
<1>6. after.start.at \in Int /\ after.finish.at \in Int
  BY <1>1, <1>5, BoundsFacts
<1>7. logic.start.at <= after.start.at /\ logic.finish.at <= after.finish.at
  BY BoundsAreMonotone
<1>8. /\ Indexed(a.calendar) /\ Remaining(a) \in Nat /\ a.actual_start \in Int
      /\ StateOf(a) = "complete" => a.actual_finish \in Int
  BY ActivityFacts
<1>9. Remaining(b) \in Nat
  BY <1>1, ActivityFacts
<1>10. net.horizon \in Int /\ net.status \in Int \union {None}
  BY DEF IsTimed
<1>11. /\ held.start = HeldBack(net, rule, a, logic.start)
       /\ held.finish = HeldBack(net, rule, a, logic.finish)
       /\ then.start = HeldBack(later, rule, b, after.start)
       /\ then.finish = HeldBack(later, rule, b, after.finish)
  BY DEF HeldBounds
<1> HIDE DEF a, b, logic, after, held, then
<1>12. s \in Int /\ x \in Int /\ s <= x
  <2> DEFINE low == logic.start
             high == after.start
  <2>1. low.at \in Int /\ high.at \in Int /\ low.at <= high.at
    BY <1>4, <1>6, <1>7
  <2> HIDE DEF low, high
  <2>2. /\ HeldBack(net, rule, a, low).at \in Int /\ HeldBack(later, rule, b, high).at \in Int
        /\ HeldBack(net, rule, a, low).at <= HeldBack(later, rule, b, high).at
    BY <1>1, <1>8, <1>10, <2>1, HeldIsMonotone
  <2> QED BY <1>11, <2>2 DEF low, high
<1>13. f \in Int /\ y \in Int /\ f <= y
  <2> DEFINE low == logic.finish
             high == after.finish
  <2>1. low.at \in Int /\ high.at \in Int /\ low.at <= high.at
    BY <1>4, <1>6, <1>7
  <2> HIDE DEF low, high
  <2>2. /\ HeldBack(net, rule, a, low).at \in Int /\ HeldBack(later, rule, b, high).at \in Int
        /\ HeldBack(net, rule, a, low).at <= HeldBack(later, rule, b, high).at
    BY <1>1, <1>8, <1>10, <2>1, HeldIsMonotone
  <2> QED BY <1>11, <2>2 DEF low, high
<1> HIDE DEF s, f, x, y
<1>14. CASE StateOf(a) = "complete"
  <2>1. b = a
    BY <1>1, <1>14 DEF MoreLeft
  <2> QED BY <1>2, <1>3, <1>8, <1>14, <2>1 DEF NoSooner
<1>15. CASE StateOf(a) # "complete"
  <2>1. span # None /\ next # None
    BY <1>1, <1>2, <1>3, <1>15
  <2>2. span[2] <= next[2]
    BY <1>1, <1>8, <1>9, <1>10, <1>12, <1>13, <2>1, PlaceIsMonotone
  <2> HIDE DEF span, next
  <2> QED BY <1>1, <1>2, <1>3, <1>8, <1>15, <2>2 DEF NoSooner
<1> QED BY <1>14, <1>15

(* Behind rows that are no earlier, a row is none.                           *)
LEMMA EarlyRowNoSooner ==
    ASSUME NEW net, IsTimed(net), Validated(net), NEW later, IsTimed(later), Validated(later),
           NEW rule, Busier(net, later, rule), NEW placed, NEW moved, NEW u \in DOMAIN net.act,
           \A k \in Into(net, u) :
               LET p == net.edges[k].predecessor IN
               TimedRow(placed[p]) /\ TimedRow(moved[p]) /\ NoSooner(placed[p], moved[p]),
           NEW row, row = EarlyRow(net, rule, placed, u), row.error = None,
           NEW other, other = EarlyRow(later, rule, moved, u), other.error = None
    PROVE  NoSooner(row, other)
<1> DEFINE unreachable == \E k \in Binding(net, rule, u) : Landing(net, placed, k) = None
           stuck == \E k \in Binding(later, rule, u) : Landing(later, moved, k) = None
           there == PlaceRow(net, rule, u, Bounds(net, rule, placed, u))
           then == PlaceRow(later, rule, u, Bounds(later, rule, moved, u))
<1>1. /\ row = IF unreachable THEN [error |-> "SCHEDULE_LAG_UNREACHABLE"] ELSE there
      /\ other = IF stuck THEN [error |-> "SCHEDULE_LAG_UNREACHABLE"] ELSE then
  BY DEF EarlyRow
<1>2. ~unreachable /\ row = there /\ ~stuck /\ other = then
  <2>1. [error |-> "SCHEDULE_LAG_UNREACHABLE"].error # None
    BY RefusalsAssumption DEF Codes
  <2> HIDE DEF unreachable, there, stuck, then
  <2> QED BY <1>1, <2>1
<1>3. StateOf(later.act[u]) = StateOf(net.act[u]) /\ Binding(later, rule, u) = Binding(net, rule, u)
  BY BusierAlike
<1>4. ASSUME NEW k \in Binding(net, rule, u)
      PROVE  /\ Landing(net, placed, k) \in Int /\ Landing(later, moved, k) \in Int
             /\ Landing(net, placed, k) <= Landing(later, moved, k)
  <2>1. k \in DOMAIN net.edges /\ net.edges[k].successor \in DOMAIN net.act /\ k \in Into(net, u)
    BY DEF Binding, Into
  <2>2. Landing(net, placed, k) # None /\ Landing(later, moved, k) # None
    BY <1>2, <1>3
  <2> QED BY <2>1, <2>2, LandsNoSooner
<1> HIDE DEF unreachable, stuck
<1>5. CASE StateOf(net.act[u]) = "not_started"
  <2>1. /\ row = PlaceUntouched(net, rule, u, Bounds(net, rule, placed, u))
        /\ other = PlaceUntouched(later, rule, u, Bounds(later, rule, moved, u))
    BY <1>2, <1>3, <1>5 DEF PlaceRow
  <2> QED BY <1>4, <1>5, <2>1, UntouchedNoSooner
<1>6. CASE StateOf(net.act[u]) # "not_started"
  <2>1. /\ row = PlaceReported(net, rule, u, Bounds(net, rule, placed, u))
        /\ other = PlaceReported(later, rule, u, Bounds(later, rule, moved, u))
    BY <1>2, <1>3, <1>6 DEF PlaceRow
  <2> QED BY <1>4, <1>6, <2>1, ReportedNoSooner
<1> QED BY <1>5, <1>6

(* So, along the topological order, is every row of the forward pass.        *)
LEMMA EarlyNoSooner ==
    ASSUME NEW net, Enumerated(net), IsTimed(net), Validated(net), Acyclic(net), EdgesJoin(net),
           NEW later, Enumerated(later), IsTimed(later), Validated(later), Acyclic(later),
           EdgesJoin(later), NEW rule, Busier(net, later, rule),
           NEW placed, EarlySettled(net, rule, placed), NEW moved, EarlySettled(later, rule, moved)
    PROVE  \A u \in DOMAIN net.act : NoSooner(placed[u], moved[u])
<1> DEFINE seq == TopologicalOrder(net)
           S == {n \in Nat : \A i \in 1..Len(seq) : i <= n => NoSooner(placed[seq[i]], moved[seq[i]])}
<1>1. /\ seq \in Seq(DOMAIN net.act) /\ Sorted(net, seq)
      /\ \A u \in DOMAIN net.act : \E i \in 1..Len(seq) : seq[i] = u
  BY TopologicalOrderFacts
<1>2. \A u \in DOMAIN net.act : TimedRow(placed[u])
  BY EarlyIsTight
<1>3. \A u \in DOMAIN net.act : TimedRow(moved[u])
  <2>1. \A u \in DOMAIN later.act : TimedRow(moved[u])
    BY EarlyIsTight
  <2> QED BY <2>1 DEF Busier
<1>4. ASSUME NEW u \in DOMAIN net.act,
             \A k \in Into(net, u) : LET p == net.edges[k].predecessor IN NoSooner(placed[p], moved[p])
      PROVE  NoSooner(placed[u], moved[u])
  <2>1. placed[u] = EarlyRow(net, rule, placed, u) /\ placed[u].error = None
    BY DEF EarlySettled
  <2>2. moved[u] = EarlyRow(later, rule, moved, u) /\ moved[u].error = None
    BY DEF EarlySettled, Busier
  <2>3. ASSUME NEW k \in Into(net, u)
        PROVE  LET p == net.edges[k].predecessor IN
               TimedRow(placed[p]) /\ TimedRow(moved[p]) /\ NoSooner(placed[p], moved[p])
    <3>1. net.edges[k].predecessor \in DOMAIN net.act
      BY DEF EdgesJoin, Into
    <3> QED BY <1>2, <1>3, <1>4, <3>1
  <2> QED BY <2>1, <2>2, <2>3, EarlyRowNoSooner
<1> HIDE DEF seq
<1>5. Len(seq) \in Nat /\ \A i \in 1..Len(seq) : seq[i] \in DOMAIN net.act
  BY <1>1
<1>6. 0 \in S
  BY <1>5
<1>7. ASSUME NEW n \in Nat, n \in S
      PROVE  n + 1 \in S
  <2> SUFFICES ASSUME NEW i \in 1..Len(seq), i <= n + 1 PROVE NoSooner(placed[seq[i]], moved[seq[i]])
    OBVIOUS
  <2>1. ASSUME NEW k \in Into(net, seq[i])
        PROVE  LET p == net.edges[k].predecessor IN NoSooner(placed[p], moved[p])
    <3>1. PICK j \in 1..(i - 1) : seq[j] = net.edges[k].predecessor
      BY <1>1 DEF Sorted
    <3>2. j \in 1..Len(seq) /\ j <= n
      BY <1>5
    <3> QED BY <1>7, <3>1, <3>2
  <2> QED BY <1>4, <1>5, <2>1
<1> HIDE DEF S
<1>8. \A n \in Nat : n \in S
  BY <1>6, <1>7, Choosing!EveryNatural
<1> SUFFICES ASSUME NEW u \in DOMAIN net.act PROVE NoSooner(placed[u], moved[u])
  OBVIOUS
<1>9. PICK i \in 1..Len(seq) : seq[i] = u
  BY <1>1
<1>10. Len(seq) \in S /\ i <= Len(seq)
  BY <1>5, <1>8
<1> QED BY <1>9, <1>10 DEF S

(* A network with more work left of one activity is busier.                  *)
LEMMA MoreWorkIsBusier ==
    ASSUME NEW net, IsNetwork(net), IsTimed(net), Validated(net), NEW later,
           IsTimed(later), Validated(later), NEW rule, NEW u \in DOMAIN net.act,
           OnlyMoreWork(net, later, rule, u)
    PROVE  Busier(net, later, rule)
<1> DEFINE a == net.act[u]
           left == later.act[u].remaining
           b == [a EXCEPT !.remaining = left]
<1>1. /\ StateOf(a) = "in_progress" /\ left > a.remaining
      /\ rule.snap => a.remaining > 0
      /\ later = [net EXCEPT !.act[u].remaining = left]
  BY DEF OnlyMoreWork
<1>2. IsActivity(a) /\ a.remaining # None
  BY <1>1 DEF IsTimed, Validated
<1>3. a = [duration |-> a.duration, calendar |-> a.calendar, measure |-> a.measure,
            constraint |-> a.constraint, coordinate |-> a.coordinate,
            actual_start |-> a.actual_start, actual_finish |-> a.actual_finish,
            remaining |-> a.remaining, elapsed_float |-> a.elapsed_float, envelope |-> a.envelope]
  BY <1>2 DEF IsActivity
<1>4. net = [order |-> net.order, act |-> net.act, edges |-> net.edges,
             start |-> net.start, horizon |-> net.horizon, status |-> net.status]
  BY DEF IsNetwork
<1>5. later = [net EXCEPT !.act = [net.act EXCEPT ![u] = b]]
  BY <1>1
<1> HIDE DEF left, b, a
<1>6. /\ later.act = [net.act EXCEPT ![u] = b]
      /\ later.edges = net.edges /\ later.start = net.start
      /\ later.horizon = net.horizon /\ later.status = net.status
  BY <1>4, <1>5
<1>7. /\ DOMAIN later.act = DOMAIN net.act /\ later.act[u] = b
      /\ \A v \in DOMAIN net.act : v # u => later.act[v] = net.act[v]
  BY <1>6
<1>8. /\ b.remaining = left /\ b.calendar = a.calendar /\ b.actual_start = a.actual_start
      /\ b.actual_finish = a.actual_finish
  BY <1>3 DEF b
<1>9. StateOf(b) = "in_progress"
  BY <1>1, <1>8 DEF StateOf
<1>10. Remaining(a) = a.remaining /\ a.remaining \in Nat
  BY <1>1, <1>2 DEF Remaining, IsActivity
<1>11. Remaining(b) = left /\ left \in Nat
  <2>1. u \in DOMAIN later.act /\ b = later.act[u]
    BY <1>7
  <2>2. IsActivity(b) /\ b.remaining # None
    BY <1>9, <2>1 DEF IsTimed, Validated
  <2> QED BY <1>8, <1>9, <2>2 DEF Remaining, IsActivity
<1>12. MoreLeft(rule, a, b)
  <2>1. Remaining(a) < Remaining(b)
    BY <1>1, <1>10, <1>11
  <2>2. rule.snap => Remaining(a) > 0
    BY <1>1, <1>10
  <2> QED BY <1>1, <1>8, <1>9, <2>1, <2>2 DEF MoreLeft
<1> QED BY <1>6, <1>7, <1>12 DEF Busier, a

----------------------------------------------------------------------------
(* The schedule through any number of reports.                              *)

(* The state held is one the full passes could calculate.                    *)
InFull(state) ==
    /\ IsNetwork(state.network) /\ IsTimed(state.network)
    /\ Calculated(state.network, state.rule, state.forward, state.backward)
HeldInFull == current # None => InFull(current)

(* What is assembled without a refusal are the passes it was assembled from. *)
LEMMA Assembled ==
    ASSUME NEW passes, Assemble(passes).error = None
    PROVE  Assemble(passes) = passes /\ passes.error = None
BY RefusalsAssumption DEF Assemble, Codes

(* A project is calculated by the full passes.                               *)
LEMMA CalculateHolds ==
    ASSUME HeldInFull, NEW project \in Projects, Calculate(project)
    PROVE  HeldInFull'
<1> DEFINE full == FullPasses(project.network, project.rule)
           passes == CalculateState(project)
<1>1. /\ current = None
      /\ current' = IF passes.error = None THEN Held(project, passes) ELSE current
  BY DEF Calculate, Answer
<1>2. CASE passes.error = None
  <2>1. passes = full /\ full.error = None
    BY <1>2, Assembled DEF CalculateState
  <2>2. IsNetwork(project.network) /\ IsTimed(project.network)
    BY ProjectsAssumption
  <2>3. full.forward.network = project.network
        /\ Calculated(project.network, project.rule, full.forward, full.backward)
    BY <2>1, <2>2, FullAnswered
  <2> HIDE DEF full, passes
  <2> QED BY <1>1, <1>2, <2>1, <2>2, <2>3 DEF Held, HeldInFull, InFull
<1>3. CASE passes.error # None
  BY <1>1, <1>3 DEF HeldInFull
<1> QED BY <1>2, <1>3

(* A report is recalculated as the full passes would, by the same rule.      *)
LEMMA ApplyExecutionHolds ==
    ASSUME HeldInFull, NEW change \in Changes, ApplyExecution(change)
    PROVE  InFull(current') /\ current'.rule = current.rule
<1> DEFINE refusal == Refusal(current, change)
           u == change.activity
           old == current.network
           network == [old EXCEPT !.act[u] = Reported(@, change)]
           some == RecalculateNetwork(current, network, u)
           passes == IF refusal # None THEN [error |-> refusal] ELSE Assemble(some)
<1>1. /\ current # None
      /\ current' = IF passes.error = None THEN Held(current, passes) ELSE current
  BY DEF ApplyExecution, Answer
<1>2. /\ IsNetwork(old) /\ IsTimed(old)
      /\ Calculated(old, current.rule, current.forward, current.backward)
  BY <1>1 DEF HeldInFull, InFull
<1>3. /\ IsNetwork(network) /\ IsTimed(network) /\ DOMAIN network.act = DOMAIN old.act
      /\ u \in DOMAIN old.act => Changed(old, network, u)
  <2> DEFINE a == Reported(old.act[u], change)
             given == [old EXCEPT !.act[u] = a]
  <2>1. network = given
    OBVIOUS
  <2>2. /\ IsNetwork(given) /\ DOMAIN given.act = DOMAIN old.act
        /\ given.order = old.order /\ given.edges = old.edges
        /\ given.start = old.start /\ given.horizon = old.horizon
        /\ given.status = old.status
        /\ \A v \in DOMAIN old.act : given.act[v] = IF v = u THEN a ELSE old.act[v]
    <3> HIDE DEF a, u, old
    <3> QED BY <1>2, ReportedNetwork
  <2>3. u \in DOMAIN old.act => IsActivity(a)
    <3> HIDE DEF u, old
    <3> QED BY <1>2, ReportedIsActivity DEF IsTimed
  <2> HIDE DEF given, network, old, u, a
  <2>4. IsTimed(given)
    BY <1>2, <2>2, <2>3 DEF IsTimed
  <2> QED BY <1>2, <2>1, <2>2, <2>4 DEF Changed
<1>4. CASE passes.error = None
  <2>1. passes = some /\ some.error = None
    <3> HIDE DEF some, refusal
    <3> QED BY <1>4, Assembled
  <2>2. some.forward.network = network
        /\ Calculated(network, current.rule, some.forward, some.backward)
    <3> HIDE DEF network, u, old
    <3> QED BY <1>2, <1>3, <2>1, RecalculatedInFull
  <2> HIDE DEF some, passes, network
  <2> QED BY <1>1, <1>3, <1>4, <2>1, <2>2 DEF Held, HeldInFull, InFull
<1>5. CASE passes.error # None
  <2> HIDE DEF passes
  <2> QED BY <1>1, <1>5 DEF HeldInFull
<1> QED BY <1>4, <1>5

(* Whatever is done, what is held is.                                        *)
LEMMA HeldInFullIsInductive ==
    /\ Init => HeldInFull
    /\ HeldInFull /\ [Next]_vars => HeldInFull'
<1>1. Init => HeldInFull
  BY DEF Init, HeldInFull
<1>2. HeldInFull /\ [Next]_vars => HeldInFull'
  <2> SUFFICES ASSUME HeldInFull, [Next]_vars PROVE HeldInFull'
    OBVIOUS
  <2>1. CASE \E project \in Projects : Calculate(project)
    BY <2>1, CalculateHolds
  <2>2. CASE \E change \in Changes : ApplyExecution(change)
    BY <2>2, ApplyExecutionHolds DEF HeldInFull
  <2>3. CASE UNCHANGED vars
    BY <2>3 DEF vars, HeldInFull
  <2> QED BY <2>1, <2>2, <2>3 DEF Next
<1> QED BY <1>1, <1>2

(* What a schedule held in full is.                                          *)
LEMMA InFullFacts ==
    ASSUME NEW state, InFull(state)
    PROVE  LET net == state.network
               rule == state.rule
           IN  /\ IsNetwork(net) /\ IsTimed(net) /\ Enumerated(net) /\ Validated(net)
               /\ Acyclic(net) /\ EdgesJoin(net) /\ EarlySettled(net, rule, state.forward.times)
<1> DEFINE net == state.network
           rule == state.rule
<1>1. IsNetwork(net) /\ IsTimed(net) /\ Calculated(net, rule, state.forward, state.backward)
  BY DEF InFull
<1>2. /\ state.forward = ForwardPass(net, rule) /\ state.forward.error = None
      /\ EarlySettled(net, rule, state.forward.times) /\ Acyclic(net) /\ EdgesJoin(net)
  BY <1>1, CalculatedFacts
<1>3. Enumerated(net)
  BY <1>1 DEF IsNetwork
<1>4. Validated(net)
  BY <1>2, <1>3, ForwardFacts
<1> QED BY <1>1, <1>2, <1>3, <1>4

(* Theorem.  However many reports a schedule took, and however each was      *)
(* recalculated, it is the schedule its full passes compute                  *)
(* (core/engine/incremental.py: "with the full passes as the oracle").       *)
THEOREM ScheduleIsRecalculatedInFull == Spec => []RecalculationIsFull
<1>1. HeldInFull => RecalculationIsFull
  BY DEF HeldInFull, InFull, RecalculationIsFull, Calculated
<1> QED BY <1>1, HeldInFullIsInductive, PTL DEF Spec

(* Theorem.  Through any number of reports, the edge a row names as its      *)
(* driver is the edge that placed it: the activity begins, or ends, at the   *)
(* first second it may at or after where that edge lands (forward.py,        *)
(* _driver).                                                                 *)
THEOREM DriversPlacedTheirRows == Spec => []DriverIsTight
<1>1. HeldInFull => DriverIsTight
  <2> SUFFICES ASSUME HeldInFull, current # None, NEW u \in DOMAIN current.network.act
               PROVE  TightRow(current.network, current.rule, current.forward.times, u,
                               current.forward.times[u])
    BY DEF DriverIsTight, TightRow
  <2> DEFINE net == current.network
             rule == current.rule
             times == current.forward.times
  <2>1. /\ IsTimed(net) /\ Enumerated(net) /\ Validated(net) /\ Acyclic(net) /\ EdgesJoin(net)
        /\ EarlySettled(net, rule, times)
    BY InFullFacts DEF HeldInFull
  <2> HIDE DEF net, rule, times
  <2>2. \A v \in DOMAIN net.act : TightRow(net, rule, times, v, times[v])
    BY <2>1, EarlyIsTight
  <2> QED BY <2>2 DEF net, rule, times
<1> QED BY <1>1, HeldInFullIsInductive, PTL DEF Spec

(* Theorem.  Reporting that more work remains of an activity, and nothing    *)
(* else, brings the finish of no activity of the schedule forward            *)
(* (core/execution.py, forward.py).                                          *)
THEOREM MoreWorkEndsNoEarlier == Spec => MoreWorkIsNeverEarlier
<1> DEFINE Moved ==
      current # None =>
         ((\E u \in DOMAIN current.network.act :
              OnlyMoreWork(current.network, current'.network, current.rule, u)) =>
          \A v \in DOMAIN current.network.act :
              current'.forward.times[v].finish >= current.forward.times[v].finish)
<1>1. HeldInFull /\ [Next]_vars => [Moved]_vars
  <2> SUFFICES ASSUME HeldInFull, Next, current # None, NEW u \in DOMAIN current.network.act,
                      OnlyMoreWork(current.network, current'.network, current.rule, u),
                      NEW v \in DOMAIN current.network.act
               PROVE  current'.forward.times[v].finish >= current.forward.times[v].finish
    OBVIOUS
  <2>1. PICK change \in Changes : ApplyExecution(change)
    BY DEF Next, Calculate
  <2>2. InFull(current) /\ InFull(current') /\ current'.rule = current.rule
    BY <2>1, ApplyExecutionHolds DEF HeldInFull
  <2> DEFINE net == current.network
             later == current'.network
             rule == current.rule
             times == current.forward.times
             moved == current'.forward.times
  <2>3. /\ IsNetwork(net) /\ IsTimed(net) /\ Enumerated(net) /\ Validated(net)
        /\ Acyclic(net) /\ EdgesJoin(net) /\ EarlySettled(net, rule, times)
    BY <2>2, InFullFacts
  <2>4. /\ IsNetwork(later) /\ IsTimed(later) /\ Enumerated(later) /\ Validated(later)
        /\ Acyclic(later) /\ EdgesJoin(later) /\ EarlySettled(later, rule, moved)
    BY <2>2, InFullFacts
  <2>5. Busier(net, later, rule)
    BY <2>3, <2>4, MoreWorkIsBusier
  <2> HIDE DEF net, later, rule, times, moved
  <2>6. \A w \in DOMAIN net.act : NoSooner(times[w], moved[w])
    BY <2>3, <2>4, <2>5, EarlyNoSooner
  <2>7. \A w \in DOMAIN net.act : TimedRow(times[w])
    BY <2>3, EarlyIsTight
  <2>8. \A w \in DOMAIN later.act : TimedRow(moved[w])
    BY <2>4, EarlyIsTight
  <2>9. NoSooner(times[v], moved[v]) /\ TimedRow(times[v]) /\ TimedRow(moved[v])
    BY <2>5, <2>6, <2>7, <2>8 DEF Busier, net
  <2> QED BY <2>9 DEF NoSooner, TimedRow, times, moved
<1> HIDE DEF Moved
<1>2. Spec => [][Moved]_vars
  BY <1>1, HeldInFullIsInductive, PTL DEF Spec
<1> QED BY <1>2 DEF MoreWorkIsNeverEarlier, Moved
==============================================================================
