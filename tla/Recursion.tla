----------------------------- MODULE Recursion -----------------------------
(***************************************************************************)
(* Induction over what a definition recurs on.  The provers take no theorem *)
(* that quantifies over operators, but they take the theorems of a module   *)
(* whose operators are constants: a proof instantiates this one with the    *)
(* base and the step of its recursive definition and with what it claims of *)
(* them.  The first argument of each is whatever else they depend on.       *)
(***************************************************************************)
EXTENDS Integers, WellFoundedInduction, TLAPS

CONSTANTS
    First(_),           \* the value at 0
    Following(_, _, _), \* the value at n, from the one before it
    Claim(_, _, _)      \* what is claimed of n and the value at n

(* What the definition of f over 0..n says: f[0] is First, and f[k] is made *)
(* of f[k - 1].                                                             *)
Recursive(c, n, f) ==
    f = [k \in 0..n |-> IF k = 0 THEN First(c) ELSE Following(c, f[k - 1], k)]

(* A set of naturals that has 0 and every successor has every natural.       *)
LEMMA EveryNatural ==
    ASSUME NEW S, 0 \in S, \A n \in Nat : n \in S => n + 1 \in S
    PROVE  \A n \in Nat : n \in S
<1> DEFINE R == {ss \in Nat \X Nat : ss[1] < ss[2]}
           T == {n \in Nat : n \notin S}
<1>1. IsWellFoundedOn(R, Nat)
  BY NatLessThanWellFounded DEF OpToRel
<1>2. \A x, y \in Nat : x < y => <<x, y>> \in R
  OBVIOUS
<1> HIDE DEF R
<1>3. ASSUME T # {} PROVE FALSE
  <2>1. T \in SUBSET Nat
    OBVIOUS
  <2>2. PICK x \in T : \A y \in T : ~ (<<y, x>> \in R)
    BY <1>1, <1>3, <2>1, WFMin
  <2>3. x \in Nat /\ x # 0 /\ x - 1 \in Nat /\ x - 1 < x
    OBVIOUS
  <2>4. x - 1 \in S
    BY <1>2, <2>2, <2>3
  <2>5. (x - 1) + 1 = x
    BY <2>3
  <2> QED BY <2>3, <2>4, <2>5
<1> QED BY <1>3

(* There is a function that the definition is true of.                       *)
LEMMA RecursiveExists ==
    ASSUME NEW c, NEW n \in Nat
    PROVE  \E f : Recursive(c, n, f)
<1> DEFINE S == {k \in Nat : \E f : Recursive(c, k, f)}
<1>1. 0 \in S
  <2>1. Recursive(c, 0, [k \in 0..0 |-> First(c)])
    BY DEF Recursive
  <2> QED BY <2>1
<1>2. ASSUME NEW k \in Nat, k \in S
      PROVE  k + 1 \in S
  <2>1. PICK f : Recursive(c, k, f)
    BY <1>2
  <2> DEFINE g == [j \in 0..(k + 1) |-> IF j <= k THEN f[j] ELSE Following(c, f[k], k + 1)]
  <2>2. f = [j \in 0..k |-> IF j = 0 THEN First(c) ELSE Following(c, f[j - 1], j)]
    BY <2>1 DEF Recursive
  <2>3. ASSUME NEW j \in 0..(k + 1)
        PROVE  g[j] = IF j = 0 THEN First(c) ELSE Following(c, g[j - 1], j)
    <3>1. CASE j = 0
      BY <2>2, <3>1
    <3>2. CASE j # 0 /\ j <= k
      <4>1. j \in 0..k /\ j - 1 \in 0..(k + 1) /\ j - 1 <= k
        BY <3>2
      <4>2. g[j - 1] = f[j - 1]
        BY <4>1
      <4>3. g[j] = f[j] /\ f[j] = Following(c, f[j - 1], j)
        BY <2>2, <3>2, <4>1
      <4> QED BY <3>2, <4>2, <4>3
    <3>3. CASE j = k + 1
      <4>1. j - 1 = k /\ k \in 0..(k + 1) /\ ~(j <= k) /\ j # 0
        BY <3>3
      <4>2. g[k] = f[k] /\ g[j] = Following(c, f[k], k + 1)
        BY <4>1
      <4> QED BY <3>3, <4>1, <4>2
    <3> QED BY <3>1, <3>2, <3>3
  <2>4. g = [j \in 0..(k + 1) |-> IF j = 0 THEN First(c) ELSE Following(c, g[j - 1], j)]
    BY <2>3
  <2>5. Recursive(c, k + 1, g)
    BY <2>4 DEF Recursive
  <2> QED BY <2>5
<1> HIDE DEF S
<1>3. n \in S
  BY <1>1, <1>2, EveryNatural
<1> QED BY <1>3 DEF S

(* The function TLA+ makes of a recursive definition obeys the definition.   *)
THEOREM RecursiveDefinition ==
    ASSUME NEW c, NEW n \in Nat, NEW f, f = CHOOSE g : Recursive(c, n, g)
    PROVE  /\ DOMAIN f = 0..n
           /\ f[0] = First(c)
           /\ \A k \in 1..n : f[k] = Following(c, f[k - 1], k)
<1>1. Recursive(c, n, f)
  BY RecursiveExists
<1>2. f = [k \in 0..n |-> IF k = 0 THEN First(c) ELSE Following(c, f[k - 1], k)]
  BY <1>1 DEF Recursive
<1>3. DOMAIN f = 0..n
  BY <1>2, Zenon
<1>4. 0 \in 0..n
  OBVIOUS
<1>5. \A k \in 0..n : f[k] = IF k = 0 THEN First(c) ELSE Following(c, f[k - 1], k)
  BY <1>2, Zenon
<1>6. f[0] = First(c)
  BY <1>4, <1>5
<1>7. ASSUME NEW k \in 1..n PROVE f[k] = Following(c, f[k - 1], k)
  <2>1. k \in 0..n /\ k # 0
    OBVIOUS
  <2> QED BY <1>5, <2>1
<1> QED BY <1>3, <1>6, <1>7

(* What holds of the first value, and of the next when of one, holds of all. *)
THEOREM RecursiveInduction ==
    ASSUME NEW c, NEW n \in Nat, NEW f,
           f[0] = First(c),
           \A k \in 1..n : f[k] = Following(c, f[k - 1], k),
           Claim(c, 0, First(c)),
           \A k \in 1..n : Claim(c, k - 1, f[k - 1]) => Claim(c, k, Following(c, f[k - 1], k))
    PROVE  \A k \in 0..n : Claim(c, k, f[k])
<1> DEFINE S == {k \in Nat : k <= n => Claim(c, k, f[k])}
<1>1. 0 \in S
  OBVIOUS
<1>2. ASSUME NEW k \in Nat, k \in S
      PROVE  k + 1 \in S
  <2>1. SUFFICES ASSUME k + 1 <= n PROVE Claim(c, k + 1, f[k + 1])
    OBVIOUS
  <2>2. k + 1 \in 1..n /\ (k + 1) - 1 = k /\ k <= n
    BY <2>1
  <2>3. Claim(c, k, f[k])
    BY <1>2, <2>2
  <2> QED BY <2>2, <2>3
<1> HIDE DEF S
<1>3. \A k \in Nat : k \in S
  BY <1>1, <1>2, EveryNatural
<1>4. ASSUME NEW k \in 0..n
      PROVE  Claim(c, k, f[k])
  <2>1. k \in Nat /\ k <= n /\ k \in S
    BY <1>3
  <2> QED BY <2>1 DEF S
<1> QED BY <1>4
=============================================================================
