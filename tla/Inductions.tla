----------------------------- MODULE Inductions -----------------------------
(***************************************************************************)
(* Induction and recursion over the natural numbers, in the form the other *)
(* proofs cite: the theorems of the library take an operator, which the    *)
(* provers cannot instantiate, these take a set or a function.             *)
(***************************************************************************)
EXTENDS Integers, NaturalsInduction, WellFoundedInduction, TLAPS

Less == {ss \in Nat \X Nat : ss[1] < ss[2]}

\* A set of numbers that is not empty has a least element.
LEMMA Least ==
  ASSUME NEW T \in SUBSET Nat, T # {}
  PROVE  \E m \in T : \A n \in T : m <= n
<1>1. IsWellFoundedOn(Less, Nat)
  BY NatLessThanWellFounded DEF OpToRel, Less
<1>2. PICK m \in T : \A n \in T : <<n, m>> \notin Less
  BY <1>1, WFMin, Zenon
<1>3. ASSUME NEW n \in T PROVE m <= n
  <2>1. <<n, m>> \notin Less
    BY <1>2
  <2> QED BY <2>1 DEF Less
<1> QED BY <1>3

\* A set that contains every number whose predecessors it contains has them all.
LEMMA Induction ==
  ASSUME NEW S, \A n \in Nat : (\A m \in 0..(n - 1) : m \in S) => n \in S
  PROVE  \A n \in Nat : n \in S
<1> SUFFICES ASSUME Nat \ S # {} PROVE FALSE
  OBVIOUS
<1>1. PICK n \in Nat \ S : \A m \in Nat \ S : n <= m
  BY Least, Nat \ S \in SUBSET Nat
<1>2. \A m \in 0..(n - 1) : m \in S
  BY <1>1
<1> QED BY <1>1, <1>2

\* A function over 0..n with values in V, from its first value and a step for each number.
Defined(V, base, step, n) ==
  \E f \in [0..n -> V] : f[0] = base /\ \A k \in 1..n : f[k] = step[k][f[k - 1]]

\* A value and a step for each number define a function.
LEMMA Recursion ==
  ASSUME NEW V, NEW base \in V, NEW step \in [Nat -> [V -> V]], NEW n \in Nat
  PROVE  Defined(V, base, step, n)
<1> DEFINE Of(f, j) == f[0] = base /\ \A k \in 1..j : f[k] = step[k][f[k - 1]]
           S == {j \in Nat : \E f \in [0..j -> V] : Of(f, j)}
<1>1. ASSUME NEW j \in Nat, \A m \in 0..(j - 1) : m \in S
      PROVE  j \in S
  <2>1. CASE j = 0
    <3> DEFINE f == [k \in 0..0 |-> base]
    <3>1. f \in [0..0 -> V] /\ Of(f, 0)
      OBVIOUS
    <3> QED BY <3>1, <2>1
  <2>2. CASE j # 0
    <3>1. PICK f \in [0..(j - 1) -> V] : Of(f, j - 1)
      BY <2>2, <1>1
    <3>2. step[j] \in [V -> V] /\ f[j - 1] \in V
      BY <2>2
    <3> DEFINE g == [k \in 0..j |-> IF k = j THEN step[j][f[j - 1]] ELSE f[k]]
    <3>3. g \in [0..j -> V]
      BY <2>2, <3>2
    <3>4. ASSUME NEW k \in 1..j
          PROVE  g[k] = step[k][g[k - 1]]
      <4>1. CASE k = j
        BY <4>1, <2>2
      <4>2. CASE k # j
        <5>1. k \in 1..(j - 1) /\ k \in 0..j /\ k - 1 \in 0..j /\ k - 1 # j
          BY <4>2
        <5>2. g[k] = f[k] /\ g[k - 1] = f[k - 1]
          BY <5>1, <4>2
        <5> QED BY <5>1, <5>2, <3>1
      <4> QED BY <4>1, <4>2
    <3>5. g[0] = base
      BY <2>2, <3>1
    <3>6. Of(g, j)
      BY <3>4, <3>5
    <3> QED BY <3>3, <3>6
  <2> QED BY <2>1, <2>2
<1> HIDE DEF S
<1>2. \A j \in Nat : j \in S
  BY <1>1, Induction
<1> QED BY <1>2 DEF S, Defined

\* What holds of a function's first value and is handed on holds of all its values.
LEMMA HandedOn ==
  ASSUME NEW V, NEW f, NEW n \in Nat, f[0] \in V,
         \A k \in 1..n : f[k - 1] \in V => f[k] \in V
  PROVE  \A k \in 0..n : f[k] \in V
<1> DEFINE S == {j \in Nat : j <= n => f[j] \in V}
<1>1. ASSUME NEW j \in Nat, \A m \in 0..(j - 1) : m \in S
      PROVE  j \in S
  <2>1. CASE j = 0
    BY <2>1
  <2>2. CASE j \in 1..n
    <3>1. j - 1 \in S
      BY <1>1, <2>2
    <3> QED BY <3>1, <2>2
  <2>3. CASE j > n
    BY <2>3
  <2> QED BY <2>1, <2>2, <2>3
<1> HIDE DEF S
<1>2. \A j \in Nat : j \in S
  BY <1>1, Induction
<1> QED BY <1>2 DEF S

\* Two functions that start alike and go on alike are alike.
LEMMA Alike ==
  ASSUME NEW n \in Nat, NEW f, NEW g, f[0] = g[0],
         \A k \in 1..n : f[k - 1] = g[k - 1] => f[k] = g[k]
  PROVE  \A k \in 0..n : f[k] = g[k]
<1> DEFINE same == [k \in 0..n |-> f[k] = g[k]]
<1>1. ASSUME NEW k \in 1..n, same[k - 1] \in {TRUE} PROVE same[k] \in {TRUE}
  <2>1. k - 1 \in 0..n /\ k \in 0..n
    OBVIOUS
  <2>2. f[k - 1] = g[k - 1]
    BY <1>1, <2>1
  <2>3. f[k] = g[k]
    BY <2>2
  <2> QED BY <2>1, <2>3
<1>2. same[0] \in {TRUE}
  <2>1. 0 \in 0..n
    OBVIOUS
  <2> QED BY <2>1
<1> HIDE DEF same
<1>3. \A k \in 0..n : same[k] \in {TRUE}
  BY <1>1, <1>2, HandedOn
<1> QED BY <1>3 DEF same
=============================================================================
