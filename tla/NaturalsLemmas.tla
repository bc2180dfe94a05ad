--------------------------- MODULE NaturalsLemmas ---------------------------
(* Induction and recursion over the natural numbers in a form that takes a  *)
(* set or a function where the theorems of the library take an operator.    *)
EXTENDS Naturals, FiniteSetTheorems, TLAPS

(* A non-empty set of natural numbers has a least element: of the intervals *)
(* from 0 to its elements one has no other inside.                          *)
LEMMA SmallestNat ==
  ASSUME NEW T \in SUBSET Nat, T # {}
  PROVE  \E x \in T : \A y \in T : x <= y
<1> DEFINE Shorter == StrictSubsetOrdering(Nat)
           Upto == {0..x : x \in T}
<1>1. Upto # {} /\ Upto \subseteq FiniteSubsetsOf(Nat)
  <2>1. \A x \in T : IsFiniteSet(0..x) /\ 0..x \subseteq Nat
    BY FS_Interval
  <2> QED BY <2>1 DEF FiniteSubsetsOf
<1>2. \E s \in Upto : \A t \in Upto : ~(<<t, s>> \in Shorter)
  <2> HIDE DEF Shorter, Upto
  <2>1. IsWellFoundedOn(Shorter, FiniteSubsetsOf(Nat))
    BY FS_StrictSubsetOrderingWellFounded DEF Shorter
  <2> QED BY <1>1, <2>1, WFMin
<1>3. PICK x \in T : \A y \in T : ~(<<0..y, 0..x>> \in Shorter)
  BY <1>2
<1>4. ASSUME NEW y \in T, y < x PROVE FALSE
  <2>1. 0..y \in SUBSET Nat /\ 0..x \in SUBSET Nat /\ 0..y \subseteq 0..x /\ x \in 0..x /\ x \notin 0..y
    BY <1>4
  <2>2. 0..y # 0..x
    BY <2>1
  <2>3. <<0..y, 0..x>> \in Shorter
    BY <2>1, <2>2, Zenon DEF StrictSubsetOrdering
  <2> QED BY <1>3, <2>3
<1> QED BY <1>4

(* A set that has 0, and with n also n + 1, has every number up to N.       *)
LEMMA UpTo ==
  ASSUME NEW N \in Nat, NEW T, 0 \in T, \A n \in 0..(N - 1) : n \in T => n + 1 \in T
  PROVE  0..N \subseteq T
<1> SUFFICES ASSUME (0..N) \ T # {} PROVE FALSE
  OBVIOUS
<1>1. PICK x \in (0..N) \ T : \A y \in (0..N) \ T : x <= y
  <2>1. (0..N) \ T \in SUBSET Nat
    OBVIOUS
  <2> QED BY <2>1, SmallestNat
<1>2. x # 0 /\ x - 1 \in 0..(N - 1) /\ x - 1 \in 0..N /\ ~(x <= x - 1) /\ (x - 1) + 1 = x
  OBVIOUS
<1>3. x - 1 \in T
  BY <1>1, <1>2
<1> QED BY <1>2, <1>3

(* A step function depends on the number of the step and the value before;  *)
(* the values from a first one on are those of one function.                *)
IsStep(step, N, V) == step \in [(1..N) \X V -> V]

IsIterated(f, step, first, N, V) ==
  f \in [0..N -> V] /\ f[0] = first /\ \A i \in 1..N : f[i] = step[<<i, f[i - 1]>>]

LEMMA Recursion ==
  ASSUME NEW N \in Nat, NEW V, NEW first \in V, NEW step, IsStep(step, N, V)
  PROVE  \E f : IsIterated(f, step, first, N, V)
<1> DEFINE T == {n \in 0..N : \E f : IsIterated(f, step, first, n, V)}
<1>1. 0 \in T
  <2>1. IsIterated([i \in 0..0 |-> first], step, first, 0, V)
    BY DEF IsIterated
  <2>2. 0 \in 0..N
    OBVIOUS
  <2> QED BY <2>1, <2>2
<1>2. ASSUME NEW n \in 0..(N - 1), n \in T PROVE n + 1 \in T
  <2>1. PICK f : IsIterated(f, step, first, n, V)
    BY <1>2
  <2> DEFINE g == [i \in 0..(n + 1) |-> IF i = n + 1 THEN step[<<i, f[n]>>] ELSE f[i]]
  <2>2. f[n] \in V /\ n + 1 \in 1..N /\ n + 1 \in 0..N
    BY <2>1 DEF IsIterated
  <2>3. step[<<n + 1, f[n]>>] \in V
    <3>1. <<n + 1, f[n]>> \in (1..N) \X V
      BY <2>2
    <3> QED BY <3>1 DEF IsStep
  <2>4. g \in [0..(n + 1) -> V]
    <3>1. ASSUME NEW i \in 0..(n + 1), i # n + 1 PROVE f[i] \in V
      <4>1. i \in 0..n
        BY <3>1
      <4> QED BY <4>1, <2>1 DEF IsIterated
    <3> QED BY <2>3, <3>1
  <2>5. g[0] = first
    BY <2>1 DEF IsIterated
  <2>6. ASSUME NEW i \in 1..(n + 1) PROVE g[i] = step[<<i, g[i - 1]>>]
    <3>1. CASE i = n + 1
      <4>1. g[i] = step[<<i, f[n]>>] /\ i - 1 = n /\ n # n + 1 /\ n \in 0..(n + 1)
        BY <3>1
      <4>2. g[i - 1] = f[n]
        BY <4>1
      <4> QED BY <4>1, <4>2
    <3>2. CASE i # n + 1
      <4>1. i \in 1..n /\ i - 1 \in 0..(n + 1) /\ i - 1 # n + 1 /\ i \in 0..(n + 1)
        BY <3>2
      <4>2. g[i] = f[i] /\ g[i - 1] = f[i - 1]
        BY <3>2, <4>1
      <4> QED BY <2>1, <4>1, <4>2 DEF IsIterated
    <3> QED BY <3>1, <3>2
  <2>7. IsIterated(g, step, first, n + 1, V)
    <3> HIDE DEF g
    <3> QED BY <2>4, <2>5, <2>6 DEF IsIterated
  <2> QED BY <2>2, <2>7
<1>3. N \in T
  <2> HIDE DEF T
  <2>1. 0..N \subseteq T
    BY <1>1, <1>2, UpTo
  <2> QED BY <2>1
<1> QED BY <1>3
=============================================================================
