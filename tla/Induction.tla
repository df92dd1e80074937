------------------------------ MODULE Induction ------------------------------
(***************************************************************************)
(* Induction over numbers, in the form the proofs can use: the least       *)
(* counterexample, and recursions along an interval.                       *)
(***************************************************************************)
EXTENDS FiniteSetTheorems, TLAPS

\* Every set of numbers has a least one: what inductions rest on here.
LEMMA LeastNat ==
  ASSUME NEW T \in SUBSET Nat, T # {}
  PROVE  \E m \in T : \A n \in T : m <= n
<1>1. PICK t \in T : TRUE
  OBVIOUS
<1> DEFINE S       == 0..t
           Below   == {0..m : m \in {n \in T : n <= t}}
<1>2. IsFiniteSet(S) /\ \A m \in Nat : m <= t => 0..m \subseteq S
  BY FS_Interval
<1>3. IsWellFoundedOn(StrictSubsetOrdering(S), SUBSET S)
  BY <1>2, FS_StrictSubsetOrderingWellFounded, FS_FiniteSubsetsOfFinite
<1>4. Below \subseteq SUBSET S /\ Below # {}
  BY <1>1, <1>2
<1>5. PICK x \in Below : \A y \in Below : <<y, x>> \notin StrictSubsetOrdering(S)
  <2> HIDE DEF Below, S
  <2> QED BY <1>3, <1>4, WFMin
<1>6. PICK m \in T : m <= t /\ x = 0..m
  OBVIOUS
<1>7. ASSUME NEW n \in T, n < m PROVE FALSE
  <2>1. n <= t /\ 0..n \in Below
    <3>1. n \in Nat /\ m \in Nat /\ t \in Nat /\ m <= t
      BY <1>1, <1>6
    <3>2. n <= t
      BY <1>7, <3>1
    <3>3. 0..n \in Below
      BY <1>7, <3>2
    <3> QED BY <3>2, <3>3
  <2>2. 0..n \subseteq 0..m /\ 0..n # 0..m /\ 0..m \subseteq S
    <3>1. m \in 0..m /\ m \notin 0..n
      BY <1>7
    <3> QED BY <1>1, <1>6, <1>7, <3>1
  <2>3. <<0..n, 0..m>> \in StrictSubsetOrdering(S)
    BY <2>2 DEF StrictSubsetOrdering
  <2> QED BY <1>5, <1>6, <2>1, <2>3
<1> QED BY <1>7

\* A recursion over a..b whose values stay in D has a solution.
Solves(f, a, b, D, init, step) ==
  /\ f \in [a..b -> D]
  /\ \A i \in a..b : f[i] = IF i = a THEN init ELSE step[<<i, f[i - 1]>>]

LEMMA Recursion ==
  ASSUME NEW a \in Int, NEW b \in Int, NEW D, NEW init \in D,
         NEW step \in [(a..b) \X D -> D]
  PROVE  \E f : Solves(f, a, b, D, init, step)
<1> DEFINE Upto(f, r) == /\ f \in [a..b -> D]
                         /\ \A i \in a..b : i <= a + r =>
                              f[i] = IF i = a THEN init ELSE step[<<i, f[i - 1]>>]
           Stuck == {r \in Nat : ~\E f : Upto(f, r)}
<1>1. ASSUME NEW r \in Nat, NEW f, Upto(f, r) PROVE \E g : Upto(g, r + 1)
  <2> DEFINE n == a + r + 1
             g == [i \in a..b |-> IF i = n THEN step[<<n, f[n - 1]>>] ELSE f[i]]
  <2>1. f \in [a..b -> D]
    BY <1>1
  <2>2. n \in Int /\ n - 1 = a + r /\ a < n
    OBVIOUS
  <2>3. g \in [a..b -> D]
    <3>1. ASSUME n \in a..b PROVE step[<<n, f[n - 1]>>] \in D
      <4>1. n - 1 \in a..b
        BY <2>2, <3>1
      <4>2. f[n - 1] \in D
        BY <2>1, <4>1
      <4> QED BY <3>1, <4>2
    <3> QED BY <2>1, <3>1
  <2>4. ASSUME NEW i \in a..b, i <= n
        PROVE  g[i] = IF i = a THEN init ELSE step[<<i, g[i - 1]>>]
    <3>1. CASE i = n
      <4>1. i - 1 \in a..b /\ i - 1 # n /\ i # a
        BY <2>2, <3>1
      <4>2. g[i] = step[<<n, f[n - 1]>>] /\ g[i - 1] = f[i - 1]
        BY <3>1, <4>1
      <4> HIDE DEF g, n
      <4> QED BY <3>1, <4>1, <4>2
    <3>2. CASE i # n
      <4>1. i <= a + r /\ g[i] = f[i]
        BY <2>2, <2>4, <3>2
      <4>2. f[i] = IF i = a THEN init ELSE step[<<i, f[i - 1]>>]
        BY <1>1, <4>1
      <4>3. i # a => g[i - 1] = f[i - 1]
        <5>1. i # a => i - 1 \in a..b /\ i - 1 # n
          BY <2>2, <2>4, <3>2
        <5> QED BY <5>1
      <4> HIDE DEF g, n
      <4> QED BY <4>1, <4>2, <4>3
    <3> QED BY <3>1, <3>2
  <2> HIDE DEF g
  <2>5. Upto(g, r + 1)
    BY <2>3, <2>4
  <2> QED BY <2>5
<1>2. Stuck = {}
  <2> SUFFICES ASSUME Stuck # {} PROVE FALSE
    OBVIOUS
  <2>1. PICK r \in Stuck : \A s \in Stuck : r <= s
    <3>1. Stuck \in SUBSET Nat
      OBVIOUS
    <3> HIDE DEF Stuck
    <3> QED BY <3>1, LeastNat
  <2>2. r \in Nat /\ ~\E f : Upto(f, r)
    OBVIOUS
  <2>3. CASE r = 0
    <3> DEFINE f == [i \in a..b |-> init]
    <3>1. f \in [a..b -> D]
      OBVIOUS
    <3>2. \A i \in a..b : i <= a + 0 => i = a /\ f[i] = init
      OBVIOUS
    <3> HIDE DEF f
    <3>3. Upto(f, 0)
      BY <3>1, <3>2
    <3> QED BY <2>2, <2>3, <3>3
  <2>4. CASE r # 0
    <3>1. r - 1 \in Nat /\ ~(r <= r - 1) /\ (r - 1) + 1 = r
      BY <2>2, <2>4
    <3>2. r - 1 \notin Stuck
      <4> HIDE DEF Stuck
      <4> QED BY <2>1, <3>1
    <3>3. \E f : Upto(f, r - 1)
      BY <3>1, <3>2
    <3> HIDE DEF Upto, Stuck
    <3>4. \E g : Upto(g, (r - 1) + 1)
      BY <1>1, <3>1, <3>3
    <3> QED BY <2>2, <3>1, <3>4
  <2> QED BY <2>3, <2>4
<1>3. PICK r \in Nat : b <= a + r
  <2>1. CASE b <= a
    BY <2>1
  <2>2. CASE ~(b <= a)
    <3>1. b - a \in Nat /\ b <= a + (b - a)
      BY <2>2
    <3> QED BY <3>1
  <2> QED BY <2>1, <2>2
<1>4. PICK f : Upto(f, r)
  <2>1. r \notin Stuck
    <3> HIDE DEF Stuck
    <3> QED BY <1>2
  <2> HIDE DEF Upto
  <2> QED BY <2>1
<1>5. \A i \in a..b : i <= a + r
  BY <1>3
<1> QED BY <1>4, <1>5 DEF Solves

=============================================================================
