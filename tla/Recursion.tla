----------------------------- MODULE Recursion ------------------------------
(***************************************************************************)
(* Functions defined by recursion on an interval of the naturals: that     *)
(* they exist, and where their values lie.  The step is a function, not an *)
(* operator, so that the lemmas can be cited with any step.                *)
(***************************************************************************)
EXTENDS Integers, WellFoundedInduction, TLAPS

\* f starts with x and goes on by G.
Iterates(f, x, G, n) ==
  f = [i \in 0..n |-> IF i = 0 THEN x ELSE G[<<i, f[i - 1]>>]]

\* Every nonempty set of naturals has a least element.
LEMMA LeastNatural ==
  ASSUME NEW T, T \subseteq Nat, T # {}
  PROVE  \E x \in T : \A y \in T : x <= y
<1> DEFINE R == {ss \in Nat \X Nat : ss[1] < ss[2]}
<1>1. IsWellFoundedOn(R, Nat)
  BY NatLessThanWellFounded DEF OpToRel
<1>2. PICK x \in T : \A y \in T : <<y, x>> \notin R
  <2> HIDE DEF R
  <2> QED BY <1>1, WFMin
<1>3. \A y \in T : ~(y < x)
  BY <1>2
<1>4. QED
  BY <1>3

\* A recursion that stays in S describes a function.
LEMMA IterationExists ==
  ASSUME NEW S, NEW x \in S, NEW n \in Nat, NEW G \in [(1..n) \X S -> S]
  PROVE  \E f \in [0..n -> S] : Iterates(f, x, G, n)
<1> DEFINE Has(k) == \E f \in [0..k -> S] : Iterates(f, x, G, k)
           T == {k \in 0..n : ~Has(k)}
<1>1. Has(0)
  <2> DEFINE f == [i \in 0..0 |-> x]
  <2>1. f \in [0..0 -> S]
    OBVIOUS
  <2>2. Iterates(f, x, G, 0)
    BY DEF Iterates
  <2>3. QED
    BY <2>1, <2>2
<1>2. ASSUME NEW k \in 1..n, Has(k - 1) PROVE Has(k)
  <2>1. PICK f \in [0..(k - 1) -> S] : Iterates(f, x, G, k - 1)
    BY <1>2
  <2> DEFINE g == [i \in 0..k |-> IF i = k THEN G[<<k, f[k - 1]>>] ELSE f[i]]
  <2>2. <<k, f[k - 1]>> \in (1..n) \X S
    OBVIOUS
  <2>3. G[<<k, f[k - 1]>>] \in S
    BY <2>2
  <2>4. g \in [0..k -> S]
    BY <2>3
  <2>5. ASSUME NEW i \in 0..k
        PROVE  g[i] = IF i = 0 THEN x ELSE G[<<i, g[i - 1]>>]
    <3>1. CASE i = k
      <4>1. g[i - 1] = f[k - 1]
        BY <3>1
      <4>2. g[i] = G[<<k, f[k - 1]>>] /\ i # 0
        BY <3>1
      <4>3. QED
        BY <3>1, <4>1, <4>2
    <3>2. CASE i # k
      <4>1. i \in 0..(k - 1) /\ g[i] = f[i] /\ (i # 0 => g[i - 1] = f[i - 1])
        BY <3>2
      <4>2. f[i] = IF i = 0 THEN x ELSE G[<<i, f[i - 1]>>]
        BY <2>1, <4>1 DEF Iterates
      <4>3. QED
        BY <4>1, <4>2
    <3>3. QED
      BY <3>1, <3>2
  <2>6. Iterates(g, x, G, k)
    BY <2>5 DEF Iterates
  <2>7. QED
    BY <2>4, <2>6
<1>3. ASSUME ~Has(n) PROVE FALSE
  <2>1. T \subseteq Nat /\ T # {}
    BY <1>3
  <2>2. PICK k \in T : \A j \in T : k <= j
    <3> HIDE DEF T
    <3> QED BY <2>1, LeastNatural
  <2>3. k \in 1..n /\ k - 1 \in 0..n /\ ~(k <= k - 1)
    <3> HIDE DEF Has
    <3> QED BY <1>1
  <2>4. Has(k - 1)
    <3> HIDE DEF Has
    <3> QED BY <2>2, <2>3
  <2>5. QED
    <3> HIDE DEF Has
    <3> QED BY <1>2, <2>3, <2>4
<1>4. QED
  BY <1>3

\* Two functions that start alike and go on alike agree.
LEMMA SameIteration ==
  ASSUME NEW n \in Nat, NEW f, NEW g,
         f[0] = g[0],
         \A i \in 1..n : f[i - 1] = g[i - 1] => f[i] = g[i]
  PROVE  \A i \in 0..n : f[i] = g[i]
<1> DEFINE T == {k \in 0..n : f[k] # g[k]}
<1>1. T = {}
  <2> SUFFICES ASSUME T # {} PROVE FALSE
    OBVIOUS
  <2>1. PICK k \in T : \A j \in T : k <= j
    <3>1. T \subseteq Nat
      OBVIOUS
    <3> HIDE DEF T
    <3> QED BY <3>1, LeastNatural
  <2>2. k \in 1..n /\ k - 1 \in 0..n /\ ~(k <= k - 1)
    OBVIOUS
  <2>3. f[k - 1] = g[k - 1]
    BY <2>1, <2>2
  <2>4. QED
    BY <2>2, <2>3
<1>2. QED
  BY <1>1

\* A function whose values follow one another stays in the sets that do.
LEMMA IterationStays ==
  ASSUME NEW n \in Nat, NEW S, NEW f,
         f[0] \in S[0], \A i \in 1..n : f[i - 1] \in S[i - 1] => f[i] \in S[i]
  PROVE  \A i \in 0..n : f[i] \in S[i]
<1> DEFINE T == {k \in 0..n : f[k] \notin S[k]}
<1>1. T = {}
  <2> SUFFICES ASSUME T # {} PROVE FALSE
    OBVIOUS
  <2>1. PICK k \in T : \A j \in T : k <= j
    <3>1. T \subseteq Nat
      OBVIOUS
    <3> HIDE DEF T
    <3> QED BY <3>1, LeastNatural
  <2>2. k \in 1..n /\ k - 1 \in 0..n /\ ~(k <= k - 1)
    OBVIOUS
  <2>3. f[k - 1] \in S[k - 1]
    BY <2>1, <2>2
  <2>4. QED
    BY <2>2, <2>3
<1>2. QED
  BY <1>1
=============================================================================
