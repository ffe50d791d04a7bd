------------------------------ MODULE NatLemmas ------------------------------
(***************************************************************************)
(* Induction for the modules with proofs.  The induction theorems of the   *)
(* library take a predicate as a parameter; here the predicate is a set,   *)
(* and the least element comes from well-foundedness.                      *)
(***************************************************************************)
EXTENDS Integers, WellFoundedInduction, TLAPS

\* A set of natural numbers that is not empty has a least element.
LEMMA LeastElement ==
    ASSUME NEW S, S \subseteq Nat, S # {}
    PROVE  \E m \in S : \A k \in S : m <= k
  <1> DEFINE R == OpToRel(<, Nat)
  <1>1. IsWellFoundedOn(R, Nat)
    BY NatLessThanWellFounded
  <1> HIDE DEF R
  <1>2. PICK m \in S : \A y \in S : <<y, m>> \notin R
    BY <1>1, WFMin
  <1>3. ASSUME NEW k \in S, k < m PROVE FALSE
    <2>1. <<k, m>> \in R
      BY <1>3 DEF R, OpToRel
    <2>2. QED BY <2>1, <1>2
  <1>4. QED BY <1>2, <1>3

\* What holds of 0, and of n + 1 whenever it holds of n, holds of all.
LEMMA Induction ==
    ASSUME NEW S, 0 \in S, \A n \in Nat : n \in S => n + 1 \in S
    PROVE  Nat \subseteq S
  <1> DEFINE T == Nat \ S
  <1> SUFFICES ASSUME T # {} PROVE FALSE
    OBVIOUS
  <1>1. PICK m \in T : \A k \in T : m <= k
    <2>1. T \subseteq Nat
      OBVIOUS
    <2> HIDE DEF T
    <2>2. QED BY <2>1, LeastElement
  <1>2. m # 0 /\ m - 1 \in Nat /\ (m - 1) + 1 = m
    OBVIOUS
  <1>3. m - 1 \in S
    BY <1>1, <1>2
  <1>4. QED BY <1>2, <1>3

\* A function may be defined by its first value and by how the value at n
\* gives the value at n + 1.
Recursive(f, V, first, next) ==
    f \in [Nat -> V] /\ f[0] = first /\ \A n \in Nat : f[n + 1] = next[n][f[n]]

LEMMA Recursion ==
    ASSUME NEW V, NEW first \in V, NEW next \in [Nat -> [V -> V]]
    PROVE  \E f : Recursive(f, V, first, next)
  <1> DEFINE Upto(g, n) == /\ g \in [0 .. n -> V] /\ g[0] = first
                           /\ \A i \in 0 .. n - 1 : g[i + 1] = next[i][g[i]]
  <1>1. \A n \in Nat : \E g : Upto(g, n)
    <2> DEFINE S == {n \in Nat : \E g : Upto(g, n)}
    <2>1. 0 \in S
      <3>1. Upto([i \in 0 .. 0 |-> first], 0)
        OBVIOUS
      <3>2. QED BY <3>1
    <2>2. ASSUME NEW n \in Nat, n \in S PROVE n + 1 \in S
      <3>1. PICK g : Upto(g, n)
        BY <2>2
      <3> DEFINE h == [i \in 0 .. n + 1 |-> IF i <= n THEN g[i] ELSE next[n][g[n]]]
      <3>2. h \in [0 .. n + 1 -> V] /\ h[0] = first
        BY <3>1
      <3>3. ASSUME NEW i \in 0 .. n PROVE h[i + 1] = next[i][h[i]]
        <4>1. CASE i = n
          BY <4>1
        <4>2. CASE i < n
          <5>1. i \in 0 .. n - 1 /\ i <= n /\ i + 1 <= n /\ i + 1 \in 0 .. n + 1
            BY <4>2
          <5>2. h[i] = g[i] /\ h[i + 1] = g[i + 1]
            BY <5>1
          <5>3. QED BY <3>1, <5>1, <5>2
        <4>3. QED BY <4>1, <4>2
      <3>4. Upto(h, n + 1)
        <4> HIDE DEF h
        <4>1. 0 .. (n + 1) - 1 = 0 .. n
          OBVIOUS
        <4>2. QED BY <3>2, <3>3, <4>1
      <3> HIDE DEF h, Upto
      <3>5. QED BY <3>4
    <2> HIDE DEF S
    <2>3. Nat \subseteq S
      BY <2>1, <2>2, Induction
    <2>4. QED BY <2>3 DEF S
  <1>2. ASSUME NEW n \in Nat, NEW g, NEW h, Upto(g, n), Upto(h, n + 1)
        PROVE  g[n] = h[n]
    <2> DEFINE S == {i \in Nat : i <= n => g[i] = h[i]}
    <2>1. 0 \in S
      BY <1>2
    <2>2. ASSUME NEW i \in Nat, i \in S PROVE i + 1 \in S
      <3>1. CASE i + 1 <= n
        <4>1. i \in 0 .. n - 1 /\ i \in 0 .. (n + 1) - 1 /\ g[i] = h[i]
          BY <2>2, <3>1
        <4>2. g[i + 1] = next[i][g[i]] /\ h[i + 1] = next[i][h[i]]
          BY <4>1, <1>2
        <4>3. QED BY <4>1, <4>2
      <3>2. CASE ~(i + 1 <= n)
        BY <3>2
      <3>3. QED BY <3>1, <3>2
    <2> HIDE DEF S
    <2>3. n \in S
      BY <2>1, <2>2, Induction
    <2>4. QED BY <2>3 DEF S
  <1> DEFINE f == [n \in Nat |-> (CHOOSE g : Upto(g, n))[n]]
  <1> HIDE DEF Upto
  <1>3. ASSUME NEW n \in Nat PROVE Upto(CHOOSE g : Upto(g, n), n)
    <2>1. \E g : Upto(g, n)
      BY <1>1
    <2>2. QED BY <2>1
  <1>4. ASSUME NEW n \in Nat PROVE f[n] \in V
    <2>1. Upto(CHOOSE g : Upto(g, n), n)
      BY <1>3
    <2>2. QED BY <2>1 DEF Upto
  <1>5. f[0] = first
    <2>1. Upto(CHOOSE g : Upto(g, 0), 0)
      BY <1>3
    <2>2. QED BY <2>1 DEF Upto
  <1>6. ASSUME NEW n \in Nat PROVE f[n + 1] = next[n][f[n]]
    <2> DEFINE g == CHOOSE x : Upto(x, n)
               h == CHOOSE x : Upto(x, n + 1)
    <2>1. f[n] = g[n] /\ f[n + 1] = h[n + 1]
      OBVIOUS
    <2>2. Upto(g, n) /\ Upto(h, n + 1)
      <3>1. n + 1 \in Nat
        OBVIOUS
      <3>2. QED BY <1>3, <3>1
    <2> HIDE DEF g, h, f
    <2>3. n \in 0 .. (n + 1) - 1
      OBVIOUS
    <2>4. h[n + 1] = next[n][h[n]]
      BY <2>2, <2>3 DEF Upto
    <2>5. g[n] = h[n]
      BY <1>2, <2>2
    <2>6. QED BY <2>1, <2>4, <2>5
  <1>7. QED BY <1>4, <1>5, <1>6 DEF Recursive

\* Division with remainder.
LEMMA Division ==
    ASSUME NEW n \in Nat, n > 0, NEW a \in Nat
    PROVE  \E p \in Nat, r \in 0 .. n - 1 : a = n * p + r /\ r = a % n
  <1>1. a = n * (a \div n) + (a % n) /\ a \div n \in Nat /\ a % n \in 0 .. n - 1
    OBVIOUS
  <1>2. QED BY <1>1

\* Two numbers less than n apart have different remainders.
LEMMA RemaindersDiffer ==
    ASSUME NEW n \in Nat, n > 0, NEW a \in Nat, NEW b \in Nat, a < b, b < a + n
    PROVE  a % n # b % n
  <1>1. PICK p \in Nat, r \in 0 .. n - 1 : a = n * p + r /\ r = a % n
    BY Division
  <1>2. PICK q \in Nat, s \in 0 .. n - 1 : b = n * q + s /\ s = b % n
    BY Division
  <1>3. p < q => n * q - n * p >= n
    OBVIOUS
  <1>4. q <= p => n * q <= n * p
    OBVIOUS
  <1>5. n * p \in Nat /\ n * q \in Nat
    OBVIOUS
  <1>6. ASSUME r = s PROVE FALSE
    <2> DEFINE x == n * p
               y == n * q
    <2>1. /\ x \in Nat /\ y \in Nat /\ a = x + r /\ b = y + s
          /\ (p < q => y - x >= n) /\ (q <= p => y <= x)
      BY <1>1, <1>2, <1>3, <1>4, <1>5
    <2> HIDE DEF x, y
    <2>2. QED BY <2>1, <1>6
  <1>7. QED BY <1>1, <1>2, <1>6

\* The remainder of a multiple and a rest is the rest.
LEMMA RemainderUnique ==
    ASSUME NEW n \in Nat, n > 0, NEW p \in Nat, NEW r \in 0 .. n - 1
    PROVE  (n * p + r) % n = r
  OBVIOUS

\* The remainder of a remainder and another number.
LEMMA RemainderOfSum ==
    ASSUME NEW n \in Nat, n > 0, NEW a \in Nat, NEW b \in Nat
    PROVE  /\ ((a % n) + b) % n = (a + b) % n
           /\ (a + n) % n = a % n
  <1>1. PICK p \in Nat, r \in 0 .. n - 1 : a = n * p + r /\ r = a % n
    BY Division
  <1>2. PICK q \in Nat, s \in 0 .. n - 1 : r + b = n * q + s /\ s = (r + b) % n
    BY Division
  <1>3. n * (p + q) = n * p + n * q /\ n * p \in Nat /\ n * q \in Nat
    OBVIOUS
  <1>4. a + b = n * (p + q) + s
    <2> DEFINE x == n * p
               y == n * q
               z == n * (p + q)
    <2>1. x \in Nat /\ y \in Nat /\ z = x + y /\ a = x + r /\ r + b = y + s
      BY <1>1, <1>2, <1>3
    <2>2. a + b = z + s
      <3> HIDE DEF x, y, z
      <3>1. QED BY <2>1
    <2>3. QED BY <2>2
  <1>5. (n * (p + q) + s) % n = s
    BY RemainderUnique
  <1>6. a + n = n * (p + 1) + r
    <2>1. n * (p + 1) = n * p + n
      OBVIOUS
    <2>2. QED BY <1>1, <1>3, <2>1
  <1>7. (n * (p + 1) + r) % n = r
    BY RemainderUnique
  <1>8. QED BY <1>1, <1>2, <1>4, <1>5, <1>6, <1>7

\* A remainder is a slot, its own number if that is one.
LEMMA RemainderIsSlot ==
    ASSUME NEW n \in Nat, n > 0, NEW a \in Nat
    PROVE  a % n \in 0 .. n - 1 /\ (a < n => a % n = a)
  OBVIOUS
=============================================================================
