-------------------------- MODULE SchedOSNaturals ---------------------------
(***************************************************************************)
(* Facts about numbers that the other proofs share: products, division,    *)
(* and induction.  The induction theorems of the library take an operator  *)
(* as a parameter; those below take a set, or a function, and follow from  *)
(* the one that does without, WFMin.                                       *)
(***************************************************************************)
EXTENDS Integers, WellFoundedInduction, TLAPS

(* A set of natural numbers that is not empty has a least element.           *)
LEMMA LeastNat ==
  ASSUME NEW T \in SUBSET Nat, T # {}
  PROVE  \E x \in T : \A y \in T : x <= y
<1> DEFINE R == {ss \in Nat \X Nat : ss[1] < ss[2]}
<1>1. IsWellFoundedOn(R, Nat)
  BY NatLessThanWellFounded DEF OpToRel
<1>2. \A x, y \in Nat : <<y, x>> \in R <=> y < x
  OBVIOUS
<1> HIDE DEF R
<1>3. PICK x \in T : \A y \in T : ~ (<<y, x>> \in R)
  BY <1>1, WFMin
<1>4. \A y \in T : ~ (y < x)
  BY <1>2, <1>3
<1>5. \A y \in T : x <= y
  BY <1>4
<1> QED BY <1>5

(* A set that has 0, and with a number the next one, has them all.           *)
LEMMA SetInduction ==
  ASSUME NEW G \in SUBSET Nat, 0 \in G, \A n \in G : n + 1 \in G
  PROVE  G = Nat
<1>1. SUFFICES ASSUME Nat \ G # {} PROVE FALSE
  OBVIOUS
<1>2. PICK x \in Nat \ G : \A y \in Nat \ G : x <= y
  BY <1>1, LeastNat, Nat \ G \in SUBSET Nat
<1>3. x - 1 \in Nat /\ x - 1 \notin Nat \ G
  BY <1>2
<1> QED BY <1>2, <1>3

(* The same up to a bound.                                                   *)
LEMMA SetInductionUpTo ==
  ASSUME NEW N \in Nat, NEW G, 0 \in G, \A n \in 0 .. N - 1 : n \in G => n + 1 \in G
  PROVE  0 .. N \subseteq G
<1> DEFINE H == {n \in Nat : n <= N => n \in G}
<1>1. 0 \in H /\ \A n \in H : n + 1 \in H
  OBVIOUS
<1> HIDE DEF H
<1>2. H \in SUBSET Nat
  BY DEF H
<1>3. H = Nat
  BY <1>1, <1>2, SetInduction
<1> QED BY <1>3 DEF H

(* f starts with a first value and goes on by a step.                        *)
Iterates(f, S, first, step) ==
  /\ f \in [Nat -> S]
  /\ f[0] = first
  /\ \A n \in Nat : f[n + 1] = step[<<n, f[n]>>]

(* A first value and a step determine a function of the natural numbers.     *)
LEMMA Recursion ==
  ASSUME NEW S, NEW first \in S, NEW step \in [Nat \X S -> S]
  PROVE  \E f : Iterates(f, S, first, step)
<1> DEFINE Begins(g, n) == /\ g \in [0 .. n -> S] /\ g[0] = first
                           /\ \A k \in 0 .. n - 1 : g[k + 1] = step[<<k, g[k]>>]
           G == {n \in Nat : \E g : Begins(g, n)}
<1>1. G = Nat
  <2>1. 0 \in G
    <3>1. Begins([k \in 0 .. 0 |-> first], 0)
      OBVIOUS
    <3> QED BY <3>1
  <2>2. ASSUME NEW n \in G PROVE n + 1 \in G
    <3>1. PICK g : Begins(g, n)
      BY <2>2
    <3> DEFINE h == [k \in 0 .. n + 1 |-> IF k = n + 1 THEN step[<<n, g[n]>>] ELSE g[k]]
    <3>2. h \in [0 .. n + 1 -> S]
      BY <3>1
    <3>3. h[n + 1] = step[<<n, g[n]>>] /\ \A k \in 0 .. n : h[k] = g[k]
      OBVIOUS
    <3> HIDE DEF h
    <3>4. ASSUME NEW k \in 0 .. n PROVE h[k + 1] = step[<<k, h[k]>>]
      <4>1. CASE k = n
        BY <3>3, <4>1
      <4>2. CASE k # n
        <5>1. k \in 0 .. n - 1 /\ k + 1 \in 0 .. n
          BY <4>2
        <5>2. g[k + 1] = step[<<k, g[k]>>]
          BY <3>1, <5>1
        <5> QED BY <3>3, <5>1, <5>2
      <4> QED BY <4>1, <4>2
    <3>5. n + 1 - 1 = n /\ 0 \in 0 .. n
      OBVIOUS
    <3>6. h[0] = first
      BY <3>1, <3>3, <3>5
    <3>7. Begins(h, n + 1)
      BY <3>2, <3>4, <3>5, <3>6
    <3> QED BY <3>7
  <2> HIDE DEF G
  <2>3. G \in SUBSET Nat
    BY DEF G
  <2> QED BY <2>1, <2>2, <2>3, SetInduction
<1> DEFINE F == [n \in Nat |-> CHOOSE h : Begins(h, n)]
<1>2. ASSUME NEW n \in Nat PROVE Begins(F[n], n)
  <2>1. \E h : Begins(h, n)
    BY <1>1
  <2> HIDE DEF Begins
  <2> QED BY <2>1
<1> HIDE DEF F
<1>3. ASSUME NEW n \in Nat PROVE \A k \in 0 .. n : F[n + 1][k] = F[n][k]
  <2> DEFINE H == {k \in Nat : k <= n => F[n + 1][k] = F[n][k]}
  <2>1. 0 \in H
    BY <1>2
  <2>2. ASSUME NEW k \in H PROVE k + 1 \in H
    <3>1. CASE k + 1 <= n
      <4>1. k <= n /\ k \in 0 .. n - 1 /\ k \in 0 .. n + 1 - 1
        BY <3>1
      <4>2. F[n + 1][k] = F[n][k]
        BY <4>1
      <4>3. F[n + 1][k + 1] = step[<<k, F[n + 1][k]>>]
        BY <4>1, <1>2
      <4>4. F[n][k + 1] = step[<<k, F[n][k]>>]
        BY <4>1, <1>2
      <4> QED BY <4>2, <4>3, <4>4
    <3> QED BY <3>1
  <2> HIDE DEF H
  <2>3. H \in SUBSET Nat
    BY DEF H
  <2>4. H = Nat
    BY <2>1, <2>2, <2>3, SetInduction
  <2> QED BY <2>4 DEF H
<1> DEFINE f == [n \in Nat |-> F[n][n]]
<1>4. f \in [Nat -> S]
  BY <1>2
<1>5. f[0] = first
  BY <1>2
<1>6. ASSUME NEW n \in Nat PROVE f[n + 1] = step[<<n, f[n]>>]
  <2>1. f[n + 1] = step[<<n, F[n + 1][n]>>]
    BY <1>2
  <2>2. F[n + 1][n] = F[n][n]
    BY <1>3
  <2> QED BY <2>1, <2>2
<1>7. Iterates(f, S, first, step)
  BY <1>4, <1>5, <1>6 DEF Iterates
<1> QED BY <1>7

-----------------------------------------------------------------------------
(* Products.                                                                 *)
LEMMA TimesMonotonic ==
  ASSUME NEW a \in Int, NEW b \in Int, NEW c \in Nat, a <= b
  PROVE  a * c <= b * c /\ a * c \in Int /\ b * c \in Int
OBVIOUS

LEMMA TimesSucc ==
  ASSUME NEW a \in Int, NEW c \in Int
  PROVE  (a + 1) * c = a * c + c /\ (a - 1) * c = a * c - c
OBVIOUS

LEMMA TimesAdd ==
  ASSUME NEW a \in Int, NEW b \in Int, NEW c \in Int
  PROVE  (a + b) * c = a * c + b * c
OBVIOUS

(* Quotient and remainder.                                                   *)
LEMMA Division ==
  ASSUME NEW c \in Nat \ {0}, NEW n \in Int
  PROVE  /\ n % c \in 0 .. c - 1 /\ n \div c \in Int
         /\ n = (n \div c) * c + (n % c)
OBVIOUS

(* There is one quotient and one remainder.                                  *)
LEMMA DivisionUnique ==
  ASSUME NEW c \in Nat \ {0}, NEW a \in Int, NEW b \in Int,
         NEW r \in 0 .. c - 1, NEW s \in 0 .. c - 1, a * c + r = b * c + s
  PROVE  a = b /\ r = s
<1>1. CASE a < b
  <2>1. (a + 1) * c <= b * c
    BY <1>1, TimesMonotonic
  <2>2. (a + 1) * c = a * c + c
    BY TimesSucc
  <2> QED BY <2>1, <2>2
<1>2. CASE b < a
  <2>1. (b + 1) * c <= a * c
    BY <1>2, TimesMonotonic
  <2>2. (b + 1) * c = b * c + c
    BY TimesSucc
  <2> QED BY <2>1, <2>2
<1>3. CASE a = b
  <2>1. a * c = b * c /\ a * c \in Int
    BY <1>3
  <2> QED BY <1>3, <2>1
<1> QED BY <1>1, <1>2, <1>3

(* n is k times c, and r more.                                               *)
Splits(n, c, k, r) == k \in Int /\ r \in 0 .. c - 1 /\ n = k * c + r

LEMMA SplitsOnce ==
  ASSUME NEW c \in Nat \ {0}, NEW n, NEW k, NEW r, NEW l, NEW s,
         Splits(n, c, k, r), Splits(n, c, l, s)
  PROVE  k = l /\ r = s
<1>1. k \in Int /\ l \in Int /\ r \in 0 .. c - 1 /\ s \in 0 .. c - 1
  BY DEF Splits
<1>2. k * c + r = l * c + s
  BY DEF Splits
<1> QED BY <1>1, <1>2, DivisionUnique

(* What is missing to the next multiple.                                     *)
LEMMA DivisionOfNegative ==
  ASSUME NEW c \in Nat \ {0}, NEW n \in Nat
  PROVE  /\ (-n) % c \in Nat
         /\ (-n) % c = IF n % c # 0 THEN c - (n % c) ELSE 0
         /\ \E q \in Nat : n + ((-n) % c) = q * c
<1>1. PICK k, r, m, t : k = n \div c /\ r = n % c /\ m = (-n) \div c /\ t = (-n) % c
  OBVIOUS
<1>2. r \in 0 .. c - 1 /\ k \in Int /\ n = k * c + r
  BY <1>1, Division
<1>3. t \in 0 .. c - 1 /\ m \in Int /\ -n = m * c + t
  BY <1>1, Division, -n \in Int
<1>4. (-m) * c = -(m * c) /\ m * c \in Int /\ (-m) * c \in Int
  BY <1>3
<1>5. k >= 0 /\ -m >= 0
  <2>1. CASE k < 0
    <3>1. k * c <= (-1) * c
      BY <1>2, <2>1, TimesMonotonic
    <3> QED BY <1>2, <3>1
  <2>2. CASE m > 0
    <3>1. 1 * c <= m * c
      BY <1>3, <2>2, TimesMonotonic
    <3> QED BY <1>3, <3>1
  <2> QED BY <1>2, <1>3, <2>1, <2>2
<1>6. r = 0 => t = 0
  <2>1. SUFFICES ASSUME r = 0 PROVE t = 0
    OBVIOUS
  <2>2. (-k) * c + 0 = m * c + t
    BY <1>2, <1>3, <2>1
  <2> QED BY <1>2, <1>3, <2>2, DivisionUnique
<1>7. r # 0 => t = c - r
  <2>1. SUFFICES ASSUME r # 0 PROVE t = c - r
    OBVIOUS
  <2>2. (-k - 1) * c = -(k * c) - c /\ k * c \in Int
    BY <1>2
  <2>3. (-k - 1) * c + (c - r) = m * c + t
    BY <1>2, <1>3, <1>4, <2>2
  <2>4. c - r \in 0 .. c - 1
    BY <1>2, <2>1
  <2>5. -k - 1 \in Int
    BY <1>2
  <2>6. PICK a, q : a = -k - 1 /\ q = c - r
    OBVIOUS
  <2>7. a * c + q = m * c + t /\ a \in Int /\ q \in 0 .. c - 1
    BY <2>3, <2>4, <2>5, <2>6
  <2>8. q = t
    BY <1>3, <2>7, DivisionUnique
  <2> QED BY <2>6, <2>8
<1>8. n + t = (-m) * c
  BY <1>3, <1>4
<1>9. PICK q : q = -m
  OBVIOUS
<1>10. q \in Nat /\ n + t = q * c
  BY <1>3, <1>5, <1>8, <1>9
<1>11. t \in Nat /\ t = IF r # 0 THEN c - r ELSE 0
  BY <1>2, <1>3, <1>6, <1>7
<1>12. \E p \in Nat : n + t = p * c
  BY <1>10
<1> QED BY <1>1, <1>11, <1>12, Zenon

-----------------------------------------------------------------------------
(* f is known below limit, and from there on by its value at a quotient.     *)
Divides(f, S, base, limit, first, step) ==
  /\ f \in [Nat -> S]
  /\ \A n \in Nat : f[n] = IF n < limit THEN first[n] ELSE step[<<n, f[n \div base]>>]

(* Such a function exists.                                                   *)
LEMMA RecursionByQuotient ==
  ASSUME NEW S, NEW base \in Nat \ {0, 1}, NEW limit \in Nat \ {0},
         NEW first \in [Nat -> S], NEW step \in [Nat \X S -> S]
  PROVE  \E f : Divides(f, S, base, limit, first, step)
<1> DEFINE Once(f, n) == IF n < limit THEN first[n] ELSE step[<<n, f[n \div base]>>]
           Layer(f) == [n \in Nat |-> Once(f, n)]
           layer == [q \in Nat \X [Nat -> S] |-> Layer(q[2])]
<1>1. ASSUME NEW n \in Nat PROVE n \div base \in Nat /\ (n # 0 => n \div base < n)
  <2>1. PICK q, r : q = n \div base /\ r = n % base
    OBVIOUS
  <2>2. r \in 0 .. base - 1 /\ q \in Int /\ n = q * base + r
    BY <2>1, Division
  <2>3. q >= 0
    <3>1. CASE q < 0
      <4>1. q * base <= (-1) * base
        BY <2>2, <3>1, TimesMonotonic
      <4> QED BY <2>2, <4>1
    <3> QED BY <2>2, <3>1
  <2>4. n # 0 => q < n
    <3>1. CASE q = 0
      BY <3>1
    <3>2. CASE q > 0
      <4>1. 2 * q <= base * q
        BY <2>2, <3>2, TimesMonotonic
      <4>2. base * q = q * base /\ q * base \in Int
        BY <2>2
      <4> QED BY <2>2, <3>2, <4>1, <4>2
    <3> QED BY <2>2, <2>3, <3>1, <3>2
  <2> QED BY <2>1, <2>2, <2>3, <2>4
<1>2. ASSUME NEW f \in [Nat -> S] PROVE Layer(f) \in [Nat -> S]
  BY <1>1
<1>3. layer \in [Nat \X [Nat -> S] -> [Nat -> S]]
  BY <1>2
<1>4. \A n \in Nat, f \in [Nat -> S] : layer[<<n, f>>] = Layer(f)
  OBVIOUS
<1> HIDE DEF Once, layer, Layer
<1>5. PICK F : Iterates(F, [Nat -> S], first, layer)
  BY <1>3, Recursion
<1>6. /\ F \in [Nat -> [Nat -> S]]
      /\ \A k \in Nat : F[k + 1] = Layer(F[k])
  BY <1>4, <1>5 DEF Iterates
<1>7. ASSUME NEW k \in Nat, NEW n \in Nat PROVE F[k + 1][n] = Once(F[k], n)
  <2>1. F[k + 1] = Layer(F[k])
    BY <1>6
  <2>2. Layer(F[k])[n] = Once(F[k], n)
    BY DEF Layer
  <2> QED BY <2>1, <2>2
<1> DEFINE G == {n \in Nat : \A k \in Nat : n < k => F[k + 1][n] = F[n + 1][n]}
<1>8. G = Nat
  <2>1. SUFFICES ASSUME Nat \ G # {} PROVE FALSE
    OBVIOUS
  <2> HIDE DEF G
  <2>2. Nat \ G \in SUBSET Nat
    OBVIOUS
  <2>3. PICK n \in Nat \ G : \A y \in Nat \ G : n <= y
    BY <2>1, <2>2, LeastNat
  <2>4. PICK k \in Nat : n < k /\ F[k + 1][n] # F[n + 1][n]
    BY <2>3 DEF G
  <2>5. F[k + 1][n] = Once(F[k], n) /\ F[n + 1][n] = Once(F[n], n)
    BY <1>7
  <2>6. CASE n < limit
    BY <2>4, <2>5, <2>6 DEF Once
  <2>7. CASE ~ (n < limit)
    <3>1. PICK m : m = n \div base
      OBVIOUS
    <3>2. m \in Nat /\ m < n
      BY <1>1, <2>7, <3>1
    <3>3. m \in G
      BY <2>3, <3>2
    <3>4. \A i \in Nat : m < i => F[i + 1][m] = F[m + 1][m]
      BY <3>3 DEF G
    <3>5. \A i \in Nat : m < i => F[i][m] = F[m + 1][m]
      <4>1. SUFFICES ASSUME NEW i \in Nat, m < i PROVE F[i][m] = F[m + 1][m]
        OBVIOUS
      <4>2. CASE i = m + 1
        BY <4>2
      <4>3. CASE i # m + 1
        <5>1. i - 1 \in Nat /\ m < i - 1 /\ i - 1 + 1 = i
          BY <3>2, <4>1, <4>3
        <5>2. F[i - 1 + 1][m] = F[m + 1][m]
          BY <3>4, <5>1
        <5> QED BY <5>1, <5>2
      <4> QED BY <4>2, <4>3
    <3>6. F[k][m] = F[n][m]
      BY <2>4, <3>2, <3>5
    <3>7. Once(F[k], n) = Once(F[n], n)
      BY <3>1, <3>6, Zenon DEF Once
    <3> QED BY <2>4, <2>5, <3>7
  <2> QED BY <2>6, <2>7
<1> HIDE DEF G
<1> DEFINE f == [n \in Nat |-> F[n + 1][n]]
<1>9. f \in [Nat -> S]
  BY <1>6
<1>10. ASSUME NEW n \in Nat PROVE f[n] = Once(f, n)
  <2>1. F[n + 1][n] = Once(F[n], n)
    BY <1>7
  <2>2. PICK m : m = n \div base
    OBVIOUS
  <2>3. CASE n < limit
    BY <2>1, <2>3 DEF Once
  <2>4. CASE ~ (n < limit)
    <3>1. m \in Nat /\ m < n
      BY <1>1, <2>2, <2>4
    <3>2. m \in G /\ n - 1 \in Nat /\ n - 1 + 1 = n
      BY <1>8, <3>1
    <3>7. \A k \in Nat : m < k => F[k + 1][m] = F[m + 1][m]
      BY <3>2 DEF G
    <3>3. F[n][m] = F[m + 1][m]
      <4>1. CASE m = n - 1
        BY <3>2, <4>1
      <4>2. CASE m # n - 1
        <5>1. F[n - 1 + 1][m] = F[m + 1][m]
          BY <3>7, <3>1, <3>2, <4>2
        <5> QED BY <3>2, <5>1
      <4> QED BY <4>1, <4>2
    <3>4. f[m] = F[n][m]
      BY <3>1, <3>3
    <3> HIDE DEF f
    <3>5. Once(f, n) = Once(F[n], n)
      BY <2>2, <3>4, Zenon DEF Once
    <3>6. f[n] = F[n + 1][n]
      BY DEF f
    <3> QED BY <2>1, <3>5, <3>6
  <2> QED BY <2>3, <2>4
<1> HIDE DEF f
<1>11. Divides(f, S, base, limit, first, step)
  BY <1>9, <1>10 DEF Divides, Once
<1> QED BY <1>11
=============================================================================
