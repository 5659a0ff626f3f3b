------------------------ MODULE SchedOSRandomProofs ------------------------
(***************************************************************************)
(* Proofs about SchedOSRandom, for the constants of lib.c and every seed.  *)
(* The large constants are only visible where arithmetic needs them.       *)
(***************************************************************************)
EXTENDS SchedOSRandom, SchedOSNaturals

Proper == 1 .. MODULUS - 1

LEMMA Constants ==
  /\ MODULUS = 2147483647
  /\ MODULUS \div MULTIPLIER = 44488 /\ MODULUS % MULTIPLIER = 3399
  /\ MODULUS \div A256 = 93674 /\ MODULUS % A256 = 7197
  /\ MULTIPLIER = 48271 /\ A256 = 22925
BY SMT DEF MODULUS, MULTIPLIER, A256

LEMMA ModulusInt == MODULUS \in Int /\ MODULUS > 10086 /\ DEFAULT \in Proper
<1>1. MODULUS \in Int /\ MODULUS > 123456789
  BY SMT DEF MODULUS
<1> QED
  BY SMT, <1>1 DEF Proper, DEFAULT

LEMMA ProperInt ==
  ASSUME NEW x
  PROVE  x \in Proper <=> x \in Int /\ 1 <= x /\ x < MODULUS
BY SMT, ModulusInt DEF Proper

(***************************************************************************)
(* Schrage's method is exact: for every proper seed the two products fit   *)
(* in a long, and the result is a proper seed congruent to the product     *)
(* that would not fit.  It is not 0 because MODULUS is prime.              *)
(***************************************************************************)
LEMMA SchrageMultiplier ==
  ASSUME NEW x \in Proper
  PROVE  /\ MULTIPLIER * (x % 44488) <= MODULUS
         /\ 3399 * (x \div 44488) <= MODULUS
         /\ Lehmer(MULTIPLIER, x) \in Proper
         /\ \E k \in Int : MULTIPLIER * x = k * MODULUS + Lehmer(MULTIPLIER, x)
<1> DEFINE q == x \div 44488
           r == x % 44488
           t == 48271 * r - 3399 * q
           y == Lehmer(MULTIPLIER, x)
<1>1. x \in Int /\ 1 <= x /\ x <= 2147483646
  BY SMT, ProperInt, Constants
<1>2. /\ q \in Int /\ r \in Int
      /\ 0 <= r /\ r < 44488
      /\ x = 44488 * q + r
  BY SMT, <1>1
<1>3. 0 <= q /\ q <= 48271
  BY SMT, <1>1, <1>2
<1>4. 48271 * x = q * 2147483647 + t
  BY SMT, <1>2, <1>3
<1>5. t # 0
  BY SMT, <1>1, <1>2, <1>3
<1>6. /\ t \in Int /\ -2147483646 <= t /\ t <= 2147483646
      /\ 48271 * r <= 2147483647 /\ 3399 * q <= 2147483647
  BY SMT, <1>1, <1>2, <1>3
<1>7. y = IF t > 0 THEN t ELSE t + 2147483647
  BY SMT, Constants DEF Lehmer
<1> HIDE DEF q, r, t, y
<1>8. y \in Int /\ 1 <= y /\ y < 2147483647
  BY SMT, <1>5, <1>6, <1>7
<1>9. \E k \in Int : 48271 * x = k * 2147483647 + y
  <2>1. CASE t > 0
    BY SMT, <1>2, <1>4, <1>7, <2>1
  <2>2. CASE ~(t > 0)
    <3>1. 48271 * x = (q - 1) * 2147483647 + y /\ q - 1 \in Int
      BY SMT, <1>2, <1>4, <1>6, <1>7, <2>2
    <3> QED
      BY SMT, <3>1
  <2> QED
    BY <2>1, <2>2
<1> QED
  BY SMT, <1>6, <1>8, <1>9, ProperInt, Constants DEF y, q, r

LEMMA SchrageA256 ==
  ASSUME NEW x \in Proper
  PROVE  /\ A256 * (x % 93674) <= MODULUS
         /\ 7197 * (x \div 93674) <= MODULUS
         /\ Lehmer(A256, x) \in Proper
         /\ \E k \in Int : A256 * x = k * MODULUS + Lehmer(A256, x)
<1> DEFINE q == x \div 93674
           r == x % 93674
           t == 22925 * r - 7197 * q
           y == Lehmer(A256, x)
<1>1. x \in Int /\ 1 <= x /\ x <= 2147483646
  BY SMT, ProperInt, Constants
<1>2. /\ q \in Int /\ r \in Int
      /\ 0 <= r /\ r < 93674
      /\ x = 93674 * q + r
  BY SMT, <1>1
<1>3. 0 <= q /\ q <= 22925
  BY SMT, <1>1, <1>2
<1>4. 22925 * x = q * 2147483647 + t
  BY SMT, <1>2, <1>3
<1>5. t # 0
  BY SMT, <1>1, <1>2, <1>3
<1>6. /\ t \in Int /\ -2147483646 <= t /\ t <= 2147483646
      /\ 22925 * r <= 2147483647 /\ 7197 * q <= 2147483647
  BY SMT, <1>1, <1>2, <1>3
<1>7. y = IF t > 0 THEN t ELSE t + 2147483647
  BY SMT, Constants DEF Lehmer
<1> HIDE DEF q, r, t, y
<1>8. y \in Int /\ 1 <= y /\ y < 2147483647
  BY SMT, <1>5, <1>6, <1>7
<1>9. \E k \in Int : 22925 * x = k * 2147483647 + y
  <2>1. CASE t > 0
    BY SMT, <1>2, <1>4, <1>7, <2>1
  <2>2. CASE ~(t > 0)
    <3>1. 22925 * x = (q - 1) * 2147483647 + y /\ q - 1 \in Int
      BY SMT, <1>2, <1>4, <1>6, <1>7, <2>2
    <3> QED
      BY SMT, <3>1
  <2> QED
    BY <2>1, <2>2
<1> QED
  BY SMT, <1>6, <1>8, <1>9, ProperInt, Constants DEF y, q, r

LEMMA LehmerProper ==
  ASSUME NEW x \in Proper
  PROVE  Lehmer(MULTIPLIER, x) \in Proper /\ Lehmer(A256, x) \in Proper
BY SchrageMultiplier, SchrageA256

LEMMA PlantedProper ==
  ASSUME NEW x \in Int
  PROVE  Planted(x) \in Proper
<1>1. CASE x > 0
  <2> DEFINE y == x % MODULUS
  <2>1. y \in Int /\ 0 <= y /\ y < MODULUS
    BY SMT, Constants
  <2>2. Planted(x) = IF y > 0 THEN y ELSE 10086
    BY SMT, <1>1 DEF Planted
  <2> HIDE DEF y
  <2> QED
    BY SMT, <2>1, <2>2, ProperInt, ModulusInt
<1>2. CASE ~(x > 0)
  BY SMT, <1>2, ProperInt, ModulusInt DEF Planted
<1> QED
  BY <1>1, <1>2

LEMMA StreamsNat ==
  /\ STREAMS \in Nat /\ 2 <= STREAMS /\ STREAMS <= DRAWS
  /\ 0 \in Streams
  /\ \A index \in Int : index % STREAMS \in Streams
<1>1. STREAMS \in Nat /\ 2 <= STREAMS /\ STREAMS <= 256
  BY SMT, RandomAssumption
<1> QED
  BY SMT, <1>1 DEF Streams, DRAWS

-----------------------------------------------------------------------------

(***************************************************************************)
(* Stream 0 is always proper; the others are from the moment they are      *)
(* planted, one after the other, and before that none of them is selected. *)
(***************************************************************************)
IInv ==
  /\ TypeOK
  /\ seed[0] \in Proper
  /\ ~initialized => stream = 0 /\ pc \in {"idle", "draw"}
  /\ pc = "draw" => stream = 0
  /\ pc = "plant" => /\ j \in 1 .. STREAMS
                     /\ \A s \in 0 .. j - 1 : seed[s] \in Proper
  /\ pc # "plant" /\ initialized => \A s \in Streams : seed[s] \in Proper

LEMMA InitIInv == Init => IInv
<1> SUFFICES ASSUME Init PROVE IInv
  OBVIOUS
<1>1. \A x \in Proper : x \in 0 .. MODULUS - 1
  BY SMT, ModulusInt, ProperInt
<1>2. 0 \in 0 .. MODULUS - 1 /\ 0 \in 0 .. DRAWS
  BY SMT, ModulusInt DEF DRAWS
<1>3. seed[0] \in Proper /\ seed \in [Streams -> 0 .. MODULUS - 1]
  BY <1>1, <1>2, StreamsNat, ModulusInt DEF Init
<1> QED
  BY <1>2, <1>3, StreamsNat DEF Init, IInv, TypeOK

(* A proper seed stored in one of the streams. *)
LEMMA StoreProper ==
  ASSUME NEW s \in Streams, NEW y \in Proper, TypeOK, seed[0] \in Proper,
         seed' = [seed EXCEPT ![s] = y]
  PROVE  /\ seed' \in [Streams -> 0 .. MODULUS - 1]
         /\ seed'[s] \in Proper
         /\ seed'[0] \in Proper
         /\ \A r \in Streams : seed[r] \in Proper => seed'[r] \in Proper
<1>1. y \in 0 .. MODULUS - 1
  BY SMT, ModulusInt, ProperInt
<1> QED
  BY <1>1, StreamsNat DEF TypeOK

LEMMA AdvanceIInv ==
  ASSUME IInv, Advance, pc \in {"idle", "draw"}
  PROVE  /\ seed' \in [Streams -> 0 .. MODULUS - 1]
         /\ seed'[0] \in Proper
         /\ initialized => \A s \in Streams : seed'[s] \in Proper
<1>1. stream \in Streams /\ seed[stream] \in Proper
  BY DEF IInv, TypeOK
<1>2. Lehmer(MULTIPLIER, seed[stream]) \in Proper
  BY <1>1, LehmerProper
<1>3. seed' = [seed EXCEPT ![stream] = Lehmer(MULTIPLIER, seed[stream])]
  BY <1>1 DEF Advance, IInv, TypeOK
<1> QED
  BY <1>1, <1>2, <1>3, StoreProper DEF IInv

LEMMA PlantIInv ==
  ASSUME IInv, NEW x \in Int, NEW back \in {"idle", "replant", "verdict"},
         Plant(x, back), stream' \in Streams, ok' \in BOOLEAN
  PROVE  IInv'
<1>1. /\ seed' \in [Streams -> 0 .. MODULUS - 1]
      /\ seed'[0] \in Proper
  BY PlantedProper, StreamsNat, StoreProper DEF Plant, IInv
<1>2. 1 \in 1 .. STREAMS /\ 1 \in 0 .. DRAWS /\ 0 .. 1 - 1 = {0}
  BY SMT, StreamsNat DEF DRAWS
<1> QED
  BY <1>1, <1>2 DEF IInv, TypeOK, Plant

LEMMA SelectIInv ==
  ASSUME IInv, NEW index \in Int, NEW back \in {"idle", "replant"},
         Select(index, back), pc \in {"idle", "draw"}, ok' \in BOOLEAN,
         back = "replant" => index % STREAMS # 0
  PROVE  IInv'
<1>1. stream' \in Streams
  BY StreamsNat DEF Select
<1>2. CASE Plant(DEFAULT, back)
  <2>1. DEFAULT \in Int
    BY ModulusInt, ProperInt
  <2> QED
    BY <1>1, <1>2, <2>1, PlantIInv
<1>3. CASE /\ initialized \/ stream' = 0
           /\ pc' = back
           /\ UNCHANGED <<seed, initialized, ret, j>>
  <2>1. stream' = index % STREAMS
    BY DEF Select
  <2> QED
    BY <1>1, <1>3, <2>1 DEF IInv, TypeOK
<1> QED
  BY <1>2, <1>3 DEF Select

LEMMA NextIInv == IInv /\ [Next]_vars => IInv'
<1> SUFFICES ASSUME IInv, [Next]_vars PROVE IInv'
  OBVIOUS
<1>1. CASE Random
  BY <1>1, AdvanceIInv DEF Random, IInv, TypeOK
<1>2. ASSUME NEW x \in Seeds, PutSeed(x) PROVE IInv'
  <2>1. Planted(x) \in Proper /\ stream \in Streams
    BY RandomAssumption, PlantedProper DEF IInv, TypeOK
  <2>2. seed' = [seed EXCEPT ![stream] = Planted(x)]
    BY <1>2 DEF PutSeed
  <2>3. /\ seed' \in [Streams -> 0 .. MODULUS - 1]
        /\ seed'[0] \in Proper
        /\ initialized => \A s \in Streams : seed'[s] \in Proper
    BY <1>2, <2>1, <2>2, StoreProper DEF IInv, PutSeed
  <2> QED
    BY <1>2, <2>3 DEF PutSeed, IInv, TypeOK
<1>3. ASSUME NEW x \in Seeds, PlantSeeds(x) PROVE IInv'
  BY <1>3, RandomAssumption, PlantIInv DEF PlantSeeds, IInv, TypeOK
<1>4. CASE PlantNext
  <2>0. j \in 1 .. STREAMS /\ j < STREAMS
    BY <1>4 DEF PlantNext, IInv
  <2>1. /\ j \in Streams /\ j - 1 \in 0 .. j - 1
        /\ j + 1 \in 1 .. STREAMS /\ j + 1 \in 0 .. DRAWS
        /\ \A s \in 0 .. (j + 1) - 1 : s = j \/ s \in 0 .. j - 1
        /\ \A s \in 0 .. j - 1 : s \in Streams
    <3>1. j \in Int /\ 1 <= j /\ j < STREAMS
      BY <2>0, StreamsNat
    <3>2. j + 1 \in 0 .. DRAWS
      BY SMT, <3>1, StreamsNat DEF DRAWS
    <3> QED
      BY SMT, <3>1, <3>2, StreamsNat DEF Streams
  <2>2. Lehmer(A256, seed[j - 1]) \in Proper
    BY <1>4, <2>1, LehmerProper DEF PlantNext, IInv
  <2>3. /\ seed' \in [Streams -> 0 .. MODULUS - 1]
        /\ seed'[0] \in Proper
        /\ seed'[j] \in Proper
        /\ \A r \in Streams : seed[r] \in Proper => seed'[r] \in Proper
    BY <1>4, <2>1, <2>2, StoreProper DEF PlantNext, IInv
  <2>4. \A s \in 0 .. (j + 1) - 1 : seed'[s] \in Proper
    BY <1>4, <2>1, <2>3 DEF PlantNext, IInv
  <2> QED
    BY <1>4, <2>1, <2>3, <2>4 DEF PlantNext, IInv, TypeOK
<1>5. CASE PlantReturn
  <2>1. 0 .. j - 1 = Streams
    BY <1>5 DEF PlantReturn, Streams
  <2>2. initialized /\ ret \in {"idle", "replant", "verdict"}
    BY <1>5 DEF PlantReturn, IInv, TypeOK
  <2> QED
    BY <1>5, <2>1, <2>2 DEF PlantReturn, IInv, TypeOK
<1>6. ASSUME NEW index \in Indices, SelectStream(index) PROVE IInv'
  BY <1>6, RandomAssumption, SelectIInv DEF SelectStream, IInv, TypeOK
<1>7. CASE TestRandom
  <2>1. Planted(1) \in Proper /\ 0 \in 0 .. DRAWS
    BY SMT, PlantedProper DEF DRAWS
  <2>2. seed' = [seed EXCEPT ![0] = Planted(1)]
    BY <1>7 DEF TestRandom
  <2>3. /\ seed' \in [Streams -> 0 .. MODULUS - 1]
        /\ seed'[0] \in Proper
        /\ initialized => \A s \in Streams : seed'[s] \in Proper
    BY <1>7, <2>1, <2>2, StoreProper, StreamsNat DEF IInv, TestRandom
  <2> QED
    BY <1>7, <2>1, <2>3, StreamsNat DEF TestRandom, IInv, TypeOK
<1>8. CASE TestDraw
  <2>1. j + 1 \in 0 .. DRAWS
    <3>1. j \in 0 .. DRAWS /\ j < DRAWS
      BY SMT, <1>8 DEF TestDraw, IInv, TypeOK
    <3> QED BY SMT, <3>1 DEF DRAWS
  <2> QED
    BY <1>8, <2>1, AdvanceIInv DEF TestDraw, IInv, TypeOK
<1>9. CASE TestCheck
  <2>1. 1 % STREAMS # 0
    BY SMT, RandomAssumption
  <2> QED
    BY <1>9, <2>1, SelectIInv DEF TestCheck
<1>10. CASE TestReplant
  BY <1>10, PlantIInv DEF TestReplant, IInv, TypeOK
<1>11. CASE TestVerdict
  BY <1>11 DEF TestVerdict, IInv, TypeOK
<1>12. CASE UNCHANGED vars
  BY <1>12 DEF vars, IInv, TypeOK
<1> QED
  BY <1>1, <1>2, <1>3, <1>4, <1>5, <1>6, <1>7, <1>8, <1>9, <1>10, <1>11, <1>12 DEF Next

(* The inductive invariant of the generator, for any number of streams.    *)
THEOREM Invariance == Spec => []IInv
<1> QED
  BY InitIInv, NextIInv, PTL DEF Spec

(* Type correctness: no seed ever leaves 0 .. MODULUS - 1. *)
THEOREM TypeCorrect == Spec => []TypeOK
<1>1. IInv => TypeOK
  BY DEF IInv
<1> QED
  BY Invariance, <1>1, PTL

(* No sequence of calls selects a stream in an improper state.             *)
THEOREM DrawsInUnitInterval == Spec => []UnitInterval
<1>1. IInv => UnitInterval
  BY DEF IInv, UnitInterval, Proper, TypeOK
<1> QED
  BY Invariance, <1>1, PTL

(***************************************************************************)
(* Every draw is a step of Lehmer's generator over the integers, although  *)
(* it is computed in 32 bits: what IsLehmer says, for all 2^31 - 2 seeds.  *)
(***************************************************************************)
LehmerStep ==
  Random \/ TestDraw =>
    /\ seed'[stream] \in Proper
    /\ \E k \in Int : MULTIPLIER * seed[stream] = k * MODULUS + seed'[stream]

THEOREM DrawsAreLehmerSteps == Spec => [][LehmerStep]_vars
<1>1. IInv /\ [Next]_vars => [LehmerStep]_vars
  <2> SUFFICES ASSUME IInv, Random \/ TestDraw PROVE LehmerStep
    BY DEF LehmerStep
  <2>1. Advance /\ stream \in Streams /\ seed \in [Streams -> 0 .. MODULUS - 1]
    BY DEF Random, TestDraw, IInv, TypeOK
  <2>2. seed[stream] \in Proper
    BY DEF IInv, TypeOK, Random, TestDraw
  <2>3. seed'[stream] = Lehmer(MULTIPLIER, seed[stream])
    BY <2>1 DEF Advance
  <2> QED
    BY <2>2, <2>3, SchrageMultiplier DEF LehmerStep
<1> QED
  BY <1>1, Invariance, PTL DEF Spec

-----------------------------------------------------------------------------
(* Arithmetic modulo MODULUS: r is what remains of v.                        *)
Residues == 0 .. MODULUS - 1

IsResidue(r, v) == r \in Residues /\ \E k \in Int : v = k * MODULUS + r

LEMMA ResidueInt == \A r \in Residues : r \in Int /\ r \in Nat /\ 0 <= r /\ r < MODULUS
BY ModulusInt DEF Residues

(* Every number has one residue.                                             *)
LEMMA ResidueUnique ==
  ASSUME NEW v \in Int, NEW a, NEW b, IsResidue(a, v), IsResidue(b, v)
  PROVE  a = b
<1>1. MODULUS \in Nat \ {0}
  BY ModulusInt
<1>2. PICK k : Splits(v, MODULUS, k, a)
  BY DEF IsResidue, Residues, Splits
<1>3. PICK l : Splits(v, MODULUS, l, b)
  BY DEF IsResidue, Residues, Splits
<1> QED BY <1>1, <1>2, <1>3, SplitsOnce

LEMMA ResidueOfItself ==
  ASSUME NEW a \in Residues
  PROVE  IsResidue(a, a)
<1>1. a = 0 * MODULUS + a
  BY ResidueInt, ModulusInt
<1> QED BY <1>1 DEF IsResidue

(* Numbers that differ by a multiple have the same residue.                  *)
LEMMA ResidueShift ==
  ASSUME NEW u \in Int, NEW k \in Int, NEW r, IsResidue(r, u)
  PROVE  IsResidue(r, u + k * MODULUS)
<1>1. PICK l \in Int : u = l * MODULUS + r
  BY DEF IsResidue
<1>2. (l + k) * MODULUS = l * MODULUS + k * MODULUS
  BY TimesAdd, ModulusInt
<1>3. l * MODULUS \in Int /\ k * MODULUS \in Int /\ r \in Int
  BY ModulusInt, ResidueInt DEF IsResidue
<1>4. u + k * MODULUS = (l + k) * MODULUS + r
  BY <1>1, <1>2, <1>3
<1> QED BY <1>4, l + k \in Int DEF IsResidue

LEMMA ResidueSum ==
  ASSUME NEW u \in Int, NEW v \in Int, NEW a, NEW b, IsResidue(a, u), IsResidue(b, v)
  PROVE  IsResidue(Plus(a, b), u + v)
<1>1. a \in Int /\ 0 <= a /\ a < MODULUS /\ b \in Int /\ 0 <= b /\ b < MODULUS
  BY ResidueInt DEF IsResidue
<1>2. PICK k \in Int : u = k * MODULUS + a
  BY DEF IsResidue
<1>3. PICK l \in Int : v = l * MODULUS + b
  BY DEF IsResidue
<1>4. /\ (k + l) * MODULUS = k * MODULUS + l * MODULUS
      /\ (k + l + 1) * MODULUS = (k + l) * MODULUS + MODULUS
  BY TimesAdd, TimesSucc, ModulusInt, k + l \in Int
<1>5. k * MODULUS \in Int /\ l * MODULUS \in Int /\ MODULUS \in Int
  BY ModulusInt
<1>6. CASE a >= MODULUS - b
  <2>1. Plus(a, b) = a - (MODULUS - b)
    BY <1>6 DEF Plus
  <2>2. Plus(a, b) \in Residues
    BY <1>1, <1>5, <1>6, <2>1 DEF Residues
  <2>3. u + v = (k + l + 1) * MODULUS + Plus(a, b)
    BY <1>1, <1>2, <1>3, <1>4, <1>5, <2>1
  <2> QED BY <2>2, <2>3, k + l + 1 \in Int DEF IsResidue
<1>7. CASE ~ (a >= MODULUS - b)
  <2>1. Plus(a, b) = a + b
    BY <1>7 DEF Plus
  <2>2. Plus(a, b) \in Residues
    BY <1>1, <1>5, <1>7, <2>1 DEF Residues
  <2>3. u + v = (k + l) * MODULUS + Plus(a, b)
    BY <1>1, <1>2, <1>3, <1>4, <1>5, <2>1
  <2> QED BY <2>2, <2>3, k + l \in Int DEF IsResidue
<1> QED BY <1>6, <1>7

(* The residue of a product is that of the product of the residues.          *)
LEMMA ResidueProduct ==
  ASSUME NEW u \in Int, NEW w \in Int, NEW a, NEW r, IsResidue(a, u), IsResidue(r, a * w)
  PROVE  IsResidue(r, u * w)
<1>1. a \in Int
  BY ResidueInt DEF IsResidue
<1>2. PICK k \in Int : u = k * MODULUS + a
  BY DEF IsResidue
<1>3. k * MODULUS \in Int /\ a * w \in Int /\ k * w \in Int
  BY <1>1, ModulusInt
<1>4. u * w = (k * MODULUS) * w + a * w
  BY <1>1, <1>2, <1>3, TimesAdd
<1>5. (k * MODULUS) * w = (k * w) * MODULUS
  BY ModulusInt
<1>6. IsResidue(r, a * w + (k * w) * MODULUS)
  BY <1>3, ResidueShift
<1>7. u * w = a * w + (k * w) * MODULUS
  BY <1>3, <1>4, <1>5, ModulusInt
<1> QED BY <1>6, <1>7

-----------------------------------------------------------------------------
(* Half of a number.                                                         *)
LEMMA Halves ==
  ASSUME NEW n \in Nat, n # 0
  PROVE  /\ n \div 2 \in Nat /\ n \div 2 < n
         /\ n % 2 = 0 => n = 2 * (n \div 2)
         /\ n % 2 # 0 => n = 2 * (n \div 2) + 1
OBVIOUS

(* The reference arithmetic computes products modulo MODULUS.                *)
LEMMA TimesIsProduct ==
  ASSUME NEW x \in Nat, NEW y \in Residues
  PROVE  IsResidue(Times(x, y), x * y)
<1> DEFINE Doubled(n, half) == LET even == Plus(half, half)
                               IN  IF n % 2 = 0 THEN even ELSE Plus(even, y)
           first == [n \in Nat |-> 0]
           step == [q \in Nat \X Residues |-> Doubled(q[1], q[2])]
           times == CHOOSE t : t = [n \in Nat |-> IF n = 0 THEN 0 ELSE Doubled(n, t[n \div 2])]
<1>1. 0 \in Residues /\ y \in Int
  BY ModulusInt, ResidueInt DEF Residues
<1>2. ASSUME NEW a \in Residues, NEW b \in Residues PROVE Plus(a, b) \in Residues
  BY ResidueOfItself, ResidueSum, ResidueInt DEF IsResidue
<1>3. ASSUME NEW n \in Nat, NEW half \in Residues PROVE Doubled(n, half) \in Residues
  BY <1>2
<1>4. first \in [Nat -> Residues]
  BY <1>1
<1>5. step \in [Nat \X Residues -> Residues]
  BY <1>3
<1>6. \A n \in Nat, half \in Residues : step[<<n, half>>] = Doubled(n, half)
  OBVIOUS
<1>7. Times(x, y) = times[x]
  BY DEF Times
<1> HIDE DEF step, Doubled
<1>8. 2 \in Nat \ {0, 1} /\ 1 \in Nat \ {0}
  OBVIOUS
<1>9. PICK g : Divides(g, Residues, 2, 1, first, step)
  BY <1>4, <1>5, <1>8, RecursionByQuotient
<1>10. ASSUME NEW n \in Nat
       PROVE  /\ g[n] \in Residues
              /\ g[n] = IF n = 0 THEN 0 ELSE Doubled(n, g[n \div 2])
  <2>1. g \in [Nat -> Residues] /\ g[n] = IF n < 1 THEN first[n] ELSE step[<<n, g[n \div 2]>>]
    BY <1>9 DEF Divides
  <2>2. CASE n = 0
    BY <2>1, <2>2
  <2>3. CASE n # 0
    <3>1. g[n \div 2] \in Residues
      BY <2>1, <2>3, Halves
    <3>2. step[<<n, g[n \div 2]>>] = Doubled(n, g[n \div 2])
      BY <1>6, <3>1
    <3>3. ~ (n < 1)
      BY <2>3
    <3> QED BY <2>1, <2>3, <3>2, <3>3
  <2> QED BY <2>2, <2>3
<1>11. g = [n \in Nat |-> g[n]]
  BY <1>9 DEF Divides
<1>12. g = [n \in Nat |-> IF n = 0 THEN 0 ELSE Doubled(n, g[n \div 2])]
  BY <1>10, <1>11
<1>13. times = [n \in Nat |-> IF n = 0 THEN 0 ELSE Doubled(n, times[n \div 2])]
  BY <1>12
<1> HIDE DEF times
<1>14. \A n \in Nat : times[n] = IF n = 0 THEN 0 ELSE Doubled(n, times[n \div 2])
  BY <1>13
<1> DEFINE G == {n \in Nat : IsResidue(times[n], n * y)}
<1>15. G = Nat
  <2>1. SUFFICES ASSUME Nat \ G # {} PROVE FALSE
    OBVIOUS
  <2>2. Nat \ G \in SUBSET Nat
    OBVIOUS
  <2> HIDE DEF G
  <2>3. PICK n \in Nat \ G : \A m \in Nat \ G : n <= m
    BY <2>1, <2>2, LeastNat
  <2>4. n # 0
    <3>1. SUFFICES ASSUME n = 0 PROVE FALSE
      OBVIOUS
    <3>2. times[0] = 0 /\ 0 * y = 0
      BY <1>1, <1>14
    <3>3. IsResidue(times[0], 0 * y)
      BY <1>1, <3>2, ResidueOfItself
    <3> QED BY <2>3, <3>1, <3>3 DEF G
  <2>5. PICK h : h = n \div 2
    OBVIOUS
  <2>6. h \in Nat /\ h < n /\ (n % 2 = 0 => n = 2 * h) /\ (n % 2 # 0 => n = 2 * h + 1)
    BY <2>3, <2>4, <2>5, Halves
  <2>7. h \in G
    BY <2>3, <2>6
  <2>8. IsResidue(times[h], h * y) /\ h * y \in Int
    BY <1>1, <2>7 DEF G
  <2>9. IsResidue(Plus(times[h], times[h]), h * y + h * y) /\ h * y + h * y \in Int
    BY <2>8, ResidueSum
  <2>10. (2 * h) * y = h * y + h * y /\ (2 * h + 1) * y = (2 * h) * y + y
    <3>1. h + h = 2 * h /\ 2 * h \in Int
      BY <2>6
    <3>2. (h + h) * y = h * y + h * y
      BY <1>1, <2>6, TimesAdd
    <3> QED BY <1>1, <3>1, <3>2, TimesSucc
  <2>11. times[n] = Doubled(n, times[h])
    BY <1>14, <2>3, <2>4, <2>5
  <2>12. CASE n % 2 = 0
    <3>1. times[n] = Plus(times[h], times[h])
      BY <2>11, <2>12 DEF Doubled
    <3>2. n * y = h * y + h * y
      BY <2>6, <2>10, <2>12
    <3>3. IsResidue(times[n], n * y)
      BY <2>9, <3>1, <3>2
    <3> QED BY <2>3, <3>3 DEF G
  <2>13. CASE n % 2 # 0
    <3>1. times[n] = Plus(Plus(times[h], times[h]), y)
      BY <2>11, <2>13 DEF Doubled
    <3>2. n * y = (h * y + h * y) + y
      BY <2>6, <2>10, <2>13
    <3>3. IsResidue(y, y)
      BY ResidueOfItself
    <3>4. IsResidue(times[n], n * y)
      BY <1>1, <2>9, <3>1, <3>2, <3>3, ResidueSum
    <3> QED BY <2>3, <3>4 DEF G
  <2> QED BY <2>12, <2>13
<1>16. x \in G
  BY <1>15
<1> QED BY <1>7, <1>16 DEF G
(* Power by repeated squaring, one level of it.                              *)
LEMMA PowerEquation ==
  ASSUME NEW x \in Residues, NEW n \in Nat
  PROVE  /\ Power(x, n) \in Residues
         /\ Power(x, 0) = 1
         /\ n # 0 => LET half == Power(x, n \div 2)
                         even == Times(half, half)
                     IN  Power(x, n) = IF n % 2 = 0 THEN even ELSE Times(even, x)
<1> DEFINE Squared(m, half) == LET even == Times(half, half)
                               IN  IF m % 2 = 0 THEN even ELSE Times(even, x)
           first == [m \in Nat |-> 1]
           step == [q \in Nat \X Residues |-> Squared(q[1], q[2])]
           power == CHOOSE t : t = [m \in Nat |-> IF m = 0 THEN 1 ELSE Squared(m, t[m \div 2])]
<1>1. 1 \in Residues
  BY ModulusInt DEF Residues
<1>2. ASSUME NEW a \in Residues, NEW b \in Residues PROVE Times(a, b) \in Residues
  BY TimesIsProduct, ResidueInt DEF IsResidue
<1>3. ASSUME NEW m \in Nat, NEW half \in Residues PROVE Squared(m, half) \in Residues
  BY <1>2
<1>4. first \in [Nat -> Residues]
  BY <1>1
<1>5. step \in [Nat \X Residues -> Residues]
  BY <1>3
<1>6. \A m \in Nat, half \in Residues : step[<<m, half>>] = Squared(m, half)
  OBVIOUS
<1>7. \A m : Power(x, m) = power[m]
  BY DEF Power
<1> HIDE DEF step
<1>8. 2 \in Nat \ {0, 1} /\ 1 \in Nat \ {0}
  OBVIOUS
<1>9. PICK g : Divides(g, Residues, 2, 1, first, step)
  BY <1>4, <1>5, <1>8, RecursionByQuotient
<1> HIDE DEF Squared
<1>10. ASSUME NEW m \in Nat
       PROVE  /\ g[m] \in Residues
              /\ g[m] = IF m = 0 THEN 1 ELSE Squared(m, g[m \div 2])
  <2>1. g \in [Nat -> Residues] /\ g[m] = IF m < 1 THEN first[m] ELSE step[<<m, g[m \div 2]>>]
    BY <1>9 DEF Divides
  <2>2. CASE m = 0
    BY <2>1, <2>2
  <2>3. CASE m # 0
    <3>1. g[m \div 2] \in Residues
      BY <2>1, <2>3, Halves
    <3>2. step[<<m, g[m \div 2]>>] = Squared(m, g[m \div 2])
      BY <1>6, <3>1
    <3>3. ~ (m < 1)
      BY <2>3
    <3> QED BY <2>1, <2>3, <3>2, <3>3
  <2> QED BY <2>2, <2>3
<1>11. g = [m \in Nat |-> g[m]]
  BY <1>9 DEF Divides
<1>12. g = [m \in Nat |-> IF m = 0 THEN 1 ELSE Squared(m, g[m \div 2])]
  BY <1>10, <1>11
<1>13. power = [m \in Nat |-> IF m = 0 THEN 1 ELSE Squared(m, power[m \div 2])]
  BY <1>12
<1> HIDE DEF power
<1>14. \A m \in Nat : power[m] = IF m = 0 THEN 1 ELSE Squared(m, power[m \div 2])
  BY <1>13
<1> DEFINE G == {m \in Nat : power[m] \in Residues}
<1>15. G = Nat
  <2>1. SUFFICES ASSUME Nat \ G # {} PROVE FALSE
    OBVIOUS
  <2>2. Nat \ G \in SUBSET Nat
    OBVIOUS
  <2> HIDE DEF G
  <2>3. PICK m \in Nat \ G : \A k \in Nat \ G : m <= k
    BY <2>1, <2>2, LeastNat
  <2>4. power[m] \notin Residues
    BY <2>3 DEF G
  <2>5. m # 0
    BY <1>1, <1>14, <2>4
  <2>6. PICK h : h = m \div 2
    OBVIOUS
  <2>7. h \in Nat /\ h < m
    BY <2>3, <2>5, <2>6, Halves
  <2>8. power[h] \in Residues
    BY <2>3, <2>7 DEF G
  <2>9. power[m] = Squared(m, power[h])
    BY <1>14, <2>3, <2>5, <2>6
  <2> QED BY <1>3, <2>3, <2>4, <2>8, <2>9
<1>16. power[n] \in Residues
  BY <1>15
<1>17. n # 0 => power[n] = Squared(n, power[n \div 2])
  BY <1>14
<1>18. power[0] = 1
  BY <1>14
<1> QED BY <1>7, <1>16, <1>17, <1>18 DEF Squared

LEMMA ResidueIsRemainder ==
  ASSUME NEW v \in Int, NEW r, IsResidue(r, v)
  PROVE  r = v % MODULUS
<1>1. MODULUS \in Nat \ {0}
  BY ModulusInt
<1>2. PICK k : Splits(v, MODULUS, k, r)
  BY DEF IsResidue, Residues, Splits
<1>3. Splits(v, MODULUS, v \div MODULUS, v % MODULUS)
  BY <1>1, Division DEF Splits
<1> QED BY <1>1, <1>2, <1>3, SplitsOnce

LEMMA MultiplierResidue == MULTIPLIER \in Residues /\ MULTIPLIER \in Nat
<1>1. MULTIPLIER \in Int /\ 0 <= MULTIPLIER /\ MULTIPLIER < MODULUS
  BY SMT, Constants
<1> QED BY SMT, <1>1, ModulusInt DEF Residues

(* The powers of MULTIPLIER at twice an exponent, and at one more.           *)
LEMMA PowerDouble ==
  ASSUME NEW n \in Nat
  PROVE  LET a == Power(MULTIPLIER, n)
         IN  /\ Power(MULTIPLIER, 0) = 1
             /\ Power(MULTIPLIER, 2 * n) = (a * a) % MODULUS
             /\ Power(MULTIPLIER, 2 * n + 1) = (((a * a) % MODULUS) * MULTIPLIER) % MODULUS
<1> DEFINE a == Power(MULTIPLIER, n)
<1>1. a \in Residues /\ Power(MULTIPLIER, 0) = 1
  BY MultiplierResidue, PowerEquation
<1>2. a \in Int /\ a \in Nat
  BY <1>1, ResidueInt
<1>3. PICK b : b = Power(MULTIPLIER, n)
  OBVIOUS
<1> HIDE DEF a
<1>4. a * a \in Int /\ IsResidue(Times(a, a), a * a)
  BY <1>1, <1>2, TimesIsProduct
<1>5. Times(a, a) = (a * a) % MODULUS /\ Times(a, a) \in Residues
  BY <1>4, ResidueIsRemainder DEF IsResidue
<1>6. PICK e : e = Times(a, a)
  OBVIOUS
<1>7. e \in Residues /\ e \in Nat /\ e * MULTIPLIER \in Int
  <2>1. e \in Residues /\ e \in Nat
    BY <1>5, <1>6, ResidueInt
  <2> QED BY <2>1, MultiplierResidue
<1>8. Times(e, MULTIPLIER) = (e * MULTIPLIER) % MODULUS
  BY <1>7, MultiplierResidue, TimesIsProduct, ResidueIsRemainder
<1>9. Power(MULTIPLIER, 2 * n) = e
  <2>1. CASE n = 0
    <3>1. a = 1
      BY <1>1, <2>1 DEF a
    <3>2. (1 * 1) % MODULUS = 1
      BY SMT, Constants
    <3>3. 2 * n = 0
      BY <2>1
    <3> QED BY <1>1, <1>5, <1>6, <3>1, <3>2, <3>3
  <2>2. CASE n # 0
    <3>1. 2 * n \in Nat /\ 2 * n # 0 /\ (2 * n) \div 2 = n /\ (2 * n) % 2 = 0
      BY <2>2
    <3>2. PICK m : m = 2 * n
      OBVIOUS
    <3>3. m \in Nat /\ m # 0 /\ m \div 2 = n /\ m % 2 = 0
      BY <3>1, <3>2
    <3>4. Power(MULTIPLIER, m) = Times(a, a)
      BY <3>3, MultiplierResidue, PowerEquation DEF a
    <3> QED BY <1>6, <3>2, <3>4
  <2> QED BY <2>1, <2>2
<1>10. Power(MULTIPLIER, 2 * n + 1) = Times(e, MULTIPLIER)
  <2>1. PICK m : m = 2 * n + 1
    OBVIOUS
  <2>2. m \in Nat /\ m # 0 /\ m \div 2 = n /\ m % 2 = 1
    BY <2>1
  <2>3. m % 2 # 0
    BY <2>2
  <2>4. Power(MULTIPLIER, m) = Times(Times(a, a), MULTIPLIER)
    BY <2>2, <2>3, MultiplierResidue, PowerEquation DEF a
  <2> QED BY <1>6, <2>1, <2>4
<1>11. /\ Power(MULTIPLIER, 2 * n) = (a * a) % MODULUS
       /\ Power(MULTIPLIER, 2 * n + 1) = (((a * a) % MODULUS) * MULTIPLIER) % MODULUS
  BY <1>5, <1>6, <1>8, <1>9, <1>10, Zenon
<1> QED BY <1>1, <1>11 DEF a

(* 8367782 draws multiply by A256: the exponent is halved 22 times.          *)
LEMMA PowerOfStreams == Power(MULTIPLIER, 8367782) = 22925
<1> DEFINE p(n) == Power(MULTIPLIER, n)
<1>1. p(1) = 48271
  <2>1. p(2 * 0 + 1) = (((1 * 1) % 2147483647) * 48271) % 2147483647
    BY SMT, PowerDouble, Constants
  <2> QED BY SMT, <2>1
<1>2. p(3) = 1291394886
  <2>1. p(2 * 1 + 1) = (((48271 * 48271) % 2147483647) * 48271) % 2147483647
    BY SMT, <1>1, PowerDouble, Constants
  <2> QED BY SMT, <2>1
<1>3. p(7) = 1105902161
  <2>1. p(2 * 3 + 1) = (((1291394886 * 1291394886) % 2147483647) * 48271) % 2147483647
    BY SMT, <1>2, PowerDouble, Constants
  <2> QED BY SMT, <2>1
<1>4. p(15) = 1271135913
  <2>1. p(2 * 7 + 1) = (((1105902161 * 1105902161) % 2147483647) * 48271) % 2147483647
    BY SMT, <1>3, PowerDouble, Constants
  <2> QED BY SMT, <2>1
<1>5. p(31) = 2010567813
  <2>1. p(2 * 15 + 1) = (((1271135913 * 1271135913) % 2147483647) * 48271) % 2147483647
    BY SMT, <1>4, PowerDouble, Constants
  <2> QED BY SMT, <2>1
<1>6. p(63) = 1500063655
  <2>1. p(2 * 31 + 1) = (((2010567813 * 2010567813) % 2147483647) * 48271) % 2147483647
    BY SMT, <1>5, PowerDouble, Constants
  <2> QED BY SMT, <2>1
<1>7. p(127) = 1210064531
  <2>1. p(2 * 63 + 1) = (((1500063655 * 1500063655) % 2147483647) * 48271) % 2147483647
    BY SMT, <1>6, PowerDouble, Constants
  <2> QED BY SMT, <2>1
<1>8. p(255) = 528003979
  <2>1. p(2 * 127 + 1) = (((1210064531 * 1210064531) % 2147483647) * 48271) % 2147483647
    BY SMT, <1>7, PowerDouble, Constants
  <2> QED BY SMT, <2>1
<1>9. p(510) = 33068610
  <2>1. p(2 * 255) = (528003979 * 528003979) % 2147483647
    BY SMT, <1>8, PowerDouble, Constants
  <2> QED BY SMT, <2>1
<1>10. p(1021) = 1341337692
  <2>1. p(2 * 510 + 1) = (((33068610 * 33068610) % 2147483647) * 48271) % 2147483647
    BY SMT, <1>9, PowerDouble, Constants
  <2> QED BY SMT, <2>1
<1>11. p(2042) = 1371184843
  <2>1. p(2 * 1021) = (1341337692 * 1341337692) % 2147483647
    BY SMT, <1>10, PowerDouble, Constants
  <2> QED BY SMT, <2>1
<1>12. p(4085) = 1927691758
  <2>1. p(2 * 2042 + 1) = (((1371184843 * 1371184843) % 2147483647) * 48271) % 2147483647
    BY SMT, <1>11, PowerDouble, Constants
  <2> QED BY SMT, <2>1
<1>13. p(8171) = 845272749
  <2>1. p(2 * 4085 + 1) = (((1927691758 * 1927691758) % 2147483647) * 48271) % 2147483647
    BY SMT, <1>12, PowerDouble, Constants
  <2> QED BY SMT, <2>1
<1>14. p(16343) = 493431754
  <2>1. p(2 * 8171 + 1) = (((845272749 * 845272749) % 2147483647) * 48271) % 2147483647
    BY SMT, <1>13, PowerDouble, Constants
  <2> QED BY SMT, <2>1
<1>15. p(32686) = 1039366565
  <2>1. p(2 * 16343) = (493431754 * 493431754) % 2147483647
    BY SMT, <1>14, PowerDouble, Constants
  <2> QED BY SMT, <2>1
<1>16. p(65373) = 9509614
  <2>1. p(2 * 32686 + 1) = (((1039366565 * 1039366565) % 2147483647) * 48271) % 2147483647
    BY SMT, <1>15, PowerDouble, Constants
  <2> QED BY SMT, <2>1
<1>17. p(130746) = 74570179
  <2>1. p(2 * 65373) = (9509614 * 9509614) % 2147483647
    BY SMT, <1>16, PowerDouble, Constants
  <2> QED BY SMT, <2>1
<1>18. p(261493) = 1229000842
  <2>1. p(2 * 130746 + 1) = (((74570179 * 74570179) % 2147483647) * 48271) % 2147483647
    BY SMT, <1>17, PowerDouble, Constants
  <2> QED BY SMT, <2>1
<1>19. p(522986) = 1158799956
  <2>1. p(2 * 261493) = (1229000842 * 1229000842) % 2147483647
    BY SMT, <1>18, PowerDouble, Constants
  <2> QED BY SMT, <2>1
<1>20. p(1045972) = 1149613586
  <2>1. p(2 * 522986) = (1158799956 * 1158799956) % 2147483647
    BY SMT, <1>19, PowerDouble, Constants
  <2> QED BY SMT, <2>1
<1>21. p(2091945) = 19949174
  <2>1. p(2 * 1045972 + 1) = (((1149613586 * 1149613586) % 2147483647) * 48271) % 2147483647
    BY SMT, <1>20, PowerDouble, Constants
  <2> QED BY SMT, <2>1
<1>22. p(4183891) = 1862553027
  <2>1. p(2 * 2091945 + 1) = (((19949174 * 19949174) % 2147483647) * 48271) % 2147483647
    BY SMT, <1>21, PowerDouble, Constants
  <2> QED BY SMT, <2>1
<1>23. p(8367782) = 22925
  <2>1. p(2 * 4183891) = (1862553027 * 1862553027) % 2147483647
    BY SMT, <1>22, PowerDouble, Constants
  <2> QED BY SMT, <2>1
<1> QED BY SMT, <1>23

(* 10000 draws from 1 end in CHECK.                                           *)
LEMMA PowerOfTest == Power(MULTIPLIER, 10000) = 399268537
<1> DEFINE p(n) == Power(MULTIPLIER, n)
<1>1. p(1) = 48271
  <2>1. p(2 * 0 + 1) = (((1 * 1) % 2147483647) * 48271) % 2147483647
    BY SMT, PowerDouble, Constants
  <2> QED BY SMT, <2>1
<1>2. p(2) = 182605794
  <2>1. p(2 * 1) = (48271 * 48271) % 2147483647
    BY SMT, <1>1, PowerDouble, Constants
  <2> QED BY SMT, <2>1
<1>3. p(4) = 1914720637
  <2>1. p(2 * 2) = (182605794 * 182605794) % 2147483647
    BY SMT, <1>2, PowerDouble, Constants
  <2> QED BY SMT, <2>1
<1>4. p(9) = 564586691
  <2>1. p(2 * 4 + 1) = (((1914720637 * 1914720637) % 2147483647) * 48271) % 2147483647
    BY SMT, <1>3, PowerDouble, Constants
  <2> QED BY SMT, <2>1
<1>5. p(19) = 1559527823
  <2>1. p(2 * 9 + 1) = (((564586691 * 564586691) % 2147483647) * 48271) % 2147483647
    BY SMT, <1>4, PowerDouble, Constants
  <2> QED BY SMT, <2>1
<1>6. p(39) = 1272185027
  <2>1. p(2 * 19 + 1) = (((1559527823 * 1559527823) % 2147483647) * 48271) % 2147483647
    BY SMT, <1>5, PowerDouble, Constants
  <2> QED BY SMT, <2>1
<1>7. p(78) = 837051536
  <2>1. p(2 * 39) = (1272185027 * 1272185027) % 2147483647
    BY SMT, <1>6, PowerDouble, Constants
  <2> QED BY SMT, <2>1
<1>8. p(156) = 2071152004
  <2>1. p(2 * 78) = (837051536 * 837051536) % 2147483647
    BY SMT, <1>7, PowerDouble, Constants
  <2> QED BY SMT, <2>1
<1>9. p(312) = 1451777401
  <2>1. p(2 * 156) = (2071152004 * 2071152004) % 2147483647
    BY SMT, <1>8, PowerDouble, Constants
  <2> QED BY SMT, <2>1
<1>10. p(625) = 605889173
  <2>1. p(2 * 312 + 1) = (((1451777401 * 1451777401) % 2147483647) * 48271) % 2147483647
    BY SMT, <1>9, PowerDouble, Constants
  <2> QED BY SMT, <2>1
<1>11. p(1250) = 1285444814
  <2>1. p(2 * 625) = (605889173 * 605889173) % 2147483647
    BY SMT, <1>10, PowerDouble, Constants
  <2> QED BY SMT, <2>1
<1>12. p(2500) = 1211932242
  <2>1. p(2 * 1250) = (1285444814 * 1285444814) % 2147483647
    BY SMT, <1>11, PowerDouble, Constants
  <2> QED BY SMT, <2>1
<1>13. p(5000) = 1629331733
  <2>1. p(2 * 2500) = (1211932242 * 1211932242) % 2147483647
    BY SMT, <1>12, PowerDouble, Constants
  <2> QED BY SMT, <2>1
<1>14. p(10000) = 399268537
  <2>1. p(2 * 5000) = (1629331733 * 1629331733) % 2147483647
    BY SMT, <1>13, PowerDouble, Constants
  <2> QED BY SMT, <2>1
<1> QED BY SMT, <1>14
(* The reference arithmetic goes on by one factor as the generator does.     *)
LEMMA RemainderIsResidue ==
  ASSUME NEW v \in Int
  PROVE  IsResidue(v % MODULUS, v)
<1>1. PICK q, t : q = v \div MODULUS /\ t = v % MODULUS
  OBVIOUS
<1>2. t \in 0 .. MODULUS - 1 /\ q \in Int /\ v = q * MODULUS + t
  <2>1. MODULUS \in Nat \ {0}
    BY ModulusInt
  <2> QED BY <1>1, <2>1, Division
<1>3. IsResidue(t, v)
  BY <1>2 DEF IsResidue, Residues
<1> QED BY <1>1, <1>3

LEMMA PowerSucc ==
  ASSUME NEW N \in Nat
  PROVE  IsResidue(Power(MULTIPLIER, N + 1), MULTIPLIER * Power(MULTIPLIER, N))
<1> DEFINE p(n) == Power(MULTIPLIER, n)
           G == {n \in Nat : IsResidue(p(n + 1), MULTIPLIER * p(n))}
<1>1. \A n \in Nat : p(n) \in Residues /\ p(n) \in Int
  BY MultiplierResidue, PowerEquation, ResidueInt
<1>2. PICK m : m = MULTIPLIER
  OBVIOUS
<1>3. m \in Int
  BY <1>2, MultiplierResidue
<1>4. SUFFICES ASSUME Nat \ G # {} PROVE FALSE
  <2>1. N \in Nat \ G => Nat \ G # {}
    OBVIOUS
  <2> QED BY <2>1
<1>5. Nat \ G \in SUBSET Nat
  OBVIOUS
<1> HIDE DEF G
<1>6. PICK n \in Nat \ G : \A k \in Nat \ G : n <= k
  BY <1>4, <1>5, LeastNat
<1>7. PICK h : h = n \div 2
  OBVIOUS
<1>8. h \in Nat /\ (n % 2 = 0 => n = 2 * h) /\ (n % 2 # 0 => h < n /\ n = 2 * h + 1)
  <2>1. CASE n = 0
    BY <1>7, <2>1
  <2>2. CASE n # 0
    BY <1>6, <1>7, <2>2, Halves
  <2> QED BY <2>1, <2>2
<1>9. PICK a : a = p(h)
  OBVIOUS
<1>10. a \in Residues /\ a \in Int /\ a * a \in Int
  <2>1. a \in Residues /\ a \in Int
    BY <1>1, <1>8, <1>9
  <2> QED BY <2>1
<1>11. PICK c : c = (a * a) % MODULUS
  OBVIOUS
<1>12. IsResidue(c, a * a) /\ c \in Int /\ c * m \in Int
  <2>1. IsResidue(c, a * a)
    BY <1>10, <1>11, RemainderIsResidue
  <2>2. c \in Int
    BY <2>1, ResidueInt DEF IsResidue
  <2> QED BY <1>3, <2>1, <2>2
<1>13. p(2 * h) = c /\ p(2 * h + 1) = (c * m) % MODULUS
  BY <1>2, <1>8, <1>9, <1>11, PowerDouble, Zenon
<1>14. CASE n % 2 = 0
  <2>1. n = 2 * h
    BY <1>8, <1>14
  <2>2. IsResidue((c * m) % MODULUS, c * m)
    BY <1>12, RemainderIsResidue
  <2>3. c * m = m * c
    BY <1>3, <1>12
  <2>4. p(n) = c /\ p(n + 1) = (c * m) % MODULUS
    BY <1>13, <2>1, Zenon
  <2>5. IsResidue(p(n + 1), m * p(n))
    BY <2>2, <2>3, <2>4, Zenon
  <2> QED BY <1>2, <1>6, <2>5 DEF G
<1>15. CASE n % 2 # 0
  <2>1. n = 2 * h + 1 /\ h \in G
    BY <1>6, <1>8, <1>15
  <2>2. PICK b : b = p(h + 1)
    OBVIOUS
  <2>3. IsResidue(b, m * a) /\ b \in Int /\ h + 1 \in Nat
    BY <1>1, <1>2, <1>8, <1>9, <2>1, <2>2 DEF G
  <2>4. p(2 * (h + 1)) = (b * b) % MODULUS
    BY <2>2, <2>3, PowerDouble, Zenon
  <2>5. n + 1 = 2 * (h + 1)
    BY <1>8, <2>1
  <2>6. PICK r : r = p(n + 1)
    OBVIOUS
  <2>7. r = (b * b) % MODULUS
    BY <2>4, <2>5, <2>6, Zenon
  <2>8. m * a \in Int /\ b * b \in Int /\ b * (m * a) \in Int
    BY <1>3, <1>10, <2>3
  <2>9. IsResidue(r, b * b)
    BY <2>7, <2>8, RemainderIsResidue
  <2>10. IsResidue(r, (m * a) * b)
    BY <2>3, <2>8, <2>9, ResidueProduct
  <2>11. (m * a) * b = b * (m * a)
    BY <2>3, <2>8
  <2>12. IsResidue(r, b * (m * a))
    BY <2>10, <2>11
  <2>13. IsResidue(r, (m * a) * (m * a))
    BY <2>3, <2>8, <2>12, ResidueProduct
  <2>14. PICK e : e = p(n)
    OBVIOUS
  <2>15. e = (c * m) % MODULUS /\ e \in Int
    BY <1>1, <1>6, <1>13, <2>1, <2>14
  <2>16. IsResidue(e, c * m)
    BY <1>12, <2>15, RemainderIsResidue
  <2>17. e * m \in Int /\ m * m \in Int
    BY <1>3, <2>15
  <2>18. PICK t : t = (e * m) % MODULUS
    OBVIOUS
  <2>19. IsResidue(t, e * m)
    BY <2>17, <2>18, RemainderIsResidue
  <2>20. IsResidue(t, (c * m) * m)
    BY <1>3, <1>12, <2>16, <2>19, ResidueProduct
  <2>21. (c * m) * m = c * (m * m)
    BY <1>3, <1>12
  <2>22. IsResidue(t, c * (m * m))
    BY <2>20, <2>21
  <2>23. IsResidue(t, (a * a) * (m * m))
    BY <1>10, <1>12, <2>17, <2>22, ResidueProduct
  <2>24. (a * a) * (m * m) = (m * a) * (m * a)
    BY <1>3, <1>10
  <2>25. (m * a) * (m * a) \in Int
    BY <2>8
  <2>26. r = t
    BY <2>13, <2>23, <2>24, <2>25, ResidueUnique
  <2>27. e * m = m * e
    BY <1>3, <2>15
  <2>28. IsResidue(p(n + 1), m * p(n))
    BY <2>6, <2>14, <2>19, <2>26, <2>27, Zenon
  <2> QED BY <1>2, <1>6, <2>28 DEF G
<1> QED BY <1>14, <1>15

-----------------------------------------------------------------------------
(* The two multipliers of the generator, in the reference arithmetic.        *)
LEMMA LehmerIsTimes ==
  ASSUME NEW x \in Proper
  PROVE  /\ Lehmer(MULTIPLIER, x) = Times(MULTIPLIER, x)
         /\ Lehmer(A256, x) = Times(Power(MULTIPLIER, 8367782), x)
<1>1. x \in Int /\ x \in Residues /\ 0 <= MODULUS - 1 /\ Proper \subseteq Residues
  BY ModulusInt, ProperInt DEF Proper, Residues
<1>2. A256 \in Nat /\ MULTIPLIER \in Nat
  BY SMT, Constants
<1>3. A256 * x \in Int /\ MULTIPLIER * x \in Int
  BY <1>1, <1>2
<1>4. /\ IsResidue(Times(MULTIPLIER, x), MULTIPLIER * x)
      /\ IsResidue(Times(A256, x), A256 * x)
  BY <1>1, <1>2, TimesIsProduct
<1>5. /\ IsResidue(Lehmer(MULTIPLIER, x), MULTIPLIER * x)
      /\ IsResidue(Lehmer(A256, x), A256 * x)
  <2>1. /\ Lehmer(MULTIPLIER, x) \in Residues /\ Lehmer(A256, x) \in Residues
    BY <1>1, LehmerProper
  <2> QED BY <2>1, SchrageMultiplier, SchrageA256 DEF IsResidue
<1>6. A256 = Power(MULTIPLIER, 8367782)
  BY SMT, PowerOfStreams, Constants
<1> QED BY <1>3, <1>4, <1>5, <1>6, ResidueUnique

(* The streams that PlantSeeds() has planted so far are apart.               *)
LEMMA ApartStep == IInv /\ StreamsApart /\ [Next]_vars => StreamsApart'
<1> SUFFICES ASSUME IInv, StreamsApart, [Next]_vars, pc' = "plant"
             PROVE  \A s \in 1 .. j' - 1 :
                      seed'[s] = Times(Power(MULTIPLIER, 8367782), seed'[s - 1])
  BY DEF StreamsApart
<1> DEFINE apart == Power(MULTIPLIER, 8367782)
<1>1. CASE j' = 1
  <2>1. 1 .. j' - 1 = {}
    BY <1>1
  <2> QED BY <2>1
<1>2. CASE PlantNext
  <2>1. j \in 1 .. STREAMS /\ j < STREAMS /\ STREAMS \in Nat
    BY <1>2, StreamsNat DEF PlantNext, IInv
  <2>2. PICK i : i = j
    OBVIOUS
  <2>3. i \in Nat /\ 1 <= i /\ i \in Streams /\ i - 1 \in 0 .. j - 1 /\ i - 1 # i
    BY <2>1, <2>2 DEF Streams
  <2>4. seed[i - 1] \in Proper
    BY <1>2, <2>3 DEF PlantNext, IInv
  <2>5. /\ seed' = [seed EXCEPT ![i] = Lehmer(A256, seed[i - 1])]
        /\ j' = i + 1 /\ seed \in [Streams -> 0 .. MODULUS - 1]
    BY <1>2, <2>2 DEF PlantNext, IInv, TypeOK
  <2>6. seed'[i] = Lehmer(A256, seed[i - 1]) /\ \A r \in Streams : r # i => seed'[r] = seed[r]
    BY <2>3, <2>5
  <2>7. Lehmer(A256, seed[i - 1]) = Times(apart, seed[i - 1])
    BY <2>4, LehmerIsTimes
  <2>8. \A s \in 1 .. i - 1 : seed[s] = Times(apart, seed[s - 1])
    BY <1>2, <2>2 DEF PlantNext, StreamsApart
  <2> HIDE DEF apart
  <2>9. SUFFICES ASSUME NEW s \in 1 .. i PROVE seed'[s] = Times(apart, seed'[s - 1])
    BY <2>3, <2>5 DEF apart
  <2>10. s - 1 \in Streams /\ s - 1 # i
    BY <2>1, <2>2, <2>3, <2>9 DEF Streams
  <2>11. CASE s = i
    BY <2>6, <2>7, <2>10, <2>11
  <2>12. CASE s # i
    <3>1. s \in 1 .. i - 1 /\ s \in Streams
      BY <2>1, <2>2, <2>3, <2>9, <2>12 DEF Streams
    <3> QED BY <2>6, <2>8, <2>10, <2>12, <3>1
  <2> QED BY <2>11, <2>12
<1>3. CASE pc = "plant" /\ UNCHANGED <<seed, j>>
  BY <1>3 DEF StreamsApart
<1>4. (\E x, back : Plant(x, back)) => j' = 1
  BY DEF Plant
<1>5. ASSUME NEW index, NEW back, Select(index, back), back # "plant" PROVE j' = 1
  BY <1>4, <1>5 DEF Select
<1>6. CASE Random
  BY <1>6 DEF Random
<1>7. ASSUME NEW x \in Seeds, PutSeed(x) PROVE FALSE
  BY <1>7 DEF PutSeed
<1>8. ASSUME NEW x \in Seeds, PlantSeeds(x) PROVE j' = 1
  BY <1>4, <1>8 DEF PlantSeeds
<1>9. CASE PlantReturn
  BY <1>9 DEF PlantReturn, IInv, TypeOK
<1>10. ASSUME NEW index \in Indices, SelectStream(index) PROVE j' = 1
  BY <1>5, <1>10 DEF SelectStream
<1>11. CASE TestRandom
  BY <1>11 DEF TestRandom
<1>12. CASE TestDraw
  BY <1>12 DEF TestDraw
<1>13. CASE TestCheck
  BY <1>1, <1>5, <1>13 DEF TestCheck
<1>14. CASE TestReplant
  BY <1>1, <1>4, <1>14 DEF TestReplant
<1>15. CASE TestVerdict
  BY <1>15 DEF TestVerdict
<1>16. CASE UNCHANGED vars
  BY <1>3, <1>16 DEF vars
<1> QED
  BY <1>1, <1>2, <1>6, <1>7, <1>8, <1>9, <1>10, <1>11, <1>12, <1>13, <1>14, <1>15, <1>16
  DEF Next

(***************************************************************************)
(* PlantSeeds() puts every stream 8367782 draws ahead of the one before,   *)
(* for every seed and number of streams (lib.c:331-332).                   *)
(***************************************************************************)
THEOREM StreamsStayApart == Spec => []StreamsApart
<1>1. Init => StreamsApart
  BY DEF Init, StreamsApart
<1> QED BY <1>1, ApartStep, Invariance, PTL DEF Spec

(* Every draw is a step of the reference generator, in one stream only.      *)
THEOREM DrawsAreLehmer == Spec => IsLehmer
<1>1. IInv /\ [Next]_vars =>
        [Random \/ TestDraw =>
           \A s \in Streams :
             seed'[s] = IF s = stream THEN Times(MULTIPLIER, seed[s]) ELSE seed[s]]_vars
  <2> SUFFICES ASSUME IInv, Random \/ TestDraw, NEW s \in Streams
               PROVE  seed'[s] = IF s = stream THEN Times(MULTIPLIER, seed[s]) ELSE seed[s]
    OBVIOUS
  <2>1. Advance /\ stream \in Streams /\ seed \in [Streams -> 0 .. MODULUS - 1]
    BY DEF Random, TestDraw, IInv, TypeOK
  <2>2. seed[stream] \in Proper
    BY DEF IInv, TypeOK, Random, TestDraw
  <2>3. Lehmer(MULTIPLIER, seed[stream]) = Times(MULTIPLIER, seed[stream])
    BY <2>2, LehmerIsTimes
  <2>4. seed' = [seed EXCEPT ![stream] = Lehmer(MULTIPLIER, seed[stream])]
    BY <2>1 DEF Advance
  <2> QED BY <2>1, <2>3, <2>4
<1> QED BY <1>1, Invariance, PTL DEF Spec, IsLehmer

-----------------------------------------------------------------------------
(***************************************************************************)
(* What TestRandom() has computed when it is interrupted by its loops: the *)
(* powers of MULTIPLIER, and then the planted streams 0 and 1.             *)
(***************************************************************************)
Drawn == pc = "draw" => seed[0] = Power(MULTIPLIER, j)

Replanted == pc = "plant" /\ ret = "verdict" => seed[0] = 1 /\ (j > 1 => seed[1] = A256)

TestInv ==
  /\ Drawn /\ Replanted
  /\ pc # "draw" => ok
  /\ pc = "replant" \/ (pc = "plant" /\ ret # "idle") => stream = 1
  /\ pc = "verdict" => stream = 1 /\ seed[1] = A256

LEMMA PlantedOne == Planted(1) = 1 /\ Power(MULTIPLIER, 0) = 1
<1>1. Power(MULTIPLIER, 0) = 1
  BY MultiplierResidue, PowerEquation, 0 \in Nat
<1>2. 1 % MODULUS = 1
  BY SMT, Constants
<1>3. Planted(1) = 1
  BY <1>2, 1 > 0 DEF Planted
<1> QED BY <1>1, <1>3

(* A draw raises the exponent.                                               *)
LEMMA DrawIsPower ==
  ASSUME NEW N \in Nat, Power(MULTIPLIER, N) \in Proper
  PROVE  Lehmer(MULTIPLIER, Power(MULTIPLIER, N)) = Power(MULTIPLIER, N + 1)
<1>1. PICK x : x = Power(MULTIPLIER, N)
  OBVIOUS
<1>2. x \in Proper /\ x \in Residues /\ x \in Int
  BY <1>1, MultiplierResidue, PowerEquation, ResidueInt
<1>3. MULTIPLIER * x \in Int /\ IsResidue(Times(MULTIPLIER, x), MULTIPLIER * x)
  BY <1>2, MultiplierResidue, TimesIsProduct
<1>4. IsResidue(Power(MULTIPLIER, N + 1), MULTIPLIER * x)
  BY <1>1, PowerSucc
<1>5. Times(MULTIPLIER, x) = Power(MULTIPLIER, N + 1)
  BY <1>3, <1>4, ResidueUnique
<1> QED BY <1>1, <1>2, <1>5, LehmerIsTimes

LEMMA OneLehmer == Lehmer(A256, 1) = A256
BY SMT, Constants DEF Lehmer

LEMMA TestStep == IInv /\ IInv' /\ TestInv /\ [Next]_vars => TestInv'
<1> SUFFICES ASSUME IInv, IInv', TestInv, [Next]_vars PROVE TestInv'
  OBVIOUS
<1>1. /\ seed \in [Streams -> 0 .. MODULUS - 1] /\ stream \in Streams /\ j \in 0 .. DRAWS
      /\ 0 \in Streams /\ 1 \in Streams /\ ok \in BOOLEAN
  <2>1. 1 \in Streams
    BY StreamsNat DEF Streams
  <2> QED BY <2>1, StreamsNat DEF IInv, TypeOK
<1>2. ASSUME NEW x, NEW back, Plant(x, back), ok', back # "idle" => stream' = 1,
             back = "verdict" => x = 1
      PROVE  TestInv'
  <2>1. seed' = [seed EXCEPT ![0] = Planted(x)] /\ pc' = "plant" /\ ret' = back /\ j' = 1
    BY <1>2 DEF Plant
  <2>2. seed'[0] = Planted(x)
    BY <1>1, <2>1
  <2> QED BY <1>2, <2>1, <2>2, PlantedOne DEF TestInv, Drawn, Replanted
<1>3. ASSUME NEW index, NEW back \in {"idle", "replant"}, Select(index, back), ok',
             back = "replant" => stream' = 1
      PROVE  TestInv'
  <2>1. CASE Plant(DEFAULT, back)
    BY <1>2, <1>3, <2>1
  <2>2. CASE pc' = back
    BY <1>3, <2>2 DEF TestInv, Drawn, Replanted
  <2> QED BY <1>3, <2>1, <2>2 DEF Select
<1>4. CASE Random
  BY <1>4 DEF Random, TestInv, Drawn, Replanted
<1>5. ASSUME NEW x \in Seeds, PutSeed(x) PROVE TestInv'
  BY <1>5 DEF PutSeed, TestInv, Drawn, Replanted
<1>6. ASSUME NEW x \in Seeds, PlantSeeds(x) PROVE TestInv'
  BY <1>2, <1>6 DEF PlantSeeds, TestInv
<1>7. CASE PlantNext
  <2>1. j \in Int /\ 1 <= j /\ j \in Streams
    <3>1. j \in 1 .. STREAMS /\ j < STREAMS /\ STREAMS \in Nat
      BY <1>7, StreamsNat DEF PlantNext, IInv
    <3> QED BY <3>1 DEF Streams
  <2>2. PICK i, l : i = j /\ l = Lehmer(A256, seed[i - 1])
    OBVIOUS
  <2>3. seed' = [seed EXCEPT ![i] = l] /\ j' = i + 1
    BY <1>7, <2>2 DEF PlantNext
  <2>4. i # 0 /\ seed'[0] = seed[0] /\ seed'[i] = l /\ (i # 1 => seed'[1] = seed[1])
    BY <1>1, <2>1, <2>2, <2>3
  <2>5. Replanted'
    <3> SUFFICES ASSUME ret = "verdict" PROVE seed'[0] = 1 /\ seed'[1] = A256
      BY <1>7 DEF PlantNext, Replanted
    <3>1. seed[0] = 1 /\ (i > 1 => seed[1] = A256)
      BY <1>7, <2>2 DEF PlantNext, TestInv, Replanted
    <3>2. CASE i = 1
      <4>1. i - 1 = 0
        BY <3>2
      <4>2. l = A256
        BY <2>2, <3>1, <4>1, OneLehmer
      <4> QED BY <2>4, <3>1, <3>2, <4>2
    <3>3. CASE i # 1
      BY <2>1, <2>2, <2>4, <3>1, <3>3
    <3> QED BY <3>2, <3>3
  <2> QED BY <1>7, <2>5 DEF PlantNext, TestInv, Drawn
<1>8. CASE PlantReturn
  <2>1. STREAMS > 1 /\ ret \in {"idle", "replant", "verdict"}
    BY StreamsNat DEF IInv, TypeOK
  <2> QED BY <1>8, <2>1 DEF PlantReturn, TestInv, Drawn, Replanted
<1>9. ASSUME NEW index \in Indices, SelectStream(index) PROVE TestInv'
  BY <1>3, <1>9 DEF SelectStream, TestInv
<1>10. CASE TestRandom
  <2>1. seed' = [seed EXCEPT ![0] = Planted(1)] /\ pc' = "draw" /\ j' = 0
    BY <1>10 DEF TestRandom
  <2>2. seed'[0] = Planted(1)
    BY <1>1, <2>1
  <2> QED BY <2>1, <2>2, PlantedOne DEF TestInv, Drawn, Replanted
<1>11. CASE TestDraw
  <2>1. stream = 0 /\ seed[0] \in Proper /\ seed[0] = Power(MULTIPLIER, j) /\ j \in Nat
    BY <1>1, <1>11 DEF TestDraw, IInv, TestInv, Drawn
  <2>2. seed' = [seed EXCEPT ![0] = Lehmer(MULTIPLIER, seed[0])] /\ j' = j + 1 /\ pc' = "draw"
    BY <1>11, <2>1 DEF TestDraw, Advance
  <2>3. seed'[0] = Lehmer(MULTIPLIER, seed[0])
    BY <1>1, <2>2
  <2>4. seed'[0] = Power(MULTIPLIER, j + 1)
    BY <2>1, <2>3, DrawIsPower
  <2> QED BY <2>2, <2>4 DEF TestInv, Drawn, Replanted
<1>12. CASE TestCheck
  <2>1. stream = 0 /\ seed[0] = Power(MULTIPLIER, j) /\ j = DRAWS
    BY <1>12 DEF TestCheck, IInv, TestInv, Drawn
  <2>2. DRAWS = 10000 /\ CHECK = 399268537
    BY DEF DRAWS, CHECK
  <2>3. Power(MULTIPLIER, DRAWS) = CHECK
    BY SMT, <2>2, PowerOfTest
  <2>4. ok' /\ Select(1, "replant")
    BY <1>12, <2>1, <2>3 DEF TestCheck
  <2>5. 1 % STREAMS = 1
    BY SMT, RandomAssumption
  <2>6. stream' = 1
    BY <2>4, <2>5 DEF Select
  <2> QED BY <1>3, <2>4, <2>6
<1>13. CASE TestReplant
  BY <1>2, <1>13 DEF TestReplant, TestInv
<1>14. CASE TestVerdict
  BY <1>14 DEF TestVerdict, TestInv, Drawn, Replanted
<1>15. CASE UNCHANGED vars
  BY <1>15 DEF vars, TestInv, Drawn, Replanted
<1> QED
  BY <1>4, <1>5, <1>6, <1>7, <1>8, <1>9, <1>10, <1>11, <1>12, <1>13, <1>14, <1>15 DEF Next

(***************************************************************************)
(* TestRandom() succeeds in whatever state it finds the generator: the     *)
(* state after 10000 draws from 1 is 48271^10000 mod MODULUS, which is     *)
(* CHECK, and stream 1, planted from 1, is A256 (lib.c:404).               *)
(***************************************************************************)
THEOREM TestAlwaysSucceeds == Spec => []TestSucceeds
<1>1. Init => TestInv
  BY DEF Init, TestInv, Drawn, Replanted
<1>2. TestInv => TestSucceeds
  BY DEF TestInv, TestSucceeds
<1> QED BY <1>1, <1>2, TestStep, Invariance, PTL DEF Spec
=============================================================================
