--------------------------- MODULE SchedOSRandom ---------------------------
(***************************************************************************)
(* The pseudo-random numbers of lib.c, from which get_winner() draws the   *)
(* winning ticket: Lehmer's generator x := MULTIPLIER * x mod MODULUS in   *)
(* STREAMS independent streams, computed in 32-bit longs.                  *)
(*                                                                         *)
(* The functions that only assign are one action each.  The two with a     *)
(* loop, PlantSeeds() and TestRandom(), take one action per iteration; pc  *)
(* says where they are.  A result of Random() is represented by the seed   *)
(* it is computed from, seed[stream] / MODULUS.                            *)
(* The operators with _defect in their name are as in SchedOSKern.         *)
(***************************************************************************)
EXTENDS Integers

CONSTANTS
  STREAMS,   \* number of streams, 256
  Seeds,     \* arguments of PlantSeeds() and PutSeed()
  Indices    \* arguments of SelectStream()

(* (unsigned) index % STREAMS is index % STREAMS if STREAMS divides 2^32.  *)
ASSUME RandomAssumption ==
  /\ STREAMS \in {2, 4, 8, 16, 32, 64, 128, 256}
  /\ Seeds \subseteq Int
  /\ Indices \subseteq Int

MODULUS    == 2147483647
MULTIPLIER == 48271
CHECK      == 399268537
A256       == 22925
DEFAULT    == 123456789
DRAWS      == 10000       \* of TestRandom()

VARIABLES
  seed,          \* current state of each stream; 0 before it is planted
  stream,        \* the selected stream
  initialized,   \* have the streams been planted?
  pc,            \* "idle", or the function whose loop is being executed
  ret,           \* where PlantSeeds() returns to
  j,             \* the loop counter of PlantSeeds() or of TestRandom()
  ok             \* the verdict of TestRandom()

vars == <<seed, stream, initialized, pc, ret, j, ok>>

Streams == 0 .. STREAMS - 1

Lehmer_defect(a, x) ==   \* quotient and remainder exchanged
  LET Q == MODULUS \div a
      R == MODULUS % a
      t == a * (x % Q) - Q * (x \div Q)
  IN  IF t > 0 THEN t ELSE t + MODULUS

(* a * x % MODULUS without a product of more than 32 bits. *)
Lehmer(a, x) ==
  LET Q == MODULUS \div a
      R == MODULUS % a
      t == a * (x % Q) - R * (x \div Q)
  IN  IF t > 0 THEN t ELSE t + MODULUS

Planted_defect(x) == IF x > 0 THEN x ELSE 10086   \* no correction of large x

(* The state that PutSeed(x) stores. *)
Planted(x) ==
  LET y == IF x > 0 THEN x % MODULUS ELSE x
  IN  IF y > 0 THEN y ELSE 10086

Init ==
  /\ seed = [s \in Streams |-> IF s = 0 THEN DEFAULT ELSE 0]
  /\ stream = 0
  /\ initialized = FALSE
  /\ pc = "idle" /\ ret = "idle" /\ j = 0
  /\ ok = TRUE

Advance == seed' = [seed EXCEPT ![stream] = Lehmer(MULTIPLIER, @)]

Random ==
  pc = "idle" /\ Advance /\ UNCHANGED <<stream, initialized, pc, ret, j, ok>>

PutSeed(x) ==
  /\ pc = "idle"
  /\ seed' = [seed EXCEPT ![stream] = Planted(x)]
  /\ UNCHANGED <<stream, initialized, pc, ret, j, ok>>

(* PlantSeeds(x) up to its loop; the stream selected stays selected. *)
Plant(x, back) ==
  /\ initialized' = TRUE
  /\ seed' = [seed EXCEPT ![0] = Planted(x)]
  /\ pc' = "plant" /\ ret' = back /\ j' = 1

PlantSeeds(x) == pc = "idle" /\ Plant(x, "idle") /\ UNCHANGED <<stream, ok>>

PlantNext_defect ==   \* the streams are one draw apart
  /\ pc = "plant" /\ j < STREAMS
  /\ seed' = [seed EXCEPT ![j] = Lehmer(MULTIPLIER, seed[j - 1])]
  /\ j' = j + 1
  /\ UNCHANGED <<stream, initialized, pc, ret, ok>>

PlantNext ==
  /\ pc = "plant" /\ j < STREAMS
  /\ seed' = [seed EXCEPT ![j] = Lehmer(A256, seed[j - 1])]
  /\ j' = j + 1
  /\ UNCHANGED <<stream, initialized, pc, ret, ok>>

PlantReturn ==
  /\ pc = "plant" /\ j = STREAMS
  /\ pc' = ret
  /\ UNCHANGED <<seed, stream, initialized, ret, j, ok>>

Select_defect(index, back) ==   \* no protection of streams never planted
  /\ stream' = index % STREAMS
  /\ pc' = back
  /\ UNCHANGED <<seed, initialized, ret, j>>

(* SelectStream(index), then continue at back. *)
Select(index, back) ==
  /\ stream' = index % STREAMS
  /\ \/ ~initialized /\ stream' # 0 /\ Plant(DEFAULT, back)
     \/ /\ initialized \/ stream' = 0
        /\ pc' = back
        /\ UNCHANGED <<seed, initialized, ret, j>>

SelectStream(index) == pc = "idle" /\ Select(index, "idle") /\ UNCHANGED ok

(* TestRandom(): stream 0 from state 1, 10000 draws, *)
TestRandom ==
  /\ pc = "idle"
  /\ stream' = 0
  /\ seed' = [seed EXCEPT ![0] = Planted(1)]
  /\ pc' = "draw" /\ j' = 0
  /\ UNCHANGED <<initialized, ret, ok>>

TestDraw ==
  /\ pc = "draw" /\ j < DRAWS
  /\ Advance
  /\ j' = j + 1
  /\ UNCHANGED <<stream, initialized, pc, ret, ok>>

(* the first check, then stream 1, *)
TestCheck ==
  /\ pc = "draw" /\ j = DRAWS
  /\ ok' = (seed[stream] = CHECK)
  /\ Select(1, "replant")

(* planted with 1, and the second check. *)
TestReplant ==
  pc = "replant" /\ Plant(1, "verdict") /\ UNCHANGED <<stream, ok>>

TestVerdict ==
  /\ pc = "verdict"
  /\ ok' = (ok /\ seed[stream] = A256)
  /\ pc' = "idle"
  /\ UNCHANGED <<seed, stream, initialized, ret, j>>

Next ==
  \/ Random
  \/ \E x \in Seeds : PutSeed(x) \/ PlantSeeds(x)
  \/ PlantNext \/ PlantReturn
  \/ \E index \in Indices : SelectStream(index)
  \/ TestRandom \/ TestDraw \/ TestCheck \/ TestReplant \/ TestVerdict

Spec == Init /\ [][Next]_vars

-----------------------------------------------------------------------------

TypeOK ==
  /\ seed \in [Streams -> 0 .. MODULUS - 1]
  /\ stream \in Streams
  /\ initialized \in BOOLEAN
  /\ pc \in {"idle", "plant", "draw", "replant", "verdict"}
  /\ ret \in {"idle", "replant", "verdict"}
  /\ j \in 0 .. DRAWS
  /\ ok \in BOOLEAN

(***************************************************************************)
(* Whatever was called before, the stream that Random() would draw from is *)
(* in a proper state: never 0, the fixed point of a stream that was not    *)
(* planted, so that the result lies strictly between 0.0 and 1.0 (lib.c,   *)
(* Random) and get_winner() gets an index from 0 to 9999.                  *)
(***************************************************************************)
UnitInterval ==
  pc \in {"idle", "draw", "verdict"} => seed[stream] \in 1 .. MODULUS - 1

(* Reference arithmetic modulo MODULUS, by doubling. *)
Plus(x, y) == IF x >= MODULUS - y THEN x - (MODULUS - y) ELSE x + y

Times(x, y) ==
  LET times[n \in Nat] ==   \* n * y
        IF n = 0 THEN 0
        ELSE LET half == times[n \div 2]
                 even == Plus(half, half)
             IN  IF n % 2 = 0 THEN even ELSE Plus(even, y)
  IN  times[x]

Power(x, e) ==
  LET power[n \in Nat] ==   \* x^n
        IF n = 0 THEN 1
        ELSE LET half == power[n \div 2]
                 even == Times(half, half)
             IN  IF n % 2 = 0 THEN even ELSE Times(even, x)
  IN  power[e]

(***************************************************************************)
(* A draw is a step of Lehmer's generator: the decomposition into Q and R  *)
(* computes the product modulo MODULUS, for the selected stream only.      *)
(***************************************************************************)
IsLehmer ==
  [][Random \/ TestDraw =>
       \A s \in Streams :
         seed'[s] = IF s = stream THEN Times(MULTIPLIER, seed[s]) ELSE seed[s]]_vars

(***************************************************************************)
(* The planted states are "separated one from the next by 8,367,782 calls  *)
(* to Random()" (lib.c:331-332): each is as many draws ahead of the one    *)
(* before it, whatever seed and stream PlantSeeds() was called with.       *)
(***************************************************************************)
StreamsApart ==
  pc = "plant" =>
    \A s \in 1 .. j - 1 : seed[s] = Times(Power(MULTIPLIER, 8367782), seed[s - 1])

(***************************************************************************)
(* TestRandom() is a "test for a correct implementation" (lib.c:404): its  *)
(* two checks succeed, in whatever state the generator is.                 *)
(***************************************************************************)
TestSucceeds == pc = "idle" => ok
=============================================================================
