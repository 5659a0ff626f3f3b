-------------------------- MODULE SchedOSAppProofs --------------------------
(***************************************************************************)
(* Proofs about SchedOSApp, for any number of applications and of          *)
(* characters: the lock excludes, and no character is lost.                *)
(***************************************************************************)
EXTENDS SchedOSApp, FiniteSetTheorems, TLAPS

(* What an application's registers say about the rest of the state. *)
Looping == {"acquire", "yield"} \cup Critical

LocalInv(p) ==
  /\ regs[p].eip \in Looping => SYNC_METHOD = 1 /\ regs[p].i < RUNCOUNT
  /\ regs[p].eip = "print" => SYNC_METHOD = 2 /\ regs[p].i < RUNCOUNT
  /\ regs[p].eip \in {"exit", "halt"} => regs[p].i = RUNCOUNT
  /\ regs[p].eip \in {"store", "bump"} => regs[p].edx = cursorpos
  /\ regs[p].eip = "bump" => screen[cursorpos] = p

(* The characters printed so far, as pairs of an application and a number:   *)
(* there are as many of them as cells behind the cursor.                     *)
Done == {x \in Apps \X (1 .. RUNCOUNT) : x[2] <= Printed(x[1])}

Counting == Cardinality(Done) = cursorpos /\ NothingLost

(* A step of p changes nothing behind the cursor, and completes at most one  *)
(* character, which is the next on the console.                              *)
CharStep(p) ==
  /\ \A c \in 0 .. cursorpos - 1 : screen'[c] = screen[c]
  /\ \/ cursorpos' = cursorpos /\ Printed(p)' = Printed(p)
     \/ /\ regs[p].eip \in {"bump", "print"}
        /\ cursorpos' = cursorpos + 1 /\ screen'[cursorpos] = p
        /\ Printed(p) < RUNCOUNT /\ Printed(p)' = Printed(p) + 1

IInv == TypeOK /\ MutualExclusion /\ (\A p \in Apps : LocalInv(p)) /\ Counting

-----------------------------------------------------------------------------

LEMMA AllFinite ==
  /\ IsFiniteSet(Apps \X (1 .. RUNCOUNT))
  /\ Cardinality(Apps \X (1 .. RUNCOUNT)) <= CELLS
<1>1. IsFiniteSet(1 .. RUNCOUNT) /\ Cardinality(1 .. RUNCOUNT) = RUNCOUNT
  BY FS_Interval, AppAssumption
<1> QED BY <1>1, FS_Product, ConsoleAssumption

LEMMA DoneFinite == IsFiniteSet(Done) /\ Cardinality(Done) <= CELLS
<1>1. IsFiniteSet(Done) /\ Cardinality(Done) <= Cardinality(Apps \X (1 .. RUNCOUNT))
  BY AllFinite, FS_Subset DEF Done
<1> QED BY <1>1, AllFinite, FS_CardinalityType, AppAssumption

(* As long as an application has something left to print, there is room.     *)
LEMMA RoomLeft ==
  ASSUME TypeOK, Counting, NEW p \in Apps, Printed(p) < RUNCOUNT
  PROVE  cursorpos < CELLS
<1> DEFINE All == Apps \X (1 .. RUNCOUNT)
<1>1. Printed(p) \in Nat /\ RUNCOUNT \in Nat
  BY AppAssumption DEF TypeOK, Registers, Printed
<1>2. <<p, RUNCOUNT>> \in All /\ <<p, RUNCOUNT>> \notin Done
  BY <1>1 DEF Done
<1>3. Done \subseteq All /\ Done # All
  BY <1>2 DEF Done
<1>4. IsFiniteSet(All) /\ Cardinality(All) <= CELLS
  BY AllFinite
<1> HIDE DEF All
<1>5. Cardinality(Done) <= Cardinality(All) /\ Cardinality(Done) # Cardinality(All)
  BY <1>3, <1>4, FS_Subset
<1>6. Cardinality(Done) \in Nat /\ Cardinality(All) \in Nat
  BY <1>4, DoneFinite, FS_CardinalityType
<1> QED BY <1>4, <1>5, <1>6, AppAssumption DEF Counting

(* A step that prints nothing keeps the counts.                              *)
LEMMA NothingPrinted ==
  ASSUME TypeOK, Counting, cursorpos' = cursorpos,
         \A c \in 0 .. cursorpos - 1 : screen'[c] = screen[c],
         \A q \in Apps : Printed(q)' = Printed(q)
  PROVE  Counting'
<1>1. Done' = Done
  BY DEF Done
<1>2. \A q \in Apps : CellsOf(q)' = CellsOf(q)
  BY DEF CellsOf
<1> QED BY <1>1, <1>2 DEF Counting, NothingLost

(* A step that completes one character of p adds one to both counts.         *)
LEMMA OnePrinted ==
  ASSUME TypeOK, Counting, NEW p \in Apps, Printed(p) < RUNCOUNT,
         cursorpos' = cursorpos + 1,
         \A c \in 0 .. cursorpos - 1 : screen'[c] = screen[c],
         screen'[cursorpos] = p,
         Printed(p)' = Printed(p) + 1,
         \A q \in Apps \ {p} : Printed(q)' = Printed(q)
  PROVE  Counting'
<1>1. /\ cursorpos \in Nat /\ RUNCOUNT \in Nat
      /\ \A q \in Apps : Printed(q) \in Nat
  BY AppAssumption DEF TypeOK, Registers, Printed
<1>2. Cardinality(Done') = cursorpos'
  <2>1. <<p, Printed(p) + 1>> \notin Done
    BY <1>1 DEF Done
  <2>2. Done' = Done \cup {<<p, Printed(p) + 1>>}
    <3>1. ASSUME NEW x \in Apps \X (1 .. RUNCOUNT)
          PROVE  x[2] <= Printed(x[1])' <=> x[2] <= Printed(x[1]) \/ x = <<p, Printed(p) + 1>>
      <4>1. CASE x[1] = p
        <5>1. x = <<p, x[2]>> /\ x[2] \in Nat
          BY <4>1
        <5> QED BY <1>1, <4>1, <5>1
      <4>2. CASE x[1] # p
        BY <4>2
      <4> QED BY <4>1, <4>2
    <3>2. <<p, Printed(p) + 1>> \in Apps \X (1 .. RUNCOUNT)
      BY <1>1
    <3> QED BY <3>1, <3>2 DEF Done
  <2> QED BY <2>1, <2>2, DoneFinite, FS_AddElement DEF Counting
<1>3. ASSUME NEW q \in Apps PROVE Cardinality(CellsOf(q)') = Printed(q)'
  <2>1. IsFiniteSet(CellsOf(q))
    <3>1. IsFiniteSet(0 .. cursorpos - 1)
      BY <1>1, FS_Interval
    <3> QED BY <3>1, FS_Subset DEF CellsOf
  <2>2. Cardinality(CellsOf(q)) = Printed(q)
    BY DEF Counting, NothingLost
  <2>3. CASE q = p
    <3>1. CellsOf(q)' = CellsOf(q) \cup {cursorpos}
      BY <1>1, <2>3 DEF CellsOf
    <3>2. cursorpos \notin CellsOf(q)
      BY <1>1 DEF CellsOf
    <3> QED BY <2>1, <2>2, <2>3, <3>1, <3>2, FS_AddElement
  <2>4. CASE q # p
    <3>1. CellsOf(q)' = CellsOf(q)
      BY <1>1, <2>4 DEF CellsOf
    <3> QED BY <2>2, <2>4, <3>1
  <2> QED BY <2>3, <2>4
<1> QED BY <1>2, <1>3 DEF Counting, NothingLost
-----------------------------------------------------------------------------

LEMMA InitIInv == Init => IInv
<1> SUFFICES ASSUME Init PROVE IInv
  OBVIOUS
<1>1. \A p \in Apps : regs[p].eip = "set_priority" /\ regs[p].i = 0 /\ Printed(p) = 0
  BY DEF Init, Entry, Printed
<1>2. TypeOK
  BY AppAssumption DEF Init, TypeOK, Entry, Registers, Labels, Calls
<1>3. MutualExclusion
  BY <1>1 DEF Init, MutualExclusion, InCritical, Critical
<1>4. \A p \in Apps : LocalInv(p)
  BY <1>1 DEF LocalInv, Looping, Critical
<1>5. Done = {}
  BY <1>1 DEF Done
<1>6. \A p \in Apps : CellsOf(p) = {}
  BY DEF CellsOf, Init
<1>7. Counting
  BY <1>1, <1>5, <1>6, FS_EmptySet DEF Init, Counting, NothingLost
<1> QED BY <1>2, <1>3, <1>4, <1>7 DEF IInv

(* The registers after a step of p.                                          *)
LEMMA StepRegisters ==
  ASSUME IInv, NEW p \in Apps, Step(p)
  PROVE  /\ regs'[p] = Succ(regs[p])
         /\ \A q \in Apps \ {p} : regs'[q] = regs[q]
         /\ SYNC_METHOD' = SYNC_METHOD
         /\ regs[p] \in Registers /\ cursorpos \in Nat
         /\ RUNCOUNT \in Nat /\ SYNC_METHOD \in {1, 2}
BY AppAssumption DEF IInv, TypeOK, Step

LEMMA SuccType ==
  ASSUME IInv, NEW p \in Apps
  PROVE  Succ(regs[p]) \in Registers
<1>1. regs[p] \in Registers /\ cursorpos \in Nat /\ RUNCOUNT \in Nat /\ LocalInv(p)
  BY AppAssumption DEF IInv, TypeOK
<1>2. \A i \in Int : LoopHead(i) \in Labels
  BY DEF LoopHead, Labels, Calls
<1> DEFINE r == regs[p]
<1>3. \A l \in Labels : Jump(r, l) \in Registers
  BY <1>1 DEF Jump, Registers
<1>4. CASE r.eip \in {"yield", "print"}
  <2>1. r.i < RUNCOUNT
    BY <1>1, <1>4 DEF LocalInv, Looping
  <2>2. r.i + 1 \in 0 .. RUNCOUNT /\ LoopHead(r.i + 1) \in Labels
    BY <1>1, <1>2, <2>1 DEF Registers
  <2>3. NextIteration(r) \in Registers
    BY <1>1, <2>2 DEF Registers, NextIteration
  <2> QED BY <1>4, <2>3 DEF Succ
<1>5. CASE r.eip = "load"
  <2>1. "store" \in Labels
    BY DEF Labels, Critical
  <2>2. [r EXCEPT !.eip = "store", !.edx = cursorpos] \in Registers
    BY <1>1, <2>1 DEF Registers
  <2> QED BY <1>5, <2>2 DEF Succ
<1>6. CASE r.eip = "get_ticket"
  <2>1. LoopHead(r.i) \in Labels
    BY <1>1, <1>2 DEF Registers
  <2> QED BY <1>3, <1>6, <2>1 DEF Succ
<1>7. CASE r.eip \in {"set_priority", "set_share", "acquire"}
  BY <1>3, <1>7 DEF Succ, Labels, Calls, Critical
<1>8. CASE r.eip \in {"store", "bump", "release"}
  BY <1>3, <1>8 DEF Succ, Labels, Calls, Critical
<1>9. CASE r.eip \in {"exit", "halt"}
  BY <1>3, <1>9 DEF Succ, Labels
<1> QED BY <1>1, <1>4, <1>5, <1>6, <1>7, <1>8, <1>9 DEF Registers, Labels, Calls, Critical

LEMMA StepType ==
  ASSUME IInv, NEW p \in Apps, Step(p)
  PROVE  TypeOK'
<1>1. regs' \in [Apps -> Registers] /\ SYNC_METHOD' \in SyncMethods
  BY SuccType DEF IInv, TypeOK, Step
<1>2. lock' \in {0, 1}
  BY DEF IInv, TypeOK, Step, Effect, Acquire, LoadCursor, StoreChar, BumpCursor, Release,
         SilentCall, PrintCall
<1>3. cursorpos' \in Nat
  BY DEF IInv, TypeOK, Registers, Step, Effect, Acquire, LoadCursor, StoreChar, BumpCursor,
         Release, SilentCall, PrintCall
<1>4. screen' \in [0 .. CELLS - 1 -> Apps \cup {BLANK}]
  BY DEF IInv, TypeOK, Step, Effect, Acquire, LoadCursor, StoreChar, BumpCursor, Release,
         SilentCall, PrintCall
<1> QED BY <1>1, <1>2, <1>3, <1>4 DEF TypeOK

LEMMA OthersKeep ==
  ASSUME IInv, NEW p \in Apps, Step(p), NEW q \in Apps \ {p}
  PROVE  Printed(q)' = Printed(q) /\ InCritical(q)' = InCritical(q)
BY StepRegisters DEF Printed, InCritical

(* A step of p that touches neither the console nor the lock.                *)
LEMMA QuietStep ==
  ASSUME IInv, NEW p \in Apps, Step(p), UNCHANGED <<lock, cursorpos, screen>>,
         InCritical(p)' = InCritical(p), Printed(p)' = Printed(p), LocalInv(p)'
  PROVE  IInv' /\ CharStep(p)
<1>1. \A q \in Apps : Printed(q)' = Printed(q) /\ InCritical(q)' = InCritical(q)
  BY OthersKeep
<1>2. MutualExclusion'
  BY <1>1 DEF IInv, MutualExclusion
<1>3. \A q \in Apps : LocalInv(q)'
  BY StepRegisters DEF IInv, LocalInv
<1>4. Counting'
  BY <1>1, NothingPrinted DEF IInv
<1> QED BY <1>2, <1>3, <1>4, StepType DEF IInv, CharStep

LEMMA AcquireStep ==
  ASSUME IInv, NEW p \in Apps, Step(p), Acquire(regs[p])
  PROVE  IInv' /\ CharStep(p)
<1>1. /\ regs[p].eip = "acquire" /\ lock' = 1 /\ lock \in {0, 1}
      /\ UNCHANGED <<cursorpos, screen>> /\ LocalInv(p)
  BY DEF Acquire, IInv, TypeOK
<1>2. CASE lock = 0
  <2>1. regs'[p].eip = "load" /\ regs'[p].i = regs[p].i
    BY <1>1, <1>2, StepRegisters DEF Succ, Jump, Free, Registers
  <2>2. \A q \in Apps : ~InCritical(q)
    BY <1>2 DEF IInv, MutualExclusion
  <2>3. MutualExclusion'
    <3>1. InCritical(p)' /\ \A q \in Apps \ {p} : ~InCritical(q)'
      BY <2>1, <2>2, OthersKeep DEF InCritical, Critical
    <3> QED BY <1>1, <3>1 DEF MutualExclusion
  <2>4. \A q \in Apps : LocalInv(q)'
    <3>1. LocalInv(p)'
      BY <1>1, <2>1, StepRegisters DEF LocalInv, Looping, Critical
    <3>2. \A q \in Apps \ {p} : LocalInv(q)'
      BY <1>1, StepRegisters DEF IInv, LocalInv
    <3> QED BY <3>1, <3>2
  <2>5. \A q \in Apps : Printed(q)' = Printed(q)
    BY <1>1, <2>1, OthersKeep DEF Printed
  <2>6. Counting'
    BY <1>1, <2>5, NothingPrinted DEF IInv
  <2> QED BY <1>1, <2>3, <2>4, <2>5, <2>6, StepType DEF IInv, CharStep
<1>3. CASE lock = 1
  <2>1. regs'[p].eip = "acquire" /\ regs'[p].i = regs[p].i
    <3>1. ~Free(lock)
      BY <1>3 DEF Free
    <3>2. Succ(regs[p]) = Jump(regs[p], "acquire")
      BY <1>1, <3>1 DEF Succ
    <3> QED BY <3>2, StepRegisters DEF Jump, Registers
  <2>2. LocalInv(p)'
    BY <1>1, <2>1, StepRegisters DEF LocalInv, Looping
  <2>3. Printed(p)' = Printed(p) /\ InCritical(p)' = InCritical(p)
    BY <1>1, <2>1 DEF Printed, InCritical
  <2> QED BY <1>1, <1>3, <2>2, <2>3, QuietStep
<1> QED BY <1>1, <1>2, <1>3

LEMMA LoadStep ==
  ASSUME IInv, NEW p \in Apps, Step(p), LoadCursor(regs[p])
  PROVE  IInv' /\ CharStep(p)
<1>1. /\ regs[p].eip = "load" /\ UNCHANGED <<lock, cursorpos, screen>> /\ LocalInv(p)
  BY DEF LoadCursor, IInv
<1>2. regs'[p].eip = "store" /\ regs'[p].i = regs[p].i /\ regs'[p].edx = cursorpos
  BY <1>1, StepRegisters DEF Succ, Registers
<1>3. LocalInv(p)'
  BY <1>1, <1>2, StepRegisters DEF LocalInv, Looping, Critical
<1>4. Printed(p)' = Printed(p) /\ InCritical(p)' = InCritical(p)
  BY <1>1, <1>2 DEF Printed, InCritical, Critical
<1> QED BY <1>1, <1>3, <1>4, QuietStep

(* While p is in the critical section nobody else prints or holds a cursor.  *)
LEMMA AloneInside ==
  ASSUME IInv, NEW p \in Apps, InCritical(p)
  PROVE  \A q \in Apps \ {p} : ~InCritical(q) /\ regs[q].eip \notin {"store", "bump"}
BY DEF IInv, MutualExclusion, InCritical, Critical

LEMMA StoreStep ==
  ASSUME IInv, NEW p \in Apps, Step(p), StoreChar(p, regs[p])
  PROVE  IInv' /\ CharStep(p)
<1>1. /\ regs[p].eip = "store" /\ UNCHANGED <<lock, cursorpos>> /\ LocalInv(p)
      /\ InCritical(p)
  BY DEF StoreChar, IInv, InCritical, Critical
<1>2. regs[p].edx = cursorpos /\ regs[p].i < RUNCOUNT /\ SYNC_METHOD = 1
  BY <1>1 DEF LocalInv, Looping, Critical
<1>3. cursorpos < CELLS
  <2>1. Printed(p) = regs[p].i
    BY <1>1, StepRegisters DEF Printed, Registers
  <2> QED BY <1>2, <2>1, RoomLeft DEF IInv
<1>4. /\ screen'[cursorpos] = p
      /\ \A c \in 0 .. cursorpos - 1 : screen'[c] = screen[c]
  <2>1. screen \in [0 .. CELLS - 1 -> Apps \cup {BLANK}]
    BY DEF IInv, TypeOK
  <2>2. screen' = [screen EXCEPT ![cursorpos] = p]
    BY <1>2 DEF StoreChar
  <2>3. cursorpos \in 0 .. CELLS - 1 /\ 0 .. cursorpos - 1 \subseteq 0 .. CELLS - 1
    BY <1>3, StepRegisters, AppAssumption
  <2> QED BY <2>1, <2>2, <2>3
<1>5. regs'[p].eip = "bump" /\ regs'[p].i = regs[p].i /\ regs'[p].edx = cursorpos
  BY <1>1, <1>2, StepRegisters DEF Succ, Jump, Registers
<1>6. \A q \in Apps : Printed(q)' = Printed(q) /\ InCritical(q)' = InCritical(q)
  BY <1>1, <1>5, OthersKeep DEF Printed, InCritical, Critical
<1>7. MutualExclusion'
  BY <1>1, <1>6 DEF IInv, MutualExclusion
<1>8. \A q \in Apps : LocalInv(q)'
  <2>1. LocalInv(p)'
    BY <1>1, <1>2, <1>4, <1>5, StepRegisters DEF LocalInv, Looping, Critical
  <2>2. ASSUME NEW q \in Apps \ {p} PROVE LocalInv(q)'
    <3>1. regs[q].eip \notin {"store", "bump"} /\ LocalInv(q)
      BY <1>1, AloneInside DEF IInv
    <3> QED BY <1>1, <3>1, StepRegisters DEF LocalInv
  <2> QED BY <2>1, <2>2
<1>9. Counting'
  BY <1>1, <1>4, <1>6, NothingPrinted DEF IInv
<1> QED BY <1>1, <1>4, <1>6, <1>7, <1>8, <1>9, StepType DEF IInv, CharStep

LEMMA BumpStep ==
  ASSUME IInv, NEW p \in Apps, Step(p), BumpCursor(regs[p])
  PROVE  IInv' /\ CharStep(p)
<1>1. /\ regs[p].eip = "bump" /\ UNCHANGED <<lock, screen>> /\ LocalInv(p)
      /\ InCritical(p)
  BY DEF BumpCursor, IInv, InCritical, Critical
<1>2. /\ regs[p].edx = cursorpos /\ screen[cursorpos] = p
      /\ regs[p].i < RUNCOUNT /\ SYNC_METHOD = 1
  BY <1>1 DEF LocalInv, Looping, Critical
<1>3. cursorpos' = cursorpos + 1
  BY <1>2 DEF BumpCursor
<1>4. regs'[p].eip = "release" /\ regs'[p].i = regs[p].i
  BY <1>1, StepRegisters DEF Succ, Jump, Registers
<1>5. /\ Printed(p) < RUNCOUNT /\ Printed(p)' = Printed(p) + 1
      /\ \A q \in Apps \ {p} : Printed(q)' = Printed(q)
      /\ \A q \in Apps : InCritical(q)' = InCritical(q)
  BY <1>1, <1>2, <1>4, StepRegisters, OthersKeep DEF Printed, InCritical, Critical, Registers
<1>6. MutualExclusion'
  BY <1>1, <1>5 DEF IInv, MutualExclusion
<1>7. \A q \in Apps : LocalInv(q)'
  <2>1. LocalInv(p)'
    BY <1>1, <1>2, <1>4, StepRegisters DEF LocalInv, Looping, Critical
  <2>2. ASSUME NEW q \in Apps \ {p} PROVE LocalInv(q)'
    <3>1. regs[q].eip \notin {"store", "bump"} /\ LocalInv(q)
      BY <1>1, AloneInside DEF IInv
    <3> QED BY <3>1, StepRegisters DEF LocalInv
  <2> QED BY <2>1, <2>2
<1>8. Counting'
  BY <1>1, <1>2, <1>3, <1>5, OnePrinted DEF IInv
<1> QED BY <1>1, <1>2, <1>3, <1>5, <1>6, <1>7, <1>8, StepType DEF IInv, CharStep

LEMMA ReleaseStep ==
  ASSUME IInv, NEW p \in Apps, Step(p), Release(regs[p])
  PROVE  IInv' /\ CharStep(p)
<1>1. /\ regs[p].eip = "release" /\ lock' = 0 /\ UNCHANGED <<cursorpos, screen>>
      /\ LocalInv(p) /\ InCritical(p)
  BY DEF Release, IInv, InCritical, Critical
<1>2. regs'[p].eip = "yield" /\ regs'[p].i = regs[p].i
  BY <1>1, StepRegisters DEF Succ, Jump, Registers
<1>3. \A q \in Apps : Printed(q)' = Printed(q)
  BY <1>1, <1>2, OthersKeep DEF Printed
<1>4. \A q \in Apps : ~InCritical(q)'
  BY <1>1, <1>2, AloneInside, OthersKeep DEF InCritical, Critical
<1>5. MutualExclusion'
  BY <1>1, <1>4 DEF MutualExclusion
<1>6. \A q \in Apps : LocalInv(q)'
  BY <1>1, <1>2, StepRegisters DEF IInv, LocalInv, Looping, Critical
<1>7. Counting'
  BY <1>1, <1>3, NothingPrinted DEF IInv
<1> QED BY <1>1, <1>3, <1>5, <1>6, <1>7, StepType DEF IInv, CharStep

(* The loop counter goes up when the yield or the print returns.             *)
LEMMA IterationRegisters ==
  ASSUME NEW r \in Registers, r.i < RUNCOUNT, RUNCOUNT \in Nat, SYNC_METHOD \in {1, 2}
  PROVE  LET s == NextIteration(r)
         IN  /\ s.i = r.i + 1
             /\ s.eip = "acquire" => SYNC_METHOD = 1 /\ s.i < RUNCOUNT
             /\ s.eip = "print" => SYNC_METHOD = 2 /\ s.i < RUNCOUNT
             /\ s.eip = "exit" => s.i = RUNCOUNT
             /\ s.eip \in {"acquire", "print", "exit"}
<1>1. /\ NextIteration(r).i = r.i + 1
      /\ NextIteration(r).eip = LoopHead(r.i + 1)
  BY DEF NextIteration, Registers
<1>2. r.i + 1 \in 0 .. RUNCOUNT
  BY DEF Registers
<1> QED BY <1>1, <1>2 DEF LoopHead

LEMMA SilentStep ==
  ASSUME IInv, NEW p \in Apps, Step(p), SilentCall(regs[p])
  PROVE  IInv' /\ CharStep(p)
<1>1. /\ regs[p].eip \in {"set_priority", "set_share", "get_ticket", "yield", "exit"}
      /\ UNCHANGED <<lock, cursorpos, screen>> /\ LocalInv(p)
  BY DEF SilentCall, Calls, IInv
<1> SUFFICES /\ InCritical(p)' = InCritical(p)
             /\ Printed(p)' = Printed(p)
             /\ LocalInv(p)'
  BY <1>1, QuietStep
<1>2. CASE regs[p].eip \in {"set_priority", "set_share", "exit"}
  <2>1. /\ regs'[p].i = regs[p].i /\ regs'[p].eip \in {"set_share", "get_ticket", "halt"}
        /\ regs'[p].eip = "halt" => regs[p].eip = "exit"
    BY <1>2, StepRegisters DEF Succ, Jump, Registers
  <2>2. regs'[p].eip = "halt" => regs'[p].i = RUNCOUNT
    BY <1>1, <2>1, StepRegisters DEF LocalInv
  <2> QED BY <1>2, <2>1, <2>2 DEF InCritical, Critical, Printed, LocalInv, Looping
<1>3. CASE regs[p].eip = "get_ticket"
  <2>1. regs'[p].i = regs[p].i /\ regs'[p].eip = LoopHead(regs[p].i)
    BY <1>3, StepRegisters DEF Succ, Jump, Registers
  <2>2. regs[p].i \in 0 .. RUNCOUNT
    BY StepRegisters DEF Registers
  <2> QED BY <1>3, <2>1, <2>2, StepRegisters
          DEF InCritical, Critical, Printed, LocalInv, Looping, LoopHead
<1>4. CASE regs[p].eip = "yield"
  <2>1. regs[p].i < RUNCOUNT
    BY <1>1, <1>4 DEF LocalInv, Looping
  <2>2. regs'[p] = NextIteration(regs[p])
    BY <1>4, StepRegisters DEF Succ
  <2>3. /\ regs'[p].i = regs[p].i + 1
        /\ regs'[p].eip = "acquire" => SYNC_METHOD = 1 /\ regs'[p].i < RUNCOUNT
        /\ regs'[p].eip = "print" => SYNC_METHOD = 2 /\ regs'[p].i < RUNCOUNT
        /\ regs'[p].eip = "exit" => regs'[p].i = RUNCOUNT
        /\ regs'[p].eip \in {"acquire", "print", "exit"}
    BY <2>1, <2>2, StepRegisters, IterationRegisters
  <2>4. InCritical(p)' = InCritical(p)
    BY <1>4, <2>3 DEF InCritical, Critical
  <2>5. Printed(p)' = Printed(p)
    <3>1. regs[p].i \in Nat
      BY StepRegisters DEF Registers
    <3> QED BY <1>4, <2>3, <3>1 DEF Printed
  <2>6. LocalInv(p)'
    BY <2>3, StepRegisters DEF LocalInv, Looping, Critical
  <2> QED BY <2>4, <2>5, <2>6
<1> QED BY <1>1, <1>2, <1>3, <1>4

LEMMA PrintStep ==
  ASSUME IInv, NEW p \in Apps, Step(p), PrintCall(p, regs[p])
  PROVE  IInv' /\ CharStep(p)
<1>1. /\ regs[p].eip = "print" /\ UNCHANGED lock /\ LocalInv(p)
      /\ cursorpos' = cursorpos + 1 /\ screen' = [screen EXCEPT ![cursorpos] = p]
  BY DEF PrintCall, IInv
<1>2. regs[p].i < RUNCOUNT /\ SYNC_METHOD = 2
  BY <1>1 DEF LocalInv
<1>3. Printed(p) = regs[p].i
  BY <1>1, StepRegisters DEF Printed, Registers
<1>4. cursorpos < CELLS
  BY <1>2, <1>3, RoomLeft DEF IInv
<1>5. /\ screen'[cursorpos] = p
      /\ \A c \in 0 .. cursorpos - 1 : screen'[c] = screen[c]
  <2>1. screen \in [0 .. CELLS - 1 -> Apps \cup {BLANK}]
    BY DEF IInv, TypeOK
  <2>2. cursorpos \in 0 .. CELLS - 1 /\ 0 .. cursorpos - 1 \subseteq 0 .. CELLS - 1
    BY <1>4, StepRegisters, AppAssumption
  <2> QED BY <1>1, <2>1, <2>2
<1>6. regs'[p] = NextIteration(regs[p])
  BY <1>1, StepRegisters DEF Succ
<1>7. /\ regs'[p].i = regs[p].i + 1
      /\ regs'[p].eip = "acquire" => SYNC_METHOD = 1 /\ regs'[p].i < RUNCOUNT
      /\ regs'[p].eip = "print" => SYNC_METHOD = 2 /\ regs'[p].i < RUNCOUNT
      /\ regs'[p].eip = "exit" => regs'[p].i = RUNCOUNT
      /\ regs'[p].eip \in {"acquire", "print", "exit"}
  BY <1>2, <1>6, StepRegisters, IterationRegisters
<1>8. Printed(p)' = Printed(p) + 1
  BY <1>3, <1>7, StepRegisters DEF Printed, Registers
<1>9. MutualExclusion'
  <2>1. \A q \in Apps : InCritical(q)' = InCritical(q)
    BY <1>1, <1>7, OthersKeep DEF InCritical, Critical
  <2> QED BY <1>1, <2>1 DEF IInv, MutualExclusion
<1>10. \A q \in Apps : LocalInv(q)'
  <2>1. LocalInv(p)'
    BY <1>7, StepRegisters DEF LocalInv, Looping, Critical
  <2>2. ASSUME NEW q \in Apps \ {p} PROVE LocalInv(q)'
    <3>1. LocalInv(q) /\ regs[q].eip \notin {"store", "bump"}
      BY <1>2 DEF IInv, LocalInv, Looping, Critical
    <3> QED BY <3>1, StepRegisters DEF LocalInv
  <2> QED BY <2>1, <2>2
<1>11. Counting'
  BY <1>1, <1>2, <1>3, <1>5, <1>8, OthersKeep, OnePrinted DEF IInv
<1> QED BY <1>1, <1>2, <1>3, <1>5, <1>8, <1>9, <1>10, <1>11, StepType
        DEF IInv, CharStep

LEMMA StepIInv ==
  ASSUME IInv, NEW p \in Apps, Step(p)
  PROVE  IInv' /\ CharStep(p)
<1>1. \/ Acquire(regs[p]) \/ LoadCursor(regs[p]) \/ StoreChar(p, regs[p])
      \/ BumpCursor(regs[p]) \/ Release(regs[p])
      \/ SilentCall(regs[p]) \/ PrintCall(p, regs[p])
  BY DEF Step, Effect
<1> QED BY <1>1, AcquireStep, LoadStep, StoreStep, BumpStep, ReleaseStep, SilentStep, PrintStep

LEMMA NextIInv ==
  ASSUME IInv, [Next]_appvars
  PROVE  IInv'
<1>1. CASE UNCHANGED appvars
  <2>1. /\ TypeOK' /\ MutualExclusion' /\ \A p \in Apps : LocalInv(p)'
    BY <1>1 DEF appvars, IInv, TypeOK, MutualExclusion, InCritical, LocalInv
  <2>2. Counting'
    BY <1>1, NothingPrinted DEF appvars, IInv, Printed
  <2> QED BY <2>1, <2>2 DEF IInv
<1> QED BY <1>1, StepIInv DEF Next
-----------------------------------------------------------------------------

THEOREM Invariance == Spec => []IInv
<1>1. IInv /\ [Next]_appvars => IInv'
  BY NextIInv
<1> QED BY <1>1, InitIInv, PTL DEF Spec

(* The state keeps its type; no loop runs once too often.                    *)
THEOREM TypeCorrect == Spec => []TypeOK
<1>1. IInv => TypeOK
  BY DEF IInv
<1> QED BY <1>1, Invariance, PTL

(* The spin lock of schedos-1.c:47-51 excludes, for any number of            *)
(* applications.                                                             *)
THEOREM LockExcludes == Spec => []MutualExclusion
<1>1. IInv => MutualExclusion
  BY DEF IInv
<1> QED BY <1>1, Invariance, PTL

(* Under either synchronisation method every printed character is, and       *)
(* stays, on the console.                                                    *)
THEOREM NoCharacterLost == Spec => []NothingLost
<1>1. IInv => NothingLost
  BY DEF IInv, Counting
<1> QED BY <1>1, Invariance, PTL

LEMMA InvCursor ==
  ASSUME IInv
  PROVE  CursorInConsole
<1>1. cursorpos <= CELLS
  BY DoneFinite DEF IInv, Counting
<1>2. ASSUME NEW p \in Apps, regs[p].eip = "store" PROVE regs[p].edx < CELLS
  <2>1. LocalInv(p) /\ regs[p] \in Registers
    BY DEF IInv, TypeOK
  <2>2. regs[p].edx = cursorpos /\ Printed(p) < RUNCOUNT
    BY <1>2, <2>1 DEF LocalInv, Looping, Critical, Printed, Registers
  <2> QED BY <2>2, RoomLeft DEF IInv
<1> QED BY <1>1, <1>2 DEF CursorInConsole

(* The cursor, which no code checks, stays in the console.                   *)
THEOREM CursorStays == Spec => []CursorInConsole
BY InvCursor, Invariance, PTL
=============================================================================
