-------------------------- MODULE SchedOSLibProofs --------------------------
(***************************************************************************)
(* Proofs about lib.c: the memory and string functions (SchedOSMemory) and *)
(* the console output (SchedOSConsole).                                    *)
(***************************************************************************)
EXTENDS SchedOSMemory, SchedOSConsole, SchedOSNaturals, SequenceTheorems

-----------------------------------------------------------------------------
(***************************************************************************)
(* memcpy, memmove, memset, strlen and strnlen are right for every size of *)
(* memory and every sequence of legal calls.  The invariant says how far   *)
(* the loop of the function in progress has come, and that what it still   *)
(* has to read it has not overwritten.                                     *)
(***************************************************************************)

Memories == [Addresses -> Bytes]

NoCall == [fn |-> "none", dst |-> 0, src |-> 0, n |-> 0, c |-> 0]

Writers == Copies \cup {"memset"}

MemoryTypes ==
  /\ mem \in Memories /\ old \in Memories
  /\ running \in BOOLEAN
  /\ d \in Int /\ s \in Int /\ n \in Int
  /\ call \in Calls \cup {NoCall}
  /\ running => call \in Calls /\ Legal(call, old)

(* The part of the destination that has been written. *)
Written == IF Backwards(call) THEN d .. call.dst + call.n - 1 ELSE call.dst .. d - 1

Progress ==
  \A x \in Addresses :
    mem[x] = IF x \in Written THEN Promised(call, old, x) ELSE old[x]

(* Where the pointers of memcpy, memmove and memset stand. *)
Pointers ==
  /\ n \in 0 .. call.n
  /\ d = IF Backwards(call) THEN call.dst + n ELSE call.dst + (call.n - n)
  /\ call.fn \in Copies =>
       s = IF Backwards(call) THEN call.src + n ELSE call.src + (call.n - n)

(* What strlen and strnlen have seen. *)
Counted ==
  /\ mem = old
  /\ n \in Nat /\ s = call.src + n
  /\ call.fn = "strnlen" => n <= call.n
  /\ \A k \in 0 .. n - 1 : call.src + k \in Addresses /\ old[call.src + k] # 0

LoopInv ==
  running =>
    /\ call.fn \in Writers => Pointers /\ Progress
    /\ call.fn \in Strings => Counted

IInv == MemoryTypes /\ LoopInv /\ StandardLibrary

-----------------------------------------------------------------------------

LEMMA CallFields ==
  ASSUME MemoryAssumption, NEW q \in Calls
  PROVE  /\ q.fn \in Writers \cup Strings
         /\ q.dst \in Int /\ q.src \in Int /\ q.n \in Nat /\ q.c \in Bytes
         /\ q.src \in Addresses /\ q.dst \in Addresses
BY DEF Calls, Writers, Copies, Strings, Addresses, MemoryAssumption

(* A copy stays in memory, and from the front it never writes ahead of      *)
(* what it reads.                                                           *)
LEMMA CopyLegal ==
  ASSUME MemoryAssumption, NEW q \in Calls, NEW m \in Memories,
         q.fn \in Copies, Legal(q, m)
  PROVE  /\ Block(q.dst, q.n) \subseteq Addresses
         /\ Block(q.src, q.n) \subseteq Addresses
         /\ ~Backwards(q) => q.dst <= q.src \/ q.src + q.n <= q.dst
<1>1. q.dst \in Int /\ q.src \in Int /\ q.n \in Nat
  BY CallFields
<1>2. /\ Block(q.dst, q.n) \cup Block(q.src, q.n) \subseteq Addresses
      /\ q.fn = "memcpy" => q.dst \notin Block(q.src + 1, q.n - 1)
  BY DEF Legal, Copies
<1>3. ~Backwards(q) => q.dst <= q.src \/ q.src + q.n <= q.dst
  BY <1>1, <1>2 DEF Copies, Backwards, Block
<1> QED BY <1>2, <1>3

(* strlen and strnlen never leave memory. *)
LEMMA StringLegal ==
  ASSUME MemoryAssumption, MemoryTypes, running, Counted,
         call.fn \in Strings, ~Limit
  PROVE  /\ s \in Addresses
         /\ s \in MayRead(call, old)
<1>1. /\ call \in Calls /\ Legal(call, old) /\ call.src \in Addresses /\ call.n \in Nat
      /\ old \in Memories
  BY CallFields DEF MemoryTypes
<1>2. n \in Nat /\ s = call.src + n /\ MEMORY \in Nat
  BY DEF Counted, MemoryAssumption
<1>3. \A y \in call.src .. s - 1 : y \in Addresses /\ old[y] # 0
  <2>1. SUFFICES ASSUME NEW y \in call.src .. s - 1
                 PROVE  y \in Addresses /\ old[y] # 0
    OBVIOUS
  <2>2. call.src \in Int /\ y - call.src \in 0 .. n - 1 /\ call.src + (y - call.src) = y
    BY <1>1, <1>2 DEF Addresses
  <2> QED BY <2>2 DEF Counted
<1>4. s \in Addresses
  <2>1. CASE Terminated(old, call.src)
    <3>1. PICK x \in call.src .. MEMORY - 1 : old[x] = 0
      BY <2>1 DEF Terminated
    <3>2. s <= x
      BY <1>1, <1>2, <1>3, <3>1 DEF Addresses
    <3> QED BY <1>1, <1>2, <3>1, <3>2 DEF Addresses
  <2>2. CASE call.fn = "strnlen" /\ Block(call.src, call.n) \subseteq Addresses
    <3>1. n < call.n
      BY <1>1, <1>2, <2>2 DEF Limit, Counted
    <3> QED BY <1>1, <1>2, <2>2, <3>1 DEF Block, Addresses
  <2> QED BY <1>1, <2>1, <2>2 DEF Legal, Strings, Copies
<1>5. s \in String(old, call.src)
  BY <1>1, <1>2, <1>3, <1>4 DEF String, Addresses
<1>6. call.fn = "strnlen" => s \in Block(call.src, call.n)
  BY <1>1, <1>2 DEF Limit, Counted, Block, Addresses
<1>7. CASE call.fn = "strlen"
  BY <1>4, <1>5, <1>7 DEF MayRead, Copies
<1>8. CASE call.fn = "strnlen"
  BY <1>4, <1>5, <1>6, <1>8 DEF MayRead, Copies
<1> QED BY <1>7, <1>8 DEF Strings

-----------------------------------------------------------------------------

LEMMA InitIInv == ASSUME MemoryAssumption, Init PROVE IInv
<1>1. MemoryTypes
  <2>1. mem \in Memories /\ old \in Memories
    BY DEF Init, Memories
  <2>2. call \in Calls \cup {NoCall}
    BY DEF Init, NoCall
  <2>3. d \in Int /\ s \in Int /\ n \in Int
    BY DEF Init
  <2>4. running \in BOOLEAN /\ ~running
    BY DEF Init
  <2> QED BY <2>1, <2>2, <2>3, <2>4 DEF MemoryTypes
<1>2. call.fn = "none" /\ mem = old /\ looked = {} /\ ~running
  BY DEF Init
<1>3. StandardLibrary
  BY <1>2 DEF StandardLibrary, Promised, Copies, Strings
<1> QED BY <1>1, <1>2, <1>3 DEF IInv, LoopInv

LEMMA CallIInv ==
  ASSUME MemoryAssumption, IInv, NEW q \in Calls, Call(q) PROVE IInv'
<1>1. /\ q.dst \in Int /\ q.src \in Int /\ q.n \in Nat
  BY CallFields
<1>2. /\ call' = q /\ running' = TRUE /\ old' = mem /\ mem' = mem /\ looked' = {}
      /\ mem \in Memories
  BY DEF Call, IInv, MemoryTypes
<1>3. d' \in Int /\ s' \in Int /\ n' \in Int
  BY <1>1 DEF Call
<1>4. MemoryTypes'
  BY <1>2, <1>3 DEF MemoryTypes, Call
<1>5. StandardLibrary'
  BY <1>2 DEF StandardLibrary
<1>6. ASSUME q.fn \in Writers PROVE Pointers' /\ Progress'
  <2>1. q.fn \notin Strings
    BY <1>6 DEF Writers, Copies, Strings
  <2>2. Pointers'
    BY <1>1, <1>2, <2>1 DEF Call, Pointers
  <2>3. Written' = {}
    BY <1>1, <1>2 DEF Call, Written
  <2> QED BY <1>2, <2>2, <2>3 DEF Progress
<1>7. ASSUME q.fn \in Strings PROVE Counted'
  <2>1. ~Backwards(q)
    BY <1>7 DEF Strings, Backwards
  <2>2. n' = 0 /\ s' = q.src
    BY <1>7, <2>1 DEF Call
  <2> QED BY <1>1, <1>2, <2>2 DEF Counted
<1>8. LoopInv'
  BY <1>2, <1>6, <1>7 DEF LoopInv
<1> QED BY <1>4, <1>5, <1>8 DEF IInv

(* One byte of memcpy, memmove or memset: the cell a of the destination     *)
(* gets what was promised, and the cell read, if any, belongs to the source.*)
LEMMA WriteIInv ==
  ASSUME MemoryAssumption, IInv, running, running', call.fn \in Writers,
         UNCHANGED <<call, old>>, Pointers, Pointers',
         NEW a \in Addresses, a \in Block(call.dst, call.n),
         mem' = [mem EXCEPT ![a] = Promised(call, old, a)],
         Written' = Written \cup {a},
         looked' \subseteq MayRead(call, old),
         d' \in Int, s' \in Int, n' \in Int
  PROVE  IInv'
<1>1. /\ mem \in Memories /\ old \in Memories /\ call \in Calls /\ Legal(call, old)
      /\ call.fn \notin Strings
  BY DEF IInv, MemoryTypes, Writers, Copies, Strings
<1>2. Promised(call, old, a) \in Bytes
  <2>1. CASE call.fn \in Copies
    <3>1. call.dst \in Int /\ call.src \in Int /\ call.n \in Nat
      BY <1>1, CallFields
    <3>2. call.src + (a - call.dst) \in Addresses
      BY <1>1, <2>1, <3>1, CopyLegal DEF Block, Addresses
    <3> QED BY <1>1, <2>1, <3>2 DEF Promised, Memories, Copies
  <2>2. CASE call.fn = "memset"
    BY <1>1, <2>2, CallFields DEF Promised, Copies
  <2> QED BY <2>1, <2>2 DEF Writers
<1>3. mem' \in Memories
  BY <1>1, <1>2 DEF Memories
<1>4. MemoryTypes'
  BY <1>1, <1>3 DEF MemoryTypes
<1>5. Progress'
  <2>1. Progress
    BY DEF IInv, LoopInv
  <2> QED BY <1>1, <2>1 DEF Progress, Memories, Promised
<1>6. StandardLibrary'
  <2>1. \A x \in Addresses : mem'[x] \in {old[x], Promised(call, old, x)}
    BY <1>1 DEF IInv, StandardLibrary, Memories
  <2> QED BY <2>1 DEF StandardLibrary, Promised, MayRead
<1> QED BY <1>1, <1>4, <1>5, <1>6 DEF IInv, LoopInv

(* The step of memcpy, or of memmove from the front.                        *)
LEMMA ForwardIInv ==
  ASSUME MemoryAssumption, IInv, running, Forward, UNCHANGED <<call, old>>
  PROVE  IInv'
<1>1. /\ mem \in Memories /\ old \in Memories /\ call \in Calls /\ Legal(call, old)
      /\ call.fn \in Writers /\ call.fn \in Copies /\ ~Backwards(call)
      /\ Pointers /\ Progress /\ StandardLibrary /\ running'
  BY DEF Forward, IInv, MemoryTypes, LoopInv, Writers
<1>2. call.dst \in Int /\ call.src \in Int /\ call.n \in Nat /\ n \in 1 .. call.n
  BY <1>1, CallFields DEF Pointers, Forward
<1>3. d = call.dst + (call.n - n) /\ s = call.src + (call.n - n)
  BY <1>1 DEF Pointers
<1>4. /\ d \in Block(call.dst, call.n) /\ s \in Block(call.src, call.n)
      /\ Block(call.dst, call.n) \subseteq Addresses
      /\ Block(call.src, call.n) \subseteq Addresses
      /\ call.dst <= call.src \/ call.src + call.n <= call.dst
  BY <1>1, <1>2, <1>3, CopyLegal DEF Block
<1>5. s \notin Written
  BY <1>1, <1>2, <1>3, <1>4 DEF Written, Block
<1>6. mem[s] = Promised(call, old, d)
  <2>1. mem[s] = old[s]
    BY <1>1, <1>4, <1>5 DEF Progress
  <2>2. call.src + (d - call.dst) = s
    BY <1>2, <1>3
  <2> QED BY <1>1, <1>4, <2>1, <2>2 DEF Promised, Copies
<1>7. Pointers'
  <2>1. call' = call /\ ~Backwards(call')
    BY <1>1
  <2>2. d' = d + 1 /\ s' = s + 1 /\ n' = n - 1
    BY DEF Forward
  <2>3. n - 1 \in 0 .. call.n /\ d + 1 = call.dst + (call.n - (n - 1))
        /\ s + 1 = call.src + (call.n - (n - 1))
    BY <1>2, <1>3
  <2> QED BY <2>1, <2>2, <2>3 DEF Pointers
<1>8. Written' = Written \cup {d}
  BY <1>1, <1>2, <1>3 DEF Written, Forward, Backwards
<1>9. looked' \subseteq MayRead(call, old)
  BY <1>1, <1>4 DEF Forward, StandardLibrary, MayRead, Copies
<1>10. d' \in Int /\ s' \in Int /\ n' \in Int
  BY <1>2, <1>3 DEF Forward
<1>11. mem' = [mem EXCEPT ![d] = Promised(call, old, d)]
  BY <1>6 DEF Forward
<1> QED BY <1>1, <1>4, <1>7, <1>8, <1>9, <1>10, <1>11, WriteIInv

(* The step of memmove from the end.                                        *)
LEMMA BackwardIInv ==
  ASSUME MemoryAssumption, IInv, running, Backward, UNCHANGED <<call, old>>
  PROVE  IInv'
<1>1. /\ mem \in Memories /\ old \in Memories /\ call \in Calls /\ Legal(call, old)
      /\ call.fn \in Writers /\ call.fn \in Copies /\ Backwards(call)
      /\ Pointers /\ Progress /\ StandardLibrary /\ running'
  BY DEF Backward, IInv, MemoryTypes, LoopInv, Writers
<1>2. call.dst \in Int /\ call.src \in Int /\ call.n \in Nat /\ n \in 1 .. call.n
  BY <1>1, CallFields DEF Pointers, Backward
<1>3. d = call.dst + n /\ s = call.src + n /\ call.src < call.dst
  BY <1>1 DEF Pointers, Backwards
<1>4. /\ d - 1 \in Block(call.dst, call.n) /\ s - 1 \in Block(call.src, call.n)
      /\ Block(call.dst, call.n) \subseteq Addresses
      /\ Block(call.src, call.n) \subseteq Addresses
  BY <1>1, <1>2, <1>3, CopyLegal DEF Block
<1>5. s - 1 \notin Written
  BY <1>1, <1>2, <1>3 DEF Written
<1>6. mem[s - 1] = Promised(call, old, d - 1)
  <2>1. mem[s - 1] = old[s - 1]
    BY <1>1, <1>4, <1>5 DEF Progress
  <2>2. call.src + ((d - 1) - call.dst) = s - 1
    BY <1>2, <1>3
  <2> QED BY <1>1, <1>4, <2>1, <2>2 DEF Promised, Copies
<1>7. Pointers'
  BY <1>1, <1>2, <1>3 DEF Backward, Pointers, Backwards
<1>8. Written' = Written \cup {d - 1}
  BY <1>1, <1>2, <1>3 DEF Written, Backward, Backwards
<1>9. looked' \subseteq MayRead(call, old)
  BY <1>1, <1>4 DEF Backward, StandardLibrary, MayRead, Copies
<1>10. d' \in Int /\ s' \in Int /\ n' \in Int
  BY <1>2, <1>3 DEF Backward
<1>11. mem' = [mem EXCEPT ![d - 1] = Promised(call, old, d - 1)]
  BY <1>6 DEF Backward
<1> QED BY <1>1, <1>4, <1>7, <1>8, <1>9, <1>10, <1>11, WriteIInv

(* The step of memset.                                                      *)
LEMMA SetIInv ==
  ASSUME MemoryAssumption, IInv, running, Set, UNCHANGED <<call, old>>
  PROVE  IInv'
<1>1. /\ call \in Calls /\ Legal(call, old) /\ s \in Int
      /\ call.fn \in Writers /\ call.fn = "memset" /\ ~Backwards(call)
      /\ Pointers /\ Progress /\ StandardLibrary /\ running'
  BY DEF Set, IInv, MemoryTypes, LoopInv, Writers, Backwards
<1>2. call.dst \in Int /\ call.n \in Nat /\ n \in 1 .. call.n
  BY <1>1, CallFields DEF Pointers, Set
<1>3. d = call.dst + (call.n - n)
  BY <1>1 DEF Pointers
<1>4. d \in Block(call.dst, call.n) /\ Block(call.dst, call.n) \subseteq Addresses
  BY <1>1, <1>2, <1>3 DEF Block, Legal, Copies
<1>5. Promised(call, old, d) = call.c
  BY <1>1, <1>4 DEF Promised, Copies
<1>6. Pointers'
  BY <1>1, <1>2, <1>3 DEF Set, Pointers, Backwards, Copies
<1>7. Written' = Written \cup {d}
  BY <1>1, <1>2, <1>3 DEF Written, Set, Backwards
<1>8. looked' \subseteq MayRead(call, old)
  BY <1>1 DEF Set, StandardLibrary
<1>9. d' \in Int /\ s' \in Int /\ n' \in Int
  BY <1>1, <1>2, <1>3 DEF Set
<1>10. mem' = [mem EXCEPT ![d] = Promised(call, old, d)]
  BY <1>5 DEF Set
<1> QED BY <1>1, <1>4, <1>6, <1>7, <1>8, <1>9, <1>10, WriteIInv

(* What strlen and strnlen return, when they do: the character at s ended   *)
(* the search, or maxlen did.                                               *)
LEMMA Found ==
  ASSUME MemoryAssumption, MemoryTypes, Counted, call \in Calls, call.fn \in Strings,
         Limit \/ mem[s] = 0
  PROVE  IsLength(call, old, n)
<1>1. /\ \A k \in 0 .. n - 1 : old[call.src + k] # 0
      /\ call.fn = "strnlen" => n <= call.n
      /\ mem = old /\ s = call.src + n
  BY DEF Counted
<1> QED BY <1>1 DEF IsLength, Limit

(* For strlen and strnlen the memory promised is the old one.               *)
LEMMA StringsWriteNothing ==
  ASSUME call.fn \in Strings, NEW x \in Addresses
  PROVE  Promised(call, old, x) = old[x]
BY DEF Promised, Strings, Copies

LEMMA CountIInv ==
  ASSUME MemoryAssumption, IInv, running, Count, UNCHANGED <<call, old>>
  PROVE  IInv'
<1>1. /\ MemoryTypes /\ call \in Calls /\ Legal(call, old) /\ call.fn \in Strings /\ ~Limit
      /\ call.fn \notin Writers /\ Counted /\ StandardLibrary /\ mem' = mem /\ mem = old
  BY DEF Count, IInv, MemoryTypes, LoopInv, Counted, Strings, Writers, Copies
<1>2. call.src \in Int /\ call.n \in Nat
  BY <1>1, CallFields
<1>3. s \in Addresses /\ s \in MayRead(call, old)
  BY <1>1, StringLegal
<1>4. looked' \subseteq MayRead(call, old)
  BY <1>1, <1>3 DEF Count, StandardLibrary
<1>5. \A x \in Addresses : mem[x] = Promised(call, old, x)
  BY <1>1, StringsWriteNothing
<1>6. CASE mem[s] = 0
  <2>1. running' = FALSE /\ UNCHANGED locals
    BY <1>6 DEF Count
  <2>2. IsLength(call, old, n)
    BY <1>1, <1>6, Found
  <2>3. MemoryTypes'
    BY <1>1, <2>1 DEF MemoryTypes, locals
  <2>4. StandardLibrary'
    BY <1>1, <1>4, <1>5, <2>1, <2>2
       DEF StandardLibrary, locals, Promised, IsLength, MayRead
  <2> QED BY <2>1, <2>3, <2>4 DEF IInv, LoopInv
<1>7. CASE mem[s] # 0
  <2>1. s' = s + 1 /\ n' = n + 1 /\ d' = d /\ running'
    BY <1>7 DEF Count
  <2>2. n \in Nat /\ s = call.src + n
    BY <1>1 DEF Counted
  <2>3. MemoryTypes'
    BY <1>1, <2>1 DEF MemoryTypes
  <2>4. Counted'
    <3>1. call.fn = "strnlen" => n + 1 <= call.n
      BY <1>1, <1>2, <2>2 DEF Counted, Limit
    <3>2. \A k \in 0 .. n : call.src + k \in Addresses /\ old[call.src + k] # 0
      BY <1>1, <1>2, <1>3, <1>7, <2>2 DEF Counted
    <3> QED BY <1>1, <1>2, <2>1, <2>2, <3>1, <3>2 DEF Counted
  <2>5. StandardLibrary'
    BY <1>1, <1>4, <1>5, <2>1 DEF StandardLibrary, Promised, MayRead
  <2> QED BY <1>1, <2>3, <2>4, <2>5 DEF IInv, LoopInv
<1> QED BY <1>6, <1>7

LEMMA ReturnIInv ==
  ASSUME MemoryAssumption, IInv, running, Return, UNCHANGED <<call, old>>
  PROVE  IInv'
<1>1. /\ MemoryTypes /\ call \in Calls /\ Legal(call, old) /\ StandardLibrary
      /\ UNCHANGED <<mem, d, s, n, looked>> /\ running' = FALSE
  BY DEF Return, IInv, MemoryTypes, locals
<1>2. MemoryTypes'
  BY <1>1 DEF MemoryTypes
<1>3. \A x \in Addresses : mem[x] = Promised(call, old, x)
  <2>1. CASE call.fn \in Strings
    BY <2>1, StringsWriteNothing DEF IInv, LoopInv, Counted
  <2>2. CASE call.fn \in Writers
    <3>1. /\ n = 0 /\ Pointers /\ Progress
          /\ call.dst \in Int /\ call.n \in Nat
      BY <1>1, <2>2, CallFields DEF Return, IInv, LoopInv, Writers, Copies, Strings
    <3>2. Written = Block(call.dst, call.n)
      BY <3>1 DEF Written, Block, Pointers
    <3>3. \A x \in Addresses : x \notin Written => Promised(call, old, x) = old[x]
      BY <3>2 DEF Promised
    <3> QED BY <3>1, <3>3 DEF Progress
  <2> QED BY <1>1, <2>1, <2>2, CallFields
<1>4. call.fn \in Strings => IsLength(call, old, n)
  BY <1>1, Found DEF Return, IInv, LoopInv
<1>5. StandardLibrary'
  BY <1>1, <1>3, <1>4 DEF StandardLibrary, Promised, IsLength, MayRead
<1> QED BY <1>1, <1>2, <1>5 DEF IInv, LoopInv

LEMMA NextIInv == ASSUME MemoryAssumption, IInv, [Next]_vars PROVE IInv'
<1>1. CASE Step
  BY <1>1, ForwardIInv, BackwardIInv, SetIInv, CountIInv, ReturnIInv DEF Step
<1>2. CASE \E q \in Calls : Call(q)
  BY <1>2, CallIInv
<1>3. CASE UNCHANGED vars
  BY <1>3 DEF vars, locals, IInv, MemoryTypes, LoopInv, StandardLibrary, Pointers, Progress,
              Counted, Written, Backwards, Promised, IsLength, MayRead
<1> QED BY <1>1, <1>2, <1>3 DEF Next

(***************************************************************************)
(* memcpy, memmove, memset, strlen and strnlen write only into their       *)
(* destination, read only what they were given, and return what the        *)
(* standard functions do: for any size of memory, any contents, and any    *)
(* arguments that their callers may pass, overlapping blocks included.     *)
(***************************************************************************)
THEOREM LibraryIsStandard == Spec => []StandardLibrary
<1>1. Init => IInv
  BY InitIInv, MemoryAssumption
<1>2. IInv /\ [Next]_vars => IInv'
  BY NextIInv, MemoryAssumption
<1>3. IInv => StandardLibrary
  BY DEF IInv
<1> QED BY <1>1, <1>2, <1>3, PTL DEF Spec

-----------------------------------------------------------------------------
(***************************************************************************)
(* The screen shows the end of what was printed, for every sequence of     *)
(* characters and directives, and a conversion fills its field.            *)
(*                                                                         *)
(* The tape has every cell written, and the cursor stands where it ends,   *)
(* modulo the size of the screen: a newline fills its line, and behind the *)
(* last cell comes the first.  The digits of a number are a recursive      *)
(* function of it; the lemma NumbufSeq says what it returns.               *)
(***************************************************************************)

IsSequence(q) == \E S : q \in Seq(S)

ConsoleInv ==
  /\ IsSequence(tape)
  /\ DOMAIN screen = 0 .. CELLS - 1
  /\ ShowsTape

(* The console has whole lines.                                              *)
LEMMA Cells ==
  /\ COLUMNS \in Nat \ {0} /\ ROWS \in Nat \ {0} /\ CELLS \in Nat \ {0}
  /\ CELLS = ROWS * COLUMNS
<1>1. COLUMNS \in Nat \ {0} /\ ROWS \in Nat \ {0}
  BY ConsoleSize
<1>2. CELLS = ROWS * COLUMNS
  BY <1>1 DEF CELLS
<1>3. 1 * COLUMNS <= ROWS * COLUMNS /\ ROWS * COLUMNS \in Int
  BY <1>1, TimesMonotonic
<1> QED BY <1>1, <1>2, <1>3

(* The next cell is where the tape ends, and in the column where it ends; up *)
(* to the end of the line there is room.                                     *)
LEMMA EndOfTape ==
  ASSUME ConsoleInv, NEW c
  PROVE  LET T == Len(tape)
             f == Fill(c, Here % COLUMNS)
         IN  /\ T \in Nat /\ Here \in 0 .. CELLS - 1
             /\ Here = T % CELLS
             /\ Here % COLUMNS = T % COLUMNS /\ T % COLUMNS \in 0 .. COLUMNS - 1
             /\ f \in Nat \ {0} /\ Here + f <= CELLS
<1>1. PICK T : T = Len(tape)
  OBVIOUS
<1>2. T \in Nat
  BY <1>1, LenProperties DEF ConsoleInv, IsSequence
<1>3. PICK h, k : h = T % CELLS /\ k = T \div CELLS
  OBVIOUS
<1>4. h \in 0 .. CELLS - 1 /\ k \in Int /\ T = k * CELLS + h
  <2>1. CELLS \in Nat \ {0} /\ T \in Int
    BY <1>2, Cells
  <2>2. T % CELLS \in 0 .. CELLS - 1 /\ T \div CELLS \in Int /\ T = (T \div CELLS) * CELLS + (T % CELLS)
    BY <2>1, Division
  <2> QED BY <1>3, <2>2
<1>5. Here = h
  <2>1. cursor = IF tape # <<>> /\ h = 0 THEN CELLS ELSE h
    BY <1>1, <1>3 DEF ConsoleInv, ShowsTape
  <2>2. CASE tape # <<>> /\ h = 0
    BY <2>1, <2>2, Cells DEF Here
  <2>3. CASE ~ (tape # <<>> /\ h = 0)
    BY <1>4, <2>1, <2>3, Cells DEF Here
  <2> QED BY <2>2, <2>3
<1>6. PICK p, q : p = h % COLUMNS /\ q = h \div COLUMNS
  OBVIOUS
<1>7. p \in 0 .. COLUMNS - 1 /\ q \in Int /\ h = q * COLUMNS + p
  BY <1>4, <1>6, Cells, Division
<1>8. p = T % COLUMNS
  <2>1. PICK r, l : r = T % COLUMNS /\ l = T \div COLUMNS
    OBVIOUS
  <2>2. r \in 0 .. COLUMNS - 1 /\ l \in Int /\ T = l * COLUMNS + r
    BY <1>2, <2>1, Cells, Division
  <2>3. k * CELLS = (k * ROWS) * COLUMNS /\ k * ROWS \in Int
    BY <1>4, Cells
  <2>4. PICK m : m = k * ROWS
    OBVIOUS
  <2>5. (m + q) * COLUMNS = m * COLUMNS + q * COLUMNS /\ m \in Int
    BY <1>7, <2>3, <2>4, Cells, TimesAdd
  <2>6. m * COLUMNS \in Int /\ q * COLUMNS \in Int
    BY <1>7, <2>5, Cells
  <2>7. (m + q) * COLUMNS + p = l * COLUMNS + r
    BY <1>4, <1>7, <2>2, <2>3, <2>4, <2>5, <2>6
  <2>8. p = r
    BY <1>7, <2>2, <2>5, <2>7, m + q \in Int, Cells, DivisionUnique
  <2> QED BY <2>1, <2>8
<1>9. q + 1 <= ROWS
  <2>1. SUFFICES ASSUME ROWS <= q PROVE FALSE
    BY <1>7, Cells
  <2>2. ROWS * COLUMNS <= q * COLUMNS /\ q * COLUMNS \in Int
    BY <1>7, <2>1, Cells, TimesMonotonic
  <2> QED BY <1>4, <1>7, <2>2, Cells
<1>10. h - p + COLUMNS <= CELLS
  <2>1. (q + 1) * COLUMNS <= ROWS * COLUMNS
    BY <1>7, <1>9, Cells, TimesMonotonic
  <2>2. (q + 1) * COLUMNS = q * COLUMNS + COLUMNS /\ q * COLUMNS \in Int
    BY <1>7, Cells, TimesSucc
  <2> QED BY <1>7, <2>1, <2>2, Cells
<1>11. PICK f : f = Fill(c, p)
  OBVIOUS
<1>12. f \in Nat \ {0} /\ h + f <= CELLS
  BY <1>4, <1>7, <1>10, <1>11, Cells DEF Fill
<1> QED BY <1>1, <1>2, <1>3, <1>4, <1>5, <1>6, <1>7, <1>8, <1>11, <1>12, Zenon

LEMMA TimesSeq ==
  ASSUME NEW b, NEW N \in Int
  PROVE  /\ Times(b, N) \in Seq({b})
         /\ Len(Times(b, N)) = IF N > 0 THEN N ELSE 0
         /\ \A i \in 1 .. N : Times(b, N)[i] = b
         /\ N <= 0 => Times(b, N) = <<>>
<1>1. CASE N > 0
  <2>1. Times(b, N) \in [1 .. N -> {b}] /\ N \in Nat
    BY <1>1 DEF Times
  <2>2. \A i \in 1 .. N : Times(b, N)[i] = b
    BY <1>1 DEF Times
  <2> QED BY <1>1, <2>1, <2>2
<1>2. CASE ~ (N > 0)
  <2>1. 1 .. N = {}
    BY <1>2
  <2>2. Times(b, N) = <<>>
    BY <2>1 DEF Times
  <2> QED BY <1>2, <2>1, <2>2
<1> QED BY <1>1, <1>2

(* What is typed goes where the cursor goes.                                 *)
LEMMA TypedCells ==
  ASSUME NEW c, NEW f \in Nat, f = Fill(c, Len(tape) % COLUMNS)
  PROVE  /\ Typed(c) \in Seq({Shape(c)}) /\ Len(Typed(c)) = f
         /\ \A i \in 1 .. f : Typed(c)[i] = Shape(c)
<1>3. PICK N : N = f
  OBVIOUS
<1>4. N \in Int /\ N >= 0
  BY <1>3
<1>1. CASE c = "\n"
  <2> DEFINE row == [i \in 1 .. f |-> Cell(" ")]
  <2>1. Typed(c) = row /\ Shape(c) = Cell(" ")
    BY <1>1 DEF Typed, Fill, Shape
  <2>2. row = Times(Cell(" "), f)
    BY DEF Times
  <2>3. row \in Seq({Cell(" ")}) /\ Len(row) = f /\ \A i \in 1 .. f : row[i] = Cell(" ")
    <3>1. PICK b : b = Cell(" ")
      OBVIOUS
    <3>2. Times(b, N) \in Seq({b}) /\ Len(Times(b, N)) = N /\ \A i \in 1 .. N : Times(b, N)[i] = b
      <4>1. /\ Times(b, N) \in Seq({b}) /\ Len(Times(b, N)) = IF N > 0 THEN N ELSE 0
            /\ \A i \in 1 .. N : Times(b, N)[i] = b
        BY <1>4, TimesSeq
      <4>2. (IF N > 0 THEN N ELSE 0) = N
        BY <1>4
      <4> QED BY <4>1, <4>2
    <3> QED BY <1>3, <2>2, <3>1, <3>2, Zenon
  <2> QED BY <2>1, <2>3
<1>2. CASE c # "\n"
  BY <1>2 DEF Typed, Fill, Shape
<1> QED BY <1>1, <1>2

LEMMA PutKeeps ==
  ASSUME ConsoleInv, console_putc
  PROVE  ConsoleInv'
<1>1. PICK c, f, T, h : /\ c = Head(pending) /\ f = Fill(c, Here % COLUMNS)
                        /\ T = Len(tape) /\ h = Here
  OBVIOUS
<1>2. /\ T \in Nat /\ h \in 0 .. CELLS - 1 /\ h = T % CELLS
      /\ f = Fill(c, T % COLUMNS)
      /\ f \in Nat \ {0} /\ h + f <= CELLS
  BY <1>1, EndOfTape
<1>3. CELLS \in Nat \ {0}
  BY Cells
<1>4. PICK k \in Int : T = k * CELLS + h
  <2>1. T \in Int /\ h = T % CELLS
    BY <1>2
  <2>2. T \div CELLS \in Int /\ T = (T \div CELLS) * CELLS + (T % CELLS)
    BY <1>3, <2>1, Division
  <2> QED BY <2>1, <2>2
<1>5. k * CELLS \in Int
  BY <1>3
<1>6. PICK S : tape \in Seq(S)
  BY DEF ConsoleInv, IsSequence
<1>7. PICK add : add = Typed(c)
  OBVIOUS
<1>8. /\ add \in Seq({Shape(c)}) /\ Len(add) = f
      /\ \A i \in 1 .. f : add[i] = Shape(c)
  BY <1>1, <1>2, <1>7, TypedCells
<1>9. PICK U : U = S \cup {Shape(c)}
  OBVIOUS
<1>10. tape \in Seq(U) /\ add \in Seq(U)
  BY <1>6, <1>8, <1>9, SeqMonotonic
<1>11. /\ tape \o add \in Seq(U) /\ Len(tape \o add) = T + f
       /\ \A i \in 1 .. T + f : (tape \o add)[i] = IF i <= T THEN tape[i] ELSE add[i - T]
  <2>1. Len(tape) = T /\ Len(add) = f
    BY <1>1, <1>8
  <2>2. /\ tape \o add \in Seq(U) /\ Len(tape \o add) = Len(tape) + Len(add)
        /\ \A i \in 1 .. Len(tape) + Len(add) :
             (tape \o add)[i] = IF i <= Len(tape) THEN tape[i] ELSE add[i - Len(tape)]
    BY <1>10, ConcatProperties
  <2> QED BY <2>1, <2>2
<1>12. /\ tape' = tape \o add /\ cursor' = h + f
       /\ screen' = [x \in DOMAIN screen |->
                       IF h <= x /\ x < h + f THEN Shape(c) ELSE screen[x]]
  BY <1>1, <1>7 DEF console_putc
<1>13. DOMAIN screen = 0 .. CELLS - 1
  BY DEF ConsoleInv
<1>14. /\ DOMAIN screen' = 0 .. CELLS - 1
       /\ \A x \in 0 .. CELLS - 1 :
            screen'[x] = IF h <= x /\ x < h + f THEN Shape(c) ELSE screen[x]
  BY <1>12, <1>13
<1>15. cursor' = IF tape' # <<>> /\ Len(tape') % CELLS = 0 THEN CELLS ELSE Len(tape') % CELLS
  <2>1. PICK g, e : g = (T + f) % CELLS /\ e = (T + f) \div CELLS
    OBVIOUS
  <2>2. g \in 0 .. CELLS - 1 /\ e \in Int /\ T + f = e * CELLS + g
    <3>1. T + f \in Int
      BY <1>2
    <3> QED BY <1>3, <2>1, <3>1, Division
  <2>3. CASE h + f < CELLS
    <3>1. k * CELLS + (h + f) = e * CELLS + g
      BY <1>2, <1>4, <1>5, <2>2
    <3>2. PICK b : b = h + f
      OBVIOUS
    <3>3. b \in 0 .. CELLS - 1 /\ k * CELLS + b = e * CELLS + g
      BY <1>2, <1>3, <2>3, <3>1, <3>2
    <3>4. b = g
      <4>1. Splits(T + f, CELLS, e, g) /\ Splits(k * CELLS + b, CELLS, k, b)
        BY <2>2, <3>3 DEF Splits
      <4>2. T + f = k * CELLS + b
        BY <2>2, <3>3
      <4> QED BY <1>3, <4>1, <4>2, SplitsOnce
    <3>5. g # 0
      BY <1>2, <3>2, <3>4
    <3> QED BY <1>11, <1>12, <2>1, <3>2, <3>4, <3>5, Zenon
  <2>4. CASE h + f = CELLS
    <3>1. (k + 1) * CELLS = k * CELLS + CELLS
      BY <1>3, TimesSucc
    <3>2. (k + 1) * CELLS + 0 = e * CELLS + g
      BY <1>2, <1>3, <1>4, <1>5, <2>2, <2>4, <3>1
    <3>3. 0 = g
      <4>1. 0 \in 0 .. CELLS - 1 /\ k + 1 \in Int
        BY <1>3
      <4>2. Splits((k + 1) * CELLS + 0, CELLS, k + 1, 0)
        BY <4>1 DEF Splits
      <4>3. Splits((k + 1) * CELLS + 0, CELLS, e, g)
        BY <2>2, <3>2 DEF Splits
      <4> QED BY <1>3, <4>2, <4>3, SplitsOnce
    <3>4. tape' # <<>>
      <4>1. T + f # 0
        BY <1>2
      <4> QED BY <1>11, <1>12, <4>1, EmptySeq
    <3> QED BY <1>11, <1>12, <2>1, <2>4, <3>3, <3>4, Zenon
  <2> QED BY <1>2, <1>3, <2>3, <2>4
<1>16. ASSUME NEW i \in 1 .. T + f, i + CELLS > T + f
       PROVE  screen'[(i - 1) % CELLS] = (tape \o add)[i]
  <2>1. PICK g, e : g = (i - 1) % CELLS /\ e = (i - 1) \div CELLS
    OBVIOUS
  <2>2. g \in 0 .. CELLS - 1 /\ e \in Int /\ i - 1 = e * CELLS + g
    <3>1. i - 1 \in Int
      BY <1>2, <1>16
    <3> QED BY <1>3, <2>1, <3>1, Division
  <2>3. CASE i > T
    <3>1. PICK b : b = h + (i - 1 - T)
      OBVIOUS
    <3>2. b \in 0 .. CELLS - 1 /\ h <= b /\ b < h + f
      BY <1>2, <1>3, <1>16, <2>3, <3>1
    <3>3. k * CELLS + b = e * CELLS + g
      <4>1. i \in Int /\ T \in Int /\ h \in Int
        BY <1>2, <1>16
      <4> QED BY <1>4, <1>5, <2>2, <3>1, <4>1
    <3>4. b = g
      <4>1. b \in 0 .. CELLS - 1 /\ k \in Int
        BY <3>2
      <4>2. g \in 0 .. CELLS - 1 /\ e \in Int
        BY <2>2
      <4> QED BY <1>3, <3>3, <4>1, <4>2, DivisionUnique
    <3>5. screen'[g] = Shape(c)
      BY <1>14, <3>2, <3>4
    <3>6. i - T \in 1 .. f /\ ~ (i <= T)
      BY <1>2, <1>16, <2>3
    <3>7. (tape \o add)[i] = Shape(c)
      BY <1>8, <1>11, <1>16, <3>6
    <3> QED BY <2>1, <3>5, <3>7
  <2>4. CASE ~ (i > T)
    <3>1. i \in 1 .. T /\ i + CELLS > T
      BY <1>2, <1>3, <1>16, <2>4
    <3>2. screen[g] = tape[i]
      BY <1>1, <2>1, <3>1 DEF ConsoleInv, ShowsTape
    <3>3. ~ (h <= g /\ g < h + f)
      <4>1. SUFFICES ASSUME h <= g, g < h + f PROVE FALSE
        OBVIOUS
      <4>2. e < k
        <5>1. SUFFICES ASSUME k <= e PROVE FALSE
          BY <2>2
        <5>2. k * CELLS <= e * CELLS /\ e * CELLS \in Int
          BY <1>3, <2>2, <5>1, TimesMonotonic
        <5> QED BY <1>2, <1>4, <1>5, <2>2, <3>1, <4>1, <5>2
      <4>3. (e + 1) * CELLS <= k * CELLS
        BY <1>3, <2>2, <4>2, TimesMonotonic
      <4>4. (e + 1) * CELLS = e * CELLS + CELLS /\ e * CELLS \in Int
        BY <1>3, <2>2, TimesSucc
      <4> QED BY <1>2, <1>3, <1>4, <1>5, <1>16, <2>2, <4>1, <4>3, <4>4
    <3>4. screen'[g] = screen[g]
      BY <1>14, <2>2, <3>3
    <3>5. (tape \o add)[i] = tape[i]
      BY <1>11, <1>16, <2>4, <3>1
    <3> QED BY <2>1, <3>2, <3>4, <3>5
  <2> QED BY <2>3, <2>4
<1>17. ASSUME NEW x \in 0 .. CELLS - 1, x >= T + f PROVE screen'[x] = Empty
  <2>1. T \in 0 .. CELLS - 1
    BY <1>2, <1>3, <1>17
  <2>2. 0 * CELLS + T = k * CELLS + h /\ 0 \in Int
    BY <1>2, <1>3, <1>4
  <2>3. T = h
    BY <1>2, <1>3, <2>1, <2>2, DivisionUnique
  <2>4. screen[x] = Empty
    BY <1>1, <1>2, <1>13, <1>17 DEF ConsoleInv, ShowsTape
  <2>5. ~ (x < h + f)
    BY <1>2, <1>17, <2>3
  <2> QED BY <1>14, <2>4, <2>5
<1>18. ShowsTape'
  BY <1>11, <1>12, <1>14, <1>15, <1>16, <1>17, Cells DEF ShowsTape, CELLS
<1>19. IsSequence(tape')
  BY <1>11, <1>12 DEF IsSequence
<1> QED BY <1>14, <1>18, <1>19 DEF ConsoleInv, IsSequence, CELLS

LEMMA ConsoleStarts == ConsoleInit => ConsoleInv
<1> SUFFICES ASSUME ConsoleInit PROVE ConsoleInv
  OBVIOUS
<1>1. PICK T : T = cursor
  OBVIOUS
<1>2. T \in 0 .. CELLS /\ T \in Nat /\ CELLS \in Nat \ {0}
  BY <1>1, Cells DEF ConsoleInit
<1>3. screen = [x \in 0 .. CELLS - 1 |-> Empty] /\ tape = [i \in 1 .. T |-> Empty]
  BY <1>1 DEF ConsoleInit
<1>4. tape \in [1 .. T -> {Empty}]
  BY <1>3
<1>5. tape \in Seq({Empty}) /\ Len(tape) = T
  BY <1>2, <1>4
<1>6. T = IF tape # <<>> /\ T % CELLS = 0 THEN CELLS ELSE T % CELLS
  <2>1. CASE T = CELLS
    <3>1. T % CELLS = 0
      BY <1>2, <2>1
    <3>2. tape # <<>>
      BY <1>2, <1>5, <2>1, EmptySeq
    <3> QED BY <2>1, <3>1, <3>2
  <2>2. CASE T # CELLS
    <3>1. T \in 0 .. CELLS - 1
      BY <1>2, <2>2
    <3>2. PICK g, e : g = T % CELLS /\ e = T \div CELLS
      OBVIOUS
    <3>3. g \in 0 .. CELLS - 1 /\ e \in Int /\ T = e * CELLS + g
      BY <1>2, <3>2, Division
    <3>4. 0 * CELLS + T = e * CELLS + g /\ 0 \in Int
      BY <1>2, <3>3
    <3>5. T = g
      BY <1>2, <3>1, <3>3, <3>4, DivisionUnique
    <3>6. T = 0 => tape = <<>>
      BY <1>5, EmptySeq
    <3> QED BY <3>2, <3>5, <3>6, Zenon
  <2> QED BY <2>1, <2>2
<1>7. ASSUME NEW i \in 1 .. T, i + CELLS > T PROVE screen[(i - 1) % CELLS] = tape[i]
  <2>1. i - 1 \in Int
    BY <1>2
  <2>2. (i - 1) % CELLS \in 0 .. CELLS - 1
    BY <1>2, <2>1, Division
  <2> QED BY <1>3, <2>2
<1>8. ShowsTape
  BY <1>1, <1>3, <1>5, <1>6, <1>7 DEF ShowsTape
<1> QED BY <1>3, <1>5, <1>8 DEF ConsoleInv, IsSequence

(***************************************************************************)
(* For a console of any size and any format, the screen shows the end of   *)
(* all that was written.                                                   *)
(***************************************************************************)
THEOREM ScreenShowsTape == ConsoleSpec => []ShowsTape
<1>1. ConsoleInv /\ [ConsoleNext]_consolevars => ConsoleInv'
  <2> SUFFICES ASSUME ConsoleInv, [ConsoleNext]_consolevars PROVE ConsoleInv'
    OBVIOUS
  <2>1. CASE console_putc
    BY <2>1, PutKeeps
  <2>2. CASE UNCHANGED <<cursor, screen, tape>>
    BY <2>2 DEF ConsoleInv, ShowsTape, IsSequence
  <2> QED BY <2>1, <2>2 DEF ConsoleNext, Literal, Convert, SetColor, consolevars
<1>2. ConsoleInv => ShowsTape
  BY DEF ConsoleInv
<1> QED BY <1>1, <1>2, ConsoleStarts, PTL DEF ConsoleSpec

-----------------------------------------------------------------------------
(* What conversions are made of: text, digits, signs and fillers.            *)
Marks ==
  STRING
  \cup {lower_digits[k + 1] : k \in 0 .. 15} \cup {upper_digits[k + 1] : k \in 0 .. 15}
  \cup {"-", "+", " ", "0"}

(* The digits of text, read from left to right, come to v.                   *)
Denotes(text, v, base, digits) ==
  \E f : /\ f \in [0 .. Len(text) -> Nat]
         /\ f[0] = 0 /\ f[Len(text)] = v
         /\ \A k \in 1 .. Len(text) : \E c \in 0 .. base - 1 :
              text[k] = digits[c + 1] /\ f[k] = f[k - 1] * base + c

(* No digit is missing, and none too many.                                   *)
Numeral(text, v, base, digits) ==
  /\ Denotes(text, v, base, digits)
  /\ Len(text) \in Nat \ {0} /\ (v # 0 => text[1] # "0")

LEMMA OneDigit ==
  ASSUME NEW base \in Nat, NEW digits, NEW v \in 0 .. base - 1, v # 0 => digits[v + 1] # "0"
  PROVE  Numeral(<<digits[v + 1]>>, v, base, digits)
<1>1. PICK t : t = <<digits[v + 1]>>
  OBVIOUS
<1>2. Len(t) = 1 /\ t[1] = digits[v + 1]
  BY <1>1
<1> DEFINE f == [i \in 0 .. 1 |-> IF i = 1 THEN v ELSE 0]
<1>3. f \in [0 .. 1 -> Nat] /\ f[0] = 0 /\ f[1] = v
  OBVIOUS
<1>4. f[1] = f[1 - 1] * base + v
  <2>1. 1 - 1 = 0 /\ 0 * base + v = v
    OBVIOUS
  <2> QED BY <1>3, <2>1
<1> HIDE DEF f
<1>5. \A k \in 1 .. 1 : t[k] = digits[v + 1] /\ f[k] = f[k - 1] * base + v
  <2>1. \A k \in 1 .. 1 : k = 1
    OBVIOUS
  <2> QED BY <1>2, <1>4, <2>1
<1>6. Denotes(t, v, base, digits)
  BY <1>2, <1>3, <1>5 DEF Denotes
<1> QED BY <1>1, <1>2, <1>6 DEF Numeral

LEMMA MoreDigits ==
  ASSUME NEW base \in Nat, NEW digits, NEW S, NEW text \in Seq(S), NEW h \in Nat \ {0},
         Numeral(text, h, base, digits),
         NEW c \in 0 .. base - 1, digits[c + 1] \in S, NEW v \in Nat, v = h * base + c
  PROVE  Numeral(Append(text, digits[c + 1]), v, base, digits)
<1>1. PICK t, L : t = Append(text, digits[c + 1]) /\ L = Len(text)
  OBVIOUS
<1>2. L \in Nat \ {0} /\ Len(t) = L + 1 /\ t[L + 1] = digits[c + 1]
      /\ \A k \in 1 .. L : t[k] = text[k]
  BY <1>1, AppendProperties DEF Numeral
<1>3. PICK f : /\ f \in [0 .. L -> Nat] /\ f[0] = 0 /\ f[L] = h
               /\ \A k \in 1 .. L : \E b \in 0 .. base - 1 :
                    text[k] = digits[b + 1] /\ f[k] = f[k - 1] * base + b
  <2>1. Denotes(text, h, base, digits)
    BY DEF Numeral
  <2> QED BY <1>1, <2>1, Zenon DEF Denotes
<1> DEFINE g == [k \in 0 .. L + 1 |-> IF k = L + 1 THEN v ELSE f[k]]
<1>4. g \in [0 .. L + 1 -> Nat]
  <2>1. \A k \in 0 .. L + 1 : k = L + 1 \/ k \in 0 .. L
    BY <1>2
  <2>2. f \in [0 .. L -> Nat]
    BY <1>3
  <2> QED BY <2>1, <2>2
<1>5. g[L + 1] = v /\ \A k \in 0 .. L : g[k] = f[k]
  BY <1>2
<1> HIDE DEF g
<1>6. g[0] = 0
  <2>1. 0 \in 0 .. L
    BY <1>2
  <2> QED BY <1>3, <1>5, <2>1
<1>7. ASSUME NEW k \in 1 .. L + 1
      PROVE  \E b \in 0 .. base - 1 : t[k] = digits[b + 1] /\ g[k] = g[k - 1] * base + b
  <2>1. CASE k = L + 1
    <3>1. k - 1 = L /\ L \in 0 .. L
      BY <1>2, <2>1
    <3>2. g[k - 1] = h
      BY <1>3, <1>5, <3>1
    <3>3. g[k] = g[k - 1] * base + c
      BY <1>5, <2>1, <3>2
    <3> QED BY <1>2, <2>1, <3>3
  <2>2. CASE k # L + 1
    <3>1. k \in 1 .. L /\ k \in 0 .. L /\ k - 1 \in 0 .. L
      BY <1>2, <2>2
    <3>2. PICK b \in 0 .. base - 1 : text[k] = digits[b + 1] /\ f[k] = f[k - 1] * base + b
      BY <1>3, <3>1
    <3>3. g[k] = g[k - 1] * base + b
      BY <1>5, <3>1, <3>2
    <3> QED BY <1>2, <3>1, <3>2, <3>3
  <2> QED BY <2>1, <2>2
<1>8. Denotes(t, v, base, digits)
  <2>1. /\ g \in [0 .. Len(t) -> Nat] /\ g[0] = 0 /\ g[Len(t)] = v
        /\ \A k \in 1 .. Len(t) : \E b \in 0 .. base - 1 :
             t[k] = digits[b + 1] /\ g[k] = g[k - 1] * base + b
    BY <1>2, <1>4, <1>5, <1>6, <1>7, Zenon
  <2> QED BY <2>1 DEF Denotes
<1>9. t[1] # "0"
  <2>1. text[1] # "0"
    BY DEF Numeral
  <2> QED BY <1>2, <2>1
<1> QED BY <1>1, <1>2, <1>8, <1>9 DEF Numeral

(* Only the first digit is a zero.                                           *)
LEMMA ZeroDigit ==
  ASSUME NEW digits \in {lower_digits, upper_digits}, NEW v \in 0 .. 15, v # 0
  PROVE  digits[v + 1] # "0"
BY DEF lower_digits, upper_digits

(* fill_numbuf() makes the numeral of its argument.                          *)
LEMMA NumbufSeq ==
  ASSUME NEW val \in Nat, NEW base \in {10, 16}, NEW digits \in {lower_digits, upper_digits},
         NEW prec
  PROVE  /\ fill_numbuf(val, base, digits, prec) \in Seq(Marks)
         /\ IF prec # 0 \/ val # 0
            THEN Numeral(fill_numbuf(val, base, digits, prec), val, base, digits)
            ELSE fill_numbuf(val, base, digits, prec) = <<>>
<1> DEFINE First(k) == <<digits[k + 1]>>
           Longer(k, higher) == Append(higher, digits[(k % base) + 1])
           first == [k \in Nat |-> IF k < base THEN First(k) ELSE <<>>]
           step == [q \in Nat \X Seq(Marks) |-> Longer(q[1], q[2])]
           buf == CHOOSE b : b = [k \in Nat |-> IF k < base THEN First(k) ELSE Longer(k, b[k \div base])]
<1>1. base \in Nat \ {0, 1} /\ base \in Nat \ {0} /\ base <= 16
  OBVIOUS
<1>2. ASSUME NEW k \in Nat, k < base PROVE First(k) \in Seq(Marks)
  <2>1. k \in 0 .. 15
    BY <1>1, <1>2
  <2>2. digits[k + 1] \in Marks
    BY <2>1 DEF Marks
  <2> QED BY <2>2
<1>3. ASSUME NEW k \in Nat, NEW higher \in Seq(Marks) PROVE Longer(k, higher) \in Seq(Marks)
  <2>1. k % base \in 0 .. 15
    BY <1>1
  <2>2. digits[(k % base) + 1] \in Marks
    BY <2>1 DEF Marks
  <2> QED BY <2>2, AppendProperties
<1>19. ASSUME NEW k \in Nat, k < base PROVE Numeral(First(k), k, base, digits)
  <2>1. k \in 0 .. base - 1 /\ k \in 0 .. 15 /\ base \in Nat
    BY <1>1, <1>19
  <2> QED BY <2>1, OneDigit, ZeroDigit
<1>20. ASSUME NEW k \in Nat, NEW h \in Nat, NEW higher \in Seq(Marks), h = k \div base,
              k >= base, Numeral(higher, h, base, digits)
       PROVE  Numeral(Longer(k, higher), k, base, digits)
  <2>1. PICK c : c = k % base
    OBVIOUS
  <2>2. c \in 0 .. base - 1 /\ k = h * base + c
    <3>1. base \in Nat \ {0} /\ k \in Int
      BY <1>1
    <3>2. k % base \in 0 .. base - 1 /\ k = (k \div base) * base + (k % base)
      BY <3>1, Division
    <3> QED BY <1>20, <2>1, <3>2
  <2>3. h # 0
    <3>1. h = 0 => h * base = 0
      BY <1>1
    <3> QED BY <1>1, <1>20, <2>2, <3>1
  <2>4. digits[c + 1] \in Marks
    <3>1. c \in 0 .. 15
      BY <1>1, <2>2
    <3> QED BY <3>1 DEF Marks
  <2>5. Numeral(Append(higher, digits[c + 1]), k, base, digits)
    BY <1>1, <1>20, <2>2, <2>3, <2>4, MoreDigits
  <2> QED BY <2>1, <2>5
<1> HIDE DEF First
<1>4. first \in [Nat -> Seq(Marks)]
  <2>1. <<>> \in Seq(Marks)
    BY EmptySeq
  <2> QED BY <1>2, <2>1
<1>5. step \in [Nat \X Seq(Marks) -> Seq(Marks)]
  BY <1>3
<1>6. \A k \in Nat, higher \in Seq(Marks) : step[<<k, higher>>] = Longer(k, higher)
  OBVIOUS
<1>7. \A k \in Nat : k < base => first[k] = First(k)
  OBVIOUS
<1>8. fill_numbuf(val, base, digits, prec) = IF prec # 0 \/ val # 0 THEN buf[val] ELSE <<>>
  BY DEF fill_numbuf, First
<1> HIDE DEF step, first, Longer
<1>9. PICK g : Divides(g, Seq(Marks), base, base, first, step)
  BY <1>1, <1>4, <1>5, RecursionByQuotient
<1>10. ASSUME NEW k \in Nat
       PROVE  k \div base \in Nat /\ (k >= base => k \div base < k)
  BY <1>1
<1>11. ASSUME NEW k \in Nat
       PROVE  g[k] = IF k < base THEN First(k) ELSE Longer(k, g[k \div base])
  <2>1. /\ g \in [Nat -> Seq(Marks)]
        /\ g[k] = IF k < base THEN first[k] ELSE step[<<k, g[k \div base]>>]
    BY <1>9 DEF Divides
  <2>2. g[k \div base] \in Seq(Marks)
    BY <1>10, <2>1
  <2>3. step[<<k, g[k \div base]>>] = Longer(k, g[k \div base])
    BY <1>6, <2>2
  <2> QED BY <1>7, <2>1, <2>3
<1>12. g = [k \in Nat |-> g[k]]
  BY <1>9 DEF Divides
<1>13. g = [k \in Nat |-> IF k < base THEN First(k) ELSE Longer(k, g[k \div base])]
  BY <1>11, <1>12
<1>14. buf = [k \in Nat |-> IF k < base THEN First(k) ELSE Longer(k, buf[k \div base])]
  BY <1>13
<1> HIDE DEF buf
<1>15. \A k \in Nat : buf[k] = IF k < base THEN First(k) ELSE Longer(k, buf[k \div base])
  BY <1>14
<1> DEFINE G == {k \in Nat : buf[k] \in Seq(Marks) /\ Numeral(buf[k], k, base, digits)}
<1>16. G = Nat
  <2>1. SUFFICES ASSUME Nat \ G # {} PROVE FALSE
    OBVIOUS
  <2>2. Nat \ G \in SUBSET Nat
    OBVIOUS
  <2> HIDE DEF G
  <2>3. PICK k \in Nat \ G : \A i \in Nat \ G : k <= i
    BY <2>1, <2>2, LeastNat
  <2>4. ~ (buf[k] \in Seq(Marks) /\ Numeral(buf[k], k, base, digits))
    BY <2>3 DEF G
  <2>5. ~ (k < base)
    BY <1>2, <1>15, <1>19, <2>3, <2>4
  <2>6. PICK h : h = k \div base
    OBVIOUS
  <2>7. h \in Nat /\ h < k
    BY <1>1, <1>10, <2>3, <2>5, <2>6
  <2>8. buf[h] \in Seq(Marks) /\ Numeral(buf[h], h, base, digits)
    BY <2>3, <2>7 DEF G
  <2>9. buf[k] = Longer(k, buf[h])
    BY <1>15, <2>3, <2>5, <2>6
  <2>10. buf[k] \in Seq(Marks)
    BY <1>3, <2>3, <2>8, <2>9
  <2>11. k >= base
    BY <1>1, <2>3, <2>5
  <2>12. Numeral(buf[k], k, base, digits)
    BY <1>20, <2>3, <2>6, <2>7, <2>8, <2>9, <2>11
  <2> QED BY <2>4, <2>10, <2>12
<1>17. buf[val] \in Seq(Marks) /\ Numeral(buf[val], val, base, digits)
  BY <1>16
<1>18. <<>> \in Seq(Marks)
  BY EmptySeq
<1> QED BY <1>8, <1>17, <1>18, Zenon

(* What a conversion puts together.                                          *)
LEMMA Conversions ==
  ASSUME NEW q \in Directives
  PROVE  /\ Data(q) \in Seq(Marks) /\ Sign(q) \in Seq(Marks)
         /\ Precision(q) \in Int /\ q.width \in Int /\ q.dot \in BOOLEAN
         /\ q.dot => Precision(q) = IF q.precision < 0 THEN 0 ELSE q.precision
         /\ q.dot => Precision(q) >= 0
         /\ ~ q.dot => Precision(q) < 0
         /\ Len(Data(q)) \in Nat /\ Len(Sign(q)) \in Nat
<1>1. /\ q.width \in Int /\ q.dot \in BOOLEAN /\ q.precision \in Int /\ q.arg \in Int /\ q.text \in Seq(STRING)
      /\ q.conv \in {"u", "x", "X"} => q.arg \in Nat
  BY ConsoleDirectives
<1>2. /\ Precision(q) \in Int
      /\ q.dot => Precision(q) = IF q.precision < 0 THEN 0 ELSE q.precision
      /\ q.dot => Precision(q) >= 0
      /\ ~ q.dot => Precision(q) < 0
  BY <1>1 DEF Precision
<1>3. (IF q.arg > 0 THEN q.arg ELSE -q.arg) \in Nat
  BY <1>1
<1>4. /\ 10 \in {10, 16} /\ 16 \in {10, 16}
      /\ lower_digits \in {lower_digits, upper_digits}
      /\ upper_digits \in {lower_digits, upper_digits}
  OBVIOUS
<1>5. Data(q) \in Seq(Marks)
  <2>1. CASE q.conv = "d"
    <3>1. Data(q) = fill_numbuf(IF q.arg > 0 THEN q.arg ELSE -q.arg,
                                10, upper_digits, Precision(q))
      BY <2>1 DEF Data
    <3> QED BY <1>3, <1>4, <3>1, NumbufSeq
  <2>2. CASE q.conv = "u"
    <3>1. Data(q) = fill_numbuf(q.arg, 10, upper_digits, Precision(q))
      BY <2>2 DEF Data
    <3> QED BY <1>1, <1>4, <2>2, <3>1, NumbufSeq
  <2>3. CASE q.conv = "x"
    <3>1. Data(q) = fill_numbuf(q.arg, 16, lower_digits, Precision(q))
      BY <2>3 DEF Data
    <3> QED BY <1>1, <1>4, <2>3, <3>1, NumbufSeq
  <2>4. CASE q.conv = "X"
    <3>1. Data(q) = fill_numbuf(q.arg, 16, upper_digits, Precision(q))
      BY <2>4 DEF Data
    <3> QED BY <1>1, <1>4, <2>4, <3>1, NumbufSeq
  <2>5. CASE q.conv \notin Numeric
    <3>1. Data(q) = q.text
      BY <2>5 DEF Data, Numeric
    <3>2. STRING \subseteq Marks
      BY DEF Marks
    <3> QED BY <1>1, <3>1, <3>2, SeqMonotonic
  <2> QED BY <2>1, <2>2, <2>3, <2>4, <2>5 DEF Numeric
<1>6. Sign(q) \in Seq(Marks)
  <2>1. "-" \in Marks /\ "+" \in Marks /\ " " \in Marks
    BY DEF Marks
  <2>2. <<"-">> \in Seq(Marks) /\ <<"+">> \in Seq(Marks) /\ <<" ">> \in Seq(Marks)
    <3>1. \A m \in Marks : <<m>> \in Seq(Marks)
      OBVIOUS
    <3> QED BY <2>1, <3>1
  <2>3. Sign(q) \in {<<"-">>, <<"+">>, <<" ">>, <<>>}
    BY DEF Sign
  <2>4. <<>> \in Seq(Marks)
    BY EmptySeq
  <2> QED BY <2>2, <2>3, <2>4
<1> QED BY <1>1, <1>2, <1>5, <1>6, LenProperties

LEMMA TimesChars ==
  ASSUME NEW b \in {"0", " "}, NEW N \in Int
  PROVE  /\ Times(b, N) \in Seq(Marks) /\ Len(Times(b, N)) = IF N > 0 THEN N ELSE 0
         /\ N <= 0 => Times(b, N) = <<>>
<1>1. {b} \subseteq Marks
  BY DEF Marks
<1>2. Times(b, N) \in Seq({b}) /\ Len(Times(b, N)) = IF N > 0 THEN N ELSE 0
  BY TimesSeq
<1>3. N <= 0 => Times(b, N) = <<>>
  BY TimesSeq
<1> QED BY <1>1, <1>2, <1>3, SeqMonotonic

(* The part of the data that is shown.                                       *)
LEMMA Shown ==
  ASSUME NEW q \in Directives, NEW T, T = SubSeq(Data(q), 1, Length(q))
  PROVE  /\ T \in Seq(Marks) /\ Len(T) = Length(q) /\ Length(q) \in Nat
         /\ Length(q) = IF q.dot /\ Precision(q) < Len(Data(q)) THEN Precision(q)
                                                               ELSE Len(Data(q))
<1>1. PICK D, P, m : D = Data(q) /\ P = Precision(q) /\ m = Length(q)
  OBVIOUS
<1>2. /\ D \in Seq(Marks) /\ Len(D) \in Nat /\ P \in Int /\ q.dot \in BOOLEAN
      /\ (q.dot => P >= 0) /\ (~ q.dot => P < 0)
  BY <1>1, Conversions
<1>3. m = IF P >= 0 /\ P < Len(D) THEN P ELSE Len(D)
  BY <1>1 DEF Length
<1>4. m \in 0 .. Len(D) /\ m = IF q.dot /\ P < Len(D) THEN P ELSE Len(D)
  BY <1>2, <1>3
<1>5. T = SubSeq(D, 1, m)
  BY <1>1
<1>6. T \in Seq(Marks) /\ Len(T) = m
  <2>1. m \in Int /\ 1 \in Int /\ \A i \in 1 .. m : D[i] \in Marks
    BY <1>2, <1>4
  <2>2. SubSeq(D, 1, m) \in Seq(Marks)
        /\ Len(SubSeq(D, 1, m)) = IF 1 <= m THEN m - 1 + 1 ELSE 0
    BY <2>1, SubSeqProperties
  <2>3. (IF 1 <= m THEN m - 1 + 1 ELSE 0) = m
    BY <1>2, <1>4
  <2> QED BY <1>5, <2>2, <2>3
<1> QED BY <1>1, <1>4, <1>6

(* Sign, zeros and data, and the blanks around them.                         *)
Body(q) == Sign(q) \o Times("0", Zeros(q)) \o SubSeq(Data(q), 1, Length(q))

LEMMA Bodies ==
  ASSUME NEW q \in Directives, Zeros(q) \in Nat
  PROVE  /\ Body(q) \in Seq(Marks) /\ Len(Body(q)) = Len(Sign(q)) + Zeros(q) + Length(q)
         /\ Output(q) = IF "-" \in q.flags
                        THEN Body(q) \o Times(" ", q.width - Len(Body(q)))
                        ELSE Times(" ", q.width - Len(Body(q))) \o Body(q)
<1>1. PICK z, T, Z, b : /\ z = Zeros(q) /\ T = SubSeq(Data(q), 1, Length(q))
                        /\ Z = Times("0", z) /\ b = Sign(q) \o Z
  OBVIOUS
<1>2. T \in Seq(Marks) /\ Len(T) = Length(q) /\ Sign(q) \in Seq(Marks)
  BY <1>1, Conversions, Shown
<1>3. Z \in Seq(Marks) /\ Len(Z) = z
  <2>1. z \in Int /\ (IF z > 0 THEN z ELSE 0) = z
    BY <1>1
  <2>2. /\ Times("0", z) \in Seq(Marks)
        /\ Len(Times("0", z)) = IF z > 0 THEN z ELSE 0
    BY <2>1, TimesChars
  <2> QED BY <1>1, <2>1, <2>2
<1>4. b \in Seq(Marks) /\ Len(b) = Len(Sign(q)) + z
  BY <1>1, <1>2, <1>3, ConcatProperties
<1>5. Body(q) = b \o T
  BY <1>1 DEF Body
<1>6. b \o T \in Seq(Marks) /\ Len(b \o T) = Len(b) + Len(T)
  BY <1>2, <1>4, ConcatProperties
<1>7. Body(q) \in Seq(Marks) /\ Len(Body(q)) = Len(Sign(q)) + Zeros(q) + Length(q)
  BY <1>1, <1>2, <1>4, <1>5, <1>6
<1>8. Output(q) = IF "-" \in q.flags
                  THEN Body(q) \o Times(" ", q.width - Len(Body(q)))
                  ELSE Times(" ", q.width - Len(Body(q))) \o Body(q)
  BY DEF Output, Body
<1> QED BY <1>7, <1>8

LEMMA Filled ==
  ASSUME NEW q \in Directives
  PROVE  LET most  == IF q.precision < 0 THEN 0 ELSE q.precision
             shown == IF q.dot /\ most < Len(Data(q)) THEN most ELSE Len(Data(q))
             zeros == IF q.dot /\ q.conv \in Numeric THEN most - shown ELSE 0
             bare  == Len(Sign(q)) + zeros + shown
             pad   == IF q.width > bare THEN q.width - bare ELSE 0
             flags == IF q.dot \/ q.conv \notin Numeric THEN q.flags \ {"0"} ELSE q.flags
         IN  Output(q) = CASE "-" \in flags -> Fields(q, 0, zeros, shown, pad)
                           [] {"-", "0"} \cap flags = {"0"} -> Fields(q, 0, pad, shown, 0)
                           [] OTHER -> Fields(q, pad, zeros, shown, 0)
<1>1. PICK D, A, P, W : /\ D = SubSeq(Data(q), 1, Length(q)) /\ A = Sign(q)
                        /\ P = Precision(q) /\ W = q.width
  OBVIOUS
<1>2. PICK g, l : g = Length(q) /\ l = Len(A)
  OBVIOUS
<1>3. /\ D \in Seq(Marks) /\ A \in Seq(Marks) /\ P \in Int /\ W \in Int
      /\ q.dot \in BOOLEAN /\ (q.dot => P >= 0) /\ (~ q.dot => P < 0)
      /\ g \in Nat /\ l \in Nat /\ Len(D) = g
  BY <1>1, <1>2, Conversions, Shown
<1>4. PICK most : most = IF q.precision < 0 THEN 0 ELSE q.precision
  OBVIOUS
<1>5. /\ q.dot => P = most
      /\ g = IF q.dot /\ most < Len(Data(q)) THEN most ELSE Len(Data(q))
      /\ q.dot => g <= most
  <2>1. q.dot => P = most
    BY <1>1, <1>4, Conversions
  <2>2. g = IF q.dot /\ P < Len(Data(q)) THEN P ELSE Len(Data(q))
    BY <1>1, <1>2, Shown
  <2>3. Len(Data(q)) \in Nat
    BY Conversions
  <2> QED BY <1>3, <2>1, <2>2, <2>3
<1>6. PICK zeros : zeros = IF q.dot /\ q.conv \in Numeric THEN most - g ELSE 0
  OBVIOUS
<1>7. PICK pad : pad = IF W > l + zeros + g THEN W - (l + zeros + g) ELSE 0
  OBVIOUS
<1>8. PICK flags : flags = IF q.dot \/ q.conv \notin Numeric THEN q.flags \ {"0"} ELSE q.flags
  OBVIOUS
<1>9. zeros \in Nat /\ pad \in Nat
  <2>1. zeros \in Nat
    BY <1>3, <1>6, <1>5
  <2> QED BY <1>3, <1>7, <2>1
<1>10. "-" \in flags <=> "-" \in q.flags
  BY <1>8
<1>11. ASSUME NEW z \in Nat, Zeros(q) = z
       PROVE  /\ A \o Times("0", z) \o D \in Seq(Marks)
              /\ "-" \in q.flags =>
                   Output(q) = (A \o Times("0", z) \o D) \o Times(" ", W - (l + z + g))
              /\ "-" \notin q.flags =>
                   Output(q) = Times(" ", W - (l + z + g)) \o (A \o Times("0", z) \o D)
  <2>1. PICK body : body = Body(q)
    OBVIOUS
  <2>2. body = A \o Times("0", z) \o D
    BY <1>1, <1>11, <2>1 DEF Body
  <2>3. /\ Body(q) \in Seq(Marks) /\ Len(Body(q)) = Len(Sign(q)) + Zeros(q) + Length(q)
        /\ Output(q) = IF "-" \in q.flags
                       THEN Body(q) \o Times(" ", q.width - Len(Body(q)))
                       ELSE Times(" ", q.width - Len(Body(q))) \o Body(q)
    BY <1>11, Bodies
  <2>4. Len(body) = l + z + g
    BY <1>1, <1>2, <1>11, <2>1, <2>3
  <2>5. /\ body \in Seq(Marks) /\ Len(body) = l + z + g
        /\ Output(q) = IF "-" \in q.flags
                       THEN body \o Times(" ", W - Len(body))
                       ELSE Times(" ", W - Len(body)) \o body
    BY <1>1, <2>1, <2>3, <2>4
  <2> QED BY <2>2, <2>5, Zenon
<1>12. /\ Times(" ", 0) = <<>>
       /\ \A N \in Int : N <= 0 => Times(" ", N) = <<>>
       /\ \A N \in Int : Times(" ", N) \in Seq(Marks) /\ Times("0", N) \in Seq(Marks)
  <2>1. " " \in {"0", " "} /\ "0" \in {"0", " "}
    OBVIOUS
  <2>2. ASSUME NEW N \in Int
        PROVE  /\ Times(" ", N) \in Seq(Marks) /\ Times("0", N) \in Seq(Marks)
               /\ N <= 0 => Times(" ", N) = <<>>
    BY <2>1, TimesChars
  <2>3. 0 \in Int /\ 0 <= 0
    OBVIOUS
  <2> QED BY <2>2, <2>3
<1>13. <<>> \o A = A /\ \A x \in Seq(Marks) : x \o <<>> = x /\ <<>> \o x = x
  BY <1>3, ConcatEmptySeq
<1> DEFINE Claim == Output(q) = CASE "-" \in flags -> Fields(q, 0, zeros, g, pad)
                                   [] {"-", "0"} \cap flags = {"0"} -> Fields(q, 0, pad, g, 0)
                                   [] OTHER -> Fields(q, pad, zeros, g, 0)
<1>14. ASSUME "-" \in flags PROVE Claim
  <2>1. Zeros(q) = zeros
    BY <1>1, <1>2, <1>3, <1>6, <1>10, <1>14, <1>5 DEF Zeros
  <2>2. Output(q) = (A \o Times("0", zeros) \o D) \o Times(" ", W - (l + zeros + g))
    BY <1>9, <1>10, <1>11, <1>14, <2>1
  <2>3. Times(" ", W - (l + zeros + g)) = Times(" ", pad)
    <3>1. CASE W > l + zeros + g
      BY <1>7, <3>1
    <3>2. CASE ~ (W > l + zeros + g)
      <4>1. PICK N : N = W - (l + zeros + g)
        OBVIOUS
      <4>2. N \in Int /\ N <= 0 /\ pad = 0
        BY <1>3, <1>7, <1>9, <3>2, <4>1
      <4> QED BY <1>12, <4>1, <4>2
    <3> QED BY <3>1, <3>2
  <2>4. Fields(q, 0, zeros, g, pad) = (A \o Times("0", zeros) \o D) \o Times(" ", pad)
    BY <1>1, <1>2, <1>12, <1>13 DEF Fields
  <2>5. Output(q) = Fields(q, 0, zeros, g, pad)
    BY <2>2, <2>3, <2>4, Zenon
  <2> QED BY <1>14, <2>5
<1>15. ASSUME "-" \notin flags, {"-", "0"} \cap flags = {"0"} PROVE Claim
  <2>1. "0" \in q.flags /\ "-" \notin q.flags /\ ~ q.dot /\ q.conv \in Numeric
    BY <1>3, <1>8, <1>10, <1>15
  <2>2. zeros = 0 /\ P < 0
    BY <1>3, <1>6, <2>1
  <2>3. Zeros(q) = pad
    <3>1. CASE g + l < W
      BY <1>1, <1>2, <1>3, <1>7, <2>1, <2>2, <3>1 DEF Zeros
    <3>2. CASE ~ (g + l < W)
      BY <1>1, <1>2, <1>3, <1>7, <2>1, <2>2, <3>2 DEF Zeros
    <3> QED BY <3>1, <3>2
  <2>4. Output(q) = Times(" ", W - (l + pad + g)) \o (A \o Times("0", pad) \o D)
    BY <1>9, <1>11, <2>1, <2>3
  <2>5. W - (l + pad + g) \in Int /\ W - (l + pad + g) <= 0
    BY <1>3, <1>7, <1>9, <2>2
  <2>6. Times(" ", W - (l + pad + g)) = <<>>
    BY <1>12, <2>5
  <2>7. A \o Times("0", pad) \o D \in Seq(Marks)
    BY <1>9, <1>11, <2>3
  <2>8. Fields(q, 0, pad, g, 0) = A \o Times("0", pad) \o D
    BY <1>1, <1>2, <1>12, <1>13, <2>7 DEF Fields
  <2>9. Output(q) = Fields(q, 0, pad, g, 0)
    BY <1>13, <2>4, <2>6, <2>7, <2>8
  <2> QED BY <1>15, <2>9
<1>16. ASSUME "-" \notin flags, {"-", "0"} \cap flags # {"0"} PROVE Claim
  <2>1. "-" \notin q.flags /\ ("0" \notin q.flags \/ q.dot \/ q.conv \notin Numeric)
    BY <1>3, <1>8, <1>10, <1>16
  <2>2. Zeros(q) = zeros
    BY <1>1, <1>2, <1>3, <1>6, <1>5, <2>1 DEF Zeros
  <2>3. Output(q) = Times(" ", W - (l + zeros + g)) \o (A \o Times("0", zeros) \o D)
    BY <1>9, <1>11, <2>1, <2>2
  <2>4. Times(" ", W - (l + zeros + g)) = Times(" ", pad)
    <3>1. CASE W > l + zeros + g
      BY <1>7, <3>1
    <3>2. CASE ~ (W > l + zeros + g)
      <4>1. PICK N : N = W - (l + zeros + g)
        OBVIOUS
      <4>2. N \in Int /\ N <= 0 /\ pad = 0
        BY <1>3, <1>7, <1>9, <3>2, <4>1
      <4> QED BY <1>12, <4>1, <4>2
    <3> QED BY <3>1, <3>2
  <2>5. PICK B, Z : B = Times(" ", pad) /\ Z = Times("0", zeros)
    OBVIOUS
  <2>6. B \in Seq(Marks) /\ Z \in Seq(Marks)
    <3>1. pad \in Int /\ zeros \in Int
      BY <1>9
    <3> QED BY <1>12, <2>5, <3>1
  <2>7. /\ B \o A \in Seq(Marks) /\ A \o Z \in Seq(Marks)
        /\ (A \o Z) \o D \in Seq(Marks) /\ (B \o A) \o Z \in Seq(Marks)
        /\ B \o (A \o Z) \in Seq(Marks) /\ ((B \o A) \o Z) \o D \in Seq(Marks)
    BY <1>3, <2>6, ConcatProperties
  <2>8. (B \o A) \o Z = B \o (A \o Z)
    BY <1>3, <2>6, ConcatAssociative
  <2>9. (B \o (A \o Z)) \o D = B \o ((A \o Z) \o D)
    <3>1. PICK x : x = A \o Z
      OBVIOUS
    <3>2. x \in Seq(Marks)
      BY <2>7, <3>1
    <3>3. (B \o x) \o D = B \o (x \o D)
      <4>1. B \in Seq(Marks) /\ D \in Seq(Marks)
        BY <1>3, <2>6
      <4> QED BY <3>2, <4>1, ConcatAssociative
    <3> QED BY <3>1, <3>3
  <2>10. Fields(q, pad, zeros, g, 0) = (((B \o A) \o Z) \o D) \o <<>>
    BY <1>1, <1>2, <1>12, <2>5 DEF Fields
  <2>11. Fields(q, pad, zeros, g, 0) = ((B \o A) \o Z) \o D
    BY <1>13, <2>7, <2>10
  <2>12. Output(q) = Fields(q, pad, zeros, g, 0)
    BY <2>3, <2>4, <2>5, <2>8, <2>9, <2>11, Zenon
  <2> QED BY <1>16, <2>12
<1>17. Claim
  BY <1>14, <1>15, <1>16
<1> HIDE DEF Claim
<1> QED BY <1>1, <1>2, <1>4, <1>6, <1>7, <1>8, <1>5, <1>17 DEF Claim

(***************************************************************************)
(* Every conversion of a number or a string, with whatever flags, width    *)
(* and precision, makes the field that is asked for: FieldsFilled.         *)
(***************************************************************************)
THEOREM ConversionsFillFields == ConsoleSpec => []FieldsFilled
<1> DEFINE Known == directive \in Directives \cup {NoDirective}
<1>1. ConsoleInit => Known
  BY DEF ConsoleInit
<1>2. Known /\ [ConsoleNext]_consolevars => Known'
  BY DEF ConsoleNext, console_putc, Literal, Convert, SetColor, consolevars
<1>3. Known => FieldsFilled
  <2> SUFFICES ASSUME Known PROVE FieldsFilled
    OBVIOUS
  <2>1. CASE directive = NoDirective
    BY <2>1 DEF FieldsFilled
  <2>2. CASE directive \in Directives
    <3>1. PICK q : q = directive
      OBVIOUS
    <3> QED BY <2>2, <3>1, Filled DEF FieldsFilled
  <2> QED BY <2>1, <2>2
<1> QED BY <1>1, <1>2, <1>3, PTL DEF ConsoleSpec

(***************************************************************************)
(* %d, %u, %x and %X start from the numeral of the argument in their base  *)
(* and with their digits: the digits that fill_numbuf() collects backwards *)
(* from the remainders denote the number, and none of them is a leading    *)
(* zero. Only a 0 printed with precision 0 has no digits. How many of them *)
(* are printed is what FieldsFilled says.                                  *)
(***************************************************************************)
THEOREM DigitsDenoteNumber ==
  ASSUME NEW q \in Directives, q.conv \in Numeric
  PROVE  LET value  == IF q.arg > 0 \/ q.conv # "d" THEN q.arg ELSE -q.arg
             base   == IF q.conv \in {"d", "u"} THEN 10 ELSE 16
             digits == IF q.conv = "x" THEN lower_digits ELSE upper_digits
         IN  IF value = 0 /\ Precision(q) = 0 THEN Data(q) = <<>>
             ELSE Numeral(Data(q), value, base, digits)
<1> DEFINE value  == IF q.arg > 0 \/ q.conv # "d" THEN q.arg ELSE -q.arg
           base   == IF q.conv \in {"d", "u"} THEN 10 ELSE 16
           digits == IF q.conv = "x" THEN lower_digits ELSE upper_digits
<1>1. q.arg \in Int /\ (q.conv \in {"u", "x", "X"} => q.arg \in Nat)
  BY ConsoleDirectives
<1>2. q.conv \in {"d", "u", "x", "X"}
  BY DEF Numeric
<1>3. PICK v, b, t : v = value /\ b = base /\ t = digits
  OBVIOUS
<1>4. v \in Nat
  BY <1>1, <1>2, <1>3
<1>5. b \in {10, 16} /\ t \in {lower_digits, upper_digits}
  BY <1>3
<1>6. Data(q) = fill_numbuf(v, b, t, Precision(q))
  BY <1>2, <1>3 DEF Data
<1>7. IF Precision(q) # 0 \/ v # 0 THEN Numeral(Data(q), v, b, t) ELSE Data(q) = <<>>
  BY <1>4, <1>5, <1>6, NumbufSeq
<1> QED BY <1>3, <1>7
=============================================================================
