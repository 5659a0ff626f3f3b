--------------------------- MODULE SchedOSMemory ---------------------------
(***************************************************************************)
(* memcpy, memmove, memset, strlen and strnlen of lib.c:17-68: their loops *)
(* access one byte per step.  The calls follow one another, each with any  *)
(* arguments that its caller may pass, on what the ones before have left.  *)
(***************************************************************************)
EXTENDS Integers

CONSTANTS
  MEMORY,   \* bytes of memory
  Bytes     \* what a byte can be; 0 is '\0'

ASSUME MemoryAssumption ==
  MEMORY \in Nat \ {0} /\ 0 \in Bytes /\ Bytes \subseteq 0 .. 255

VARIABLES
  mem,       \* the bytes
  call,      \* the function and its arguments, see Calls
  running,   \* it has not returned
  d, s, n,   \* the local variables of the function; for the strings, n counts
  old,       \* history: mem when the function was called
  looked     \* history: the addresses it has read

locals == <<d, s, n>>
vars == <<mem, call, running, locals, old, looked>>

Addresses == 0 .. MEMORY - 1

(* The N bytes from address a. *)
Block(a, N) == a .. a + N - 1

Copies == {"memcpy", "memmove"}
Strings == {"strlen", "strnlen"}

(* src is v of strlen and strnlen, n is maxlen; c is for memset. *)
Calls ==
  [fn : Copies, dst : Addresses, src : Addresses, n : 0 .. MEMORY, c : {0}]
  \cup [fn : {"memset"}, dst : Addresses, src : {0}, n : 0 .. MEMORY, c : Bytes]
  \cup [fn : Strings, dst : {0}, src : Addresses, n : 0 .. MEMORY, c : {0}]

(* The cells of the string at a, its '\0' included. *)
String(m, a) == {x \in a .. MEMORY - 1 : \A y \in a .. x - 1 : m[y] # 0}

Terminated(m, a) == \E x \in a .. MEMORY - 1 : m[x] = 0

(* What the caller owes: blocks in memory, and for memcpy none that a copy  *)
(* from the front would overwrite before it is read.                        *)
Legal(q, m) ==
  CASE q.fn \in Copies ->
         /\ Block(q.dst, q.n) \cup Block(q.src, q.n) \subseteq Addresses
         /\ q.fn = "memcpy" => q.dst \notin Block(q.src + 1, q.n - 1)
    [] q.fn = "memset" -> Block(q.dst, q.n) \subseteq Addresses
    [] q.fn = "strlen" -> Terminated(m, q.src)
    [] q.fn = "strnlen" -> Terminated(m, q.src) \/ Block(q.src, q.n) \subseteq Addresses

Backwards_defect(q) == FALSE   \* always from the front

(* s < d && s + n > d *)
Backwards(q) == q.fn = "memmove" /\ q.src < q.dst /\ q.src + q.n > q.dst

Call(q) ==
  /\ ~running
  /\ Legal(q, mem)
  /\ running' = TRUE /\ call' = q /\ old' = mem /\ looked' = {}
  /\ d' = IF Backwards(q) THEN q.dst + q.n ELSE q.dst
  /\ s' = IF Backwards(q) THEN q.src + q.n ELSE q.src
  /\ n' = IF q.fn \in Strings THEN 0 ELSE q.n
  /\ UNCHANGED mem

Forward ==   \* *d++ = *s++
  /\ call.fn \in Copies /\ ~Backwards(call) /\ n > 0
  /\ mem' = [mem EXCEPT ![d] = mem[s]]
  /\ looked' = looked \cup {s}
  /\ d' = d + 1 /\ s' = s + 1 /\ n' = n - 1
  /\ UNCHANGED running

Backward ==   \* *--d = *--s
  /\ call.fn \in Copies /\ Backwards(call) /\ n > 0
  /\ mem' = [mem EXCEPT ![d - 1] = mem[s - 1]]
  /\ looked' = looked \cup {s - 1}
  /\ d' = d - 1 /\ s' = s - 1 /\ n' = n - 1
  /\ UNCHANGED running

Set ==   \* *p++ = c
  /\ call.fn = "memset" /\ n > 0
  /\ mem' = [mem EXCEPT ![d] = call.c]
  /\ d' = d + 1 /\ n' = n - 1
  /\ UNCHANGED <<running, s, looked>>

(* strnlen() tests n against maxlen before it reads. *)
Limit == call.fn = "strnlen" /\ n = call.n

Count ==
  /\ call.fn \in Strings /\ ~Limit
  /\ looked' = looked \cup {s}
  /\ IF mem[s] = 0 THEN running' = FALSE /\ UNCHANGED locals
                   ELSE s' = s + 1 /\ n' = n + 1 /\ UNCHANGED <<d, running>>
  /\ UNCHANGED mem

Return ==
  /\ IF call.fn \in Strings THEN Limit ELSE n = 0
  /\ running' = FALSE
  /\ UNCHANGED <<mem, locals, looked>>

Init ==
  /\ mem \in [Addresses -> Bytes]
  /\ call = [fn |-> "none", dst |-> 0, src |-> 0, n |-> 0, c |-> 0]
  /\ running = FALSE
  /\ d = 0 /\ s = 0 /\ n = 0
  /\ old = mem /\ looked = {}

Step ==
  /\ running
  /\ Forward \/ Backward \/ Set \/ Count \/ Return
  /\ UNCHANGED <<call, old>>

Next == Step \/ \E q \in Calls : Call(q)

Spec == Init /\ [][Next]_vars

-----------------------------------------------------------------------------
(* What the functions promise, as in the standard library. *)

(* The contents of x afterwards, given those before. *)
Promised(q, m, x) ==
  CASE q.fn \in Copies /\ x \in Block(q.dst, q.n) -> m[q.src + (x - q.dst)]
    [] q.fn = "memset" /\ x \in Block(q.dst, q.n) -> q.c
    [] OTHER -> m[x]

(* len is the length of the string, or maxlen if that is less. *)
IsLength(q, m, len) ==
  /\ \A k \in 0 .. len - 1 : m[q.src + k] # 0
  /\ q.fn = "strnlen" => len <= q.n
  /\ (q.fn = "strnlen" /\ len = q.n) \/ m[q.src + len] = 0

MayRead(q, m) ==
  CASE q.fn \in Copies -> Block(q.src, q.n)
    [] q.fn = "strlen" -> String(m, q.src)
    [] q.fn = "strnlen" -> String(m, q.src) \cap Block(q.src, q.n)
    [] OTHER -> {}

(***************************************************************************)
(* Whatever was called before: a function writes only into its destination *)
(* and, even while it runs, reads only what it was given (memmove also     *)
(* where the blocks overlap; strnlen no byte beyond maxlen or '\0'); when  *)
(* it returns, memory and result are those of the standard function.       *)
(***************************************************************************)
StandardLibrary ==
  /\ looked \subseteq MayRead(call, old)
  /\ \A x \in Addresses : mem[x] \in {old[x], Promised(call, old, x)}
  /\ ~running =>
       /\ \A x \in Addresses : mem[x] = Promised(call, old, x)
       /\ call.fn \in Strings => IsLength(call, old, n)
=============================================================================
