----------------------------- MODULE SchedOSApp -----------------------------
(***************************************************************************)
(* The applications, schedos-1.c to schedos-4.c: one program, compiled     *)
(* with different PRINTCHAR, PRIORITY and SHARE, that prints a character   *)
(* RUNCOUNT times through variables all of them share, `cursorpos' and     *)
(* `lock', and then exits.                                                 *)
(*                                                                         *)
(* The operators Succ and Effect give the meaning of one machine           *)
(* instruction (or one system call, seen from the application).  Spec lets *)
(* every application execute them on a processor of its own, in any        *)
(* interleaving.  It is what an application programmer may rely on;        *)
(* SchedOS shows that the kernel provides it on one processor.             *)
(* The operators with _defect in their name are as in SchedOSKern.         *)
(***************************************************************************)
EXTENDS Integers, FiniteSets

CONSTANTS
  Apps,          \* the applications; each prints itself as its character
  RUNCOUNT,      \* how often each prints (schedos-app.h)
  SyncMethods,   \* the values SYNC_METHOD may be compiled with
  CELLS,         \* cells of console memory
  BLANK          \* the content of a cell nothing was printed in

ASSUME AppAssumption ==
  /\ RUNCOUNT \in Nat
  /\ SyncMethods \subseteq {1, 2}
  /\ CELLS \in Nat
  /\ BLANK \notin Apps

(* 4 applications, 320 characters each, on a console of 80 x 25 cells. *)
ASSUME ConsoleAssumption ==
  IsFiniteSet(Apps) /\ Cardinality(Apps) * RUNCOUNT <= CELLS

VARIABLES
  SYNC_METHOD, \* a macro, so constant; 1: spin lock, 2: sys_print()
  regs,        \* the registers of each application
  lock,        \* 0 when the console is free
  cursorpos,   \* index of the cell the next character goes to
  screen       \* console memory

appvars == <<SYNC_METHOD, regs, lock, cursorpos, screen>>

(***************************************************************************)
(* What an application keeps in registers: where it is, the loop counter   *)
(* i, and the copy of cursorpos between the instructions that the compiler *)
(* makes of `*cursorpos++ = PRINTCHAR' (load, store the character, store   *)
(* the incremented pointer: obj/schedos-kern.asm has that code for the     *)
(* same statement in interrupt()).                                         *)
(***************************************************************************)
Calls == {"set_priority", "set_share", "get_ticket", "yield", "print", "exit"}
Critical == {"load", "store", "bump", "release"}
Labels == Calls \cup {"acquire", "halt"} \cup Critical

Registers == [eip : Labels, i : 0 .. RUNCOUNT, edx : Nat]

Entry == [eip |-> "set_priority", i |-> 0, edx |-> 0]

LoopHead_defect(i) ==   \* one time too often: i <= RUNCOUNT
  IF i > RUNCOUNT THEN "exit" ELSE IF SYNC_METHOD = 1 THEN "acquire" ELSE "print"

LoopHead_defect_unlocked(i) ==   \* the lines commented out in schedos-1.c:45-46
  IF i = RUNCOUNT THEN "exit" ELSE IF SYNC_METHOD = 1 THEN "load" ELSE "print"

(* The head of the for loop, reached with counter i. *)
LoopHead(i) ==
  IF i = RUNCOUNT THEN "exit" ELSE IF SYNC_METHOD = 1 THEN "acquire" ELSE "print"

Free_defect(oldval) == TRUE   \* the old value of the lock is not tested

(* What atomic_swap(&lock, 1) returned: was the lock free? *)
Free(oldval) == oldval = 0

Jump(r, label) == [r EXCEPT !.eip = label]
NextIteration(r) == [r EXCEPT !.i = @ + 1, !.eip = LoopHead(r.i + 1)]

(* The registers after the instruction at r.eip. *)
Succ(r) ==
  CASE r.eip = "set_priority" -> Jump(r, "set_share")
    [] r.eip = "set_share"    -> Jump(r, "get_ticket")
    [] r.eip = "get_ticket"   -> Jump(r, LoopHead(r.i))
    [] r.eip = "acquire"      -> Jump(r, IF Free(lock) THEN "load" ELSE "acquire")
    [] r.eip = "load"         -> [r EXCEPT !.eip = "store", !.edx = cursorpos]
    [] r.eip = "store"        -> Jump(r, "bump")
    [] r.eip = "bump"         -> Jump(r, "release")
    [] r.eip = "release"      -> Jump(r, "yield")
    [] r.eip \in {"yield", "print"} -> NextIteration(r)
    [] r.eip \in {"exit", "halt"}   -> Jump(r, "halt")

(* atomic_swap(&lock, 1); Succ tests the old value. *)
Acquire(r) ==
  r.eip = "acquire" /\ lock' = 1 /\ UNCHANGED <<cursorpos, screen>>

LoadCursor(r) ==
  r.eip = "load" /\ UNCHANGED <<lock, cursorpos, screen>>

StoreChar(p, r) ==
  /\ r.eip = "store"
  /\ screen' = [screen EXCEPT ![r.edx] = p]
  /\ UNCHANGED <<lock, cursorpos>>

BumpCursor_defect(r) ==   \* two bytes taken for two cells
  r.eip = "bump" /\ cursorpos' = r.edx + 2 /\ UNCHANGED <<lock, screen>>

BumpCursor(r) ==
  r.eip = "bump" /\ cursorpos' = r.edx + 1 /\ UNCHANGED <<lock, screen>>

Release_defect(r) ==   \* the lock is not released
  r.eip = "release" /\ UNCHANGED <<lock, cursorpos, screen>>

(* atomic_swap(&lock, 0) *)
Release(r) ==
  r.eip = "release" /\ lock' = 0 /\ UNCHANGED <<cursorpos, screen>>

(* One instruction of p other than a system call. *)
Effect(p, r) ==
  Acquire(r) \/ LoadCursor(r) \/ StoreChar(p, r) \/ BumpCursor(r) \/ Release(r)

(* A system call does nothing to the shared memory, except sys_print(). *)
SilentCall(r) ==
  /\ r.eip \in Calls \ {"print"}
  /\ UNCHANGED <<lock, cursorpos, screen>>

PrintCall(p, r) ==
  /\ r.eip = "print"
  /\ screen' = [screen EXCEPT ![cursorpos] = p]
  /\ cursorpos' = cursorpos + 1
  /\ UNCHANGED lock

Init ==
  /\ SYNC_METHOD \in SyncMethods
  /\ regs = [p \in Apps |-> Entry]
  /\ lock = 0
  /\ cursorpos = 0
  /\ screen = [c \in 0 .. CELLS - 1 |-> BLANK]

Step(p) ==
  /\ Effect(p, regs[p]) \/ SilentCall(regs[p]) \/ PrintCall(p, regs[p])
  /\ regs' = [regs EXCEPT ![p] = Succ(regs[p])]
  /\ UNCHANGED SYNC_METHOD

Next == \E p \in Apps : Step(p)

Spec == Init /\ [][Next]_appvars

-----------------------------------------------------------------------------

TypeOK ==
  /\ SYNC_METHOD \in SyncMethods
  /\ regs \in [Apps -> Registers]
  /\ lock \in {0, 1}
  /\ cursorpos \in Nat
  /\ screen \in [0 .. CELLS - 1 -> Apps \cup {BLANK}]

InCritical(p) == regs[p].eip \in Critical

(***************************************************************************)
(* The lock protects the console (schedos-1.c:47-51): two applications     *)
(* are never both between the acquiring and the releasing swap, and the    *)
(* lock is taken exactly while one of them is.                             *)
(***************************************************************************)
MutualExclusion ==
  /\ \A p, q \in Apps : InCritical(p) /\ InCritical(q) => p = q
  /\ lock = 1 <=> \E p \in Apps : InCritical(p)

(* How many characters p has finished printing. *)
Printed(p) == regs[p].i + IF regs[p].eip \in {"release", "yield"} THEN 1 ELSE 0

CellsOf(p) == {c \in 0 .. cursorpos - 1 : screen[c] = p}

(***************************************************************************)
(* No character is lost, overwritten or printed twice: behind the cursor   *)
(* stand, for each application, as many of its characters as it has        *)
(* printed.  This is what goes wrong without synchronisation (Exercise 5,  *)
(* answers.txt:62-64, "not able to print out the character '4'").          *)
(***************************************************************************)
NothingLost == \A p \in Apps : Cardinality(CellsOf(p)) = Printed(p)

(***************************************************************************)
(* *cursorpos++ checks no bound; the console is large enough for all the   *)
(* characters of all applications, and for no more is anything written.    *)
(***************************************************************************)
CursorInConsole ==
  /\ cursorpos <= CELLS
  /\ \A p \in Apps : regs[p].eip = "store" => regs[p].edx < CELLS
=============================================================================
