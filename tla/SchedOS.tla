------------------------------ MODULE SchedOS -------------------------------
(***************************************************************************)
(* The whole system: the kernel of SchedOSKern, the applications of        *)
(* SchedOSApp as its processes, one processor, and the clock if            *)
(* interrupt_controller_init() enabled it.                                 *)
(*                                                                         *)
(* While the processor is in user mode it executes the next instruction of *)
(* the current process.  An `int' instruction enters the kernel with the   *)
(* registers of the instruction behind it; a clock interrupt, between any  *)
(* two instructions, with the registers as they are.                       *)
(***************************************************************************)
EXTENDS Integers, Sequences, FiniteSets

CONSTANTS
  NPROCS, MAX_TICKETS, Algorithms, allow_clock_interrupt,   \* SchedOSKern
  RUNCOUNT, SyncMethods, CELLS, BLANK,                      \* SchedOSApp
  PRIORITY, SHARE     \* the macros of schedos-1.c .. schedos-4.c, by pid

(* The console has a cell for every character of every application.          *)
ASSUME OSAssumption ==
  /\ NPROCS \in Nat /\ NPROCS >= 2
  /\ MAX_TICKETS \in Nat
  /\ Algorithms \subseteq 0 .. 4
  /\ allow_clock_interrupt \in BOOLEAN
  /\ RUNCOUNT \in Nat /\ CELLS \in Nat /\ (NPROCS - 1) * RUNCOUNT <= CELLS
  /\ SyncMethods \subseteq {1, 2}
  /\ BLANK \notin 1 .. NPROCS - 1
  /\ \A p \in 1 .. NPROCS - 1 : PRIORITY[p] \in Int /\ SHARE[p] \in Int

VARIABLES
  scheduling_algorithm, proc_array, current, cpu, mode, tickets,  \* SchedOSKern
  SYNC_METHOD, lock,                                              \* SchedOSApp
  cursorpos, screen                                               \* both

vars == <<scheduling_algorithm, proc_array, current, cpu, mode, tickets,
          SYNC_METHOD, lock, cursorpos, screen>>

Apps == 1 .. NPROCS - 1

(* The registers of p: on the processor, or else in its descriptor. *)
VirtualRegs ==
  [p \in Apps |-> IF p = current /\ mode = "user" THEN cpu
                                                  ELSE proc_array[p].p_registers]

App == INSTANCE SchedOSApp WITH regs <- VirtualRegs

Kern == INSTANCE SchedOSKern WITH
          Regs <- App!Registers,
          EntryRegs <- [p \in 0 .. NPROCS - 1 |-> App!Entry],
          Priorities <- {PRIORITY[p] : p \in Apps},
          Shares <- {SHARE[p] : p \in Apps},
          Statuses <- {0},
          Chars <- Apps

-----------------------------------------------------------------------------

Init ==
  /\ Kern!Init
  /\ SYNC_METHOD \in SyncMethods
  /\ lock = 0      \* written by start(), the kernel's only use of it

Instruction ==
  /\ mode = "user"
  /\ App!Effect(current, cpu)
  /\ cpu' = App!Succ(cpu)
  /\ UNCHANGED <<scheduling_algorithm, proc_array, current, mode, tickets, SYNC_METHOD>>

(* An `int' instruction of the current process. *)
Traps(label) == cpu.eip = label /\ UNCHANGED <<SYNC_METHOD, lock>>

sys_set_priority ==
  /\ Traps("set_priority")
  /\ Kern!SysSetPriority(App!Succ(cpu), PRIORITY[current])

sys_set_share ==
  /\ Traps("set_share")
  /\ Kern!SysSetShare(App!Succ(cpu), SHARE[current])

sys_get_ticket == Traps("get_ticket") /\ Kern!SysGetTicket(App!Succ(cpu))

sys_yield == Traps("yield") /\ Kern!SysYield(App!Succ(cpu))

sys_print == Traps("print") /\ Kern!SysPrint(App!Succ(cpu), current)

sys_exit == Traps("exit") /\ Kern!SysExit(App!Succ(cpu), 0)

Execute ==
  \/ Instruction
  \/ sys_set_priority \/ sys_set_share \/ sys_get_ticket
  \/ sys_yield \/ sys_print \/ sys_exit

Tick == Kern!Clock(cpu) /\ UNCHANGED <<SYNC_METHOD, lock>>

Next == Execute \/ Tick

(***************************************************************************)
(* The processor never stops, and the clock, if enabled, keeps ticking.  A *)
(* time slice (1/HZ second) is longer than an instruction, so a process    *)
(* that is dispatched again and again also executes instructions.          *)
(*                                                                         *)
(* Algorithm 4: get_winner() draws from a generator of full period, whose  *)
(* values modulo num_tickets take every value again and again, so that     *)
(* whoever can win wins some of infinitely many draws.  (An idealisation:  *)
(* the draws of a pseudo-random generator only look independent of the     *)
(* moments at which they are made.)                                        *)
(***************************************************************************)
FairDraw(p) ==
  SF_vars(scheduling_algorithm = 4 /\ (sys_yield \/ sys_exit \/ Tick) /\ current' = p)

Fairness ==
  /\ \A p \in Apps : SF_vars(current = p /\ Execute) /\ FairDraw(p)
  /\ WF_vars(Tick)

Spec == Init /\ [][Next]_vars /\ Fairness

-----------------------------------------------------------------------------

(***************************************************************************)
(* The kernel gives every application a processor of its own: whatever the *)
(* algorithm and wherever the clock strikes, what the applications do is   *)
(* what SchedOSApp allows, so that no context switch loses or mixes up     *)
(* registers and sys_print() is one indivisible step.                      *)
(***************************************************************************)
VirtualProcessors == App!Spec

Exited(p) == proc_array[p].p_state = "P_ZOMBIE"

(***************************************************************************)
(* RUNCOUNT is "the number of times each application should run"           *)
(* (schedos-app.h:13): every application gets through its loop and exits.  *)
(***************************************************************************)
EveryAppFinishes == <>(\A p \in Apps : Exited(p))

(***************************************************************************)
(* Except under one combination: algorithm 2 with the spin lock and the    *)
(* clock.  A process that is dispatched for the first time starts with     *)
(* priority 1; if its own is less urgent, it may lose the processor while  *)
(* it holds the lock to a process that then spins for it, is always the    *)
(* most urgent and never lets it go on.                                    *)
(***************************************************************************)
PriorityInversion ==
  scheduling_algorithm = 2 /\ SYNC_METHOD = 1 /\ allow_clock_interrupt

FinishesUnlessInverted == ~PriorityInversion => EveryAppFinishes

(***************************************************************************)
(* Round robin without the clock: the applications print in turn, so that  *)
(* those behind schedos-1 finish one character later each                  *)
(* (answers.txt:18-23: 320*4-3, 320*4-2, 320*4-1, 320*4).                  *)
(***************************************************************************)
PrintInTurn ==
  scheduling_algorithm = 0 =>
    \A c \in 0 .. cursorpos - 1 : screen[c] = 1 + (c % (NPROCS - 1))

(***************************************************************************)
(* Algorithm 1: one application after the other, each finishing RUNCOUNT   *)
(* characters after the one before (answers.txt:24-29: 320, 320*2, ...).   *)
(***************************************************************************)
PrintInOrder ==
  scheduling_algorithm = 1 =>
    \A c \in 0 .. cursorpos - 1 : screen[c] = 1 + (c \div RUNCOUNT)

(***************************************************************************)
(* Algorithm 2 without the clock: once every application has had the       *)
(* processor and told its priority, which costs one character each, none   *)
(* prints before all more urgent ones have exited.                         *)
(***************************************************************************)
UrgentFirst ==
  scheduling_algorithm = 2 =>
    \A p, q \in Apps : PRIORITY[p] < PRIORITY[q] /\ ~Exited(p) => App!Printed(q) <= 1

(***************************************************************************)
(* Algorithm 3 without the clock: two applications that both still run     *)
(* have printed in proportion to their shares, up to one share, and up to  *)
(* the character that schedos-1 prints before schedule() is first called.  *)
(***************************************************************************)
PrintInProportion ==
  scheduling_algorithm = 3 =>
    \A p, q \in Apps : ~Exited(p) /\ ~Exited(q) =>
      App!Printed(p) <= SHARE[p] * (1 + (App!Printed(q) \div SHARE[q])) + 1

(***************************************************************************)
(* Algorithm 4: when schedule() starts to draw, every application that     *)
(* could run holds a ticket: none is left out of the lottery for good.     *)
(***************************************************************************)
EveryoneInTheDraw ==
  scheduling_algorithm = 4 /\ Kern!Drawing =>
    \A p \in Apps : Exited(p) \/ p \in Kern!Holders

(* schedule() keeps to the process table: see StaysInTable of SchedOSKern.   *)
StaysInTable == Kern!StaysInTable
=============================================================================
