---------------------------- MODULE SchedOSKern ----------------------------
(***************************************************************************)
(* The SchedOS kernel, schedos-kern.c: the process table that start() sets *)
(* up, the handler interrupt() of every trap, and the five algorithms of   *)
(* schedule().                                                             *)
(*                                                                         *)
(* The kernel runs with interrupts disabled (every gate of the interrupt   *)
(* descriptor table is an interrupt gate), so a trap, from the saving of   *)
(* the registers to the iret of run(), is one atomic action here.  Modules *)
(* SchedOSLoop and SchedOSMachine take it apart and show that this is so.  *)
(*                                                                         *)
(* This module is an OPEN system.  Whatever the applications compute, what *)
(* the kernel sees of them is a sequence of traps, each with a register    *)
(* file `reg' and, for some, an argument in %eax.  Spec lets any process   *)
(* make any system call at any time.  Module SchedOS closes the system     *)
(* with the applications of schedos-1.c.                                   *)
(*                                                                         *)
(* A definition whose name ends in _defect is the following one with a     *)
(* plausible bug.  The specification does not use it; it is there to show  *)
(* that the properties would notice.                                       *)
(***************************************************************************)
EXTENDS Integers, Sequences, FiniteSets

CONSTANTS
  NPROCS,                 \* entries of proc_array; entry 0 is no process
  MAX_TICKETS,            \* capacity of tickets[]
  Algorithms,             \* what start() may assign to scheduling_algorithm
  allow_clock_interrupt,  \* the argument of interrupt_controller_init()
  Regs,                   \* contents of the CPU registers
  EntryRegs,              \* the registers start() gives to each descriptor
  CELLS,                  \* cells of console memory
  BLANK,                  \* what console_clear() writes in each of them
  Priorities, Shares,     \* what processes pass in %eax (Spec only):
  Statuses, Chars         \*   priority, share, exit status, character

ASSUME KernAssumption ==
  /\ NPROCS \in Nat /\ NPROCS >= 2
  /\ MAX_TICKETS \in Nat
  /\ Algorithms \subseteq 0 .. 4
  /\ allow_clock_interrupt \in BOOLEAN
  /\ EntryRegs \in [0 .. NPROCS - 1 -> Regs]
  /\ CELLS \in Nat
  /\ Priorities \subseteq Int /\ Shares \subseteq Int /\ Statuses \subseteq Int

VARIABLES
  scheduling_algorithm,   \* assigned by start(), constant from then on
  proc_array,   \* the process descriptors
  current,      \* pid of the descriptor `current' points to
  cpu,          \* the registers of the processor while a process runs
  mode,         \* who has the processor, see Modes
  tickets,      \* tickets[0 .. num_tickets - 1], as a sequence
  cursorpos,    \* index of the console cell cursorpos points to
  screen        \* console memory

console == <<cursorpos, screen>>
kernvars == <<scheduling_algorithm, proc_array, current, cpu, mode, tickets,
              cursorpos, screen>>

Pids == 0 .. NPROCS - 1

States == {"P_EMPTY", "P_RUNNABLE", "P_BLOCKED", "P_ZOMBIE"}

(***************************************************************************)
(* "user": process `current' executes.  "spin": schedule() found nothing   *)
(* to run and loops forever.  "hang": interrupt() met a trap number it     *)
(* does not handle and loops forever.  "wild": run() was given the address *)
(* past the last descriptor and loaded registers from foreign memory; what *)
(* the machine does next is undefined, the model stops there.              *)
(***************************************************************************)
Modes == {"user", "spin", "hang", "wild"}

(***************************************************************************)
(* run(): make p current and load its registers.  It does not return.      *)
(***************************************************************************)
Run_defect(p, procs) ==   \* the registers of the process that was current
  /\ proc_array' = procs
  /\ current' = p
  /\ cpu' = procs[current].p_registers
  /\ mode' = "user"
  /\ UNCHANGED scheduling_algorithm

Run(p, procs) ==
  /\ proc_array' = procs
  /\ current' = p
  /\ cpu' = procs[p].p_registers
  /\ mode' = "user"
  /\ UNCHANGED scheduling_algorithm

Stop(how, procs) ==
  /\ proc_array' = procs
  /\ mode' = how
  /\ UNCHANGED <<current, cpu, scheduling_algorithm>>

RunOutside(procs) ==
  /\ proc_array' = procs
  /\ current' = NPROCS
  /\ mode' = "wild"
  /\ UNCHANGED <<cpu, scheduling_algorithm>>

-----------------------------------------------------------------------------
(* schedule() *)

Runnable_defect(procs) == {p \in Pids : procs[p].p_state # "P_EMPTY"}

Runnable(procs) == {p \in Pids : procs[p].p_state = "P_RUNNABLE"}

(* How many times pid = (pid + 1) % NPROCS leads from p to q: 1 .. NPROCS. *)
Ahead(p, q) == IF q > p THEN q - p ELSE q - p + NPROCS

(* The loop shared by algorithms 0, 2 and 4: the first of S after current. *)
RunNext(S, procs) ==
  \/ S = {} /\ Stop("spin", procs)
  \/ \E p \in S : /\ \A q \in S : Ahead(current, p) <= Ahead(current, q)
                  /\ Run(p, procs)

RoundRobin_defect(procs) ==   \* the scan always starts at the first descriptor
  \/ Runnable(procs) = {} /\ Stop("spin", procs)
  \/ \E p \in Runnable(procs) : (\A q \in Runnable(procs) : p <= q) /\ Run(p, procs)

RoundRobin(procs) == RunNext(Runnable(procs), procs)

InOrder_defect(procs) ==   \* advances although current can still run
  \/ current + 1 \in Pids /\ Run(current + 1, procs)
  \/ current + 1 \notin Pids /\ RunOutside(procs)

(* Algorithm 1 advances pid at most once and tests nothing after that. *)
InOrder(procs) ==
  LET pid == IF current \in Runnable(procs) THEN current ELSE current + 1
  IN  \/ pid \in Pids /\ Run(pid, procs)
      \/ pid \notin Pids /\ RunOutside(procs)

MostUrgent_defect(procs) ==   \* the minimum is taken over the whole table
  {p \in Runnable(procs) : \A q \in Pids : procs[p].p_priority <= procs[q].p_priority}

MostUrgent(procs) ==
  {p \in Runnable(procs) :
     \A q \in Runnable(procs) : procs[p].p_priority <= procs[q].p_priority}

StrictPriority_defect(procs) == RunNext(Runnable(procs), procs)   \* no minimum

StrictPriority(procs) == RunNext(MostUrgent(procs), procs)

(***************************************************************************)
(* Algorithm 3 starts at current itself.  A runnable process that has had  *)
(* its share is passed over and its p_time_passed cleared, so a second lap *)
(* finds every runnable process at 0 and runs the first whose share is     *)
(* positive; if there is none the laps never end.                          *)
(***************************************************************************)
Visit(p) == IF p >= current THEN p - current ELSE p - current + NPROCS

ClearTime_defect(S, procs) == procs   \* the reset is missing

ClearTime(S, procs) ==
  [p \in Pids |-> IF p \in S THEN [procs[p] EXCEPT !.p_time_passed = 0]
                             ELSE procs[p]]

HasTurn_defect(proc) == proc.p_time_passed <= proc.p_share   \* > instead of >=

HasTurn(proc) == proc.p_time_passed < proc.p_share

ProportionalShare(procs) ==
  LET runnable == Runnable(procs)
      due   == {p \in runnable : HasTurn(procs[p])}
      ready == IF due # {} THEN due ELSE {p \in runnable : procs[p].p_share > 0}
      Passed(p) == IF due # {} THEN {q \in runnable : Visit(q) < Visit(p)}
                               ELSE runnable
  IN  \/ ready = {} /\ Stop("spin", ClearTime(runnable, procs))
      \/ \E p \in ready :
           /\ \A q \in ready : Visit(p) <= Visit(q)
           /\ Run(p, [ClearTime(Passed(p), procs) EXCEPT ![p].p_time_passed = @ + 1])

(***************************************************************************)
(* Algorithm 4 draws tickets until a runnable process wins; until there    *)
(* are as many tickets as processes it is round robin.  The draw,          *)
(* get_winner(), is any ticket.                                            *)
(***************************************************************************)
Drawing_defect == Len(tickets) >= NPROCS - 2   \* one ticket too early

Drawing == Len(tickets) >= NPROCS - 1

Holders == {tickets[n] : n \in 1 .. Len(tickets)}

Lottery_defect(procs) ==   \* the first draw counts
  \/ ~Drawing /\ RoundRobin(procs)
  \/ Drawing /\ \E p \in Holders : Run(p, procs)

Lottery(procs) ==
  LET winners == Holders \cap Runnable(procs)
  IN  \/ ~Drawing /\ RoundRobin(procs)
      \/ /\ Drawing
         /\ \/ winners = {} /\ Stop("spin", procs)
            \/ \E p \in winners : Run(p, procs)

schedule(procs) ==
  \/ scheduling_algorithm = 0 /\ RoundRobin(procs)
  \/ scheduling_algorithm = 1 /\ InOrder(procs)
  \/ scheduling_algorithm = 2 /\ StrictPriority(procs)
  \/ scheduling_algorithm = 3 /\ ProportionalShare(procs)
  \/ scheduling_algorithm = 4 /\ Lottery(procs)

-----------------------------------------------------------------------------
(* interrupt(): one action per trap number. *)

Saved(reg) == [proc_array EXCEPT ![current].p_registers = reg]

SysYield(reg) ==
  /\ mode = "user"
  /\ schedule(Saved(reg))
  /\ UNCHANGED <<tickets, console>>

SysExit(reg, status) ==
  /\ mode = "user"
  /\ schedule([Saved(reg) EXCEPT ![current].p_state = "P_ZOMBIE",
                                 ![current].p_exit_status = status])
  /\ UNCHANGED <<tickets, console>>

(* INT_SYS_USER1 *)
SysSetPriority(reg, priority) ==
  /\ mode = "user"
  /\ Run(current, [Saved(reg) EXCEPT ![current].p_priority = priority])
  /\ UNCHANGED <<tickets, console>>

(* INT_SYS_USER2 *)
SysSetShare(reg, share) ==
  /\ mode = "user"
  /\ Run(current, [Saved(reg) EXCEPT ![current].p_share = share])
  /\ UNCHANGED <<tickets, console>>

(* INT_SYS_USER3: the kernel moves the shared cursor itself. *)
SysPrint(reg, c) ==
  /\ mode = "user"
  /\ screen' = [screen EXCEPT ![cursorpos] = c]
  /\ cursorpos' = cursorpos + 1
  /\ Run(current, Saved(reg))
  /\ UNCHANGED tickets

SysGetTicket_defect(reg) ==   \* no check of MAX_TICKETS
  /\ mode = "user"
  /\ tickets' = Append(tickets, current)
  /\ Run(current, Saved(reg))
  /\ UNCHANGED console

(* INT_SYS_USER4 *)
SysGetTicket(reg) ==
  /\ mode = "user"
  /\ tickets' = IF Len(tickets) < MAX_TICKETS THEN Append(tickets, current)
                                              ELSE tickets
  /\ Run(current, Saved(reg))
  /\ UNCHANGED console

Clock(reg) ==
  /\ mode = "user"
  /\ allow_clock_interrupt
  /\ schedule(Saved(reg))
  /\ UNCHANGED <<tickets, console>>

(* Any other trap number: system calls 54 to 57, faults, other hardware. *)
BadInterrupt(reg) ==
  /\ mode = "user"
  /\ Stop("hang", Saved(reg))
  /\ UNCHANGED <<tickets, console>>

-----------------------------------------------------------------------------
(* start() *)

Descriptor(p) ==
  [p_state       |-> IF p = 0 THEN "P_EMPTY" ELSE "P_RUNNABLE",
   p_exit_status |-> 0,
   p_priority    |-> IF p = 0 THEN 0 ELSE 1,
   p_share       |-> IF p = 0 THEN 0 ELSE 1,
   p_time_passed |-> 0,
   p_registers   |-> EntryRegs[p]]

Init ==
  /\ scheduling_algorithm \in Algorithms
  /\ proc_array = [p \in Pids |-> Descriptor(p)]
  /\ current = 1
  /\ cpu = EntryRegs[1]
  /\ mode = "user"
  /\ tickets = <<>>
  /\ cursorpos = 0
  /\ screen = [c \in 0 .. CELLS - 1 |-> BLANK]

(* Any trap of the current process, whose registers are reg. *)
Trap(reg) ==
  \/ SysYield(reg)
  \/ \E x \in Statuses : SysExit(reg, x)
  \/ \E x \in Priorities : SysSetPriority(reg, x)
  \/ \E x \in Shares : SysSetShare(reg, x)
  \/ \E c \in Chars : cursorpos < CELLS /\ SysPrint(reg, c)  \* bound: one screen
  \/ SysGetTicket(reg)
  \/ Clock(reg)
  \/ BadInterrupt(reg)

Next == \E reg \in Regs : Trap(reg)

Spec == Init /\ [][Next]_kernvars

-----------------------------------------------------------------------------
(* Properties, for any sequence of legal system calls. *)

Descriptors ==
  [p_state : States, p_exit_status : Int, p_priority : Int, p_share : Int,
   p_time_passed : Int, p_registers : Regs]

(* The type of the state; only run() past the table leaves Pids. *)
TypeOK ==
  /\ scheduling_algorithm \in Algorithms
  /\ proc_array \in [Pids -> Descriptors]
  /\ current \in Pids \/ (current = NPROCS /\ mode = "wild")
  /\ cpu \in Regs
  /\ mode \in Modes
  /\ tickets \in Seq(Pids) /\ Len(tickets) <= MAX_TICKETS
  /\ cursorpos \in Nat
  /\ DOMAIN screen = 0 .. CELLS - 1

(***************************************************************************)
(* schedule() "picks a runnable process" (schedos-kern.c:222): a process   *)
(* that has exited, or the empty slot 0, never has the processor, even     *)
(* when it still owns lottery tickets or the scan starts at it.  For       *)
(* algorithm 1, which tests nothing after it advanced, this rests on       *)
(* RunsToCompletion.                                                       *)
(***************************************************************************)
RunsRunnable == mode = "user" => current \in Runnable(proc_array)

(***************************************************************************)
(* schedule() "picks a runnable process", and "if there are no runnable    *)
(* processes, it spins forever" (schedos-kern.c:222-223).  It also spins,  *)
(* and abandons runnable processes, if with algorithm 3 none of them has a *)
(* positive share, or if with algorithm 4 the drawing has begun and none   *)
(* of them holds a ticket; in no other case ever.                          *)
(***************************************************************************)
SpinsOnlyWhenStuck ==
  mode = "spin" =>
    \A p \in Runnable(proc_array) :
      \/ scheduling_algorithm = 3 /\ proc_array[p].p_share <= 0
      \/ /\ scheduling_algorithm = 4
         /\ Drawing /\ p \notin Holders

(***************************************************************************)
(* schedule() context-switches to a process of the table or spins          *)
(* (schedos-kern.c:222-223): it never runs what lies behind the table.     *)
(***************************************************************************)
StaysInTable == mode # "wild"

(***************************************************************************)
(* Exit is final: nothing that happens later, neither the scheduler's      *)
(* bookkeeping nor a system call of another process, touches the           *)
(* descriptor of a process that has exited, its exit status included.      *)
(***************************************************************************)
ExitIsFinal ==
  [][\A p \in Pids : proc_array[p].p_state = "P_ZOMBIE" =>
                        proc_array'[p] = proc_array[p]]_kernvars

(***************************************************************************)
(* Algorithm 1 runs the processes one after the other: when one has the    *)
(* processor, all before it have exited and those behind it have not       *)
(* started, so that their registers are those of start(); and it leaves    *)
(* the table only when the last one has exited.                            *)
(***************************************************************************)
RunsToCompletion ==
  scheduling_algorithm = 1 /\ mode \in {"user", "wild"} =>
    /\ \A p \in 1 .. current - 1 : proc_array[p].p_state = "P_ZOMBIE"
    /\ \A p \in current + 1 .. NPROCS - 1 : proc_array[p] = Descriptor(p)
=============================================================================
