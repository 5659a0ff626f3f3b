--------------------------- MODULE SchedOSProofs ----------------------------
(***************************************************************************)
(* Proofs about SchedOS, for every number of applications and characters,  *)
(* every algorithm, both values of SYNC_METHOD, with the clock or without; *)
(* and, at the end, that what they say of a run without the clock holds of *)
(* SchedOSLottery, where the draws are those of the generator.             *)
(***************************************************************************)
EXTENDS SchedOSLottery, FiniteSetTheorems, TLAPS

(* The registers as the kernel sees them, which knows no bound of a counter. *)
AppRegs == [eip : App!Labels, i : Nat, edx : Nat]

KP == INSTANCE SchedOSKernProofs WITH
        Regs <- AppRegs,
        EntryRegs <- [p \in 0 .. NPROCS - 1 |-> App!Entry],
        Priorities <- {PRIORITY[p] : p \in Apps},
        Shares <- {SHARE[p] : p \in Apps},
        Statuses <- {0},
        Chars <- Apps

AppP == INSTANCE SchedOSAppProofs WITH regs <- VirtualRegs

(* The steps without the fairness, which only liveness needs. *)
Runs == Init /\ [][Next]_vars

-----------------------------------------------------------------------------
(* The assumptions of the parts follow from that of the whole.               *)

LEMMA EntryType == App!Entry \in AppRegs
BY DEF App!Entry, AppRegs, App!Labels, App!Calls

LEMMA KernConstants == KP!KernAssumption
<1>1. [p \in 0 .. NPROCS - 1 |-> App!Entry] \in [0 .. NPROCS - 1 -> AppRegs]
  BY EntryType
<1>2. /\ {PRIORITY[p] : p \in Apps} \subseteq Int
      /\ {SHARE[p] : p \in Apps} \subseteq Int /\ {0} \subseteq Int
  BY OSAssumption DEF Apps
<1> QED BY <1>1, <1>2, OSAssumption DEF KP!KernAssumption

LEMMA AppConstants == AppP!AppAssumption /\ AppP!ConsoleAssumption
<1>1. AppP!AppAssumption
  BY OSAssumption DEF AppP!AppAssumption, Apps
<1>2. AppP!IsFiniteSet(Apps) /\ AppP!Cardinality(Apps) = NPROCS - 1
  <2>1. IsFiniteSet(Apps) /\ Cardinality(Apps) = NPROCS - 1
    BY FS_Interval, OSAssumption DEF Apps
  <2>2. AppP!IsFiniteSet(Apps) <=> IsFiniteSet(Apps)
    BY DEF AppP!IsFiniteSet, IsFiniteSet
  <2>3. AppP!Cardinality(Apps) = Cardinality(Apps)
    BY DEF AppP!Cardinality, Cardinality
  <2> QED BY <2>1, <2>2, <2>3
<1>3. AppP!Cardinality(Apps) * RUNCOUNT = (NPROCS - 1) * RUNCOUNT
  BY <1>2
<1>4. AppP!Cardinality(Apps) * RUNCOUNT <= CELLS
  BY <1>3, OSAssumption
<1>5. AppP!ConsoleAssumption
  BY <1>2, <1>4 DEF AppP!ConsoleAssumption
<1> QED BY <1>1, <1>5

-----------------------------------------------------------------------------
(* What SchedOS calls of the kernel is what the kernel's proofs are about.   *)

LEMMA SameSchedule ==
  ASSUME NEW procs, Kern!schedule(procs)
  PROVE  KP!schedule(procs)
<1>1. \A S : Kern!RunNext(S, procs) => KP!RunNext(S, procs)
  BY DEF Kern!RunNext, KP!RunNext, Kern!Stop, KP!Stop, Kern!Run, KP!Run, Kern!Ahead, KP!Ahead
<1>2. Kern!Runnable(procs) = KP!Runnable(procs) /\ Kern!MostUrgent(procs) = KP!MostUrgent(procs)
  BY DEF Kern!Runnable, KP!Runnable, Kern!MostUrgent, KP!MostUrgent, Kern!Pids, KP!Pids
<1>3. Kern!RoundRobin(procs) => KP!RoundRobin(procs)
  BY <1>1, <1>2 DEF Kern!RoundRobin, KP!RoundRobin
<1>4. Kern!InOrder(procs) => KP!InOrder(procs)
  BY DEF Kern!InOrder, KP!InOrder, Kern!Run, KP!Run, Kern!RunOutside, KP!RunOutside,
         Kern!Runnable, KP!Runnable, Kern!Pids, KP!Pids
<1>5. Kern!StrictPriority(procs) => KP!StrictPriority(procs)
  BY <1>1, <1>2 DEF Kern!StrictPriority, KP!StrictPriority
<1>6. Kern!ProportionalShare(procs) => KP!ProportionalShare(procs)
  BY DEF Kern!ProportionalShare, KP!ProportionalShare, Kern!Runnable, KP!Runnable,
         Kern!Pids, KP!Pids, Kern!HasTurn, KP!HasTurn, Kern!Visit, KP!Visit,
         Kern!ClearTime, KP!ClearTime, Kern!Run, KP!Run, Kern!Stop, KP!Stop
<1>7. Kern!Lottery(procs) => KP!Lottery(procs)
  BY <1>3 DEF Kern!Lottery, KP!Lottery, Kern!Drawing, KP!Drawing, Kern!Holders,
         KP!Holders, Kern!Runnable, KP!Runnable, Kern!Pids, KP!Pids,
         Kern!Run, KP!Run, Kern!Stop, KP!Stop
<1> QED BY <1>3, <1>4, <1>5, <1>6, <1>7 DEF Kern!schedule, KP!schedule

(* Every system call of the current process, and the clock, is a trap with   *)
(* the registers behind the instruction, or those of the processor.          *)
Returned(reg) ==
  \/ Execute /\ ~Instruction /\ reg = App!Succ(cpu)
  \/ Tick /\ reg = cpu

LEMMA Trapping ==
  ASSUME NEW reg, Returned(reg), current \in Apps
  PROVE  KP!Caught(reg)
<1>1. \A procs : Kern!schedule(procs) => KP!schedule(procs)
  BY SameSchedule
<1>2. /\ Kern!Saved(reg) = KP!Saved(reg)
      /\ \A p, procs : Kern!Run(p, procs) => KP!Run(p, procs)
  BY DEF Kern!Saved, KP!Saved, Kern!Run, KP!Run
<1>3. CASE Tick /\ reg = cpu
  BY <1>1, <1>2, <1>3 DEF Tick, Kern!Clock, KP!Clock, Kern!console, KP!console, KP!Caught
<1>4. CASE sys_set_priority /\ reg = App!Succ(cpu)
  <2>1. KP!SysSetPriority(reg, PRIORITY[current])
    BY <1>2, <1>4 DEF sys_set_priority, Kern!SysSetPriority, KP!SysSetPriority, Kern!console, KP!console
  <2> QED BY <2>1 DEF KP!Caught
<1>5. CASE sys_set_share /\ reg = App!Succ(cpu)
  <2>1. KP!SysSetShare(reg, SHARE[current])
    BY <1>2, <1>5 DEF sys_set_share, Kern!SysSetShare, KP!SysSetShare, Kern!console, KP!console
  <2> QED BY <2>1 DEF KP!Caught
<1>6. CASE sys_get_ticket /\ reg = App!Succ(cpu)
  BY <1>2, <1>6 DEF sys_get_ticket, Kern!SysGetTicket, KP!SysGetTicket, Kern!console, KP!console, KP!Caught
<1>7. CASE sys_yield /\ reg = App!Succ(cpu)
  BY <1>1, <1>2, <1>7 DEF sys_yield, Kern!SysYield, KP!SysYield, Kern!console, KP!console, KP!Caught
<1>8. CASE sys_print /\ reg = App!Succ(cpu)
  <2>1. KP!SysPrint(reg, current)
    BY <1>2, <1>8 DEF sys_print, Kern!SysPrint, KP!SysPrint
  <2> QED BY <2>1 DEF KP!Caught
<1>9. CASE sys_exit /\ reg = App!Succ(cpu)
  <2>1. KP!SysExit(reg, 0)
    BY <1>1, <1>2, <1>9 DEF sys_exit, Kern!SysExit, KP!SysExit, Kern!console, KP!console
  <2> QED BY <2>1 DEF KP!Caught
<1> QED BY <1>3, <1>4, <1>5, <1>6, <1>7, <1>8, <1>9 DEF Returned, Execute

-----------------------------------------------------------------------------
(* The inductive invariant: the kernel's, and that slot 0 stays empty, so    *)
(* that only applications have the processor.                                *)

OSInv == KP!IInv /\ proc_array[0].p_state = "P_EMPTY"

LEMMA OnlyApps ==
  ASSUME OSInv, mode = "user"
  PROVE  current \in Apps
BY KernConstants DEF OSInv, KP!IInv, KP!RunsRunnable, KP!Runnable, KP!Pids, Apps

LEMMA VirtualIs == VirtualRegs = [p \in Apps |-> KP!RegsOf(p)]
BY DEF VirtualRegs, KP!RegsOf

LEMMA SuccType ==
  ASSUME NEW r \in AppRegs, cursorpos \in Nat
  PROVE  App!Succ(r) \in AppRegs
<1>1. \A i \in Nat : App!LoopHead(i) \in App!Labels
  BY DEF App!LoopHead, App!Labels, App!Calls
<1>2. \A l \in App!Labels : App!Jump(r, l) \in AppRegs
  BY DEF App!Jump, AppRegs
<1>3. App!NextIteration(r) \in AppRegs
  <2>1. r.i + 1 \in Nat /\ App!LoopHead(r.i + 1) \in App!Labels
    BY <1>1 DEF AppRegs
  <2> QED BY <2>1 DEF App!NextIteration, AppRegs
<1>4. [r EXCEPT !.eip = "store", !.edx = cursorpos] \in AppRegs
  BY DEF AppRegs, App!Labels, App!Critical
<1>5. r.eip \in App!Labels /\ r.i \in Nat
  BY DEF AppRegs
<1>6. {"set_share", "get_ticket", "load", "acquire", "bump", "release", "yield", "halt"}
        \subseteq App!Labels
  BY DEF App!Labels, App!Calls, App!Critical
<1> QED BY <1>1, <1>2, <1>3, <1>4, <1>5, <1>6 DEF App!Succ, App!Labels, App!Calls, App!Critical

(* Instructions change no state of the kernel's but the registers.           *)
LEMMA InstructionStep ==
  ASSUME OSInv, Instruction
  PROVE  OSInv' /\ App!Step(current)
<1>1. /\ mode = "user" /\ current \in Apps /\ cpu \in AppRegs /\ cursorpos \in Nat
      /\ App!Effect(current, cpu) /\ cpu' = App!Succ(cpu)
      /\ UNCHANGED <<scheduling_algorithm, proc_array, current, mode, tickets, SYNC_METHOD>>
  BY OnlyApps DEF Instruction, OSInv, KP!IInv, KP!TypeOK
<1>2. cursorpos' \in Nat /\ DOMAIN screen' = DOMAIN screen
  BY <1>1 DEF App!Effect, App!Acquire, App!LoadCursor, App!StoreChar, App!BumpCursor,
              App!Release, AppRegs
<1>3. cpu' \in AppRegs
  BY <1>1, SuccType
<1>4. KP!TypeOK'
  BY <1>1, <1>2, <1>3 DEF OSInv, KP!IInv, KP!TypeOK
<1>5. KP!RunsRunnable' /\ KP!SpinsOnlyWhenStuck' /\ KP!RunsToCompletion'
  BY <1>1 DEF OSInv, KP!IInv, KP!RunsRunnable, KP!SpinsOnlyWhenStuck, KP!RunsToCompletion,
              KP!Runnable, KP!Drawing, KP!Holders, KP!Descriptor
<1>6. OSInv'
  BY <1>1, <1>4, <1>5 DEF OSInv, KP!IInv
<1>7. VirtualRegs[current] = cpu
  BY <1>1 DEF VirtualRegs
<1>8. VirtualRegs' = [VirtualRegs EXCEPT ![current] = App!Succ(VirtualRegs[current])]
  BY <1>1, <1>7 DEF VirtualRegs
<1>9. App!Effect(current, VirtualRegs[current])
  BY <1>1, <1>7
<1> QED BY <1>1, <1>6, <1>8, <1>9 DEF App!Step

(* A trap changes no registers but the caller's.                             *)
LEMMA TrapStep ==
  ASSUME OSInv, NEW reg, Returned(reg)
  PROVE  /\ OSInv' /\ mode = "user" /\ current \in Apps /\ VirtualRegs[current] = cpu
         /\ scheduling_algorithm' = scheduling_algorithm
         /\ VirtualRegs' = [VirtualRegs EXCEPT ![current] = reg]
<1>1. mode = "user"
  BY DEF Returned, Execute, Tick, sys_set_priority, sys_set_share, sys_get_ticket,
         sys_yield, sys_print, sys_exit, Kern!SysSetPriority, Kern!SysSetShare,
         Kern!SysGetTicket, Kern!SysYield, Kern!SysPrint, Kern!SysExit, Kern!Clock
<1>2. current \in Apps /\ cpu \in AppRegs /\ cursorpos \in Nat /\ KP!IInv
  BY <1>1, OnlyApps DEF OSInv, KP!IInv, KP!TypeOK
<1>3. reg \in AppRegs
  BY <1>2, SuccType DEF Returned
<1>4. KP!Caught(reg)
  BY <1>2, Trapping
<1>5. KP!IInv'
  BY <1>2, <1>3, <1>4, KernConstants, KP!TrapIInv
<1>6. /\ scheduling_algorithm' = scheduling_algorithm
      /\ \A q \in KP!Pids : KP!RegsOf(q)' = IF q = current THEN reg ELSE KP!RegsOf(q)
      /\ \A q \in KP!Pids : proc_array[q].p_state # "P_RUNNABLE"
                             => proc_array'[q] = proc_array[q]
  BY <1>2, <1>3, <1>4, KernConstants, KP!TrapRegisters
<1>7. 0 \in KP!Pids /\ Apps \subseteq KP!Pids
  BY OSAssumption DEF KP!Pids, Apps
<1>8. OSInv'
  BY <1>5, <1>6, <1>7 DEF OSInv
<1>9. VirtualRegs' = [p \in Apps |-> KP!RegsOf(p)']
  BY DEF VirtualRegs, KP!RegsOf
<1>10. VirtualRegs' = [VirtualRegs EXCEPT ![current] = reg]
  BY <1>6, <1>7, <1>9, VirtualIs
<1> QED BY <1>1, <1>2, <1>6, <1>8, <1>10 DEF VirtualRegs

(* What a trap does to the memory that applications share.                   *)
LEMMA TrapEffect ==
  ASSUME OSInv, Execute, ~Instruction
  PROVE  /\ App!SilentCall(cpu) \/ App!PrintCall(current, cpu)
         /\ UNCHANGED SYNC_METHOD
<1>1. CASE sys_print
  BY <1>1 DEF sys_print, Traps, Kern!SysPrint, App!PrintCall
<1>2. CASE \/ sys_set_priority \/ sys_set_share \/ sys_get_ticket \/ sys_yield \/ sys_exit
  BY <1>2 DEF sys_set_priority, sys_set_share, sys_get_ticket, sys_yield, sys_exit, Traps,
              Kern!SysSetPriority, Kern!SysSetShare, Kern!SysGetTicket, Kern!SysYield,
              Kern!SysExit, Kern!console, App!SilentCall, App!Calls
<1> QED BY <1>1, <1>2 DEF Execute


(* What the current process executes is a step of that application.          *)
LEMMA ExecuteStep ==
  ASSUME OSInv, Execute
  PROVE  OSInv' /\ mode = "user" /\ current \in Apps /\ App!Step(current)
<1>1. CASE Instruction
  BY <1>1, InstructionStep, OnlyApps DEF Instruction
<1>2. CASE ~Instruction
  <2> DEFINE reg == App!Succ(cpu)
  <2>1. Returned(reg)
    BY <1>2 DEF Returned
  <2> HIDE DEF reg
  <2>2. /\ OSInv' /\ mode = "user" /\ current \in Apps /\ VirtualRegs[current] = cpu
        /\ VirtualRegs' = [VirtualRegs EXCEPT ![current] = reg]
    BY <2>1, TrapStep
  <2>3. /\ App!SilentCall(VirtualRegs[current]) \/ App!PrintCall(current, VirtualRegs[current])
        /\ UNCHANGED SYNC_METHOD
    BY <1>2, <2>2, TrapEffect
  <2>4. App!Step(current)
    BY <2>2, <2>3 DEF App!Step, reg
  <2> QED BY <2>2, <2>4
<1> QED BY <1>1, <1>2

LEMMA InitOS ==
  ASSUME Init
  PROVE  OSInv /\ App!Init
<1>1. KP!Init
  BY DEF Init, Kern!Init, KP!Init, Kern!Pids, KP!Pids, Kern!Descriptor, KP!Descriptor
<1>2. KP!IInv
  BY <1>1, KernConstants, KP!InitIInv
<1>3. proc_array[0].p_state = "P_EMPTY"
  BY <1>1, OSAssumption DEF KP!Init, KP!Pids, KP!Descriptor
<1>4. VirtualRegs = [p \in Apps |-> App!Entry]
  <2>1. \A p \in Apps : p \in KP!Pids /\ p \in 0 .. NPROCS - 1
    BY OSAssumption DEF Apps, KP!Pids
  <2>2. current = 1 /\ 1 \in 0 .. NPROCS - 1
    BY <1>1, OSAssumption DEF KP!Init
  <2>3. cpu = App!Entry
    BY <1>1, <2>2 DEF KP!Init
  <2>4. \A p \in Apps : proc_array[p].p_registers = App!Entry
    BY <1>1, <2>1 DEF KP!Init, KP!Descriptor
  <2> QED BY <2>3, <2>4 DEF VirtualRegs
<1>5. App!Init
  BY <1>4 DEF Init, Kern!Init, App!Init
<1> QED BY <1>2, <1>3, <1>5 DEF OSInv

LEMMA NextOS ==
  ASSUME OSInv, [Next]_vars
  PROVE  OSInv' /\ [App!Next]_(App!appvars)
<1>1. CASE UNCHANGED vars
  <2>1. KP!kernvars' = KP!kernvars
    BY <1>1 DEF vars, KP!kernvars
  <2>2. KP!IInv'
    BY <2>1, KernConstants, KP!NextIInv DEF OSInv
  <2> QED BY <1>1, <2>2 DEF OSInv, vars, App!appvars, VirtualRegs
<1>2. CASE Execute
  BY <1>2, ExecuteStep DEF App!Next
<1>3. CASE Tick
  <2>1. /\ OSInv' /\ VirtualRegs[current] = cpu
        /\ VirtualRegs' = [VirtualRegs EXCEPT ![current] = cpu]
    BY <1>3, TrapStep DEF Returned
  <2>2. VirtualRegs' = VirtualRegs
    BY <2>1 DEF VirtualRegs
  <2>3. UNCHANGED <<SYNC_METHOD, lock, cursorpos, screen>>
    BY <1>3 DEF Tick, Kern!Clock, Kern!console
  <2> QED BY <2>1, <2>2, <2>3 DEF App!appvars
<1> QED BY <1>1, <1>2, <1>3 DEF Next

-----------------------------------------------------------------------------

(* The kernel keeps its invariant when the applications are its processes.   *)
LEMMA OSInvariant == Runs => []OSInv
<1>1. Init => OSInv
  BY InitOS
<1>2. OSInv /\ [Next]_vars => OSInv'
  BY NextOS
<1> QED BY <1>1, <1>2, PTL DEF Runs

(* The kernel gives every application a processor of its own: no context     *)
(* switch, wherever the clock strikes, loses or mixes up registers, and the  *)
(* applications do what SchedOSApp allows (schedos-kern.c interrupt(),       *)
(* schedule(); run()).                                                       *)
THEOREM ProcessorsAreVirtual == Spec => VirtualProcessors
<1>1. Init => App!Init
  BY InitOS
<1>2. OSInv /\ [Next]_vars => [App!Next]_(App!appvars)
  BY NextOS
<1> QED BY <1>1, <1>2, OSInvariant, PTL DEF Spec, Runs, VirtualProcessors, App!Spec


-----------------------------------------------------------------------------
(* What is proved of the applications holds on one processor.                *)

LEMMA SameApps ==
  /\ App!Init => AppP!Init
  /\ \A p : App!Step(p) => AppP!Step(p)
  /\ [App!Next]_(App!appvars) => [AppP!Next]_(AppP!appvars)
<1>1. App!Init => AppP!Init
  BY DEF App!Init, AppP!Init, App!Entry, AppP!Entry
<1>2. \A r : App!Succ(r) = AppP!Succ(r)
  BY DEF App!Succ, AppP!Succ, App!Jump, AppP!Jump, App!LoopHead, AppP!LoopHead,
         App!NextIteration, AppP!NextIteration, App!Free, AppP!Free
<1>3. \A p, r : App!Effect(p, r) => AppP!Effect(p, r)
  BY DEF App!Effect, AppP!Effect, App!Acquire, AppP!Acquire, App!LoadCursor, AppP!LoadCursor,
         App!StoreChar, AppP!StoreChar, App!BumpCursor, AppP!BumpCursor, App!Release, AppP!Release
<1>4. \A p, r : /\ App!SilentCall(r) => AppP!SilentCall(r)
                /\ App!PrintCall(p, r) => AppP!PrintCall(p, r)
  BY DEF App!SilentCall, AppP!SilentCall, App!PrintCall, AppP!PrintCall, App!Calls, AppP!Calls
<1>5. \A p : App!Step(p) => AppP!Step(p)
  BY <1>2, <1>3, <1>4 DEF App!Step, AppP!Step
<1>6. App!Next => AppP!Next
  BY <1>5 DEF App!Next, AppP!Next
<1>7. App!appvars = AppP!appvars /\ App!appvars' = AppP!appvars'
  BY DEF App!appvars, AppP!appvars
<1> QED BY <1>1, <1>5, <1>6, <1>7

LEMMA SystemInvariant == Runs => [](OSInv /\ AppP!IInv)
<1>1. Init => AppP!IInv
  BY InitOS, SameApps, AppP!InitIInv, AppConstants
<1>2. OSInv /\ AppP!IInv /\ [Next]_vars => AppP!IInv'
  BY NextOS, SameApps, AppP!NextIInv, AppConstants
<1> QED BY <1>1, <1>2, OSInvariant, PTL DEF Runs

(* The console is shared without loss (schedos-1.c:45-51): the spin lock     *)
(* excludes although its holder may lose the processor, every character is   *)
(* and stays on the console, and the cursor stays in it.                     *)
THEOREM ConsoleShared ==
  Spec => [](App!MutualExclusion /\ App!NothingLost /\ App!CursorInConsole)
<1>1. AppP!IInv => AppP!MutualExclusion /\ AppP!NothingLost
  BY DEF AppP!IInv, AppP!Counting
<1>2. AppP!IInv => AppP!CursorInConsole
  BY AppP!InvCursor, AppConstants
<1>3. AppP!MutualExclusion => App!MutualExclusion
  BY DEF App!MutualExclusion, AppP!MutualExclusion, App!InCritical, AppP!InCritical,
         App!Critical, AppP!Critical
<1>4. AppP!NothingLost => App!NothingLost
  <2>1. \A p : App!Printed(p) = AppP!Printed(p) /\ App!CellsOf(p) = AppP!CellsOf(p)
    BY DEF App!Printed, AppP!Printed, App!CellsOf, AppP!CellsOf
  <2>2. \A S : App!Cardinality(S) = AppP!Cardinality(S)
    BY DEF App!Cardinality, AppP!Cardinality
  <2> QED BY <2>1, <2>2 DEF App!NothingLost, AppP!NothingLost
<1>5. AppP!CursorInConsole => App!CursorInConsole
  BY DEF App!CursorInConsole, AppP!CursorInConsole
<1> QED BY <1>1, <1>2, <1>3, <1>4, <1>5, SystemInvariant, PTL DEF Spec, Runs


-----------------------------------------------------------------------------
(* Lottery tickets: one for every application that has asked for one, which  *)
(* it does once.                                                             *)

Before == {"set_priority", "set_share", "get_ticket"}

DrawInv ==
  /\ \A n \in 1 .. Len(tickets) :
       tickets[n] \in Apps /\ VirtualRegs[tickets[n]].eip \notin Before
  /\ \A n, m \in 1 .. Len(tickets) : tickets[n] = tickets[m] => n = m

(* No instruction leads back to the first three.                             *)
LEMMA NoWayBack ==
  ASSUME NEW r \in AppRegs, cursorpos \in Nat, r.eip \notin Before \/ r.eip = "get_ticket"
  PROVE  App!Succ(r).eip \notin Before
<1>1. \A i : App!LoopHead(i) \notin Before
  BY DEF App!LoopHead, Before
<1>2. \A l : App!Jump(r, l).eip = l
  BY DEF App!Jump, AppRegs
<1>3. App!NextIteration(r).eip = App!LoopHead(r.i + 1)
  BY DEF App!NextIteration, AppRegs
<1>4. [r EXCEPT !.eip = "store", !.edx = cursorpos].eip = "store"
  BY DEF AppRegs
<1>5. r.eip \in App!Labels
  BY DEF AppRegs
<1> QED BY <1>1, <1>2, <1>3, <1>4, <1>5 DEF App!Succ, App!Labels, App!Calls, App!Critical, Before

(* A step of an application that leaves the tickets alone.                   *)
LEMMA SameTickets ==
  ASSUME OSInv, DrawInv, mode = "user", tickets' = tickets,
         NEW reg, reg.eip \notin Before \/ cpu.eip \in Before,
         VirtualRegs' = [VirtualRegs EXCEPT ![current] = reg]
  PROVE  DrawInv'
<1>1. current \in Apps /\ VirtualRegs[current] = cpu
  BY OnlyApps DEF VirtualRegs
<1>2. \A p \in Apps : VirtualRegs'[p] = IF p = current THEN reg ELSE VirtualRegs[p]
  BY <1>1 DEF VirtualRegs
<1>3. \A n \in 1 .. Len(tickets) :
        tickets[n] \in Apps /\ VirtualRegs'[tickets[n]].eip \notin Before
  BY <1>1, <1>2 DEF DrawInv
<1> QED BY <1>3 DEF DrawInv

LEMMA DrawStep ==
  ASSUME OSInv, DrawInv, [Next]_vars
  PROVE  DrawInv'
<1>1. CASE UNCHANGED vars
  BY <1>1 DEF vars, DrawInv, VirtualRegs
<1>2. ASSUME mode = "user"
      PROVE  /\ cpu \in AppRegs /\ cursorpos \in Nat /\ current \in Apps
             /\ tickets \in Seq(KP!Pids)
  BY <1>2, OnlyApps DEF OSInv, KP!IInv, KP!TypeOK
<1>3. ASSUME mode = "user"
      PROVE  App!Succ(cpu).eip \notin Before \/ cpu.eip \in Before
  BY <1>2, <1>3, NoWayBack
<1>4. CASE Instruction
  <2>1. mode = "user" /\ tickets' = tickets
    BY <1>4 DEF Instruction
  <2>2. VirtualRegs' = [VirtualRegs EXCEPT ![current] = App!Succ(cpu)]
    <3>1. current \in Apps /\ cpu' = App!Succ(cpu) /\ UNCHANGED <<proc_array, current, mode>>
      BY <1>2, <1>4, <2>1 DEF Instruction
    <3> QED BY <2>1, <3>1 DEF VirtualRegs
  <2> QED BY <1>3, <2>1, <2>2, SameTickets
<1>5. CASE Tick
  <2>1. mode = "user" /\ tickets' = tickets
    BY <1>5 DEF Tick, Kern!Clock
  <2>2. VirtualRegs' = [VirtualRegs EXCEPT ![current] = cpu]
    BY <1>5, TrapStep DEF Returned
  <2> QED BY <2>1, <2>2, SameTickets
<1>6. CASE Execute /\ ~Instruction
  <2> DEFINE reg == App!Succ(cpu)
  <2>1. Returned(reg)
    BY <1>6 DEF Returned
  <2>2. /\ mode = "user" /\ current \in Apps /\ VirtualRegs[current] = cpu
        /\ VirtualRegs' = [VirtualRegs EXCEPT ![current] = reg]
    <3> HIDE DEF reg
    <3> QED BY <2>1, TrapStep
  <2>3. CASE tickets' = tickets
    BY <1>3, <2>2, <2>3, SameTickets
  <2>4. CASE tickets' # tickets
    <3>1. cpu.eip = "get_ticket" /\ tickets' = Append(tickets, current)
      BY <1>6, <2>4 DEF Execute, sys_set_priority, sys_set_share, sys_get_ticket, sys_yield,
         sys_print, sys_exit, Traps, Kern!SysSetPriority, Kern!SysSetShare, Kern!SysGetTicket,
         Kern!SysYield, Kern!SysPrint, Kern!SysExit
    <3>2. \A n \in 1 .. Len(tickets) : tickets[n] # current
      BY <2>2, <3>1 DEF DrawInv, Before
    <3>3. reg.eip \notin Before
      BY <1>2, <2>2, <3>1, NoWayBack
    <3> HIDE DEF reg
    <3>4. \A p \in Apps : VirtualRegs'[p] = IF p = current THEN reg ELSE VirtualRegs[p]
      BY <2>2 DEF VirtualRegs
    <3>5. /\ Len(tickets) \in Nat /\ Len(tickets') = Len(tickets) + 1
          /\ \A n \in 1 .. Len(tickets) + 1 :
               tickets'[n] = IF n = Len(tickets) + 1 THEN current ELSE tickets[n]
      BY <1>2, <2>2, <3>1, OSAssumption DEF KP!Pids, Apps
    <3>6. \A n \in 1 .. Len(tickets') :
            /\ tickets'[n] \in Apps /\ VirtualRegs'[tickets'[n]].eip \notin Before
            /\ n = Len(tickets) + 1 \/ n \in 1 .. Len(tickets)
      BY <2>2, <3>3, <3>4, <3>5 DEF DrawInv
    <3>7. \A n, m \in 1 .. Len(tickets') : tickets'[n] = tickets'[m] => n = m
      BY <3>2, <3>5, <3>6 DEF DrawInv
    <3> QED BY <3>6, <3>7 DEF DrawInv
  <2> QED BY <2>3, <2>4
<1> QED BY <1>1, <1>4, <1>5, <1>6 DEF Next

(* When there are as many tickets as applications, each holds one: a longer  *)
(* list of applications without repetition there is not.                     *)
LEMMA AllHold ==
  ASSUME OSInv, DrawInv, Len(tickets) >= NPROCS - 1, NEW p \in Apps
  PROVE  \E n \in 1 .. Len(tickets) : tickets[n] = p
<1> SUFFICES ASSUME \A n \in 1 .. Len(tickets) : tickets[n] # p
             PROVE  FALSE
  OBVIOUS
<1> DEFINE S == 1 .. Len(tickets)
           T == Apps \ {p}
           f == [n \in S |-> tickets[n]]
<1>1. Len(tickets) \in Nat /\ NPROCS \in Nat /\ NPROCS >= 2
  BY OSAssumption DEF OSInv, KP!IInv, KP!TypeOK
<1>2. IsFiniteSet(S) /\ Cardinality(S) = Len(tickets)
  <2>1. 1 \in Int /\ Len(tickets) \in Int
    BY <1>1
  <2>2. /\ IsFiniteSet(1 .. Len(tickets))
        /\ Cardinality(1 .. Len(tickets)) = IF 1 > Len(tickets) THEN 0 ELSE Len(tickets) - 1 + 1
    BY <2>1, FS_Interval
  <2> QED BY <1>1, <2>2
<1>3. IsFiniteSet(T) /\ Cardinality(T) = NPROCS - 2
  <2>1. IsFiniteSet(Apps) /\ Cardinality(Apps) = NPROCS - 1
    BY <1>1, FS_Interval DEF Apps
  <2>2. IsFiniteSet(T) /\ Cardinality(T) = Cardinality(Apps) - 1
    BY <2>1, FS_RemoveElement
  <2> QED BY <1>1, <2>1, <2>2
<1>4. f \in [S -> T]
  BY DEF DrawInv
<1>5. Cardinality(T) < Cardinality(S)
  BY <1>1, <1>2, <1>3
<1>6. \E x, y \in S : x # y /\ f[x] = f[y]
  <2> HIDE DEF S, T, f
  <2> QED BY <1>2, <1>3, <1>4, <1>5, FS_PigeonHole
<1> QED BY <1>6 DEF DrawInv

(* No application is left out of the lottery (schedos-kern.c:196, get_winner *)
(* and schedule() with algorithm 4): drawing begins when all hold a ticket.  *)
THEOREM NobodyLeftOut == Spec => []EveryoneInTheDraw
<1>1. Init => DrawInv
  BY DEF Init, Kern!Init, DrawInv
<1>2. OSInv /\ DrawInv /\ [Next]_vars => DrawInv'
  BY DrawStep
<1>3. OSInv /\ DrawInv => EveryoneInTheDraw
  BY AllHold DEF EveryoneInTheDraw, Kern!Drawing, Kern!Holders
<1> QED BY <1>1, <1>2, <1>3, OSInvariant, PTL DEF Spec, Runs

-----------------------------------------------------------------------------
(* Algorithm 1: one application after the other.  While an application has   *)
(* the processor the cursor stands behind all the characters of those before *)
(* it and what it has printed itself.                                        *)

InOrderInv ==
  /\ PrintInOrder
  /\ scheduling_algorithm = 1 /\ mode = "user" =>
       cursorpos = (current - 1) * RUNCOUNT + AppP!Printed(current)

LEMMA Quotient ==
  ASSUME NEW d \in Nat, NEW k \in Nat, NEW n \in Nat, n < d
  PROVE  (k * d + n) \div d = k
OBVIOUS

(* Where algorithm 1 goes: nowhere else, except at an exit to the next.      *)
LEMMA InOrderStep ==
  ASSUME OSInv, scheduling_algorithm = 1, Next
  PROVE  /\ scheduling_algorithm' = 1
         /\ \/ mode' # "user"
            \/ current' = current
            \/ current' = current + 1 /\ cpu.eip = "exit"
<1>1. mode = "user" /\ current \in Apps /\ scheduling_algorithm' = 1
  <2>1. CASE Instruction
    BY <2>1, OnlyApps DEF Instruction
  <2>2. CASE ~Instruction
    <3>1. PICK reg : Returned(reg)
      BY <2>2 DEF Next, Returned
    <3> QED BY <3>1, TrapStep
  <2> QED BY <2>1, <2>2
<1>2. \A procs : Kern!schedule(procs) => Kern!InOrder(procs)
  BY DEF Kern!schedule
<1>3. \A procs : Kern!InOrder(procs) =>
         mode' # "user" \/ current' \in {current, current + 1}
  BY DEF Kern!InOrder, Kern!Run, Kern!RunOutside
<1>4. ASSUME NEW reg, Kern!schedule(Kern!Saved(reg))
      PROVE  current' = current
  <2>1. current \in KP!Pids /\ current \in Kern!Pids /\ proc_array[current].p_state = "P_RUNNABLE"
    BY <1>1, OSAssumption DEF OSInv, KP!IInv, KP!RunsRunnable, KP!Runnable, Apps, KP!Pids, Kern!Pids
  <2>2. proc_array \in [KP!Pids -> KP!Descriptors]
    BY DEF OSInv, KP!IInv, KP!TypeOK
  <2>3. Kern!Saved(reg)[current].p_state = "P_RUNNABLE"
    BY <2>1, <2>2 DEF Kern!Saved, KP!Descriptors
  <2>4. current \in Kern!Runnable(Kern!Saved(reg))
    BY <2>1, <2>3 DEF Kern!Runnable
  <2>5. Kern!InOrder(Kern!Saved(reg))
    BY <1>2, <1>4
  <2> QED BY <2>1, <2>4, <2>5 DEF Kern!InOrder, Kern!Run
<1>5. CASE Instruction
  BY <1>1, <1>5 DEF Instruction
<1>6. CASE Tick
  BY <1>1, <1>4, <1>6 DEF Tick, Kern!Clock
<1>7. CASE sys_yield
  BY <1>1, <1>4, <1>7 DEF sys_yield, Kern!SysYield
<1>8. CASE sys_exit
  <2>1. cpu.eip = "exit" /\ \E procs : Kern!schedule(procs)
    BY <1>8 DEF sys_exit, Traps, Kern!SysExit
  <2> QED BY <1>1, <1>2, <1>3, <2>1
<1>9. CASE sys_set_priority \/ sys_set_share \/ sys_get_ticket \/ sys_print
  BY <1>1, <1>9 DEF sys_set_priority, sys_set_share, sys_get_ticket, sys_print,
     Kern!SysSetPriority, Kern!SysSetShare, Kern!SysGetTicket, Kern!SysPrint, Kern!Run
<1> QED BY <1>5, <1>6, <1>7, <1>8, <1>9 DEF Next, Execute

(* What the step does to the console and to the applications' counts.        *)
LEMMA CountStep ==
  ASSUME OSInv, AppP!IInv, Next, NEW p \in Apps, p = current
  PROVE  /\ AppP!CharStep(p)
         /\ \A q \in Apps \ {p} : VirtualRegs'[q] = VirtualRegs[q]
<1>1. CASE Execute
  <2>1. App!Step(p)
    BY <1>1, ExecuteStep
  <2>2. AppP!Step(p)
    BY <2>1, SameApps
  <2>3. AppP!CharStep(p)
    BY <2>2, AppP!StepIInv, AppConstants
  <2>4. \A q \in Apps \ {p} : VirtualRegs'[q] = VirtualRegs[q]
    BY <2>2, AppP!StepRegisters, AppConstants
  <2> QED BY <2>3, <2>4
<1>2. CASE Tick
  <2>1. VirtualRegs' = VirtualRegs
    <3>1. /\ VirtualRegs[current] = cpu
          /\ VirtualRegs' = [VirtualRegs EXCEPT ![current] = cpu]
      BY <1>2, TrapStep DEF Returned
    <3> QED BY <3>1 DEF VirtualRegs
  <2>2. UNCHANGED <<cursorpos, screen>>
    BY <1>2 DEF Tick, Kern!Clock, Kern!console
  <2>3. AppP!Printed(p)' = AppP!Printed(p)
    BY <2>1 DEF AppP!Printed
  <2> QED BY <2>1, <2>2, <2>3 DEF AppP!CharStep
<1> QED BY <1>1, <1>2 DEF Next

(* The console stays in order when the current application p prints.         *)
LEMMA PrintOrderStep ==
  ASSUME OSInv, AppP!IInv, InOrderInv, scheduling_algorithm = 1, mode = "user",
         NEW p \in Apps, p = current, AppP!CharStep(p)
  PROVE  PrintInOrder'
<1>1. /\ cursorpos \in Nat /\ RUNCOUNT \in Nat /\ p \in Nat /\ p >= 1
      /\ AppP!Printed(p) \in Nat
  <2>1. VirtualRegs[p].i \in Nat /\ cursorpos \in Nat
    BY OSAssumption DEF AppP!IInv, AppP!TypeOK, AppP!Registers
  <2> QED BY <2>1, OSAssumption DEF AppP!Printed, Apps
<1>2. \A c \in 0 .. cursorpos - 1 : screen'[c] = 1 + (c \div RUNCOUNT)
  BY DEF InOrderInv, PrintInOrder, AppP!CharStep
<1>3. CASE cursorpos' = cursorpos
  BY <1>2, <1>3 DEF PrintInOrder
<1>4. CASE /\ cursorpos' = cursorpos + 1 /\ screen'[cursorpos] = p
           /\ AppP!Printed(p) < RUNCOUNT
  <2> DEFINE n == AppP!Printed(p)
  <2>1. cursorpos = (p - 1) * RUNCOUNT + n
    BY DEF InOrderInv
  <2>2. n \in Nat /\ n < RUNCOUNT /\ p - 1 \in Nat
    BY <1>1, <1>4
  <2> HIDE DEF n
  <2>3. ((p - 1) * RUNCOUNT + n) \div RUNCOUNT = p - 1
    BY <1>1, <2>2, Quotient
  <2>4. screen'[cursorpos] = 1 + (cursorpos \div RUNCOUNT)
    BY <1>1, <1>4, <2>1, <2>3
  <2>5. \A c \in 0 .. cursorpos' - 1 : c \in 0 .. cursorpos - 1 \/ c = cursorpos
    BY <1>1, <1>4
  <2> QED BY <1>2, <2>4, <2>5 DEF PrintInOrder
<1> QED BY <1>3, <1>4 DEF AppP!CharStep

(* An application that exits has printed all its characters, and the next    *)
(* one none.                                                                 *)
LEMMA HandOver ==
  ASSUME OSInv, AppP!IInv, scheduling_algorithm = 1, mode = "user",
         NEW p \in Apps, p = current, p + 1 \in Apps,
         VirtualRegs'[p + 1] = VirtualRegs[p + 1]
  PROVE  /\ VirtualRegs[p].eip = "exit" => AppP!Printed(p) = RUNCOUNT
         /\ AppP!Printed(p + 1)' = 0
<1>1. VirtualRegs[p].eip = "exit" => VirtualRegs[p].i = RUNCOUNT
  BY DEF AppP!IInv, AppP!LocalInv
<1>2. VirtualRegs[p].eip = "exit" => AppP!Printed(p) = RUNCOUNT
  BY <1>1, OSAssumption DEF AppP!Printed
<1>3. VirtualRegs[p + 1] = App!Entry
  <2>1. p \in Nat /\ p + 1 \in current + 1 .. NPROCS - 1 /\ p + 1 # current
    BY OSAssumption DEF Apps
  <2>2. proc_array[p + 1] = KP!Descriptor(p + 1)
    BY <2>1 DEF OSInv, KP!IInv, KP!RunsToCompletion
  <2>3. p + 1 \in 0 .. NPROCS - 1
    BY OSAssumption DEF Apps
  <2>4. proc_array[p + 1].p_registers = App!Entry
    BY <2>2, <2>3 DEF KP!Descriptor
  <2> QED BY <2>1, <2>4 DEF VirtualRegs
<1>4. AppP!Printed(p + 1)' = 0
  BY <1>3 DEF AppP!Printed, App!Entry
<1> QED BY <1>2, <1>4


LEMMA NextInOrder ==
  ASSUME OSInv, AppP!IInv, InOrderInv, [Next]_vars
  PROVE  InOrderInv'
<1>1. CASE UNCHANGED vars
  BY <1>1 DEF vars, InOrderInv, PrintInOrder, AppP!Printed, VirtualRegs
<1>2. CASE Next /\ scheduling_algorithm # 1
  <2>1. scheduling_algorithm' = scheduling_algorithm
    <3>1. CASE Instruction
      BY <3>1 DEF Instruction
    <3>2. CASE ~Instruction
      <4>1. PICK reg : Returned(reg)
        BY <1>2, <3>2 DEF Next, Returned
      <4> QED BY <4>1, TrapStep
    <3> QED BY <3>1, <3>2
  <2> QED BY <1>2, <2>1 DEF InOrderInv, PrintInOrder
<1>3. CASE Next /\ scheduling_algorithm = 1
  <2>1. PICK p : p = current
    OBVIOUS
  <2>2. p \in Apps /\ mode = "user"
    BY <1>3, <2>1, ExecuteStep, OnlyApps DEF Next, Tick, Kern!Clock
  <2>3. AppP!CharStep(p) /\ \A q \in Apps \ {p} : VirtualRegs'[q] = VirtualRegs[q]
    BY <1>3, <2>1, <2>2, CountStep
  <2>4. PrintInOrder'
    BY <1>3, <2>1, <2>2, <2>3, PrintOrderStep
  <2>5. /\ cursorpos \in Nat /\ RUNCOUNT \in Nat /\ p \in Nat
        /\ AppP!Printed(p) \in Nat /\ cursorpos = (p - 1) * RUNCOUNT + AppP!Printed(p)
    <3>1. VirtualRegs[p].i \in Nat /\ cursorpos \in Nat /\ RUNCOUNT \in Nat /\ p \in Nat
      BY <2>2, OSAssumption DEF AppP!IInv, AppP!TypeOK, AppP!Registers, Apps
    <3>2. AppP!Printed(p) \in Nat
      BY <3>1 DEF AppP!Printed
    <3>3. cursorpos = (p - 1) * RUNCOUNT + AppP!Printed(p)
      BY <1>3, <2>1, <2>2 DEF InOrderInv
    <3> QED BY <3>1, <3>2, <3>3
  <2>6. CASE mode' # "user"
    BY <2>4, <2>6 DEF InOrderInv
  <2>7. CASE current' = p
    <3>1. cursorpos' = (p - 1) * RUNCOUNT + AppP!Printed(p)'
      BY <2>3, <2>5 DEF AppP!CharStep
    <3>2. cursorpos' = (current' - 1) * RUNCOUNT + AppP!Printed(current)'
      BY <2>7, <3>1 DEF AppP!Printed
    <3> QED BY <2>4, <3>2 DEF InOrderInv
  <2>8. CASE mode' = "user" /\ current' = p + 1 /\ cpu.eip = "exit"
    <3>1. OSInv'
      BY NextOS
    <3>2. p + 1 \in Apps
      BY <2>8, <3>1, OnlyApps DEF OSInv, KP!IInv, KP!RunsRunnable, KP!Runnable, KP!Pids, Apps
    <3>3. VirtualRegs'[p + 1] = VirtualRegs[p + 1] /\ VirtualRegs[p] = cpu
      BY <2>1, <2>2, <2>3, <2>5, <3>2 DEF VirtualRegs
    <3>4. AppP!Printed(p) = RUNCOUNT /\ AppP!Printed(p + 1)' = 0
      BY <1>3, <2>1, <2>2, <2>8, <3>2, <3>3, HandOver
    <3>5. cursorpos' = cursorpos
      BY <2>3, <3>4, <2>5 DEF AppP!CharStep
    <3>6. cursorpos' = p * RUNCOUNT
      BY <2>5, <3>4, <3>5
    <3>7. AppP!Printed(current)' = AppP!Printed(p + 1)'
      BY <2>8 DEF AppP!Printed
    <3>8. current' - 1 = p
      BY <2>5, <2>8
    <3>9. cursorpos' = (current' - 1) * RUNCOUNT + AppP!Printed(current)'
      BY <2>5, <3>4, <3>6, <3>7, <3>8
    <3> QED BY <2>4, <3>9 DEF InOrderInv
  <2> QED BY <1>3, <2>1, <2>6, <2>7, <2>8, InOrderStep
<1> QED BY <1>1, <1>2, <1>3

LEMMA PidOrder == Runs => []PrintInOrder
<1>1. Init => InOrderInv
  <2>1. SUFFICES ASSUME Init PROVE InOrderInv
    OBVIOUS
  <2>2. cursorpos = 0 /\ current = 1
    BY <2>1 DEF Init, Kern!Init
  <2>3. VirtualRegs[1] = App!Entry /\ 1 \in Apps
    BY <2>1, InitOS, OSAssumption DEF App!Init, Apps
  <2>4. AppP!Printed(1) = 0
    BY <2>3 DEF AppP!Printed, App!Entry
  <2>5. AppP!Printed(current) = 0
    BY <2>2, <2>4
  <2> QED BY <2>2, <2>5, OSAssumption DEF InOrderInv, PrintInOrder
<1>2. OSInv /\ AppP!IInv /\ InOrderInv /\ [Next]_vars => InOrderInv'
  BY NextInOrder
<1>3. InOrderInv => PrintInOrder
  BY DEF InOrderInv
<1> QED BY <1>1, <1>2, <1>3, SystemInvariant, PTL DEF Runs

(* With algorithm 1 the characters of each application stand together and in *)
(* the order of the pids, RUNCOUNT of each (answers.txt:24-29), with either  *)
(* way of printing, and wherever the clock strikes.                          *)
THEOREM InPidOrder == Spec => []PrintInOrder
BY PidOrder, PTL DEF Spec, Runs


-----------------------------------------------------------------------------
(* What an instruction or a trap does to the process table, before schedule() *)
(* if that is called.  e is the label of the system call, or "tick".         *)

Table(procs, e) ==
  \A q \in KP!Pids :
    /\ procs[q].p_state = IF q = current /\ e = "exit" THEN "P_ZOMBIE"
                                                       ELSE proc_array[q].p_state
    /\ procs[q].p_priority = IF q = current /\ e = "set_priority" THEN PRIORITY[q]
                                                       ELSE proc_array[q].p_priority
    /\ procs[q].p_share = IF q = current /\ e = "set_share" THEN SHARE[q]
                                                       ELSE proc_array[q].p_share
    /\ procs[q].p_time_passed = proc_array[q].p_time_passed

Executed(e) ==
  \/ Execute /\ e = cpu.eip
  \/ Tick /\ e = "tick"

Scheduling == {"yield", "exit", "tick"}

Stays(procs) == proc_array' = procs /\ current' = current /\ mode' = "user"

Enters(procs, e) ==
  /\ procs \in [KP!Pids -> KP!Descriptors]
  /\ Executed(e) /\ Table(procs, e)
  /\ \/ e \notin Scheduling /\ Stays(procs)
     \/ e \in Scheduling /\ Kern!schedule(procs)

LEMMA Entering ==
  ASSUME NEW procs \in [KP!Pids -> KP!Descriptors], NEW e, Executed(e), Table(procs, e),
         \/ e \notin Scheduling /\ Stays(procs)
         \/ e \in Scheduling /\ Kern!schedule(procs)
  PROVE  \E ps, l : Enters(ps, l)
<1>1. Enters(procs, e)
  BY DEF Enters
<1> QED BY <1>1

LEMMA TableStep ==
  ASSUME OSInv, Next
  PROVE  /\ mode = "user" /\ current \in Apps /\ scheduling_algorithm' = scheduling_algorithm
         /\ \E procs, e : Enters(procs, e)
<1>1. mode = "user" /\ current \in Apps /\ scheduling_algorithm' = scheduling_algorithm
  <2>1. CASE Instruction
    BY <2>1, OnlyApps DEF Instruction
  <2>2. CASE ~Instruction
    <3>1. PICK reg : Returned(reg)
      BY <2>2 DEF Next, Returned
    <3> QED BY <3>1, TrapStep
  <2> QED BY <2>1, <2>2
<1> SUFFICES \E procs, e : Enters(procs, e)
  BY <1>1
<1>2. current \in KP!Pids /\ proc_array \in [KP!Pids -> KP!Descriptors]
  BY <1>1, OSAssumption DEF OSInv, KP!IInv, KP!TypeOK, Apps, KP!Pids
<1>3. cpu \in AppRegs /\ App!Succ(cpu) \in AppRegs
  BY SuccType DEF OSInv, KP!IInv, KP!TypeOK
<1>4. ASSUME NEW reg \in AppRegs
      PROVE  /\ Kern!Saved(reg) \in [KP!Pids -> KP!Descriptors]
             /\ \A e : e \notin {"exit", "set_priority", "set_share"} => Table(Kern!Saved(reg), e)
  <2>1. [proc_array[current] EXCEPT !.p_registers = reg] \in KP!Descriptors
    BY <1>2 DEF KP!Descriptors
  <2> QED BY <1>2, <2>1 DEF Kern!Saved, Table, KP!Descriptors
<1>5. CASE Instruction
  <2>1. cpu.eip \notin KP!States \cup {"exit", "set_priority", "set_share", "yield", "tick"}
    BY <1>5 DEF Instruction, App!Effect, App!Acquire, App!LoadCursor, App!StoreChar,
                App!BumpCursor, App!Release, KP!States
  <2>2. Table(proc_array, cpu.eip)
    BY <2>1 DEF Table
  <2>3. Executed(cpu.eip) /\ Stays(proc_array) /\ cpu.eip \notin Scheduling
    BY <1>5, <2>1 DEF Executed, Execute, Stays, Scheduling, Instruction
  <2> QED BY <1>2, <2>2, <2>3, Entering
<1>6. CASE Tick
  <2>1. Executed("tick") /\ "tick" \in Scheduling /\ Kern!schedule(Kern!Saved(cpu))
    BY <1>6 DEF Executed, Tick, Kern!Clock, Scheduling
  <2>2. Kern!Saved(cpu) \in [KP!Pids -> KP!Descriptors] /\ Table(Kern!Saved(cpu), "tick")
    BY <1>3, <1>4
  <2> QED BY <2>1, <2>2, Entering
<1> DEFINE reg == App!Succ(cpu)
<1>7. CASE sys_yield
  <2>1. Executed("yield") /\ "yield" \in Scheduling /\ Kern!schedule(Kern!Saved(reg))
    BY <1>7 DEF Executed, Execute, sys_yield, Traps, Kern!SysYield, Scheduling
  <2>2. Kern!Saved(reg) \in [KP!Pids -> KP!Descriptors] /\ Table(Kern!Saved(reg), "yield")
    BY <1>3, <1>4
  <2> QED BY <2>1, <2>2, Entering
<1>8. CASE sys_get_ticket
  <2>1. Executed("get_ticket") /\ "get_ticket" \notin Scheduling /\ Stays(Kern!Saved(reg))
    BY <1>8 DEF Executed, Execute, sys_get_ticket, Traps, Kern!SysGetTicket, Scheduling, Stays,
                Kern!Run
  <2>2. Kern!Saved(reg) \in [KP!Pids -> KP!Descriptors] /\ Table(Kern!Saved(reg), "get_ticket")
    BY <1>3, <1>4
  <2> QED BY <2>1, <2>2, Entering
<1>9. CASE sys_print
  <2>1. Executed("print") /\ "print" \notin Scheduling /\ Stays(Kern!Saved(reg))
    BY <1>9 DEF Executed, Execute, sys_print, Traps, Kern!SysPrint, Scheduling, Stays, Kern!Run
  <2>2. Kern!Saved(reg) \in [KP!Pids -> KP!Descriptors] /\ Table(Kern!Saved(reg), "print")
    BY <1>3, <1>4
  <2> QED BY <2>1, <2>2, Entering
<1>10. CASE sys_set_priority
  <2> DEFINE procs == [Kern!Saved(reg) EXCEPT ![current].p_priority = PRIORITY[current]]
  <2>1. Executed("set_priority") /\ "set_priority" \notin Scheduling /\ Stays(procs)
    BY <1>10 DEF Executed, Execute, sys_set_priority, Traps, Kern!SysSetPriority, Scheduling,
                 Stays, Kern!Run
  <2>2. PRIORITY[current] \in Int
    BY <1>1, OSAssumption DEF Apps
  <2>3. Kern!Saved(reg) \in [KP!Pids -> KP!Descriptors] /\ Table(Kern!Saved(reg), "none")
    BY <1>3, <1>4
  <2>4. procs \in [KP!Pids -> KP!Descriptors] /\ Table(procs, "set_priority")
    BY <1>2, <2>2, <2>3 DEF Table, KP!Descriptors
  <2> QED BY <2>1, <2>4, Entering
<1>11. CASE sys_set_share
  <2> DEFINE procs == [Kern!Saved(reg) EXCEPT ![current].p_share = SHARE[current]]
  <2>1. Executed("set_share") /\ "set_share" \notin Scheduling /\ Stays(procs)
    BY <1>11 DEF Executed, Execute, sys_set_share, Traps, Kern!SysSetShare, Scheduling,
                 Stays, Kern!Run
  <2>2. SHARE[current] \in Int
    BY <1>1, OSAssumption DEF Apps
  <2>3. Kern!Saved(reg) \in [KP!Pids -> KP!Descriptors] /\ Table(Kern!Saved(reg), "none")
    BY <1>3, <1>4
  <2>4. procs \in [KP!Pids -> KP!Descriptors] /\ Table(procs, "set_share")
    BY <1>2, <2>2, <2>3 DEF Table, KP!Descriptors
  <2> QED BY <2>1, <2>4, Entering
<1>12. CASE sys_exit
  <2> DEFINE procs == [Kern!Saved(reg) EXCEPT ![current].p_state = "P_ZOMBIE",
                                              ![current].p_exit_status = 0]
  <2>1. Executed("exit") /\ "exit" \in Scheduling /\ Kern!schedule(procs)
    BY <1>12 DEF Executed, Execute, sys_exit, Traps, Kern!SysExit, Scheduling
  <2>3. Kern!Saved(reg) \in [KP!Pids -> KP!Descriptors] /\ Table(Kern!Saved(reg), "none")
    BY <1>3, <1>4
  <2>4. procs \in [KP!Pids -> KP!Descriptors] /\ Table(procs, "exit")
    <3> DEFINE s == Kern!Saved(reg)
               d == [s[current] EXCEPT !.p_state = "P_ZOMBIE", !.p_exit_status = 0]
    <3>1. d \in KP!Descriptors /\ procs = [s EXCEPT ![current] = d]
      <4>1. s \in [KP!Pids -> KP!Descriptors]
        BY <2>3
      <4> HIDE DEF s
      <4>2. d \in KP!Descriptors
        <5>1. s[current] \in KP!Descriptors
          BY <1>2, <4>1
        <5>2. \A x \in KP!Descriptors : [x EXCEPT !.p_state = "P_ZOMBIE"] \in KP!Descriptors
          BY DEF KP!Descriptors, KP!States
        <5>3. \A x \in KP!Descriptors : [x EXCEPT !.p_exit_status = 0] \in KP!Descriptors
          BY DEF KP!Descriptors
        <5>4. d = [[s[current] EXCEPT !.p_state = "P_ZOMBIE"] EXCEPT !.p_exit_status = 0]
          OBVIOUS
        <5> HIDE DEF d
        <5> QED BY <5>1, <5>2, <5>3, <5>4
      <4>3. procs = [s EXCEPT ![current] = d]
        BY <1>2, <4>1 DEF s
      <4> QED BY <4>2, <4>3
    <3>2. /\ d.p_state = "P_ZOMBIE" /\ d.p_priority = s[current].p_priority
          /\ d.p_share = s[current].p_share /\ d.p_time_passed = s[current].p_time_passed
      BY <1>2, <2>3 DEF KP!Descriptors
    <3> HIDE DEF s, d, procs
    <3>3. s \in [KP!Pids -> KP!Descriptors] /\ Table(s, "none")
      BY <2>3 DEF s
    <3> QED BY <1>2, <3>1, <3>2, <3>3 DEF Table
  <2> QED BY <2>1, <2>4, Entering
<1> QED BY <1>1, <1>5, <1>6, <1>7, <1>8, <1>9, <1>10, <1>11, <1>12 DEF Next, Execute


(* Where an instruction leads.                                               *)
LEMMA SuccFacts ==
  ASSUME NEW r \in AppRegs, r.eip # "halt"
  PROVE  /\ App!Succ(r).i = IF r.eip \in {"yield", "print"} THEN r.i + 1 ELSE r.i
         /\ App!Succ(r).eip # "set_priority"
         /\ App!Succ(r).eip = "set_share" <=> r.eip = "set_priority"
         /\ App!Succ(r).eip = "release" <=> r.eip = "bump"
         /\ App!Succ(r).eip = "yield" <=> r.eip = "release"
         /\ App!Succ(r).eip = "halt" <=> r.eip = "exit"
<1>1. \A i : App!LoopHead(i) \in {"exit", "acquire", "print"}
  BY DEF App!LoopHead
<1>2. \A l : App!Jump(r, l).eip = l /\ App!Jump(r, l).i = r.i
  BY DEF App!Jump, AppRegs
<1>3. App!NextIteration(r).eip = App!LoopHead(r.i + 1) /\ App!NextIteration(r).i = r.i + 1
  BY DEF App!NextIteration, AppRegs
<1>4. LET s == [r EXCEPT !.eip = "store", !.edx = cursorpos]
      IN  s.eip = "store" /\ s.i = r.i
  BY DEF AppRegs
<1>5. r.eip \in App!Labels
  BY DEF AppRegs
<1>6. CASE r.eip \in {"yield", "print"}
  <2>1. App!Succ(r) = App!NextIteration(r)
    BY <1>6 DEF App!Succ
  <2> QED BY <1>1, <1>3, <1>6, <2>1
<1>7. CASE r.eip = "load"
  BY <1>4, <1>7 DEF App!Succ
<1>8. CASE r.eip = "get_ticket"
  <2>1. App!Succ(r) = App!Jump(r, App!LoopHead(r.i))
    BY <1>8 DEF App!Succ
  <2> QED BY <1>1, <1>2, <1>8, <2>1
<1>9. CASE r.eip \notin {"yield", "print", "load", "get_ticket"}
  BY <1>2, <1>5, <1>9 DEF App!Succ, App!Labels, App!Calls, App!Critical
<1> QED BY <1>6, <1>7, <1>8, <1>9

(* The registers of p, the current process, after what it executes.          *)
LEMMA RegistersStep ==
  ASSUME OSInv, Next, NEW e, Executed(e), NEW p \in Apps, p = current
  PROVE  /\ VirtualRegs[p] = cpu /\ VirtualRegs[p].i \in Nat
         /\ e = "tick" => VirtualRegs'[p] = VirtualRegs[p]
         /\ e # "tick" => /\ e = VirtualRegs[p].eip /\ e # "halt"
                          /\ VirtualRegs'[p] = App!Succ(VirtualRegs[p])
         /\ \A q \in Apps \ {p} : VirtualRegs'[q] = VirtualRegs[q]
<1>1. cpu \in AppRegs /\ mode = "user" /\ "tick" \notin App!Labels
  BY TableStep DEF OSInv, KP!IInv, KP!TypeOK, App!Labels, App!Calls, App!Critical
<1>2. VirtualRegs[p] = cpu /\ VirtualRegs[p].i \in Nat /\ VirtualRegs[p].eip # "tick"
  BY <1>1 DEF VirtualRegs, AppRegs
<1>3. CASE Execute /\ e = cpu.eip
  <2>1. App!Step(p)
    BY <1>3, ExecuteStep
  <2>2. e # "halt"
    BY <1>2, <1>3, <2>1 DEF App!Step, App!Effect, App!Acquire, App!LoadCursor, App!StoreChar,
       App!BumpCursor, App!Release, App!SilentCall, App!PrintCall, App!Calls
  <2>3. VirtualRegs' = [VirtualRegs EXCEPT ![p] = App!Succ(VirtualRegs[p])]
    BY <2>1 DEF App!Step
  <2>4. DOMAIN VirtualRegs = Apps
    BY DEF VirtualRegs
  <2>5. /\ VirtualRegs'[p] = App!Succ(VirtualRegs[p])
        /\ \A q \in Apps \ {p} : VirtualRegs'[q] = VirtualRegs[q]
    <3> DEFINE V == VirtualRegs
               x == App!Succ(V[p])
    <3>1. VirtualRegs' = [V EXCEPT ![p] = x] /\ DOMAIN V = Apps
      BY <2>3, <2>4
    <3> HIDE DEF V, x
    <3>2. VirtualRegs'[p] = x /\ \A q \in Apps \ {p} : VirtualRegs'[q] = V[q]
      BY <3>1
    <3> QED BY <3>2 DEF V, x
  <2> QED BY <1>2, <1>3, <2>2, <2>5
<1>4. CASE Tick /\ e = "tick"
  <2>1. VirtualRegs' = [VirtualRegs EXCEPT ![p] = cpu]
    BY <1>4, TrapStep DEF Returned
  <2>2. VirtualRegs' = VirtualRegs
    BY <1>2, <2>1 DEF VirtualRegs
  <2> QED BY <1>2, <1>4, <2>2
<1> QED BY <1>3, <1>4 DEF Executed

(* Applications never block; until one exits it can run.                     *)
LivingInv == \A q \in Apps : proc_array[q].p_state \in {"P_RUNNABLE", "P_ZOMBIE"}

LEMMA LivingStep ==
  ASSUME OSInv, LivingInv, [Next]_vars
  PROVE  LivingInv'
<1>1. CASE UNCHANGED vars
  BY <1>1 DEF vars, LivingInv
<1>2. CASE Next
  <2>1. PICK procs, e : Enters(procs, e)
    BY <1>2, TableStep
  <2>2. Apps \subseteq KP!Pids /\ current \in KP!Pids
    BY <1>2, TableStep, OSAssumption DEF Apps, KP!Pids
  <2>3. \A q \in Apps : procs[q].p_state \in {"P_RUNNABLE", "P_ZOMBIE"}
    BY <2>1, <2>2 DEF Enters, Table, LivingInv
  <2>4. CASE Stays(procs)
    BY <2>3, <2>4 DEF Stays, LivingInv
  <2>5. CASE Kern!schedule(procs)
    <3>1. KP!schedule(procs) /\ procs \in KP!Procs
      BY <2>1, <2>5, SameSchedule DEF Enters, KP!Procs
    <3>2. PICK ps : KP!Outcome(ps, procs)
      BY <2>2, <3>1, KernConstants, KP!ScheduleOutcome DEF OSInv, KP!IInv
    <3>3. proc_array' = ps /\ \A q \in KP!Pids : ps[q].p_state = procs[q].p_state
      BY <3>2 DEF KP!Outcome, KP!SameButTime, KP!Dispatches, KP!GivesUp, KP!LeavesTable,
         KP!Run, KP!Stop, KP!RunOutside
    <3> QED BY <2>2, <2>3, <3>3 DEF LivingInv
  <2> QED BY <2>1, <2>4, <2>5 DEF Enters
<1> QED BY <1>1, <1>2

LEMMA Living == Runs => [](OSInv /\ AppP!IInv /\ LivingInv)
<1>1. Init => LivingInv
  BY OSAssumption DEF Init, Kern!Init, Kern!Descriptor, Kern!Pids, Apps, LivingInv
<1>2. OSInv /\ LivingInv /\ [Next]_vars => LivingInv'
  BY LivingStep
<1> QED BY <1>1, <1>2, SystemInvariant, PTL DEF Runs


-----------------------------------------------------------------------------
(* Algorithm 2.  The table holds the priority of an application, or 1 until  *)
(* the application has told it; one in its second turn was found to be the   *)
(* most urgent when it was dispatched, and has remained it.                  *)

Told(q) ==
  IF VirtualRegs[q].eip = "set_priority"
  THEN proc_array[q].p_priority = 1 /\ VirtualRegs[q].i = 0
  ELSE proc_array[q].p_priority = PRIORITY[q]

NoneAhead(q) ==
  VirtualRegs[q].i >= 1 =>
    \A p \in Apps : proc_array[p].p_state = "P_RUNNABLE" => PRIORITY[q] <= PRIORITY[p]

UrgentInv ==
  /\ UrgentFirst
  /\ scheduling_algorithm = 2 =>
       /\ \A q \in Apps : Told(q)
       /\ mode = "user" => \E q \in Apps : q = current /\ NoneAhead(q)

SpinLockOnly == SyncMethods \subseteq {1}

(* With the spin lock only the yield ends an iteration of the loop.          *)
LEMMA NoPrintCall ==
  ASSUME SpinLockOnly, AppP!IInv, NEW p \in Apps
  PROVE  VirtualRegs[p].eip # "print"
BY DEF SpinLockOnly, AppP!IInv, AppP!TypeOK, AppP!LocalInv

LEMMA ToldStep ==
  ASSUME OSInv, UrgentInv, scheduling_algorithm = 2, Next, NEW q \in Apps
  PROVE  Told(q)'
<1>1. PICK procs, e : Enters(procs, e)
  BY TableStep
<1>2. PICK p : p = current
  OBVIOUS
<1>3. p \in Apps /\ q \in KP!Pids
  BY <1>2, TableStep, OSAssumption DEF Apps, KP!Pids
<1>4. proc_array' = procs
  BY <1>1 DEF Enters, Stays, Kern!schedule, Kern!StrictPriority, Kern!RunNext, Kern!Run, Kern!Stop
<1>5. /\ q # p => VirtualRegs'[q] = VirtualRegs[q]
      /\ e = "tick" => VirtualRegs'[p] = VirtualRegs[p]
      /\ e # "tick" => /\ e = VirtualRegs[p].eip /\ e # "halt"
                       /\ VirtualRegs'[p] = App!Succ(VirtualRegs[p])
      /\ VirtualRegs[p] \in AppRegs
  BY <1>1, <1>2, <1>3, RegistersStep DEF Enters, OSInv, KP!IInv, KP!TypeOK
<1>6. proc_array'[q].p_priority = IF q = p /\ e = "set_priority" THEN PRIORITY[q]
                                                       ELSE proc_array[q].p_priority
  BY <1>1, <1>2, <1>3, <1>4 DEF Enters, Table
<1>7. Told(q)
  BY DEF UrgentInv
<1>8. CASE VirtualRegs'[q] = VirtualRegs[q] /\ ~(q = p /\ e = "set_priority")
  BY <1>6, <1>7, <1>8 DEF Told
<1>9. CASE q = p /\ e # "tick"
  <2>1. VirtualRegs'[q].eip # "set_priority"
    BY <1>5, <1>9, SuccFacts
  <2>2. proc_array'[q].p_priority = PRIORITY[q]
    BY <1>5, <1>6, <1>7, <1>9 DEF Told
  <2> QED BY <2>1, <2>2 DEF Told
<1> QED BY <1>5, <1>8, <1>9

(* The order of the characters: more than one only when none is ahead.       *)
LEMMA UrgentPrints ==
  ASSUME OSInv, AppP!IInv, LivingInv, UrgentInv, scheduling_algorithm = 2, Next
  PROVE  UrgentFirst'
<1>1. PICK procs, e : Enters(procs, e)
  BY TableStep
<1>2. PICK c : c = current
  OBVIOUS
<1>3. c \in Apps /\ mode = "user" /\ Apps \subseteq KP!Pids
  BY <1>2, TableStep, OSAssumption DEF Apps, KP!Pids
<1>4. proc_array' = procs
  BY <1>1 DEF Enters, Stays, Kern!schedule, Kern!StrictPriority, Kern!RunNext, Kern!Run, Kern!Stop
<1>5. \A p \in Apps : ~Exited(p)' => ~Exited(p)
  BY <1>1, <1>3, <1>4 DEF Enters, Table, Exited
<1>6. AppP!CharStep(c) /\ \A q \in Apps \ {c} : VirtualRegs'[q] = VirtualRegs[q]
  BY <1>2, <1>3, CountStep
<1>7. \A q : App!Printed(q) = AppP!Printed(q) /\ App!Printed(q)' = AppP!Printed(q)'
  BY DEF App!Printed, AppP!Printed
<1>8. SUFFICES ASSUME NEW p \in Apps, NEW q \in Apps, PRIORITY[p] < PRIORITY[q], ~Exited(p)
               PROVE  AppP!Printed(q)' <= 1
  BY <1>5, <1>7 DEF UrgentFirst
<1>9. AppP!Printed(q) <= 1
  BY <1>7, <1>8 DEF UrgentInv, UrgentFirst
<1>10. CASE AppP!Printed(q)' = AppP!Printed(q)
  BY <1>9, <1>10
<1>11. CASE AppP!Printed(q)' # AppP!Printed(q)
  <2>1. q = c
    BY <1>6, <1>11 DEF AppP!Printed
  <2>2. VirtualRegs[q].eip \in {"bump", "print"} /\ AppP!Printed(q)' = AppP!Printed(q) + 1
    BY <1>6, <1>11, <2>1 DEF AppP!CharStep
  <2>3. VirtualRegs[q].i \in Nat /\ PRIORITY[p] \in Int /\ PRIORITY[q] \in Int
    BY OSAssumption DEF AppP!IInv, AppP!TypeOK, AppP!Registers, Apps
  <2>4. AppP!Printed(q) = VirtualRegs[q].i
    BY <2>2, <2>3 DEF AppP!Printed
  <2>5. NoneAhead(q)
    BY <1>2, <1>3, <2>1 DEF UrgentInv
  <2>6. proc_array[p].p_state = "P_RUNNABLE"
    BY <1>8 DEF LivingInv, Exited
  <2>7. ~(VirtualRegs[q].i >= 1)
    BY <1>8, <2>3, <2>5, <2>6 DEF NoneAhead
  <2> QED BY <2>2, <2>3, <2>4, <2>7
<1> QED BY <1>10, <1>11


PrioritiesPositive == \A p \in Apps : PRIORITY[p] >= 1

(* Whoever has the processor after the step, none is ahead of it.            *)
LEMMA UrgentRuns ==
  ASSUME SpinLockOnly, PrioritiesPositive, OSInv, AppP!IInv, LivingInv, UrgentInv,
         scheduling_algorithm = 2, Next, mode' = "user"
  PROVE  \E q \in Apps : q = current' /\ NoneAhead(q)'
<1>1. PICK procs, e : Enters(procs, e)
  BY TableStep
<1>2. PICK c, q : c = current /\ q = current'
  OBVIOUS
<1>3. c \in Apps /\ mode = "user" /\ Apps \subseteq KP!Pids /\ q \in Apps
  <2>1. OSInv'
    BY NextOS
  <2>2. q \in Apps
    BY <1>2, <2>1, OnlyApps DEF OSInv, KP!IInv, KP!RunsRunnable, KP!Runnable, KP!Pids, Apps
  <2> QED BY <1>2, <2>2, TableStep, OSAssumption DEF Apps, KP!Pids
<1>4. proc_array' = procs
  BY <1>1 DEF Enters, Stays, Kern!schedule, Kern!StrictPriority, Kern!RunNext, Kern!Run, Kern!Stop
<1>5. \A p \in Apps : proc_array'[p].p_state = "P_RUNNABLE" => proc_array[p].p_state = "P_RUNNABLE"
  BY <1>1, <1>3, <1>4 DEF Enters, Table
<1>6. CASE Stays(procs) /\ e \notin Scheduling
  <2>1. q = c /\ NoneAhead(q)
    BY <1>2, <1>3, <1>6 DEF Stays, UrgentInv
  <2>2. e # "tick" /\ e # "yield"
    BY <1>6 DEF Scheduling
  <2>3. /\ VirtualRegs[q].eip = e /\ e # "halt" /\ VirtualRegs[q] \in AppRegs
        /\ VirtualRegs'[q] = App!Succ(VirtualRegs[q])
    BY <1>1, <1>2, <1>3, <2>1, <2>2, RegistersStep DEF Enters, OSInv, KP!IInv, KP!TypeOK
  <2>4. e # "print"
    BY <1>3, <2>3, NoPrintCall
  <2>5. VirtualRegs'[q].i = VirtualRegs[q].i
    BY <2>2, <2>3, <2>4, SuccFacts
  <2>6. NoneAhead(q)'
    BY <1>5, <2>1, <2>5 DEF NoneAhead
  <2> QED BY <1>2, <1>3, <2>6
<1>7. CASE Kern!schedule(procs)
  <2>1. q \in Kern!MostUrgent(procs)
    BY <1>2, <1>7 DEF Kern!schedule, Kern!StrictPriority, Kern!RunNext, Kern!Run, Kern!Stop
  <2>2. ASSUME VirtualRegs'[q].i >= 1, NEW p \in Apps, proc_array'[p].p_state = "P_RUNNABLE"
        PROVE  PRIORITY[q] <= PRIORITY[p]
    <3>1. Told(q)' /\ Told(p)'
      BY <1>3, ToldStep
    <3>2. proc_array'[q].p_priority = PRIORITY[q]
      BY <2>2, <3>1 DEF Told
    <3>3. proc_array'[p].p_priority <= PRIORITY[p] /\ PRIORITY[p] \in Int /\ PRIORITY[q] \in Int
      <4>1. PRIORITY[p] \in Int /\ PRIORITY[q] \in Int /\ PRIORITY[p] >= 1
        BY <1>3, OSAssumption DEF PrioritiesPositive, Apps
      <4>2. proc_array'[p].p_priority = 1 \/ proc_array'[p].p_priority = PRIORITY[p]
        BY <3>1 DEF Told
      <4> QED BY <4>1, <4>2
    <3>4. p \in Kern!Runnable(procs)
      BY <1>3, <1>4, <2>2 DEF Kern!Runnable, Kern!Pids, KP!Pids
    <3>5. procs[q].p_priority <= procs[p].p_priority
      BY <2>1, <3>4 DEF Kern!MostUrgent
    <3>6. procs[p].p_priority \in Int
      BY <1>1, <1>3 DEF Enters, KP!Descriptors
    <3> QED BY <1>4, <3>2, <3>3, <3>5, <3>6
  <2>3. NoneAhead(q)'
    BY <2>2 DEF NoneAhead
  <2> QED BY <1>2, <1>3, <2>3
<1> QED BY <1>1, <1>6, <1>7 DEF Enters

LEMMA UrgentOrder ==
  ASSUME SpinLockOnly, PrioritiesPositive
  PROVE  Runs => []UrgentFirst
<1>1. Init => UrgentInv
  <2>1. SUFFICES ASSUME Init PROVE UrgentInv
    OBVIOUS
  <2>2. \A q \in Apps : VirtualRegs[q] = App!Entry
    BY <2>1, InitOS DEF App!Init
  <2>3. \A q \in Apps : proc_array[q].p_priority = 1
    BY <2>1, OSAssumption DEF Init, Kern!Init, Kern!Descriptor, Kern!Pids, Apps
  <2>4. \A q \in Apps : Told(q) /\ NoneAhead(q) /\ App!Printed(q) = 0
    BY <2>2, <2>3 DEF Told, NoneAhead, App!Printed, App!Entry
  <2>5. current \in Apps
    BY <2>1, OSAssumption DEF Init, Kern!Init, Apps
  <2> QED BY <2>4, <2>5 DEF UrgentInv, UrgentFirst
<1>2. OSInv /\ AppP!IInv /\ LivingInv /\ UrgentInv /\ [Next]_vars => UrgentInv'
  <2>1. SUFFICES ASSUME OSInv, AppP!IInv, LivingInv, UrgentInv, [Next]_vars PROVE UrgentInv'
    OBVIOUS
  <2>2. CASE UNCHANGED vars
    BY <2>1, <2>2 DEF vars, UrgentInv, UrgentFirst, Told, NoneAhead, Exited, App!Printed, VirtualRegs
  <2>3. CASE Next /\ scheduling_algorithm # 2
    BY <2>1, <2>3, TableStep DEF UrgentInv, UrgentFirst
  <2>4. CASE Next /\ scheduling_algorithm = 2
    <3>1. UrgentFirst' /\ \A q \in Apps : Told(q)'
      BY <2>1, <2>4, UrgentPrints, ToldStep
    <3>2. mode' = "user" => \E q \in Apps : q = current' /\ NoneAhead(q)'
      BY <2>1, <2>4, UrgentRuns
    <3> QED BY <3>1, <3>2 DEF UrgentInv
  <2> QED BY <2>1, <2>2, <2>3, <2>4
<1>3. UrgentInv => UrgentFirst
  BY DEF UrgentInv
<1> QED BY <1>1, <1>2, <1>3, Living, PTL DEF Runs

(* Under algorithm 2 no application prints a second character before all     *)
(* more urgent ones have exited (schedos-kern.c:250-262), with or without    *)
(* the clock, if they synchronise by the lock and no priority is below the 1 *)
(* that start() gives to each.                                               *)
THEOREM MostUrgentFirst ==
  ASSUME SpinLockOnly, PrioritiesPositive
  PROVE  Spec => []UrgentFirst
BY UrgentOrder, PTL DEF Spec, Runs


-----------------------------------------------------------------------------
(* Without the clock and with the spin lock: what a step of the current      *)
(* process p, in iteration k of its loop, does.                              *)

StepFacts(p, k, procs, e) ==
  /\ p \in Apps /\ p = current /\ k = VirtualRegs[p].i /\ k \in Nat /\ k <= RUNCOUNT
  /\ AppP!CharStep(p) /\ Enters(procs, e) /\ cursorpos \in Nat
  /\ e = VirtualRegs[p].eip /\ e \notin {"halt", "tick", "print"}
  /\ AppP!Printed(p) = IF e \in {"release", "yield"} THEN k + 1 ELSE k
  /\ e = "exit" => k = RUNCOUNT
  /\ e = "yield" => k < RUNCOUNT
  /\ VirtualRegs'[p].i = IF e = "yield" THEN k + 1 ELSE k
  /\ e = "yield" => VirtualRegs'[p].eip \notin {"release", "yield"}
  /\ VirtualRegs'[p].eip # "set_priority"
  /\ VirtualRegs'[p].eip = "set_share" <=> e = "set_priority"
  /\ \A q \in Apps \ {p} : VirtualRegs'[q] = VirtualRegs[q]
  /\ \A q \in Apps :
       /\ procs[q].p_state = IF q = p /\ e = "exit" THEN "P_ZOMBIE" ELSE proc_array[q].p_state
       /\ procs[q].p_share = IF q = p /\ e = "set_share" THEN SHARE[q] ELSE proc_array[q].p_share
       /\ procs[q].p_time_passed = proc_array[q].p_time_passed
  /\ procs[p].p_state = IF e = "exit" THEN "P_ZOMBIE" ELSE "P_RUNNABLE"
  /\ procs[0].p_state # "P_RUNNABLE"

LEMMA NoClockStep ==
  ASSUME SpinLockOnly, ~allow_clock_interrupt, OSInv, AppP!IInv, Next
  PROVE  mode = "user" /\ \E p, k, procs, e : StepFacts(p, k, procs, e)
<1>1. PICK procs, e : Enters(procs, e)
  BY TableStep
<1>2. PICK p, k : p = current /\ k = VirtualRegs[p].i
  OBVIOUS
<1>3. p \in Apps /\ mode = "user" /\ Apps \subseteq KP!Pids /\ 0 \in KP!Pids /\ 0 \notin Apps
  BY <1>2, TableStep, OSAssumption DEF Apps, KP!Pids
<1>4. VirtualRegs[p] \in AppP!Registers /\ VirtualRegs[p] \in AppRegs /\ AppP!LocalInv(p)
  BY <1>2, <1>3, RegistersStep, TableStep DEF AppP!IInv, AppP!TypeOK, OSInv, KP!IInv, KP!TypeOK,
     VirtualRegs
<1>5. k \in Nat /\ k <= RUNCOUNT /\ cursorpos \in Nat
  BY <1>2, <1>4, OSAssumption DEF AppP!Registers, AppP!IInv, AppP!TypeOK
<1>6. e # "tick"
  BY <1>1 DEF Enters, Executed, Execute, Tick, Kern!Clock, Instruction, sys_set_priority,
     sys_set_share, sys_get_ticket, sys_yield, sys_print, sys_exit, Traps, App!Effect,
     App!Acquire, App!LoadCursor, App!StoreChar, App!BumpCursor, App!Release
<1>7. /\ e = VirtualRegs[p].eip /\ e # "halt"
      /\ VirtualRegs'[p] = App!Succ(VirtualRegs[p])
      /\ \A q \in Apps \ {p} : VirtualRegs'[q] = VirtualRegs[q]
  BY <1>1, <1>2, <1>3, <1>6, RegistersStep DEF Enters
<1>8. e # "print" /\ (e = "exit" => k = RUNCOUNT) /\ (e = "yield" => k < RUNCOUNT)
  BY <1>2, <1>3, <1>4, <1>7, NoPrintCall DEF AppP!LocalInv, AppP!Looping
<1>9. /\ VirtualRegs'[p].i = IF e = "yield" THEN k + 1 ELSE k
      /\ e = "yield" => VirtualRegs'[p].eip \notin {"release", "yield"}
      /\ VirtualRegs'[p].eip # "set_priority"
      /\ VirtualRegs'[p].eip = "set_share" <=> e = "set_priority"
  BY <1>2, <1>4, <1>7, <1>8, SuccFacts
<1>10. AppP!Printed(p) = IF e \in {"release", "yield"} THEN k + 1 ELSE k
  BY <1>2, <1>5, <1>7 DEF AppP!Printed
<1>11. AppP!CharStep(p)
  BY <1>2, <1>3, CountStep
<1>12. /\ \A q \in Apps :
            /\ procs[q].p_state = IF q = p /\ e = "exit" THEN "P_ZOMBIE"
                                                          ELSE proc_array[q].p_state
            /\ procs[q].p_share = IF q = p /\ e = "set_share" THEN SHARE[q]
                                                              ELSE proc_array[q].p_share
            /\ procs[q].p_time_passed = proc_array[q].p_time_passed
       /\ procs[0].p_state # "P_RUNNABLE"
  BY <1>1, <1>2, <1>3 DEF Enters, Table, OSInv
<1>13. procs[p].p_state = IF e = "exit" THEN "P_ZOMBIE" ELSE "P_RUNNABLE"
  BY <1>2, <1>3, <1>12 DEF OSInv, KP!IInv, KP!RunsRunnable, KP!Runnable
<1>14. StepFacts(p, k, procs, e)
  BY <1>1, <1>2, <1>3, <1>5, <1>6, <1>7, <1>8, <1>9, <1>10, <1>11, <1>12, <1>13 DEF StepFacts
<1> QED BY <1>3, <1>14

-----------------------------------------------------------------------------
(* Algorithm 0 without the clock.  In round k, while p has the processor,    *)
(* those before it have completed the round and those behind it have not     *)
(* begun it; after the last round they exit in the same order.               *)

Waiting(q, k) ==
  /\ proc_array[q].p_state = "P_RUNNABLE"
  /\ VirtualRegs[q].i = k /\ VirtualRegs[q].eip \notin {"release", "yield"}

Round(p, k) ==
  /\ k < RUNCOUNT =>
       /\ cursorpos = k * (NPROCS - 1) + (p - 1) + (AppP!Printed(p) - k)
       /\ \A q \in 1 .. p - 1 : Waiting(q, k + 1)
  /\ k = RUNCOUNT =>
       /\ cursorpos = k * (NPROCS - 1)
       /\ \A q \in 1 .. p - 1 : proc_array[q].p_state # "P_RUNNABLE"
  /\ \A q \in p + 1 .. NPROCS - 1 : Waiting(q, k)

TurnInv ==
  /\ PrintInTurn
  /\ scheduling_algorithm = 0 /\ mode = "user" =>
       \E p \in Apps : p = current /\ Round(p, VirtualRegs[p].i)

LEMMA Remainder ==
  ASSUME NEW d \in Nat, NEW k \in Nat, NEW n \in Nat, n < d
  PROVE  (k * d + n) % d = n
OBVIOUS

(* The next in the ring is the next in the table, behind the last the first. *)
LEMMA NextInRing ==
  ASSUME NEW p \in Apps, p = current, NEW q \in Apps,
         q = IF p = NPROCS - 1 THEN 1 ELSE p + 1,
         NEW procs, q \in Kern!Runnable(procs), 0 \notin Kern!Runnable(procs),
         Kern!RoundRobin(procs)
  PROVE  current' = q
<1>1. p \in Nat /\ q \in Nat /\ NPROCS \in Nat /\ 1 <= p /\ p < NPROCS
  BY OSAssumption DEF Apps
<1>2. PICK n \in Kern!Runnable(procs) :
        /\ \A m \in Kern!Runnable(procs) : Kern!Ahead(current, n) <= Kern!Ahead(current, m)
        /\ current' = n
  BY DEF Kern!RoundRobin, Kern!RunNext, Kern!Run
<1>3. n \in 1 .. NPROCS - 1
  BY <1>1, <1>2 DEF Kern!Runnable, Kern!Pids
<1>4. Kern!Ahead(p, n) <= Kern!Ahead(p, q)
  BY <1>2
<1>5. n = q
  BY <1>1, <1>3, <1>4 DEF Kern!Ahead
<1> QED BY <1>2, <1>5

TurnFacts(p, k, procs, e) ==
  StepFacts(p, k, procs, e) /\ Round(p, k) /\ proc_array' = procs

LEMMA TurnStep ==
  ASSUME SpinLockOnly, ~allow_clock_interrupt, OSInv, AppP!IInv, TurnInv,
         scheduling_algorithm = 0, Next
  PROVE  \E p, k, procs, e : TurnFacts(p, k, procs, e)
<1>1. PICK p, k, procs, e : StepFacts(p, k, procs, e)
  BY NoClockStep
<1>2. Round(p, k)
  BY <1>1, NoClockStep DEF TurnInv, StepFacts
<1>3. proc_array' = procs
  BY <1>1 DEF StepFacts, Enters, Stays, Kern!schedule, Kern!RoundRobin, Kern!RunNext, Kern!Run,
     Kern!Stop
<1>4. TurnFacts(p, k, procs, e)
  BY <1>1, <1>2, <1>3 DEF TurnFacts
<1> QED BY <1>4

LEMMA TurnPrints ==
  ASSUME TurnInv, scheduling_algorithm = 0,
         NEW p, NEW k, NEW procs, NEW e, TurnFacts(p, k, procs, e)
  PROVE  PrintInTurn'
<1>1. /\ cursorpos \in Nat /\ p \in Nat /\ 1 <= p /\ p <= NPROCS - 1 /\ NPROCS \in Nat
      /\ k \in Nat /\ RUNCOUNT \in Nat
  BY OSAssumption DEF TurnFacts, StepFacts, Apps
<1>2. \A c \in 0 .. cursorpos - 1 : screen'[c] = 1 + (c % (NPROCS - 1))
  BY DEF TurnInv, PrintInTurn, TurnFacts, StepFacts, AppP!CharStep
<1>3. CASE cursorpos' = cursorpos
  BY <1>2, <1>3 DEF PrintInTurn
<1>4. CASE /\ VirtualRegs[p].eip \in {"bump", "print"}
           /\ cursorpos' = cursorpos + 1 /\ screen'[cursorpos] = p
           /\ AppP!Printed(p) < RUNCOUNT
  <2>1. AppP!Printed(p) = k
    BY <1>4 DEF TurnFacts, StepFacts
  <2>2. cursorpos = k * (NPROCS - 1) + (p - 1)
    BY <1>1, <1>4, <2>1 DEF TurnFacts, StepFacts, Round
  <2>3. (k * (NPROCS - 1) + (p - 1)) % (NPROCS - 1) = p - 1
    <3>1. NPROCS - 1 \in Nat /\ p - 1 \in Nat /\ p - 1 < NPROCS - 1
      BY <1>1
    <3> QED BY <1>1, <3>1, Remainder
  <2>4. screen'[cursorpos] = 1 + (cursorpos % (NPROCS - 1))
    BY <1>1, <1>4, <2>2, <2>3
  <2>5. \A c \in 0 .. cursorpos' - 1 : c \in 0 .. cursorpos - 1 \/ c = cursorpos
    BY <1>1, <1>4
  <2> QED BY <1>2, <2>4, <2>5 DEF PrintInTurn
<1> QED BY <1>3, <1>4 DEF TurnFacts, StepFacts, AppP!CharStep

(* Until its yield the same application has the processor.                   *)
LEMMA TurnGoesOn ==
  ASSUME NEW p, NEW k, NEW procs, NEW e, TurnFacts(p, k, procs, e), e \notin Scheduling
  PROVE  current' = p /\ Round(p, VirtualRegs[p].i)'
<1>1. /\ p \in Nat /\ k \in Nat /\ NPROCS \in Nat /\ RUNCOUNT \in Nat /\ k <= RUNCOUNT
      /\ cursorpos \in Nat /\ current' = p /\ VirtualRegs'[p].i = k
  BY OSAssumption DEF TurnFacts, StepFacts, Apps, Enters, Stays, Scheduling
<1>2. \A q \in Apps \ {p} : /\ VirtualRegs'[q] = VirtualRegs[q]
                            /\ proc_array'[q].p_state = proc_array[q].p_state
  BY DEF TurnFacts, StepFacts, Scheduling
<1>3. \A q : q \in 1 .. p - 1 \/ q \in p + 1 .. NPROCS - 1 => q \in Apps \ {p}
  BY <1>1 DEF TurnFacts, StepFacts, Apps
<1>4. ASSUME NEW q \in Apps \ {p}, NEW j, Waiting(q, j) PROVE Waiting(q, j)'
  BY <1>2, <1>4 DEF Waiting
<1>5. Round(p, k) /\ AppP!CharStep(p)
  BY DEF TurnFacts, StepFacts
<1>6. /\ AppP!Printed(p) \in Nat /\ AppP!Printed(p)' \in Nat
      /\ cursorpos' - AppP!Printed(p)' = cursorpos - AppP!Printed(p)
      /\ k = RUNCOUNT => cursorpos' = cursorpos
  <2>1. AppP!Printed(p) \in Nat /\ (k = RUNCOUNT => AppP!Printed(p) >= RUNCOUNT)
    BY <1>1 DEF TurnFacts, StepFacts
  <2>2. CASE cursorpos' = cursorpos /\ AppP!Printed(p)' = AppP!Printed(p)
    BY <2>1, <2>2
  <2>3. CASE /\ cursorpos' = cursorpos + 1 /\ AppP!Printed(p)' = AppP!Printed(p) + 1
             /\ AppP!Printed(p) < RUNCOUNT
    BY <1>1, <2>1, <2>3
  <2> QED BY <1>5, <2>2, <2>3 DEF AppP!CharStep
<1>7. k < RUNCOUNT =>
        /\ cursorpos' = k * (NPROCS - 1) + (p - 1) + (AppP!Printed(p)' - k)
        /\ \A q \in 1 .. p - 1 : Waiting(q, k + 1)'
  <2>1. SUFFICES ASSUME k < RUNCOUNT
                 PROVE  /\ cursorpos' = k * (NPROCS - 1) + (p - 1) + (AppP!Printed(p)' - k)
                        /\ \A q \in 1 .. p - 1 : Waiting(q, k + 1)'
    OBVIOUS
  <2>2. \A q \in 1 .. p - 1 : Waiting(q, k + 1)'
    BY <1>3, <1>4, <1>5, <2>1 DEF Round
  <2>3. cursorpos = k * (NPROCS - 1) + (p - 1) + (AppP!Printed(p) - k)
    BY <1>5, <2>1 DEF Round
  <2>4. k * (NPROCS - 1) \in Int
    BY <1>1
  <2>5. cursorpos' \in Int
    BY <1>1, <1>5, <1>6 DEF AppP!CharStep
  <2> QED BY <1>1, <1>6, <2>2, <2>3, <2>4, <2>5
<1>8. k = RUNCOUNT =>
        /\ cursorpos' = k * (NPROCS - 1)
        /\ \A q \in 1 .. p - 1 : proc_array'[q].p_state # "P_RUNNABLE"
  BY <1>2, <1>3, <1>5, <1>6 DEF Round
<1>9. \A q \in p + 1 .. NPROCS - 1 : Waiting(q, k)'
  BY <1>3, <1>4, <1>5 DEF Round
<1>10. Round(p, k)'
  BY <1>7, <1>8, <1>9 DEF Round
<1> QED BY <1>1, <1>10 DEF Round

(* The turn goes to the next application; behind the last one a new round    *)
(* begins.                                                                   *)
LEMMA TurnPasses ==
  ASSUME NEW p, NEW k, NEW procs, TurnFacts(p, k, procs, "yield"),
         Kern!RoundRobin(procs)
  PROVE  \E q \in Apps : q = current' /\ Round(q, VirtualRegs[q].i)'
<1>1. /\ p \in Nat /\ k \in Nat /\ NPROCS \in Nat /\ RUNCOUNT \in Nat /\ k < RUNCOUNT
      /\ 1 <= p /\ p <= NPROCS - 1
  BY OSAssumption DEF TurnFacts, StepFacts, Apps
<1>2. \A q \in Apps \ {p} : VirtualRegs'[q] = VirtualRegs[q]
  BY DEF TurnFacts, StepFacts
<1>3. /\ cursorpos' = k * (NPROCS - 1) + p
      /\ VirtualRegs'[p].i = k + 1 /\ VirtualRegs'[p].eip \notin {"release", "yield"}
  BY <1>1 DEF TurnFacts, StepFacts, Round, AppP!CharStep
<1>4. /\ \A q \in 1 .. p - 1 : Waiting(q, k + 1)
      /\ \A q \in p + 1 .. NPROCS - 1 : Waiting(q, k)
  BY <1>1 DEF TurnFacts, StepFacts, Round
<1>5. \A q \in Apps : proc_array'[q].p_state = "P_RUNNABLE" /\ procs[q].p_state = "P_RUNNABLE"
  BY <1>1, <1>4 DEF TurnFacts, StepFacts, Waiting, Apps
<1>6. /\ \A q \in 1 .. p : Waiting(q, k + 1)'
      /\ \A q \in p + 1 .. NPROCS - 1 : Waiting(q, k)'
  BY <1>1, <1>2, <1>3, <1>4, <1>5 DEF Waiting, Apps
<1>7. ASSUME NEW q \in Apps, NEW j \in Nat, Waiting(q, j)'
      PROVE  AppP!Printed(q)' = j /\ VirtualRegs'[q].i = j
  BY <1>7 DEF Waiting, AppP!Printed
<1> DEFINE q == IF p = NPROCS - 1 THEN 1 ELSE p + 1
<1>8. q \in Apps /\ q \in Kern!Runnable(procs) /\ 0 \notin Kern!Runnable(procs)
  BY <1>1, <1>5 DEF Apps, Kern!Runnable, Kern!Pids, TurnFacts, StepFacts
<1>9. current' = q
  <2> HIDE DEF q
  <2>1. q = IF p = NPROCS - 1 THEN 1 ELSE p + 1
    BY DEF q
  <2> QED BY <1>8, <2>1, NextInRing DEF TurnFacts, StepFacts
<1>10. CASE p = NPROCS - 1
  <2>1. current' = 1 /\ 1 \in Apps /\ Waiting(1, k + 1)' /\ k + 1 \in Nat
    BY <1>1, <1>6, <1>8, <1>9, <1>10
  <2>2. AppP!Printed(1)' = k + 1 /\ VirtualRegs'[1].i = k + 1
    BY <1>7, <2>1
  <2>3. cursorpos' = (k + 1) * (NPROCS - 1)
    BY <1>1, <1>3, <1>10
  <2>4. \A x \in 1 + 1 .. NPROCS - 1 : Waiting(x, k + 1)'
    BY <1>1, <1>6, <1>10
  <2>5. Round(1, k + 1)'
    <3>1. /\ 1 .. 1 - 1 = {} /\ 1 - 1 = 0 /\ (k + 1) * (NPROCS - 1) \in Int
          /\ AppP!Printed(1)' - (k + 1) = 0
      BY <1>1, <2>2
    <3>2. cursorpos' = (k + 1) * (NPROCS - 1) + (1 - 1) + (AppP!Printed(1)' - (k + 1))
      BY <2>3, <3>1
    <3> QED BY <2>3, <2>4, <3>1, <3>2 DEF Round
  <2>6. Round(1, VirtualRegs[1].i)'
    BY <2>2, <2>5 DEF Round
  <2> QED BY <2>1, <2>6
<1>11. CASE p # NPROCS - 1
  <2>1. current' = p + 1 /\ p + 1 \in Apps /\ Waiting(p + 1, k)'
    BY <1>1, <1>6, <1>8, <1>9, <1>11
  <2>2. AppP!Printed(p + 1)' = k /\ VirtualRegs'[p + 1].i = k
    BY <1>1, <1>7, <2>1
  <2>3. \A x \in p + 1 + 1 .. NPROCS - 1 : Waiting(x, k)'
    BY <1>1, <1>6
  <2>4. \A x \in 1 .. p + 1 - 1 : Waiting(x, k + 1)'
    BY <1>1, <1>6
  <2>5. cursorpos' = k * (NPROCS - 1) + (p + 1 - 1) + (AppP!Printed(p + 1)' - k)
    <3>1. k * (NPROCS - 1) \in Int
      BY <1>1
    <3> QED BY <1>1, <1>3, <2>2, <3>1
  <2>6. Round(p + 1, k)'
    BY <1>1, <2>3, <2>4, <2>5 DEF Round
  <2>7. Round(p + 1, VirtualRegs[p + 1].i)'
    BY <2>2, <2>6 DEF Round
  <2> QED BY <2>1, <2>7
<1> QED BY <1>10, <1>11

(* After the last round they exit one after the other.                       *)
LEMMA TurnEnds ==
  ASSUME NEW p, NEW k, NEW procs, TurnFacts(p, k, procs, "exit"),
         Kern!RoundRobin(procs), mode' = "user"
  PROVE  \E q \in Apps : q = current' /\ Round(q, VirtualRegs[q].i)'
<1>1. /\ p \in Nat /\ k \in Nat /\ NPROCS \in Nat /\ RUNCOUNT \in Nat /\ k = RUNCOUNT
      /\ 1 <= p /\ p <= NPROCS - 1
  BY OSAssumption DEF TurnFacts, StepFacts, Apps
<1>2. \A q \in Apps \ {p} : /\ VirtualRegs'[q] = VirtualRegs[q]
                            /\ proc_array'[q].p_state = proc_array[q].p_state
  BY DEF TurnFacts, StepFacts
<1>3. cursorpos' = k * (NPROCS - 1)
  BY <1>1 DEF TurnFacts, StepFacts, Round, AppP!CharStep
<1>4. /\ \A q \in 1 .. p - 1 : proc_array[q].p_state # "P_RUNNABLE"
      /\ \A q \in p + 1 .. NPROCS - 1 : Waiting(q, k)
  BY <1>1 DEF TurnFacts, StepFacts, Round
<1>5. /\ \A q \in 1 .. p : proc_array'[q].p_state # "P_RUNNABLE"
      /\ \A q \in p + 1 .. NPROCS - 1 : Waiting(q, k)'
  BY <1>1, <1>2, <1>4 DEF Waiting, Apps, TurnFacts, StepFacts
<1>6. \A q \in 0 .. p : q \notin Kern!Runnable(procs)
  BY <1>1, <1>5 DEF TurnFacts, StepFacts, Kern!Runnable
<1>7. CASE p = NPROCS - 1
  <2>1. Kern!Runnable(procs) = {}
    BY <1>1, <1>6, <1>7 DEF Kern!Runnable, Kern!Pids
  <2> QED BY <2>1 DEF Kern!RoundRobin, Kern!RunNext, Kern!Stop
<1>8. CASE p # NPROCS - 1
  <2>1. p + 1 \in Apps /\ p + 1 \in p + 1 .. NPROCS - 1 /\ 0 \notin Kern!Runnable(procs)
    BY <1>1, <1>6, <1>8 DEF Apps
  <2>2. Waiting(p + 1, k)'
    BY <1>5, <2>1
  <2>3. p + 1 \in Kern!Runnable(procs)
    BY <1>1, <2>1, <2>2 DEF Waiting, Kern!Runnable, Kern!Pids, TurnFacts, StepFacts, Apps
  <2>4. current' = p + 1
    BY <1>8, <2>1, <2>3, NextInRing DEF TurnFacts, StepFacts
  <2>5. VirtualRegs'[p + 1].i = k
    BY <2>2 DEF Waiting
  <2>6. /\ \A x \in p + 1 + 1 .. NPROCS - 1 : Waiting(x, k)'
        /\ \A x \in 1 .. p + 1 - 1 : proc_array'[x].p_state # "P_RUNNABLE"
    BY <1>1, <1>5
  <2>7. Round(p + 1, k)'
    BY <1>1, <1>3, <2>6 DEF Round
  <2>8. Round(p + 1, VirtualRegs[p + 1].i)'
    BY <2>5, <2>7 DEF Round
  <2> QED BY <2>1, <2>4, <2>8
<1> QED BY <1>7, <1>8

LEMMA TurnOrder ==
  ASSUME SpinLockOnly, ~allow_clock_interrupt
  PROVE  Runs => []PrintInTurn
<1>1. Init => TurnInv
  <2>1. SUFFICES ASSUME Init PROVE TurnInv
    OBVIOUS
  <2>2. \A q \in Apps : VirtualRegs[q] = App!Entry
    BY <2>1, InitOS DEF App!Init
  <2>3. \A q \in Apps : proc_array[q].p_state = "P_RUNNABLE"
    BY <2>1, OSAssumption DEF Init, Kern!Init, Kern!Descriptor, Kern!Pids, Apps
  <2>4. \A q \in Apps : Waiting(q, 0) /\ AppP!Printed(q) = 0 /\ VirtualRegs[q].i = 0
    BY <2>2, <2>3 DEF Waiting, AppP!Printed, App!Entry
  <2>5. 1 \in Apps /\ current = 1 /\ cursorpos = 0 /\ NPROCS \in Nat
    BY <2>1, OSAssumption DEF Init, Kern!Init, Apps
  <2>6. Round(1, 0)
    BY <2>4, <2>5 DEF Round, Apps
  <2>7. Round(1, VirtualRegs[1].i)
    BY <2>4, <2>5, <2>6
  <2> QED BY <2>5, <2>7 DEF TurnInv, PrintInTurn
<1>2. OSInv /\ AppP!IInv /\ TurnInv /\ [Next]_vars => TurnInv'
  <2>1. SUFFICES ASSUME OSInv, AppP!IInv, TurnInv, [Next]_vars PROVE TurnInv'
    OBVIOUS
  <2>2. CASE UNCHANGED vars
    <3>1. /\ VirtualRegs' = VirtualRegs
          /\ UNCHANGED <<proc_array, cursorpos, screen, current, mode, scheduling_algorithm>>
      BY <2>2 DEF vars, VirtualRegs
    <3>2. ASSUME NEW p, Round(p, VirtualRegs[p].i) PROVE Round(p, VirtualRegs[p].i)'
      BY <3>1, <3>2 DEF Round, Waiting, AppP!Printed
    <3>3. PrintInTurn'
      BY <2>1, <3>1 DEF TurnInv, PrintInTurn
    <3> QED BY <2>1, <3>1, <3>2, <3>3 DEF TurnInv
  <2>3. CASE Next /\ scheduling_algorithm # 0
    BY <2>1, <2>3, TableStep DEF TurnInv, PrintInTurn
  <2>4. CASE Next /\ scheduling_algorithm = 0
    <3>1. PICK p, k, procs, e : TurnFacts(p, k, procs, e)
      BY <2>1, <2>4, TurnStep
    <3>2. PrintInTurn'
      BY <2>1, <2>4, <3>1, TurnPrints
    <3>3. CASE e \notin Scheduling
      BY <3>1, <3>2, <3>3, TurnGoesOn DEF TurnInv, TurnFacts, StepFacts
    <3>4. CASE e \in Scheduling
      <4>1. e \in {"yield", "exit"} /\ Kern!RoundRobin(procs)
        BY <2>4, <3>1, <3>4 DEF TurnFacts, StepFacts, Enters, Scheduling, Kern!schedule
      <4> QED BY <3>1, <3>2, <4>1, TurnPasses, TurnEnds DEF TurnInv
    <3> QED BY <3>3, <3>4
  <2> QED BY <2>1, <2>2, <2>3, <2>4
<1>3. TurnInv => PrintInTurn
  BY DEF TurnInv
<1> QED BY <1>1, <1>2, <1>3, SystemInvariant, PTL DEF Runs

(* Under algorithm 0 without the clock the applications print in turn        *)
(* (answers.txt:18-23), if they synchronise by the lock and so yield after   *)
(* each character.                                                           *)
THEOREM RoundsInTurn ==
  ASSUME SpinLockOnly, ~allow_clock_interrupt
  PROVE  Spec => []PrintInTurn
BY TurnOrder, PTL DEF Spec, Runs


-----------------------------------------------------------------------------
(* Algorithm 3 without the clock.  In lap n, while c has the processor,      *)
(* those before it that still run have had their shares of lap n, and those  *)
(* behind it the shares of the laps before; p_time_passed counts the turns   *)
(* of c in this lap.  schedos-1 is one ahead: start() did not count its turn.*)

First(q) == IF q = 1 THEN 1 ELSE 0

ShareTold(q) ==
  proc_array[q].p_share =
    IF VirtualRegs[q].eip \in {"set_priority", "set_share"} THEN 1 ELSE SHARE[q]

Rested(q, n) ==
  /\ proc_array[q].p_time_passed = 0
  /\ VirtualRegs[q].eip \notin {"release", "yield"}
  /\ VirtualRegs[q].i = SHARE[q] * n + First(q)

InTurn(c, t, n) == VirtualRegs[c].i + 1 = SHARE[c] * n + t + First(c)

Lap(c, n) ==
  /\ \A q \in Apps \ {c} : proc_array[q].p_state = "P_RUNNABLE" =>
                             Rested(q, IF q < c THEN n + 1 ELSE n)
  /\ proc_array[c].p_time_passed \in 0 .. SHARE[c]
  /\ proc_array[c].p_time_passed + First(c) >= 1
  /\ InTurn(c, proc_array[c].p_time_passed, n)

ShareInv ==
  scheduling_algorithm = 3 =>
    /\ \A q \in Apps : ShareTold(q)
    /\ mode = "user" => \E c \in Apps, n \in Nat : c = current /\ Lap(c, n)

SharesPositive == \A p \in Apps : SHARE[p] >= 1

LEMMA WholeLaps ==
  ASSUME NEW s \in Nat, s >= 1, NEW n \in Nat, NEW x \in Nat, x >= s * n
  PROVE  x \div s >= n
<1> DEFINE d == x \div s
           m == x % s
<1>1. d \in Int /\ m \in 0 .. s - 1 /\ x = s * d + m
  OBVIOUS
<1> HIDE DEF d, m
<1>2. SUFFICES ASSUME d <= n - 1 PROVE FALSE
  BY <1>1 DEF d
<1>3. s * d <= s * (n - 1)
  BY <1>1, <1>2
<1> QED BY <1>1, <1>3

LEMMA MoreLaps ==
  ASSUME NEW s \in Nat, NEW a \in Int, NEW b \in Int, a <= b
  PROVE  s * a <= s * b
OBVIOUS

(* In lap n every application has printed what the shares of the laps before *)
(* allow, and none more than one share more.                                 *)
LEMMA LapBounds ==
  ASSUME SharesPositive, AppP!IInv, NEW c \in Apps, NEW n \in Nat, Lap(c, n),
         NEW p \in Apps, p = c \/ proc_array[p].p_state = "P_RUNNABLE"
  PROVE  /\ AppP!Printed(p) \in Nat /\ SHARE[p] \in Nat /\ SHARE[p] >= 1
         /\ AppP!Printed(p) >= SHARE[p] * n
         /\ AppP!Printed(p) <= SHARE[p] * (n + 1) + 1
<1> DEFINE s == SHARE[p]
           x == s * n
<1>1. s \in Nat /\ s >= 1
  BY OSAssumption DEF SharesPositive, Apps
<1>2. x \in Nat /\ s * (n + 1) = x + s
  BY <1>1
<1>3. VirtualRegs[p].i \in Nat
  BY OSAssumption DEF AppP!IInv, AppP!TypeOK, AppP!Registers
<1>4. First(p) \in {0, 1}
  BY DEF First
<1>5. CASE p = c
  <2> DEFINE t == proc_array[p].p_time_passed
  <2>1. t \in 0 .. s /\ t + First(p) >= 1 /\ VirtualRegs[p].i + 1 = x + t + First(p)
    BY <1>5 DEF Lap, InTurn
  <2>2. /\ AppP!Printed(p) \in Nat
        /\ AppP!Printed(p) >= VirtualRegs[p].i /\ AppP!Printed(p) <= VirtualRegs[p].i + 1
    BY <1>3 DEF AppP!Printed
  <2> HIDE DEF t, x, s
  <2>3. AppP!Printed(p) >= x /\ AppP!Printed(p) <= x + s + 1
    BY <1>1, <1>2, <1>3, <1>4, <2>1, <2>2
  <2> QED BY <1>1, <1>2, <2>2, <2>3 DEF x, s
<1>6. CASE p # c
  <2> DEFINE m == IF p < c THEN n + 1 ELSE n
  <2>1. VirtualRegs[p].eip \notin {"release", "yield"} /\ VirtualRegs[p].i = s * m + First(p)
    BY <1>6 DEF Lap, Rested
  <2>2. AppP!Printed(p) = VirtualRegs[p].i
    BY <1>3, <2>1 DEF AppP!Printed
  <2>3. s * m = x \/ s * m = x + s
    BY <1>2
  <2> HIDE DEF m, x, s
  <2>4. AppP!Printed(p) >= x /\ AppP!Printed(p) <= x + s + 1
    BY <1>1, <1>2, <1>3, <1>4, <2>1, <2>2, <2>3
  <2> QED BY <1>1, <1>2, <1>3, <2>2, <2>4 DEF x, s
<1> QED BY <1>5, <1>6

LEMMA LapProportion ==
  ASSUME SharesPositive, AppP!IInv, LivingInv, NEW c \in Apps, NEW n \in Nat, Lap(c, n)
  PROVE  PrintInProportion
<1>1. SUFFICES ASSUME NEW p \in Apps, NEW q \in Apps, ~Exited(p), ~Exited(q)
               PROVE  AppP!Printed(p) <= SHARE[p] * (1 + (AppP!Printed(q) \div SHARE[q])) + 1
  BY DEF PrintInProportion, App!Printed, AppP!Printed
<1>2. \A x \in {p, q} : /\ AppP!Printed(x) \in Nat /\ SHARE[x] \in Nat /\ SHARE[x] >= 1
                        /\ AppP!Printed(x) >= SHARE[x] * n
                        /\ AppP!Printed(x) <= SHARE[x] * (n + 1) + 1
  BY <1>1, LapBounds DEF LivingInv, Exited
<1> DEFINE d == AppP!Printed(q) \div SHARE[q]
<1>3. d >= n /\ d \in Int
  <2>1. PICK y, z : y = AppP!Printed(q) /\ z = SHARE[q]
    OBVIOUS
  <2>2. y \in Nat /\ z \in Nat /\ z >= 1 /\ y >= z * n
    BY <1>2, <2>1
  <2>3. y \div z >= n
    BY <2>2, WholeLaps
  <2>4. y \div z \in Int
    BY <2>2
  <2> QED BY <2>1, <2>3, <2>4
<1> HIDE DEF d
<1>4. SHARE[p] * (n + 1) <= SHARE[p] * (1 + d)
  BY <1>2, <1>3, MoreLaps
<1>5. AppP!Printed(p) <= SHARE[p] * (1 + d) + 1
  <2>1. SHARE[p] * (n + 1) \in Int /\ SHARE[p] * (1 + d) \in Int
    BY <1>2, <1>3
  <2> QED BY <1>2, <1>4, <2>1
<1> QED BY <1>5 DEF d


(* The table holds the shares that have been told, whatever schedule() does. *)
ShareOutcome(procs, e) ==
  \/ e \notin Scheduling /\ Stays(procs)
  \/ e \in Scheduling /\ Kern!ProportionalShare(procs)

LEMMA SharesKept ==
  ASSUME NEW procs, procs \in [KP!Pids -> KP!Descriptors], current \in Apps,
         NEW e, ShareOutcome(procs, e), NEW q \in Apps
  PROVE  /\ proc_array'[q].p_share = procs[q].p_share
         /\ proc_array'[q].p_state = procs[q].p_state
<1>1. q \in Kern!Pids /\ q \in KP!Pids /\ current \in KP!Pids /\ KP!Pids = Kern!Pids
  BY OSAssumption DEF Kern!Pids, KP!Pids, Apps
<1>2. CASE proc_array' = procs
  BY <1>2
<1>3. ASSUME NEW S PROVE /\ Kern!ClearTime(S, procs)[q].p_share = procs[q].p_share
                         /\ Kern!ClearTime(S, procs)[q].p_state = procs[q].p_state
  BY <1>1 DEF Kern!ClearTime, KP!Descriptors
<1>4. CASE \E S : proc_array' = Kern!ClearTime(S, procs)
  BY <1>3, <1>4
<1>5. CASE \E S : \E p \in Kern!Pids :
             proc_array' = [Kern!ClearTime(S, procs) EXCEPT ![p].p_time_passed = @ + 1]
  <2>1. PICK S : \E p \in Kern!Pids :
             proc_array' = [Kern!ClearTime(S, procs) EXCEPT ![p].p_time_passed = @ + 1]
    BY <1>5
  <2>2. PICK ps : ps = Kern!ClearTime(S, procs)
    OBVIOUS
  <2>3. ps \in [KP!Pids -> KP!Descriptors]
    BY <1>1, <2>2 DEF Kern!ClearTime, KP!Descriptors
  <2>4. /\ proc_array'[q].p_share = ps[q].p_share
        /\ proc_array'[q].p_state = ps[q].p_state
    BY <1>1, <2>1, <2>2, <2>3 DEF KP!Descriptors
  <2> QED BY <1>3, <2>2, <2>4
<1> QED BY <1>2, <1>4, <1>5 DEF ShareOutcome, Stays, Kern!ProportionalShare, Kern!Stop, Kern!Run,
        Kern!Runnable

Charged(S, p, procs) == [Kern!ClearTime(S, procs) EXCEPT ![p].p_time_passed = @ + 1]

LEMMA TimeAfter ==
  ASSUME NEW procs, procs \in [KP!Pids -> KP!Descriptors], NEW S, NEW p \in Kern!Pids,
         NEW ps, ps = Charged(S, p, procs), NEW q \in Kern!Pids
  PROVE  ps[q].p_time_passed = (IF q \in S THEN 0 ELSE procs[q].p_time_passed)
                                 + (IF q = p THEN 1 ELSE 0)
<1>1. KP!Pids = Kern!Pids
  BY DEF Kern!Pids, KP!Pids
<1>2. PICK cs : cs = Kern!ClearTime(S, procs)
  OBVIOUS
<1>3. /\ cs \in [KP!Pids -> KP!Descriptors]
      /\ cs[q].p_time_passed = IF q \in S THEN 0 ELSE procs[q].p_time_passed
  BY <1>1, <1>2 DEF Kern!ClearTime, KP!Descriptors
<1>4. ps = [cs EXCEPT ![p].p_time_passed = @ + 1]
  BY <1>2 DEF Charged
<1>5. ps[q].p_time_passed = cs[q].p_time_passed + (IF q = p THEN 1 ELSE 0)
  <2>1. cs[q] \in KP!Descriptors /\ cs[q].p_time_passed \in Int
    BY <1>1, <1>3 DEF KP!Descriptors
  <2>2. CASE q = p
    <3>1. ps[q] = [cs[q] EXCEPT !.p_time_passed = cs[q].p_time_passed + 1]
      BY <1>1, <1>3, <1>4, <2>2
    <3>2. ps[q].p_time_passed = cs[q].p_time_passed + 1
      BY <2>1, <3>1 DEF KP!Descriptors
    <3> QED BY <2>2, <3>2
  <2>3. CASE q # p
    <3>1. ps[q] = cs[q]
      BY <1>1, <1>3, <1>4, <2>3
    <3> QED BY <2>1, <2>3, <3>1
  <2> QED BY <2>2, <2>3
<1> QED BY <1>3, <1>5

(* Whom algorithm 3 runs: c again, while its share lasts; else the next that *)
(* can run; c again, if there is no other.                                   *)
Distance(c, q) == IF q >= c THEN q - c ELSE q - c + NPROCS

Others(c, procs) == {q \in Apps \ {c} : procs[q].p_state = "P_RUNNABLE"}

Lasts(c, procs) ==
  procs[c].p_state = "P_RUNNABLE" /\ procs[c].p_time_passed < procs[c].p_share

RunsOn(c, procs) ==
  /\ Lasts(c, procs) /\ current' = c
  /\ proc_array'[c].p_time_passed = procs[c].p_time_passed + 1
  /\ \A q \in Apps \ {c} : proc_array'[q].p_time_passed = procs[q].p_time_passed

Moves(c, d, procs) ==
  /\ ~Lasts(c, procs) /\ d \in Apps /\ current' = d
  /\ procs[d].p_state = "P_RUNNABLE"
  /\ Others(c, procs) = {} => d = c
  /\ Others(c, procs) # {} => d # c
  /\ \A q \in Others(c, procs) : Distance(c, d) <= Distance(c, q)
  /\ proc_array'[d].p_time_passed = 1
  /\ \A q \in Apps \ {d} : procs[q].p_state = "P_RUNNABLE" =>
                             proc_array'[q].p_time_passed = 0

LEMMA ShareGoes ==
  ASSUME NEW procs, procs \in [KP!Pids -> KP!Descriptors], NEW c \in Apps, c = current,
         procs[0].p_state # "P_RUNNABLE",
         \A q \in Apps : procs[q].p_share >= 1,
         \A q \in Others(c, procs) : procs[q].p_time_passed = 0,
         Kern!ProportionalShare(procs), mode' = "user"
  PROVE  RunsOn(c, procs) \/ \E d : Moves(c, d, procs)
<1> DEFINE runnable == Kern!Runnable(procs)
           due == {p \in runnable : Kern!HasTurn(procs[p])}
           ready == IF due # {} THEN due ELSE {p \in runnable : procs[p].p_share > 0}
           Passed(p) == IF due # {} THEN {q \in runnable : Kern!Visit(q) < Kern!Visit(p)}
                                    ELSE runnable
<1>1. PICK p \in ready :
        /\ \A q \in ready : Kern!Visit(p) <= Kern!Visit(q)
        /\ Kern!Run(p, [Kern!ClearTime(Passed(p), procs) EXCEPT ![p].p_time_passed = @ + 1])
  BY DEF Kern!ProportionalShare, Kern!Stop
<1>2. /\ runnable = {q \in Apps : procs[q].p_state = "P_RUNNABLE"}
      /\ due = {q \in runnable : procs[q].p_time_passed < procs[q].p_share}
      /\ Apps \subseteq Kern!Pids /\ Apps \subseteq KP!Pids /\ 0 \notin Apps
      /\ \A q \in Apps : Kern!Visit(q) = Distance(c, q)
  BY OSAssumption DEF Kern!Runnable, Kern!HasTurn, Kern!Pids, KP!Pids, Apps, Kern!Visit, Distance
<1>3. p \in Apps /\ p \in runnable /\ current' = p
  BY <1>1, <1>2 DEF Kern!Run
<1>4. \A q \in Apps : proc_array'[q].p_time_passed =
                        (IF q \in Passed(p) THEN 0 ELSE procs[q].p_time_passed)
                          + (IF q = p THEN 1 ELSE 0)
  <2>1. PICK S : S = Passed(p)
    OBVIOUS
  <2>2. proc_array' = Charged(S, p, procs)
    BY <1>1, <2>1 DEF Kern!Run, Charged
  <2>3. PICK ps : ps = proc_array'
    OBVIOUS
  <2>4. ps = Charged(S, p, procs)
    BY <2>2, <2>3
  <2>5. p \in Kern!Pids /\ \A q \in Apps : q \in Kern!Pids
    BY <1>2, <1>3
  <2>6. ASSUME NEW q \in Apps
        PROVE  ps[q].p_time_passed = (IF q \in S THEN 0 ELSE procs[q].p_time_passed)
                                       + (IF q = p THEN 1 ELSE 0)
    <3>1. q \in Kern!Pids
      BY <2>5
    <3> QED BY <2>4, <2>5, <3>1, TimeAfter
  <2> QED BY <2>1, <2>3, <2>6
<1>5. /\ \A q \in Apps : procs[q].p_time_passed \in Int /\ procs[q].p_share \in Int
      /\ c \in Int /\ NPROCS \in Int /\ \A q \in Apps : q \in 1 .. NPROCS - 1
  BY <1>2, OSAssumption DEF KP!Descriptors, Apps
<1>6. /\ Distance(c, c) = 0
      /\ \A q \in Apps \ {c} : Distance(c, q) \in Int /\ Distance(c, q) > 0
  BY <1>5 DEF Distance
<1> HIDE DEF runnable, due, Passed
<1>7. CASE Lasts(c, procs)
  <2>1. c \in due /\ c \in ready
    BY <1>2, <1>7 DEF Lasts
  <2>2. Kern!Visit(p) <= Kern!Visit(c)
    BY <1>1, <2>1
  <2>3. p = c
    BY <1>2, <1>3, <1>6, <2>2
  <2>4. \A q \in Apps : q \notin Passed(p)
    <3>1. due # {}
      BY <2>1
    <3>2. ASSUME NEW q \in Apps PROVE ~(Kern!Visit(q) < Kern!Visit(p))
      <4>1. Distance(c, q) >= 0 /\ Distance(c, q) \in Int /\ Kern!Visit(q) = Distance(c, q)
        BY <1>2, <1>5 DEF Distance
      <4>2. Kern!Visit(p) = 0
        BY <1>2, <1>6, <2>3
      <4> QED BY <4>1, <4>2
    <3> QED BY <3>1, <3>2 DEF Passed
  <2>5. \A q \in Apps : proc_array'[q].p_time_passed = procs[q].p_time_passed
                                                         + (IF q = c THEN 1 ELSE 0)
    BY <1>4, <2>3, <2>4
  <2> QED BY <1>3, <1>5, <1>7, <2>3, <2>5 DEF RunsOn
<1>8. CASE ~Lasts(c, procs)
  <2>1. due = Others(c, procs)
    <3>1. \A q \in Others(c, procs) : q \in due
      BY <1>2, <1>5 DEF Others
    <3>2. \A q \in due : q \in Apps /\ q # c /\ procs[q].p_state = "P_RUNNABLE"
      BY <1>2, <1>8 DEF Lasts
    <3>3. \A q \in due : q \in Others(c, procs)
      BY <3>2 DEF Others
    <3> QED BY <3>1, <3>3
  <2>2. CASE Others(c, procs) # {}
    <3>1. p \in Others(c, procs) /\ \A q \in Others(c, procs) : Distance(c, p) <= Distance(c, q)
      BY <1>1, <1>2, <2>1, <2>2 DEF Others
    <3>2. p # c /\ p \in Apps /\ procs[p].p_state = "P_RUNNABLE" /\ procs[p].p_time_passed = 0
      BY <3>1 DEF Others
    <3>3. p \notin Passed(p)
      BY <1>2, <1>5, <2>1, <2>2, <3>2 DEF Passed, Distance
    <3>4. proc_array'[p].p_time_passed = 1
      BY <1>4, <3>2, <3>3
    <3>5. ASSUME NEW q \in Apps \ {p}, procs[q].p_state = "P_RUNNABLE"
          PROVE  proc_array'[q].p_time_passed = 0
      <4>1. CASE q = c
        <5>1. Kern!Visit(c) < Kern!Visit(p) /\ c \in runnable
          BY <1>2, <1>6, <3>2, <3>5, <4>1
        <5>2. c \in Passed(p)
          BY <2>1, <2>2, <5>1 DEF Passed
        <5> QED BY <1>4, <3>2, <4>1, <5>2
      <4>2. CASE q # c
        <5>1. procs[q].p_time_passed = 0
          BY <3>5, <4>2 DEF Others
        <5> QED BY <1>4, <3>5, <5>1
      <4> QED BY <4>1, <4>2
    <3>6. Moves(c, p, procs)
      BY <1>3, <1>8, <2>2, <3>1, <3>2, <3>4, <3>5 DEF Moves
    <3> QED BY <3>6
  <2>3. CASE Others(c, procs) = {}
    <3>1. p = c /\ procs[c].p_state = "P_RUNNABLE"
      BY <1>2, <1>3, <2>3 DEF Others
    <3>2. c \in Passed(p)
      BY <1>3, <2>1, <2>3, <3>1 DEF Passed
    <3>3. proc_array'[c].p_time_passed = 1
      BY <1>4, <3>1, <3>2
    <3>4. \A q \in Apps \ {c} : procs[q].p_state # "P_RUNNABLE"
      BY <2>3 DEF Others
    <3>5. Moves(c, c, procs)
      BY <1>3, <1>8, <2>3, <3>1, <3>3, <3>4 DEF Moves
    <3> QED BY <3>5
  <2> QED BY <2>2, <2>3
<1> QED BY <1>7, <1>8


ShareFacts(c, k, n, procs, e) ==
  /\ StepFacts(c, k, procs, e) /\ n \in Nat /\ Lap(c, n) /\ \A q \in Apps : ShareTold(q)
  /\ procs \in [KP!Pids -> KP!Descriptors] /\ ShareOutcome(procs, e)

LEMMA ShareStep ==
  ASSUME SpinLockOnly, ~allow_clock_interrupt, OSInv, AppP!IInv, ShareInv,
         scheduling_algorithm = 3, Next
  PROVE  \E c, k, n, procs, e : ShareFacts(c, k, n, procs, e)
<1>1. PICK c, k, procs, e : StepFacts(c, k, procs, e)
  BY NoClockStep
<1>2. PICK n \in Nat : Lap(c, n)
  BY <1>1, NoClockStep DEF ShareInv, StepFacts
<1>3. procs \in [KP!Pids -> KP!Descriptors] /\ ShareOutcome(procs, e)
  BY <1>1 DEF StepFacts, Enters, ShareOutcome, Kern!schedule
<1>4. ShareFacts(c, k, n, procs, e)
  BY <1>1, <1>2, <1>3 DEF ShareFacts, ShareInv
<1> QED BY <1>4

LEMMA ShareToldStep ==
  ASSUME NEW c, NEW k, NEW n, NEW procs, NEW e, ShareFacts(c, k, n, procs, e), NEW q \in Apps
  PROVE  ShareTold(q)'
<1>1. current \in Apps /\ c \in Apps
  BY DEF ShareFacts, StepFacts
<1>2. proc_array'[q].p_share = procs[q].p_share
  BY <1>1, SharesKept DEF ShareFacts
<1>3. ShareTold(q)
  BY DEF ShareFacts
<1>4. CASE q # c
  BY <1>2, <1>3, <1>4 DEF ShareTold, ShareFacts, StepFacts
<1>5. CASE q = c
  BY <1>2, <1>3, <1>5 DEF ShareTold, ShareFacts, StepFacts
<1> QED BY <1>4, <1>5


LEMMA LapTypes ==
  ASSUME SharesPositive, NEW c, NEW k, NEW n, NEW procs, NEW e, ShareFacts(c, k, n, procs, e)
  PROVE  /\ c \in Int /\ 1 <= c /\ c <= NPROCS - 1 /\ NPROCS \in Int /\ k \in Nat /\ n \in Nat
         /\ SHARE[c] \in Nat /\ SHARE[c] >= 1 /\ SHARE[c] * n \in Nat
         /\ SHARE[c] * (n + 1) = SHARE[c] * n + SHARE[c]
         /\ First(c) \in {0, 1}
         /\ \A q \in Apps : SHARE[q] \in Nat /\ SHARE[q] >= 1
         /\ \A q \in Apps \ {c} : VirtualRegs'[q] = VirtualRegs[q]
         /\ \A q \in Apps : proc_array'[q].p_state = procs[q].p_state
         /\ \A q \in Apps \ {c} : procs[q].p_state = proc_array[q].p_state
         /\ \A q \in Apps : procs[q].p_time_passed = proc_array[q].p_time_passed
         /\ \A q \in Apps : procs[q].p_share >= 1
         /\ \A q \in Others(c, procs) : procs[q].p_time_passed = 0
<1>1. c \in Apps /\ current \in Apps /\ k \in Nat /\ n \in Nat
  BY DEF ShareFacts, StepFacts
<1>2. \A q \in Apps : SHARE[q] \in Nat /\ SHARE[q] >= 1
  BY OSAssumption DEF SharesPositive, Apps
<1>3. c \in Int /\ 1 <= c /\ c <= NPROCS - 1 /\ NPROCS \in Int /\ First(c) \in {0, 1}
  BY <1>1, OSAssumption DEF Apps, First
<1>4. SHARE[c] * n \in Nat /\ SHARE[c] * (n + 1) = SHARE[c] * n + SHARE[c]
  <2>1. PICK s \in Nat : s = SHARE[c]
    BY <1>1, <1>2
  <2>2. s * n \in Nat /\ s * (n + 1) = s * n + s
    BY <1>1
  <2> QED BY <2>1, <2>2
<1>5. \A q \in Apps : proc_array'[q].p_state = procs[q].p_state
  BY <1>1, SharesKept DEF ShareFacts
<1>6. /\ \A q \in Apps \ {c} : VirtualRegs'[q] = VirtualRegs[q]
      /\ \A q \in Apps \ {c} : procs[q].p_state = proc_array[q].p_state
      /\ \A q \in Apps : procs[q].p_time_passed = proc_array[q].p_time_passed
  BY DEF ShareFacts, StepFacts
<1>7. \A q \in Apps : procs[q].p_share >= 1
  <2>1. SUFFICES ASSUME NEW q \in Apps PROVE procs[q].p_share >= 1
    OBVIOUS
  <2>2. procs[q].p_share \in {1, SHARE[q]}
    BY DEF ShareFacts, StepFacts, ShareTold
  <2> QED BY <1>2, <2>2
<1>8. \A q \in Others(c, procs) : procs[q].p_time_passed = 0
  BY <1>1, <1>6 DEF Others, ShareFacts, Lap, Rested
<1> QED BY <1>1, <1>2, <1>3, <1>4, <1>5, <1>6, <1>7, <1>8

(* Until its yield, and while its share lasts, the same application has the  *)
(* processor in the same lap.                                                *)
LEMMA LapGoesOn ==
  ASSUME SharesPositive, NEW c, NEW k, NEW n, NEW procs, NEW e, ShareFacts(c, k, n, procs, e),
         \/ e \notin Scheduling
         \/ e = "yield" /\ RunsOn(c, procs)
  PROVE  current' = c /\ Lap(c, n)'
<1> DEFINE t == proc_array[c].p_time_passed
<1>1. t \in 0 .. SHARE[c] /\ t + First(c) >= 1 /\ k + 1 = SHARE[c] * n + t + First(c)
  BY DEF ShareFacts, StepFacts, Lap, InTurn
<1>2. PICK u \in {0, 1} :
        /\ current' = c /\ u = IF e = "yield" THEN 1 ELSE 0
        /\ proc_array'[c].p_time_passed = t + u
        /\ VirtualRegs'[c].i = k + u
        /\ u = 1 => t < SHARE[c]
        /\ \A q \in Apps \ {c} : proc_array'[q].p_time_passed = proc_array[q].p_time_passed
  <2>1. CASE e \notin Scheduling
    <3>1. /\ current' = c /\ proc_array'[c].p_time_passed = t /\ VirtualRegs'[c].i = k
          /\ \A q \in Apps : proc_array'[q].p_time_passed = proc_array[q].p_time_passed
          /\ e # "yield"
      BY <2>1, LapTypes DEF ShareFacts, StepFacts, ShareOutcome, Stays, Scheduling
    <3>2. t + 0 = t /\ k + 0 = k
      BY <1>1, LapTypes
    <3> QED BY <3>1, <3>2
  <2>2. CASE e = "yield" /\ RunsOn(c, procs)
    <3>1. /\ current' = c /\ proc_array'[c].p_time_passed = t + 1 /\ VirtualRegs'[c].i = k + 1
          /\ \A q \in Apps \ {c} : proc_array'[q].p_time_passed = proc_array[q].p_time_passed
      BY <2>2, LapTypes DEF RunsOn, ShareFacts, StepFacts
    <3>2. procs[c].p_share = SHARE[c]
      BY <2>2 DEF ShareFacts, StepFacts, ShareTold
    <3>3. t < SHARE[c]
      BY <2>2, <3>2, LapTypes DEF RunsOn, Lasts, ShareFacts, StepFacts
    <3> QED BY <2>2, <3>1, <3>3
  <2> QED BY <2>1, <2>2
<1>3. \A q \in Apps \ {c} : proc_array'[q].p_state = "P_RUNNABLE" =>
                              Rested(q, IF q < c THEN n + 1 ELSE n)'
  <2>1. SUFFICES ASSUME NEW q \in Apps \ {c}, proc_array'[q].p_state = "P_RUNNABLE"
                 PROVE  Rested(q, IF q < c THEN n + 1 ELSE n)'
    OBVIOUS
  <2>2. PICK m : m = IF q < c THEN n + 1 ELSE n
    OBVIOUS
  <2>3. proc_array[q].p_state = "P_RUNNABLE"
    BY <2>1, LapTypes
  <2>4. Rested(q, m)
    BY <2>2, <2>3 DEF ShareFacts, Lap
  <2>5. VirtualRegs'[q] = VirtualRegs[q]
    BY LapTypes
  <2>6. proc_array'[q].p_time_passed = proc_array[q].p_time_passed
    BY <1>2
  <2>7. Rested(q, m)'
    BY <2>4, <2>5, <2>6 DEF Rested
  <2> QED BY <2>2, <2>7
<1>4. t + u \in 0 .. SHARE[c] /\ t + u + First(c) >= 1
      /\ k + u + 1 = SHARE[c] * n + (t + u) + First(c)
  <2> HIDE DEF t
  <2> QED BY <1>1, <1>2, LapTypes
<1>5. InTurn(c, proc_array[c].p_time_passed, n)'
  BY <1>2, <1>4 DEF InTurn
<1> QED BY <1>2, <1>3, <1>4, <1>5 DEF Lap

(* When its share is used up or it has exited, the next that still runs has  *)
(* its turn; past the end of the table the next lap begins.                  *)
LEMMA LapMoves ==
  ASSUME SharesPositive, NEW c, NEW k, NEW n, NEW procs, NEW e, ShareFacts(c, k, n, procs, e),
         e \in {"yield", "exit"}, NEW d, Moves(c, d, procs)
  PROVE  d \in Apps /\ d = current' /\ \E m \in Nat : Lap(d, m)'
<1> DEFINE m == IF d > c THEN n ELSE n + 1
<1>1. d \in Apps /\ d \in Int /\ 1 <= d /\ d <= NPROCS - 1 /\ m \in Nat
  BY LapTypes DEF Moves, Apps
<1>2. e = "yield" => /\ VirtualRegs'[c].i = SHARE[c] * (n + 1) + First(c)
                     /\ VirtualRegs'[c].eip \notin {"release", "yield"}
  <2>1. SUFFICES ASSUME e = "yield" PROVE VirtualRegs'[c].i = SHARE[c] * (n + 1) + First(c)
    BY DEF ShareFacts, StepFacts
  <2>2. procs[c].p_share = SHARE[c] /\ procs[c].p_state = "P_RUNNABLE"
    BY <2>1 DEF ShareFacts, StepFacts, ShareTold
  <2>3. PICK t : t = proc_array[c].p_time_passed
    OBVIOUS
  <2>4. t \in 0 .. SHARE[c] /\ k + 1 = SHARE[c] * n + t + First(c)
    BY <2>3 DEF ShareFacts, StepFacts, Lap, InTurn
  <2>5. ~(t < SHARE[c])
    BY <2>2, <2>3, LapTypes DEF Moves, Lasts, ShareFacts, StepFacts
  <2>6. VirtualRegs'[c].i = k + 1
    BY <2>1 DEF ShareFacts, StepFacts
  <2> QED BY <2>4, <2>5, <2>6, LapTypes
<1>3. e = "exit" => procs[c].p_state # "P_RUNNABLE"
  BY DEF ShareFacts, StepFacts
<1>4. ASSUME NEW q \in Apps, procs[q].p_state = "P_RUNNABLE"
      PROVE  /\ VirtualRegs'[q].eip \notin {"release", "yield"} \/ q = d
             /\ VirtualRegs'[q].i = SHARE[q] * (IF q <= c THEN n + 1 ELSE n) + First(q)
  <2>1. CASE q = c
    BY <1>2, <1>3, <1>4, <2>1, LapTypes
  <2>2. CASE q # c
    <3>1. proc_array[q].p_state = "P_RUNNABLE" /\ VirtualRegs'[q] = VirtualRegs[q]
      BY <1>4, <2>2, LapTypes
    <3>2. PICK x : x = IF q < c THEN n + 1 ELSE n
      OBVIOUS
    <3>3. Rested(q, x)
      BY <2>2, <3>1, <3>2 DEF ShareFacts, Lap
    <3>4. q \in Int /\ c \in Int
      BY LapTypes DEF Apps
    <3>5. x = IF q <= c THEN n + 1 ELSE n
      BY <2>2, <3>2, <3>4
    <3> QED BY <3>1, <3>3, <3>5 DEF Rested
  <2> QED BY <2>1, <2>2
<1>5. ASSUME NEW q \in Apps \ {d}, procs[q].p_state = "P_RUNNABLE"
      PROVE  (IF q <= c THEN n + 1 ELSE n) = (IF q < d THEN m + 1 ELSE m)
  <2>1. q \in Int /\ 1 <= q /\ q <= NPROCS - 1
    BY LapTypes DEF Apps
  <2>2. CASE q = c
    <3>1. d # c
      BY <2>2, <1>5
    <3> QED BY <1>1, <2>2, <3>1, LapTypes
  <2>3. CASE q # c
    <3>1. q \in Others(c, procs) /\ d # c /\ Distance(c, d) <= Distance(c, q)
      BY <1>5, <2>3 DEF Others, Moves
    <3> QED BY <1>1, <1>5, <2>1, <2>3, <3>1, LapTypes DEF Distance
  <2> QED BY <2>2, <2>3
<1>6. ASSUME NEW q \in Apps \ {d}, proc_array'[q].p_state = "P_RUNNABLE"
      PROVE  Rested(q, IF q < d THEN m + 1 ELSE m)'
  <2>1. procs[q].p_state = "P_RUNNABLE" /\ proc_array'[q].p_time_passed = 0
    BY <1>6, LapTypes DEF Moves
  <2>2. /\ VirtualRegs'[q].eip \notin {"release", "yield"}
        /\ VirtualRegs'[q].i = SHARE[q] * (IF q < d THEN m + 1 ELSE m) + First(q)
    BY <1>4, <1>5, <1>6, <2>1
  <2> QED BY <2>1, <2>2 DEF Rested
<1>7. VirtualRegs'[d].i = SHARE[d] * m + First(d)
  BY <1>1, <1>4, LapTypes DEF Moves
<1>8. /\ proc_array'[d].p_time_passed = 1 /\ d = current'
      /\ SHARE[d] \in Nat /\ SHARE[d] >= 1 /\ SHARE[d] * m \in Int /\ First(d) \in {0, 1}
  <2>1. SHARE[d] \in Nat /\ SHARE[d] >= 1
    BY <1>1, LapTypes
  <2>2. SHARE[d] * m \in Int
    <3> HIDE DEF m
    <3> QED BY <1>1, <2>1
  <2> QED BY <2>1, <2>2 DEF Moves, First
<1> HIDE DEF m
<1>9. /\ proc_array'[d].p_time_passed \in 0 .. SHARE[d]
      /\ proc_array'[d].p_time_passed + First(d) >= 1
      /\ VirtualRegs'[d].i + 1 = SHARE[d] * m + proc_array'[d].p_time_passed + First(d)
  BY <1>7, <1>8
<1>10. Lap(d, m)'
  BY <1>6, <1>9 DEF Lap, InTurn
<1> QED BY <1>1, <1>8, <1>10


(* The kernel stops only when nobody can run.                                *)
LEMMA ShareStops ==
  ASSUME SharesPositive, NEW c, NEW k, NEW n, NEW procs, NEW e, ShareFacts(c, k, n, procs, e),
         mode = "user", mode' # "user"
  PROVE  \A q \in Apps : proc_array'[q].p_state # "P_RUNNABLE"
<1>1. Kern!ProportionalShare(procs)
  BY DEF ShareFacts, ShareOutcome, Stays
<1>2. SUFFICES ASSUME NEW q \in Apps, proc_array'[q].p_state = "P_RUNNABLE" PROVE FALSE
  OBVIOUS
<1>3. procs[q].p_state = "P_RUNNABLE" /\ procs[q].p_share >= 1 /\ procs[q].p_share \in Int
  <2>1. q \in KP!Pids
    BY OSAssumption DEF Apps, KP!Pids
  <2> QED BY <1>2, <2>1, LapTypes DEF ShareFacts, KP!Descriptors
<1>4. q \in Kern!Runnable(procs) /\ procs[q].p_share > 0
  BY <1>3, OSAssumption DEF Kern!Runnable, Kern!Pids, Apps
<1> QED BY <1>1, <1>2, <1>4 DEF Kern!ProportionalShare, Kern!Run, Kern!Stop

LEMMA ShareNext ==
  ASSUME SpinLockOnly, ~allow_clock_interrupt, SharesPositive,
         OSInv, AppP!IInv, LivingInv, ShareInv, LivingInv',
         scheduling_algorithm = 3, Next
  PROVE  /\ \A q \in Apps : ShareTold(q)'
         /\ mode' = "user" => \E c \in Apps, n \in Nat : c = current' /\ Lap(c, n)'
         /\ mode' # "user" => \A q \in Apps : Exited(q)'
<1>1. PICK c, k, n, procs, e : ShareFacts(c, k, n, procs, e)
  BY ShareStep
<1>2. \A q \in Apps : ShareTold(q)'
  BY <1>1, ShareToldStep
<1>3. mode = "user" /\ c \in Apps /\ c = current /\ n \in Nat
  BY <1>1, NoClockStep DEF ShareFacts, StepFacts
<1>4. ASSUME mode' # "user" PROVE \A q \in Apps : Exited(q)'
  BY <1>1, <1>3, <1>4, ShareStops DEF LivingInv, Exited
<1>5. ASSUME mode' = "user" PROVE \E d \in Apps, m \in Nat : d = current' /\ Lap(d, m)'
  <2>1. CASE e \notin Scheduling
    <3>1. current' = c /\ Lap(c, n)'
      BY <1>1, <2>1, LapGoesOn
    <3> QED BY <1>3, <3>1
  <2>2. CASE e \in Scheduling
    <3>1. e \in {"yield", "exit"} /\ Kern!ProportionalShare(procs)
      BY <1>1, <2>2 DEF ShareFacts, StepFacts, ShareOutcome, Scheduling
    <3>2. RunsOn(c, procs) \/ \E d : Moves(c, d, procs)
      <4>1. /\ procs \in [KP!Pids -> KP!Descriptors] /\ procs[0].p_state # "P_RUNNABLE"
            /\ \A q \in Apps : procs[q].p_share >= 1
            /\ \A q \in Others(c, procs) : procs[q].p_time_passed = 0
        BY <1>1, LapTypes DEF ShareFacts, StepFacts
      <4> QED BY <1>3, <1>5, <3>1, <4>1, ShareGoes
    <3>3. CASE RunsOn(c, procs)
      <4>1. e = "yield"
        BY <1>1, <3>1, <3>3 DEF RunsOn, Lasts, ShareFacts, StepFacts
      <4>2. current' = c /\ Lap(c, n)'
        BY <1>1, <3>3, <4>1, LapGoesOn
      <4> QED BY <1>3, <4>2
    <3>4. CASE \E d : Moves(c, d, procs)
      <4>1. PICK d : Moves(c, d, procs)
        BY <3>4
      <4>2. d \in Apps /\ d = current' /\ \E m \in Nat : Lap(d, m)'
        BY <1>1, <3>1, <4>1, LapMoves
      <4> QED BY <4>2
    <3> QED BY <3>2, <3>3, <3>4
  <2> QED BY <2>1, <2>2
<1> QED BY <1>2, <1>4, <1>5

LEMMA ShareOrder ==
  ASSUME SpinLockOnly, ~allow_clock_interrupt, SharesPositive
  PROVE  Runs => []PrintInProportion
<1>1. Init => ShareInv /\ mode = "user"
  <2>1. SUFFICES ASSUME Init PROVE ShareInv /\ mode = "user"
    OBVIOUS
  <2>2. \A q \in Apps : VirtualRegs[q] = App!Entry
    BY <2>1, InitOS DEF App!Init
  <2>3. \A q \in Apps : proc_array[q].p_time_passed = 0 /\ proc_array[q].p_share = 1
    BY <2>1, OSAssumption DEF Init, Kern!Init, Kern!Descriptor, Kern!Pids, Apps
  <2>4. 1 \in Apps /\ current = 1 /\ mode = "user" /\ 0 \in Nat
    BY <2>1, OSAssumption DEF Init, Kern!Init, Apps
  <2>5. \A q \in Apps : /\ SHARE[q] \in Nat /\ SHARE[q] * 0 = 0
                        /\ q \in Int /\ q >= 1
    BY OSAssumption DEF SharesPositive, Apps
  <2>6. \A q \in Apps : ShareTold(q)
    BY <2>2, <2>3 DEF ShareTold, App!Entry
  <2>7. \A q \in Apps \ {1} : Rested(q, 0)
    BY <2>2, <2>3, <2>5 DEF Rested, First, App!Entry
  <2>8. /\ proc_array[1].p_time_passed \in 0 .. SHARE[1]
        /\ proc_array[1].p_time_passed + First(1) >= 1
        /\ InTurn(1, proc_array[1].p_time_passed, 0)
    BY <2>2, <2>3, <2>4, <2>5 DEF InTurn, First, App!Entry
  <2>9. Lap(1, 0)
    <3>1. \A q \in Apps \ {1} : ~(q < 1)
      BY <2>5
    <3> QED BY <2>7, <2>8, <3>1 DEF Lap
  <2> QED BY <2>4, <2>6, <2>9 DEF ShareInv
<1>2. OSInv /\ AppP!IInv /\ LivingInv /\ LivingInv' /\ ShareInv /\ [Next]_vars => ShareInv'
  <2>1. SUFFICES ASSUME OSInv, AppP!IInv, LivingInv, LivingInv', ShareInv, [Next]_vars
                 PROVE  ShareInv'
    OBVIOUS
  <2>2. CASE UNCHANGED vars
    <3>1. /\ VirtualRegs' = VirtualRegs
          /\ UNCHANGED <<proc_array, current, mode, scheduling_algorithm>>
      BY <2>2 DEF vars, VirtualRegs
    <3>2. ASSUME NEW c, NEW n, Lap(c, n) PROVE Lap(c, n)'
      BY <3>1, <3>2 DEF Lap, Rested, InTurn
    <3>3. ASSUME NEW q, ShareTold(q) PROVE ShareTold(q)'
      BY <3>1, <3>3 DEF ShareTold
    <3> QED BY <2>1, <3>1, <3>2, <3>3 DEF ShareInv
  <2>3. CASE Next /\ scheduling_algorithm # 3
    BY <2>1, <2>3, TableStep DEF ShareInv
  <2>4. CASE Next /\ scheduling_algorithm = 3
    BY <2>1, <2>4, ShareNext DEF ShareInv
  <2> QED BY <2>1, <2>2, <2>3, <2>4
<1>3. AppP!IInv /\ LivingInv /\ ShareInv /\ mode = "user" => PrintInProportion
  BY LapProportion DEF ShareInv, PrintInProportion
<1>4. /\ OSInv /\ AppP!IInv /\ LivingInv /\ LivingInv' /\ ShareInv /\ PrintInProportion
      /\ [Next]_vars
      => (PrintInProportion \/ mode = "user")'
  <2>1. SUFFICES ASSUME OSInv, AppP!IInv, LivingInv, LivingInv', ShareInv, PrintInProportion,
                        [Next]_vars, mode' # "user"
                 PROVE  PrintInProportion'
    OBVIOUS
  <2>2. CASE UNCHANGED vars
    BY <2>1, <2>2 DEF vars, PrintInProportion, Exited, App!Printed, VirtualRegs
  <2>3. CASE Next /\ scheduling_algorithm # 3
    BY <2>1, <2>3, TableStep DEF PrintInProportion
  <2>4. CASE Next /\ scheduling_algorithm = 3
    BY <2>1, <2>4, ShareNext DEF PrintInProportion
  <2> QED BY <2>1, <2>2, <2>3, <2>4
<1> QED BY <1>1, <1>2, <1>3, <1>4, Living, PTL DEF Runs

(* Under algorithm 3 without the clock the applications print in proportion  *)
(* to their shares (schedos-kern.c:265-297), if they synchronise by the lock *)
(* and each has a share.                                                     *)
THEOREM SharesInProportion ==
  ASSUME SpinLockOnly, ~allow_clock_interrupt, SharesPositive
  PROVE  Spec => []PrintInProportion
BY ShareOrder, PTL DEF Spec, Runs


-----------------------------------------------------------------------------
(* SchedOSLottery.                                                           *)

GenP == INSTANCE SchedOSRandomProofs WITH
          STREAMS <- 256, Seeds <- {1}, Indices <- {},
          seed <- [s \in {0} |-> seed], stream <- 0, initialized <- TRUE,
          pc <- "idle", ret <- "idle", j <- 0, ok <- TRUE

LEMMA GenConstants == GenP!RandomAssumption
BY DEF GenP!RandomAssumption

LEMMA ScaledNat ==
  ASSUME NEW x \in Nat
  PROVE  Scaled(x) \in Nat
<1> DEFINE i == x \div 214748
<1>1. i \in Nat
  OBVIOUS
<1>2. CASE i = 0
  <2>1. 214748 * i + (3647 * i + 9999) \div 10000 = 0
    BY <1>2
  <2> QED BY <1>2, <2>1 DEF Scaled
<1>3. CASE i # 0
  <2> HIDE DEF i
  <2>1. i - 1 \in Nat
    BY <1>1, <1>3
  <2> QED BY <1>1, <2>1 DEF Scaled, i
<1> QED BY <1>2, <1>3

SeedInv == seed \in GenP!Proper

LEMMA DrawnProper ==
  ASSUME SeedInv
  PROVE  Drawn \in GenP!Proper /\ Drawn \in Nat
<1>1. GenP!Lehmer(GenP!MULTIPLIER, seed) \in GenP!Proper
  BY GenConstants, GenP!LehmerProper DEF SeedInv
<1>2. Drawn = GenP!Lehmer(GenP!MULTIPLIER, seed)
  BY DEF Drawn, Gen!Lehmer, GenP!Lehmer, Gen!MULTIPLIER, GenP!MULTIPLIER, Gen!MODULUS,
     GenP!MODULUS
<1> QED BY <1>1, <1>2, GenConstants, GenP!ProperInt

LEMMA SeedStep == SeedInv /\ [LotteryNext]_lotteryvars => SeedInv'
BY DrawnProper DEF SeedInv, LotteryNext, Redraw, Win, Other, lotteryvars

LEMMA LotteryRuns == LotterySpec => Runs /\ []SeedInv
<1>1. LotteryInit => Init /\ SeedInv
  <2>1. GenP!Planted(1) \in GenP!Proper
    BY GenConstants, GenP!PlantedProper
  <2>2. Gen!Planted(1) = GenP!Planted(1)
    BY DEF Gen!Planted, GenP!Planted, Gen!MODULUS, GenP!MODULUS
  <2> QED BY <2>1, <2>2 DEF LotteryInit, SeedInv
<1>2. [LotteryNext]_lotteryvars => [Next]_vars
  BY DEF LotteryNext, Redraw, Win, Other, Next, Execute, lotteryvars
<1> QED BY <1>1, <1>2, SeedStep, PTL DEF LotterySpec, Runs

(* What get_winner() draws is a ticket that somebody has: the index is in    *)
(* the table, whatever the generator yields and however few tickets there    *)
(* are, so that SchedOS allows every draw (schedos-kern.c:58-64).            *)
THEOREM DrawsATicket == LotterySpec => [](AboutToDraw => Winner(Drawn) \in Kern!Holders)
<1>1. OSInv /\ SeedInv /\ AboutToDraw => Winner(Drawn) \in Kern!Holders
  <2>1. SUFFICES ASSUME OSInv, SeedInv, AboutToDraw PROVE Winner(Drawn) \in Kern!Holders
    OBVIOUS
  <2>2. PICK n, l : n = Scaled(Drawn) /\ l = Len(tickets)
    OBVIOUS
  <2>3. n \in Nat
    BY <2>1, <2>2, DrawnProper, ScaledNat
  <2>4. l \in Nat /\ l >= 1
    BY <2>1, <2>2, OSAssumption DEF OSInv, KP!IInv, KP!TypeOK, AboutToDraw, Kern!Drawing
  <2>5. n % l \in 0 .. l - 1
    BY <2>3, <2>4
  <2>6. (n % l) + 1 \in 1 .. l
    BY <2>4, <2>5
  <2> QED BY <2>2, <2>6 DEF Winner, Kern!Holders
<1> QED BY <1>1, LotteryRuns, OSInvariant, PTL

(* The orders of the characters, for the draws that the generator yields.    *)
THEOREM OrdersAsDrawn ==
  ASSUME SpinLockOnly, PrioritiesPositive, SharesPositive
  PROVE  LotterySpec => [](PrintInTurn /\ PrintInOrder /\ UrgentFirst /\ PrintInProportion)
<1>1. CASE allow_clock_interrupt
  <2>1. LotteryInit => FALSE
    BY <1>1 DEF LotteryInit
  <2> QED BY <2>1, PTL DEF LotterySpec
<1>2. CASE ~allow_clock_interrupt
  <2>1. Runs => []PrintInTurn
    BY <1>2, TurnOrder
  <2>2. Runs => []PrintInProportion
    BY <1>2, ShareOrder
  <2>3. Runs => []UrgentFirst
    BY UrgentOrder
  <2> QED BY <2>1, <2>2, <2>3, PidOrder, LotteryRuns, PTL
<1> QED BY <1>1, <1>2
=============================================================================
