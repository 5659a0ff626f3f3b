--------------------------- MODULE SchedOSMachine ---------------------------
(***************************************************************************)
(* A trap from the instruction it interrupts to the iret of run(): the     *)
(* descriptor tables and the interrupt controller as schedos-x86.c         *)
(* programs them, the stubs of schedos-int.S, the frame they leave on the  *)
(* kernel stack for interrupt(), and the frame that run() pops.            *)
(*                                                                         *)
(* SchedOSKern assumes that a trap is one step and hands the kernel the    *)
(* registers and the right number.  Here nothing is assumed: an interrupt  *)
(* may arrive before any step if the processor accepts it, and the frame   *)
(* is a sequence of words that pushes, struct and pops must agree on.      *)
(***************************************************************************)
EXTENDS SchedOSLoop

CONSTANTS
  Garbage,        \* a word that the kernel's own code leaves in a register
  Irqs,           \* by algorithm: the lines that devices raise
  Instructions    \* by algorithm and pid: the `int' instructions of a process,
                  \*   [int |-> its number, file |-> what the registers are then]

VARIABLES
  hw,        \* the registers of the processor
  stack,     \* the words on the kernel stack, the top first
  phase,     \* whose code runs, see Phases
  trap,      \* history: number and source of the last trap
  pic,       \* the interrupt controllers, by I/O port
  ctx        \* history: by pid, the registers as the process last saw them

hardware == <<hw, stack, phase, trap, pic, ctx>>
machvars == <<loopvars, hardware>>

(***************************************************************************)
(* "user": an application.  "stub": the handler of the gate.  "generic":   *)
(* _generic_int_handler.  "interrupt": the first lines of interrupt().     *)
(* "kernel": the rest, the loops of schedule() among it.  "run": the asm   *)
(* statement of run().                                                     *)
(***************************************************************************)
Phases == {"user", "stub", "generic", "interrupt", "kernel", "run"}

Apps == Pids \ {0}

-----------------------------------------------------------------------------
(* Numbers of the trap mechanism. *)

INT_CLOCK == 32
INT_HARDWARE == 32
INT_SYS_YIELD == 48
INT_SYS_EXIT == 49
INT_SYS_USER1 == 50
INT_SYS_USER2 == 51
INT_SYS_USER3 == 52
INT_SYS_USER4 == 53
SystemCalls == INT_SYS_YIELD .. INT_SYS_YIELD + 9
Handled == INT_SYS_YIELD .. INT_SYS_USER4 \cup {INT_CLOCK}

(* Exceptions: 0, divide error; 13, general protection. *)
Exceptions == {0, 13}
HasErrorCode == {13}

KERNEL_STACK_TOP == 1572864   \* 0x180000
SEGSEL_KERN_CODE == 8
SEGSEL_KERN_DATA == 16
APP_CODE == 27                \* SEGSEL_APP_CODE | 3
APP_DATA == 35                \* SEGSEL_APP_DATA | 3
EFLAGS_IF == 512

Registers == {"edi", "esi", "ebp", "ebx", "edx", "ecx", "eax",
              "es", "ds", "eip", "cs", "eflags", "esp", "ss"}

(* registers_t: the words of the frame by name, lowest address first. *)
registers_t == <<"edi", "esi", "ebp", "original_esp", "ebx", "edx", "ecx", "eax",
                 "es", "ds", "intno", "err", "eip", "cs", "eflags", "esp", "ss">>

Field(frame, name) == frame[CHOOSE n \in DOMAIN registers_t : registers_t[n] = name]

(* special_registers_init() and the two assignments of start() after it. *)
SpecialRegisters(eip, esp) ==
  [n \in DOMAIN registers_t |->
     CASE registers_t[n] = "cs" -> APP_CODE
       [] registers_t[n] \in {"ds", "es", "ss"} -> APP_DATA
       [] registers_t[n] = "eflags" -> EFLAGS_IF
       [] registers_t[n] = "eip" -> eip
       [] registers_t[n] = "esp" -> esp
       [] OTHER -> 0]

-----------------------------------------------------------------------------
(* segments_init(): the interrupt descriptor table. *)

(* SETGATE; the handler is given by the words it pushes, the last one first. *)
Gate_defect(istrap, pushes, dpl) ==   \* the two types of gate exchanged
  [istrap |-> ~istrap, pushes |-> pushes, dpl |-> dpl]

Gate(istrap, pushes, dpl) == [istrap |-> istrap, pushes |-> pushes, dpl |-> dpl]

default_int_handler == <<0>>
clock_int_handler == <<32, 0>>
sys_int_handlers == [i \in 0 .. 9 |-> <<48 + i, 0>>]

interrupt_descriptors_defect(v) ==   \* programs may use the clock's gate
  CASE v = INT_CLOCK -> Gate(FALSE, clock_int_handler, 3)
    [] v \in SystemCalls -> Gate(FALSE, sys_int_handlers[v - INT_SYS_YIELD], 3)
    [] OTHER -> Gate(FALSE, default_int_handler, 0)

interrupt_descriptors(v) ==
  CASE v = INT_CLOCK -> Gate(FALSE, clock_int_handler, 0)
    [] v \in SystemCalls -> Gate(FALSE, sys_int_handlers[v - INT_SYS_YIELD], 3)
    [] OTHER -> Gate(FALSE, default_int_handler, 0)

-----------------------------------------------------------------------------
(* interrupt_controller_init(): the 8259As.                                 *)

IO_PIC1 == 32    \* 0x20
IO_PIC2 == 160   \* 0xA0
IRQ_SLAVE == 2

ICW4_defect == 1   \* without automatic end of interrupt

ICW4 == 3   \* of the master: x86 mode, automatic end of interrupt

Bit(data, b) == (data \div 2 ^ b) % 2 = 1

(***************************************************************************)
(* What an 8259A does with a byte.  At port 0 of its two, bit 4 marks      *)
(* ICW1, which clears the mask and the requests and announces ICW2 to ICW4 *)
(* at port 1 (ICW3 if cascaded, ICW4 if bit 0 says so); there, any other   *)
(* byte is the mask.  OCW2 and OCW3 change nothing here: those of the code *)
(* select what a read returns, and special mask mode, which only matters   *)
(* while a masked line is in service; with automatic EOI none ever is.     *)
(***************************************************************************)
Written(chip, a0, data) ==
  CASE a0 = 0 /\ Bit(data, 4) ->
         [chip EXCEPT !.awaits = <<"ICW2">> \o (IF Bit(data, 1) THEN <<>> ELSE <<"ICW3">>)
                                            \o (IF Bit(data, 0) THEN <<"ICW4">> ELSE <<>>),
                      !.mask = {}, !.irr = {}, !.isr = {}, !.aeoi = FALSE]
    [] a0 = 0 /\ ~Bit(data, 4) -> chip
    [] a0 = 1 /\ chip.awaits = <<>> -> [chip EXCEPT !.mask = {b \in 0 .. 7 : Bit(data, b)}]
    [] a0 = 1 /\ chip.awaits # <<>> ->
         [chip EXCEPT !.awaits = Tail(@),
                      !.offset = IF Head(chip.awaits) = "ICW2" THEN data ELSE @,
                      !.aeoi = IF Head(chip.awaits) = "ICW4" THEN Bit(data, 1) ELSE @]

(* The BIOS leaves its own offsets, everything unmasked, a tick pending. *)
BiosPic ==
  [port \in {IO_PIC1, IO_PIC2} |->
     [awaits |-> <<>>, mask |-> {}, irr |-> {0}, isr |-> {}, aeoi |-> FALSE,
      offset |-> IF port = IO_PIC1 THEN 8 ELSE 112]]

Outb(pics, w) ==
  [port \in DOMAIN pics |->
     IF w[1] \in {port, port + 1} THEN Written(pics[port], w[1] - port, w[2])
                                  ELSE pics[port]]

(* outb(port, data) in the order of the code; the writes to the timer are not here. *)
SetMasks(pics, master, slave) ==
  Outb(Outb(pics, <<IO_PIC1 + 1, master>>), <<IO_PIC2 + 1, slave>>)

CommandWords(pics, port, icw2, icw3, icw4) ==
  Outb(Outb(Outb(Outb(pics, <<port, 17>>), <<port + 1, icw2>>),
            <<port + 1, icw3>>), <<port + 1, icw4>>)

SelectReads(pics, port) == Outb(Outb(pics, <<port, 104>>), <<port, 10>>)

interrupt_controller_init ==
  LET masked == SetMasks(BiosPic, 255, 255)
      master == CommandWords(masked, IO_PIC1, INT_HARDWARE, 2 ^ IRQ_SLAVE, ICW4)
      slave  == CommandWords(master, IO_PIC2, INT_HARDWARE + 8, IRQ_SLAVE, 1)
      ready  == SelectReads(SelectReads(slave, IO_PIC1), IO_PIC2)
  IN  SetMasks(ready, IF allow_clock_interrupt THEN 254 ELSE 255, 255)

(* The lines of a controller that ask for service. *)
Asking(chip) ==
  {l \in chip.irr \ chip.mask : \A s \in chip.isr : l < s}

Highest(lines) == CHOOSE l \in lines : \A k \in lines : l <= k

Slave == pic[IO_PIC2]

(* The master sees the slave's request on its line IRQ_SLAVE. *)
Master ==
  [pic[IO_PIC1] EXCEPT !.irr = @ \cup (IF Asking(Slave) # {} THEN {IRQ_SLAVE} ELSE {})]

InterruptPending == Asking(Master) # {}

Vector ==
  LET line == Highest(Asking(Master))
  IN  IF line = IRQ_SLAVE THEN Slave.offset + Highest(Asking(Slave))
                          ELSE Master.offset + line

Acknowledged(chip, line) ==
  [chip EXCEPT !.irr = @ \ {line},
               !.isr = IF chip.aeoi THEN @ ELSE @ \cup {line}]

-----------------------------------------------------------------------------
(* The processor takes a trap. *)

UserMode(regs) == regs.cs = APP_CODE

WithoutIF(eflags) == IF Bit(eflags, 9) THEN eflags - EFLAGS_IF ELSE eflags

(* On a change of privilege the stack is the one of the task descriptor. *)
EnterGate(v, source, regs) ==
  LET gate == interrupt_descriptors(v)
  IN  /\ stack' = (IF v \in HasErrorCode /\ source # "irq" THEN <<0>> ELSE <<>>)
                  \o <<regs.eip, regs.cs, regs.eflags>>
                  \o (IF UserMode(regs) THEN <<regs.esp, regs.ss>> ELSE stack)
      /\ hw' = [regs EXCEPT !.cs = SEGSEL_KERN_CODE, !.eip = Garbage, !.esp = Garbage,
                            !.ss = IF UserMode(regs) THEN SEGSEL_KERN_DATA ELSE @,
                            !.eflags = IF gate.istrap THEN @ ELSE WithoutIF(@)]
      /\ trap' = [number |-> v, source |-> source]
      /\ phase' = "stub"
      /\ ctx' = IF UserMode(regs) THEN [ctx EXCEPT ![current] = regs] ELSE ctx
      /\ UNCHANGED loopvars

(* A line rises: 0 the timer, 1 the keyboard, 14 the drive's. *)
Raise(irq) ==
  LET port == IF irq < 8 THEN IO_PIC1 ELSE IO_PIC2
  IN  /\ pic' = [pic EXCEPT ![port].irr = @ \cup {irq % 8}]
      /\ UNCHANGED <<loopvars, hw, stack, phase, trap, ctx>>

Accepts == Bit(hw.eflags, 9) /\ InterruptPending

Interrupt ==
  /\ Accepts
  /\ pic' = [port \in DOMAIN pic |->
               CASE port = IO_PIC1 -> Acknowledged(Master, Highest(Asking(Master)))
                 [] port = IO_PIC2 ->
                      IF Highest(Asking(Master)) = IRQ_SLAVE
                        THEN Acknowledged(Slave, Highest(Asking(Slave))) ELSE Slave]
  /\ EnterGate(Vector, "irq", hw)

(* The registers after the application has computed. *)
Computed(file) == [r \in Registers |-> IF r \in DOMAIN file THEN file[r] ELSE hw[r]]

Compute(file) ==
  /\ phase = "user" /\ ~Accepts
  /\ hw' = Computed(file)
  /\ ctx' = [ctx EXCEPT ![current] = Computed(file)]
  /\ UNCHANGED <<loopvars, stack, phase, trap, pic>>

(* The application computes, then executes `int v'; a gate that it may not  *)
(* use answers with a general protection exception.                         *)
Instruction(v, file) ==
  /\ phase = "user" /\ ~Accepts
  /\ v = INT_SYS_USER3 => cursorpos < CELLS   \* bound: one screen
  /\ IF interrupt_descriptors(v).dpl = 3 THEN EnterGate(v, "int", Computed(file))
                                         ELSE EnterGate(13, "int", Computed(file))
  /\ UNCHANGED pic

Fault(v) ==
  /\ phase = "user" /\ ~Accepts
  /\ EnterGate(v, "fault", hw)
  /\ UNCHANGED pic

-----------------------------------------------------------------------------
(* schedos-int.S *)

Stub ==
  /\ phase = "stub" /\ ~Accepts
  /\ stack' = interrupt_descriptors(trap.number).pushes \o stack
  /\ phase' = "generic"
  /\ UNCHANGED <<loopvars, hw, trap, pic, ctx>>

(* The words pushal leaves, the last one pushed first. *)
Pushal ==
  <<hw.edi, hw.esi, hw.ebp, KERNEL_STACK_TOP - 4 * (Len(stack) + 2),
    hw.ebx, hw.edx, hw.ecx, hw.eax>>

Generic ==
  /\ phase = "generic" /\ ~Accepts
  /\ stack' = Pushal \o <<hw.es, hw.ds>> \o stack
  /\ hw' = [hw EXCEPT !.eax = SEGSEL_KERN_DATA, !.ds = SEGSEL_KERN_DATA,
                      !.es = SEGSEL_KERN_DATA]
  /\ phase' = "interrupt"
  /\ UNCHANGED <<loopvars, trap, pic, ctx>>

(* What interrupt() finds in the 17 words from the top of the stack; what   *)
(* lies beyond KERNEL_STACK_TOP is foreign.                                 *)
Frame ==
  [n \in DOMAIN registers_t |-> IF n <= Len(stack) THEN stack[n] ELSE Garbage]

(* C code changes all registers, and leaves the interrupt flag alone. *)
Clobber ==
  hw' = [r \in Registers |-> CASE r = "eflags" -> IF Bit(hw.eflags, 9) THEN EFLAGS_IF ELSE 0
                               [] r \in {"cs", "ss", "ds", "es"} -> hw[r]
                               [] OTHER -> Garbage]

(* The switch (reg->reg_intno) of interrupt(). *)
Dispatch(reg) ==
  LET intno == Field(reg, "intno")
      eax   == Field(reg, "eax")
  IN  \/ intno = INT_SYS_YIELD /\ CaseYield(reg)
      \/ intno = INT_SYS_EXIT /\ CaseExit(reg, eax)
      \/ intno = INT_SYS_USER1 /\ SysSetPriority(reg, eax) /\ UNCHANGED locals
      \/ intno = INT_SYS_USER2 /\ SysSetShare(reg, eax) /\ UNCHANGED locals
      \/ intno = INT_SYS_USER3 /\ SysPrint(reg, eax) /\ UNCHANGED locals
      \/ intno = INT_SYS_USER4 /\ SysGetTicket(reg) /\ UNCHANGED locals
      \/ intno = INT_CLOCK /\ CaseClock(reg)
      \/ intno \notin Handled /\ BadInterrupt(reg) /\ UNCHANGED locals

(* After a step of the C code: has run() been called? *)
Onward == phase' = IF mode' = "user" THEN "run" ELSE "kernel"

interrupt ==
  /\ phase = "interrupt" /\ ~Accepts
  /\ Dispatch(Frame)
  /\ Clobber
  /\ Onward
  /\ stack' = <<>>   \* interrupt() never returns: the next trap starts at the top
  /\ UNCHANGED <<trap, pic, ctx>>

Search(step) ==
  /\ phase = "kernel" /\ ~Accepts
  /\ step
  /\ Onward
  /\ UNCHANGED <<hw, stack, trap, pic, ctx>>

-----------------------------------------------------------------------------
(* run(): popal; popl %es; popl %ds; addl $8, %esp; iret *)

Popped_defect ==   \* popl %ds before popl %es
  <<"edi", "esi", "ebp", "skip", "ebx", "edx", "ecx", "eax", "ds", "es",
    "skip", "skip", "eip", "cs", "eflags", "esp", "ss">>

Popped ==
  <<"edi", "esi", "ebp", "skip", "ebx", "edx", "ecx", "eax", "es", "ds",
    "skip", "skip", "eip", "cs", "eflags", "esp", "ss">>

run ==
  /\ phase = "run" /\ ~Accepts
  /\ hw' = [r \in Registers |-> cpu[CHOOSE n \in DOMAIN Popped : Popped[n] = r]]
  /\ phase' = "user"
  /\ UNCHANGED <<loopvars, stack, trap, pic, ctx>>

-----------------------------------------------------------------------------

(***************************************************************************)
(* Registers and words of the stack are integers.  start() fills in every  *)
(* descriptor after special_registers_init().  An application cannot       *)
(* change %cs nor, at privilege level 3, the interrupt flag; those that    *)
(* pass an argument in %eax pass one of the sets of SchedOSKern.           *)
(***************************************************************************)
Arguments(v) ==
  CASE v = INT_SYS_EXIT  -> Statuses
    [] v = INT_SYS_USER1 -> Priorities
    [] v = INT_SYS_USER2 -> Shares
    [] v = INT_SYS_USER3 -> Chars
    [] OTHER             -> Int

ASSUME MachAssumption ==
  /\ Garbage \in Int
  /\ Regs = [DOMAIN registers_t -> Int]
  /\ \A p \in Apps : \E eip, esp \in {EntryRegs[p][n] : n \in DOMAIN registers_t} :
       EntryRegs[p] = SpecialRegisters(eip, esp)
  /\ \A a \in Algorithms :
       /\ Irqs[a] \subseteq 0 .. 15
       /\ \A p \in Apps : \A i \in Instructions[a][p] :
            /\ i.int \in 0 .. 255 /\ i.file.eax \in Arguments(i.int)
            /\ "eax" \in DOMAIN i.file /\ DOMAIN i.file \subseteq Registers \ {"cs"}
            /\ \A r \in DOMAIN i.file : i.file[r] \in Int
            /\ "eflags" \in DOMAIN i.file => Bit(i.file["eflags"], 9)

(* What the kernel has in mind for p when it starts. *)
Fresh(p) == [r \in Registers |-> Field(EntryRegs[p], r)]

MachInit ==
  /\ LoopInit
  /\ hw = [r \in Registers |-> CASE r = "eflags" -> 0   \* popfl in multiboot_start
                                 [] r = "cs" -> SEGSEL_KERN_CODE
                                 [] r \in {"ds", "es", "ss"} -> SEGSEL_KERN_DATA
                                 [] OTHER -> Garbage]
  /\ stack = <<>>
  /\ phase = "run"
  /\ trap = [number |-> 0, source |-> "none"]
  /\ pic = interrupt_controller_init
  /\ ctx = [p \in Apps |-> Fresh(p)]

Kernel ==
  \/ Stub \/ Generic \/ interrupt \/ run
  \/ Search(Iteration)
  \/ \E p \in Pids : Search(Draw(p))

User ==
  \/ \E i \in Instructions[scheduling_algorithm][current] :
       Compute(i.file) \/ Instruction(i.int, i.file)
  \/ \E v \in Exceptions : Fault(v)

MachNext == Kernel \/ User \/ Interrupt \/ \E irq \in Irqs[scheduling_algorithm] : Raise(irq)

(***************************************************************************)
(* The processor executes the kernel's code, takes an interrupt that it    *)
(* accepts before the next instruction, and the timer, if enabled, goes    *)
(* on.  An application may compute for ever: nothing is assumed of it.     *)
(* Algorithm 4: a ticket that could be drawn at any time is drawn.         *)
(***************************************************************************)
MachFairness ==
  /\ WF_machvars(Kernel)
  /\ WF_machvars(Interrupt)
  /\ WF_machvars(allow_clock_interrupt /\ Raise(0))
  /\ \A p \in Pids : WF_machvars(Search(Draw(p)))

MachSpec == MachInit /\ [][MachNext]_machvars /\ MachFairness

-----------------------------------------------------------------------------

(***************************************************************************)
(* The types.  In particular the kernel stack never holds more than one    *)
(* frame, and pid stays in the table during every search.                  *)
(***************************************************************************)
MachTypeOK ==
  /\ Abs!TypeOK
  /\ pid \in Pids
  /\ \A p \in Pids : Len(proc_array[p].p_registers) = Len(registers_t)
  /\ DOMAIN hw = Registers
  /\ phase \in Phases
  /\ Len(stack) <= Len(registers_t)
  /\ \A port \in DOMAIN pic : pic[port].awaits = <<>>

(***************************************************************************)
(* When a process has the processor, each register holds what the process  *)
(* saw last, or what special_registers_init() promised it: the pushes of   *)
(* processor, stub and generic handler, the layout of registers_t and the  *)
(* pops of run() agree, whoever else ran meanwhile.                        *)
(***************************************************************************)
RegistersSurvive == phase = "user" => hw = ctx[current]

(***************************************************************************)
(* "Note that we will never receive clock interrupts while in the kernel"  *)
(* (schedos-kern.c:150), nor any other: only applications are interrupted. *)
(***************************************************************************)
KernelUninterrupted == [][phase' = "stub" /\ stack' # stack => phase = "user"]_machvars

(***************************************************************************)
(* interrupt() switches on the number of the trap that happened, and its   *)
(* default case gets all that have no case of their own, although their    *)
(* stub pushes no number; only the clock is taken for the clock: neither   *)
(* `int 32' of an application nor another device enters that case.         *)
(***************************************************************************)
DispatchRight ==
  phase = "interrupt" =>
    LET intno == Field(Frame, "intno")
    IN  /\ intno \in Handled => intno = trap.number
        /\ trap.number \in Handled => intno = trap.number
        /\ (trap.source = "irq") <=> (trap.number = INT_CLOCK)
        /\ trap.source = "irq" => allow_clock_interrupt

(* p may expect the processor from algorithms 0 and 3. *)
Entitled(p) ==
  /\ p \in Runnable(proc_array)
  /\ \/ scheduling_algorithm = 0
     \/ scheduling_algorithm = 3 /\ proc_array[p].p_share > 0

(***************************************************************************)
(* With the clock, however long the others compute, every process entitled *)
(* to the processor gets it (unless the machine has stopped in a trap that *)
(* nothing handles), and schedule() always comes to an end if it can: no   *)
(* interrupt is left unacknowledged, none is lost for ever.                *)
(***************************************************************************)
EveryoneRuns ==
  allow_clock_interrupt =>
    /\ \A p \in Apps :
         Entitled(p) ~> \/ ~Entitled(p)
                        \/ phase = "user" /\ current = p
                        \/ mode = "hang"
    /\ mode = "schedule" /\ ~Doomed ~> mode # "schedule"
=============================================================================
