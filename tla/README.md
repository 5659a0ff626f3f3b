# A verification of SchedOS (WeensyOS 2)

SchedOS is a teaching operating system for one x86 processor: a boot loader, a
kernel with a process table and five scheduling algorithms, and four
applications that print their character 320 times and exit. This directory
holds a model of it in TLA+: what TLC checks on small instances, and what TLAPS
proves for every value of the parameters.

Paths below are relative to `src/`; module names are files of this directory.

## 1. Inventory

| Component | State it keeps | Operations |
|---|---|---|
| Kernel (`schedos-kern.c`, `schedos-kern.h`) | `proc_array`, `current`, `tickets`, `num_tickets`, `scheduling_algorithm`, and `cursorpos`, `lock`, which it shares with the applications | `start`, `interrupt` (yield, exit, user1 to user4, clock, anything else), `schedule`, `get_winner` |
| Processor support (`schedos-x86.c`, `schedos-int.S`) | descriptor tables, interrupt controller, timer | trap entry, `run`, `special_registers_init`, `interrupt_controller_init` |
| Applications (`schedos-1.c` to `-4.c`, `schedos-app.h`) | their registers (loop counter, copy of the cursor), the console, the lock | the main loop; the system call stubs |
| Atomic operations (`x86sync.h`) | the word they are applied to | `atomic_swap`, `compare_and_swap`, `fetch_and_add` |
| Console output (`lib.c`) | console memory | `console_printf`, `console_vprintf`, `fill_numbuf`, `console_putc` |
| Random numbers (`lib.c`) | 256 seeds, the selected stream | `Random`, `PlantSeeds`, `PutSeed`, `GetSeed`, `SelectStream`, `TestRandom` |
| Memory and strings (`lib.c`) | none | `memcpy`, `memmove`, `memset`, `strlen`, `strnlen` |
| Program loader (`schedos-loader.c`) | memory of the applications | `program_loader`, `copyseg` |
| Boot loader (`bootstart.S`, `schedos-boot.c`) | memory of the kernel, the IDE drive | `bootmain`, `readseg`, `readsect`, `waitdisk` |
| Image tool (`mkbootdisk.c`) | the image file | `diskwrite`, `main` |

**How they interact.** `mkbootdisk` lays out the disk; the boot loader reads
the kernel from it; the kernel calls `program_loader` for each application and
then `run`s the first. From then on applications enter the kernel by `int`
instructions and, if it is enabled, by the clock; the kernel leaves by `run`,
which never returns. The kernel has no concurrency inside (all gates are
interrupt gates), the applications have a lot: they share `cursorpos`, the
console and `lock`, and a clock interrupt can come between any two of their
instructions. `get_winner` uses the random numbers.

**What is hard, and what makes each component correct.**

* *Kernel.* Five algorithms over one table, each called after any system call
  of a process that may have exited, changed its priority or share, or taken
  tickets. Correct: only runnable processes get the processor; the search for
  one ends when there is one; nobody waits longer than the algorithm allows;
  descriptors of exited processes stay; `tickets` does not overflow.
* *Applications.* A three-instruction update of shared data under preemption,
  a spin lock on a single processor, and a cursor nobody checks. Correct: no
  character is lost, nothing is written outside the console, all finish.
* *Kernel and applications.* Registers must survive every context switch; the
  order of characters follows from the algorithm; the lock and strict
  priorities do not go together.
* *Console output.* A cursor that wraps, padding that depends on five flags.
* *Random numbers.* Products beyond 32 bits, a zero seed that never changes,
  streams that must not overlap, mutual calls of `PlantSeeds` and
  `SelectStream`.
* *Processor support.* Five programs must agree on one frame of 17 words: the
  processor, a stub, `_generic_int_handler`, `registers_t` and `run()`.
  Correct: every register survives a trap, the kernel is never interrupted (it
  has one stack and no lock), and the timer never falls silent.
* *Memory and strings.* Overlapping blocks, buffers without a `'\0'`, addresses
  at the very end of memory.
* *Loaders and image.* Short writes; data that the drive has not delivered yet;
  whole sectors read for segments that begin and end anywhere; page rounding.

Every hazard, with its line and the properties that watch it, is listed under
`hazards` in `PROJECT.json`.

## 2. Modules

```
SchedOSKern ----> SchedOSFair (history of who overtook whom) ----> MCFair
  |  |  ^
  |  |  +-- refinement -- SchedOSLoop ----> SchedOSMachine   ----> MCMachine
  |  +--INSTANCE--+
  |               SchedOS (one processor, clock)             ----> MCOS
  |  +--INSTANCE--+  |
  |  |               +----> SchedOSLottery                   ----> MCLottery
SchedOSApp           |           |INSTANCE                   ----> MCApp
SchedOSRandom <------|-----------+                           ----> MCRandom
                     +-- refinement to SchedOSApp
SchedOSConsole ----> MCConsole          SchedOSMemory
SchedOSDisk ----> SchedOSBoot           (image, then boot)   ----> MCBoot
```

Each `...Proofs` module extends the modules it is about: `SchedOSMachineProofs`
the machine, `SchedOSLoop` and `SchedOSFair`; `SchedOSLibProofs` the console and
the memory functions; `SchedOSBootProofs` the image and the loaders.
`SchedOSNaturals` holds the facts about numbers that several of them use.

**A convention.** An operator `X_defect` is `X` with a plausible bug: a dropped
test, an off-by-one, a missing reset. No specification uses it. For each
property, `PROJECT.json` names an operator whose replacement by its defective
form makes TLC report that property violated, so that no property holds merely
because the model cannot break it.

### SchedOSKern: the kernel

An open system: any process may make any system call, with any argument, at any
time. One trap, from the saving of registers to the `iret`, is one action,
`Trap(reg)`, because interrupts are off in the kernel. This is an assumption
only here: `SchedOSMachine` takes a trap apart and shows it.

| Code | Model |
|---|---|
| `interrupt()`, cases yield, exit, user1, user2, user3, user4, clock | `SysYield`, `SysExit`, `SysSetPriority`, `SysSetShare`, `SysPrint`, `SysGetTicket`, `Clock` |
| `default:` of `interrupt()` (loops for ever) | `BadInterrupt` |
| `schedule()`, one branch per algorithm | `RoundRobin`, `InOrder`, `StrictPriority`, `ProportionalShare`, `Lottery` |
| `run()` | `Run`; `RunOutside` for the descriptor behind the table |
| a loop in `schedule()` that finds nobody | `mode = "spin"` |
| the saved registers | `p_registers`, an element of `Regs` |

The `while (1)` loops of `schedule()` are closed forms: "the first of a set
going round the ring from `current`", with the side effects of the laps
(`ClearTime`: algorithm 3 resets `p_time_passed` of whoever it passes over).
`get_winner()` is any ticket. `scheduling_algorithm` is an assignment in
`start()` that its author edits, so `Init` chooses it and it then stays; the
branch for values other than 0 to 4 is excluded by `KernAssumption`. Counters
are unbounded integers: `p_time_passed` is only incremented while it is below
the share, and `p_priority`, `p_share` are only compared.

### SchedOSLoop: the loops of schedule()

`SchedOSKern` says whom `schedule()` picks; here it searches as the code does,
one iteration per step, with the local `pid` and `lowest_priority` (`ScanStep`,
`InOrderStep`, `PriorityStep`, `ShareStep`, `DrawStep`). `SchedOSKern` is the
abstract specification. In the mapping, a search that will end has not begun
(`AbsMode` is `"user"`, `AbsProcs` the table `before` the trap) and takes effect
with its last iteration; a search that cannot end (`Doomed`) is `"spin"` from
its first. `ImplementsKern` states that mapping step by step, with the registers
that the trap really saved.

### SchedOSMachine: processor, stubs, interrupt controller

| Code | Model |
|---|---|
| `segments_init()`, `SETGATE`; the handlers of `schedos-int.S:24-96` | `interrupt_descriptors`, each with the words its stub pushes |
| `interrupt_controller_init()` | `SetMasks`, `CommandWords`, `SelectReads`, byte by byte, into a model of an 8259A (`Outb`, `Written`) |
| what the processor does at an `int`, a fault, an interrupt | `EnterGate`, `Accepts`, `Interrupt` |
| a stub; `_generic_int_handler`; the head of `interrupt()` | `Stub`, `Generic`, `interrupt` |
| `registers_t`; the pops of `run()` | `registers_t`, `Popped`: two lists that must fit |
| `special_registers_init()` | `SpecialRegisters` |

An interrupt may arrive before any step if the processor accepts it then, so
that "interrupts are off in the kernel" follows from gates and flags and is
not assumed. What C code leaves in a register is `Garbage`. `ctx` is a history
variable: the registers a process saw last. An application changes its registers
between traps (`Compute`) and before an `int` (`Instruction`), so that a tick
finds registers that no system call has saved.

### SchedOSFair: who overtakes whom

Adds a history variable `bypass[p][q]`: how often `q` got the processor since
`p`, which waits and has a claim to it, last did. It constrains no action.

### SchedOSApp: the applications

One step per machine instruction (lock swap, load cursor, store character, store
cursor, unlock) or system call; every application has its own processor. Both
values of the macro `SYNC_METHOD` are modelled. This is the abstract
specification of the next module.

### SchedOS: the running system

The instruction at `cpu` executes, an `int` instruction enters `SchedOSKern`
with the registers behind it, and `Tick` enters it between any two
instructions. `VirtualRegs` is the refinement mapping to `SchedOSApp`: the
processor's registers for the current process, the saved ones for the others.

### SchedOSLottery: the lottery as it is drawn

`SchedOS` without the clock, with `get_winner()` over the generator of
`SchedOSRandom` (an instance with stream 0 planted with 1, as `start()` does).
`Scaled` is `(int) (Random()*10000)` in whole numbers. Draws won by processes
that have exited change only the seed (`Redraw`). Under algorithm 4 the system has
one behaviour, that of the shipped binary.

### SchedOSRandom

The real constants (2^31-1, 48271, 22925). The loops of `PlantSeeds` and
`TestRandom` take a step per iteration. A result of `Random()` is represented by
the seed it is computed from. `GetSeed` only reads a seed; the places that call
it read the variable.

### SchedOSConsole

The format is the sequence of items the parser finds in it; one action turns an
item into pending characters, `console_putc` puts one character. `tape`, a
history variable, is what has been printed as if the screen had no end.
`ConsoleDirectives` says what a directive is: flags, width, precision and
argument may be anything, but only `%d` has a negative number. `FieldsFilled`
speaks of all conversions and all precisions, of the numbers and strings that
a precision cuts off (`lib.c:213`) as well as of those it does not.

### SchedOSMemory

Memory is a row of bytes. The functions are called one after the other with any
arguments that a caller may pass (`Legal`: blocks in memory, no forward overlap
for `memcpy`, a `'\0'` for `strlen`); each reads or writes one byte per step.
`Promised`, `IsLength` and `MayRead` are the definitions of the standard library.

### SchedOSDisk, SchedOSBoot

`SchedOSDisk` is `mkbootdisk`; a `write()` may be short, fail, or be interrupted,
and a file may not open. `SchedOSBoot` extends it: the disk it made is started.
The drive is an actor of its own, so that it takes any time. A cell of memory is
a byte, except that an ELF header with its program headers is one cell.

Neither loader looks where it writes; that it does no harm is the linker's work.
`LinkerAssumption` states it, of every disk that `mkbootdisk` may make
(`Disks`): a segment fits into memory and is as far from a sector boundary on
the disk as in memory; what `readseg()` writes for one segment of the kernel
(`Reaches`, whole sectors) meets an earlier one only where both have the same
bytes of the file, and never `ELFHDR`; what `copyseg()` writes for a program
(`Copied`, from the beginning of the page) meets neither the kernel nor another
program. `GNUmakefile` sees to it: the kernel is linked at 0x100000 (line 59),
the programs at 0x200000 to 0x500000 (lines 67, 74, 81, 88), far apart, and
`ELFHDR` is 0x10000 (`schedos-boot.c:48`). The linked files in `obj/` satisfy
it: the kernel has text at 0x100000 and data at 0x101000, with file offsets
0x1000 and 0x2000. `Aligned`, that segments of programs begin with a page, is a
separate condition, because `copyseg()` needs it and does not say so.

## 3. What TLC checks

| Run | Instance | Distinct states |
|---|---|---|
| `kern` | 3 processes, all algorithms, priorities 1..3, shares 0..3, 4 tickets, clock on | 307,958 |
| `app` | 3 applications, 2 characters each, both methods, console of exactly 6 cells | 2,780 |
| `os_noclock` | the 4 shipped applications with their priorities and shares, the shipped 320 characters each, all algorithms, the shipped generator, spin lock, clock off | 38,585 |
| `os_clock` | 2 applications, 2 characters, all algorithms, both methods, clock on | 10,648 |
| `random` | real constants, 4 streams, up to 3 calls in any order, one may be `TestRandom` with its 10,000 draws | 70,698 |
| `console` | 2 lines of 3 columns, every starting cursor, 13 cells printed or more | 2,108,886 |
| `machine` | 2 processes and the empty slot, all algorithms, timer, keyboard and drive, exceptions, interrupts before any step | 168,884 |
| `memory` | 5 bytes of 3 values, any sequence of calls | 206,027 |
| `boot` | sectors of 4 cells, pages of 2 sectors, 7 argument lists, 3 boot blocks | 818 |

* `kern`. `RunsRunnable`, `SpinsOnlyWhenStuck`, `RunsToCompletion`,
  `ExitIsFinal`, and the bounds on overtaking `RoundRobinBypass`,
  `PriorityBypass`, `ShareBypass`, `ShareHonoured`. Three processes are what it
  takes for one to wait, one to run and one to overtake; shares up to 3 let a
  turn last several ticks and include the share 0; 4 tickets are more than there
  are processes, so that the table fills up and one process can hold two.
  *State constraint* (`OnlyWhatMatters`): processes set only what the algorithm
  in use reads; the other calls change fields that no test looks at.
* `app`. `MutualExclusion`, `NothingLost`, `CursorInConsole`. The console has no
  cell to spare, so one character too many is an error. The applications differ
  only in their character; hence the symmetry.
* `os_noclock`. The order of characters that `answers.txt` argues with:
  `PrintInTurn`, `PrintInOrder`, `UrgentFirst`, `PrintInProportion`; and
  `EveryAppFinishes`, for algorithm 4 with the numbers that the generator really
  yields, whatever tickets the exited applications hold. No bound: these are the
  applications as shipped.
* `os_clock`. `VirtualProcessors` (the refinement), `EveryoneInTheDraw`,
  `FinishesUnlessInverted`. Two applications interleave at every instruction;
  the priorities 5 and 1 contain the inversion.
* `random`. `UnitInterval`, `IsLehmer`, `StreamsApart` (planted streams are
  8,367,782 draws apart), `TestSucceeds` (the test's verdict is positive).
  Seeds include those `PutSeed` must replace: 0, -5, MODULUS.
* `console`. `ShowsTape` (the screen is the end of the tape) and `FieldsFilled`.
  All conversions occur when the first two cells are printed, two that stand for
  the lengths later, and from the second line on newlines but no other literals
  or colours. A screen has six cells, so that a run of 13 wraps twice, the first
  time within a conversion, between two, or in a newline.
* `machine`. `RegistersSurvive`, `DispatchRight` (the number that `interrupt()`
  switches on is that of the trap, although `default_int_handler` pushes a word
  less; a process cannot forge the clock with `int 32`), `KernelUninterrupted`,
  `ImplementsKern`, `EveryoneRuns`. Each process has values of its own in its
  registers, so that a word in the wrong place or of the wrong process is seen.
  `MCInstructions` gives each algorithm the calls that matter to it, and
  algorithm 0 all, with numbers that have no case (54, 57), no gate for programs
  (32, 33, 128), and the masked lines 1 and 14. Two processes with `NPROCS = 3`
  are enough for a ring with a slot to skip; `MAX_TICKETS = 2` fills the table;
  `CELLS = 1` bounds `sys_print`.
* `memory`. `StandardLibrary`. Five bytes hold two blocks of 3 that overlap by
  one in either direction; three values tell `'\0'` and two others apart.
* `boot`. `DiskImage`, `SectorCount`, `KernelLoaded`, `ProgramsLoaded`. The
  kernel's two segments share a sector and the second contains the program
  images; one program has a bss; other disks hold no kernel, a broken program,
  or reach or miss their `@n`.

`CHECK_DEADLOCK FALSE` everywhere: the system stops for good in `spin`, `hang`,
`wild`, after the last exit, when a tool exits, and at the bound of a run.

### Disagreements found

Each is a run that TLC must end with a counterexample.

| Run | What it shows |
|---|---|
| `os_inorder` | Algorithm 1 runs `proc_array[NPROCS]` after the last exit (`schedos-kern.c:252`). |
| `os_inversion` | Algorithm 2, clock and spin lock: an urgent application spins for ever for the lock of a preempted one. `FinishesUnlessInverted` says that this combination is the only bad one. |
| `boot_unaligned` | `copyseg` displaces a segment that does not begin on a page (`schedos-loader.c:77`). The shipped programs do not have one. |

Two smaller ones are part of properties that hold. "If there are no runnable
processes, it spins forever" (`schedos-kern.c:223`): algorithm 3 also spins when
all runnable processes have a share of 0 or less, algorithm 4 when none of them
holds a ticket; `SpinsOnlyWhenStuck` says exactly when `schedule()` spins. And
a precision below the number of digits cuts a number off, which C's `printf` does
not do: `%.2d` prints -345 as -34 (`lib.c:213`); `FieldsFilled` says how much of
it is printed.

### Fairness

`SchedOSLottery` assumes that the processor goes on (`WF(LotteryNext)`).

`SchedOSMachine`, for `EveryoneRuns`, that the processor goes on while it is in
the kernel (`WF(Kernel)`), takes an interrupt that it accepts before its next
instruction (`WF(Interrupt)`), and that the timer goes on (`WF(Raise(0))`, if the
clock is enabled). Nothing is assumed of applications: they may compute for
ever. A ticket that could be drawn from some moment on is drawn
(`WF(Search(Draw(p)))`).

`SchedOS`, in the run `os_clock`:

* `SF(current = p /\ Execute)`: a process that is dispatched again and again
  executes instructions. A time slice (1/HZ second) is far longer than an
  instruction; without this assumption the clock could strike before the first
  instruction each time.
* `WF(Tick)`: the timer, if enabled, keeps interrupting.
* `FairDraw(p)`, algorithm 4 only: who can win some of infinitely many draws
  does. The generator has full period, so each value comes up again and again;
  that the moments of drawing, which depend on the clock, do not conspire with
  it is an idealisation. Without the clock `SchedOSLottery` does without it.

`SchedOSKern` needs none for its searches, which are part of an atomic trap;
`ImplementsKern` with `EveryoneRuns` shows that the loops do end.

## 4. What TLAPS proves

For every number of processes and applications, capacity of the ticket table,
argument of a system call and length of a run; every safety property that a
passing run checks is among the theorems. The invariants named below were
checked by TLC on the instances of section 3 before they were proved, unless
they quantify over an infinite set (`PlaceInv`).

* **Kernel** (`SchedOSKernProofs`): `TypeCorrect`, `OnlyRunnableRuns`,
  `SearchSucceeds`, `InOrderOfPids`, `ExitedForGood`. The invariant is
  `IInv == TypeOK /\ RunsRunnable /\ SpinsOnlyWhenStuck /\ RunsToCompletion`.
  The parts need each other: algorithm 1 tests nothing after `pid++`, so that it
  runs a runnable process only because those behind the current one have not
  started. The central lemma, `ScheduleOutcome`, says once for all five
  algorithms what `schedule()` may do to the table and whom it may run;
  `TrapIInv` and `TrapRegisters` say it of a whole trap, for the modules above.
* **Overtaking** (`SchedOSMachineProofs`): `NobodyOvertakesTwice` for round robin,
  `EqualsAlternate` for strict priority, `SharesBound` and `WholeShares` for
  proportional share. `RingInv` says that those who overtook a waiting process
  stand at least as far behind it on the ring as the current one; the next to
  run is nearer than all. `UrgentInv` adds that whoever was overtaken by an equal
  is among the most urgent of those who wait, so that it is passed by only in
  favour of the current process; `ShareInv` that whoever waits has a fresh share
  (`FreshShares`), so that the scan goes past it only if it has none.
* **Loops of `schedule()`** (`SchedOSMachineProofs`): `LoopsImplementKern`, the
  refinement `ImplementsKern`. `LoopInv` says of the position of the search
  (`Searching`) that nobody between `current` and `pid` on the ring could have
  been picked, that algorithm 2's `lowest_priority` is `INT_MAX` or the priority
  of someone runnable and not above that of those already looked at, and that
  algorithm 3 has cleared the times of exactly those it passed over.
* **Machine** (`SchedOSMachineProofs`): `RegistersKept`, `RightDispatch`,
  `KernelLeftAlone`, `MachTypeCorrect`, and that the machine implements
  `SchedOSLoop` and so `SchedOSKern` (`MachineImplementsLoops`,
  `MachineImplementsKern`): the atomic trap of the modules above is not an
  assumption. `MachInv` follows the registers of a process through a trap: in
  the processor, on the kernel stack where each word lies where `registers_t`
  expects it (`Laid`), in the descriptor (`Match`), and back. The interrupt flag
  is clear outside `phase = "user"` (`ContextInv`) because every gate clears it;
  `PicInv` says what the masks and command words left in the controllers.
* **Applications** (`SchedOSAppProofs`): `LockExcludes`, `NoCharacterLost`,
  `CursorStays`. `NothingLost` is not inductive: `LocalInv` adds that the copy
  of the cursor in a register is current while its owner holds the lock, and
  `Counting` that the cells behind the cursor are as many as the characters
  printed, which bounds the cursor (assumption: the console has room for all).
  `CharStep` says what one step does to the console.
* **The running system** (`SchedOSProofs`):
  * `ProcessorsAreVirtual`, the refinement `SchedOS => SchedOSApp!Spec`, and with
    it `ConsoleShared`: the properties proved of the applications hold of the
    system. The invariant `OSInv` is the kernel's and that slot 0 stays empty;
    `TrapRegisters` gives that a trap leaves each application the registers it
    had, whoever runs next.
  * `NobodyLeftOut` (`EveryoneInTheDraw`): nobody takes two tickets (`DrawInv`),
    so as many tickets as applications are one for each (pigeonhole).
  * The orders of characters that `answers.txt` argues with, each by an
    invariant that relates the loop counters of all applications to the cursor.
    `InPidOrder` (`InOrderInv`: those before `current` have printed all, those
    behind it nothing) holds for both methods, with and without the clock.
    `MostUrgentFirst` (`UrgentInv`: nobody is ahead of whoever is in its second
    iteration) holds with and without the clock. `RoundsInTurn` (`Round`: those
    before `current` have completed the round, those behind it have not begun
    it) and `SharesInProportion` (`Lap`: the same for whole shares, with
    `p_time_passed` the turns of the current lap) are about the system without
    the clock.
    Their hypotheses are what `answers.txt` takes for granted and the shipped
    applications satisfy: `SpinLockOnly` (`sys_yield` after each character, the
    spin lock as method), `PrioritiesPositive` (no priority below the 1 that
    `start()` gives), `SharesPositive`. Without the last the property is not
    meant: an application with no share is passed by.
  * The draws: `DrawsATicket` says that `get_winner()` stays in the table
    (`SeedInv`, from the lemmas about the generator), and `OrdersAsDrawn` that
    the orders hold of `SchedOSLottery` as well, whose steps are steps of
    `SchedOS` or change only the seed.
* **Random numbers** (`SchedOSRandomProofs`):
  * `DrawsInUnitInterval` and `DrawsAreLehmerSteps`: for each of the 2^31-2
    proper seeds the split computation is the exact product modulo 2^31-1.
    `IInv` says that stream 0 is always proper, the others from when they are
    planted, and that no other is selected before.
  * `DrawsAreLehmer` (`IsLehmer`): the arithmetic modulo 2^31-1 by which the
    runs check the generator, products by doubling (`Times`) and powers by
    squaring (`Power`), is what it is taken for (`TimesIsProduct`,
    `PowerEquation`), and the code agrees with it on every seed.
  * `StreamsStayApart`: the constant 22925 of `PlantSeeds()` is the 8,367,782nd
    power of 48271 (`PowerOfStreams`), so that a planted stream is as many draws
    ahead of the one before it, whatever the seed and the sequence of calls.
  * `TestAlwaysSucceeds`: the value that `TestRandom()` compares with is the
    10,000th power (`PowerOfTest`). `TestInv` says that its j-th draw is the
    j-th power of 48271 (`Drawn`), and what is planted when it comes to the
    second comparison.
* **Memory and strings** (`SchedOSLibProofs`): `LibraryIsStandard`. The
  invariant says how far the loop has come (`Pointers`, `Counted`) and that the
  cells behind it hold what was promised, the others what they held before
  (`Progress`). The argument is that the byte about to be read has not been
  overwritten: `CopyLegal` for the copies from the front, the direction of the
  loop for the others; `StringLegal` says that the strings never leave memory.
* **Console** (`SchedOSLibProofs`): `ScreenShowsTape` for a console of any size
  and `ConversionsFillFields` for any directive. `ShowsTape` is nearly inductive
  (`ConsoleInv`); what takes an argument is that a newline ends the line of the
  tape where it ends that of the screen (the console has whole lines), and that
  the cells it overwrites are those that are now too far back to be shown.
  `NumbufSeq` says that `fill_numbuf` returns the numeral of its argument, by an
  induction along the quotients; `DigitsDenoteNumber` says so of the digits of
  `%d`, `%u`, `%x` and `%X`. `Shown` says how much of the data a precision
  leaves, `Filled` that the blanks, zeros, sign and data add up to the field.
* **Image** (`SchedOSBootProofs`): `DiskIsImage` and `SectorsCounted`, for any
  files and arguments and however `write()` splits its data. `Written`, what is
  on the disk together with what is about to be written, is related to the image
  of the arguments already done (`Parts`, the values of the recursive function
  in `ImageOf`): equal to it, or followed by the zeros that fill up to the
  sector of an `@n` or to the end (`PlaceInv`); `CountInv` relates it to
  `nsectors` and `pos`. A tool that has failed has written a beginning of the
  image.
* **Loaders** (`SchedOSBootProofs`):
  * `BootTypeCorrect`: among the types, that the boot loader asks the drive for
    no sector that is not on the disk.
  * `KernelInPlace`. `BootInv` says that what the drive offers is the sector
    that was asked for (`DriveInv`); that memory is as in the file from the
    first sector of the segment to where `readseg()` has come, with the sector
    number abreast of the address (`Progress`); and that the segments read
    before still stand (`KernelStands`), which is where `LinkerAssumption` is
    needed: a sector read twice brings the same bytes, and no bss that has been
    cleared.
  * `ProgramsInPlace` and `CopiesAsDocumented`, both under `Aligned`: each
    program stands as in its image (`ProgramsPlaced`), and `copyseg()` does what
    its comment says. The second is the property that `boot_unaligned` violates,
    so that alignment is exactly what is missing there.

Assumptions are the named `ASSUME`s of the modules: at least one process (two
slots in `SchedOS`: slot 0 is empty), a non-negative capacity, room on the
console for every character (`ConsoleAssumption`, `OSAssumption`), priorities
that are `int`s and so at most `INT_MAX` (`LoopAssumption`), registers that hold
integers, entry points as `special_registers_init()` leaves them and
instructions that do not clear the interrupt flag, which a program is not
allowed to (`MachAssumption`), `STREAMS` a power of two, 0 a byte; files and
arguments of `mkbootdisk` are finite sequences (`DiskAssumption`), a sector is
longer than the signature, a page a number of sectors, and the image long enough
for the first page of the kernel (`BootAssumption`); directives and the linker's
work as in section 2 (`ConsoleDirectives`, `LinkerAssumption`). TLC evaluates
all of them on the instances. `Aligned`, `SpinLockOnly`, `PrioritiesPositive`
and `SharesPositive` are hypotheses of the theorems that need them.

*Induction.* The library's induction theorems take an operator as a parameter,
which the provers cannot instantiate. `SchedOSNaturals` derives what is needed
from `WFMin`, which does without: a set that has 0 and with a number the next is
`Nat` (`SetInduction`), and a function given by its value at a quotient or at
the number before exists (`Recursion`, `RecursionByQuotient`). Since the
recursive functions of the model are functions (`f[n \in Nat] == ...`) and not
`RECURSIVE` operators, this is enough to prove of `fill_numbuf`, `ImageOf`,
`Times` and `Power` the equations they are defined by.

**Only model-checked**: liveness, `EveryoneRuns`, `EveryAppFinishes` and
`FinishesUnlessInverted`: the prover has no `ENABLED`, so that nothing can be
proved from fairness.

## 5. Not modelled

* *The divisor of the timer* (`schedos-x86.c`, `TIMER_DIV`): a tick may come at
  any time, which includes every rate.
* *The switch to protected mode* (`bootstart.S`), *the global descriptor table*:
  straight lines of processor commands and constants; the latter appear as the
  values of the segment registers.
* *`console_read_digit`*: nothing calls it. *`compare_and_swap`,
  `fetch_and_add`*: not used by the program.
* *The entry point that `program_loader` stores* (`schedos-loader.c:66`): the
  processes' entry points are a constant. *Errors of `fread` in `mkbootdisk`*
  (`mkbootdisk.c:139`), which it takes for the end of the file.
* *`interrupt()` without a `break`*: `schedule()` and `run()` do not return, so
  that a case never falls through to the next; the model has one action per case.
* *The first branch of `program_loader` (an identifier outside the table), an
  unknown algorithm in `schedule()`*: `start()` makes neither possible.
* *Inline assembly of one instruction* (`x86.h`), *types and constants*
  (`types.h`, `elf.h`): they appear where they are used.
* *Build files, disassemblies in `obj/`, the archive*.

## 6. Plan

Done, in this order: kernel, fairness of the kernel, applications, the running
system, random numbers, console, image and loaders; the loops of `schedule()`
and the machine below the kernel, the lottery with its generator, the memory and
string functions. Every component whose code has a behaviour of its own has a
module.

The proofs cover every property of the passing runs that is not about liveness,
for every value of the constants. What is left is outside the prover's reach.
