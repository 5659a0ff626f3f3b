----------------------------- MODULE MCMachine -----------------------------
(* Small instances of SchedOSMachine.  After its first instructions every  *)
(* register of a process holds a value of its own, except %ds, %cs, %ss.   *)
EXTENDS SchedOSMachine

MCRegs == [1 .. 17 -> Int]

MCGarbage == -1   \* none of the values below

ESP(p) == 2097152 + p * 1048576
EIP(p) == 2097152 + (p - 1) * 1048576

MCEntryRegs ==
  [p \in Pids |-> IF p = 0 THEN [n \in 1 .. 17 |-> 0] ELSE SpecialRegisters(EIP(p), ESP(p))]

File(p, eax) ==
  [edi |-> 100 * p + 1, esi |-> 100 * p + 2, ebp |-> 100 * p + 3, ebx |-> 100 * p + 4,
   edx |-> 100 * p + 5, ecx |-> 100 * p + 6, eax |-> eax, es |-> 0,
   eip |-> EIP(p) + 16, esp |-> ESP(p) - 16, eflags |-> EFLAGS_IF + p]

(* The timer; the keyboard and the drive, with algorithm 0. *)
MCIrqs == [a \in 0 .. 4 |-> IF a = 0 THEN {0, 1, 14} ELSE {0}]

Ints(numbers, p, arguments) ==
  {[int |-> v, file |-> File(p, x)] : v \in numbers, x \in arguments}

Leaving == {INT_SYS_YIELD, INT_SYS_EXIT}

(* Under each algorithm, the calls that matter to it; under algorithm 0 all,  *)
(* numbers without a case, and numbers whose gates are not for applications.  *)
MCInstructions ==
  [a \in 0 .. 4 |->
     [p \in 0 .. NPROCS |->
        CASE a = 0 -> Ints(Leaving \cup {INT_SYS_USER3, 54, 57, INT_CLOCK, 33, 128}, p, {7})
          [] a = 1 -> Ints(Leaving, p, {0})
          [] a = 2 -> Ints(Leaving, p, {0}) \cup Ints({INT_SYS_USER1}, p, {1, 2})
          [] a = 3 -> Ints(Leaving, p, {0}) \cup Ints({INT_SYS_USER2}, p, {0, 1, 2})
          [] a = 4 -> Ints(Leaving \cup {INT_SYS_USER4}, p, {0})]]
=============================================================================
