------------------------ MODULE SchedOSMachineProofs ------------------------
(***************************************************************************)
(* Proofs about the kernel at work, for any number of processes: the loops *)
(* of schedule() (SchedOSLoop), the way of a trap from the processor to    *)
(* interrupt() and back (SchedOSMachine), and how long schedule() keeps a  *)
(* process waiting (SchedOSFair).  Each part adds to the steps of          *)
(* SchedOSKern, and rests on the theorems about them.                      *)
(***************************************************************************)
EXTENDS SchedOSMachine, SchedOSFair, SchedOSKernProofs, SequenceTheorems

-----------------------------------------------------------------------------
(***************************************************************************)
(* The loops of schedule() find the process that SchedOSKern describes in  *)
(* one formula.                                                            *)
(*                                                                         *)
(* LoopInv says what a loop in progress has established: it was called     *)
(* with the table that the trap left, Called, and whoever it has passed    *)
(* was not to be picked.  Algorithm 3 goes round twice; its second lap     *)
(* finds the table with the times of all runnable processes cleared.       *)
(***************************************************************************)

(* The table schedule() was called with: its loops change nothing but times. *)
Called ==
  [p \in Pids |-> [proc_array[p] EXCEPT !.p_time_passed = before[p].p_time_passed]]

(* Which is the table at the trap with the registers saved, or the one that  *)
(* sys_exit() makes of that.                                                 *)
TrapLeft(procs) ==
  LET saved == [before EXCEPT ![current].p_registers = procs[current].p_registers]
  IN  \/ procs = saved
      \/ \E x \in Statuses :
           procs = [saved EXCEPT ![current].p_state = "P_ZOMBIE",
                                 ![current].p_exit_status = x]

(* None of S stands between current and pid on the ring.                     *)
NonePassed(S) ==
  \A q \in S : pid # current => Ahead(current, pid) < Ahead(current, q)

(* What algorithm 2 has seen so far.                                         *)
LowestSeen ==
  \/ lowest_priority = INT_MAX
  \/ \E q \in Runnable(proc_array) : lowest_priority = proc_array[q].p_priority

PassedByShare == {q \in Runnable(Called) : Visit(q) < Visit(pid)}

FirstLap ==
  /\ proc_array = ClearTime(PassedByShare, Called)
  /\ \A q \in PassedByShare : ~HasTurn(Called[q])

SecondLap ==
  /\ proc_array = ClearTime(Runnable(Called), Called)
  /\ \A q \in Runnable(Called) : ~HasTurn(Called[q])
  /\ \A q \in PassedByShare : Called[q].p_share <= 0

Searching ==
  /\ current \in Pids
  /\ before \in Procs
  /\ TrapLeft(Called)
  /\ scheduling_algorithm # 3 => proc_array = Called
  /\ scheduling_algorithm = 0 => NonePassed(Runnable(proc_array))
  /\ scheduling_algorithm = 1 => pid = current
  /\ scheduling_algorithm = 2 => NonePassed(MostUrgent(proc_array)) /\ LowestSeen
  /\ scheduling_algorithm = 3 => FirstLap \/ SecondLap
  /\ scheduling_algorithm = 4 /\ ~Drawing => NonePassed(Runnable(proc_array))

LoopTypeOK ==
  /\ scheduling_algorithm \in Algorithms
  /\ proc_array \in Procs
  /\ \A p \in Pids : proc_array[p].p_priority <= INT_MAX /\ proc_array[p].p_time_passed >= 0
  /\ current \in Pids \/ (current = NPROCS /\ mode = "wild")
  /\ cpu \in Regs
  /\ mode \in Modes \cup {"schedule"}
  /\ tickets \in Seq(Pids) /\ Len(tickets) <= MAX_TICKETS
  /\ cursorpos \in Nat
  /\ DOMAIN screen = 0 .. CELLS - 1
  /\ pid \in Pids /\ lowest_priority \in Int

LoopInv == LoopTypeOK /\ (mode = "schedule" => Searching)

-----------------------------------------------------------------------------
(* Going round the ring of descriptors.                                      *)

LEMMA RingNext ==
  ASSUME KernAssumption, NEW p \in Pids
  PROVE  /\ Ring(p) \in Pids
         /\ Ring(p) = IF p = NPROCS - 1 THEN 0 ELSE p + 1
<1>1. CASE p = NPROCS - 1
  <2>1. p + 1 = NPROCS /\ NPROCS \in Nat \ {0}
    BY <1>1 DEF KernAssumption, Pids
  <2>2. NPROCS % NPROCS = 0
    BY <2>1
  <2> QED BY <1>1, <2>1, <2>2 DEF Ring, Pids
<1>2. CASE p # NPROCS - 1
  <2>1. p + 1 \in 0 .. NPROCS - 1 /\ NPROCS \in Nat \ {0}
    BY <1>2 DEF KernAssumption, Pids
  <2>2. (p + 1) % NPROCS = p + 1
    BY <2>1
  <2> QED BY <1>2, <2>1, <2>2 DEF Ring, Pids
<1> QED BY <1>1, <1>2

LEMMA AheadNext ==
  ASSUME KernAssumption, current \in Pids, NEW p \in Pids
  PROVE  /\ Ahead(current, Ring(p)) = IF p = current THEN 1 ELSE Ahead(current, p) + 1
         /\ p = current => Ring(p) # current
<1> PICK r \in Int : r = Ring(p)
  BY RingNext DEF Pids
<1>1. r = IF p = NPROCS - 1 THEN 0 ELSE p + 1
  BY RingNext
<1>2. /\ Ahead(current, r) = IF p = current THEN 1 ELSE Ahead(current, p) + 1
      /\ p = current => r # current
  BY <1>1 DEF Ahead, Pids, KernAssumption
<1> QED BY <1>2

LEMMA AheadOnce ==
  ASSUME KernAssumption, current \in Pids, NEW p \in Pids, NEW q \in Pids
  PROVE  /\ Ahead(current, p) \in 1 .. NPROCS
         /\ Ahead(current, p) = Ahead(current, q) => p = q
BY DEF Ahead, Pids, KernAssumption

LEMMA VisitNext ==
  ASSUME KernAssumption, current \in Pids, NEW p \in Pids
  PROVE  /\ Visit(p) \in 0 .. NPROCS - 1
         /\ Visit(Ring(p)) = IF Visit(p) = NPROCS - 1 THEN 0 ELSE Visit(p) + 1
         /\ \A q \in Pids : Visit(q) = Visit(p) => q = p
<1> PICK r \in Int : r = Ring(p)
  BY RingNext DEF Pids
<1>1. r = IF p = NPROCS - 1 THEN 0 ELSE p + 1
  BY RingNext
<1>2. Visit(r) = IF Visit(p) = NPROCS - 1 THEN 0 ELSE Visit(p) + 1
  BY <1>1 DEF Visit, Pids, KernAssumption
<1>3. Visit(p) \in 0 .. NPROCS - 1 /\ \A q \in Pids : Visit(q) = Visit(p) => q = p
  BY DEF Visit, Pids, KernAssumption
<1> QED BY <1>2, <1>3

(* One iteration of the loop that algorithms 0, 2 and 4 share.               *)
LEMMA ScanNext ==
  ASSUME KernAssumption, current \in Pids, pid \in Pids,
         NEW S \in SUBSET Pids, NonePassed(S)
  PROVE  /\ \A q \in S : Ahead(current, Ring(pid)) <= Ahead(current, q)
         /\ Ring(pid) \notin S /\ Ring(pid) # current =>
              \A q \in S : Ahead(current, Ring(pid)) < Ahead(current, q)
<1>1. ASSUME NEW q \in S
      PROVE  Ahead(current, Ring(pid)) <= Ahead(current, q)
  <2>1. Ahead(current, q) \in Int /\ Ahead(current, q) >= 1
    BY AheadOnce
  <2>2. CASE pid = current
    BY <2>1, <2>2, AheadNext
  <2>3. CASE pid # current
    <3>1. Ahead(current, pid) < Ahead(current, q) /\ Ahead(current, pid) \in Int
      BY <2>3, AheadOnce DEF NonePassed
    <3> QED BY <2>1, <2>3, <3>1, AheadNext
  <2> QED BY <2>2, <2>3
<1>2. ASSUME NEW q \in S, Ring(pid) \notin S
      PROVE  Ahead(current, Ring(pid)) < Ahead(current, q)
  <2>1. Ring(pid) \in Pids /\ Ring(pid) # q
    BY <1>2, RingNext
  <2>2. Ahead(current, Ring(pid)) # Ahead(current, q)
    BY <2>1, AheadOnce
  <2>3. Ahead(current, Ring(pid)) \in Int /\ Ahead(current, q) \in Int
    BY <2>1, AheadOnce
  <2> QED BY <1>1, <2>2, <2>3
<1> QED BY <1>1, <1>2

(* The inner loop of algorithm 2 finds the priority of the most urgent.      *)
LEMMA LowestFound ==
  ASSUME KernAssumption, LoopTypeOK, LowestSeen
  PROVE  /\ Lowest \in {lowest_priority} \cup
                        {proc_array[i].p_priority : i \in Runnable(proc_array)}
         /\ \A i \in Runnable(proc_array) : Lowest <= proc_array[i].p_priority
         /\ Lowest \in Int
         /\ \A p \in Runnable(proc_array) :
              p \in MostUrgent(proc_array) <=> proc_array[p].p_priority = Lowest
<1> DEFINE seen == {lowest_priority} \cup
                   {proc_array[i].p_priority : i \in Runnable(proc_array)}
<1>1. /\ lowest_priority \in Int /\ proc_array \in Procs
      /\ \A i \in Runnable(proc_array) :
           proc_array[i].p_priority \in Int /\ proc_array[i].p_priority <= INT_MAX
      /\ INT_MAX \in Int
  BY DEF LoopTypeOK, Procs, Descriptors, Runnable, INT_MAX
<1>2. \E low \in seen : \A x \in seen : low <= x
  <2>1. CASE Runnable(proc_array) = {}
    BY <1>1, <2>1
  <2>2. CASE Runnable(proc_array) # {}
    <3>1. PICK u \in Runnable(proc_array) :
            \A q \in Runnable(proc_array) :
              proc_array[u].p_priority <= proc_array[q].p_priority
      BY <1>1, <2>2, UrgentExists DEF MostUrgent
    <3>2. CASE lowest_priority <= proc_array[u].p_priority
      BY <1>1, <3>1, <3>2
    <3>3. CASE ~(lowest_priority <= proc_array[u].p_priority)
      BY <1>1, <3>1, <3>3
    <3> QED BY <3>2, <3>3
  <2> QED BY <2>1, <2>2
<1>3. Lowest \in seen /\ \A x \in seen : Lowest <= x
  <2>1. Lowest = CHOOSE low \in seen : \A x \in seen : low <= x
    BY DEF Lowest
  <2> HIDE DEF seen
  <2> QED BY <1>2, <2>1
<1>4. Lowest \in Int /\ \A i \in Runnable(proc_array) : Lowest <= proc_array[i].p_priority
  BY <1>1, <1>3
<1>5. ASSUME NEW p \in Runnable(proc_array)
      PROVE  p \in MostUrgent(proc_array) <=> proc_array[p].p_priority = Lowest
  <2>1. ASSUME proc_array[p].p_priority = Lowest PROVE p \in MostUrgent(proc_array)
    BY <1>4, <2>1 DEF MostUrgent
  <2>2. ASSUME p \in MostUrgent(proc_array) PROVE proc_array[p].p_priority = Lowest
    <3>1. \A q \in Runnable(proc_array) :
            proc_array[p].p_priority <= proc_array[q].p_priority
      BY <2>2 DEF MostUrgent
    <3>2. \/ Lowest = INT_MAX
          \/ \E q \in Runnable(proc_array) : Lowest = proc_array[q].p_priority
      BY <1>3 DEF LowestSeen
    <3> QED BY <1>1, <1>4, <3>1, <3>2
  <2> QED BY <2>1, <2>2
<1> QED BY <1>3, <1>4, <1>5

-----------------------------------------------------------------------------
(* The process table during a search.                                        *)

LEMMA Cleared ==
  ASSUME NEW procs \in Procs, NEW S
  PROVE  /\ ClearTime(S, procs) \in Procs
         /\ Runnable(ClearTime(S, procs)) = Runnable(procs)
         /\ \A p \in Pids :
              /\ ClearTime(S, procs)[p].p_share = procs[p].p_share
              /\ ClearTime(S, procs)[p].p_priority = procs[p].p_priority
              /\ ClearTime(S, procs)[p].p_registers = procs[p].p_registers
              /\ p \in S => ClearTime(S, procs)[p].p_time_passed = 0
              /\ p \notin S => ClearTime(S, procs)[p] = procs[p]
<1>1. \A p \in Pids : [procs[p] EXCEPT !.p_time_passed = 0] \in Descriptors
  BY DEF Procs, Descriptors
<1>2. ClearTime(S, procs) \in Procs
  BY <1>1 DEF ClearTime, Procs
<1>3. \A p \in Pids :
        /\ p \in S => ClearTime(S, procs)[p] = [procs[p] EXCEPT !.p_time_passed = 0]
        /\ p \notin S => ClearTime(S, procs)[p] = procs[p]
  BY DEF ClearTime
<1>4. \A p \in Pids :
        /\ ClearTime(S, procs)[p].p_state = procs[p].p_state
        /\ ClearTime(S, procs)[p].p_share = procs[p].p_share
        /\ ClearTime(S, procs)[p].p_priority = procs[p].p_priority
        /\ ClearTime(S, procs)[p].p_registers = procs[p].p_registers
        /\ p \in S => ClearTime(S, procs)[p].p_time_passed = 0
  <2>1. \A d \in Descriptors : \A e : e = [d EXCEPT !.p_time_passed = 0] =>
          /\ e.p_state = d.p_state /\ e.p_share = d.p_share
          /\ e.p_priority = d.p_priority /\ e.p_registers = d.p_registers
          /\ e.p_time_passed = 0
    BY DEF Descriptors
  <2>2. \A p \in Pids : procs[p] \in Descriptors
    BY DEF Procs
  <2>3. \A p \in Pids : p \in S =>
          /\ ClearTime(S, procs)[p].p_state = procs[p].p_state
          /\ ClearTime(S, procs)[p].p_share = procs[p].p_share
          /\ ClearTime(S, procs)[p].p_priority = procs[p].p_priority
          /\ ClearTime(S, procs)[p].p_registers = procs[p].p_registers
          /\ ClearTime(S, procs)[p].p_time_passed = 0
    <3>1. ASSUME NEW p \in Pids, p \in S, NEW e, e = ClearTime(S, procs)[p]
          PROVE  /\ e.p_state = procs[p].p_state /\ e.p_share = procs[p].p_share
                 /\ e.p_priority = procs[p].p_priority
                 /\ e.p_registers = procs[p].p_registers /\ e.p_time_passed = 0
      <4>1. e = [procs[p] EXCEPT !.p_time_passed = 0]
        BY <1>3, <3>1
      <4> QED BY <2>1, <2>2, <4>1
    <3> QED BY <3>1
  <2> QED BY <1>3, <2>3
<1> QED BY <1>2, <1>3, <1>4 DEF Runnable

LEMMA ClearedTwice ==
  ASSUME NEW procs \in Procs, NEW S, NEW T
  PROVE  ClearTime(T, ClearTime(S, procs)) = ClearTime(S \cup T, procs)
<1>1. ASSUME NEW p \in Pids
      PROVE  ClearTime(T, ClearTime(S, procs))[p] = ClearTime(S \cup T, procs)[p]
  <2>1. procs[p] \in Descriptors
    BY DEF Procs
  <2>2. [[procs[p] EXCEPT !.p_time_passed = 0] EXCEPT !.p_time_passed = 0]
          = [procs[p] EXCEPT !.p_time_passed = 0]
    BY <2>1 DEF Descriptors
  <2> QED BY <2>2 DEF ClearTime
<1> QED BY <1>1 DEF ClearTime

LEMMA ClearedNone ==
  ASSUME NEW procs \in Procs
  PROVE  ClearTime({}, procs) = procs
BY DEF ClearTime, Procs

LEMMA CalledTable ==
  ASSUME proc_array \in Procs, before \in Procs
  PROVE  /\ Called \in Procs
         /\ Runnable(Called) = Runnable(proc_array)
         /\ \A p \in Pids :
              /\ Called[p].p_share = proc_array[p].p_share
              /\ Called[p].p_priority = proc_array[p].p_priority
              /\ Called[p].p_registers = proc_array[p].p_registers
<1>1. \A p \in Pids :
        [proc_array[p] EXCEPT !.p_time_passed = before[p].p_time_passed] \in Descriptors
  BY DEF Procs, Descriptors
<1>2. Called \in Procs
  BY <1>1 DEF Called, Procs
<1>3. \A p \in Pids :
        /\ Called[p].p_state = proc_array[p].p_state
        /\ Called[p].p_share = proc_array[p].p_share
        /\ Called[p].p_priority = proc_array[p].p_priority
        /\ Called[p].p_registers = proc_array[p].p_registers
  BY DEF Called, Procs, Descriptors
<1> QED BY <1>2, <1>3 DEF Runnable

-----------------------------------------------------------------------------
(* The refinement mapping, before and after a step.                          *)

LEMMA AbsOutside ==
  /\ mode # "schedule" => AbsMode = mode /\ AbsProcs = proc_array
  /\ mode' # "schedule" => AbsMode' = mode' /\ AbsProcs' = proc_array'
BY DEF AbsMode, AbsProcs, Doomed

LEMMA AbsInside ==
  /\ mode = "schedule" /\ ~Doomed => AbsMode = "user" /\ AbsProcs = before
  /\ mode' = "schedule" /\ ~Doomed' => AbsMode' = "user" /\ AbsProcs' = before'
BY DEF AbsMode, AbsProcs

LEMMA AbsDoomed ==
  /\ Doomed => /\ AbsMode = "spin"
               /\ AbsProcs = IF scheduling_algorithm = 3
                               THEN ClearTime(Runnable(proc_array), proc_array)
                               ELSE proc_array
  /\ Doomed' => /\ AbsMode' = "spin"
                /\ AbsProcs' = IF scheduling_algorithm' = 3
                                 THEN ClearTime(Runnable(proc_array'), proc_array')
                                 ELSE proc_array'
<1>1. Doomed => mode = "schedule"
  BY DEF Doomed
<1>2. Doomed' => mode' = "schedule"
  BY DEF Doomed
<1>3. ClearTime(Runnable(proc_array), proc_array)' = ClearTime(Runnable(proc_array'), proc_array')
  BY DEF ClearTime, Runnable
<1>4. Doomed => /\ AbsMode = "spin"
                /\ AbsProcs = IF scheduling_algorithm = 3
                                THEN ClearTime(Runnable(proc_array), proc_array)
                                ELSE proc_array
  BY <1>1 DEF AbsMode, AbsProcs
<1>5. Doomed' => /\ AbsMode' = "spin"
                 /\ AbsProcs' = IF scheduling_algorithm' = 3
                                  THEN ClearTime(Runnable(proc_array'), proc_array')
                                  ELSE proc_array'
  BY <1>2, <1>3 DEF AbsMode, AbsProcs
<1> QED BY <1>4, <1>5

(* The parts of schedule() that do not look at the state agree by definition. *)
LEMMA AbsParts ==
  /\ Abs!Pids = Pids
  /\ \A procs : Abs!Runnable(procs) = Runnable(procs)
  /\ \A procs : Abs!MostUrgent(procs) = MostUrgent(procs)
  /\ \A procs, S : Abs!ClearTime(S, procs) = ClearTime(S, procs)
  /\ \A p, q : Abs!Ahead(p, q) = Ahead(p, q)
  /\ \A p : Abs!Visit(p) = Visit(p)
  /\ \A proc : Abs!HasTurn(proc) = HasTurn(proc)
  /\ Abs!Drawing = Drawing /\ Abs!Holders = Holders
BY DEF Abs!Pids, Pids, Abs!Runnable, Runnable, Abs!MostUrgent, MostUrgent, Abs!ClearTime,
       ClearTime, Abs!Ahead, Ahead, Abs!Visit, Visit, Abs!HasTurn, HasTurn, Abs!Drawing,
       Drawing, Abs!Holders, Holders

LEMMA AbsRun ==
  ASSUME NEW p, NEW procs, Run(p, procs)
  PROVE  Abs!Run(p, procs)
BY AbsOutside DEF Run, Abs!Run

(* A search that ends is the trap that began it.                             *)
LEMMA EndOfSearch ==
  ASSUME LoopInv, mode = "schedule", ~Doomed,
         proc_array'[current].p_registers = proc_array[current].p_registers,
         Abs!schedule(Called), UNCHANGED <<tickets, console>>
  PROVE  Abs!Trap(proc_array'[current].p_registers)
<1>1. AbsMode = "user" /\ AbsProcs = before /\ Searching
  BY AbsInside DEF LoopInv
<1>2. current \in Pids /\ proc_array \in Procs /\ before \in Procs
  BY <1>1 DEF Searching, LoopInv, LoopTypeOK
<1> DEFINE reg == proc_array'[current].p_registers
<1>3. reg = Called[current].p_registers
  BY <1>2, CalledTable
<1>4. Abs!Saved(reg) = [before EXCEPT ![current].p_registers = reg]
  BY <1>1 DEF Abs!Saved
<1> HIDE DEF reg
<1>5. CASE Called = [before EXCEPT ![current].p_registers = reg]
  <2>1. Abs!SysYield(reg)
    BY <1>1, <1>4, <1>5 DEF Abs!SysYield, Abs!console, console
  <2> QED BY <2>1 DEF Abs!Trap, reg
<1>6. ASSUME NEW x \in Statuses,
             Called = [[before EXCEPT ![current].p_registers = reg]
                         EXCEPT ![current].p_state = "P_ZOMBIE",
                                ![current].p_exit_status = x]
      PROVE  Abs!Trap(reg)
  <2>1. Called = [Abs!Saved(reg) EXCEPT ![current].p_state = "P_ZOMBIE",
                                        ![current].p_exit_status = x]
    BY <1>4, <1>6
  <2>2. Abs!SysExit(reg, x)
    BY <1>1, <2>1 DEF Abs!SysExit, Abs!console, console
  <2> QED BY <2>2 DEF Abs!Trap
<1>7. \/ Called = [before EXCEPT ![current].p_registers = reg]
      \/ \E x \in Statuses :
           Called = [[before EXCEPT ![current].p_registers = reg]
                       EXCEPT ![current].p_state = "P_ZOMBIE",
                              ![current].p_exit_status = x]
  BY <1>1, <1>3 DEF Searching, TrapLeft
<1> QED BY <1>5, <1>6, <1>7 DEF reg

-----------------------------------------------------------------------------
(* What every iteration keeps, whether the loop goes on or ends.             *)

LEMMA ContinueKeeps ==
  ASSUME KernAssumption, LoopInv, mode = "schedule", NEW p \in Pids,
         NEW S \in SUBSET Runnable(proc_array), scheduling_algorithm = 3 \/ S = {},
         Continue(p, ClearTime(S, proc_array)), UNCHANGED <<tickets, console>>,
         lowest_priority' \in Int
  PROVE  /\ LoopTypeOK' /\ mode' = "schedule" /\ pid' = p
         /\ current' = current /\ scheduling_algorithm' = scheduling_algorithm
         /\ Runnable(proc_array') = Runnable(proc_array)
         /\ Called' = Called /\ before' = before
         /\ UNCHANGED Abs!kernvars
<1>1. Searching /\ LoopTypeOK /\ proc_array \in Procs /\ before \in Procs
  BY DEF LoopInv, Searching, LoopTypeOK
<1>2. /\ pid' = p /\ proc_array' = ClearTime(S, proc_array) /\ mode' = mode
      /\ UNCHANGED <<before, scheduling_algorithm, current, cpu, tickets, cursorpos, screen>>
  BY DEF Continue, console
<1>3. /\ proc_array' \in Procs /\ Runnable(proc_array') = Runnable(proc_array)
      /\ \A q \in Pids :
           /\ proc_array'[q].p_share = proc_array[q].p_share
           /\ proc_array'[q].p_priority = proc_array[q].p_priority
           /\ q \in S => proc_array'[q].p_time_passed = 0
           /\ q \notin S => proc_array'[q] = proc_array[q]
  BY <1>1, <1>2, Cleared
<1>4. LoopTypeOK'
  <2>1. \A q \in Pids : /\ proc_array'[q].p_priority <= INT_MAX
                        /\ proc_array'[q].p_time_passed >= 0
    BY <1>1, <1>3 DEF LoopTypeOK
  <2> QED BY <1>1, <1>2, <1>3, <2>1 DEF LoopTypeOK
<1>5. Called' = Called
  <2>1. \A q \in Pids :
          [proc_array'[q] EXCEPT !.p_time_passed = before[q].p_time_passed]
            = [proc_array[q] EXCEPT !.p_time_passed = before[q].p_time_passed]
    <3>1. \A q \in Pids : proc_array[q] \in Descriptors
      BY <1>1 DEF Procs
    <3>2. \A q \in S : proc_array'[q] = [proc_array[q] EXCEPT !.p_time_passed = 0]
      BY <1>2 DEF ClearTime, Runnable
    <3>3. \A q \in S :
            [[proc_array[q] EXCEPT !.p_time_passed = 0]
               EXCEPT !.p_time_passed = before[q].p_time_passed]
              = [proc_array[q] EXCEPT !.p_time_passed = before[q].p_time_passed]
      BY <3>1 DEF Descriptors, Runnable
    <3> QED BY <1>3, <3>2, <3>3
  <2> QED BY <1>2, <2>1 DEF Called
<1>6. Runnable(proc_array) \subseteq Pids
  BY DEF Runnable
<1>7. Doomed' = Doomed
  BY <1>2, <1>3, <1>6 DEF Doomed, Drawing, Holders
<1>8. UNCHANGED <<AbsMode, AbsProcs>>
  <2>1. CASE ~Doomed
    BY <1>2, <1>7, <2>1, AbsInside
  <2>2. CASE Doomed /\ scheduling_algorithm = 3
    <3>1. ClearTime(Runnable(proc_array'), proc_array')
            = ClearTime(S \cup Runnable(proc_array), proc_array)
      BY <1>1, <1>2, <1>3, ClearedTwice
    <3>2. S \cup Runnable(proc_array) = Runnable(proc_array)
      OBVIOUS
    <3> QED BY <1>2, <1>7, <2>2, <3>1, <3>2, AbsDoomed
  <2>3. CASE Doomed /\ S = {} /\ scheduling_algorithm # 3
    BY <1>1, <1>2, <1>7, <2>3, AbsDoomed, ClearedNone
  <2> QED BY <2>1, <2>2, <2>3
<1>9. UNCHANGED Abs!kernvars
  BY <1>2, <1>8 DEF Abs!kernvars
<1> QED BY <1>2, <1>3, <1>4, <1>5, <1>9

LEMMA LeaveKeeps ==
  ASSUME KernAssumption, LoopInv, NEW p \in Pids, NEW procs \in Procs,
         \A q \in Pids : procs[q].p_priority <= INT_MAX /\ procs[q].p_time_passed >= 0,
         Leave(p, procs), UNCHANGED <<tickets, console>>
  PROVE  LoopInv'
<1>1. /\ proc_array' = procs /\ current' = p /\ cpu' = procs[p].p_registers
      /\ mode' = "user" /\ pid' = 0 /\ lowest_priority' = INT_MAX
      /\ UNCHANGED <<scheduling_algorithm, tickets, cursorpos, screen>>
  BY DEF Leave, Run, Dead, console
<1>2. cpu' \in Regs
  BY <1>1 DEF Procs, Descriptors
<1>3. pid' \in Pids /\ lowest_priority' \in Int
  BY <1>1 DEF Pids, KernAssumption, INT_MAX
<1>4. LoopTypeOK'
  BY <1>1, <1>2, <1>3 DEF LoopInv, LoopTypeOK, Modes
<1> QED BY <1>1, <1>4 DEF LoopInv

(* The descriptor that was picked, while the others are as schedule() found  *)
(* them (all algorithms but 3).                                              *)
LEMMA PlainLeave ==
  ASSUME KernAssumption, LoopInv, mode = "schedule", scheduling_algorithm # 3, ~Doomed,
         NEW p \in Pids, Leave(p, proc_array), UNCHANGED <<tickets, console>>,
         Abs!Run(p, Called) => Abs!schedule(Called)
  PROVE  LoopInv' /\ Abs!Trap(proc_array'[current].p_registers)
<1>1. proc_array = Called /\ LoopTypeOK
  BY DEF LoopInv, Searching
<1>2. Run(p, proc_array) /\ proc_array' = proc_array
  BY DEF Leave, Run
<1>3. Abs!schedule(Called)
  BY <1>1, <1>2, AbsRun
<1>4. Abs!Trap(proc_array'[current].p_registers)
  BY <1>2, <1>3, EndOfSearch
<1>5. LoopInv'
  BY <1>1, LeaveKeeps DEF LoopTypeOK
<1> QED BY <1>4, <1>5

-----------------------------------------------------------------------------
(* Algorithm by algorithm: an iteration ends the search or goes on with it.  *)

LEMMA ScanRefines ==
  ASSUME KernAssumption, LoopInv, mode = "schedule", UNCHANGED <<tickets, console>>,
         scheduling_algorithm = 0 \/ (scheduling_algorithm = 4 /\ ~Drawing),
         ScanStep
  PROVE  LoopInv' /\ [Abs!Trap(proc_array'[current].p_registers)]_(Abs!kernvars)
<1> DEFINE p == Ring(pid)
           S == Runnable(proc_array)
<1>1. /\ Searching /\ LoopTypeOK /\ current \in Pids /\ pid \in Pids
      /\ proc_array = Called /\ NonePassed(S) /\ S \in SUBSET Pids
  BY DEF LoopInv, Searching, LoopTypeOK, Runnable
<1>2. /\ p \in Pids
      /\ \A q \in S : Ahead(current, p) <= Ahead(current, q)
      /\ p \notin S /\ p # current =>
           \A q \in S : Ahead(current, p) < Ahead(current, q)
  BY <1>1, RingNext, ScanNext
<1> HIDE DEF p
<1>3. CASE p \in S /\ Leave(p, proc_array)
  <2>1. ~Doomed
    BY <1>3 DEF Doomed
  <2>2. ASSUME Abs!Run(p, Called) PROVE Abs!schedule(Called)
    <3>1. Abs!RunNext(Abs!Runnable(Called), Called)
      BY <1>1, <1>2, <1>3, <2>2, AbsParts DEF Abs!RunNext
    <3> QED BY <3>1, AbsParts DEF Abs!schedule, Abs!RoundRobin, Abs!Lottery
  <2> QED BY <1>2, <1>3, <2>1, <2>2, PlainLeave
<1>4. CASE p \notin S /\ Continue(p, proc_array) /\ UNCHANGED lowest_priority
  <2>1. /\ LoopTypeOK' /\ mode' = "schedule" /\ pid' = p
        /\ current' = current /\ scheduling_algorithm' = scheduling_algorithm
        /\ Runnable(proc_array') = Runnable(proc_array)
        /\ Called' = Called /\ before' = before
        /\ UNCHANGED Abs!kernvars
    <3>1. Continue(p, ClearTime({}, proc_array)) /\ lowest_priority' \in Int
      BY <1>1, <1>4, ClearedNone DEF LoopTypeOK
    <3> QED BY <1>2, <3>1, ContinueKeeps
  <2>2. proc_array' = Called' /\ TrapLeft(Called)' /\ Drawing' = Drawing
    BY <1>1, <1>4, <2>1 DEF Continue, Searching, TrapLeft, Drawing
  <2>3. NonePassed(Runnable(proc_array))'
    BY <1>2, <1>4, <2>1 DEF NonePassed, Ahead, Runnable
  <2>4. Searching'
    BY <1>1, <2>1, <2>2, <2>3 DEF Searching
  <2> QED BY <2>1, <2>4 DEF LoopInv
<1> QED BY <1>3, <1>4 DEF ScanStep, p

LEMMA InOrderRefines ==
  ASSUME KernAssumption, LoopInv, mode = "schedule", UNCHANGED <<tickets, console>>,
         scheduling_algorithm = 1, InOrderStep
  PROVE  LoopInv' /\ [Abs!Trap(proc_array'[current].p_registers)]_(Abs!kernvars)
<1> DEFINE p == IF current \in Runnable(proc_array) THEN current ELSE current + 1
<1>1. /\ Searching /\ LoopTypeOK /\ current \in Pids
      /\ proc_array = Called /\ pid = current
  BY DEF LoopInv, Searching, LoopTypeOK
<1>2. ~Doomed
  BY DEF Doomed
<1>3. CASE p \in Pids /\ Leave(p, proc_array)
  <2>1. ASSUME Abs!Run(p, Called) PROVE Abs!schedule(Called)
    BY <1>1, <1>3, <2>1, AbsParts DEF Abs!schedule, Abs!InOrder
  <2> QED BY <1>2, <1>3, <2>1, PlainLeave
<1>4. CASE p \notin Pids /\ RunOutside(proc_array) /\ Dead
  <2>1. /\ proc_array' = proc_array /\ current' = NPROCS /\ mode' = "wild"
        /\ UNCHANGED <<scheduling_algorithm, cpu, tickets, cursorpos, screen>>
        /\ pid' \in Pids /\ lowest_priority' \in Int
    BY <1>4 DEF RunOutside, Dead, console, Pids, INT_MAX, KernAssumption
  <2>2. LoopInv'
    BY <1>1, <2>1 DEF LoopInv, LoopTypeOK, Modes
  <2>3. Abs!RunOutside(Called)
    BY <1>1, <2>1, AbsOutside DEF Abs!RunOutside
  <2>4. Abs!schedule(Called)
    BY <1>1, <1>4, <2>3, AbsParts DEF Abs!schedule, Abs!InOrder
  <2> QED BY <1>2, <2>1, <2>2, <2>4, EndOfSearch
<1> QED BY <1>1, <1>3, <1>4 DEF InOrderStep

LEMMA PriorityRefines ==
  ASSUME KernAssumption, LoopInv, mode = "schedule", UNCHANGED <<tickets, console>>,
         scheduling_algorithm = 2, PriorityStep
  PROVE  LoopInv' /\ [Abs!Trap(proc_array'[current].p_registers)]_(Abs!kernvars)
<1> DEFINE p == Ring(pid)
           S == MostUrgent(proc_array)
           chosen == p \in Runnable(proc_array) /\ proc_array[p].p_priority = Lowest
<1>1. /\ Searching /\ LoopTypeOK /\ current \in Pids /\ pid \in Pids
      /\ proc_array = Called /\ NonePassed(S) /\ LowestSeen /\ S \in SUBSET Pids
  BY DEF LoopInv, Searching, LoopTypeOK, MostUrgent, Runnable
<1>2. /\ p \in Pids
      /\ \A q \in S : Ahead(current, p) <= Ahead(current, q)
      /\ p \notin S /\ p # current =>
           \A q \in S : Ahead(current, p) < Ahead(current, q)
  BY <1>1, RingNext, ScanNext
<1>3. chosen <=> p \in S
  BY <1>1, LowestFound DEF MostUrgent
<1>4. CASE chosen /\ Leave(p, proc_array)
  <2> HIDE DEF p
  <2>1. ~Doomed
    BY <1>4 DEF Doomed
  <2>2. ASSUME Abs!Run(p, Called) PROVE Abs!schedule(Called)
    <3>1. Abs!RunNext(Abs!MostUrgent(Called), Called)
      BY <1>1, <1>2, <1>3, <1>4, <2>2, AbsParts DEF Abs!RunNext
    <3> QED BY <3>1 DEF Abs!schedule, Abs!StrictPriority
  <2> QED BY <1>2, <1>4, <2>1, <2>2, PlainLeave
<1>5. CASE ~chosen /\ Continue(p, proc_array) /\ lowest_priority' = Lowest
  <2> HIDE DEF p
  <2>1. /\ LoopTypeOK' /\ mode' = "schedule" /\ pid' = p
        /\ current' = current /\ scheduling_algorithm' = scheduling_algorithm
        /\ Runnable(proc_array') = Runnable(proc_array)
        /\ Called' = Called /\ before' = before
        /\ UNCHANGED Abs!kernvars
    <3>1. Continue(p, ClearTime({}, proc_array)) /\ lowest_priority' \in Int
      BY <1>1, <1>5, ClearedNone, LowestFound DEF LoopTypeOK
    <3> QED BY <1>2, <3>1, ContinueKeeps
  <2>2. proc_array' = proc_array /\ proc_array' = Called' /\ TrapLeft(Called)'
    BY <1>1, <1>5, <2>1 DEF Continue, Searching, TrapLeft
  <2>3. NonePassed(MostUrgent(proc_array))'
    BY <1>2, <1>3, <1>5, <2>1, <2>2 DEF NonePassed, Ahead, MostUrgent, Runnable
  <2>4. LowestSeen'
    <3>1. \/ Lowest = lowest_priority
          \/ \E q \in Runnable(proc_array) : Lowest = proc_array[q].p_priority
      BY <1>1, LowestFound
    <3>2. \/ lowest_priority' = INT_MAX
          \/ \E q \in Runnable(proc_array') : lowest_priority' = proc_array'[q].p_priority
      BY <1>1, <1>5, <2>2, <3>1 DEF LowestSeen
    <3> QED BY <3>2 DEF LowestSeen, Runnable
  <2>5. Searching'
    BY <1>1, <2>1, <2>2, <2>3, <2>4 DEF Searching
  <2> QED BY <2>1, <2>5 DEF LoopInv
<1> QED BY <1>4, <1>5 DEF PriorityStep

LEMMA DrawRefines ==
  ASSUME KernAssumption, LoopInv, NEW winner \in Pids, Draw(winner)
  PROVE  LoopInv' /\ [Abs!Trap(proc_array'[current].p_registers)]_(Abs!kernvars)
<1>1. /\ mode = "schedule" /\ scheduling_algorithm = 4 /\ Drawing /\ winner \in Holders
      /\ DrawStep(winner) /\ UNCHANGED <<tickets, console>>
      /\ Searching /\ LoopTypeOK /\ current \in Pids /\ proc_array = Called
  BY DEF Draw, LoopInv, Searching
<1>2. CASE winner \in Runnable(proc_array) /\ Leave(winner, proc_array)
  <2>1. ~Doomed
    BY <1>1, <1>2 DEF Doomed
  <2>2. ASSUME Abs!Run(winner, Called) PROVE Abs!schedule(Called)
    BY <1>1, <1>2, <2>2, AbsParts DEF Abs!schedule, Abs!Lottery
  <2> QED BY <1>1, <1>2, <2>1, <2>2, PlainLeave
<1>3. CASE Continue(winner, proc_array) /\ UNCHANGED lowest_priority
  <2>1. /\ LoopTypeOK' /\ mode' = "schedule"
        /\ current' = current /\ scheduling_algorithm' = scheduling_algorithm
        /\ Called' = Called /\ before' = before
        /\ UNCHANGED Abs!kernvars
    <3>1. Continue(winner, ClearTime({}, proc_array)) /\ lowest_priority' \in Int
      BY <1>1, <1>3, ClearedNone DEF LoopTypeOK
    <3> QED BY <1>1, <3>1, ContinueKeeps
  <2>2. proc_array' = Called' /\ TrapLeft(Called)' /\ Drawing'
    BY <1>1, <1>3, <2>1 DEF Continue, Searching, TrapLeft, Drawing
  <2>3. Searching'
    BY <1>1, <2>1, <2>2 DEF Searching
  <2> QED BY <2>1, <2>3 DEF LoopInv
<1> QED BY <1>1, <1>2, <1>3 DEF DrawStep

(* Algorithm 3 on its first lap: whoever it meets has not been looked at yet. *)
LEMMA FirstLapMeets ==
  ASSUME KernAssumption, LoopInv, mode = "schedule", scheduling_algorithm = 3, FirstLap
  PROVE  proc_array[pid] = Called[pid]
<1>1. Called \in Procs /\ pid \in Pids /\ current \in Pids
  BY CalledTable DEF LoopInv, Searching, LoopTypeOK
<1>2. pid \notin PassedByShare
  BY <1>1, VisitNext DEF PassedByShare
<1> QED BY <1>1, <1>2, Cleared DEF FirstLap

LEMMA ShareLeave ==
  ASSUME KernAssumption, LoopInv, mode = "schedule", UNCHANGED <<tickets, console>>,
         scheduling_algorithm = 3,
         pid \in Runnable(proc_array), HasTurn(proc_array[pid]),
         Leave(pid, [proc_array EXCEPT ![pid].p_time_passed = @ + 1])
  PROVE  LoopInv' /\ Abs!Trap(proc_array'[current].p_registers)
<1> DEFINE ps == [proc_array EXCEPT ![pid].p_time_passed = @ + 1]
           R == Runnable(Called)
           due == {q \in R : HasTurn(Called[q])}
           ready == IF due # {} THEN due ELSE {q \in R : Called[q].p_share > 0}
           Passed(q) == IF due # {} THEN {r \in R : Visit(r) < Visit(q)} ELSE R
<1>1. /\ Searching /\ LoopTypeOK /\ current \in Pids /\ pid \in Pids
      /\ proc_array \in Procs /\ before \in Procs
      /\ FirstLap \/ SecondLap
  BY DEF LoopInv, Searching, LoopTypeOK
<1>2. /\ Called \in Procs /\ R = Runnable(proc_array)
      /\ \A p \in Pids : Called[p].p_share = proc_array[p].p_share
  BY <1>1, CalledTable
<1>3. /\ proc_array[pid] \in Descriptors
      /\ proc_array[pid].p_share \in Int /\ proc_array[pid].p_time_passed \in Int
      /\ proc_array[pid].p_time_passed >= 0
      /\ proc_array[pid].p_time_passed < proc_array[pid].p_share
  BY <1>1 DEF LoopTypeOK, Procs, Descriptors, HasTurn
<1>4. /\ ps \in Procs
      /\ \A q \in Pids : /\ ps[q].p_priority <= INT_MAX /\ ps[q].p_time_passed >= 0
                         /\ ps[q].p_registers = proc_array[q].p_registers
  <2> DEFINE d == [proc_array[pid] EXCEPT !.p_time_passed = @ + 1]
  <2>1. /\ d \in Descriptors /\ d.p_time_passed >= 0
        /\ d.p_priority = proc_array[pid].p_priority
        /\ d.p_registers = proc_array[pid].p_registers
    <3>1. PICK old \in Descriptors : old = proc_array[pid]
      BY <1>3
    <3>2. PICK n : n = old.p_time_passed + 1
      OBVIOUS
    <3>3. n \in Int /\ n >= 0
      BY <1>3, <3>1, <3>2
    <3>4. PICK e : e = [old EXCEPT !.p_time_passed = n]
      OBVIOUS
    <3>5. /\ e \in Descriptors /\ e.p_time_passed = n
          /\ e.p_priority = old.p_priority /\ e.p_registers = old.p_registers
      BY <3>3, <3>4 DEF Descriptors
    <3>6. d = e
      BY <3>1, <3>2, <3>4
    <3> HIDE DEF d
    <3> QED BY <3>1, <3>3, <3>5, <3>6
  <2>2. ps = [proc_array EXCEPT ![pid] = d]
    BY <1>1 DEF Procs
  <2> HIDE DEF d, ps
  <2> QED BY <1>1, <2>1, <2>2 DEF LoopTypeOK, Procs
<1>5. Run(pid, ps) /\ proc_array' = ps
  BY DEF Leave, Run
<1>6. ~Doomed
  BY <1>3 DEF Doomed
<1>7. /\ pid \in ready
      /\ \A q \in ready : Visit(pid) <= Visit(q)
      /\ proc_array = ClearTime(Passed(pid), Called)
  <2>1. \A q \in R : Visit(pid) \in Int /\ Visit(q) \in Int /\ Called[q].p_share \in Int
    <3>1. \A q \in R : q \in Pids
      BY DEF Runnable
    <3>2. \A q \in Pids : Called[q].p_share \in Int
      BY <1>2 DEF Procs, Descriptors
    <3>3. \A q \in Pids : Visit(q) \in Int
      BY <1>1, VisitNext
    <3> QED BY <1>1, <3>1, <3>2, <3>3
  <2>2. CASE FirstLap
    <3>1. pid \in due
      BY <1>2, <2>2, FirstLapMeets
    <3>2. proc_array = ClearTime(Passed(pid), Called)
      BY <2>2, <3>1 DEF FirstLap, PassedByShare
    <3>3. \A q \in due : Visit(pid) <= Visit(q)
      BY <2>1, <2>2 DEF FirstLap, PassedByShare
    <3> QED BY <3>1, <3>2, <3>3
  <2>3. CASE SecondLap
    <3>1. due = {}
      BY <2>3 DEF SecondLap
    <3>2. proc_array = ClearTime(Passed(pid), Called)
      BY <2>3, <3>1 DEF SecondLap
    <3>3. pid \in ready
      BY <1>1, <1>2, <1>3, <3>1
    <3>4. \A q \in R : Called[q].p_share > 0 => Visit(pid) <= Visit(q)
      BY <2>1, <2>3 DEF SecondLap, PassedByShare
    <3> QED BY <3>1, <3>2, <3>3, <3>4
  <2> QED BY <1>1, <2>2, <2>3
<1>8. Abs!schedule(Called)
  <2> DEFINE adue == {q \in Abs!Runnable(Called) : Abs!HasTurn(Called[q])}
             aready == IF adue # {} THEN adue
                       ELSE {q \in Abs!Runnable(Called) : Called[q].p_share > 0}
             aPassed(q) == IF adue # {}
                             THEN {r \in Abs!Runnable(Called) : Abs!Visit(r) < Abs!Visit(q)}
                             ELSE Abs!Runnable(Called)
  <2>1. adue = due
    BY AbsParts
  <2>2. aready = ready /\ aPassed(pid) = Passed(pid)
    BY <2>1, AbsParts
  <2>3. Abs!ClearTime(aPassed(pid), Called) = proc_array
    BY <1>7, <2>2, AbsParts
  <2>4. Abs!Run(pid, [Abs!ClearTime(aPassed(pid), Called) EXCEPT ![pid].p_time_passed = @ + 1])
    BY <1>5, <2>3, AbsRun
  <2>5. pid \in aready /\ \A q \in aready : Abs!Visit(pid) <= Abs!Visit(q)
    BY <1>7, <2>2, AbsParts
  <2>6. Abs!ProportionalShare(Called)
    BY <2>4, <2>5 DEF Abs!ProportionalShare
  <2> QED BY <2>6 DEF Abs!schedule
<1> HIDE DEF ps
<1>9. Abs!Trap(proc_array'[current].p_registers)
  BY <1>1, <1>4, <1>5, <1>6, <1>8, EndOfSearch
<1>10. LoopInv'
  BY <1>1, <1>4, LeaveKeeps DEF ps
<1> QED BY <1>9, <1>10

LEMMA ShareContinue ==
  ASSUME KernAssumption, LoopInv, mode = "schedule", UNCHANGED <<tickets, console>>,
         scheduling_algorithm = 3,
         ~(pid \in Runnable(proc_array) /\ HasTurn(proc_array[pid])),
         Continue(Ring(pid), ClearTime({pid} \cap Runnable(proc_array), proc_array)),
         UNCHANGED lowest_priority
  PROVE  LoopInv' /\ UNCHANGED Abs!kernvars
<1> DEFINE R == Runnable(Called)
           T == {pid} \cap R
<1>1. /\ Searching /\ LoopTypeOK /\ current \in Pids /\ pid \in Pids
      /\ proc_array \in Procs /\ before \in Procs /\ lowest_priority' \in Int
      /\ FirstLap \/ SecondLap
  BY DEF LoopInv, Searching, LoopTypeOK
<1>2. Called \in Procs /\ R = Runnable(proc_array) /\ Ring(pid) \in Pids /\ R \subseteq Pids
  BY <1>1, CalledTable, RingNext DEF Runnable
<1>3. /\ LoopTypeOK' /\ mode' = "schedule" /\ pid' = Ring(pid)
      /\ current' = current /\ scheduling_algorithm' = scheduling_algorithm
      /\ Called' = Called /\ before' = before
      /\ UNCHANGED Abs!kernvars
  BY <1>1, <1>2, ContinueKeeps
<1>4. proc_array' = ClearTime(T, proc_array)
  BY <1>2 DEF Continue
<1>5. /\ Visit(pid) \in 0 .. NPROCS - 1
      /\ Visit(Ring(pid)) = IF Visit(pid) = NPROCS - 1 THEN 0 ELSE Visit(pid) + 1
      /\ \A q \in R : Visit(q) \in 0 .. NPROCS - 1
      /\ \A q \in R : Visit(q) = Visit(pid) => q = pid
  BY <1>1, <1>2, VisitNext
<1>6. PassedByShare' = {q \in R : Visit(q) < Visit(Ring(pid))}
  BY <1>3 DEF PassedByShare, Runnable, Visit
<1>7. CASE Visit(pid) = NPROCS - 1
  <2>1. PassedByShare' = {}
    BY <1>5, <1>6, <1>7, KernAssumption
  <2>2. PassedByShare \cup T = R
    BY <1>5, <1>7, KernAssumption DEF PassedByShare
  <2>3. SecondLap'
    <3>1. CASE FirstLap
      <4>1. proc_array' = ClearTime(R, Called)
        BY <1>2, <1>4, <2>2, <3>1, ClearedTwice DEF FirstLap
      <4>2. \A q \in R : ~HasTurn(Called[q])
        BY <1>2, <2>2, <3>1, FirstLapMeets DEF FirstLap
      <4> QED BY <1>3, <2>1, <4>1, <4>2 DEF SecondLap, Runnable, HasTurn, ClearTime
    <3>2. CASE SecondLap
      <4>1. R \cup T = R
        OBVIOUS
      <4>2. proc_array' = ClearTime(R, Called)
        BY <1>2, <1>4, <3>2, <4>1, ClearedTwice DEF SecondLap
      <4>3. \A q \in R : ~HasTurn(Called[q])
        BY <3>2 DEF SecondLap
      <4> QED BY <1>3, <2>1, <4>2, <4>3 DEF SecondLap, Runnable, HasTurn, ClearTime
    <3> QED BY <1>1, <3>1, <3>2
  <2> QED BY <1>1, <1>3, <2>3 DEF LoopInv, Searching, TrapLeft
<1>8. CASE Visit(pid) # NPROCS - 1
  <2>1. PassedByShare' = PassedByShare \cup T
    <3>1. ASSUME NEW q \in R
          PROVE  Visit(q) < Visit(pid) + 1 <=> Visit(q) < Visit(pid) \/ q = pid
      BY <1>5
    <3> QED BY <1>5, <1>6, <1>8, <3>1 DEF PassedByShare
  <2>2. CASE FirstLap
    <3>1. proc_array' = ClearTime(PassedByShare \cup T, Called)
      BY <1>2, <1>4, <2>2, ClearedTwice DEF FirstLap
    <3>2. \A q \in PassedByShare \cup T : ~HasTurn(Called[q])
      BY <1>2, <2>2, FirstLapMeets DEF FirstLap
    <3>3. FirstLap'
      <4>1. proc_array' = ClearTime(PassedByShare, Called)'
        BY <1>3, <2>1, <3>1 DEF ClearTime
      <4>2. \A q \in PassedByShare' : ~HasTurn(Called'[q])
        BY <1>3, <2>1, <3>2
      <4> QED BY <4>1, <4>2 DEF FirstLap, HasTurn
    <3> QED BY <1>1, <1>3, <3>3 DEF LoopInv, Searching, TrapLeft
  <2>3. CASE SecondLap
    <3>1. R \cup T = R
      OBVIOUS
    <3>2. proc_array' = ClearTime(R, Called)
      BY <1>2, <1>4, <2>3, <3>1, ClearedTwice DEF SecondLap
    <3>3. \A q \in R : ~HasTurn(Called[q])
      BY <2>3 DEF SecondLap
    <3>4. ASSUME pid \in R PROVE Called[pid].p_share <= 0
      <4>1. /\ Called[pid].p_share = proc_array[pid].p_share
            /\ proc_array[pid].p_share \in Int
        BY <1>1, CalledTable DEF Procs, Descriptors
      <4>2. proc_array[pid].p_time_passed = 0
        BY <1>2, <2>3, <3>4, Cleared DEF SecondLap
      <4>3. ~HasTurn(proc_array[pid])
        BY <1>2, <3>4
      <4> QED BY <4>1, <4>2, <4>3 DEF HasTurn
    <3>5. \A q \in PassedByShare' : Called[q].p_share <= 0
      BY <2>1, <2>3, <3>4 DEF SecondLap
    <3>6. SecondLap'
      BY <1>3, <3>2, <3>3, <3>5 DEF SecondLap, Runnable, HasTurn, ClearTime
    <3> QED BY <1>1, <1>3, <3>6 DEF LoopInv, Searching, TrapLeft
  <2> QED BY <1>1, <2>2, <2>3
<1> QED BY <1>3, <1>7, <1>8

-----------------------------------------------------------------------------
(* The traps.  What the handlers of interrupt() leave of the table.          *)

LEMMA SavedTable ==
  ASSUME LoopInv, mode = "user", NEW reg \in Regs
  PROVE  /\ current \in Pids /\ Saved(reg) \in Procs /\ Abs!Saved(reg) = Saved(reg)
         /\ Saved(reg)[current].p_registers = reg
         /\ \A q \in Pids :
              /\ Saved(reg)[q].p_priority = proc_array[q].p_priority
              /\ Saved(reg)[q].p_time_passed = proc_array[q].p_time_passed
<1>1. current \in Pids /\ proc_array \in Procs
  BY DEF LoopInv, LoopTypeOK
<1>2. PICK old \in Descriptors : old = proc_array[current]
  BY <1>1 DEF Procs
<1>3. /\ [old EXCEPT !.p_registers = reg] \in Descriptors
      /\ [old EXCEPT !.p_registers = reg].p_registers = reg
      /\ [old EXCEPT !.p_registers = reg].p_priority = old.p_priority
      /\ [old EXCEPT !.p_registers = reg].p_time_passed = old.p_time_passed
  BY DEF Descriptors
<1>4. Saved(reg) = [proc_array EXCEPT ![current] = [old EXCEPT !.p_registers = reg]]
  BY <1>1, <1>2 DEF Saved, Procs
<1>5. Abs!Saved(reg) = Saved(reg)
  BY AbsOutside DEF Abs!Saved, Saved
<1> QED BY <1>1, <1>2, <1>3, <1>4, <1>5 DEF Procs

(* schedule() is called with the table procs: if it can find nobody, that is *)
(* the whole trap; otherwise nothing has happened yet.                       *)
(* The tables that interrupt() calls schedule() with. *)
SavedOrExited(procs) ==
  \/ procs = [proc_array EXCEPT ![current].p_registers = procs[current].p_registers]
  \/ \E x \in Statuses :
       procs = [[proc_array EXCEPT ![current].p_registers = procs[current].p_registers]
                  EXCEPT ![current].p_state = "P_ZOMBIE",
                         ![current].p_exit_status = x]

LEMMA EnterRefines ==
  ASSUME KernAssumption, LoopInv, NEW procs \in Procs, EnterSchedule(procs),
         \A q \in Pids : /\ procs[q].p_priority = proc_array[q].p_priority
                         /\ procs[q].p_time_passed = proc_array[q].p_time_passed,
         SavedOrExited(procs),
         Abs!schedule(procs) /\ AbsMode = "user" /\ UNCHANGED <<tickets, console>> =>
           Abs!Trap(procs[current].p_registers)
  PROVE  LoopInv' /\ [Abs!Trap(proc_array'[current].p_registers)]_(Abs!kernvars)
<1>1. /\ mode = "user" /\ mode' = "schedule" /\ proc_array' = procs
      /\ pid' = current /\ lowest_priority' = INT_MAX /\ before' = proc_array
      /\ UNCHANGED <<scheduling_algorithm, current, cpu, tickets, cursorpos, screen>>
  BY DEF EnterSchedule, console
<1>2. LoopTypeOK /\ current \in Pids /\ proc_array \in Procs
  BY <1>1 DEF LoopInv, LoopTypeOK
<1>3. LoopTypeOK'
  BY <1>1, <1>2 DEF LoopTypeOK, INT_MAX
<1>4. Called' = procs
  <2>1. ASSUME NEW q \in Pids
        PROVE  [procs[q] EXCEPT !.p_time_passed = proc_array[q].p_time_passed] = procs[q]
    <3>1. PICK d \in Descriptors : d = procs[q]
      BY DEF Procs
    <3>2. [d EXCEPT !.p_time_passed = d.p_time_passed] = d
      BY DEF Descriptors
    <3> QED BY <2>1, <3>1, <3>2
  <2> QED BY <1>1, <2>1 DEF Called, Procs
<1>5. Searching'
  <2>1. TrapLeft(Called)'
    BY <1>1, <1>4 DEF TrapLeft, SavedOrExited
  <2>2. /\ NonePassed(Runnable(proc_array))' /\ NonePassed(MostUrgent(proc_array))'
        /\ LowestSeen'
    BY <1>1 DEF NonePassed, LowestSeen
  <2>3. FirstLap'
    <3>1. PassedByShare' = {q \in Runnable(procs) : Visit(q) < Visit(current)}
      BY <1>1, <1>4 DEF PassedByShare, Runnable, Visit
    <3>2. \A q \in Runnable(procs) : ~(Visit(q) < Visit(current))
      BY <1>2, KernAssumption DEF Visit, Runnable, Pids
    <3>3. PassedByShare' = {}
      BY <3>1, <3>2
    <3>4. ClearTime({}, procs) = procs
      BY ClearedNone
    <3>5. ClearTime(PassedByShare, Called)' = procs
      BY <1>4, <3>3, <3>4 DEF ClearTime
    <3> QED BY <1>1, <3>3, <3>5 DEF FirstLap
  <2> QED BY <1>1, <1>2, <1>4, <2>1, <2>2, <2>3 DEF Searching
<1>6. AbsMode = "user" /\ AbsProcs = proc_array
  BY <1>1, AbsOutside
<1>7. CASE ~Doomed'
  <2>1. UNCHANGED <<AbsMode, AbsProcs>>
    BY <1>1, <1>6, <1>7, AbsInside
  <2> QED BY <1>1, <1>3, <1>5, <2>1 DEF Abs!kernvars, LoopInv
<1>8. CASE Doomed'
  <2> DEFINE R == Runnable(procs)
  <2>1. /\ AbsMode' = "spin"
        /\ AbsProcs' = IF scheduling_algorithm = 3 THEN ClearTime(R, procs) ELSE procs
    BY <1>1, <1>8, AbsDoomed
  <2>2. scheduling_algorithm # 3 => Abs!Stop("spin", procs)
    BY <1>1, <2>1 DEF Abs!Stop
  <2>3. scheduling_algorithm = 3 => Abs!Stop("spin", ClearTime(R, procs))
    BY <1>1, <2>1 DEF Abs!Stop
  <2>4. \/ scheduling_algorithm \in {0, 2} /\ R = {}
        \/ scheduling_algorithm = 3 /\ \A p \in R : procs[p].p_share <= 0
        \/ scheduling_algorithm = 4 /\ ~Drawing /\ R = {}
        \/ scheduling_algorithm = 4 /\ Drawing /\ Holders \cap R = {}
    BY <1>1, <1>8 DEF Doomed, Runnable, Drawing, Holders
  <2>5. Abs!schedule(procs)
    <3>1. CASE scheduling_algorithm = 0 /\ R = {}
      BY <2>2, <3>1, AbsParts DEF Abs!schedule, Abs!RoundRobin, Abs!RunNext
    <3>2. CASE scheduling_algorithm = 2 /\ R = {}
      <4>1. Abs!MostUrgent(procs) = {}
        BY <3>2, AbsParts DEF MostUrgent
      <4> QED BY <2>2, <3>2, <4>1 DEF Abs!schedule, Abs!StrictPriority, Abs!RunNext
    <3>3. CASE scheduling_algorithm = 3 /\ \A p \in R : procs[p].p_share <= 0
      <4> DEFINE due == {q \in Abs!Runnable(procs) : Abs!HasTurn(procs[q])}
      <4>1. \A p \in R : /\ procs[p].p_time_passed >= 0
                         /\ procs[p].p_share \in Int /\ procs[p].p_time_passed \in Int
        BY <1>2 DEF Runnable, LoopTypeOK, Procs, Descriptors
      <4>2. \A p \in R : ~HasTurn(procs[p]) /\ ~(procs[p].p_share > 0)
        BY <3>3, <4>1 DEF HasTurn
      <4>3. due = {} /\ {q \in Abs!Runnable(procs) : procs[q].p_share > 0} = {}
        BY <4>2, AbsParts
      <4>4. Abs!Stop("spin", Abs!ClearTime(Abs!Runnable(procs), procs))
        BY <2>3, <3>3, AbsParts
      <4>5. Abs!ProportionalShare(procs)
        BY <4>3, <4>4 DEF Abs!ProportionalShare
      <4> QED BY <3>3, <4>5 DEF Abs!schedule
    <3>4. CASE scheduling_algorithm = 4 /\ ~Drawing /\ R = {}
      BY <2>2, <3>4, AbsParts DEF Abs!schedule, Abs!Lottery, Abs!RoundRobin, Abs!RunNext
    <3>5. CASE scheduling_algorithm = 4 /\ Drawing /\ Holders \cap R = {}
      BY <2>2, <3>5, AbsParts DEF Abs!schedule, Abs!Lottery
    <3> QED BY <2>4, <3>1, <3>2, <3>3, <3>4, <3>5
  <2> QED BY <1>1, <1>3, <1>5, <1>6, <2>5 DEF LoopInv, console
<1> QED BY <1>7, <1>8

LEMMA ReschedulingRefines ==
  ASSUME KernAssumption, LoopInv, NEW reg \in Regs,
         \/ CaseYield(reg) \/ CaseClock(reg) \/ \E x \in Statuses : CaseExit(reg, x)
  PROVE  LoopInv' /\ [Abs!Trap(proc_array'[current].p_registers)]_(Abs!kernvars)
<1> DEFINE old == Saved(reg)
<1>1. mode = "user"
  BY DEF CaseYield, CaseClock, CaseExit, EnterSchedule
<1>2. /\ current \in Pids /\ old \in Procs /\ Abs!Saved(reg) = old
      /\ old[current].p_registers = reg
      /\ \A q \in Pids : /\ old[q].p_priority = proc_array[q].p_priority
                         /\ old[q].p_time_passed = proc_array[q].p_time_passed
      /\ old = [proc_array EXCEPT ![current].p_registers = reg]
  BY <1>1, SavedTable DEF Saved
<1> HIDE DEF old
<1>3. CASE EnterSchedule(old)
  <2>1. Abs!schedule(old) /\ AbsMode = "user" /\ UNCHANGED <<tickets, console>> =>
          Abs!Trap(old[current].p_registers)
    BY <1>2 DEF Abs!Trap, Abs!SysYield, Abs!console, console
  <2>2. SavedOrExited(old)
    BY <1>2 DEF SavedOrExited
  <2> QED BY <1>2, <1>3, <2>1, <2>2, EnterRefines
<1>4. ASSUME NEW x \in Statuses, CaseExit(reg, x)
      PROVE  LoopInv' /\ [Abs!Trap(proc_array'[current].p_registers)]_(Abs!kernvars)
  <2>1. PICK procs : procs = [old EXCEPT ![current].p_state = "P_ZOMBIE",
                                         ![current].p_exit_status = x]
    OBVIOUS
  <2>2. PICK d \in Descriptors : d = old[current]
    BY <1>2 DEF Procs
  <2>3. PICK e : e = [d EXCEPT !.p_state = "P_ZOMBIE", !.p_exit_status = x]
    OBVIOUS
  <2>4. /\ e \in Descriptors /\ e.p_registers = d.p_registers
        /\ e.p_priority = d.p_priority /\ e.p_time_passed = d.p_time_passed
    BY <2>3, KernAssumption DEF Descriptors, States
  <2>5. procs = [old EXCEPT ![current] = e]
    BY <1>2, <2>1, <2>2, <2>3 DEF Procs
  <2>6. /\ procs \in Procs /\ procs[current].p_registers = reg
        /\ \A q \in Pids : /\ procs[q].p_priority = old[q].p_priority
                           /\ procs[q].p_time_passed = old[q].p_time_passed
    BY <1>2, <2>2, <2>4, <2>5 DEF Procs
  <2>7. EnterSchedule(procs)
    BY <1>4, <2>1 DEF CaseExit, old
  <2>8. Abs!schedule(procs) /\ AbsMode = "user" /\ UNCHANGED <<tickets, console>> =>
          Abs!Trap(procs[current].p_registers)
    <3>1. Abs!schedule(procs) /\ AbsMode = "user" /\ UNCHANGED <<tickets, console>> =>
            Abs!SysExit(reg, x)
      BY <1>2, <2>1 DEF Abs!SysExit, Abs!console, console
    <3> QED BY <2>6, <3>1 DEF Abs!Trap
  <2>9. SavedOrExited(procs)
    <3>1. procs = [[proc_array EXCEPT ![current].p_registers = procs[current].p_registers]
                     EXCEPT ![current].p_state = "P_ZOMBIE", ![current].p_exit_status = x]
      BY <1>2, <2>1, <2>6
    <3> QED BY <3>1 DEF SavedOrExited
  <2>10. \A q \in Pids : /\ procs[q].p_priority = proc_array[q].p_priority
                         /\ procs[q].p_time_passed = proc_array[q].p_time_passed
    BY <1>2, <2>6
  <2> QED BY <2>6, <2>7, <2>8, <2>9, <2>10, EnterRefines
<1> QED BY <1>3, <1>4 DEF CaseYield, CaseClock, old

(* The calls that return to the caller, and the traps that stop the machine. *)
LEMMA ReturningRefines ==
  ASSUME KernAssumption, LoopAssumption, LoopInv, NEW reg \in Regs, Returning(reg)
  PROVE  LoopInv' /\ Abs!Trap(proc_array'[current].p_registers)
<1> DEFINE old == Saved(reg)
<1>1. /\ mode = "user" /\ mode' \in {"user", "hang"} /\ UNCHANGED locals
      /\ current' = current /\ scheduling_algorithm' = scheduling_algorithm
  BY DEF Returning, SysSetPriority, SysSetShare, SysPrint, SysGetTicket, BadInterrupt,
         Run, Stop
<1>2. /\ current \in Pids /\ old \in Procs /\ Abs!Saved(reg) = old
      /\ old[current].p_registers = reg /\ LoopTypeOK
      /\ \A q \in Pids : /\ old[q].p_priority = proc_array[q].p_priority
                         /\ old[q].p_time_passed = proc_array[q].p_time_passed
  BY <1>1, SavedTable DEF LoopInv
<1>3. /\ AbsMode = "user" /\ AbsProcs = proc_array
      /\ AbsMode' = mode' /\ AbsProcs' = proc_array'
  BY <1>1, AbsOutside
<1> HIDE DEF old
<1>4. PICK d \in Descriptors : d = old[current]
  BY <1>2 DEF Procs
<1>5. \A q \in Pids : old[q].p_priority <= INT_MAX /\ old[q].p_time_passed >= 0
  BY <1>2 DEF LoopTypeOK
(* Once we know that the table keeps its type, so does the rest.             *)
<1>6. ASSUME NEW procs \in Procs, proc_array' = procs,
             \A q \in Pids : procs[q].p_priority <= INT_MAX /\ procs[q].p_time_passed >= 0,
             cpu' \in Regs,
             tickets' \in Seq(Pids), Len(tickets') <= MAX_TICKETS, cursorpos' \in Nat,
             DOMAIN screen' = DOMAIN screen
      PROVE  LoopInv'
  BY <1>1, <1>2, <1>6 DEF LoopInv, LoopTypeOK, locals, Modes
<1>7. ASSUME NEW x \in Priorities, SysSetPriority(reg, x)
      PROVE  LoopInv' /\ Abs!Trap(proc_array'[current].p_registers)
  <2>1. PICK procs : procs = [old EXCEPT ![current].p_priority = x]
    OBVIOUS
  <2>2. PICK e : e = [d EXCEPT !.p_priority = x]
    OBVIOUS
  <2>3. /\ e \in Descriptors /\ e.p_registers = d.p_registers /\ e.p_registers \in Regs
        /\ e.p_priority = x /\ e.p_time_passed = d.p_time_passed /\ x <= INT_MAX
    BY <1>7, <2>2, KernAssumption, LoopAssumption DEF Descriptors
  <2>4. procs = [old EXCEPT ![current] = e]
    BY <1>2, <1>4, <2>1, <2>2 DEF Procs
  <2>5. /\ procs \in Procs /\ procs[current] = e
        /\ \A q \in Pids : procs[q].p_priority <= INT_MAX /\ procs[q].p_time_passed >= 0
    BY <1>2, <1>4, <1>5, <2>3, <2>4 DEF Procs
  <2>6. Run(current, procs) /\ UNCHANGED <<tickets, cursorpos, screen>>
    BY <1>7, <2>1 DEF SysSetPriority, console, old
  <2>7. LoopInv'
    BY <1>2, <1>6, <2>3, <2>5, <2>6 DEF Run, LoopTypeOK
  <2>8. Abs!Run(current, procs)
    BY <2>6, AbsRun
  <2>9. Abs!SysSetPriority(reg, x)
    BY <1>2, <1>3, <2>1, <2>6, <2>8 DEF Abs!SysSetPriority, Abs!console
  <2>10. proc_array'[current].p_registers = reg
    BY <1>2, <1>4, <2>3, <2>5, <2>6 DEF Run
  <2> QED BY <2>7, <2>9, <2>10 DEF Abs!Trap
<1>8. ASSUME NEW x \in Shares, SysSetShare(reg, x)
      PROVE  LoopInv' /\ Abs!Trap(proc_array'[current].p_registers)
  <2>1. PICK procs : procs = [old EXCEPT ![current].p_share = x]
    OBVIOUS
  <2>2. PICK e : e = [d EXCEPT !.p_share = x]
    OBVIOUS
  <2>3. /\ e \in Descriptors /\ e.p_registers = d.p_registers /\ e.p_registers \in Regs
        /\ e.p_priority = d.p_priority /\ e.p_time_passed = d.p_time_passed
    BY <1>8, <2>2, KernAssumption DEF Descriptors
  <2>4. procs = [old EXCEPT ![current] = e]
    BY <1>2, <1>4, <2>1, <2>2 DEF Procs
  <2>5. /\ procs \in Procs /\ procs[current] = e
        /\ \A q \in Pids : procs[q].p_priority <= INT_MAX /\ procs[q].p_time_passed >= 0
    BY <1>2, <1>4, <1>5, <2>3, <2>4 DEF Procs
  <2>6. Run(current, procs) /\ UNCHANGED <<tickets, cursorpos, screen>>
    BY <1>8, <2>1 DEF SysSetShare, console, old
  <2>7. LoopInv'
    BY <1>2, <1>6, <2>3, <2>5, <2>6 DEF Run, LoopTypeOK
  <2>8. Abs!Run(current, procs)
    BY <2>6, AbsRun
  <2>9. Abs!SysSetShare(reg, x)
    BY <1>2, <1>3, <2>1, <2>6, <2>8 DEF Abs!SysSetShare, Abs!console
  <2>10. proc_array'[current].p_registers = reg
    BY <1>2, <1>4, <2>3, <2>5, <2>6 DEF Run
  <2> QED BY <2>7, <2>9, <2>10 DEF Abs!Trap
<1>9. reg \in Regs /\ tickets \in Seq(Pids) /\ Len(tickets) <= MAX_TICKETS
      /\ cursorpos \in Nat
  BY <1>2 DEF LoopTypeOK
<1>10. ASSUME Run(current, old)
       PROVE  /\ Abs!Run(current, old) /\ proc_array' = old /\ cpu' \in Regs
              /\ proc_array'[current].p_registers = reg
  BY <1>2, <1>9, <1>10, AbsRun DEF Run
<1>11. ASSUME NEW c \in Chars, cursorpos < CELLS, SysPrint(reg, c)
       PROVE  LoopInv' /\ Abs!Trap(proc_array'[current].p_registers)
  <2>1. /\ Run(current, old) /\ tickets' = tickets /\ cursorpos' = cursorpos + 1
        /\ screen' = [screen EXCEPT ![cursorpos] = c]
    BY <1>11 DEF SysPrint, old
  <2>2. LoopInv'
    BY <1>2, <1>5, <1>6, <1>9, <1>10, <2>1
  <2>3. Abs!SysPrint(reg, c)
    BY <1>2, <1>3, <1>10, <2>1 DEF Abs!SysPrint
  <2> QED BY <1>10, <1>11, <2>1, <2>2, <2>3 DEF Abs!Trap
<1>12. CASE SysGetTicket(reg)
  <2>1. /\ Run(current, old) /\ UNCHANGED <<cursorpos, screen>>
        /\ tickets' = IF Len(tickets) < MAX_TICKETS THEN Append(tickets, current) ELSE tickets
    BY <1>12 DEF SysGetTicket, old, console
  <2>2. tickets' \in Seq(Pids) /\ Len(tickets') <= MAX_TICKETS
    BY <1>2, <1>9, <2>1, KernAssumption DEF KernAssumption
  <2>3. LoopInv'
    BY <1>2, <1>5, <1>6, <1>9, <1>10, <2>1, <2>2
  <2>4. Abs!SysGetTicket(reg)
    BY <1>2, <1>3, <1>10, <2>1 DEF Abs!SysGetTicket, Abs!console
  <2> QED BY <1>10, <2>1, <2>3, <2>4 DEF Abs!Trap
<1>13. CASE BadInterrupt(reg)
  <2>1. /\ proc_array' = old /\ mode' = "hang"
        /\ UNCHANGED <<current, cpu, scheduling_algorithm, tickets, cursorpos, screen>>
    BY <1>13 DEF BadInterrupt, Stop, old, console
  <2>2. LoopInv'
    BY <1>2, <1>5, <1>6, <1>9, <2>1 DEF LoopTypeOK
  <2>3. Abs!BadInterrupt(reg)
    BY <1>2, <1>3, <2>1 DEF Abs!BadInterrupt, Abs!Stop, Abs!console
  <2> QED BY <1>2, <2>1, <2>2, <2>3 DEF Abs!Trap
<1> QED BY <1>7, <1>8, <1>11, <1>12, <1>13 DEF Returning

-----------------------------------------------------------------------------

LEMMA LoopInitInv ==
  ASSUME KernAssumption, LoopInit
  PROVE  LoopInv /\ Abs!Init
<1>1. IInv /\ Init /\ mode = "user" /\ pid = 0 /\ lowest_priority = INT_MAX
  BY InitIInv DEF LoopInit, Init
<1>2. \A p \in Pids : proc_array[p].p_priority \in {0, 1} /\ proc_array[p].p_time_passed = 0
  BY <1>1 DEF Init, Descriptor
<1>3. \A p \in Pids : /\ proc_array[p].p_priority <= INT_MAX
                      /\ proc_array[p].p_time_passed >= 0
  BY <1>2 DEF INT_MAX
<1>4. LoopInv
  BY <1>1, <1>3 DEF IInv, TypeOK, LoopInv, LoopTypeOK, Procs, INT_MAX, Pids, KernAssumption
<1>5. Abs!Init
  <2>1. \A p \in Pids : Abs!Descriptor(p) = Descriptor(p)
    BY DEF Abs!Descriptor, Descriptor
  <2> QED BY <1>1, <2>1, AbsOutside, AbsParts DEF Init, Abs!Init
<1> QED BY <1>4, <1>5

(* One step of the loops is one step of SchedOSKern, or none.                *)
LEMMA LoopStep ==
  ASSUME KernAssumption, LoopAssumption, LoopInv, [LoopNext]_loopvars
  PROVE  LoopInv' /\ [Abs!Trap(proc_array'[current].p_registers)]_(Abs!kernvars)
<1>1. CASE UNCHANGED loopvars
  <2>1. UNCHANGED <<scheduling_algorithm, proc_array, current, cpu, mode, tickets, cursorpos,
                    screen, pid, lowest_priority, before>>
    BY <1>1 DEF loopvars, kernvars, locals
  <2>2. LoopTypeOK' = LoopTypeOK
    BY <2>1 DEF LoopTypeOK
  <2>3. /\ Called' = Called /\ PassedByShare' = PassedByShare
        /\ Runnable(proc_array)' = Runnable(proc_array) /\ Runnable(Called)' = Runnable(Called)
        /\ MostUrgent(proc_array)' = MostUrgent(proc_array)
        /\ \A p \in Pids : HasTurn(Called[p])' = HasTurn(Called[p])
    BY <2>1 DEF Called, PassedByShare, Runnable, MostUrgent, Visit, HasTurn
  <2>4. TrapLeft(Called)' = TrapLeft(Called) /\ LowestSeen' = LowestSeen /\ Drawing' = Drawing
    BY <2>1, <2>3 DEF TrapLeft, LowestSeen, Drawing
  <2>5. /\ NonePassed(Runnable(proc_array))' = NonePassed(Runnable(proc_array))
        /\ NonePassed(MostUrgent(proc_array))' = NonePassed(MostUrgent(proc_array))
    BY <2>1, <2>3 DEF NonePassed, Ahead
  <2>6. FirstLap' = FirstLap /\ SecondLap' = SecondLap
    BY <2>1, <2>3 DEF FirstLap, SecondLap, ClearTime, HasTurn
  <2>7. LoopInv'
    BY <2>1, <2>2, <2>4, <2>5, <2>6, <2>3 DEF LoopInv, Searching
  <2>8. Doomed' = Doomed
    BY <2>1 DEF Doomed, Runnable, Drawing, Holders
  <2>9. UNCHANGED <<AbsMode, AbsProcs>>
    BY <2>1, <2>8 DEF AbsMode, AbsProcs, ClearTime, Runnable
  <2> QED BY <2>1, <2>7, <2>9 DEF Abs!kernvars
<1>2. CASE \E reg \in Regs : \/ CaseYield(reg)
                             \/ \E x \in Statuses : CaseExit(reg, x)
                             \/ allow_clock_interrupt /\ CaseClock(reg)
                             \/ Returning(reg)
  BY <1>2, ReschedulingRefines, ReturningRefines
<1>3. CASE Iteration
  <2>1. mode = "schedule" /\ UNCHANGED <<tickets, console>>
    BY <1>3 DEF Iteration
  <2>2. CASE scheduling_algorithm = 3 /\ ShareStep
    BY <2>1, <2>2, ShareLeave, ShareContinue DEF ShareStep
  <2>3. CASE ScanStep /\ (scheduling_algorithm = 0 \/ (scheduling_algorithm = 4 /\ ~Drawing))
    <3>1. UNCHANGED <<tickets, console>> /\ mode = "schedule" /\ ScanStep
      BY <2>1, <2>3
    <3> QED BY <2>3, <3>1, ScanRefines
  <2>4. CASE \/ scheduling_algorithm = 1 /\ InOrderStep
             \/ scheduling_algorithm = 2 /\ PriorityStep
    BY <2>1, <2>4, InOrderRefines, PriorityRefines
  <2>5. \/ ScanStep /\ (scheduling_algorithm = 0 \/ (scheduling_algorithm = 4 /\ ~Drawing))
        \/ scheduling_algorithm = 1 /\ InOrderStep
        \/ scheduling_algorithm = 2 /\ PriorityStep
        \/ scheduling_algorithm = 3 /\ ShareStep
    BY <1>3 DEF Iteration
  <2> QED BY <2>2, <2>3, <2>4, <2>5
<1>4. CASE \E p \in Pids : Draw(p)
  BY <1>4, DrawRefines
<1> QED BY <1>1, <1>2, <1>3, <1>4 DEF LoopNext

(* The five searches of schedule(), iteration by iteration, compute what     *)
(* SchedOSKern says they do (schedos-kern.c:231-310).                        *)
THEOREM LoopsImplementKern == LoopSpec => ImplementsKern
<1> DEFINE AbsNext == Abs!Trap(proc_array'[current].p_registers)
<1>1. LoopInit => LoopInv /\ Abs!Init
  BY KernAssumption, LoopInitInv
<1>2. LoopInv /\ [LoopNext]_loopvars => LoopInv' /\ [AbsNext]_(Abs!kernvars)
  BY KernAssumption, LoopAssumption, LoopStep
<1> QED BY <1>1, <1>2, PTL DEF LoopSpec, ImplementsKern

-----------------------------------------------------------------------------
(***************************************************************************)
(* The way of a trap, for any entry points and stacks, whatever values the *)
(* registers hold and whatever the kernel's code leaves in them.           *)
(*                                                                         *)
(* MachInv follows the registers of a process through a trap: they are in  *)
(* the processor, then partly on the kernel stack, where each word lies    *)
(* where registers_t expects it (Laid), then in the descriptor (Match),    *)
(* where they stay until run() pops them.  With it, every step of the      *)
(* machine is a step of SchedOSLoop, or none.                              *)
(***************************************************************************)

(* What a process may have in its registers. *)
Contexts == {c \in [Registers -> Int] : c["cs"] = APP_CODE /\ Bit(c["eflags"], 9)}

(* The frame of a process that has seen the context c. *)
Match(frame, c) == \A r \in Registers : Field(frame, r) = c[r]

(* Phases in which the registers of `current' are not in its descriptor. *)
Away == phase \in {"user", "stub", "generic", "interrupt"} \/ mode = "hang"

Scratch == {"edi", "esi", "ebp", "ebx", "edx", "ecx", "eax", "es", "ds"}

(* The words are the last ones of the frame of a process that has seen c. *)
Tops(words, c) ==
  \A n \in 1 .. Len(words) :
    LET r == registers_t[Len(registers_t) - Len(words) + n]
    IN  r \in Registers => words[n] = c[r]

Laid == Tops(stack, ctx[current])

(* What the stub of number v pushes. *)
Pushed(v) == IF v \in Exceptions THEN 0 ELSE v

StackInv ==
  /\ stack \in Seq(Int)
  /\ phase = "stub" => /\ Len(stack) = IF trap.number = 13 THEN 6 ELSE 5
                       /\ Laid
  /\ phase = "generic" => /\ Len(stack) = IF trap.number = 0 THEN 6 ELSE 7
                          /\ stack[1] = Pushed(trap.number)
                          /\ Laid
  /\ phase = "interrupt" => /\ Len(stack) = IF trap.number = 0 THEN 16 ELSE 17
                            /\ stack[11] = Pushed(trap.number)
                            /\ trap.number # 0 => Laid
  /\ phase \in {"user", "kernel", "run"} => stack = <<>>

TrapInv ==
  phase \in {"stub", "generic", "interrupt"} =>
    /\ trap.number \in SystemCalls \cup Exceptions \cup {INT_CLOCK}
    /\ trap.source = "irq" <=> trap.number = INT_CLOCK
    /\ trap.source = "irq" => allow_clock_interrupt
    /\ ctx[current]["eax"] \in Arguments(trap.number)
    /\ trap.number = INT_SYS_USER3 => cursorpos < CELLS

Chips == [awaits : {<<>>}, mask : SUBSET (0 .. 7), irr : SUBSET (0 .. 7), isr : {{}},
          aeoi : BOOLEAN, offset : Int]

PicInv ==
  /\ pic \in [{IO_PIC1, IO_PIC2} -> Chips]
  /\ pic[IO_PIC1].offset = INT_CLOCK /\ pic[IO_PIC1].aeoi
  /\ pic[IO_PIC1].mask = IF allow_clock_interrupt THEN 1 .. 7 ELSE 0 .. 7
  /\ pic[IO_PIC2].mask = 0 .. 7

ContextInv ==
  /\ hw \in [Registers -> Int]
  /\ ctx \in [Apps -> Contexts]
  /\ phase = "user" => hw = ctx[current]
  /\ phase # "user" => ~Bit(hw["eflags"], 9)
  /\ phase \in {"stub", "generic"} => \A r \in Scratch : hw[r] = ctx[current][r]
  /\ \A p \in Apps : p # current \/ ~Away => Match(proc_array[p].p_registers, ctx[p])
  /\ phase = "run" => cpu = proc_array[current].p_registers

PhaseInv ==
  /\ phase \in Phases
  /\ phase # "kernel" <=> mode = "user"
  /\ current # 0
  /\ proc_array[0].p_state = "P_EMPTY"

MachInv == LoopInv /\ PhaseInv /\ ContextInv /\ StackInv /\ TrapInv /\ PicInv

-----------------------------------------------------------------------------
(* The layout of the frame. *)

LEMMA Positions ==
  /\ DOMAIN registers_t = 1 .. 17 /\ Len(registers_t) = 17
  /\ DOMAIN Popped = 1 .. 17
BY DEF registers_t, Popped

(* A name stands in one place only, the same for interrupt() and run().      *)
LEMMA Places ==
  ASSUME NEW n \in 1 .. 17
  PROVE  /\ (CHOOSE m \in DOMAIN registers_t : registers_t[m] = registers_t[n]) = n
         /\ registers_t[n] \in Registers =>
              (CHOOSE m \in DOMAIN Popped : Popped[m] = registers_t[n]) = n
<1>1. n \in {1, 2, 3, 4, 5, 6, 7, 8, 9, 10, 11, 12, 13, 14, 15, 16, 17}
  OBVIOUS
<1>2. ASSUME NEW m \in 1 .. 17, registers_t[m] = registers_t[n]
      PROVE  m = n
  <2>1. m \in {1, 2, 3, 4, 5, 6, 7, 8, 9, 10, 11, 12, 13, 14, 15, 16, 17}
    OBVIOUS
  <2> QED BY <1>1, <1>2, <2>1 DEF registers_t
<1>3. ASSUME NEW m \in 1 .. 17, registers_t[n] \in Registers, Popped[m] = registers_t[n]
      PROVE  m = n
  <2>1. m \in {1, 2, 3, 4, 5, 6, 7, 8, 9, 10, 11, 12, 13, 14, 15, 16, 17}
    OBVIOUS
  <2> QED BY <1>1, <1>3, <2>1 DEF registers_t, Popped, Registers
<1>4. registers_t[n] \in Registers => Popped[n] = registers_t[n]
  BY <1>1 DEF registers_t, Popped, Registers
<1> QED BY <1>2, <1>3, <1>4, Positions

LEMMA Named ==
  ASSUME NEW r \in Registers
  PROVE  \E n \in 1 .. 17 : registers_t[n] = r
<1>1. /\ registers_t[1] = "edi" /\ registers_t[2] = "esi" /\ registers_t[3] = "ebp"
      /\ registers_t[5] = "ebx" /\ registers_t[6] = "edx" /\ registers_t[7] = "ecx"
      /\ registers_t[8] = "eax" /\ registers_t[9] = "es" /\ registers_t[10] = "ds"
      /\ registers_t[13] = "eip" /\ registers_t[14] = "cs" /\ registers_t[15] = "eflags"
      /\ registers_t[16] = "esp" /\ registers_t[17] = "ss"
  BY DEF registers_t
<1> QED BY <1>1 DEF Registers

LEMMA Fields ==
  ASSUME NEW frame, NEW n \in 1 .. 17
  PROVE  Field(frame, registers_t[n]) = frame[n]
BY Places DEF Field

(* run() pops what interrupt() calls by that name.                           *)
LEMMA Pops ==
  ASSUME NEW frame, NEW r \in Registers
  PROVE  frame[CHOOSE n \in DOMAIN Popped : Popped[n] = r] = Field(frame, r)
<1>1. PICK n \in 1 .. 17 : registers_t[n] = r
  BY Named
<1> QED BY <1>1, Places, Fields

-----------------------------------------------------------------------------
(* Bits. *)

LEMMA Flag ==
  /\ \A e : Bit(e, 9) <=> (e \div 512) % 2 = 1
  /\ ~Bit(0, 9) /\ Bit(EFLAGS_IF, 9)
  /\ \A e \in Int : WithoutIF(e) \in Int /\ ~Bit(WithoutIF(e), 9)
<1>1. 2 ^ 9 = 512
  OBVIOUS
<1>2. \A e : Bit(e, 9) <=> (e \div 512) % 2 = 1
  BY <1>1 DEF Bit
<1>3. ~Bit(0, 9) /\ Bit(EFLAGS_IF, 9)
  BY <1>2 DEF EFLAGS_IF
<1>4. ASSUME NEW e \in Int, (e \div 512) % 2 = 1
      PROVE  ((e - 512) \div 512) % 2 # 1
  <2>1. (e - 512) \div 512 = (e \div 512) - 1
    OBVIOUS
  <2>2. \A q \in Int : q % 2 = 1 => (q - 1) % 2 # 1
    OBVIOUS
  <2>3. e \div 512 \in Int
    OBVIOUS
  <2> QED BY <1>4, <2>1, <2>2, <2>3
<1>5. \A e \in Int : WithoutIF(e) \in Int /\ ~Bit(WithoutIF(e), 9)
  BY <1>2, <1>4 DEF WithoutIF, EFLAGS_IF
<1> QED BY <1>2, <1>3, <1>5

(* The bytes of interrupt_controller_init(). *)
Lines(data) == {b \in 0 .. 7 : Bit(data, b)}

LEMMA Bytes ==
  /\ Lines(255) = 0 .. 7 /\ Lines(254) = 1 .. 7
  /\ Bit(17, 4) /\ Bit(17, 0) /\ ~Bit(17, 1)
  /\ ~Bit(104, 4) /\ ~Bit(10, 4)
  /\ Bit(ICW4, 1) /\ ~Bit(1, 1)
<1>1. /\ 2 ^ 0 = 1 /\ 2 ^ 1 = 2 /\ 2 ^ 2 = 4 /\ 2 ^ 3 = 8
      /\ 2 ^ 4 = 16 /\ 2 ^ 5 = 32 /\ 2 ^ 6 = 64 /\ 2 ^ 7 = 128
  OBVIOUS
<1>2. \A b \in 0 .. 7 : b \in {0, 1, 2, 3, 4, 5, 6, 7}
  OBVIOUS
<1>3. \A b \in 0 .. 7 : Bit(255, b)
  <2>1. /\ Bit(255, 0) /\ Bit(255, 1) /\ Bit(255, 2) /\ Bit(255, 3)
        /\ Bit(255, 4) /\ Bit(255, 5) /\ Bit(255, 6) /\ Bit(255, 7)
    BY <1>1 DEF Bit
  <2> QED BY <2>1, <1>2
<1>4. \A b \in 0 .. 7 : Bit(254, b) <=> b # 0
  <2>1. /\ ~Bit(254, 0) /\ Bit(254, 1) /\ Bit(254, 2) /\ Bit(254, 3)
        /\ Bit(254, 4) /\ Bit(254, 5) /\ Bit(254, 6) /\ Bit(254, 7)
    BY <1>1 DEF Bit
  <2> QED BY <2>1, <1>2
<1>5. Bit(17, 4) /\ Bit(17, 0) /\ ~Bit(17, 1) /\ ~Bit(104, 4) /\ ~Bit(10, 4)
  BY <1>1 DEF Bit
<1>6. Bit(ICW4, 1) /\ ~Bit(1, 1)
  BY <1>1 DEF Bit, ICW4
<1> QED BY <1>3, <1>4, <1>5, <1>6 DEF Lines

-----------------------------------------------------------------------------
(* The interrupt controllers after interrupt_controller_init(). *)

Ports == {IO_PIC1, IO_PIC2}

LEMMA OnePort ==
  ASSUME NEW pics, NEW data, NEW port \in Ports, DOMAIN pics = Ports, NEW a0 \in {0, 1},
         NEW a, a = port + a0
  PROVE  /\ DOMAIN Outb(pics, <<a, data>>) = Ports
         /\ Outb(pics, <<a, data>>)[port] = Written(pics[port], a0, data)
         /\ \A other \in Ports : other # port => Outb(pics, <<a, data>>)[other] = pics[other]
<1>1. /\ DOMAIN Outb(pics, <<a, data>>) = DOMAIN pics
      /\ \A q \in DOMAIN pics :
           /\ a = q \/ a = q + 1 => Outb(pics, <<a, data>>)[q] = Written(pics[q], a - q, data)
           /\ a # q /\ a # q + 1 => Outb(pics, <<a, data>>)[q] = pics[q]
  <2>1. <<a, data>>[1] = a /\ <<a, data>>[2] = data
    OBVIOUS
  <2>2. Outb(pics, <<a, data>>) =
          [q \in DOMAIN pics |->
             IF a \in {q, q + 1} THEN Written(pics[q], a - q, data) ELSE pics[q]]
    BY <2>1 DEF Outb
  <2>3. \A q \in DOMAIN pics :
          Outb(pics, <<a, data>>)[q] =
             IF a \in {q, q + 1} THEN Written(pics[q], a - q, data) ELSE pics[q]
    BY <2>2, Zenon
  <2> QED BY <2>2, <2>3
<1>2. /\ a - port = a0 /\ (a = port \/ a = port + 1)
      /\ \A other \in Ports : other # port => a # other /\ a # other + 1
  BY DEF Ports, IO_PIC1, IO_PIC2
<1>3. DOMAIN Outb(pics, <<a, data>>) = Ports
  BY <1>1
<1>4. Outb(pics, <<a, data>>)[port] = Written(pics[port], a - port, data)
  BY <1>1, <1>2, Zenon
<1>5. \A other \in Ports : other # port => Outb(pics, <<a, data>>)[other] = pics[other]
  BY <1>1, <1>2, Zenon
<1> QED BY <1>2, <1>3, <1>4, <1>5

LEMMA EvenPort ==
  ASSUME NEW pics, NEW data, NEW port \in Ports, DOMAIN pics = Ports
  PROVE  /\ DOMAIN Outb(pics, <<port, data>>) = Ports
         /\ Outb(pics, <<port, data>>)[port] = Written(pics[port], 0, data)
         /\ \A other \in Ports : other # port => Outb(pics, <<port, data>>)[other] = pics[other]
<1>1. port = port + 0
  BY DEF Ports, IO_PIC1, IO_PIC2
<1> QED BY <1>1, OnePort

LEMMA OddPort ==
  ASSUME NEW pics, NEW data, NEW port \in Ports, DOMAIN pics = Ports,
         NEW after, after = Outb(pics, <<port + 1, data>>)
  PROVE  /\ DOMAIN after = Ports
         /\ after[port] = Written(pics[port], 1, data)
         /\ \A other \in Ports : other # port => after[other] = pics[other]
BY OnePort

Commands == {"ICW2", "ICW3", "ICW4"}

(* A controller, also while it is being programmed.                          *)
Controllers ==
  [awaits : Seq(Commands), mask : SUBSET (0 .. 7), irr : SUBSET (0 .. 7),
   isr : SUBSET (0 .. 7), aeoi : BOOLEAN, offset : Int]

LEMMA AsMask ==
  ASSUME NEW chip \in Controllers, chip.awaits = <<>>, NEW data,
         NEW new, new = Written(chip, 1, data)
  PROVE  /\ new \in Controllers /\ new.mask = Lines(data)
         /\ new.awaits = <<>> /\ new.isr = chip.isr
         /\ new.offset = chip.offset
         /\ new.aeoi <=> chip.aeoi
<1>1. new = [chip EXCEPT !.mask = Lines(data)]
  BY DEF Written, Lines
<1>2. Lines(data) \in SUBSET (0 .. 7)
  BY DEF Lines
<1> QED BY <1>1, <1>2 DEF Controllers

LEMMA ReadSelected ==
  ASSUME NEW chip
  PROVE  Written(chip, 0, 104) = chip /\ Written(chip, 0, 10) = chip
BY Bytes DEF Written

LEMMA Popping ==
  ASSUME NEW S, NEW s \in Seq(S), Len(s) > 0
  PROVE  /\ s # <<>> /\ Head(s) = s[1] /\ Tail(s) \in Seq(S)
         /\ Len(Tail(s)) = Len(s) - 1
         /\ Len(s) > 1 => Tail(s)[1] = s[2]
         /\ Len(s) > 2 => Tail(s)[2] = s[3]
<1>1. s # <<>>
  BY EmptySeq
<1>2. Head(s) = s[1]
  OBVIOUS
<1>3. /\ Tail(s) \in Seq(S) /\ Len(Tail(s)) = Len(s) - 1
      /\ \A i \in 1 .. Len(Tail(s)) : Tail(s)[i] = s[i + 1]
  BY <1>1, HeadTailProperties
<1>4. /\ Len(s) > 1 => 1 \in 1 .. Len(Tail(s))
      /\ Len(s) > 2 => 2 \in 1 .. Len(Tail(s))
      /\ 1 + 1 = 2 /\ 2 + 1 = 3
  BY <1>3
<1> QED BY <1>1, <1>2, <1>3, <1>4

(* ICW1, and the words that it announces. *)
LEMMA FirstWord ==
  ASSUME NEW chip \in Controllers
  PROVE  /\ Written(chip, 0, 17) \in Controllers
         /\ Written(chip, 0, 17).mask = {} /\ Written(chip, 0, 17).irr = {}
         /\ Written(chip, 0, 17).isr = {}
         /\ Len(Written(chip, 0, 17).awaits) = 3
         /\ Written(chip, 0, 17).awaits[1] = "ICW2"
         /\ Written(chip, 0, 17).awaits[2] = "ICW3"
         /\ Written(chip, 0, 17).awaits[3] = "ICW4"
<1> DEFINE s == <<"ICW2">> \o (IF Bit(17, 1) THEN <<>> ELSE <<"ICW3">>)
                           \o (IF Bit(17, 0) THEN <<"ICW4">> ELSE <<>>)
           t == <<"ICW2">> \o <<"ICW3">>
<1>1. s = t \o <<"ICW4">>
  BY Bytes
<1>2. Written(chip, 0, 17) = [chip EXCEPT !.awaits = s, !.mask = {}, !.irr = {},
                                          !.isr = {}, !.aeoi = FALSE]
  BY Bytes DEF Written
<1> HIDE DEF s
<1>3. /\ \A x \in Commands : <<x>> \in Seq(Commands) /\ Len(<<x>>) = 1 /\ <<x>>[1] = x
      /\ "ICW2" \in Commands /\ "ICW3" \in Commands /\ "ICW4" \in Commands
  BY DEF Commands
<1>4. t \in Seq(Commands) /\ Len(t) = 2 /\ t[1] = "ICW2" /\ t[2] = "ICW3"
  BY <1>3, ConcatProperties
<1> HIDE DEF t
<1>5. /\ t \o <<"ICW4">> \in Seq(Commands) /\ Len(t \o <<"ICW4">>) = 3
      /\ \A i \in 1 .. 3 : (t \o <<"ICW4">>)[i] = IF i <= 2 THEN t[i] ELSE <<"ICW4">>[i - 2]
  <2>1. PICK u \in Seq(Commands) : u = <<"ICW4">> /\ Len(u) = 1
    BY <1>3
  <2>2. /\ t \o u \in Seq(Commands) /\ Len(t \o u) = Len(t) + Len(u)
        /\ \A i \in 1 .. Len(t) + Len(u) :
             (t \o u)[i] = IF i <= Len(t) THEN t[i] ELSE u[i - Len(t)]
    BY <1>4, ConcatProperties
  <2> QED BY <1>4, <2>1, <2>2
<1>6. /\ (t \o <<"ICW4">>)[1] = t[1] /\ (t \o <<"ICW4">>)[2] = t[2]
      /\ (t \o <<"ICW4">>)[3] = <<"ICW4">>[1]
  BY <1>5
<1>7. s \in Seq(Commands) /\ Len(s) = 3 /\ s[1] = "ICW2" /\ s[2] = "ICW3" /\ s[3] = "ICW4"
  BY <1>1, <1>3, <1>4, <1>5, <1>6
<1> QED
  <2>1. PICK next : next = [chip EXCEPT !.awaits = s, !.mask = {}, !.irr = {}, !.isr = {},
                                        !.aeoi = FALSE]
    OBVIOUS
  <2>2. /\ next \in Controllers /\ next.awaits = s /\ next.mask = {}
        /\ next.irr = {} /\ next.isr = {}
    BY <1>7, <2>1 DEF Controllers
  <2> QED BY <1>2, <1>7, <2>1, <2>2

(* What a word after the first makes of the controller.                      *)
Advanced(next, chip, data) ==
  /\ next \in Controllers
  /\ next.mask = chip.mask /\ next.irr = chip.irr /\ next.isr = chip.isr
  /\ next.offset = IF chip.awaits[1] = "ICW2" THEN data ELSE chip.offset
  /\ chip.awaits[1] = "ICW4" => (next.aeoi <=> Bit(data, 1))
  /\ Len(next.awaits) = Len(chip.awaits) - 1
  /\ Len(chip.awaits) > 1 => next.awaits[1] = chip.awaits[2]
  /\ Len(chip.awaits) > 2 => next.awaits[2] = chip.awaits[3]

LEMMA NextWord ==
  ASSUME NEW chip \in Controllers, NEW data \in Int, Len(chip.awaits) > 0
  PROVE  Advanced(Written(chip, 1, data), chip, data)
<1>0. chip.awaits \in Seq(Commands)
  BY DEF Controllers
<1>1. /\ chip.awaits # <<>>
      /\ Head(chip.awaits) = chip.awaits[1] /\ Tail(chip.awaits) \in Seq(Commands)
      /\ Len(Tail(chip.awaits)) = Len(chip.awaits) - 1
      /\ Len(chip.awaits) > 1 => Tail(chip.awaits)[1] = chip.awaits[2]
      /\ Len(chip.awaits) > 2 => Tail(chip.awaits)[2] = chip.awaits[3]
  <2> DEFINE s == chip.awaits
  <2>1. s \in Seq(Commands) /\ Len(s) > 0
    BY <1>0
  <2> HIDE DEF s
  <2>2. /\ s # <<>> /\ Head(s) = s[1] /\ Tail(s) \in Seq(Commands)
        /\ Len(Tail(s)) = Len(s) - 1
        /\ Len(s) > 1 => Tail(s)[1] = s[2]
        /\ Len(s) > 2 => Tail(s)[2] = s[3]
    BY <2>1, Popping
  <2> QED BY <2>2 DEF s
<1>2. Bit(data, 1) \in BOOLEAN
  BY DEF Bit
<1>3. Written(chip, 1, data) =
        [chip EXCEPT !.awaits = Tail(@),
                     !.offset = IF Head(chip.awaits) = "ICW2" THEN data ELSE @,
                     !.aeoi = IF Head(chip.awaits) = "ICW4" THEN Bit(data, 1) ELSE @]
  BY <1>1 DEF Written
<1>4. Written(chip, 1, data).awaits = Tail(chip.awaits)
  BY <1>3 DEF Controllers
<1>5. /\ Written(chip, 1, data) \in Controllers
      /\ Written(chip, 1, data).mask = chip.mask
      /\ Written(chip, 1, data).irr = chip.irr
      /\ Written(chip, 1, data).isr = chip.isr
      /\ Written(chip, 1, data).offset =
           IF chip.awaits[1] = "ICW2" THEN data ELSE chip.offset
      /\ chip.awaits[1] = "ICW4" => (Written(chip, 1, data).aeoi <=> Bit(data, 1))
  BY <1>1, <1>2, <1>3 DEF Controllers
<1> QED BY <1>1, <1>4, <1>5 DEF Advanced

LEMMA Programmed ==
  ASSUME NEW chip \in Controllers, NEW icw2 \in Int, NEW icw3 \in Int, NEW icw4 \in Int,
         NEW done, done = Written(Written(Written(Written(chip, 0, 17), 1, icw2), 1, icw3), 1, icw4)
  PROVE  /\ done \in Controllers
         /\ done.awaits = <<>> /\ done.mask = {} /\ done.irr = {} /\ done.isr = {}
         /\ done.aeoi <=> Bit(icw4, 1)
         /\ done.offset = icw2
<1> DEFINE word1 == Written(chip, 0, 17)
           word2 == Written(word1, 1, icw2)
           word3 == Written(word2, 1, icw3)
           word4 == Written(word3, 1, icw4)
<1>1. /\ word1 \in Controllers /\ word1.mask = {} /\ word1.irr = {} /\ word1.isr = {}
      /\ Len(word1.awaits) = 3 /\ word1.awaits[1] = "ICW2"
      /\ word1.awaits[2] = "ICW3" /\ word1.awaits[3] = "ICW4"
  BY FirstWord
<1>2. done = word4
  OBVIOUS
<1> HIDE DEF word1
<1>3. /\ word2 \in Controllers /\ word2.mask = {} /\ word2.irr = {} /\ word2.isr = {}
      /\ word2.offset = icw2 /\ Len(word2.awaits) = 2
      /\ word2.awaits[1] = "ICW3" /\ word2.awaits[2] = "ICW4"
  <2>1. Len(word1.awaits) > 0
    BY <1>1
  <2>2. Advanced(word2, word1, icw2)
    BY <1>1, <2>1, NextWord
  <2> HIDE DEF word2
  <2> QED BY <1>1, <2>2 DEF Advanced
<1> HIDE DEF word2
<1>4. /\ word3 \in Controllers /\ word3.mask = {} /\ word3.irr = {} /\ word3.isr = {}
      /\ word3.offset = icw2 /\ Len(word3.awaits) = 1 /\ word3.awaits[1] = "ICW4"
  <2>1. Len(word2.awaits) > 0
    BY <1>3
  <2>2. Advanced(word3, word2, icw3)
    BY <1>3, <2>1, NextWord
  <2> HIDE DEF word3
  <2> QED BY <1>3, <2>2 DEF Advanced
<1> HIDE DEF word3
<1>5. /\ word4 \in Controllers /\ word4.mask = {} /\ word4.irr = {} /\ word4.isr = {}
      /\ word4.offset = icw2 /\ Len(word4.awaits) = 0
      /\ word4.aeoi <=> Bit(icw4, 1)
  <2>1. Len(word3.awaits) > 0
    BY <1>4
  <2>2. Advanced(word4, word3, icw4)
    BY <1>4, <2>1, NextWord
  <2> HIDE DEF word4
  <2> QED BY <1>4, <2>2 DEF Advanced
<1> HIDE DEF word4
<1>6. word4.awaits \in Seq(Commands)
  BY <1>5 DEF Controllers
<1>7. word4.awaits = <<>>
  BY <1>5, <1>6, EmptySeq
<1> QED BY <1>2, <1>5, <1>7

LEMMA Masked ==
  ASSUME NEW pics, DOMAIN pics = Ports, NEW master, NEW slave,
         \A port \in Ports : pics[port] \in Controllers /\ pics[port].awaits = <<>>,
         NEW done, done = SetMasks(pics, master, slave)
  PROVE  /\ DOMAIN done = Ports
         /\ \A port \in Ports :
              /\ done[port] \in Controllers
              /\ done[port].awaits = <<>> /\ done[port].isr = pics[port].isr
              /\ done[port].offset = pics[port].offset
              /\ done[port].aeoi <=> pics[port].aeoi
         /\ done[IO_PIC1].mask = Lines(master)
         /\ done[IO_PIC2].mask = Lines(slave)
<1> DEFINE one == Outb(pics, <<IO_PIC1 + 1, master>>)
           two == Outb(one, <<IO_PIC2 + 1, slave>>)
<1>0. /\ IO_PIC1 \in Ports /\ IO_PIC2 \in Ports /\ IO_PIC1 # IO_PIC2
      /\ \A port \in Ports : port = IO_PIC1 \/ port = IO_PIC2
  BY DEF Ports, IO_PIC1, IO_PIC2
<1>1. /\ DOMAIN one = Ports
      /\ one[IO_PIC1] = Written(pics[IO_PIC1], 1, master) /\ one[IO_PIC2] = pics[IO_PIC2]
  BY <1>0, OddPort
<1>2. done = two
  BY DEF SetMasks
<1> HIDE DEF one
<1>3. /\ DOMAIN two = Ports
      /\ two[IO_PIC1] = one[IO_PIC1] /\ two[IO_PIC2] = Written(one[IO_PIC2], 1, slave)
  BY <1>0, <1>1, OddPort
<1> HIDE DEF two
<1>4. /\ two[IO_PIC1] \in Controllers /\ two[IO_PIC1].mask = Lines(master)
      /\ two[IO_PIC1].awaits = <<>> /\ two[IO_PIC1].isr = pics[IO_PIC1].isr
      /\ two[IO_PIC1].offset = pics[IO_PIC1].offset
      /\ two[IO_PIC1].aeoi <=> pics[IO_PIC1].aeoi
  <2>1. /\ pics[IO_PIC1] \in Controllers /\ pics[IO_PIC1].awaits = <<>>
        /\ two[IO_PIC1] = Written(pics[IO_PIC1], 1, master)
    BY <1>0, <1>1, <1>3
  <2> DEFINE chip == pics[IO_PIC1]
             new == two[IO_PIC1]
  <2>2. chip \in Controllers /\ chip.awaits = <<>> /\ new = Written(chip, 1, master)
    BY <2>1
  <2> HIDE DEF chip, new
  <2>3. /\ new \in Controllers /\ new.mask = Lines(master)
        /\ new.awaits = <<>> /\ new.isr = chip.isr
        /\ new.offset = chip.offset
        /\ new.aeoi <=> chip.aeoi
    BY <2>2, AsMask
  <2> QED BY <2>3 DEF chip, new
<1>5. /\ two[IO_PIC2] \in Controllers /\ two[IO_PIC2].mask = Lines(slave)
      /\ two[IO_PIC2].awaits = <<>> /\ two[IO_PIC2].isr = pics[IO_PIC2].isr
      /\ two[IO_PIC2].offset = pics[IO_PIC2].offset
      /\ two[IO_PIC2].aeoi <=> pics[IO_PIC2].aeoi
  <2>1. /\ pics[IO_PIC2] \in Controllers /\ pics[IO_PIC2].awaits = <<>>
        /\ two[IO_PIC2] = Written(pics[IO_PIC2], 1, slave)
    BY <1>0, <1>1, <1>3
  <2> DEFINE chip == pics[IO_PIC2]
             new == two[IO_PIC2]
  <2>2. chip \in Controllers /\ chip.awaits = <<>> /\ new = Written(chip, 1, slave)
    BY <2>1
  <2> HIDE DEF chip, new
  <2>3. /\ new \in Controllers /\ new.mask = Lines(slave)
        /\ new.awaits = <<>> /\ new.isr = chip.isr
        /\ new.offset = chip.offset
        /\ new.aeoi <=> chip.aeoi
    BY <2>2, AsMask
  <2> QED BY <2>3 DEF chip, new
<1> QED BY <1>0, <1>2, <1>3, <1>4, <1>5

LEMMA CommandsGiven ==
  ASSUME NEW pics, DOMAIN pics = Ports, NEW port \in Ports, pics[port] \in Controllers,
         NEW icw2 \in Int, NEW icw3 \in Int, NEW icw4 \in Int,
         NEW done, done = CommandWords(pics, port, icw2, icw3, icw4)
  PROVE  /\ DOMAIN done = Ports
         /\ \A other \in Ports : other # port => done[other] = pics[other]
         /\ done[port] \in Controllers
         /\ done[port].awaits = <<>> /\ done[port].mask = {} /\ done[port].irr = {}
         /\ done[port].isr = {} /\ done[port].offset = icw2
         /\ done[port].aeoi <=> Bit(icw4, 1)
<1> DEFINE one == Outb(pics, <<port, 17>>)
           two == Outb(one, <<port + 1, icw2>>)
           three == Outb(two, <<port + 1, icw3>>)
           four == Outb(three, <<port + 1, icw4>>)
<1>1. /\ DOMAIN one = Ports /\ one[port] = Written(pics[port], 0, 17)
      /\ \A other \in Ports : other # port => one[other] = pics[other]
  BY EvenPort
<1>2. done = four
  BY DEF CommandWords
<1> HIDE DEF one
<1>3. /\ DOMAIN two = Ports /\ two[port] = Written(one[port], 1, icw2)
      /\ \A other \in Ports : other # port => two[other] = one[other]
  BY <1>1, OddPort
<1> HIDE DEF two
<1>4. /\ DOMAIN three = Ports /\ three[port] = Written(two[port], 1, icw3)
      /\ \A other \in Ports : other # port => three[other] = two[other]
  <2>1. DOMAIN two = Ports
    BY <1>3
  <2> QED BY <2>1, OddPort
<1> HIDE DEF three
<1>5. /\ DOMAIN four = Ports /\ four[port] = Written(three[port], 1, icw4)
      /\ \A other \in Ports : other # port => four[other] = three[other]
  BY <1>4, OddPort
<1> HIDE DEF four
<1>6. four[port] = Written(Written(Written(Written(pics[port], 0, 17), 1, icw2), 1, icw3), 1, icw4)
  BY <1>1, <1>3, <1>4, <1>5
<1>7. /\ four[port] \in Controllers
      /\ four[port].awaits = <<>> /\ four[port].mask = {} /\ four[port].irr = {}
      /\ four[port].isr = {} /\ four[port].offset = icw2
      /\ four[port].aeoi <=> Bit(icw4, 1)
  <2>1. ASSUME NEW chip \in Controllers, NEW w,
               w = Written(Written(Written(Written(chip, 0, 17), 1, icw2), 1, icw3), 1, icw4)
        PROVE  /\ w \in Controllers
               /\ w.awaits = <<>> /\ w.mask = {} /\ w.irr = {} /\ w.isr = {}
               /\ w.offset = icw2 /\ (w.aeoi <=> Bit(icw4, 1))
    BY <2>1, Programmed
  <2> QED BY <1>6, <2>1
<1>8. \A other \in Ports : other # port => four[other] = pics[other]
  BY <1>1, <1>3, <1>4, <1>5
<1> QED BY <1>2, <1>5, <1>7, <1>8

LEMMA ReadsSelected ==
  ASSUME NEW pics, DOMAIN pics = Ports, NEW port \in Ports
  PROVE  /\ DOMAIN SelectReads(pics, port) = Ports
         /\ \A other \in Ports : SelectReads(pics, port)[other] = pics[other]
<1> DEFINE one == Outb(pics, <<port, 104>>)
           two == Outb(one, <<port, 10>>)
<1>1. DOMAIN one = Ports /\ \A other \in Ports : one[other] = pics[other]
  BY EvenPort, ReadSelected
<1>2. SelectReads(pics, port) = two
  BY DEF SelectReads
<1> HIDE DEF one
<1>3. DOMAIN two = Ports /\ \A other \in Ports : two[other] = one[other]
  BY <1>1, EvenPort, ReadSelected
<1> QED BY <1>1, <1>2, <1>3

(* interrupt_controller_init() leaves both controllers ready, the master at  *)
(* vector 32 with automatic end of interrupt, and only the timer enabled, if *)
(* anything.                                                                 *)
LEMMA InitPic ==
  ASSUME KernAssumption, pic = interrupt_controller_init
  PROVE  PicInv
<1> DEFINE masked == SetMasks(BiosPic, 255, 255)
           master == CommandWords(masked, IO_PIC1, INT_HARDWARE, 2 ^ IRQ_SLAVE, ICW4)
           slave  == CommandWords(master, IO_PIC2, INT_HARDWARE + 8, IRQ_SLAVE, 1)
           ready1 == SelectReads(slave, IO_PIC1)
           ready  == SelectReads(ready1, IO_PIC2)
           word   == IF allow_clock_interrupt THEN 254 ELSE 255
           done   == SetMasks(ready, word, 255)
<1>1. /\ IO_PIC1 \in Ports /\ IO_PIC2 \in Ports /\ IO_PIC1 # IO_PIC2
      /\ Ports = {IO_PIC1, IO_PIC2}
  BY DEF Ports, IO_PIC1, IO_PIC2
<1>2. /\ INT_HARDWARE \in Int /\ 2 ^ IRQ_SLAVE \in Int /\ ICW4 \in Int
      /\ INT_HARDWARE + 8 \in Int /\ IRQ_SLAVE \in Int
  <2>1. 2 ^ 2 = 4
    OBVIOUS
  <2> QED BY <2>1 DEF INT_HARDWARE, IRQ_SLAVE, ICW4
<1>3. pic = done
  BY DEF interrupt_controller_init
<1>4. /\ DOMAIN BiosPic = Ports
      /\ \A port \in Ports : BiosPic[port] \in Controllers /\ BiosPic[port].awaits = <<>>
  <2>1. \A port \in Ports :
          BiosPic[port] = [awaits |-> <<>>, mask |-> {}, irr |-> {0}, isr |-> {},
                           aeoi |-> FALSE, offset |-> IF port = IO_PIC1 THEN 8 ELSE 112]
    BY <1>1 DEF BiosPic
  <2>2. <<>> \in Seq(Commands)
    BY EmptySeq
  <2> QED BY <1>1, <2>1, <2>2 DEF BiosPic, Controllers
<1>5. DOMAIN masked = Ports /\ \A port \in Ports : masked[port] \in Controllers
  BY <1>4, Masked
<1> HIDE DEF masked
<1>6. /\ DOMAIN master = Ports /\ master[IO_PIC2] = masked[IO_PIC2]
      /\ master[IO_PIC1] \in Controllers /\ master[IO_PIC1].awaits = <<>>
      /\ master[IO_PIC1].isr = {} /\ master[IO_PIC1].offset = INT_HARDWARE
      /\ master[IO_PIC1].aeoi <=> Bit(ICW4, 1)
  <2>1. IO_PIC1 \in Ports /\ masked[IO_PIC1] \in Controllers /\ DOMAIN masked = Ports
    BY <1>1, <1>5
  <2>2. /\ DOMAIN master = Ports
        /\ \A other \in Ports : other # IO_PIC1 => master[other] = masked[other]
        /\ master[IO_PIC1] \in Controllers
        /\ master[IO_PIC1].awaits = <<>> /\ master[IO_PIC1].mask = {}
        /\ master[IO_PIC1].irr = {} /\ master[IO_PIC1].isr = {}
        /\ master[IO_PIC1].offset = INT_HARDWARE
        /\ master[IO_PIC1].aeoi <=> Bit(ICW4, 1)
    BY <1>2, <2>1, CommandsGiven
  <2> HIDE DEF master
  <2> QED BY <1>1, <2>2
<1> HIDE DEF master
<1>7. /\ DOMAIN slave = Ports /\ slave[IO_PIC1] = master[IO_PIC1]
      /\ slave[IO_PIC2] \in Controllers /\ slave[IO_PIC2].awaits = <<>>
      /\ slave[IO_PIC2].isr = {}
  <2>1. /\ IO_PIC2 \in Ports /\ master[IO_PIC2] \in Controllers
        /\ DOMAIN master = Ports /\ 1 \in Int
    BY <1>1, <1>5, <1>6
  <2>2. /\ DOMAIN slave = Ports
        /\ \A other \in Ports : other # IO_PIC2 => slave[other] = master[other]
        /\ slave[IO_PIC2] \in Controllers
        /\ slave[IO_PIC2].awaits = <<>> /\ slave[IO_PIC2].mask = {}
        /\ slave[IO_PIC2].irr = {} /\ slave[IO_PIC2].isr = {}
        /\ slave[IO_PIC2].offset = INT_HARDWARE + 8
        /\ slave[IO_PIC2].aeoi <=> Bit(1, 1)
    BY <1>2, <2>1, CommandsGiven
  <2> HIDE DEF slave
  <2> QED BY <1>1, <2>2
<1> HIDE DEF slave
<1>8. DOMAIN ready1 = Ports /\ \A port \in Ports : ready1[port] = slave[port]
  BY <1>1, <1>7, ReadsSelected
<1> HIDE DEF ready1
<1>9. DOMAIN ready = Ports /\ \A port \in Ports : ready[port] = slave[port]
  BY <1>1, <1>8, ReadsSelected
<1> HIDE DEF ready
<1>10. /\ \A port \in Ports : ready[port] \in Controllers /\ ready[port].awaits = <<>>
       /\ ready[IO_PIC1] = master[IO_PIC1] /\ ready[IO_PIC2].isr = {}
  BY <1>1, <1>6, <1>7, <1>9
<1>11. Lines(word) = IF allow_clock_interrupt THEN 1 .. 7 ELSE 0 .. 7
  BY Bytes
<1> HIDE DEF word
<1>12. /\ DOMAIN done = Ports
       /\ \A port \in Ports :
            /\ done[port] \in Controllers
            /\ done[port].awaits = <<>> /\ done[port].isr = ready[port].isr
            /\ done[port].offset = ready[port].offset
            /\ done[port].aeoi <=> ready[port].aeoi
       /\ done[IO_PIC1].mask = Lines(word)
       /\ done[IO_PIC2].mask = Lines(255)
  BY <1>9, <1>10, Masked
<1>13. done = [port \in Ports |-> done[port]]
  BY <1>12 DEF SetMasks, Outb, done
<1> HIDE DEF done
<1>14. \A chip \in Controllers : chip.awaits = <<>> /\ chip.isr = {} => chip \in Chips
  BY DEF Controllers, Chips
<1>15. \A port \in Ports : done[port] \in Chips
  BY <1>1, <1>6, <1>7, <1>9, <1>12, <1>14
<1>16. done[IO_PIC1].offset = INT_CLOCK /\ done[IO_PIC1].aeoi
  BY <1>1, <1>6, <1>10, <1>12, Bytes DEF INT_HARDWARE, INT_CLOCK
<1> QED BY <1>1, <1>3, <1>11, <1>12, <1>13, <1>15, <1>16, Bytes DEF PicInv

-----------------------------------------------------------------------------
(* Requests for an interrupt. *)

(* Only the timer is ever served: it asks at vector 32, and nobody else.     *)
LEMMA OnlyTheTimer ==
  ASSUME PicInv
  PROVE  /\ Asking(Slave) = {} /\ Master = pic[IO_PIC1]
         /\ InterruptPending => /\ allow_clock_interrupt
                                /\ Asking(Master) = {0} /\ Highest(Asking(Master)) = 0
                                /\ Vector = INT_CLOCK
<1>1. /\ pic[IO_PIC1] \in Chips /\ pic[IO_PIC2] \in Chips
      /\ pic[IO_PIC1].offset = INT_CLOCK
      /\ pic[IO_PIC1].mask = IF allow_clock_interrupt THEN 1 .. 7 ELSE 0 .. 7
      /\ pic[IO_PIC2].mask = 0 .. 7
  BY DEF PicInv
<1>2. Asking(Slave) = {}
  <2>1. pic[IO_PIC2].irr \subseteq 0 .. 7
    BY <1>1 DEF Chips
  <2> QED BY <1>1, <2>1 DEF Asking, Slave
<1>3. Master = pic[IO_PIC1]
  <2>1. \A chip \in Chips : [chip EXCEPT !.irr = @ \cup {}] = chip
    <3> SUFFICES ASSUME NEW chip \in Chips
                 PROVE  [chip EXCEPT !.irr = @ \cup {}] = chip
      OBVIOUS
    <3>1. chip.irr \cup {} = chip.irr
      OBVIOUS
    <3>2. [chip EXCEPT !.irr = chip.irr \cup {}] = [chip EXCEPT !.irr = chip.irr]
      BY <3>1
    <3> QED BY <3>2 DEF Chips
  <2> QED BY <1>1, <1>2, <2>1 DEF Master
<1>4. Asking(Master) \subseteq {0} /\ (Asking(Master) # {} => allow_clock_interrupt)
  <2>1. pic[IO_PIC1].irr \subseteq 0 .. 7
    BY <1>1 DEF Chips
  <2> QED BY <1>1, <1>3, <2>1 DEF Asking
<1>5. ASSUME InterruptPending
      PROVE  Asking(Master) = {0} /\ Highest(Asking(Master)) = 0
  <2>1. Asking(Master) = {0}
    BY <1>4, <1>5 DEF InterruptPending
  <2> QED BY <2>1 DEF Highest
<1>6. InterruptPending => Vector = INT_CLOCK
  BY <1>1, <1>3, <1>5 DEF Vector, IRQ_SLAVE, INT_CLOCK
<1> QED BY <1>2, <1>3, <1>4, <1>5, <1>6 DEF InterruptPending

LEMMA LineRises ==
  ASSUME PicInv, NEW irq \in 0 .. 15, Raise(irq)
  PROVE  PicInv'
<1> DEFINE port == IF irq < 8 THEN IO_PIC1 ELSE IO_PIC2
<1>1. /\ pic \in [{IO_PIC1, IO_PIC2} -> Chips]
      /\ pic[IO_PIC1].offset = INT_CLOCK /\ pic[IO_PIC1].aeoi
      /\ pic[IO_PIC1].mask = IF allow_clock_interrupt THEN 1 .. 7 ELSE 0 .. 7
      /\ pic[IO_PIC2].mask = 0 .. 7
  BY DEF PicInv
<1>2. port \in {IO_PIC1, IO_PIC2}
  OBVIOUS
<1>3. pic' = [pic EXCEPT ![port].irr = @ \cup {irq % 8}]
  BY DEF Raise
<1> HIDE DEF port
<1>4. PICK chip \in Chips : chip = pic[port]
  BY <1>1, <1>2
<1>5. PICK new : new = [chip EXCEPT !.irr = chip.irr \cup {irq % 8}]
  OBVIOUS
<1>6. irq % 8 \in 0 .. 7
  OBVIOUS
<1>7. /\ new \in Chips /\ new.offset = chip.offset /\ new.mask = chip.mask
      /\ new.aeoi <=> chip.aeoi
  BY <1>5, <1>6 DEF Chips
<1>8. pic' = [pic EXCEPT ![port] = new]
  BY <1>3, <1>4, <1>5
<1>9. pic' \in [{IO_PIC1, IO_PIC2} -> Chips]
  BY <1>1, <1>2, <1>7, <1>8
<1>10. ASSUME NEW other \in {IO_PIC1, IO_PIC2}
       PROVE  /\ pic'[other].offset = pic[other].offset
              /\ pic'[other].mask = pic[other].mask
              /\ pic'[other].aeoi <=> pic[other].aeoi
  BY <1>1, <1>2, <1>4, <1>7, <1>8
<1>11. /\ pic'[IO_PIC1].offset = pic[IO_PIC1].offset
       /\ pic'[IO_PIC1].mask = pic[IO_PIC1].mask
       /\ pic'[IO_PIC1].aeoi <=> pic[IO_PIC1].aeoi
       /\ pic'[IO_PIC2].mask = pic[IO_PIC2].mask
  BY <1>10, Zenon
<1> QED BY <1>1, <1>9, <1>11 DEF PicInv

(* Acknowledged, the request is gone: with automatic end of interrupt the    *)
(* line is not in service either, so that the next tick will be served.      *)
LEMMA LineAcknowledged ==
  ASSUME PicInv, InterruptPending,
         pic' = [port \in DOMAIN pic |->
                   CASE port = IO_PIC1 -> Acknowledged(Master, Highest(Asking(Master)))
                     [] port = IO_PIC2 ->
                          IF Highest(Asking(Master)) = IRQ_SLAVE
                            THEN Acknowledged(Slave, Highest(Asking(Slave))) ELSE Slave]
  PROVE  PicInv'
<1>1. /\ pic \in [{IO_PIC1, IO_PIC2} -> Chips]
      /\ pic[IO_PIC1].offset = INT_CLOCK /\ pic[IO_PIC1].aeoi
      /\ pic[IO_PIC1].mask = IF allow_clock_interrupt THEN 1 .. 7 ELSE 0 .. 7
      /\ pic[IO_PIC2].mask = 0 .. 7
      /\ IO_PIC1 # IO_PIC2
  BY DEF PicInv, IO_PIC1, IO_PIC2
<1>2. Master = pic[IO_PIC1] /\ Highest(Asking(Master)) = 0
  BY OnlyTheTimer
<1>3. pic'[IO_PIC1] = Acknowledged(pic[IO_PIC1], 0)
  BY <1>1, <1>2
<1>4. pic'[IO_PIC2] = pic[IO_PIC2]
  BY <1>1, <1>2 DEF IRQ_SLAVE, Slave
<1>5. PICK chip \in Chips : chip = pic[IO_PIC1]
  BY <1>1
<1>6. Acknowledged(chip, 0) = [chip EXCEPT !.irr = chip.irr \ {0}, !.isr = chip.isr]
  BY <1>1, <1>5 DEF Acknowledged
<1>7. PICK new : new = Acknowledged(chip, 0)
  OBVIOUS
<1>8. /\ new \in Chips /\ new.offset = chip.offset /\ new.mask = chip.mask
      /\ new.aeoi <=> chip.aeoi
  BY <1>6, <1>7 DEF Chips
<1>9. DOMAIN pic' = {IO_PIC1, IO_PIC2} /\ pic' = [port \in {IO_PIC1, IO_PIC2} |-> pic'[port]]
  BY <1>1
<1> QED BY <1>1, <1>3, <1>4, <1>5, <1>7, <1>8, <1>9 DEF PicInv

-----------------------------------------------------------------------------
(* What the kernel does to the saved registers. *)

(* interrupt() saves the frame that it is given, and if it returns, it       *)
(* returns with what it saved.                                               *)
LEMMA TrapSaves ==
  ASSUME LoopInv, current \in Apps, NEW reg \in Regs,
         \/ CaseYield(reg) \/ CaseClock(reg) \/ \E x \in Statuses : CaseExit(reg, x)
         \/ \E x \in Priorities : SysSetPriority(reg, x)
         \/ \E x \in Shares : SysSetShare(reg, x)
         \/ \E c \in Chars : SysPrint(reg, c)
         \/ SysGetTicket(reg) \/ BadInterrupt(reg)
  PROVE  /\ \A p \in Pids \ {current} : proc_array'[p] = proc_array[p]
         /\ proc_array'[current].p_registers = reg
         /\ current' = current /\ mode' \in {"user", "schedule", "hang"}
         /\ mode' = "user" => cpu' = proc_array'[current'].p_registers
<1>1. proc_array \in Procs /\ current \in Pids
  BY DEF LoopInv, LoopTypeOK, Apps
<1>2. PICK d \in Descriptors : d = proc_array[current]
  BY <1>1 DEF Procs
<1>3. PICK e : e = [d EXCEPT !.p_registers = reg]
  OBVIOUS
<1>4. e \in Descriptors /\ e.p_registers = reg
  BY <1>3 DEF Descriptors
<1>5. Saved(reg) = [proc_array EXCEPT ![current] = e]
  BY <1>2, <1>3 DEF Saved
<1> DEFINE Replaced(new) == [proc_array EXCEPT ![current] = new]
<1>6. ASSUME NEW new, new.p_registers = reg, proc_array' = Replaced(new)
      PROVE  /\ \A p \in Pids \ {current} : proc_array'[p] = proc_array[p]
             /\ proc_array'[current].p_registers = reg
  BY <1>1, <1>6 DEF Procs
<1>7. ASSUME NEW procs, Run(current, procs)
      PROVE  /\ proc_array' = procs /\ current' = current /\ mode' = "user"
             /\ cpu' = procs[current].p_registers
  BY <1>7 DEF Run
<1>8. CASE CaseYield(reg) \/ CaseClock(reg)
  <2>1. /\ proc_array' = Replaced(e) /\ current' = current /\ mode' = "schedule"
    BY <1>5, <1>8 DEF CaseYield, CaseClock, EnterSchedule
  <2> HIDE DEF Replaced
  <2> QED BY <1>4, <1>6, <2>1
<1>9. CASE \E x \in Statuses : CaseExit(reg, x)
  <2>1. PICK x \in Statuses : CaseExit(reg, x)
    BY <1>9
  <2>2. PICK f : f = [e EXCEPT !.p_state = "P_ZOMBIE", !.p_exit_status = x]
    OBVIOUS
  <2>3. f.p_registers = reg
    BY <1>4, <2>2 DEF Descriptors
  <2>4. /\ proc_array' = [Saved(reg) EXCEPT ![current].p_state = "P_ZOMBIE",
                                            ![current].p_exit_status = x]
        /\ current' = current /\ mode' = "schedule"
    BY <2>1 DEF CaseExit, EnterSchedule
  <2>5. proc_array' = Replaced(f)
    BY <1>1, <1>5, <2>2, <2>4 DEF Procs
  <2> HIDE DEF Replaced
  <2> QED BY <1>6, <2>3, <2>4, <2>5
<1>10. ASSUME NEW new, new.p_registers = reg, Run(current, Replaced(new))
       PROVE  /\ \A p \in Pids \ {current} : proc_array'[p] = proc_array[p]
              /\ proc_array'[current].p_registers = reg
              /\ current' = current /\ mode' \in {"user", "schedule", "hang"}
              /\ mode' = "user" => cpu' = proc_array'[current'].p_registers
  <2> HIDE DEF Replaced
  <2>1. /\ proc_array' = Replaced(new) /\ current' = current /\ mode' = "user"
        /\ cpu' = Replaced(new)[current].p_registers
    BY <1>7, <1>10
  <2> QED BY <1>6, <1>10, <2>1
<1>11. CASE \E x \in Priorities : SysSetPriority(reg, x)
  <2>1. PICK x \in Priorities : SysSetPriority(reg, x)
    BY <1>11
  <2>2. PICK f : f = [e EXCEPT !.p_priority = x]
    OBVIOUS
  <2>3. f.p_registers = reg
    BY <1>4, <2>2 DEF Descriptors
  <2>4. [Saved(reg) EXCEPT ![current].p_priority = x] = Replaced(f)
    BY <1>1, <1>5, <2>2 DEF Procs
  <2>5. Run(current, Replaced(f))
    BY <2>1, <2>4 DEF SysSetPriority
  <2> HIDE DEF Replaced
  <2> QED BY <1>10, <2>3, <2>5
<1>12. CASE \E x \in Shares : SysSetShare(reg, x)
  <2>1. PICK x \in Shares : SysSetShare(reg, x)
    BY <1>12
  <2>2. PICK f : f = [e EXCEPT !.p_share = x]
    OBVIOUS
  <2>3. f.p_registers = reg
    BY <1>4, <2>2 DEF Descriptors
  <2>4. [Saved(reg) EXCEPT ![current].p_share = x] = Replaced(f)
    BY <1>1, <1>5, <2>2 DEF Procs
  <2>5. Run(current, Replaced(f))
    BY <2>1, <2>4 DEF SysSetShare
  <2> HIDE DEF Replaced
  <2> QED BY <1>10, <2>3, <2>5
<1>13. CASE SysGetTicket(reg) \/ \E c \in Chars : SysPrint(reg, c)
  <2>1. Run(current, Saved(reg))
    BY <1>13 DEF SysGetTicket, SysPrint
  <2>2. Run(current, Replaced(e))
    BY <1>5, <2>1
  <2> HIDE DEF Replaced
  <2> QED BY <1>4, <1>10, <2>2
<1>14. CASE BadInterrupt(reg)
  <2>1. proc_array' = Replaced(e) /\ current' = current /\ mode' = "hang"
    BY <1>5, <1>14 DEF BadInterrupt, Stop
  <2> HIDE DEF Replaced
  <2> QED BY <1>4, <1>6, <2>1
<1> QED BY <1>8, <1>9, <1>11, <1>12, <1>13, <1>14

(* A search reads them, and ends with those of the process it runs, which    *)
(* is not the empty slot.                                                    *)
LEMMA SearchReads ==
  ASSUME KernAssumption, LoopInv, current \in Apps, proc_array[0].p_state = "P_EMPTY",
         Iteration \/ \E p \in Pids : Draw(p)
  PROVE  /\ \A p \in Pids : proc_array'[p].p_registers = proc_array[p].p_registers
         /\ proc_array'[0].p_state = "P_EMPTY" /\ current' # 0
         /\ mode' \in {"schedule", "user", "wild"}
         /\ mode' = "user" => /\ current' \in Pids
                              /\ cpu' = proc_array'[current'].p_registers
<1> DEFINE Keeps(procs) ==
             /\ \A p \in Pids : procs[p].p_registers = proc_array[p].p_registers
             /\ procs[0].p_state = "P_EMPTY"
           Ends(procs) ==
             \/ \E p \in Pids \ {0} : Leave(p, procs)
             \/ \E p : Continue(p, procs)
             \/ RunOutside(procs)
<1>1. /\ proc_array \in Procs /\ current \in Pids /\ current # 0 /\ 0 \in Pids
      /\ pid \in Pids /\ mode = "schedule"
  BY DEF LoopInv, LoopTypeOK, Apps, Iteration, Draw, KernAssumption, Pids
<1>2. Runnable(proc_array) \subseteq Pids \ {0}
  BY <1>1 DEF Runnable
<1>4. ASSUME NEW p \in Runnable(proc_array)
      PROVE  Keeps([proc_array EXCEPT ![p].p_time_passed = @ + 1])
  <2>1. PICK d \in Descriptors : d = proc_array[p]
    BY <1>1, <1>2 DEF Procs
  <2>2. PICK e : e = [d EXCEPT !.p_time_passed = d.p_time_passed + 1]
    OBVIOUS
  <2>3. e.p_registers = d.p_registers
    BY <2>2 DEF Descriptors
  <2>4. [proc_array EXCEPT ![p].p_time_passed = @ + 1] = [proc_array EXCEPT ![p] = e]
    BY <2>1, <2>2
  <2> QED BY <1>1, <1>2, <2>1, <2>3, <2>4 DEF Procs
<1>5. ASSUME NEW S
      PROVE  Keeps(ClearTime(S, proc_array))
  <2>1. \A q \in Pids : ClearTime(S, proc_array)[q].p_registers = proc_array[q].p_registers
    BY <1>1, Cleared
  <2>2. PICK d \in Descriptors : d = proc_array[0]
    BY <1>1 DEF Procs
  <2>3. [d EXCEPT !.p_time_passed = 0].p_state = d.p_state
    BY DEF Descriptors
  <2>4. ClearTime(S, proc_array)[0].p_state = "P_EMPTY"
    BY <1>1, <2>2, <2>3 DEF ClearTime
  <2> QED BY <2>1, <2>4
<1>6. Keeps(proc_array)
  OBVIOUS
<1>7. \E procs : Keeps(procs) /\ Ends(procs)
  <2> HIDE DEF Keeps
  <2>1. CASE ScanStep
    <3>1. Ends(proc_array)
      BY <1>2, <2>1 DEF ScanStep
    <3> HIDE DEF Ends
    <3> QED BY <1>6, <3>1
  <2>2. CASE InOrderStep
    <3>1. pid + 1 # 0
      BY <1>1 DEF Pids, KernAssumption
    <3>2. Ends(proc_array)
      BY <1>2, <2>2, <3>1 DEF InOrderStep
    <3> HIDE DEF Ends
    <3> QED BY <1>6, <3>2
  <2>3. CASE PriorityStep
    <3>1. Ends(proc_array)
      BY <1>2, <2>3 DEF PriorityStep
    <3> HIDE DEF Ends
    <3> QED BY <1>6, <3>1
  <2>4. CASE ShareStep
    <3> DEFINE counted == [proc_array EXCEPT ![pid].p_time_passed = @ + 1]
               cleared == ClearTime({pid} \cap Runnable(proc_array), proc_array)
    <3>1. CASE pid \in Runnable(proc_array) /\ Leave(pid, counted)
      <4>1. Keeps(counted)
        BY <1>4, <3>1
      <4> HIDE DEF counted
      <4>2. Ends(counted)
        BY <1>2, <3>1
      <4> HIDE DEF Ends
      <4> QED BY <4>1, <4>2
    <3>2. CASE Continue(Ring(pid), cleared)
      <4>1. Keeps(cleared)
        BY <1>5
      <4> HIDE DEF cleared
      <4>2. Ends(cleared)
        BY <3>2
      <4> HIDE DEF Ends
      <4> QED BY <4>1, <4>2
    <3> QED BY <2>4, <3>1, <3>2 DEF ShareStep
  <2>5. CASE \E p \in Pids : Draw(p)
    <3>1. Ends(proc_array)
      BY <1>2, <2>5 DEF Draw, DrawStep
    <3> HIDE DEF Ends
    <3> QED BY <1>6, <3>1
  <2>6. ScanStep \/ InOrderStep \/ PriorityStep \/ ShareStep \/ \E p \in Pids : Draw(p)
    BY DEF Iteration
  <2> HIDE DEF Ends
  <2> QED BY <2>1, <2>2, <2>3, <2>4, <2>5, <2>6
<1>8. PICK procs : Keeps(procs) /\ Ends(procs)
  BY <1>7
<1>9. CASE \E p \in Pids \ {0} : Leave(p, procs)
  BY <1>8, <1>9 DEF Leave, Run
<1>10. CASE \E p : Continue(p, procs)
  BY <1>1, <1>8, <1>10 DEF Continue
<1>11. CASE RunOutside(procs)
  BY <1>8, <1>11 DEF RunOutside, KernAssumption
<1> QED BY <1>8, <1>9, <1>10, <1>11

-----------------------------------------------------------------------------
(* The words on the kernel stack. *)

(* The words are those of the frame from the one after base on.              *)
Fits(words, base, c) ==
  \A n \in 1 .. Len(words) :
    registers_t[base + n] \in Registers => words[n] = c[registers_t[base + n]]

(* Pushing the next words of the frame leaves the stack in order.            *)
LEMMA Push ==
  ASSUME NEW words \in Seq(Int), NEW old \in Seq(Int), NEW c, Tops(old, c),
         NEW base \in Nat, base + Len(words) + Len(old) = 17,
         Fits(words, base, c),
         NEW new, new = words \o old
  PROVE  Tops(new, c)
<1>1. /\ new \in Seq(Int) /\ Len(new) = Len(words) + Len(old)
      /\ \A i \in 1 .. Len(words) + Len(old) :
           new[i] = IF i <= Len(words) THEN words[i] ELSE old[i - Len(words)]
      /\ Len(words) \in Nat /\ Len(old) \in Nat
  BY ConcatProperties, LenProperties
<1>2. \A n \in 1 .. Len(words) : new[n] = words[n]
  BY <1>1
<1>3. \A n \in 1 .. Len(old) : new[Len(words) + n] = old[n]
  <2> TAKE n \in 1 .. Len(old)
  <2> PICK m \in Int : m = Len(words) + n
    BY <1>1
  <2>1. m \in 1 .. Len(words) + Len(old) /\ ~(m <= Len(words)) /\ m - Len(words) = n
    BY <1>1
  <2> QED BY <1>1, <2>1
<1>4. Len(registers_t) = 17
  BY Positions
<1>5. ASSUME NEW n \in 1 .. Len(new), registers_t[17 - Len(new) + n] \in Registers
      PROVE  new[n] = c[registers_t[17 - Len(new) + n]]
  <2>1. 17 - Len(new) = base
    <3>1. \A i, j, k \in Nat : base + i + j = 17 /\ k = i + j => 17 - k = base
      OBVIOUS
    <3>2. Len(words) \in Nat /\ Len(old) \in Nat /\ Len(new) = Len(words) + Len(old)
      BY <1>1
    <3> QED BY <3>1, <3>2
  <2>2. CASE n <= Len(words)
    <3>1. n \in 1 .. Len(words)
      BY <1>1, <2>2
    <3> QED BY <1>2, <1>5, <2>1, <3>1 DEF Fits
  <2>3. CASE ~(n <= Len(words))
    <3> DEFINE m == n - Len(words)
    <3>1. m \in 1 .. Len(old) /\ n = Len(words) + m
      BY <1>1, <2>3
    <3> HIDE DEF m
    <3>2. 17 - Len(old) + m = 17 - Len(new) + n
      BY <1>1, <3>1
    <3>3. new[n] = old[m]
      BY <1>3, <3>1
    <3>4. registers_t[17 - Len(old) + m] \in Registers =>
            old[m] = c[registers_t[17 - Len(old) + m]]
      BY <1>4, <3>1 DEF Tops
    <3> QED BY <1>5, <3>2, <3>3, <3>4
  <2> QED BY <2>2, <2>3
<1> QED BY <1>1, <1>2, <1>3, <1>4, <1>5 DEF Tops

(* The words of a stack that is complete make the frame.                     *)
LEMMA Complete ==
  ASSUME NEW c, NEW frame, NEW words, Len(words) = 17, Tops(words, c),
         \A n \in 1 .. 17 : frame[n] = words[n]
  PROVE  Match(frame, c)
<1> SUFFICES ASSUME NEW r \in Registers
             PROVE  Field(frame, r) = c[r]
  BY DEF Match
<1>1. PICK n \in 1 .. 17 : registers_t[n] = r
  BY Named
<1>2. Field(frame, r) = frame[n]
  BY <1>1, Fields
<1>3. 17 - 17 + n = n
  OBVIOUS
<1>4. words[n] = c[r]
  BY <1>1, <1>3, Positions DEF Tops
<1> QED BY <1>2, <1>4

-----------------------------------------------------------------------------
(* The initial state. *)

(* special_registers_init(): user mode, interrupts enabled.                  *)
LEMMA FreshContext ==
  ASSUME KernAssumption, MachAssumption, NEW p \in Apps
  PROVE  /\ EntryRegs[p] \in [1 .. 17 -> Int]
         /\ Fresh(p) \in Contexts
         /\ Match(EntryRegs[p], Fresh(p))
<1>1. EntryRegs[p] \in [1 .. 17 -> Int]
  BY Positions DEF KernAssumption, MachAssumption, Apps, Pids
<1>2. PICK eip, esp : EntryRegs[p] = SpecialRegisters(eip, esp)
  BY DEF MachAssumption
<1>0. \A n \in 1 .. 17 : Field(EntryRegs[p], registers_t[n]) = EntryRegs[p][n]
  BY Fields
<1>3. \A r \in Registers : Field(EntryRegs[p], r) \in Int
  <2> SUFFICES ASSUME NEW r \in Registers
               PROVE  Field(EntryRegs[p], r) \in Int
    OBVIOUS
  <2>1. PICK n \in 1 .. 17 : registers_t[n] = r
    BY Named
  <2>2. EntryRegs[p][n] \in Int
    BY <1>1
  <2> QED BY <1>0, <2>1, <2>2
<1>4. EntryRegs[p][14] = APP_CODE /\ EntryRegs[p][15] = EFLAGS_IF
  <2>1. registers_t[14] = "cs" /\ registers_t[15] = "eflags"
    BY DEF registers_t
  <2> QED BY <1>2, <2>1, Positions DEF SpecialRegisters
<1>5. Field(EntryRegs[p], "cs") = APP_CODE /\ Field(EntryRegs[p], "eflags") = EFLAGS_IF
  <2>1. registers_t[14] = "cs" /\ registers_t[15] = "eflags"
    BY DEF registers_t
  <2>2. /\ Field(EntryRegs[p], registers_t[14]) = EntryRegs[p][14]
        /\ Field(EntryRegs[p], registers_t[15]) = EntryRegs[p][15]
    BY <1>0
  <2> QED BY <1>4, <2>1, <2>2
<1>6. "cs" \in Registers /\ "eflags" \in Registers
  BY DEF Registers
<1>7. Fresh(p) \in Contexts
  BY <1>3, <1>5, <1>6, Flag DEF Fresh, Contexts
<1>8. Match(EntryRegs[p], Fresh(p))
  BY DEF Match, Fresh
<1> QED BY <1>1, <1>7, <1>8

LEMMA MachInitInv ==
  ASSUME KernAssumption, LoopAssumption, MachAssumption, MachInit
  PROVE  MachInv
<1>1. LoopInv
  BY LoopInitInv DEF MachInit
<1>2. /\ proc_array = [p \in Pids |-> Descriptor(p)]
      /\ current = 1 /\ cpu = EntryRegs[1] /\ mode = "user"
      /\ stack = <<>> /\ phase = "run" /\ pic = interrupt_controller_init
      /\ ctx = [p \in Apps |-> Fresh(p)]
  BY DEF MachInit, LoopInit, Init
<1>3. /\ 0 \in Pids /\ 1 \in Apps /\ Apps \subseteq Pids
  BY DEF KernAssumption, Apps, Pids
<1>4. \A p \in Pids : proc_array[p].p_registers = EntryRegs[p]
  BY <1>2 DEF Descriptor
<1>5. PhaseInv
  <2>1. proc_array[0].p_state = "P_EMPTY"
    BY <1>2, <1>3 DEF Descriptor
  <2> QED BY <1>2, <2>1 DEF PhaseInv, Phases
<1>6. ContextInv
  <2>1. hw \in [Registers -> Int] /\ hw["eflags"] = 0
    BY DEF MachInit, MachAssumption, Registers, SEGSEL_KERN_CODE, SEGSEL_KERN_DATA
  <2>2. ctx \in [Apps -> Contexts] /\ \A p \in Apps : Match(proc_array[p].p_registers, ctx[p])
    BY <1>2, <1>3, <1>4, FreshContext
  <2>3. ~Bit(hw["eflags"], 9)
    BY <2>1, Flag
  <2>4. cpu = proc_array[current].p_registers
    BY <1>2, <1>3, <1>4
  <2> QED BY <1>2, <2>1, <2>2, <2>3, <2>4 DEF ContextInv
<1>7. StackInv
  BY <1>2, EmptySeq DEF StackInv
<1>8. TrapInv /\ PicInv
  BY <1>2, InitPic DEF TrapInv
<1> QED BY <1>1, <1>5, <1>6, <1>7, <1>8 DEF MachInv

-----------------------------------------------------------------------------
(* The steps of the hardware and of the handlers in assembler. *)

LEMMA Outside ==
  ASSUME MachInv, phase = "user"
  PROVE  /\ mode = "user" /\ current \in Apps /\ current \in Pids
         /\ hw = ctx[current] /\ hw \in Contexts
<1>1. mode = "user" /\ current \in Pids /\ current # 0
  BY DEF MachInv, PhaseInv, LoopInv, LoopTypeOK
<1> QED BY <1>1 DEF MachInv, ContextInv, Apps

(* What the processor pushes on the way into the kernel. *)
GateWords(v, regs) ==
  (IF v = 13 THEN <<0>> ELSE <<>>)
    \o <<regs["eip"], regs["cs"], regs["eflags"]>> \o <<regs["esp"], regs["ss"]>>

LEMMA GatePushes ==
  ASSUME NEW regs \in Contexts, NEW v, NEW new, new = GateWords(v, regs)
  PROVE  /\ new \in Seq(Int) /\ Len(new) = IF v = 13 THEN 6 ELSE 5
         /\ Tops(new, regs)
<1> DEFINE upper == <<regs["esp"], regs["ss"]>>
           lower == <<regs["eip"], regs["cs"], regs["eflags"]>>
<1>1. \A r \in Registers : regs[r] \in Int
  BY DEF Contexts
<1>2. upper \in Seq(Int) /\ Len(upper) = 2 /\ upper[1] = regs["esp"] /\ upper[2] = regs["ss"]
  BY <1>1 DEF Registers
<1>3. /\ lower \in Seq(Int) /\ Len(lower) = 3
      /\ lower[1] = regs["eip"] /\ lower[2] = regs["cs"] /\ lower[3] = regs["eflags"]
  BY <1>1 DEF Registers
<1>4. /\ registers_t[12] = "err" /\ registers_t[13] = "eip" /\ registers_t[14] = "cs"
      /\ registers_t[15] = "eflags" /\ registers_t[16] = "esp" /\ registers_t[17] = "ss"
      /\ "err" \notin Registers
  BY DEF registers_t, Registers
<1>5. new = (IF v = 13 THEN <<0>> \o lower ELSE <<>> \o lower) \o upper
  BY DEF GateWords
<1> HIDE DEF lower, upper
<1>6. Tops(upper, regs)
  <2>1. \A n \in 1 .. 2 : n = 1 \/ n = 2
    OBVIOUS
  <2>2. 17 - 2 + 1 = 16 /\ 17 - 2 + 2 = 17
    OBVIOUS
  <2> QED BY <1>2, <1>4, <2>1, <2>2, Positions DEF Tops
<1>7. CASE v = 13
  <2> DEFINE words == <<0>> \o lower
  <2>1. /\ <<0>> \in Seq(Int) /\ Len(<<0>>) = 1 /\ <<0>>[1] = 0
    OBVIOUS
  <2>2. /\ words \in Seq(Int) /\ Len(words) = 4
        /\ \A i \in 1 .. 4 : words[i] = IF i <= 1 THEN <<0>>[i] ELSE lower[i - 1]
    <3>1. /\ words \in Seq(Int) /\ Len(words) = Len(<<0>>) + Len(lower)
          /\ \A i \in 1 .. Len(<<0>>) + Len(lower) :
               words[i] = IF i <= Len(<<0>>) THEN <<0>>[i] ELSE lower[i - Len(<<0>>)]
      BY <1>3, <2>1, ConcatProperties
    <3> HIDE DEF words
    <3> QED BY <1>3, <2>1, <3>1
  <2>3. words[2] = lower[1] /\ words[3] = lower[2] /\ words[4] = lower[3]
    BY <2>2
  <2>4. new = words \o upper
    BY <1>5, <1>7
  <2> HIDE DEF words
  <2>5. Fits(words, 11, regs)
    <3>1. \A n \in 1 .. 4 : n = 1 \/ n = 2 \/ n = 3 \/ n = 4
      OBVIOUS
    <3>2. 11 + 1 = 12 /\ 11 + 2 = 13 /\ 11 + 3 = 14 /\ 11 + 4 = 15
      OBVIOUS
    <3> QED BY <1>3, <1>4, <2>2, <2>3, <3>1, <3>2 DEF Fits
  <2>6. words \in Seq(Int) /\ upper \in Seq(Int) /\ 11 + Len(words) + Len(upper) = 17
    BY <1>2, <2>2
  <2>7. Tops(new, regs)
    BY <1>6, <2>4, <2>5, <2>6, Push
  <2>8. new \in Seq(Int) /\ Len(new) = Len(words) + Len(upper)
    BY <2>4, <2>6, ConcatProperties
  <2> QED BY <1>2, <1>7, <2>2, <2>7, <2>8
<1>8. CASE v # 13
  <2>1. new = lower \o upper
    BY <1>3, <1>5, <1>8, ConcatEmptySeq
  <2>2. Fits(lower, 12, regs)
    <3>1. \A n \in 1 .. 3 : n = 1 \/ n = 2 \/ n = 3
      OBVIOUS
    <3>2. 12 + 1 = 13 /\ 12 + 2 = 14 /\ 12 + 3 = 15
      OBVIOUS
    <3> QED BY <1>3, <1>4, <3>1, <3>2 DEF Fits
  <2>3. lower \in Seq(Int) /\ upper \in Seq(Int) /\ 12 + Len(lower) + Len(upper) = 17
    BY <1>2, <1>3
  <2>4. Tops(new, regs)
    BY <1>6, <2>1, <2>2, <2>3, Push
  <2>5. new \in Seq(Int) /\ Len(new) = Len(lower) + Len(upper)
    BY <2>1, <2>3, ConcatProperties
  <2> QED BY <1>2, <1>3, <1>8, <2>4, <2>5
<1> QED BY <1>7, <1>8

(* The processor enters the handler of trap v. *)
LEMMA Entered ==
  ASSUME MachInv, phase = "user", NEW v, NEW source, NEW regs \in Contexts,
         v \in SystemCalls \cup Exceptions \cup {INT_CLOCK},
         source = "irq" <=> v = INT_CLOCK,
         source = "irq" => allow_clock_interrupt,
         regs["eax"] \in Arguments(v),
         v = INT_SYS_USER3 => cursorpos < CELLS,
         Garbage \in Int,
         EnterGate(v, source, regs)
  PROVE  PhaseInv' /\ ContextInv' /\ StackInv' /\ TrapInv' /\ UNCHANGED loopvars
<1>1. mode = "user" /\ current \in Apps
  BY Outside
<1>2. /\ PhaseInv /\ ContextInv
  BY DEF MachInv
<1>3. /\ \A r \in Registers : regs[r] \in Int
      /\ regs["cs"] = APP_CODE /\ Bit(regs["eflags"], 9)
      /\ DOMAIN regs = Registers
  BY DEF Contexts
<1>4. /\ "cs" \in Registers /\ "eip" \in Registers /\ "esp" \in Registers
      /\ "ss" \in Registers /\ "eflags" \in Registers /\ "eax" \in Registers
      /\ Scratch \subseteq Registers
      /\ "cs" \notin Scratch /\ "eip" \notin Scratch /\ "esp" \notin Scratch
      /\ "ss" \notin Scratch /\ "eflags" \notin Scratch
  BY DEF Registers, Scratch
<1>5. UserMode(regs)
  BY <1>3 DEF UserMode
<1>6. /\ phase' = "stub" /\ trap' = [number |-> v, source |-> source]
      /\ UNCHANGED loopvars /\ ctx' = [ctx EXCEPT ![current] = regs]
  BY <1>5 DEF EnterGate
<1>7. UNCHANGED <<scheduling_algorithm, proc_array, current, cpu, mode, tickets, cursorpos,
                  screen>>
  BY <1>6 DEF loopvars, kernvars
<1>8. ~interrupt_descriptors(v).istrap
  BY DEF interrupt_descriptors, Gate
<1>9. hw' = [regs EXCEPT !["cs"] = SEGSEL_KERN_CODE, !["eip"] = Garbage, !["esp"] = Garbage,
                         !["ss"] = SEGSEL_KERN_DATA,
                         !["eflags"] = WithoutIF(regs["eflags"])]
  BY <1>5, <1>8 DEF EnterGate
<1>10. stack' = GateWords(v, regs)
  <2>1. v \in HasErrorCode /\ source # "irq" <=> v = 13
    BY DEF HasErrorCode, INT_CLOCK
  <2> QED BY <1>5, <2>1 DEF EnterGate, GateWords
<1>11. /\ hw' \in [Registers -> Int]
       /\ hw'["eflags"] = WithoutIF(regs["eflags"])
       /\ \A r \in Scratch : hw'[r] = regs[r]
  BY <1>3, <1>4, <1>9, Flag DEF SEGSEL_KERN_CODE, SEGSEL_KERN_DATA
<1>12. ctx' \in [Apps -> Contexts] /\ ctx'[current] = regs
       /\ \A p \in Apps : p # current => ctx'[p] = ctx[p]
  BY <1>1, <1>2, <1>6 DEF ContextInv
<1>13. PhaseInv'
  BY <1>1, <1>2, <1>6, <1>7 DEF PhaseInv, Phases
<1>14. ContextInv'
  <2>1. ~Bit(hw'["eflags"], 9)
    BY <1>3, <1>4, <1>11, Flag
  <2>2. \A p \in Apps : p # current => Match(proc_array[p].p_registers, ctx[p])
    BY <1>2 DEF ContextInv
  <2>3. \A p \in Apps : p # current' \/ ~Away' => Match(proc_array'[p].p_registers, ctx'[p])
    BY <1>6, <1>7, <1>12, <2>2 DEF Away
  <2> QED BY <1>6, <1>7, <1>11, <1>12, <2>1, <2>3 DEF ContextInv
<1>15. StackInv'
  <2>1. stack' \in Seq(Int) /\ Len(stack') = (IF v = 13 THEN 6 ELSE 5) /\ Tops(stack', regs)
    BY <1>10, GatePushes
  <2>2. Laid' /\ trap'.number = v
    BY <1>6, <1>7, <1>12, <2>1 DEF Laid
  <2> QED BY <1>6, <2>1, <2>2 DEF StackInv
<1>16. TrapInv'
  BY <1>6, <1>7, <1>12 DEF TrapInv
<1> QED BY <1>6, <1>13, <1>14, <1>15, <1>16

(* In the handlers nothing changes but the processor and its stack. *)
LEMMA Stubbed ==
  ASSUME MachInv, Stub
  PROVE  PhaseInv' /\ ContextInv' /\ StackInv' /\ TrapInv' /\ UNCHANGED loopvars
<1> DEFINE v == trap.number
           pushes == interrupt_descriptors(v).pushes
<1>1. /\ phase = "stub" /\ phase' = "generic" /\ UNCHANGED <<hw, trap, ctx>>
      /\ UNCHANGED loopvars /\ stack' = pushes \o stack
  BY DEF Stub
<1>2. UNCHANGED <<scheduling_algorithm, proc_array, current, cpu, mode, cursorpos>>
  BY <1>1 DEF loopvars, kernvars
<1>3. PhaseInv /\ ContextInv /\ StackInv /\ TrapInv
  BY DEF MachInv
<1>4. PhaseInv'
  BY <1>1, <1>2, <1>3 DEF PhaseInv, Phases
<1>5. ContextInv'
  BY <1>1, <1>2, <1>3 DEF ContextInv, Away
<1>6. TrapInv'
  BY <1>1, <1>2, <1>3 DEF TrapInv
<1>7. v \in SystemCalls \cup Exceptions \cup {INT_CLOCK}
  BY <1>1, <1>3 DEF TrapInv
<1>8. /\ stack \in Seq(Int) /\ Len(stack) = IF v = 13 THEN 6 ELSE 5
      /\ Tops(stack, ctx[current])
  BY <1>1, <1>3 DEF StackInv, Laid
<1>9. /\ pushes \in Seq(Int) /\ pushes[1] = Pushed(v)
      /\ Len(pushes) = IF v \in Exceptions THEN 1 ELSE 2
  <2>1. CASE v \in Exceptions
    <3>1. v # INT_CLOCK /\ v \notin SystemCalls
      BY <2>1 DEF Exceptions, INT_CLOCK, SystemCalls, INT_SYS_YIELD
    <3>2. pushes = <<0>>
      BY <3>1 DEF interrupt_descriptors, Gate, default_int_handler
    <3> QED BY <2>1, <3>2 DEF Pushed
  <2>2. CASE v = INT_CLOCK
    <3>1. v = 32 /\ v \notin Exceptions
      BY <2>2 DEF Exceptions, INT_CLOCK
    <3>2. interrupt_descriptors(v) = Gate(FALSE, clock_int_handler, 0)
      BY <2>2 DEF interrupt_descriptors, SystemCalls, INT_SYS_YIELD, INT_CLOCK
    <3>3. pushes = <<32, 0>>
      BY <3>2 DEF Gate, clock_int_handler
    <3> HIDE DEF v, pushes
    <3> QED BY <3>1, <3>3 DEF Pushed
  <2>3. CASE v \in SystemCalls
    <3>1. /\ v # INT_CLOCK /\ v \in Int /\ v \notin Exceptions
          /\ v - 48 \in 0 .. 9 /\ 48 + (v - 48) = v
      BY <2>3 DEF SystemCalls, INT_SYS_YIELD, INT_CLOCK, Exceptions
    <3>2. interrupt_descriptors(v) = Gate(FALSE, sys_int_handlers[v - 48], 3)
      BY <2>3, <3>1 DEF interrupt_descriptors, INT_SYS_YIELD
    <3>3. sys_int_handlers[v - 48] = <<48 + (v - 48), 0>>
      BY <3>1 DEF sys_int_handlers
    <3>4. pushes = <<v, 0>>
      BY <3>1, <3>2, <3>3 DEF Gate
    <3> HIDE DEF v, pushes
    <3> QED BY <3>1, <3>4 DEF Pushed
  <2> QED BY <1>7, <2>1, <2>2, <2>3
<1> HIDE DEF pushes
<1>10. Fits(pushes, 17 - Len(pushes) - Len(stack), ctx[current])
  <2>1. /\ registers_t[11] \notin Registers /\ registers_t[12] \notin Registers
    BY DEF registers_t, Registers
  <2>2. ASSUME NEW n \in 1 .. Len(pushes)
        PROVE  17 - Len(pushes) - Len(stack) + n \in {11, 12}
    <3>1. CASE v = 0
      BY <1>8, <1>9, <3>1 DEF Exceptions
    <3>2. CASE v = 13
      BY <1>8, <1>9, <3>2 DEF Exceptions
    <3>3. CASE v \notin Exceptions
      BY <1>8, <1>9, <3>3 DEF Exceptions
    <3> QED BY <3>1, <3>2, <3>3 DEF Exceptions
  <2> QED BY <2>1, <2>2 DEF Fits
<1>11. /\ stack' \in Seq(Int) /\ Len(stack') = Len(pushes) + Len(stack)
       /\ \A i \in 1 .. Len(pushes) + Len(stack) :
            stack'[i] = IF i <= Len(pushes) THEN pushes[i] ELSE stack[i - Len(pushes)]
  BY <1>1, <1>8, <1>9, ConcatProperties
<1>12. Len(stack') = (IF v = 0 THEN 6 ELSE 7) /\ stack'[1] = Pushed(v)
  <2>1. stack'[1] = pushes[1]
    BY <1>8, <1>9, <1>11
  <2>2. CASE v = 0
    BY <1>8, <1>9, <1>11, <2>1, <2>2 DEF Exceptions
  <2>3. CASE v = 13
    BY <1>8, <1>9, <1>11, <2>1, <2>3 DEF Exceptions
  <2>4. CASE v \notin Exceptions
    BY <1>8, <1>9, <1>11, <2>1, <2>4 DEF Exceptions
  <2> QED BY <2>2, <2>3, <2>4 DEF Exceptions
<1>13. Tops(stack', ctx[current])
  <2> DEFINE base == 17 - Len(pushes) - Len(stack)
  <2>1. base \in Nat /\ base + Len(pushes) + Len(stack) = 17
    BY <1>8, <1>9
  <2>2. Fits(pushes, base, ctx[current])
    BY <1>10
  <2> HIDE DEF base
  <2>3. pushes \in Seq(Int) /\ stack \in Seq(Int) /\ Tops(stack, ctx[current])
    BY <1>8, <1>9
  <2> QED BY <1>1, <2>1, <2>2, <2>3, Push
<1>14. Laid'
  BY <1>1, <1>2, <1>13 DEF Laid
<1> QED BY <1>1, <1>4, <1>5, <1>6, <1>11, <1>12, <1>14 DEF StackInv

LEMMA ThreeChanged ==
  ASSUME NEW R, NEW f \in [R -> Int], NEW a \in R, NEW b \in R, NEW c \in R,
         NEW x \in Int, NEW g, g = [f EXCEPT ![a] = x, ![b] = x, ![c] = x]
  PROVE  /\ g \in [R -> Int]
         /\ \A r \in R : r \notin {a, b, c} => g[r] = f[r]
OBVIOUS

LEMMA Pushalled ==
  ASSUME MachInv, Generic
  PROVE  PhaseInv' /\ ContextInv' /\ StackInv' /\ TrapInv' /\ UNCHANGED loopvars
<1> DEFINE v == trap.number
           words == Pushal \o <<hw["es"], hw["ds"]>>
<1>1. /\ phase = "generic" /\ phase' = "interrupt" /\ UNCHANGED <<trap, ctx>>
      /\ UNCHANGED loopvars /\ stack' = words \o stack
      /\ hw' = [hw EXCEPT !["eax"] = SEGSEL_KERN_DATA, !["ds"] = SEGSEL_KERN_DATA,
                          !["es"] = SEGSEL_KERN_DATA]
  BY DEF Generic
<1>2. UNCHANGED <<scheduling_algorithm, proc_array, current, cpu, mode, cursorpos>>
  BY <1>1 DEF loopvars, kernvars
<1>3. PhaseInv /\ ContextInv /\ StackInv /\ TrapInv
  BY DEF MachInv
<1>4. PhaseInv'
  BY <1>1, <1>2, <1>3 DEF PhaseInv, Phases
<1>5. ContextInv'
  <2>0. /\ "eax" \in Registers /\ "ds" \in Registers /\ "es" \in Registers
        /\ "eflags" \in Registers /\ hw \in [Registers -> Int]
    BY <1>3 DEF ContextInv, Registers
  <2>1. SEGSEL_KERN_DATA \in Int
    BY DEF SEGSEL_KERN_DATA
  <2>2. hw' = [hw EXCEPT !["eax"] = SEGSEL_KERN_DATA, !["ds"] = SEGSEL_KERN_DATA,
                         !["es"] = SEGSEL_KERN_DATA]
    BY <1>1
  <2>3. hw' \in [Registers -> Int] /\ hw'["eflags"] = hw["eflags"]
    BY <2>0, <2>1, <2>2, ThreeChanged
  <2> QED BY <1>1, <1>2, <1>3, <2>3 DEF ContextInv, Away
<1>6. TrapInv'
  BY <1>1, <1>2, <1>3 DEF TrapInv
<1>7. /\ stack \in Seq(Int) /\ Len(stack) = (IF v = 0 THEN 6 ELSE 7)
      /\ stack[1] = Pushed(v) /\ Tops(stack, ctx[current])
  BY <1>1, <1>3 DEF StackInv, Laid
<1>8. /\ \A r \in Scratch : hw[r] = ctx[current][r]
      /\ \A r \in Registers : hw[r] \in Int
  BY <1>1, <1>3 DEF ContextInv
<1>9. /\ words \in Seq(Int) /\ Len(words) = 10
      /\ words[1] = hw["edi"] /\ words[2] = hw["esi"] /\ words[3] = hw["ebp"]
      /\ words[5] = hw["ebx"] /\ words[6] = hw["edx"] /\ words[7] = hw["ecx"]
      /\ words[8] = hw["eax"] /\ words[9] = hw["es"] /\ words[10] = hw["ds"]
  <2> DEFINE eight == Pushal
             two == <<hw["es"], hw["ds"]>>
  <2>1. two \in Seq(Int) /\ Len(two) = 2 /\ two[1] = hw["es"] /\ two[2] = hw["ds"]
    BY <1>8 DEF Registers
  <2>2. /\ eight \in Seq(Int) /\ Len(eight) = 8
        /\ eight[1] = hw["edi"] /\ eight[2] = hw["esi"] /\ eight[3] = hw["ebp"]
        /\ eight[5] = hw["ebx"] /\ eight[6] = hw["edx"] /\ eight[7] = hw["ecx"]
        /\ eight[8] = hw["eax"]
    <3>1. KERNEL_STACK_TOP - 4 * (Len(stack) + 2) \in Int
      BY <1>7 DEF KERNEL_STACK_TOP
    <3> QED BY <1>8, <3>1 DEF Pushal, Registers
  <2>3. words = eight \o two
    OBVIOUS
  <2> HIDE DEF eight, two, words
  <2>4. /\ words \in Seq(Int) /\ Len(words) = Len(eight) + Len(two)
        /\ \A i \in 1 .. Len(eight) + Len(two) :
             words[i] = IF i <= Len(eight) THEN eight[i] ELSE two[i - Len(eight)]
    BY <2>1, <2>2, <2>3, ConcatProperties
  <2>5. \A i \in 1 .. 10 : words[i] = IF i <= 8 THEN eight[i] ELSE two[i - 8]
    BY <2>1, <2>2, <2>4
  <2>6. /\ \A i \in 1 .. 8 : words[i] = eight[i]
        /\ words[9] = two[1] /\ words[10] = two[2]
    BY <2>5
  <2>7. /\ words[1] = eight[1] /\ words[2] = eight[2] /\ words[3] = eight[3]
        /\ words[5] = eight[5] /\ words[6] = eight[6] /\ words[7] = eight[7]
        /\ words[8] = eight[8]
    BY <2>6
  <2> QED BY <2>1, <2>2, <2>4, <2>6, <2>7
<1> HIDE DEF words
<1>10. /\ stack' \in Seq(Int) /\ Len(stack') = Len(words) + Len(stack)
       /\ \A i \in 1 .. Len(words) + Len(stack) :
            stack'[i] = IF i <= Len(words) THEN words[i] ELSE stack[i - Len(words)]
  <2>1. words \in Seq(Int) /\ stack \in Seq(Int)
    BY <1>7, <1>9
  <2>2. stack' = words \o stack
    BY <1>1
  <2> QED BY <2>1, <2>2, ConcatProperties
<1>11. Len(stack') = (IF v = 0 THEN 16 ELSE 17) /\ stack'[11] = Pushed(v)
  <2>1. stack'[11] = stack[11 - 10]
    BY <1>7, <1>9, <1>10
  <2> QED BY <1>7, <1>9, <1>10, <2>1
<1>12. ASSUME v # 0
       PROVE  Tops(stack', ctx[current])
  <2>1. Fits(words, 0, ctx[current])
    <3>1. ASSUME NEW n \in 1 .. 10, registers_t[n] \in Registers
          PROVE  words[n] = ctx[current][registers_t[n]]
      <4>1. n \in {1, 2, 3, 4, 5, 6, 7, 8, 9, 10}
        OBVIOUS
      <4>2. words[n] = hw[registers_t[n]]
        BY <1>9, <3>1, <4>1 DEF registers_t, Registers
      <4>3. registers_t[n] \in Scratch
        BY <3>1, <4>1 DEF registers_t, Registers, Scratch
      <4> QED BY <1>8, <4>2, <4>3
    <3>2. \A n \in 1 .. 10 : 0 + n = n
      OBVIOUS
    <3> QED BY <1>9, <3>1, <3>2 DEF Fits
  <2>2. 0 + Len(words) + Len(stack) = 17
    BY <1>7, <1>9, <1>12
  <2>3. words \in Seq(Int) /\ stack \in Seq(Int) /\ Tops(stack, ctx[current])
    BY <1>7, <1>9
  <2> QED BY <1>1, <2>1, <2>2, <2>3, Push
<1>13. v # 0 => Laid'
  BY <1>1, <1>2, <1>12 DEF Laid
<1> QED BY <1>1, <1>4, <1>5, <1>6, <1>10, <1>11, <1>13 DEF StackInv

(* run() gives the processor back, with the registers of the context.        *)
LEMMA Restored ==
  ASSUME MachInv, run
  PROVE  PhaseInv' /\ ContextInv' /\ StackInv' /\ TrapInv' /\ UNCHANGED loopvars
<1>1. /\ phase = "run" /\ phase' = "user" /\ UNCHANGED <<stack, trap, ctx>>
      /\ UNCHANGED loopvars
      /\ hw' = [r \in Registers |-> cpu[CHOOSE n \in DOMAIN Popped : Popped[n] = r]]
  BY DEF run
<1>2. UNCHANGED <<scheduling_algorithm, proc_array, current, cpu, mode, cursorpos>>
  BY <1>1 DEF loopvars, kernvars
<1>3. PhaseInv /\ ContextInv /\ StackInv
  BY DEF MachInv
<1>4. mode = "user" /\ current \in Apps
  BY <1>1, <1>3 DEF MachInv, PhaseInv, LoopInv, LoopTypeOK, Apps
<1>5. PhaseInv'
  BY <1>1, <1>2, <1>3 DEF PhaseInv, Phases
<1>6. ctx[current] \in Contexts /\ Match(cpu, ctx[current])
  BY <1>1, <1>3, <1>4 DEF ContextInv, Away
<1>7. hw' = ctx[current]
  <2>1. ctx[current] = [r \in Registers |-> ctx[current][r]]
    BY <1>6 DEF Contexts
  <2>2. \A r \in Registers :
          cpu[CHOOSE n \in DOMAIN Popped : Popped[n] = r] = ctx[current][r]
    BY <1>6, Pops DEF Match
  <2> QED BY <1>1, <2>1, <2>2
<1>8. hw' \in [Registers -> Int]
  BY <1>6, <1>7 DEF Contexts
<1>9. ContextInv'
  BY <1>1, <1>2, <1>3, <1>7, <1>8 DEF ContextInv, Away
<1>10. StackInv' /\ TrapInv'
  BY <1>1, <1>3 DEF StackInv, TrapInv
<1> QED BY <1>1, <1>5, <1>9, <1>10

(* The loops of schedule(). *)
LEMMA Searched ==
  ASSUME KernAssumption, MachInv, NEW ACTION step, Search(step),
         step => Iteration \/ \E p \in Pids : Draw(p)
  PROVE  PhaseInv' /\ ContextInv' /\ StackInv' /\ TrapInv' /\ [LoopNext]_loopvars
<1>1. /\ phase = "kernel" /\ Onward /\ UNCHANGED <<hw, stack, trap, ctx>>
      /\ Iteration \/ \E p \in Pids : Draw(p)
  BY DEF Search
<1>2. PhaseInv /\ ContextInv /\ StackInv /\ LoopInv
  BY DEF MachInv
<1>3. mode = "schedule"
  BY <1>1 DEF Iteration, Draw
<1>4. current \in Apps /\ proc_array[0].p_state = "P_EMPTY"
  BY <1>2, <1>3 DEF PhaseInv, LoopInv, LoopTypeOK, Apps
<1>5. /\ \A p \in Pids : proc_array'[p].p_registers = proc_array[p].p_registers
      /\ proc_array'[0].p_state = "P_EMPTY" /\ current' # 0
      /\ mode' \in {"schedule", "user", "wild"}
      /\ mode' = "user" => /\ current' \in Pids
                           /\ cpu' = proc_array'[current'].p_registers
  BY <1>1, <1>2, <1>4, SearchReads
<1>6. phase' \in {"run", "kernel"} /\ (phase' = "run" <=> mode' = "user")
  BY <1>1 DEF Onward
<1>7. PhaseInv'
  BY <1>5, <1>6 DEF PhaseInv, Phases
<1>8. ContextInv'
  <2>1. \A p \in Apps : Match(proc_array[p].p_registers, ctx[p])
    BY <1>1, <1>2, <1>3 DEF ContextInv, Away
  <2>2. \A p \in Apps : Match(proc_array'[p].p_registers, ctx'[p])
    BY <1>1, <1>5, <2>1 DEF Apps
  <2> QED BY <1>1, <1>2, <1>5, <1>6, <2>2 DEF ContextInv
<1>9. StackInv' /\ TrapInv'
  BY <1>1, <1>2, <1>6 DEF StackInv, TrapInv
<1>10. LoopNext
  BY <1>1 DEF LoopNext
<1> QED BY <1>7, <1>8, <1>9, <1>10

(* The frame that interrupt() gets: for all traps but the divide error, whose *)
(* stub pushes one word too few, the registers are where it looks for them.   *)
LEMMA FrameFound ==
  ASSUME MachAssumption, MachInv, phase = "interrupt"
  PROVE  /\ Frame \in Regs
         /\ trap.number \notin {0, 13} => Field(Frame, "intno") = trap.number
         /\ trap.number \in {0, 13} => Field(Frame, "intno") = 0
         /\ trap.number # 0 => /\ Match(Frame, ctx[current])
                               /\ Field(Frame, "eax") = ctx[current]["eax"]
<1> DEFINE v == trap.number
<1>1. /\ stack \in Seq(Int) /\ Len(stack) = (IF v = 0 THEN 16 ELSE 17)
      /\ stack[11] = Pushed(v) /\ (v # 0 => Tops(stack, ctx[current]))
  BY DEF MachInv, StackInv, Laid
<1>2. /\ DOMAIN Frame = 1 .. 17
      /\ \A n \in 1 .. 17 : Frame[n] = IF n <= Len(stack) THEN stack[n] ELSE Garbage
      /\ Frame = [n \in 1 .. 17 |-> Frame[n]]
  BY Positions DEF Frame
<1>3. \A n \in 1 .. 17 : Frame[n] \in Int
  <2> TAKE n \in 1 .. 17
  <2>1. CASE n <= Len(stack)
    <3>1. n \in 1 .. Len(stack)
      BY <1>1, <2>1
    <3>2. stack[n] \in Int
      BY <1>1, <3>1, ElementOfSeq
    <3> QED BY <1>2, <2>1, <3>2
  <2>2. CASE ~(n <= Len(stack))
    BY <1>2, <2>2 DEF MachAssumption
  <2> QED BY <2>1, <2>2
<1>4. Frame \in Regs
  BY <1>2, <1>3, Positions DEF MachAssumption
<1>5. Field(Frame, "intno") = Pushed(v)
  <2>1. registers_t[11] = "intno"
    BY DEF registers_t
  <2>2. Field(Frame, registers_t[11]) = Frame[11]
    BY Fields
  <2>3. Frame[11] = stack[11]
    BY <1>1, <1>2
  <2> QED BY <1>1, <2>1, <2>2, <2>3
<1>6. ASSUME v # 0
      PROVE  Match(Frame, ctx[current])
  <2>1. Len(stack) = 17 /\ Tops(stack, ctx[current])
    BY <1>1, <1>6
  <2>2. \A n \in 1 .. 17 : Frame[n] = stack[n]
    BY <1>2, <2>1
  <2> QED BY <2>1, <2>2, Complete
<1>7. v # 0 => Field(Frame, "eax") = ctx[current]["eax"]
  BY <1>6 DEF Match, Registers
<1> QED BY <1>4, <1>5, <1>6, <1>7 DEF Pushed, Exceptions

(* The C code of interrupt() saves it, and is one step of SchedOSLoop.       *)
LEMMA Interrupted ==
  ASSUME KernAssumption, MachAssumption, MachInv, interrupt
  PROVE  PhaseInv' /\ ContextInv' /\ StackInv' /\ TrapInv' /\ [LoopNext]_loopvars
<1> DEFINE v == trap.number
           intno == Field(Frame, "intno")
           eax == Field(Frame, "eax")
<1>1. /\ phase = "interrupt" /\ Dispatch(Frame) /\ Clobber /\ Onward
      /\ stack' = <<>> /\ UNCHANGED <<trap, pic, ctx>>
  BY DEF interrupt
<1>2. PhaseInv /\ ContextInv /\ TrapInv /\ LoopInv
  BY DEF MachInv
<1>3. mode = "user" /\ current \in Apps /\ current \in Pids
  BY <1>1, <1>2 DEF PhaseInv, LoopInv, LoopTypeOK, Apps
<1>4. /\ Frame \in Regs
      /\ v \notin {0, 13} => intno = v
      /\ v \in {0, 13} => intno = 0
      /\ v # 0 => Match(Frame, ctx[current]) /\ eax = ctx[current]["eax"]
  BY <1>1, FrameFound
<1>5. /\ v \in SystemCalls \cup Exceptions \cup {INT_CLOCK}
      /\ v = INT_CLOCK => allow_clock_interrupt
      /\ ctx[current]["eax"] \in Arguments(v)
      /\ v = INT_SYS_USER3 => cursorpos < CELLS
  BY <1>1, <1>2 DEF TrapInv
<1>6. /\ intno # 0 => v = intno /\ v # 0
      /\ intno = INT_SYS_EXIT => eax \in Statuses
      /\ intno = INT_SYS_USER1 => eax \in Priorities
      /\ intno = INT_SYS_USER2 => eax \in Shares
      /\ intno = INT_SYS_USER3 => eax \in Chars
  <2>1. intno # 0 => v = intno /\ v # 0 /\ eax \in Arguments(v)
    BY <1>4, <1>5
  <2> HIDE DEF intno, eax, v
  <2>2. intno = INT_SYS_EXIT => eax \in Statuses
    BY <2>1 DEF Arguments, INT_SYS_EXIT, INT_SYS_USER1, INT_SYS_USER2, INT_SYS_USER3
  <2>3. intno = INT_SYS_USER1 => eax \in Priorities
    BY <2>1 DEF Arguments, INT_SYS_EXIT, INT_SYS_USER1, INT_SYS_USER2, INT_SYS_USER3
  <2>4. intno = INT_SYS_USER2 => eax \in Shares
    BY <2>1 DEF Arguments, INT_SYS_EXIT, INT_SYS_USER1, INT_SYS_USER2, INT_SYS_USER3
  <2>5. intno = INT_SYS_USER3 => eax \in Chars
    BY <2>1 DEF Arguments, INT_SYS_EXIT, INT_SYS_USER1, INT_SYS_USER2, INT_SYS_USER3
  <2> QED BY <2>1, <2>2, <2>3, <2>4, <2>5
<1>7. \/ CaseYield(Frame) /\ v # 0
      \/ CaseExit(Frame, eax) /\ eax \in Statuses /\ v # 0
      \/ SysSetPriority(Frame, eax) /\ UNCHANGED locals /\ eax \in Priorities /\ v # 0
      \/ SysSetShare(Frame, eax) /\ UNCHANGED locals /\ eax \in Shares /\ v # 0
      \/ SysPrint(Frame, eax) /\ UNCHANGED locals /\ eax \in Chars /\ cursorpos < CELLS /\ v # 0
      \/ SysGetTicket(Frame) /\ UNCHANGED locals /\ v # 0
      \/ CaseClock(Frame) /\ allow_clock_interrupt /\ v # 0
      \/ BadInterrupt(Frame) /\ UNCHANGED locals
  <2>1. /\ INT_SYS_YIELD # 0 /\ INT_SYS_EXIT # 0 /\ INT_SYS_USER1 # 0 /\ INT_SYS_USER2 # 0
        /\ INT_SYS_USER3 # 0 /\ INT_SYS_USER4 # 0 /\ INT_CLOCK # 0
    BY DEF INT_SYS_YIELD, INT_SYS_EXIT, INT_SYS_USER1, INT_SYS_USER2, INT_SYS_USER3,
           INT_SYS_USER4, INT_CLOCK
  <2> HIDE DEF intno, eax, v
  <2>2. \/ intno = INT_SYS_YIELD /\ CaseYield(Frame)
        \/ intno = INT_SYS_EXIT /\ CaseExit(Frame, eax)
        \/ intno = INT_SYS_USER1 /\ SysSetPriority(Frame, eax) /\ UNCHANGED locals
        \/ intno = INT_SYS_USER2 /\ SysSetShare(Frame, eax) /\ UNCHANGED locals
        \/ intno = INT_SYS_USER3 /\ SysPrint(Frame, eax) /\ UNCHANGED locals
        \/ intno = INT_SYS_USER4 /\ SysGetTicket(Frame) /\ UNCHANGED locals
        \/ intno = INT_CLOCK /\ CaseClock(Frame)
        \/ intno \notin Handled /\ BadInterrupt(Frame) /\ UNCHANGED locals
    BY <1>1 DEF Dispatch, intno, eax
  <2> QED BY <1>5, <1>6, <2>1, <2>2
<1> HIDE DEF intno, eax, v
<1>8. LoopNext
  BY <1>4, <1>7 DEF LoopNext, Returning
<1>9. /\ \A p \in Pids \ {current} : proc_array'[p] = proc_array[p]
      /\ proc_array'[current].p_registers = Frame
      /\ current' = current /\ mode' \in {"user", "schedule", "hang"}
      /\ mode' = "user" => cpu' = proc_array'[current'].p_registers
  <2>1. \/ CaseYield(Frame) \/ CaseClock(Frame) \/ \E x \in Statuses : CaseExit(Frame, x)
        \/ \E x \in Priorities : SysSetPriority(Frame, x)
        \/ \E x \in Shares : SysSetShare(Frame, x)
        \/ \E c \in Chars : SysPrint(Frame, c)
        \/ SysGetTicket(Frame) \/ BadInterrupt(Frame)
    BY <1>7
  <2> QED BY <1>2, <1>3, <1>4, <2>1, TrapSaves
<1>10. v = 0 => mode' = "hang"
  BY <1>7 DEF BadInterrupt, Stop
<1>11. phase' \in {"run", "kernel"} /\ (phase' = "run" <=> mode' = "user")
  BY <1>1 DEF Onward
<1>12. PhaseInv'
  <2>1. 0 \in Pids \ {current}
    BY <1>3 DEF Apps, Pids, KernAssumption
  <2>2. proc_array'[0].p_state = "P_EMPTY"
    BY <1>2, <1>9, <2>1 DEF PhaseInv
  <2> QED BY <1>2, <1>9, <1>11, <2>2 DEF PhaseInv, Phases
<1>13. hw' \in [Registers -> Int] /\ ~Bit(hw'["eflags"], 9)
  <2>1. hw \in [Registers -> Int] /\ ~Bit(hw["eflags"], 9)
    BY <1>1, <1>2 DEF ContextInv
  <2>2. /\ hw' = [r \in Registers |-> hw'[r]] /\ hw'["eflags"] = 0
        /\ \A r \in Registers : hw'[r] \in {0, hw[r], Garbage}
    BY <1>1, <2>1 DEF Clobber, Registers
  <2>3. Garbage \in Int
    BY DEF MachAssumption
  <2> QED BY <2>1, <2>2, <2>3, Flag
<1>14. ContextInv'
  <2>1. ASSUME NEW p \in Apps, p # current' \/ ~Away'
        PROVE  Match(proc_array'[p].p_registers, ctx'[p])
    <3>1. CASE p # current
      <4>1. p \in Pids \ {current}
        BY <3>1 DEF Apps
      <4> QED BY <1>1, <1>2, <1>9, <3>1, <4>1 DEF ContextInv
    <3>2. CASE p = current
      <4>1. v # 0
        BY <1>9, <1>10, <2>1, <3>2 DEF Away
      <4> QED BY <1>1, <1>4, <1>9, <3>2, <4>1
    <3> QED BY <3>1, <3>2
  <2> QED BY <1>1, <1>2, <1>9, <1>11, <1>13, <2>1 DEF ContextInv
<1>15. StackInv' /\ TrapInv'
  BY <1>1, <1>11, EmptySeq DEF StackInv, TrapInv
<1> QED BY <1>8, <1>12, <1>14, <1>15

(* An interrupt: of the timer, and of an application.                        *)
LEMMA Interrupting ==
  ASSUME MachAssumption, MachInv, Interrupt
  PROVE  /\ PhaseInv' /\ ContextInv' /\ StackInv' /\ TrapInv' /\ PicInv'
         /\ UNCHANGED loopvars /\ phase = "user"
<1>1. /\ Bit(hw["eflags"], 9) /\ InterruptPending
      /\ EnterGate(Vector, "irq", hw)
  BY DEF Interrupt, Accepts
<1>2. phase = "user"
  BY <1>1 DEF MachInv, ContextInv
<1>3. hw \in Contexts
  BY <1>2, Outside
<1>4. PicInv /\ allow_clock_interrupt /\ Vector = INT_CLOCK
  BY <1>1, OnlyTheTimer DEF MachInv
<1>5. PicInv'
  BY <1>1, <1>4, LineAcknowledged DEF Interrupt
<1>6. hw["eax"] \in Arguments(INT_CLOCK)
  BY <1>3 DEF Contexts, Registers, Arguments, INT_CLOCK, INT_SYS_EXIT, INT_SYS_USER1,
              INT_SYS_USER2, INT_SYS_USER3
<1>7. INT_CLOCK # INT_SYS_USER3
  BY DEF INT_CLOCK, INT_SYS_USER3
<1>8. EnterGate(INT_CLOCK, "irq", hw) /\ Garbage \in Int
  BY <1>1, <1>4 DEF MachAssumption
<1> DEFINE v == INT_CLOCK
<1>9. /\ v \in SystemCalls \cup Exceptions \cup {INT_CLOCK} /\ v = INT_CLOCK
      /\ hw["eax"] \in Arguments(v) /\ v # INT_SYS_USER3 /\ EnterGate(v, "irq", hw)
  BY <1>6, <1>7, <1>8
<1> HIDE DEF v
<1>10. PhaseInv' /\ ContextInv' /\ StackInv' /\ TrapInv' /\ UNCHANGED loopvars
  BY <1>2, <1>3, <1>4, <1>8, <1>9, Entered
<1> QED BY <1>2, <1>5, <1>10

(* What an application may have in its registers.                            *)
LEMMA ComputedContexts ==
  ASSUME MachAssumption, MachInv, phase = "user",
         NEW i \in Instructions[scheduling_algorithm][current]
  PROVE  Computed(i.file) \in Contexts /\ Computed(i.file)["eax"] = i.file["eax"]
<1>1. current \in Apps /\ hw \in Contexts /\ scheduling_algorithm \in Algorithms
  BY Outside DEF MachInv, LoopInv, LoopTypeOK
<1>2. PICK file : file = i.file
  OBVIOUS
<1>3. /\ "eax" \in DOMAIN file /\ DOMAIN file \subseteq Registers \ {"cs"}
      /\ \A r \in DOMAIN file : file[r] \in Int
      /\ "eflags" \in DOMAIN file => Bit(file["eflags"], 9)
  BY <1>1, <1>2 DEF MachAssumption
<1>4. "eax" \in Registers /\ "cs" \in Registers /\ "eflags" \in Registers
  BY DEF Registers
<1>5. Computed(file) \in Contexts /\ Computed(file)["eax"] = file["eax"]
  BY <1>1, <1>3, <1>4 DEF Contexts, Computed
<1> QED BY <1>2, <1>5

(* An application computes: nothing of the kernel's changes.                 *)
LEMMA Computing ==
  ASSUME MachAssumption, MachInv,
         \E i \in Instructions[scheduling_algorithm][current] : Compute(i.file)
  PROVE  /\ PhaseInv' /\ ContextInv' /\ StackInv' /\ TrapInv'
         /\ UNCHANGED <<loopvars, phase, pic>> /\ phase = "user"
<1>1. PICK i \in Instructions[scheduling_algorithm][current] : Compute(i.file)
  OBVIOUS
<1>2. PICK regs : regs = Computed(i.file)
  OBVIOUS
<1>3. /\ phase = "user" /\ hw' = regs /\ ctx' = [ctx EXCEPT ![current] = regs]
      /\ UNCHANGED <<loopvars, stack, phase, trap, pic>>
  BY <1>1, <1>2 DEF Compute
<1>4. regs \in Contexts /\ current \in Apps /\ mode = "user"
  BY <1>1, <1>2, <1>3, ComputedContexts, Outside
<1>5. UNCHANGED <<proc_array, current, cpu, mode, cursorpos>>
  BY <1>3 DEF loopvars, kernvars
<1>6. PhaseInv' /\ StackInv' /\ TrapInv'
  BY <1>3, <1>5 DEF MachInv, PhaseInv, StackInv, TrapInv
<1>7. ContextInv'
  <2>1. /\ ctx \in [Apps -> Contexts]
        /\ \A p \in Apps : p # current \/ ~Away => Match(proc_array[p].p_registers, ctx[p])
    BY DEF MachInv, ContextInv
  <2>2. ctx' \in [Apps -> Contexts] /\ ctx'[current] = regs
        /\ \A p \in Apps : p # current => ctx'[p] = ctx[p]
    BY <1>3, <1>4, <2>1
  <2>3. Away' /\ Away
    BY <1>3, <1>4, <1>5 DEF Away
  <2>4. \A p \in Apps : p # current' \/ ~Away' => Match(proc_array'[p].p_registers, ctx'[p])
    BY <1>5, <2>1, <2>2, <2>3
  <2>5. hw' \in [Registers -> Int] /\ hw' = ctx'[current'] /\ phase' = "user"
    BY <1>3, <1>4, <1>5, <2>2 DEF Contexts
  <2> QED BY <2>2, <2>4, <2>5 DEF ContextInv
<1> QED BY <1>3, <1>6, <1>7

(* A trap of the application's own. *)
LEMMA Trapping ==
  ASSUME MachAssumption, MachInv,
         \/ \E i \in Instructions[scheduling_algorithm][current] : Instruction(i.int, i.file)
         \/ \E v \in Exceptions : Fault(v)
  PROVE  /\ PhaseInv' /\ ContextInv' /\ StackInv' /\ TrapInv' /\ pic' = pic
         /\ UNCHANGED loopvars /\ phase = "user"
<1>1. phase = "user" /\ pic' = pic
  BY DEF Instruction, Fault
<1>2. current \in Apps /\ hw \in Contexts /\ scheduling_algorithm \in Algorithms
  BY <1>1, Outside DEF MachInv, LoopInv, LoopTypeOK
<1>3. Garbage \in Int
  BY DEF MachAssumption
<1>4. ASSUME NEW v \in Exceptions, NEW source, source # "irq", NEW regs \in Contexts,
             EnterGate(v, source, regs)
      PROVE  PhaseInv' /\ ContextInv' /\ StackInv' /\ TrapInv' /\ UNCHANGED loopvars
  <2>1. /\ v \in SystemCalls \cup Exceptions \cup {INT_CLOCK}
        /\ v # INT_CLOCK /\ v # INT_SYS_USER3
    BY DEF Exceptions, INT_CLOCK, INT_SYS_USER3
  <2>2. regs["eax"] \in Arguments(v)
    BY DEF Contexts, Registers, Arguments, Exceptions, INT_SYS_EXIT, INT_SYS_USER1,
           INT_SYS_USER2, INT_SYS_USER3
  <2> QED BY <1>1, <1>3, <1>4, <2>1, <2>2, Entered
<1>5. CASE \E v \in Exceptions : Fault(v)
  <2>1. PICK v \in Exceptions : EnterGate(v, "fault", hw)
    BY <1>5 DEF Fault
  <2> QED BY <1>1, <1>2, <1>4, <2>1
<1>6. CASE \E i \in Instructions[scheduling_algorithm][current] : Instruction(i.int, i.file)
  <2>1. PICK i \in Instructions[scheduling_algorithm][current] : Instruction(i.int, i.file)
    BY <1>6
  <2>2. PICK v : v = i.int
    OBVIOUS
  <2>3. PICK file : file = i.file
    OBVIOUS
  <2>4. v \in 0 .. 255 /\ file["eax"] \in Arguments(v)
    BY <1>2, <2>1, <2>2, <2>3 DEF MachAssumption
  <2> DEFINE regs == Computed(file)
  <2>5. /\ IF interrupt_descriptors(v).dpl = 3 THEN EnterGate(v, "int", regs)
                                               ELSE EnterGate(13, "int", regs)
        /\ v = INT_SYS_USER3 => cursorpos < CELLS
    BY <2>1, <2>2, <2>3 DEF Instruction
  <2>6. regs \in Contexts /\ regs["eax"] = file["eax"]
    BY <1>1, <2>3, ComputedContexts
  <2> HIDE DEF regs
  <2>7. CASE v \in SystemCalls
    <3>1. interrupt_descriptors(v).dpl = 3
      BY <2>7 DEF interrupt_descriptors, Gate, SystemCalls, INT_SYS_YIELD, INT_CLOCK
    <3>2. EnterGate(v, "int", regs)
      BY <2>5, <3>1
    <3>3. v # INT_CLOCK /\ v \in SystemCalls \cup Exceptions \cup {INT_CLOCK}
      BY <2>7 DEF SystemCalls, INT_SYS_YIELD, INT_CLOCK
    <3> QED BY <1>1, <1>3, <2>4, <2>5, <2>6, <3>2, <3>3, Entered
  <2>8. CASE v \notin SystemCalls
    <3>1. interrupt_descriptors(v).dpl # 3
      BY <2>8 DEF interrupt_descriptors, Gate
    <3>2. EnterGate(13, "int", regs)
      BY <2>5, <3>1
    <3>3. PICK g \in Exceptions : g = 13
      BY DEF Exceptions
    <3>4. EnterGate(g, "int", regs)
      BY <3>2, <3>3
    <3> QED BY <1>1, <1>4, <2>6, <3>3, <3>4
  <2> QED BY <2>7, <2>8
<1> QED BY <1>1, <1>5, <1>6

-----------------------------------------------------------------------------
(* Every step of the machine is a step of the loops, or none of theirs.      *)
LEMMA MachStep ==
  ASSUME KernAssumption, LoopAssumption, MachAssumption, MachInv, [MachNext]_machvars
  PROVE  /\ MachInv' /\ [LoopNext]_loopvars
         /\ phase' = "stub" => phase = "user" \/ stack' = stack
<1>1. LoopInv /\ PhaseInv /\ ContextInv /\ StackInv /\ TrapInv /\ PicInv
  BY DEF MachInv
<1>2. ASSUME [LoopNext]_loopvars
      PROVE  LoopInv'
  BY <1>1, <1>2, LoopStep
<1>3. CASE UNCHANGED machvars
  <2>1. UNCHANGED <<loopvars, hw, stack, phase, trap, pic, ctx>>
    BY <1>3 DEF machvars, hardware
  <2>2. UNCHANGED <<proc_array, current, cpu, mode, cursorpos>>
    BY <2>1 DEF loopvars, kernvars
  <2>3. PhaseInv' /\ StackInv' /\ TrapInv' /\ PicInv'
    BY <1>1, <2>1, <2>2 DEF PhaseInv, StackInv, Laid, TrapInv, PicInv
  <2>4. ContextInv'
    BY <1>1, <2>1, <2>2 DEF ContextInv, Away
  <2> QED BY <1>2, <2>1, <2>3, <2>4 DEF MachInv
<1>4. CASE \E irq \in Irqs[scheduling_algorithm] : Raise(irq)
  <2>1. PICK irq \in Irqs[scheduling_algorithm] : Raise(irq)
    BY <1>4
  <2>2. irq \in 0 .. 15
    BY <1>1 DEF MachAssumption, LoopInv, LoopTypeOK
  <2>3. PicInv'
    BY <1>1, <2>1, <2>2, LineRises
  <2>4. UNCHANGED <<loopvars, hw, stack, phase, trap, ctx>>
    BY <2>1 DEF Raise
  <2>5. UNCHANGED <<proc_array, current, cpu, mode, cursorpos>>
    BY <2>4 DEF loopvars, kernvars
  <2>6. PhaseInv' /\ StackInv' /\ TrapInv'
    BY <1>1, <2>4, <2>5 DEF PhaseInv, StackInv, Laid, TrapInv
  <2>7. ContextInv'
    BY <1>1, <2>4, <2>5 DEF ContextInv, Away
  <2> QED BY <1>2, <2>3, <2>4, <2>6, <2>7 DEF MachInv
<1>5. ASSUME pic' = pic
      PROVE  PicInv'
  BY <1>1, <1>5 DEF PicInv
<1>6. CASE Stub \/ Generic \/ run
  <2>1. pic' = pic /\ phase' # "stub"
    BY <1>6 DEF Stub, Generic, run
  <2>2. PhaseInv' /\ ContextInv' /\ StackInv' /\ TrapInv' /\ UNCHANGED loopvars
    BY <1>6, Stubbed, Pushalled, Restored
  <2> QED BY <1>2, <1>5, <2>1, <2>2 DEF MachInv
<1>7. CASE interrupt
  <2>1. pic' = pic /\ phase' # "stub"
    BY <1>7 DEF interrupt, Onward
  <2> QED BY <1>2, <1>5, <1>7, <2>1, Interrupted DEF MachInv
<1>8. ASSUME Search(Iteration) \/ \E p \in Pids : Search(Draw(p))
      PROVE  PhaseInv' /\ ContextInv' /\ StackInv' /\ TrapInv' /\ [LoopNext]_loopvars
             /\ pic' = pic /\ phase' # "stub"
  <2>1. CASE Search(Iteration)
    <3>1. pic' = pic /\ phase' # "stub"
      BY <2>1 DEF Search, Onward
    <3> QED BY <2>1, <3>1, Searched
  <2>2. CASE \E p \in Pids : Search(Draw(p))
    <3>1. PICK p \in Pids : Search(Draw(p))
      BY <2>2
    <3>2. pic' = pic /\ phase' # "stub"
      BY <3>1 DEF Search, Onward
    <3>3. Draw(p) => Iteration \/ \E q \in Pids : Draw(q)
      OBVIOUS
    <3> QED BY <3>1, <3>2, <3>3, Searched
  <2> QED BY <1>8, <2>1, <2>2
<1>9. CASE Search(Iteration) \/ \E p \in Pids : Search(Draw(p))
  BY <1>2, <1>5, <1>8, <1>9 DEF MachInv
<1>10. CASE Interrupt
  BY <1>2, <1>10, Interrupting DEF MachInv
<1>11. CASE \E i \in Instructions[scheduling_algorithm][current] : Compute(i.file)
  BY <1>2, <1>5, <1>11, Computing DEF MachInv
<1>12. CASE \/ \E i \in Instructions[scheduling_algorithm][current] : Instruction(i.int, i.file)
            \/ \E v \in Exceptions : Fault(v)
  BY <1>2, <1>5, <1>12, Trapping DEF MachInv
<1>13. CASE User
  BY <1>11, <1>12, <1>13 DEF User
<1> QED BY <1>3, <1>4, <1>6, <1>7, <1>9, <1>10, <1>13 DEF MachNext, Kernel

-----------------------------------------------------------------------------
(* The theorems. *)

LEMMA MachInvariant == MachSpec => []MachInv
<1>1. MachInit => MachInv
  BY KernAssumption, LoopAssumption, MachAssumption, MachInitInv
<1>2. MachInv /\ [MachNext]_machvars => MachInv'
  BY KernAssumption, LoopAssumption, MachAssumption, MachStep
<1> QED BY <1>1, <1>2, PTL DEF MachSpec

(* The machine does what the loops of schedule() do: SchedOSLoop, which takes *)
(* a trap for one step with the right number and registers, leaves out        *)
(* nothing that stubs, frame, interrupt controller and pops could break.      *)
THEOREM MachineImplementsLoops == MachSpec => LoopSpec
<1>1. MachInit => LoopInit
  BY DEF MachInit
<1>2. MachInv /\ [MachNext]_machvars => [LoopNext]_loopvars
  BY KernAssumption, LoopAssumption, MachAssumption, MachStep
<1> QED BY <1>1, <1>2, MachInvariant, PTL DEF MachSpec, LoopSpec

(* Hence it does what SchedOSKern says of traps and schedule().              *)
THEOREM MachineImplementsKern == MachSpec => ImplementsKern
BY MachineImplementsLoops, LoopsImplementKern, PTL

(* A process finds in its registers what it left there (schedos-int.S,       *)
(* schedos.h registers_t, run() of schedos-x86.c).                           *)
THEOREM RegistersKept == MachSpec => []RegistersSurvive
<1>1. MachInv => RegistersSurvive
  BY DEF MachInv, ContextInv, RegistersSurvive
<1> QED BY <1>1, MachInvariant, PTL

(* interrupt() switches on the number of the trap that happened.             *)
THEOREM RightDispatch == MachSpec => []DispatchRight
<1>1. MachInv => DispatchRight
  <2> SUFFICES ASSUME MachInv, phase = "interrupt"
               PROVE  DispatchRight
    BY DEF DispatchRight
  <2>1. /\ trap.number \notin {0, 13} => Field(Frame, "intno") = trap.number
        /\ trap.number \in {0, 13} => Field(Frame, "intno") = 0
    BY MachAssumption, FrameFound
  <2>2. /\ (trap.source = "irq") <=> (trap.number = INT_CLOCK)
        /\ trap.source = "irq" => allow_clock_interrupt
    BY DEF MachInv, TrapInv
  <2>3. 0 \notin Handled /\ 13 \notin Handled
    <3>1. Handled = 48 .. 53 \cup {32}
      BY DEF Handled, INT_SYS_YIELD, INT_SYS_USER4, INT_CLOCK
    <3> QED BY <3>1
  <2> QED BY <2>1, <2>2, <2>3 DEF DispatchRight
<1> QED BY <1>1, MachInvariant, PTL

(* No trap is taken but from an application (schedos-kern.c:150).            *)
THEOREM KernelLeftAlone == MachSpec => KernelUninterrupted
<1>1. MachInv /\ [MachNext]_machvars =>
        [phase' = "stub" /\ stack' # stack => phase = "user"]_machvars
  BY KernAssumption, LoopAssumption, MachAssumption, MachStep
<1> QED BY <1>1, MachInvariant, PTL DEF MachSpec, KernelUninterrupted

(* The kernel stack holds one frame at most, and pid stays in the table.     *)
THEOREM MachTypeCorrect == MachSpec => []MachTypeOK
<1>1. MachInv => MachTypeOK
  <2> SUFFICES ASSUME MachInv
               PROVE  MachTypeOK
    OBVIOUS
  <2>1. LoopTypeOK /\ (mode = "schedule" => Searching) /\ PhaseInv /\ StackInv /\ PicInv
    BY DEF MachInv, LoopInv
  <2>2. Abs!TypeOK
    <3>1. Abs!Descriptors = Descriptors /\ Abs!Pids = Pids /\ Abs!Modes = Modes
          /\ Procs = [Pids -> Descriptors]
      BY DEF Abs!Descriptors, Descriptors, Abs!Pids, Pids, Abs!Modes, Modes, Procs, Abs!States,
             States
    <3>2. CASE mode # "schedule"
      <4>1. AbsMode = mode /\ AbsProcs = proc_array
        BY <3>2, AbsOutside
      <4> QED BY <2>1, <3>1, <3>2, <4>1 DEF LoopTypeOK, Abs!TypeOK
    <3>3. CASE mode = "schedule"
      <4>1. AbsMode \in Modes /\ current \in Pids /\ before \in Procs
        BY <2>1, <3>3 DEF AbsMode, Modes, Searching
      <4>2. ClearTime(Runnable(proc_array), proc_array) \in Procs
        BY <2>1, Cleared DEF LoopTypeOK
      <4>3. AbsProcs \in Procs
        BY <2>1, <3>3, <4>1, <4>2 DEF AbsProcs, LoopTypeOK
      <4> QED BY <2>1, <3>1, <4>1, <4>3 DEF LoopTypeOK, Abs!TypeOK
    <3> QED BY <3>2, <3>3
  <2>3. \A p \in Pids : Len(proc_array[p].p_registers) = Len(registers_t)
    <3> SUFFICES ASSUME NEW p \in Pids
                 PROVE  Len(proc_array[p].p_registers) = Len(registers_t)
      OBVIOUS
    <3>1. proc_array[p] \in Descriptors
      BY <2>1 DEF LoopTypeOK, Procs
    <3>2. proc_array[p].p_registers \in [1 .. 17 -> Int]
      BY <3>1, MachAssumption, Positions DEF MachAssumption, Descriptors
    <3>3. ASSUME NEW frame \in [1 .. 17 -> Int]
          PROVE  Len(frame) = 17
      <4>1. frame \in Seq(Int)
        BY SeqDef
      <4>2. DOMAIN frame = 1 .. Len(frame) /\ Len(frame) \in Nat
        BY <4>1, LenProperties
      <4>3. DOMAIN frame = 1 .. 17
        OBVIOUS
      <4>4. \A n \in Nat : 1 .. n = 1 .. 17 => n = 17
        <5> SUFFICES ASSUME NEW n \in Nat, 1 .. n = 1 .. 17
                     PROVE  n = 17
          OBVIOUS
        <5>1. 17 \in 1 .. n /\ n + 1 \notin 1 .. 17
          OBVIOUS
        <5> QED BY <5>1
      <4> QED BY <4>2, <4>3, <4>4
    <3> QED BY <3>2, <3>3, Positions
  <2>4. DOMAIN hw = Registers /\ phase \in Phases
    BY <2>1 DEF MachInv, ContextInv, PhaseInv
  <2>5. Len(stack) <= Len(registers_t)
    <3>1. Len(<<>>) = 0
      BY EmptySeq
    <3>2. CASE phase \in {"user", "kernel", "run"}
      BY <2>1, <3>1, <3>2, Positions DEF StackInv
    <3>3. CASE phase \in {"stub", "generic", "interrupt"}
      <4>1. Len(stack) \in {5, 6, 7, 16, 17}
        BY <2>1, <3>3 DEF StackInv
      <4>2. Len(registers_t) = 17
        BY Positions
      <4>3. \A n \in {5, 6, 7, 16, 17} : n <= 17
        OBVIOUS
      <4> QED BY <4>1, <4>2, <4>3, Zenon
    <3> QED BY <2>1, <3>2, <3>3 DEF PhaseInv, Phases
  <2>6. \A port \in DOMAIN pic : pic[port].awaits = <<>>
    BY <2>1 DEF PicInv, Chips
  <2> QED BY <2>1, <2>2, <2>3, <2>4, <2>5, <2>6 DEF MachTypeOK, LoopTypeOK
<1> QED BY <1>1, MachInvariant, PTL

-----------------------------------------------------------------------------
(***************************************************************************)
(* Waiting: round robin lets nobody overtake twice, strict priorities      *)
(* nobody but the more urgent, and proportional shares nobody beyond its   *)
(* share.                                                                  *)
(*                                                                         *)
(* The argument is the usual one for a token that goes round a ring.  The  *)
(* distance Ahead(current, p) from the current process to a waiting one    *)
(* only shrinks, and those that overtook p since it last ran are at least  *)
(* as far behind p as current is; the next one to run is closer to p than  *)
(* all of them, so it has not yet overtaken it.  The other two algorithms  *)
(* go round the ring as well, but not always: UrgentInv and ShareInv say   *)
(* what holds of those who have overtaken whenever they do.                *)
(***************************************************************************)

Counters == [Pids -> [Pids -> Nat]]

Overtaken(p) ==
  /\ p = current => \A q \in Pids : bypass[p][q] = 0
  /\ p # current => \A q \in Pids :
       \/ bypass[p][q] = 0
       \/ bypass[p][q] = 1 /\ Ahead(current, p) <= Ahead(q, p)

RingInv ==
  scheduling_algorithm = 0 /\ mode = "user" =>
    \A p \in Runnable(proc_array) : Overtaken(p)

(* Algorithm 2: once p has been overtaken by an equal, no waiting process is *)
(* more urgent than p, so that p is passed by in favour of current only.     *)
UrgentInv ==
  scheduling_algorithm = 2 /\ mode = "user" =>
    \A p \in Runnable(proc_array), q \in Runnable(proc_array) :
      \/ bypass[p][q] = 0
      \/ /\ p # current
         /\ bypass[p][q] = 1
         /\ proc_array[p].p_priority = proc_array[q].p_priority
         /\ Ahead(current, p) <= Ahead(q, p)
         /\ \A r \in Waiting : proc_array[p].p_priority <= proc_array[r].p_priority

(* Algorithm 3: whoever waits has a fresh share, so that the scan never goes *)
(* past it, if it has any; only current can still be dispatched again.       *)
FreshShares ==
  \A p \in Runnable(proc_array) :
    /\ proc_array[p].p_time_passed >= 0
    /\ p # current => proc_array[p].p_time_passed = 0

ShareInv ==
  scheduling_algorithm = 3 /\ mode = "user" =>
    /\ FreshShares
    /\ \A p \in Runnable(proc_array), q \in Runnable(proc_array) :
         \/ bypass[p][q] = 0
         \/ p # current /\ proc_array[p].p_share <= 0
         \/ /\ p # current
            /\ bypass[p][q] <= proc_array[q].p_share
            /\ IF q = current THEN bypass[p][q] <= proc_array[q].p_time_passed
                              ELSE Ahead(current, p) <= Ahead(q, p)

FairInv == IInv /\ bypass \in Counters /\ RingInv /\ UrgentInv /\ ShareInv

-----------------------------------------------------------------------------

(* Distances on the ring of descriptors.                                     *)
LEMMA Distances ==
  ASSUME KernAssumption, NEW p \in Pids, NEW q \in Pids, NEW r \in Pids,
         q # r, Ahead(p, q) <= Ahead(p, r)
  PROVE  /\ Ahead(q, r) \in 1 .. NPROCS - 1
         /\ Ahead(q, r) < Ahead(p, r)
BY DEF Ahead, Pids, KernAssumption

(* A handler that calls schedule() has not changed what schedule() compares. *)
SameClaims(procs) ==
  \A q \in Pids :
    /\ procs[q].p_priority = proc_array[q].p_priority
    /\ procs[q].p_share = proc_array[q].p_share
    /\ procs[q].p_time_passed = proc_array[q].p_time_passed

(* What the handlers that call schedule() call it with.                      *)
LEMMA RescheduleForms ==
  ASSUME KernAssumption, IInv, NEW reg \in Regs, Rescheduling(reg)
  PROVE  /\ mode = "user"
         /\ UNCHANGED <<tickets, console>>
         /\ \E procs : Touched(procs) /\ SameClaims(procs) /\ schedule(procs)
<1>1. mode = "user" /\ UNCHANGED <<tickets, console>>
  BY DEF Rescheduling, SysYield, SysExit, Clock
<1> DEFINE old == Saved(reg)
<1>2. Touched(old) /\ old \in Procs /\ current \in Pids /\ old[current] \in Descriptors
  BY <1>1, SavedTouched DEF Touched, IInv, TypeOK, Procs
<1>5. SameClaims(old)
  <2>1. old[current] = [proc_array[current] EXCEPT !.p_registers = reg]
    BY <1>1, SavedTouched
  <2>2. proc_array \in [Pids -> Descriptors]
    BY DEF IInv, TypeOK
  <2> QED BY <1>2, <2>1, <2>2 DEF Touched, SameClaims, Descriptors
<1>3. CASE SysYield(reg) \/ Clock(reg)
  BY <1>1, <1>2, <1>3, <1>5 DEF SysYield, Clock
<1>4. ASSUME NEW x \in Statuses, SysExit(reg, x)
      PROVE  \E procs : Touched(procs) /\ SameClaims(procs) /\ schedule(procs)
  <2> HIDE DEF old
  <2> DEFINE d == [old[current] EXCEPT !.p_state = "P_ZOMBIE", !.p_exit_status = x]
  <2>1. d \in Descriptors /\ d.p_state = "P_ZOMBIE"
    BY <1>2 DEF Descriptors, States, KernAssumption
  <2>2. Touched([old EXCEPT ![current] = d])
    BY <1>1, <1>2, <2>1, ChangedTouched
  <2>3. [old EXCEPT ![current] = d]
          = [old EXCEPT ![current].p_state = "P_ZOMBIE", ![current].p_exit_status = x]
    BY <1>2 DEF Procs, Descriptors
  <2>4. schedule([old EXCEPT ![current] = d])
    BY <1>4, <2>3 DEF SysExit, old
  <2>5. SameClaims([old EXCEPT ![current] = d])
    BY <1>2, <1>5 DEF SameClaims, Procs, Descriptors
  <2> QED BY <2>2, <2>4, <2>5
<1> QED BY <1>1, <1>3, <1>4 DEF Rescheduling

(* The other calls return to the caller, or the machine stops.               *)
LEMMA ReturnForms ==
  ASSUME KernAssumption, IInv, NEW reg \in Regs, Repricing(reg) \/ Continuing(reg)
  PROVE  /\ mode = "user"
         /\ current' = current /\ scheduling_algorithm' = scheduling_algorithm
         /\ Runnable(proc_array') = Runnable(proc_array)
         /\ \A p \in Pids :
              /\ proc_array'[p].p_time_passed = proc_array[p].p_time_passed
              /\ p # current \/ Continuing(reg) =>
                   /\ proc_array'[p].p_priority = proc_array[p].p_priority
                   /\ proc_array'[p].p_share = proc_array[p].p_share
<1>1. mode = "user" /\ current' = current /\ scheduling_algorithm' = scheduling_algorithm
  BY DEF Repricing, Continuing, SysSetPriority, SysSetShare, SysPrint, SysGetTicket,
         BadInterrupt, Run, Stop
<1> DEFINE old == Saved(reg)
<1>2. /\ current \in Pids /\ old \in Procs
      /\ \A p \in Pids : old[p].p_state = proc_array[p].p_state
      /\ SameClaims(old)
  <2>1. Touched(old) /\ proc_array \in [Pids -> Descriptors]
    BY <1>1, SavedTouched DEF IInv, TypeOK
  <2>2. old[current] = [proc_array[current] EXCEPT !.p_registers = reg]
    BY <1>1, SavedTouched
  <2>3. current \in Pids /\ old \in Procs
    BY <1>1, <2>1 DEF Touched, IInv, RunsRunnable, Runnable
  <2>4. \A p \in Pids : p # current => old[p] = proc_array[p]
    BY <2>1 DEF Touched
  <2>5. proc_array[current] \in Descriptors
    BY <2>1, <2>3
  <2> HIDE DEF old
  <2>6. /\ old[current].p_state = proc_array[current].p_state
        /\ old[current].p_priority = proc_array[current].p_priority
        /\ old[current].p_share = proc_array[current].p_share
        /\ old[current].p_time_passed = proc_array[current].p_time_passed
    BY <2>2, <2>5 DEF Descriptors
  <2>7. \A p \in Pids : old[p].p_state = proc_array[p].p_state
    BY <2>4, <2>6
  <2>8. SameClaims(old)
    BY <2>4, <2>6 DEF SameClaims
  <2> QED BY <2>3, <2>7, <2>8
<1> HIDE DEF old
<1>3. \/ proc_array' = old
      \/ \E x : proc_array' = [old EXCEPT ![current].p_priority = x]
      \/ \E x : proc_array' = [old EXCEPT ![current].p_share = x]
  BY DEF Repricing, Continuing, SysSetPriority, SysSetShare, SysPrint, SysGetTicket,
         BadInterrupt, Run, Stop, old
<1>4. \A p \in Pids : proc_array'[p].p_state = proc_array[p].p_state
  BY <1>2, <1>3 DEF Procs, Descriptors
<1>5. \A p \in Pids : p # current => proc_array'[p] = old[p]
  BY <1>2, <1>3 DEF Procs
<1>6. \A p \in Pids : proc_array'[p].p_time_passed = old[p].p_time_passed
  <2>1. old[current] \in Descriptors
    BY <1>2 DEF Procs
  <2>2. proc_array'[current].p_time_passed = old[current].p_time_passed
    <3>1. CASE proc_array' = old
      BY <3>1
    <3>2. ASSUME NEW x, proc_array' = [old EXCEPT ![current].p_priority = x]
          PROVE  proc_array'[current].p_time_passed = old[current].p_time_passed
      BY <1>2, <2>1, <3>2 DEF Procs, Descriptors
    <3>3. ASSUME NEW x, proc_array' = [old EXCEPT ![current].p_share = x]
          PROVE  proc_array'[current].p_time_passed = old[current].p_time_passed
      BY <1>2, <2>1, <3>3 DEF Procs, Descriptors
    <3> QED BY <1>3, <3>1, <3>2, <3>3
  <2> QED BY <1>5, <2>2
<1>7. Continuing(reg) => proc_array' = old
  BY DEF Continuing, SysPrint, SysGetTicket, BadInterrupt, Run, Stop, old
<1> QED BY <1>1, <1>2, <1>4, <1>5, <1>6, <1>7 DEF Runnable, SameClaims

(* The history variable constrains nothing: every step is one of the kernel. *)
LEMMA FairStepIsStep == [FairNext]_fairvars => [Next]_kernvars
BY DEF FairNext, fairvars, Rescheduling, Repricing, Continuing, Next, Trap

LEMMA FairIInv == ASSUME IInv, [FairNext]_fairvars PROVE IInv'
BY FairStepIsStep, NextIInv, KernAssumption

(* The counters after schedule() chose q.                                    *)
LEMMA ChosenCounts ==
  ASSUME bypass \in Counters, NEW q \in Pids, NEW procs
  PROVE  /\ Chosen(q, procs) \in Counters
         /\ \A p \in Pids, r \in Pids :
              /\ p = q => Chosen(q, procs)[p][r] = 0
              /\ r # q => Chosen(q, procs)[p][r] \in {0, bypass[p][r]}
              /\ Chosen(q, procs)[p][q] \in {0, bypass[p][q], bypass[p][q] + 1}
BY DEF Chosen, Counters

LEMMA ForgetCounts ==
  ASSUME bypass \in Counters, NEW q \in Pids
  PROVE  /\ Forget(q) \in Counters
         /\ \A p \in Pids, r \in Pids : Forget(q)[p][r] \in {0, bypass[p][r]}
BY DEF Forget, Counters

LEMMA RescheduleRing ==
  ASSUME FairInv, NEW reg \in Regs, Rescheduling(reg),
         bypass' = IF mode' = "user" THEN Chosen(current', proc_array') ELSE bypass
  PROVE  bypass' \in Counters /\ RingInv'
<1>1. mode = "user" /\ IInv /\ IInv' /\ current \in Pids
  <2>1. mode = "user" /\ Next
    BY KernAssumption, RescheduleForms DEF FairInv, Rescheduling, Next, Trap
  <2> QED BY <2>1, KernAssumption, NextIInv DEF FairInv, IInv, RunsRunnable, Runnable
<1>2. PICK procs : Touched(procs) /\ schedule(procs)
  BY KernAssumption, RescheduleForms DEF FairInv
<1>3. mode' = "user" => current' \in Pids
  BY <1>1 DEF IInv, RunsRunnable, Runnable
<1>4. bypass' \in Counters
  BY <1>3, ChosenCounts DEF FairInv
<1>5. SUFFICES ASSUME scheduling_algorithm' = 0, mode' = "user",
                      NEW p \in Runnable(proc_array')
               PROVE  Overtaken(p)'
  BY <1>4 DEF RingInv
<1>6. scheduling_algorithm = 0 /\ RoundRobin(procs)
  <2>1. \E ps : Outcome(ps, procs)
    BY <1>1, <1>2, KernAssumption, ScheduleOutcome DEF IInv, Touched
  <2>2. scheduling_algorithm' = scheduling_algorithm
    BY <2>1 DEF Outcome, Dispatches, GivesUp, LeavesTable, Run, Stop, RunOutside
  <2> QED BY <1>2, <1>5, <2>2 DEF schedule
<1>7. PICK q \in Runnable(procs) :
        /\ \A r \in Runnable(procs) : Ahead(current, q) <= Ahead(current, r)
        /\ Run(q, procs)
  BY <1>5, <1>6 DEF RoundRobin, RunNext, Stop
<1>8. current' = q /\ proc_array' = procs /\ q \in Pids /\ p \in Runnable(procs) /\ p \in Pids
  BY <1>5, <1>7 DEF Run, Runnable
<1>9. bypass' = Chosen(q, procs)
  BY <1>5, <1>8
<1>10. p \in Runnable(proc_array)
  <2>1. proc_array[current].p_state = "P_RUNNABLE"
    BY <1>1 DEF IInv, RunsRunnable, Runnable
  <2> QED BY <1>2, <1>8, <2>1 DEF Touched, Runnable
<1>11. Overtaken(p)
  BY <1>1, <1>6, <1>10 DEF FairInv, RingInv
<1>12. CASE p = q
  BY <1>8, <1>9, <1>12, ChosenCounts DEF FairInv, Overtaken
<1>13. CASE p # q
  <2>1. Ahead(q, p) \in 1 .. NPROCS - 1 /\ Ahead(q, p) < Ahead(current, p)
    BY <1>1, <1>7, <1>8, <1>13, KernAssumption, Distances
  <2>2. p # current => bypass[p][q] = 0
    <3>1. Ahead(current, p) \in Int /\ Ahead(q, p) \in Int
      BY <1>1, <1>8, KernAssumption DEF Ahead, Pids
    <3> QED BY <1>8, <1>11, <2>1, <3>1 DEF Overtaken
  <2>3. bypass[p][q] = 0
    BY <1>8, <1>11, <2>2 DEF Overtaken
  <2>4. ASSUME NEW r \in Pids
        PROVE  \/ bypass'[p][r] = 0
               \/ bypass'[p][r] = 1 /\ Ahead(q, p) <= Ahead(r, p)
    <3>1. CASE r = q
      <4>1. bypass'[p][r] \in {0, 1}
        BY <1>8, <1>9, <2>3, <3>1, ChosenCounts DEF FairInv
      <4>2. Ahead(q, p) <= Ahead(r, p)
        BY <2>1, <3>1
      <4> QED BY <4>1, <4>2
    <3>2. CASE r # q
      <4>1. bypass'[p][r] \in {0, bypass[p][r]}
        BY <1>8, <1>9, <3>2, ChosenCounts DEF FairInv
      <4>2. Ahead(current, p) \in Int /\ Ahead(q, p) \in Int /\ Ahead(r, p) \in Int
        BY <1>1, <1>8, KernAssumption DEF Ahead, Pids
      <4> QED BY <1>11, <2>1, <4>1, <4>2 DEF Overtaken
    <3> QED BY <3>1, <3>2
  <2>5. \A r \in Pids : Ahead(r, p)' = Ahead(r, p)
    BY DEF Ahead
  <2> QED BY <1>8, <1>13, <2>4 DEF Overtaken, Ahead
<1> QED BY <1>12, <1>13

(* What algorithms 2 and 3 have in common: schedule() found current'.        *)
LEMMA RescheduleStep ==
  ASSUME FairInv, NEW reg \in Regs, Rescheduling(reg), mode' = "user",
         bypass' = IF mode' = "user" THEN Chosen(current', proc_array') ELSE bypass
  PROVE  /\ IInv /\ mode = "user" /\ current \in Pids /\ current' \in Pids
         /\ scheduling_algorithm' = scheduling_algorithm
         /\ bypass' = Chosen(current', proc_array')
         /\ \E procs :
              /\ Touched(procs) /\ SameClaims(procs) /\ schedule(procs)
              /\ proc_array' \in Procs /\ SameButTime(proc_array', procs)
              /\ Runnable(proc_array') = Runnable(procs)
              /\ Runnable(procs) \subseteq Runnable(proc_array)
<1>1. mode = "user" /\ IInv /\ IInv' /\ current \in Pids
  <2>1. mode = "user" /\ Next
    BY KernAssumption, RescheduleForms DEF FairInv, Rescheduling, Next, Trap
  <2> QED BY <2>1, KernAssumption, NextIInv DEF FairInv, IInv, RunsRunnable, Runnable
<1>2. PICK procs : Touched(procs) /\ SameClaims(procs) /\ schedule(procs)
  BY KernAssumption, RescheduleForms DEF FairInv
<1>3. current' \in Pids
  BY <1>1 DEF IInv, RunsRunnable, Runnable
<1>4. PICK ps : Outcome(ps, procs)
  BY <1>1, <1>2, KernAssumption, ScheduleOutcome DEF IInv, Touched
<1>5. /\ scheduling_algorithm' = scheduling_algorithm
      /\ proc_array' = ps /\ ps \in Procs /\ SameButTime(ps, procs)
  BY <1>4 DEF Outcome, Dispatches, GivesUp, LeavesTable, Run, Stop, RunOutside
<1>6. Runnable(ps) = Runnable(procs)
  BY <1>5 DEF SameButTime, Runnable
<1>7. Runnable(procs) \subseteq Runnable(proc_array)
  <2>1. proc_array[current].p_state = "P_RUNNABLE"
    BY <1>1 DEF IInv, RunsRunnable, Runnable
  <2> QED BY <1>2, <2>1 DEF Touched, Runnable
<1> QED BY <1>1, <1>2, <1>3, <1>5, <1>6, <1>7

LEMMA RescheduleUrgent ==
  ASSUME FairInv, NEW reg \in Regs, Rescheduling(reg),
         bypass' = IF mode' = "user" THEN Chosen(current', proc_array') ELSE bypass
  PROVE  UrgentInv'
<1> DEFINE prio(p) == proc_array[p].p_priority
<1>1. SUFFICES
        ASSUME scheduling_algorithm' = 2, mode' = "user",
               NEW p \in Runnable(proc_array'), NEW q \in Runnable(proc_array'),
               bypass'[p][q] # 0
        PROVE  /\ p # current'
               /\ bypass'[p][q] = 1
               /\ proc_array'[p].p_priority = proc_array'[q].p_priority
               /\ Ahead(current', p) <= Ahead(q, p)
               /\ \A r \in Waiting' :
                    proc_array'[p].p_priority <= proc_array'[r].p_priority
  BY DEF UrgentInv, Ahead
<1>2. /\ IInv /\ mode = "user" /\ current \in Pids /\ current' \in Pids
      /\ scheduling_algorithm = 2
      /\ bypass' = Chosen(current', proc_array')
  BY <1>1, RescheduleStep
<1>3. PICK procs : /\ Touched(procs) /\ SameClaims(procs) /\ schedule(procs)
                   /\ Runnable(proc_array') = Runnable(procs)
                   /\ Runnable(procs) \subseteq Runnable(proc_array)
  BY <1>1, RescheduleStep
<1>4. PICK w \in MostUrgent(procs) :
        /\ \A r \in MostUrgent(procs) : Ahead(current, w) <= Ahead(current, r)
        /\ Run(w, procs)
  BY <1>1, <1>2, <1>3 DEF schedule, StrictPriority, RunNext, Stop
<1>5. /\ current' = w /\ proc_array' = procs
      /\ p \in Pids /\ q \in Pids /\ w \in Pids /\ w \in Runnable(procs)
      /\ p \in Runnable(proc_array) /\ q \in Runnable(proc_array)
      /\ w \in Runnable(proc_array)
      /\ bypass' = Chosen(w, procs)
  BY <1>1, <1>2, <1>3, <1>4 DEF Run, MostUrgent, Runnable
<1>6. \A r \in Pids : procs[r].p_priority = prio(r) /\ prio(r) \in Int
  BY <1>2, <1>3 DEF SameClaims, IInv, TypeOK, Descriptors
<1>7. \A r \in Runnable(procs) : r \in Pids /\ prio(w) <= prio(r)
  BY <1>4, <1>5, <1>6 DEF MostUrgent, Runnable
<1>8. p # w
  BY <1>1, <1>5, ChosenCounts DEF FairInv
<1>9. Waiting' = Runnable(procs) \ {w}
  BY <1>5 DEF Waiting
<1>10. \A r \in Pids : Ahead(current, r) \in 1 .. NPROCS /\ Ahead(r, p) \in 1 .. NPROCS
                      /\ Ahead(w, p) \in 1 .. NPROCS
  BY <1>2, <1>5, KernAssumption DEF Ahead, Pids
<1>11. bypass \in Counters
  BY DEF FairInv
<1>12. CASE w = current
  <2>1. prio(w) < prio(p)
    <3>1. Ahead(current, p) < Ahead(current, w)
      BY <1>2, <1>5, <1>8, <1>12, KernAssumption DEF Ahead, Pids
    <3>2. p \notin MostUrgent(procs)
      BY <1>4, <1>5, <1>10, <3>1
    <3>3. PICK r \in Runnable(procs) : ~(prio(p) <= prio(r))
      BY <1>1, <1>3, <1>5, <1>6, <3>2 DEF MostUrgent, Runnable
    <3> QED BY <1>5, <1>6, <1>7, <3>3
  <2>2. bypass'[p] = bypass[p]
    <3>1. ~HasClaim(p, w, procs)
      BY <1>2, <1>5, <1>6, <2>1 DEF HasClaim
    <3>2. HasClaim(p, w, procs)' = HasClaim(p, w, procs)'
      OBVIOUS
    <3> QED BY <1>1, <1>5, <1>8, <3>1 DEF Chosen
  <2>3. /\ bypass[p][q] = 1 /\ prio(p) = prio(q)
        /\ Ahead(current, p) <= Ahead(q, p)
        /\ \A r \in Waiting : prio(p) <= prio(r)
    BY <1>1, <1>2, <1>5, <2>2 DEF FairInv, UrgentInv
  <2>4. Waiting' \subseteq Waiting
    BY <1>3, <1>9, <1>12 DEF Waiting
  <2>5. Waiting' \subseteq Pids
    BY <1>7, <1>9
  <2> QED BY <1>5, <1>6, <1>8, <1>12, <2>2, <2>3, <2>4, <2>5
<1>13. CASE w # current /\ bypass[p][q] = 0
  <2>1. q = w /\ bypass'[p][q] = 1 /\ HasClaim(p, w, procs)
    <3>1. bypass'[p][q] # bypass[p][q]
      BY <1>1, <1>13
    <3> QED BY <1>1, <1>3, <1>5, <1>8, <1>11, <1>13, <3>1 DEF Chosen, Counters
  <2>2. prio(p) = prio(w)
    BY <1>2, <1>5, <1>6, <1>7, <1>1, <1>3, <2>1 DEF HasClaim
  <2> QED BY <1>5, <1>6, <1>7, <1>8, <1>9, <1>10, <2>1, <2>2
<1>14. CASE w # current /\ bypass[p][q] # 0
  <2>1. /\ p # current /\ bypass[p][q] = 1 /\ prio(p) = prio(q)
        /\ Ahead(current, p) <= Ahead(q, p)
        /\ \A r \in Waiting : prio(p) <= prio(r)
    BY <1>2, <1>5, <1>14 DEF FairInv, UrgentInv
  <2>2. prio(w) = prio(p)
    <3>1. w \in Waiting /\ p \in Runnable(procs)
      BY <1>1, <1>3, <1>5, <1>14 DEF Waiting
    <3> QED BY <1>5, <1>6, <1>7, <2>1, <3>1
  <2>3. p \in MostUrgent(procs)
    BY <1>1, <1>3, <1>5, <1>6, <1>7, <2>2 DEF MostUrgent
  <2>4. Ahead(w, p) < Ahead(current, p)
    BY <1>2, <1>4, <1>5, <1>8, <2>3, KernAssumption, Distances
  <2>5. q # w
    BY <1>2, <1>5, <1>10, <2>1, <2>4
  <2>6. bypass'[p][q] = 1
    BY <1>1, <1>5, <1>11, <2>1, <2>5, ChosenCounts
  <2>7. Ahead(w, p) <= Ahead(q, p)
    BY <1>2, <1>5, <1>10, <2>1, <2>4
  <2> QED BY <1>5, <1>6, <1>7, <1>8, <1>9, <2>1, <2>2, <2>6, <2>7
<1> QED BY <1>12, <1>13, <1>14

LEMMA RescheduleShare ==
  ASSUME FairInv, NEW reg \in Regs, Rescheduling(reg),
         bypass' = IF mode' = "user" THEN Chosen(current', proc_array') ELSE bypass
  PROVE  ShareInv'
<1> DEFINE time(p) == proc_array[p].p_time_passed
           share(p) == proc_array[p].p_share
<1>1. SUFFICES ASSUME scheduling_algorithm' = 3, mode' = "user" PROVE ShareInv'
  BY DEF ShareInv
<1>2. /\ IInv /\ mode = "user" /\ current \in Pids /\ current' \in Pids
      /\ scheduling_algorithm = 3 /\ bypass \in Counters
      /\ bypass' = Chosen(current', proc_array')
  BY <1>1, RescheduleStep DEF FairInv
<1>3. PICK procs : /\ Touched(procs) /\ SameClaims(procs) /\ schedule(procs)
                   /\ proc_array' \in Procs /\ SameButTime(proc_array', procs)
                   /\ Runnable(proc_array') = Runnable(procs)
                   /\ Runnable(procs) \subseteq Runnable(proc_array)
  BY <1>1, RescheduleStep
<1> DEFINE runnable == Runnable(procs)
           due   == {p \in runnable : HasTurn(procs[p])}
           ready == IF due # {} THEN due ELSE {p \in runnable : procs[p].p_share > 0}
           Passed(p) == IF due # {} THEN {q \in runnable : Visit(q) < Visit(p)}
                                    ELSE runnable
<1>4. PICK w \in ready :
        /\ \A q \in ready : Visit(w) <= Visit(q)
        /\ Run(w, [ClearTime(Passed(w), procs) EXCEPT ![w].p_time_passed = @ + 1])
  <2>1. ProportionalShare(procs)
    BY <1>2, <1>3 DEF schedule
  <2>2. ~Stop("spin", ClearTime(runnable, procs))
    BY <1>1 DEF Stop
  <2> QED BY <2>1, <2>2 DEF ProportionalShare
<1>5. /\ current' = w
      /\ proc_array' = [ClearTime(Passed(w), procs) EXCEPT ![w].p_time_passed = @ + 1]
  BY <1>4 DEF Run
<1>6. /\ w \in runnable /\ Passed(w) \subseteq runnable /\ runnable \subseteq Pids
      /\ procs \in Procs
  BY <1>3, <1>4 DEF Runnable, Touched
<1>7. \A p \in runnable :
        /\ procs[p].p_share = share(p) /\ proc_array'[p].p_share = share(p)
        /\ procs[p].p_time_passed = time(p)
        /\ share(p) \in Int /\ time(p) \in Int
        /\ time(p) >= 0 /\ (p # current => time(p) = 0)
  BY <1>2, <1>3, <1>6 DEF SameClaims, SameButTime, IInv, TypeOK, Descriptors, FairInv,
                          ShareInv, FreshShares
<1>8. \A r \in runnable :
        /\ r # w /\ r \in Passed(w) => proc_array'[r].p_time_passed = 0
        /\ r # w /\ r \notin Passed(w) => proc_array'[r].p_time_passed = time(r)
        /\ w \in Passed(w) => proc_array'[w].p_time_passed = 1
        /\ w \notin Passed(w) => proc_array'[w].p_time_passed = time(w) + 1
  <2>1. PICK S : S = Passed(w)
    OBVIOUS
  <2>2. PICK ps : ps = ClearTime(S, procs)
    OBVIOUS
  <2> HIDE DEF Passed, ready
  <2>3. ps \in Procs
    BY <1>6, <2>1, <2>2, ClearTimeKeeps
  <2>4. \A p \in Pids : procs[p] \in Descriptors /\ ps[p] \in Descriptors
    BY <1>6, <2>3 DEF Procs
  <2>5. \A p \in Pids : ps[p] = IF p \in S THEN [procs[p] EXCEPT !.p_time_passed = 0]
                                           ELSE procs[p]
    BY <2>2 DEF ClearTime
  <2>6. \A p \in Pids : ps[p].p_time_passed = IF p \in S THEN 0 ELSE procs[p].p_time_passed
    BY <2>4, <2>5 DEF Descriptors
  <2>7. proc_array' = [ps EXCEPT ![w].p_time_passed = @ + 1]
    BY <1>5, <2>1, <2>2
  <2>8. /\ proc_array'[w].p_time_passed = ps[w].p_time_passed + 1
        /\ \A r \in Pids \ {w} : proc_array'[r] = ps[r]
    BY <1>6, <2>3, <2>4, <2>7 DEF Procs, Descriptors
  <2> QED BY <1>6, <1>7, <2>1, <2>6, <2>8
<1>9. \A p \in runnable :
        /\ Visit(p) \in 0 .. NPROCS - 1
        /\ p = current => Visit(p) = 0
        /\ p # current => Visit(p) = Ahead(current, p) /\ Visit(p) >= 1
  BY <1>2, <1>6, KernAssumption DEF Visit, Ahead, Pids
<1>10. FreshShares'
  <2>1. ASSUME NEW p \in runnable
        PROVE  /\ proc_array'[p].p_time_passed >= 0
               /\ p # w => proc_array'[p].p_time_passed = 0
    <3>1. p = current /\ p # w => p \in Passed(w)
      BY <1>6, <1>9, <2>1
    <3> HIDE DEF Passed
    <3> QED BY <1>6, <1>7, <1>8, <2>1, <3>1
  <2> QED BY <1>3, <1>5, <2>1 DEF FreshShares
<1>11. ASSUME NEW p \in runnable, NEW q \in runnable, bypass'[p][q] # 0, share(p) > 0
       PROVE  /\ p # w
              /\ bypass'[p][q] <= share(q)
              /\ IF q = w THEN bypass'[p][q] <= proc_array'[q].p_time_passed
                          ELSE Ahead(w, p) <= Ahead(q, p)
  <2>1. /\ p \in Pids /\ q \in Pids /\ w \in Pids
        /\ p \in Runnable(proc_array) /\ q \in Runnable(proc_array)
    BY <1>3, <1>6
  <2>2. /\ p # w
        /\ q # w => bypass'[p][q] = bypass[p][q]
        /\ q = w => bypass'[p][q] \in {bypass[p][q], bypass[p][q] + 1}
    <3>1. /\ p = w => Chosen(w, proc_array')[p][q] = 0
          /\ q # w => Chosen(w, proc_array')[p][q] \in {0, bypass[p][q]}
          /\ Chosen(w, proc_array')[p][w] \in {0, bypass[p][w], bypass[p][w] + 1}
      BY <1>2, <2>1, ChosenCounts
    <3>2. bypass' = Chosen(w, proc_array') /\ bypass'[p][q] # 0
      BY <1>2, <1>5, <1>11
    <3> QED BY <3>1, <3>2
  <2>3. bypass[p][q] \in Nat
    BY <1>2, <2>1 DEF Counters
  <2>4. share(w) >= 1
    BY <1>4, <1>6, <1>7 DEF HasTurn
  <2>5. proc_array'[w].p_time_passed >= 1
    <3> HIDE DEF Passed
    <3> QED BY <1>6, <1>7, <1>8
  <2>6. \/ bypass[p][q] = 0
        \/ /\ p # current
           /\ bypass[p][q] <= share(q)
           /\ IF q = current THEN bypass[p][q] <= time(q)
                             ELSE Ahead(current, p) <= Ahead(q, p)
    BY <1>2, <1>7, <1>11, <2>1 DEF FairInv, ShareInv
  <2>7. CASE p = current
    <3>1. bypass[p][q] = 0
      BY <2>6, <2>7
    <3>2. q = w /\ bypass'[p][q] = 1
      BY <1>11, <2>2, <3>1
    <3>3. proc_array'[w].p_time_passed \in Int
      BY <1>3, <2>1 DEF Procs, Descriptors
    <3> QED BY <1>6, <1>7, <2>2, <2>4, <2>5, <3>2, <3>3
  <2>8. CASE p # current
    <3>1. p \in due
      BY <1>7, <1>11, <2>8 DEF HasTurn
    <3>2. Visit(w) <= Visit(p) /\ w \notin Passed(w) /\ HasTurn(procs[w])
      BY <1>4, <1>6, <1>9, <3>1
    <3>3. proc_array'[w].p_time_passed = time(w) + 1 /\ time(w) + 1 <= share(w)
      <4> HIDE DEF Passed
      <4> QED BY <1>6, <1>7, <1>8, <3>2 DEF HasTurn
    <3>4. CASE w = current
      BY <1>6, <1>7, <1>11, <2>2, <2>3, <2>6, <3>3, <3>4
    <3>5. CASE w # current
      <4>1. Ahead(w, p) < Ahead(current, p)
        <5>1. Ahead(current, w) <= Ahead(current, p)
          BY <1>6, <1>9, <2>8, <3>2, <3>5
        <5> QED BY <1>2, <2>1, <2>2, <5>1, KernAssumption, Distances
      <4>2. Ahead(w, p) \in Int /\ Ahead(current, p) \in Int /\ Ahead(q, p) \in Int
        BY <1>2, <2>1, KernAssumption DEF Ahead, Pids
      <4>3. CASE q = w
        <5>1. bypass[p][q] = 0
          BY <2>6, <3>5, <4>1, <4>2, <4>3
        <5> QED BY <1>6, <1>7, <1>11, <2>2, <2>4, <3>3, <4>3, <5>1
      <4>4. CASE q # w
        BY <1>7, <1>11, <2>2, <2>6, <4>1, <4>2, <4>4
      <4> QED BY <4>3, <4>4
    <3> QED BY <3>4, <3>5
  <2> QED BY <2>7, <2>8
<1>12. ASSUME NEW p \in runnable, NEW q \in runnable, bypass'[p][q] # 0
       PROVE  p # w
  <2>1. p \in Pids /\ q \in Pids /\ w \in Pids
    BY <1>6
  <2>2. p = w => Chosen(w, proc_array')[p][q] = 0
    BY <1>2, <2>1, ChosenCounts
  <2>3. bypass' = Chosen(w, proc_array')
    BY <1>2, <1>5
  <2> QED BY <1>12, <2>2, <2>3
<1> HIDE DEF runnable
<1> QED
  <2>1. SUFFICES
          ASSUME NEW p \in runnable, NEW q \in runnable, bypass'[p][q] # 0
          PROVE  \/ p # w /\ proc_array'[p].p_share <= 0
                 \/ /\ p # w
                    /\ bypass'[p][q] <= proc_array'[q].p_share
                    /\ IF q = w THEN bypass'[p][q] <= proc_array'[q].p_time_passed
                                ELSE Ahead(w, p) <= Ahead(q, p)
    <3>1. Runnable(proc_array)' = runnable /\ current' = w /\ FreshShares'
      BY <1>3, <1>5, <1>10 DEF runnable
    <3> QED BY <3>1 DEF ShareInv, Ahead
  <2>2. CASE share(p) > 0
    BY <1>7, <1>11, <2>1, <2>2
  <2>3. CASE ~(share(p) > 0)
    BY <1>7, <1>12, <2>1, <2>3
  <2> QED BY <2>2, <2>3

(* Algorithm 3 takes the processor from a runnable process only when it has  *)
(* used its share, and leaves a fresh share to all that are not running.     *)
LEMMA RescheduleHonours ==
  ASSUME FairInv, NEW reg \in Regs, Rescheduling(reg), scheduling_algorithm = 3,
         bypass' = IF mode' = "user" THEN Chosen(current', proc_array') ELSE bypass
  PROVE  /\ current' # current /\ current \in Runnable(proc_array') =>
              proc_array[current].p_time_passed >= proc_array[current].p_share
         /\ \A p \in Runnable(proc_array') : p # current' =>
              proc_array'[p].p_time_passed = 0
<1>1. mode = "user" /\ IInv /\ current \in Pids
  BY KernAssumption, RescheduleForms DEF FairInv, IInv, RunsRunnable, Runnable
<1>2. PICK procs : Touched(procs) /\ SameClaims(procs) /\ schedule(procs)
  BY KernAssumption, RescheduleForms DEF FairInv
<1>3. ProportionalShare(procs)
  BY <1>2 DEF schedule
<1> DEFINE runnable == Runnable(procs)
           due   == {p \in runnable : HasTurn(procs[p])}
           ready == IF due # {} THEN due ELSE {p \in runnable : procs[p].p_share > 0}
           Passed(p) == IF due # {} THEN {q \in runnable : Visit(q) < Visit(p)}
                                    ELSE runnable
<1>4. CASE Stop("spin", ClearTime(runnable, procs))
  <2>1. current' = current /\ proc_array' = ClearTime(runnable, procs)
    BY <1>4 DEF Stop
  <2>2. procs \in Procs /\ runnable \subseteq Pids
    BY <1>2 DEF Touched, Runnable
  <2> QED
    <3>1. ASSUME NEW p \in Runnable(proc_array')
          PROVE  proc_array'[p].p_time_passed = 0
      <4>1. p \in Pids /\ procs[p] \in Descriptors
        BY <2>2, <3>1 DEF Runnable, Procs
      <4>2. p \in runnable => proc_array'[p].p_time_passed = 0
        BY <2>1, <4>1 DEF ClearTime, Descriptors
      <4>3. p \notin runnable => proc_array'[p] = procs[p]
        BY <2>1, <4>1 DEF ClearTime
      <4>4. proc_array'[p].p_state = "P_RUNNABLE"
        BY <3>1 DEF Runnable
      <4> QED BY <4>1, <4>2, <4>3, <4>4 DEF Runnable
    <3> QED BY <2>1, <3>1
<1>5. ASSUME NEW w \in ready, \A q \in ready : Visit(w) <= Visit(q),
             Run(w, [ClearTime(Passed(w), procs) EXCEPT ![w].p_time_passed = @ + 1])
      PROVE  /\ current' # current /\ current \in Runnable(proc_array') =>
                  proc_array[current].p_time_passed >= proc_array[current].p_share
             /\ \A p \in Runnable(proc_array') : p # current' =>
                  proc_array'[p].p_time_passed = 0
  <2>1. current' = w /\ mode' = "user"
    BY <1>5 DEF Run
  <2>2. scheduling_algorithm' = 3
    BY <1>5 DEF Run
  <2>3. \A p \in Runnable(proc_array') : p # current' => proc_array'[p].p_time_passed = 0
    BY <2>1, <2>2, RescheduleShare DEF ShareInv, FreshShares
  <2>4. ASSUME w # current, current \in runnable
        PROVE  ~HasTurn(procs[current])
    <3>1. SUFFICES ASSUME current \in due PROVE FALSE
      BY <2>4
    <3>2. Visit(w) <= Visit(current)
      BY <1>5, <3>1
    <3>3. w \in Pids
      BY <1>5 DEF Runnable
    <3> QED BY <1>1, <2>4, <3>2, <3>3, KernAssumption DEF Visit, Pids
  <2>5. Runnable(proc_array') = runnable
    <3>1. PICK S : S = Passed(w)
      OBVIOUS
    <3>2. PICK ps : ps = ClearTime(S, procs)
      OBVIOUS
    <3>3. procs \in Procs /\ w \in runnable /\ S \in SUBSET runnable
      BY <1>2, <1>5, <3>1 DEF Touched
    <3>4. proc_array' = [ps EXCEPT ![w].p_time_passed = @ + 1]
      BY <1>5, <3>1, <3>2 DEF Run
    <3> HIDE DEF Passed, ready
    <3>5. SameButTime(proc_array', procs)
      BY <3>2, <3>3, <3>4, ClearTimeKeeps, CountTimeKeeps
    <3> QED BY <3>5 DEF SameButTime, Runnable
  <2>6. ~HasTurn(procs[current]) =>
          proc_array[current].p_time_passed >= proc_array[current].p_share
    <3>1. /\ procs[current].p_share = proc_array[current].p_share
          /\ procs[current].p_time_passed = proc_array[current].p_time_passed
          /\ proc_array[current] \in Descriptors
      BY <1>1, <1>2 DEF SameClaims, IInv, TypeOK
    <3> QED BY <3>1 DEF HasTurn, Descriptors
  <2> QED BY <2>1, <2>3, <2>4, <2>5, <2>6
<1> QED BY <1>3, <1>4, <1>5 DEF ProportionalShare

LEMMA ReturnRing ==
  ASSUME FairInv, NEW reg \in Regs,
         \/ Repricing(reg) /\ bypass' = Forget(current)
         \/ Continuing(reg) /\ UNCHANGED bypass
  PROVE  bypass' \in Counters /\ RingInv' /\ UrgentInv' /\ ShareInv'
<1>1. /\ mode = "user" /\ current' = current
      /\ scheduling_algorithm' = scheduling_algorithm
      /\ Runnable(proc_array') = Runnable(proc_array)
      /\ \A p \in Pids :
           /\ proc_array'[p].p_time_passed = proc_array[p].p_time_passed
           /\ p # current \/ Continuing(reg) =>
                /\ proc_array'[p].p_priority = proc_array[p].p_priority
                /\ proc_array'[p].p_share = proc_array[p].p_share
  BY KernAssumption, ReturnForms DEF FairInv
<1>2. current \in Pids
  BY <1>1 DEF FairInv, IInv, RunsRunnable, Runnable
<1>3. /\ bypass' \in Counters
      /\ \A p \in Pids, r \in Pids : bypass'[p][r] \in {0, bypass[p][r]}
  BY <1>2, ForgetCounts DEF FairInv, Counters
<1>4. RingInv'
  BY <1>1, <1>3 DEF FairInv, RingInv, Overtaken, Ahead, Runnable
<1>5. \A p \in Pids, q \in Pids :
        \/ bypass'[p][q] = 0
        \/ /\ bypass'[p][q] = bypass[p][q] /\ bypass[p][q] # 0
           /\ q # current \/ Continuing(reg)
  <2>1. ASSUME bypass' = Forget(current), NEW p \in Pids
        PROVE  bypass'[p][current] = 0
    BY <1>2, <2>1 DEF Forget, FairInv, Counters
  <2> QED BY <1>3, <2>1
<1>6. Runnable(proc_array) \subseteq Pids /\ Waiting' = Waiting
  BY <1>1 DEF Runnable, Waiting
<1>7. UrgentInv'
  <2>1. SUFFICES
          ASSUME scheduling_algorithm = 2,
                 NEW p \in Runnable(proc_array), NEW q \in Runnable(proc_array),
                 bypass'[p][q] # 0
          PROVE  /\ p # current
                 /\ bypass'[p][q] = 1
                 /\ proc_array'[p].p_priority = proc_array'[q].p_priority
                 /\ Ahead(current, p) <= Ahead(q, p)
                 /\ \A r \in Waiting :
                      proc_array'[p].p_priority <= proc_array'[r].p_priority
    BY <1>1, <1>6 DEF UrgentInv, Ahead
  <2>2. /\ p # current
        /\ bypass[p][q] = 1 /\ bypass'[p][q] = 1
        /\ proc_array[p].p_priority = proc_array[q].p_priority
        /\ Ahead(current, p) <= Ahead(q, p)
        /\ \A r \in Waiting : proc_array[p].p_priority <= proc_array[r].p_priority
    BY <1>1, <1>5, <1>6, <2>1 DEF FairInv, UrgentInv
  <2>3. q # current \/ Continuing(reg)
    BY <1>5, <1>6, <2>1
  <2>4. \A r \in Waiting : r \in Pids /\ r # current
    BY <1>6 DEF Waiting
  <2> QED BY <1>1, <1>6, <2>2, <2>3, <2>4
<1>8. ShareInv'
  <2>1. SUFFICES ASSUME scheduling_algorithm = 3 PROVE ShareInv'
    BY <1>1 DEF ShareInv
  <2>2. FreshShares'
    BY <1>1, <1>6, <2>1 DEF FairInv, ShareInv, FreshShares
  <2>3. SUFFICES
          ASSUME NEW p \in Runnable(proc_array), NEW q \in Runnable(proc_array),
                 bypass'[p][q] # 0
          PROVE  \/ p # current /\ proc_array'[p].p_share <= 0
                 \/ /\ p # current
                    /\ bypass'[p][q] <= proc_array'[q].p_share
                    /\ IF q = current THEN bypass'[p][q] <= proc_array'[q].p_time_passed
                                      ELSE Ahead(current, p) <= Ahead(q, p)
    BY <1>1, <2>2 DEF ShareInv, Ahead
  <2>4. /\ bypass'[p][q] = bypass[p][q] /\ bypass[p][q] # 0
        /\ q # current \/ Continuing(reg)
    BY <1>5, <1>6, <2>3
  <2>5. \/ p # current /\ proc_array[p].p_share <= 0
        \/ /\ p # current
           /\ bypass[p][q] <= proc_array[q].p_share
           /\ IF q = current THEN bypass[p][q] <= proc_array[q].p_time_passed
                             ELSE Ahead(current, p) <= Ahead(q, p)
    BY <1>1, <2>1, <2>4 DEF FairInv, ShareInv
  <2> QED BY <1>1, <1>6, <2>4, <2>5
<1> QED BY <1>3, <1>4, <1>7, <1>8

LEMMA FairNextInv == ASSUME FairInv, [FairNext]_fairvars PROVE FairInv'
<1>1. IInv'
  BY FairIInv DEF FairInv
<1>2. CASE UNCHANGED fairvars
  BY <1>1, <1>2 DEF fairvars, kernvars, FairInv, RingInv, Overtaken, UrgentInv, ShareInv,
                    FreshShares, Waiting, Runnable, Ahead
<1>3. CASE FairNext
  BY <1>1, <1>3, RescheduleRing, RescheduleUrgent, RescheduleShare, ReturnRing DEF FairNext, FairInv
<1> QED BY <1>2, <1>3

LEMMA FairInitInv == FairInit => FairInv
<1> SUFFICES ASSUME FairInit PROVE FairInv
  OBVIOUS
<1>1. IInv
  BY KernAssumption, InitIInv DEF FairInit
<1>2. bypass \in Counters /\ \A p \in Pids, q \in Pids : bypass[p][q] = 0
  BY DEF FairInit, Counters
<1>3. RingInv
  BY <1>2 DEF RingInv, Overtaken, Runnable
<1>4. UrgentInv /\ ShareInv
  <2>1. \A p \in Pids : proc_array[p].p_time_passed = 0
    BY DEF FairInit, Init, Descriptor
  <2> QED BY <1>2, <2>1 DEF UrgentInv, ShareInv, FreshShares, Runnable
<1> QED BY <1>1, <1>2, <1>3, <1>4 DEF FairInv
-----------------------------------------------------------------------------

(* Under algorithm 0, for any number of processes and whatever they do, no   *)
(* process gets the processor twice while a runnable one waits.              *)
THEOREM NobodyOvertakesTwice == FairSpec => []RoundRobinBypass
<1>1. FairInv => RoundRobinBypass
  BY DEF FairInv, RingInv, Overtaken, RoundRobinBypass, Waiting
<1>2. FairInv /\ [FairNext]_fairvars => FairInv'
  BY FairNextInv
<1> QED BY <1>1, <1>2, FairInitInv, PTL DEF FairSpec

(* Under algorithm 2 a waiting process is overtaken by no less urgent one,   *)
(* and at most once by each that is as urgent.                               *)
THEOREM EqualsAlternate == FairSpec => []PriorityBypass
<1>1. FairInv => PriorityBypass
  <2>1. SUFFICES ASSUME FairInv, scheduling_algorithm = 2, mode = "user",
                        NEW p \in Waiting, NEW q \in Runnable(proc_array)
                 PROVE  /\ proc_array[p].p_priority < proc_array[q].p_priority =>
                             bypass[p][q] = 0
                        /\ proc_array[p].p_priority = proc_array[q].p_priority =>
                             bypass[p][q] <= 1
    BY DEF PriorityBypass
  <2>2. \/ bypass[p][q] = 0
        \/ bypass[p][q] = 1 /\ proc_array[p].p_priority = proc_array[q].p_priority
    BY <2>1 DEF FairInv, UrgentInv, Waiting
  <2>3. proc_array[q].p_priority \in Int
    BY <2>1 DEF FairInv, IInv, TypeOK, Runnable, Descriptors
  <2> QED BY <2>2, <2>3
<1>2. FairInv /\ [FairNext]_fairvars => FairInv'
  BY FairNextInv
<1> QED BY <1>1, <1>2, FairInitInv, PTL DEF FairSpec

(* Under algorithm 3 a waiting process with a share is overtaken by each     *)
(* other at most as often as the other's share allows.                       *)
THEOREM SharesBound == FairSpec => []ShareBypass
<1>1. FairInv => ShareBypass
  <2>1. SUFFICES ASSUME FairInv, scheduling_algorithm = 3, mode = "user",
                        NEW p \in Waiting, NEW q \in Runnable(proc_array),
                        proc_array[p].p_share > 0
                 PROVE  bypass[p][q] <=
                          IF proc_array[q].p_share > 0 THEN proc_array[q].p_share ELSE 0
    BY DEF ShareBypass
  <2>2. proc_array[q].p_share \in Int /\ proc_array[p].p_share \in Int
        /\ bypass[p][q] \in Nat
    BY <2>1 DEF FairInv, IInv, TypeOK, Runnable, Descriptors, Waiting, Counters
  <2>3. bypass[p][q] = 0 \/ bypass[p][q] <= proc_array[q].p_share
    BY <2>1, <2>2 DEF FairInv, ShareInv, Waiting
  <2> QED BY <2>2, <2>3
<1>2. FairInv /\ [FairNext]_fairvars => FairInv'
  BY FairNextInv
<1> QED BY <1>1, <1>2, FairInitInv, PTL DEF FairSpec
(* Under algorithm 3 a runnable process loses the processor only after the   *)
(* whole of its share, and whoever waits has a fresh one.                    *)
THEOREM WholeShares == FairSpec => ShareHonoured
<1> DEFINE A == scheduling_algorithm = 3 =>
                  /\ current' # current /\ current \in Runnable(proc_array') =>
                       proc_array[current].p_time_passed >= proc_array[current].p_share
                  /\ \A p \in Runnable(proc_array') : p # current' =>
                       proc_array'[p].p_time_passed = 0
<1>1. FairInv /\ [FairNext]_fairvars => [A]_fairvars
  <2>1. SUFFICES ASSUME FairInv, FairNext, scheduling_algorithm = 3 PROVE A
    OBVIOUS
  <2>2. PICK reg \in Regs :
          \/ /\ Rescheduling(reg)
             /\ bypass' = IF mode' = "user" THEN Chosen(current', proc_array') ELSE bypass
          \/ Repricing(reg) \/ Continuing(reg)
    BY <2>1 DEF FairNext
  <2>3. CASE Repricing(reg) \/ Continuing(reg)
    <3>1. /\ mode = "user" /\ current' = current
          /\ Runnable(proc_array') = Runnable(proc_array)
          /\ \A p \in Pids : proc_array'[p].p_time_passed = proc_array[p].p_time_passed
      BY <2>1, <2>3, KernAssumption, ReturnForms DEF FairInv
    <3> QED BY <2>1, <3>1 DEF FairInv, ShareInv, FreshShares, Runnable
  <2> HIDE DEF A
  <2>4. CASE Rescheduling(reg)
            /\ bypass' = IF mode' = "user" THEN Chosen(current', proc_array') ELSE bypass
    BY <2>1, <2>4, RescheduleHonours DEF A
  <2> QED BY <2>2, <2>3, <2>4
<1>2. FairInv /\ [FairNext]_fairvars => FairInv'
  BY FairNextInv
<1> QED BY <1>1, <1>2, FairInitInv, PTL DEF FairSpec, ShareHonoured
=============================================================================
