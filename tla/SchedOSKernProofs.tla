------------------------- MODULE SchedOSKernProofs -------------------------
(***************************************************************************)
(* Proofs about SchedOSKern, for every number of processes, every capacity *)
(* of the ticket table, every set of scheduling algorithms and arguments.  *)
(*                                                                         *)
(* Whatever schedule() decides, what it does to the process table is to    *)
(* reset or count p_time_passed of runnable processes.  Lemma              *)
(* ScheduleOutcome says so once for all five algorithms, and says what is  *)
(* known of the process it runs; the proofs about the actions rest on it.  *)
(***************************************************************************)
EXTENDS SchedOSKern, FiniteSetTheorems, TLAPS

Procs == [Pids -> Descriptors]

(* What schedule() may do to the table it was called with. *)
SameButTime(ps, procs) ==
  \A q \in Pids :
    /\ ps[q].p_state = procs[q].p_state
    /\ ps[q].p_share = procs[q].p_share
    /\ ps[q].p_registers = procs[q].p_registers
    /\ procs[q].p_state # "P_RUNNABLE" => ps[q] = procs[q]

(* When algorithms 3 and 4 give up on process p. *)
Stuck(p, procs) ==
  \/ scheduling_algorithm = 3 /\ procs[p].p_share <= 0
  \/ scheduling_algorithm = 4 /\ Drawing /\ p \notin Holders

(* Whom schedule() runs. *)
Eligible(p, procs) ==
  \/ p \in Runnable(procs) /\ (scheduling_algorithm = 1 => p = current)
  \/ /\ scheduling_algorithm = 1
     /\ procs[current].p_state # "P_RUNNABLE"
     /\ p = current + 1

-----------------------------------------------------------------------------

(* A finite set of processes has a most urgent one: by the well-foundedness  *)
(* of the subset ordering, a smallest set without would have one after all.  *)
LEMMA LeastExists ==
  ASSUME NEW S, IsFiniteSet(S), S # {},
         NEW f, \A x \in S : f[x] \in Int
  PROVE  \E p \in S : \A q \in S : f[p] <= f[q]
<1> DEFINE HasLeast(X) == \E p \in X : \A q \in X : f[p] <= f[q]
           Bad == {X \in SUBSET S : X # {} /\ ~HasLeast(X)}
<1>1. SUFFICES ASSUME Bad # {} PROVE FALSE
  OBVIOUS
<1>2. Bad \subseteq FiniteSubsetsOf(S)
  BY FS_Subset DEF FiniteSubsetsOf
<1>3. PICK X \in Bad : \A Y \in Bad : ~(<<Y, X>> \in StrictSubsetOrdering(S))
  <2>1. IsWellFoundedOn(StrictSubsetOrdering(S), FiniteSubsetsOf(S))
    BY FS_StrictSubsetOrderingWellFounded
  <2> QED BY <1>1, <1>2, <2>1, WFMin
<1>4. PICK x \in X : TRUE
  BY <1>3
<1>5. CASE X = {x}
  BY <1>3, <1>5
<1>6. CASE X # {x}
  <2> DEFINE Y == X \ {x}
  <2>1. Y # {} /\ Y \in SUBSET S /\ Y \subseteq X /\ Y # X
    BY <1>3, <1>4, <1>6
  <2>2. Y \notin Bad
    BY <1>3, <2>1 DEF StrictSubsetOrdering
  <2>3. PICK m \in Y : \A q \in Y : f[m] <= f[q]
    BY <2>1, <2>2
  <2>4. HasLeast(X)
    <3>1. f[m] \in Int /\ f[x] \in Int /\ \A q \in X : f[q] \in Int
      BY <1>3, <1>4, <2>1, <2>3
    <3>2. CASE f[m] <= f[x]
      BY <1>4, <2>1, <2>3, <3>1, <3>2
    <3>3. CASE f[x] < f[m]
      BY <1>4, <2>1, <2>3, <3>1, <3>3
    <3> QED BY <3>1, <3>2, <3>3
  <2> QED BY <1>3, <2>4
<1> QED BY <1>5, <1>6

(* The laps of algorithm 3 reset times of runnable processes, nothing else. *)
LEMMA ClearTimeKeeps ==
  ASSUME NEW procs \in Procs, NEW S \in SUBSET Runnable(procs)
  PROVE  ClearTime(S, procs) \in Procs /\ SameButTime(ClearTime(S, procs), procs)
<1>1. \A p \in Pids : [procs[p] EXCEPT !.p_time_passed = 0] \in Descriptors
  BY DEF Procs, Descriptors
<1> QED BY <1>1 DEF ClearTime, SameButTime, Procs, Runnable, Descriptors

LEMMA CountTimeKeeps ==
  ASSUME NEW procs \in Procs, NEW ps \in Procs, SameButTime(ps, procs),
         NEW p \in Runnable(procs),
         NEW qs, qs = [ps EXCEPT ![p].p_time_passed = @ + 1]
  PROVE  qs \in Procs /\ SameButTime(qs, procs)
<1>1. [ps[p] EXCEPT !.p_time_passed = @ + 1] \in Descriptors
  BY DEF Procs, Descriptors, Runnable
<1>2. qs \in Procs
  BY <1>1 DEF Procs, Runnable
<1>3. SameButTime(qs, procs)
  BY <1>1 DEF SameButTime, Procs, Runnable, Descriptors
<1> QED BY <1>2, <1>3

LEMMA SameItself ==
  ASSUME NEW procs \in Procs
  PROVE  SameButTime(procs, procs)
BY DEF SameButTime

(* If the most urgent processes are none, nobody can run (algorithm 2). *)
LEMMA UrgentExists ==
  ASSUME KernAssumption, NEW procs \in Procs, MostUrgent(procs) = {}
  PROVE  Runnable(procs) = {}
<1> DEFINE f == [p \in Pids |-> procs[p].p_priority]
<1>1. IsFiniteSet(Runnable(procs))
  <2>1. IsFiniteSet(Pids)
    BY FS_Interval DEF KernAssumption, Pids
  <2> QED BY <2>1, FS_Subset DEF Runnable
<1>2. SUFFICES ASSUME Runnable(procs) # {} PROVE FALSE
  OBVIOUS
<1>3. \A p \in Runnable(procs) : f[p] = procs[p].p_priority /\ f[p] \in Int
  BY DEF Runnable, Procs, Descriptors
<1>4. \E p \in Runnable(procs) : \A q \in Runnable(procs) : f[p] <= f[q]
  <2> HIDE DEF f
  <2> QED BY <1>1, <1>2, <1>3, LeastExists
<1> QED BY <1>3, <1>4 DEF MostUrgent
-----------------------------------------------------------------------------

(* The outcome of schedule(procs), called with the table procs. *)
Dispatches(ps, procs) == \E p \in Pids : Eligible(p, procs) /\ Run(p, ps)

GivesUp(ps, procs) ==
  Stop("spin", ps) /\ \A p \in Runnable(procs) : Stuck(p, procs)

LeavesTable(ps, procs) ==
  /\ scheduling_algorithm = 1
  /\ procs[current].p_state # "P_RUNNABLE"
  /\ current + 1 = NPROCS
  /\ RunOutside(ps)

Outcome(ps, procs) ==
  /\ ps \in Procs
  /\ SameButTime(ps, procs)
  /\ scheduling_algorithm = 1 => ps = procs
  /\ Dispatches(ps, procs) \/ GivesUp(ps, procs) \/ LeavesTable(ps, procs)

LEMMA RoundRobinOutcome ==
  ASSUME NEW procs \in Procs, scheduling_algorithm # 1, RoundRobin(procs)
  PROVE  Dispatches(procs, procs) \/ GivesUp(procs, procs)
BY DEF RoundRobin, RunNext, Dispatches, GivesUp, Eligible, Runnable

LEMMA ScheduleOutcome ==
  ASSUME KernAssumption, TypeOK, current \in Pids,
         NEW procs \in Procs, schedule(procs)
  PROVE  \E ps : Outcome(ps, procs)
<1> SameButTime(procs, procs)
  BY SameItself
<1>0. CASE scheduling_algorithm = 0 /\ RoundRobin(procs)
  BY <1>0, RoundRobinOutcome DEF Outcome
<1>1. CASE scheduling_algorithm = 1 /\ InOrder(procs)
  <2>1. CASE current \in Runnable(procs)
    <3>1. Run(current, procs)
      BY <1>1, <2>1 DEF InOrder
    <3> QED BY <2>1, <3>1 DEF Outcome, Dispatches, Eligible
  <2>2. CASE current \notin Runnable(procs)
    <3>1. procs[current].p_state # "P_RUNNABLE"
      BY <2>2 DEF Runnable
    <3>2. CASE current + 1 \in Pids /\ Run(current + 1, procs)
      BY <1>1, <3>1, <3>2 DEF Outcome, Dispatches, Eligible
    <3>3. CASE current + 1 \notin Pids /\ RunOutside(procs)
      <4>1. current + 1 = NPROCS
        BY <3>3 DEF Pids, KernAssumption
      <4> QED BY <1>1, <3>1, <3>3, <4>1 DEF Outcome, LeavesTable
    <3> QED BY <1>1, <2>2, <3>2, <3>3 DEF InOrder
  <2> QED BY <2>1, <2>2
<1>2. CASE scheduling_algorithm = 2 /\ StrictPriority(procs)
  <2>1. CASE MostUrgent(procs) = {} /\ Stop("spin", procs)
    BY <1>2, <2>1, UrgentExists DEF Outcome, GivesUp
  <2>2. CASE \E p \in MostUrgent(procs) : Run(p, procs)
    BY <1>2, <2>2 DEF Outcome, Dispatches, Eligible, MostUrgent, Runnable
  <2> QED BY <1>2, <2>1, <2>2 DEF StrictPriority, RunNext
<1>3. CASE scheduling_algorithm = 3 /\ ProportionalShare(procs)
  <2> DEFINE runnable == Runnable(procs)
             due   == {p \in runnable : HasTurn(procs[p])}
             ready == IF due # {} THEN due ELSE {p \in runnable : procs[p].p_share > 0}
             Passed(p) == IF due # {} THEN {q \in runnable : Visit(q) < Visit(p)}
                                      ELSE runnable
  <2>1. CASE ready = {} /\ Stop("spin", ClearTime(runnable, procs))
    <3>1. \A p \in runnable : ~(procs[p].p_share > 0)
      BY <2>1
    <3>2. \A p \in runnable : procs[p].p_share \in Int
      BY DEF Procs, Descriptors, Runnable
    <3>3. \A p \in runnable : Stuck(p, procs)
      BY <1>3, <3>1, <3>2 DEF Stuck
    <3> QED BY <1>3, <2>1, <3>3, ClearTimeKeeps DEF Outcome, GivesUp
  <2>2. ASSUME NEW p \in ready,
               Run(p, [ClearTime(Passed(p), procs) EXCEPT ![p].p_time_passed = @ + 1])
        PROVE  \E ps : Outcome(ps, procs)
    <3> DEFINE ps == ClearTime(Passed(p), procs)
               qs == [ps EXCEPT ![p].p_time_passed = @ + 1]
    <3>1. p \in Runnable(procs)
      BY <2>2
    <3>2. Passed(p) \in SUBSET Runnable(procs)
      OBVIOUS
    <3>3. ps \in Procs /\ SameButTime(ps, procs)
      BY <3>2, ClearTimeKeeps
    <3>4. qs \in Procs /\ SameButTime(qs, procs)
      <4> HIDE DEF ps
      <4> QED BY <3>1, <3>3, CountTimeKeeps
    <3>5. Dispatches(qs, procs)
      <4>1. p \in Pids /\ Eligible(p, procs)
        BY <1>3, <3>1 DEF Eligible, Runnable
      <4> HIDE DEF qs
      <4>2. Run(p, qs)
        BY <2>2 DEF qs
      <4> QED BY <4>1, <4>2 DEF Dispatches
    <3> QED BY <1>3, <3>4, <3>5 DEF Outcome
  <2> QED BY <1>3, <2>1, <2>2 DEF ProportionalShare
<1>4. CASE scheduling_algorithm = 4 /\ Lottery(procs)
  <2>1. CASE RoundRobin(procs)
    BY <1>4, <2>1, RoundRobinOutcome DEF Outcome
  <2>2. CASE /\ Drawing
             /\ Holders \cap Runnable(procs) = {}
             /\ Stop("spin", procs)
    BY <1>4, <2>2 DEF Outcome, GivesUp, Stuck
  <2>3. CASE \E p \in Holders \cap Runnable(procs) : Run(p, procs)
    BY <1>4, <2>3 DEF Outcome, Dispatches, Eligible, Runnable
  <2> QED BY <1>4, <2>1, <2>2, <2>3 DEF Lottery
<1> QED BY <1>0, <1>1, <1>2, <1>3, <1>4 DEF schedule

-----------------------------------------------------------------------------
(* The inductive invariant.  RunsRunnable needs RunsToCompletion: algorithm  *)
(* 1 runs the next process without looking at its state.                     *)

IInv == TypeOK /\ RunsRunnable /\ SpinsOnlyWhenStuck /\ RunsToCompletion

(* schedule() is called with the table as the handler left it: only the      *)
(* descriptor of current has changed, and it may have become a zombie.       *)
Touched(procs) ==
  /\ procs \in Procs
  /\ \A q \in Pids \ {current} : procs[q] = proc_array[q]
  /\ procs[current].p_state \in {"P_RUNNABLE", "P_ZOMBIE"}

LEMMA InitIInv == ASSUME KernAssumption, Init PROVE IInv
<1>1. TypeOK
  <2>1. \A p \in Pids : Descriptor(p) \in Descriptors
    BY DEF Descriptor, Descriptors, States, KernAssumption, Pids
  <2>2. tickets \in Seq(Pids) /\ Len(tickets) = 0
    BY DEF Init
  <2> QED BY <2>1, <2>2 DEF Init, TypeOK, KernAssumption, Pids, Modes
<1>2. RunsRunnable
  BY DEF Init, RunsRunnable, Runnable, Descriptor, KernAssumption, Pids
<1>3. SpinsOnlyWhenStuck
  BY DEF Init, SpinsOnlyWhenStuck
<1>4. RunsToCompletion
  BY DEF Init, RunsToCompletion, KernAssumption, Pids
<1> QED BY <1>1, <1>2, <1>3, <1>4 DEF IInv

LEMMA ScheduleIInv ==
  ASSUME KernAssumption, IInv, mode = "user",
         NEW procs, Touched(procs), schedule(procs),
         UNCHANGED <<tickets, console>>
  PROVE  IInv'
<1>1. current \in Pids /\ TypeOK /\ procs \in Procs
  BY DEF IInv, TypeOK, Touched
<1>2. PICK ps : Outcome(ps, procs)
  BY <1>1, ScheduleOutcome
<1>3. /\ proc_array' = ps /\ ps \in Procs
      /\ scheduling_algorithm' = scheduling_algorithm
      /\ Runnable(ps) = Runnable(procs)
  BY <1>2 DEF Outcome, Dispatches, GivesUp, LeavesTable, Run, Stop, RunOutside,
              SameButTime, Runnable
<1>4. TypeOK'
  <2>1. tickets' \in Seq(Pids) /\ Len(tickets') <= MAX_TICKETS /\ cursorpos' \in Nat
        /\ DOMAIN screen' = 0 .. CELLS - 1 /\ cpu \in Regs
    BY <1>1 DEF TypeOK, console
  <2>2. CASE Dispatches(ps, procs)
    <3>1. PICK p \in Pids : Run(p, ps)
      BY <2>2 DEF Dispatches
    <3>2. ps[p].p_registers \in Regs
      BY <1>3, <3>1 DEF Procs, Descriptors
    <3> QED BY <1>1, <1>3, <2>1, <3>1, <3>2 DEF TypeOK, Run, Procs, Modes
  <2>3. CASE GivesUp(ps, procs)
    BY <1>1, <1>3, <2>1, <2>3 DEF GivesUp, TypeOK, Stop, Procs, Modes
  <2>4. CASE LeavesTable(ps, procs)
    BY <1>1, <1>3, <2>1, <2>4 DEF LeavesTable, TypeOK, RunOutside, Procs, Modes
  <2> QED BY <1>2, <2>2, <2>3, <2>4 DEF Outcome
<1>5. SpinsOnlyWhenStuck'
  <2>1. SUFFICES ASSUME mode' = "spin" PROVE \A p \in Runnable(ps) : Stuck(p, ps)'
    BY <1>3 DEF SpinsOnlyWhenStuck, Stuck
  <2>2. \A p \in Runnable(procs) : Stuck(p, procs)
    BY <1>2, <2>1 DEF Outcome, Dispatches, GivesUp, LeavesTable, Run, RunOutside
  <2>3. \A p \in Pids : ps[p].p_share = procs[p].p_share
    BY <1>2 DEF Outcome, SameButTime
  <2> QED BY <1>3, <2>2, <2>3 DEF Stuck, Drawing, Holders, Runnable
<1>6. CASE Dispatches(ps, procs)
  <2>1. PICK p \in Pids : Eligible(p, procs) /\ Run(p, ps)
    BY <1>6 DEF Dispatches
  <2>2. current' = p /\ mode' = "user"
    BY <2>1 DEF Run
  <2>3. CASE p \in Runnable(procs) /\ (scheduling_algorithm = 1 => p = current)
    <3>1. RunsRunnable'
      BY <1>3, <2>2, <2>3 DEF RunsRunnable, Runnable
    <3>2. RunsToCompletion'
      <4>1. SUFFICES ASSUME scheduling_algorithm = 1
                     PROVE /\ \A q \in 1 .. p - 1 : procs[q].p_state = "P_ZOMBIE"
                           /\ \A q \in p + 1 .. NPROCS - 1 : procs[q] = Descriptor(q)
        BY <1>2, <1>3, <2>2 DEF RunsToCompletion, Outcome, Descriptor
      <4>2. p = current
        BY <2>3, <4>1
      <4> QED BY <1>1, <4>1, <4>2 DEF IInv, RunsToCompletion, Touched, Pids, KernAssumption
    <3> QED BY <1>4, <1>5, <3>1, <3>2 DEF IInv
  <2>4. CASE /\ scheduling_algorithm = 1
             /\ procs[current].p_state # "P_RUNNABLE"
             /\ p = current + 1
    <3>1. procs[current].p_state = "P_ZOMBIE"
      BY <2>4 DEF Touched
    <3>2. /\ \A q \in 1 .. current - 1 : procs[q].p_state = "P_ZOMBIE"
          /\ \A q \in current + 1 .. NPROCS - 1 : procs[q] = Descriptor(q)
      BY <1>1, <2>4 DEF IInv, RunsToCompletion, Touched, Pids, KernAssumption
    <3>3. procs[p] = Descriptor(p) /\ p # 0
      BY <1>1, <2>4, <3>2 DEF Pids, KernAssumption
    <3>4. RunsRunnable'
      BY <1>3, <2>2, <3>3 DEF RunsRunnable, Runnable, Descriptor
    <3>5. RunsToCompletion'
      <4>1. /\ \A q \in 1 .. p - 1 : procs[q].p_state = "P_ZOMBIE"
            /\ \A q \in p + 1 .. NPROCS - 1 : procs[q] = Descriptor(q)
        BY <1>1, <2>4, <3>1, <3>2 DEF Pids, KernAssumption
      <4> QED BY <1>2, <1>3, <2>2, <2>4, <4>1 DEF RunsToCompletion, Outcome, Descriptor
    <3> QED BY <1>4, <1>5, <3>4, <3>5 DEF IInv
  <2> QED BY <2>1, <2>3, <2>4 DEF Eligible
<1>7. CASE GivesUp(ps, procs)
  BY <1>4, <1>5, <1>7 DEF GivesUp, Stop, IInv, RunsRunnable, RunsToCompletion
<1>8. CASE LeavesTable(ps, procs)
  <2>1. RunsRunnable'
    BY <1>8 DEF LeavesTable, RunOutside, RunsRunnable
  <2>2. RunsToCompletion'
    <3>1. procs[current].p_state = "P_ZOMBIE"
      BY <1>8 DEF LeavesTable, Touched
    <3>2. \A q \in 1 .. current - 1 : procs[q].p_state = "P_ZOMBIE"
      BY <1>1, <1>8 DEF IInv, RunsToCompletion, Touched, Pids, KernAssumption, LeavesTable
    <3>3. \A q \in 1 .. NPROCS - 1 : procs[q].p_state = "P_ZOMBIE"
      BY <1>1, <1>8, <3>1, <3>2 DEF LeavesTable, Pids, KernAssumption
    <3> QED BY <1>2, <1>3, <1>8, <3>3 DEF RunsToCompletion, Outcome, LeavesTable,
                                         RunOutside, KernAssumption
  <2> QED BY <1>4, <1>5, <2>1, <2>2 DEF IInv
<1> QED BY <1>2, <1>6, <1>7, <1>8 DEF Outcome

(* A call after which the caller goes on, having changed its descriptor.     *)
LEMMA ReturnIInv ==
  ASSUME KernAssumption, IInv, mode = "user",
         NEW procs, Touched(procs), procs[current].p_state = "P_RUNNABLE",
         Run(current, procs),
         tickets' \in Seq(Pids), Len(tickets') <= MAX_TICKETS, cursorpos' \in Nat,
         DOMAIN screen' = DOMAIN screen
  PROVE  IInv'
<1>1. current \in Pids /\ TypeOK /\ procs \in Procs
  BY DEF IInv, TypeOK, Touched
<1>2. procs[current].p_registers \in Regs
  BY <1>1 DEF Procs, Descriptors
<1>3. TypeOK'
  BY <1>1, <1>2 DEF TypeOK, Run, Procs, Modes
<1>4. RunsRunnable' /\ SpinsOnlyWhenStuck'
  BY <1>1 DEF RunsRunnable, SpinsOnlyWhenStuck, Run, Runnable
<1>5. RunsToCompletion'
  <2>1. SUFFICES ASSUME scheduling_algorithm = 1
                 PROVE /\ \A q \in 1 .. current - 1 : procs[q].p_state = "P_ZOMBIE"
                       /\ \A q \in current + 1 .. NPROCS - 1 : procs[q] = Descriptor(q)
    BY DEF RunsToCompletion, Run, Descriptor
  <2>2. /\ \A q \in 1 .. current - 1 : q \in Pids \ {current}
        /\ \A q \in current + 1 .. NPROCS - 1 : q \in Pids \ {current}
    BY <1>1 DEF Pids, KernAssumption
  <2>3. /\ \A q \in 1 .. current - 1 : proc_array[q].p_state = "P_ZOMBIE"
        /\ \A q \in current + 1 .. NPROCS - 1 : proc_array[q] = Descriptor(q)
    BY <2>1 DEF IInv, RunsToCompletion
  <2> QED BY <2>2, <2>3 DEF Touched
<1> QED BY <1>3, <1>4, <1>5 DEF IInv

-----------------------------------------------------------------------------

(* The tables the handlers make, all from the one with the saved registers.  *)
LEMMA SavedTouched ==
  ASSUME KernAssumption, IInv, mode = "user", NEW reg \in Regs
  PROVE  /\ Touched(Saved(reg))
         /\ Saved(reg)[current] = [proc_array[current] EXCEPT !.p_registers = reg]
         /\ Saved(reg)[current].p_state = "P_RUNNABLE"
<1>1. current \in Pids /\ proc_array \in Procs /\ proc_array[current].p_state = "P_RUNNABLE"
  BY DEF IInv, TypeOK, RunsRunnable, Runnable, Procs
<1>2. [proc_array[current] EXCEPT !.p_registers = reg] \in Descriptors
  BY <1>1 DEF Procs, Descriptors
<1> QED BY <1>1, <1>2 DEF Touched, Saved, Procs, Descriptors

LEMMA ChangedTouched ==
  ASSUME KernAssumption, IInv, mode = "user", NEW procs, Touched(procs),
         NEW d \in Descriptors, d.p_state \in {"P_RUNNABLE", "P_ZOMBIE"}
  PROVE  /\ Touched([procs EXCEPT ![current] = d])
         /\ [procs EXCEPT ![current] = d][current] = d
BY DEF IInv, TypeOK, Touched, Procs

(* A trap that the kernel handles; sys_print() may come at any cursor, which *)
(* Next bounds.                                                              *)
Caught(reg) ==
  \/ SysYield(reg)
  \/ \E x \in Statuses : SysExit(reg, x)
  \/ \E x \in Priorities : SysSetPriority(reg, x)
  \/ \E x \in Shares : SysSetShare(reg, x)
  \/ \E c \in Chars : SysPrint(reg, c)
  \/ SysGetTicket(reg)
  \/ Clock(reg)
  \/ BadInterrupt(reg)

(* What every action does to the table: it passes on a Touched one, either   *)
(* to schedule() or back to the caller, or stops.                            *)
Forms(procs) ==
  \/ schedule(procs) /\ UNCHANGED <<tickets, console>>
  \/ /\ procs[current].p_state = "P_RUNNABLE"
     /\ Run(current, procs)
     /\ tickets' \in Seq(Pids) /\ Len(tickets') <= MAX_TICKETS
     /\ cursorpos' \in Nat /\ DOMAIN screen' = DOMAIN screen
  \/ Stop("hang", procs) /\ UNCHANGED <<tickets, console>>

LEMMA TrapForms ==
  ASSUME KernAssumption, IInv, NEW reg \in Regs, Caught(reg)
  PROVE  /\ mode = "user"
         /\ \E procs : /\ Touched(procs) /\ procs[current].p_registers = reg
                       /\ Forms(procs)
<1> DEFINE Goal == \E procs : /\ Touched(procs) /\ procs[current].p_registers = reg
                              /\ Forms(procs)
<1>2. mode = "user"
  BY DEF Caught, SysYield, SysExit, SysSetPriority, SysSetShare, SysPrint, SysGetTicket,
              Clock, BadInterrupt
<1> DEFINE old == Saved(reg)
<1>3. Touched(old) /\ old[current].p_state = "P_RUNNABLE"
  BY <1>2, SavedTouched
<1>4. /\ old \in Procs /\ current \in Pids /\ old[current] \in Descriptors
      /\ old[current].p_registers = reg
  <2>1. old \in Procs /\ current \in Pids /\ proc_array[current] \in Descriptors
    BY <1>2, <1>3 DEF Touched, IInv, TypeOK, Procs
  <2>2. old[current] = [proc_array[current] EXCEPT !.p_registers = reg]
    BY <1>2, SavedTouched
  <2> HIDE DEF old
  <2> QED BY <2>1, <2>2 DEF Procs, Descriptors
<1>5. /\ tickets \in Seq(Pids) /\ Len(tickets) <= MAX_TICKETS
      /\ cursorpos \in Nat
  BY DEF IInv, TypeOK
<1> HIDE DEF old
<1>6. CASE SysYield(reg) \/ Clock(reg)
  BY <1>3, <1>4, <1>6 DEF SysYield, Clock, Forms, old
<1>7. ASSUME NEW x \in Statuses, SysExit(reg, x) PROVE Goal
  <2> DEFINE d == [old[current] EXCEPT !.p_state = "P_ZOMBIE", !.p_exit_status = x]
  <2>1. d \in Descriptors /\ d.p_state = "P_ZOMBIE" /\ d.p_registers = reg
    BY <1>4 DEF Descriptors, States, KernAssumption
  <2>2. /\ Touched([old EXCEPT ![current] = d])
        /\ [old EXCEPT ![current] = d][current] = d
    BY <1>2, <1>3, <2>1, ChangedTouched
  <2>3. schedule([old EXCEPT ![current] = d]) /\ UNCHANGED <<tickets, console>>
    <3>1. [old EXCEPT ![current] = d]
            = [old EXCEPT ![current].p_state = "P_ZOMBIE", ![current].p_exit_status = x]
      BY <1>4 DEF Procs, Descriptors
    <3> QED BY <1>7, <3>1 DEF SysExit, old
  <2> HIDE DEF d
  <2> QED BY <2>1, <2>2, <2>3 DEF Forms
<1>8. ASSUME NEW x \in Priorities, SysSetPriority(reg, x) PROVE Goal
  <2> DEFINE d == [old[current] EXCEPT !.p_priority = x]
  <2>1. d \in Descriptors /\ d.p_state = "P_RUNNABLE" /\ d.p_registers = reg
    BY <1>3, <1>4 DEF Descriptors, KernAssumption
  <2>2. /\ Touched([old EXCEPT ![current] = d])
        /\ [old EXCEPT ![current] = d][current] = d
    BY <1>2, <1>3, <2>1, ChangedTouched
  <2>3. /\ Run(current, [old EXCEPT ![current] = d])
        /\ UNCHANGED <<tickets, cursorpos, screen>>
    BY <1>8 DEF SysSetPriority, old, console
  <2> HIDE DEF d
  <2> QED BY <1>5, <2>1, <2>2, <2>3 DEF Forms
<1>9. ASSUME NEW x \in Shares, SysSetShare(reg, x) PROVE Goal
  <2> DEFINE d == [old[current] EXCEPT !.p_share = x]
  <2>1. d \in Descriptors /\ d.p_state = "P_RUNNABLE" /\ d.p_registers = reg
    BY <1>3, <1>4 DEF Descriptors, KernAssumption
  <2>2. /\ Touched([old EXCEPT ![current] = d])
        /\ [old EXCEPT ![current] = d][current] = d
    BY <1>2, <1>3, <2>1, ChangedTouched
  <2>3. /\ Run(current, [old EXCEPT ![current] = d])
        /\ UNCHANGED <<tickets, cursorpos, screen>>
    BY <1>9 DEF SysSetShare, old, console
  <2> HIDE DEF d
  <2> QED BY <1>5, <2>1, <2>2, <2>3 DEF Forms
<1>10. ASSUME NEW c \in Chars, SysPrint(reg, c) PROVE Goal
  <2>1. cursorpos' \in Nat /\ DOMAIN screen' = DOMAIN screen /\ tickets' = tickets
    BY <1>5, <1>10 DEF SysPrint
  <2> QED BY <1>3, <1>4, <1>5, <1>10, <2>1 DEF SysPrint, Forms, old
<1>11. CASE SysGetTicket(reg)
  <2>1. tickets' \in Seq(Pids) /\ Len(tickets') <= MAX_TICKETS
    <3>1. CASE Len(tickets) < MAX_TICKETS
      <4>1. tickets' = Append(tickets, current)
        BY <1>11, <3>1 DEF SysGetTicket
      <4> QED BY <1>4, <1>5, <3>1, <4>1 DEF KernAssumption
    <3>2. CASE ~(Len(tickets) < MAX_TICKETS)
      BY <1>5, <1>11, <3>2 DEF SysGetTicket
    <3> QED BY <3>1, <3>2
  <2> QED BY <1>3, <1>4, <1>5, <1>11, <2>1 DEF SysGetTicket, Forms, old, console
<1>12. CASE BadInterrupt(reg)
  BY <1>3, <1>4, <1>12 DEF BadInterrupt, Forms, old
<1> QED BY <1>2, <1>6, <1>7, <1>8, <1>9, <1>10, <1>11, <1>12
     DEF Caught

LEMMA NextCaught == ASSUME NEW reg, Trap(reg) PROVE Caught(reg)
BY DEF Trap, Caught

LEMMA NextForms ==
  ASSUME KernAssumption, IInv, Next
  PROVE  mode = "user" /\ \E procs : Touched(procs) /\ Forms(procs)
BY NextCaught, TrapForms DEF Next

LEMMA FormsIInv ==
  ASSUME KernAssumption, IInv, mode = "user", NEW procs, Touched(procs), Forms(procs)
  PROVE  IInv'
<1>3. CASE schedule(procs) /\ UNCHANGED <<tickets, console>>
  BY <1>3, ScheduleIInv
<1>4. CASE /\ procs[current].p_state = "P_RUNNABLE"
           /\ Run(current, procs)
           /\ tickets' \in Seq(Pids) /\ Len(tickets') <= MAX_TICKETS
           /\ cursorpos' \in Nat /\ DOMAIN screen' = DOMAIN screen
  BY <1>4, ReturnIInv
<1>5. CASE Stop("hang", procs) /\ UNCHANGED <<tickets, console>>
  <2>1. /\ mode' = "hang" /\ proc_array' = procs /\ procs \in Procs
        /\ UNCHANGED <<scheduling_algorithm, current, cpu, tickets, cursorpos, screen>>
    BY <1>5 DEF Stop, Touched, console
  <2>2. TypeOK'
    BY <2>1 DEF IInv, TypeOK, Procs, Modes
  <2>3. RunsRunnable' /\ SpinsOnlyWhenStuck' /\ RunsToCompletion'
    BY <2>1 DEF RunsRunnable, SpinsOnlyWhenStuck, RunsToCompletion
  <2> QED BY <2>2, <2>3 DEF IInv
<1> QED BY <1>3, <1>4, <1>5 DEF Forms

(* A trap keeps the invariant.                                               *)
LEMMA TrapIInv ==
  ASSUME KernAssumption, IInv, NEW reg \in Regs, Caught(reg)
  PROVE  IInv'
BY TrapForms, FormsIInv

LEMMA NextIInv ==
  ASSUME KernAssumption, IInv, [Next]_kernvars
  PROVE  IInv'
<1>1. CASE UNCHANGED kernvars
  BY <1>1 DEF kernvars, IInv, TypeOK, RunsRunnable, Runnable, SpinsOnlyWhenStuck, Drawing,
              Holders, RunsToCompletion
<1>2. CASE Next
  BY <1>2, NextForms, FormsIInv
<1> QED BY <1>1, <1>2

-----------------------------------------------------------------------------
(* What a process sees of a trap, its own or another's.                      *)

(* The registers of q: on the processor, or else in its descriptor.          *)
RegsOf(q) == IF q = current /\ mode = "user" THEN cpu ELSE proc_array[q].p_registers

(* A trap changes nobody's registers but the caller's, which become those    *)
(* that it saved; it leaves the descriptors of those who cannot run alone.   *)
LEMMA TrapRegisters ==
  ASSUME KernAssumption, IInv, NEW reg \in Regs, Caught(reg)
  PROVE  /\ mode = "user" /\ current \in Runnable(proc_array)
         /\ scheduling_algorithm' = scheduling_algorithm
         /\ \A q \in Pids : RegsOf(q)' = IF q = current THEN reg ELSE RegsOf(q)
         /\ \A q \in Pids : proc_array[q].p_state # "P_RUNNABLE"
                             => proc_array'[q] = proc_array[q]
<1>1. mode = "user" /\ current \in Runnable(proc_array)
  BY TrapForms DEF IInv, RunsRunnable
<1>2. PICK procs : /\ Touched(procs) /\ procs[current].p_registers = reg
                   /\ Forms(procs)
  BY TrapForms
<1>3. \E ps : /\ proc_array' = ps /\ ps \in Procs /\ SameButTime(ps, procs)
              /\ \/ \E p \in Pids : Run(p, ps)
                 \/ mode' # "user" /\ scheduling_algorithm' = scheduling_algorithm
  <2>1. procs \in Procs /\ current \in Pids /\ TypeOK
    BY <1>1, <1>2 DEF Touched, Runnable, IInv
  <2>2. SameButTime(procs, procs)
    BY <2>1, SameItself
  <2>3. CASE schedule(procs)
    <3>1. PICK ps : Outcome(ps, procs)
      BY <2>1, <2>3, ScheduleOutcome
    <3> QED BY <3>1 DEF Outcome, Dispatches, GivesUp, LeavesTable, Run, Stop, RunOutside
  <2>4. CASE Run(current, procs)
    BY <2>1, <2>2, <2>4 DEF Run
  <2>5. CASE Stop("hang", procs)
    BY <2>1, <2>2, <2>5 DEF Stop
  <2> QED BY <1>2, <2>3, <2>4, <2>5 DEF Forms
<1>4. PICK ps : /\ proc_array' = ps /\ ps \in Procs /\ SameButTime(ps, procs)
                /\ \/ \E p \in Pids : Run(p, ps)
                   \/ mode' # "user" /\ scheduling_algorithm' = scheduling_algorithm
  BY <1>3
<1>5. \A q \in Pids : RegsOf(q)' = ps[q].p_registers
  BY <1>4 DEF RegsOf, Run
<1>6. \A q \in Pids : procs[q].p_registers = IF q = current THEN reg ELSE RegsOf(q)
  BY <1>2 DEF Touched, RegsOf
<1>7. \A q \in Pids : ps[q].p_registers = procs[q].p_registers
  BY <1>4 DEF SameButTime
<1>8. scheduling_algorithm' = scheduling_algorithm
  BY <1>4 DEF Run
<1>9. \A q \in Pids : proc_array[q].p_state # "P_RUNNABLE" => proc_array'[q] = proc_array[q]
  BY <1>1, <1>2, <1>4 DEF Touched, SameButTime, Runnable
<1> QED BY <1>1, <1>5, <1>6, <1>7, <1>8, <1>9

-----------------------------------------------------------------------------

(* Every reachable state of the kernel, under any algorithm and any sequence *)
(* of traps, satisfies the inductive invariant.                              *)
THEOREM Invariance == Spec => []IInv
<1>1. Init => IInv
  BY KernAssumption, InitIInv
<1>2. IInv /\ [Next]_kernvars => IInv'
  BY KernAssumption, NextIInv
<1> QED BY <1>1, <1>2, PTL DEF Spec

(* The state keeps its type; tickets[] never overflows (schedos-kern.c:196). *)
THEOREM TypeCorrect == Spec => []TypeOK
<1>1. IInv => TypeOK
  BY DEF IInv
<1> QED BY <1>1, Invariance, PTL

(* Only runnable processes of the table ever have the processor              *)
(* (schedule(), schedos-kern.c:222).                                         *)
THEOREM OnlyRunnableRuns == Spec => []RunsRunnable
<1>1. IInv => RunsRunnable
  BY DEF IInv
<1> QED BY <1>1, Invariance, PTL

(* schedule() gives up on runnable processes only in the two cases of        *)
(* SpinsOnlyWhenStuck: the searches of algorithms 0, 1 and 2 always succeed. *)
THEOREM SearchSucceeds == Spec => []SpinsOnlyWhenStuck
<1>1. IInv => SpinsOnlyWhenStuck
  BY DEF IInv
<1> QED BY <1>1, Invariance, PTL

(* Algorithm 1 runs process after process, each to its end, and runs past    *)
(* the table only when all of them have exited.                              *)
THEOREM InOrderOfPids == Spec => []RunsToCompletion
<1>1. IInv => RunsToCompletion
  BY DEF IInv
<1> QED BY <1>1, Invariance, PTL

(* Nothing ever touches the descriptor of a process that has exited.         *)
THEOREM ExitedForGood == Spec => ExitIsFinal
<1> DEFINE Final == \A p \in Pids : proc_array[p].p_state = "P_ZOMBIE" =>
                                      proc_array'[p] = proc_array[p]
<1>1. IInv /\ [Next]_kernvars => [Final]_kernvars
  <2>1. SUFFICES ASSUME IInv, Next PROVE Final
    OBVIOUS
  <2>2. mode = "user"
    BY <2>1, KernAssumption, NextForms
  <2>3. PICK procs :
          /\ Touched(procs)
          /\ schedule(procs) \/ Run(current, procs) \/ Stop("hang", procs)
    BY <2>1, KernAssumption, NextForms DEF Forms
  <2>4. \A p \in Pids : proc_array[p].p_state = "P_ZOMBIE" =>
                           procs[p] = proc_array[p]
    BY <2>1, <2>2, <2>3 DEF IInv, RunsRunnable, Runnable, Touched
  <2>5. CASE schedule(procs)
    <3>1. PICK ps : Outcome(ps, procs)
      BY <2>1, <2>2, <2>3, <2>5, KernAssumption, ScheduleOutcome
         DEF IInv, TypeOK, Touched
    <3>2. proc_array' = ps
      BY <3>1 DEF Outcome, Dispatches, GivesUp, LeavesTable, Run, Stop, RunOutside
    <3> QED BY <2>4, <3>1, <3>2 DEF Outcome, SameButTime
  <2>6. CASE Run(current, procs) \/ Stop("hang", procs)
    BY <2>4, <2>6 DEF Run, Stop
  <2> QED BY <2>3, <2>5, <2>6
<1> QED BY <1>1, Invariance, PTL DEF Spec, ExitIsFinal
=============================================================================
