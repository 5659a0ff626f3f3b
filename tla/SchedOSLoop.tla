---------------------------- MODULE SchedOSLoop ----------------------------
(***************************************************************************)
(* The loops of schedule(), schedos-kern.c:231-310, one iteration a step.  *)
(* SchedOSKern says in one formula whom schedule() picks; here it searches *)
(* as the code does, with its local variables, and ImplementsKern says     *)
(* that the search ends at that process, or never if there is none.        *)
(***************************************************************************)
EXTENDS SchedOSKern

VARIABLES
  pid,               \* local to schedule(), as is
  lowest_priority,   \*   this, for algorithm 2
  before             \* history: proc_array at the trap, for the refinement

locals == <<pid, lowest_priority, before>>
loopvars == <<kernvars, locals>>

INT_MAX == 2147483647

(* p_priority is an int: lowest_priority = INT_MAX exceeds every priority. *)
ASSUME LoopAssumption == \A x \in Priorities : x <= INT_MAX

Dead == pid' = 0 /\ lowest_priority' = INT_MAX /\ before' = <<>>

(* schedule() is called. *)
EnterSchedule(procs) ==
  /\ mode = "user"
  /\ mode' = "schedule"
  /\ proc_array' = procs
  /\ pid' = current /\ lowest_priority' = INT_MAX
  /\ before' = proc_array
  /\ UNCHANGED <<scheduling_algorithm, current, cpu, tickets, console>>

CaseYield(reg) == EnterSchedule(Saved(reg))

CaseExit(reg, status) ==
  EnterSchedule([Saved(reg) EXCEPT ![current].p_state = "P_ZOMBIE",
                                   ![current].p_exit_status = status])

CaseClock(reg) == EnterSchedule(Saved(reg))

-----------------------------------------------------------------------------
(* One iteration: the process is run, or the loop goes on with p. *)

Leave(p, procs) == Run(p, procs) /\ Dead

Continue(p, procs) ==
  /\ pid' = p
  /\ proc_array' = procs
  /\ UNCHANGED <<before, scheduling_algorithm, current, cpu, mode>>

Ring_defect(p) == p + 1   \* no % NPROCS

Ring(p) == (p + 1) % NPROCS

ScanStep ==
  LET p == Ring(pid)
  IN  \/ p \in Runnable(proc_array) /\ Leave(p, proc_array)
      \/ /\ p \notin Runnable(proc_array)
         /\ Continue(p, proc_array)
         /\ UNCHANGED lowest_priority

InOrderStep ==
  LET p == IF pid \in Runnable(proc_array) THEN pid ELSE pid + 1
  IN  \/ p \in Pids /\ Leave(p, proc_array)
      \/ p \notin Pids /\ RunOutside(proc_array) /\ Dead

(* The inner for loop of algorithm 2. *)
Lowest ==
  LET seen == {lowest_priority} \cup {proc_array[i].p_priority : i \in Runnable(proc_array)}
  IN  CHOOSE low \in seen : \A x \in seen : low <= x

PriorityStep ==
  LET p == Ring(pid)
      chosen == p \in Runnable(proc_array) /\ proc_array[p].p_priority = Lowest
  IN  \/ chosen /\ Leave(p, proc_array)
      \/ ~chosen /\ Continue(p, proc_array) /\ lowest_priority' = Lowest

ShareStep_defect ==   \* pid advances before the descriptor is looked at
  LET p == Ring(pid)
  IN  \/ /\ p \in Runnable(proc_array) /\ HasTurn(proc_array[p])
         /\ Leave(p, [proc_array EXCEPT ![p].p_time_passed = @ + 1])
      \/ /\ ~(p \in Runnable(proc_array) /\ HasTurn(proc_array[p]))
         /\ Continue(p, ClearTime({p} \cap Runnable(proc_array), proc_array))
         /\ UNCHANGED lowest_priority

ShareStep ==
  \/ /\ pid \in Runnable(proc_array) /\ HasTurn(proc_array[pid])
     /\ Leave(pid, [proc_array EXCEPT ![pid].p_time_passed = @ + 1])
  \/ /\ ~(pid \in Runnable(proc_array) /\ HasTurn(proc_array[pid]))
     /\ Continue(Ring(pid), ClearTime({pid} \cap Runnable(proc_array), proc_array))
     /\ UNCHANGED lowest_priority

(* One draw of get_winner(); pid stands for winner. *)
DrawStep(winner) ==
  \/ winner \in Runnable(proc_array) /\ Leave(winner, proc_array)
  \/ /\ winner \notin Runnable(proc_array)
     /\ Continue(winner, proc_array)
     /\ UNCHANGED lowest_priority

Draw(winner) ==
  /\ mode = "schedule" /\ scheduling_algorithm = 4 /\ Drawing
  /\ winner \in Holders
  /\ DrawStep(winner)
  /\ UNCHANGED <<tickets, console>>

Iteration ==
  /\ mode = "schedule"
  /\ \/ scheduling_algorithm = 0 /\ ScanStep
     \/ scheduling_algorithm = 1 /\ InOrderStep
     \/ scheduling_algorithm = 2 /\ PriorityStep
     \/ scheduling_algorithm = 3 /\ ShareStep
     \/ scheduling_algorithm = 4 /\ ~Drawing /\ ScanStep
  /\ UNCHANGED <<tickets, console>>

-----------------------------------------------------------------------------

LoopInit == Init /\ pid = 0 /\ lowest_priority = INT_MAX /\ before = <<>>

(* A trap whose case of interrupt() ends in run(current), or nowhere. *)
Returning(reg) ==
  /\ \/ \E x \in Priorities : SysSetPriority(reg, x)
     \/ \E x \in Shares : SysSetShare(reg, x)
     \/ \E c \in Chars : cursorpos < CELLS /\ SysPrint(reg, c)   \* bound: one screen
     \/ SysGetTicket(reg)
     \/ BadInterrupt(reg)
  /\ UNCHANGED locals

LoopNext ==
  \/ \E reg \in Regs :
       \/ CaseYield(reg)
       \/ \E x \in Statuses : CaseExit(reg, x)
       \/ allow_clock_interrupt /\ CaseClock(reg)
       \/ Returning(reg)
  \/ Iteration
  \/ \E p \in Pids : Draw(p)

LoopSpec == LoopInit /\ [][LoopNext]_loopvars

-----------------------------------------------------------------------------
(* Nobody can be picked: the loop in progress will not end. *)
Doomed ==
  LET runnable == Runnable(proc_array)
  IN  /\ mode = "schedule"
      /\ \/ scheduling_algorithm \in {0, 2} /\ runnable = {}
         \/ scheduling_algorithm = 3 /\ \A p \in runnable : proc_array[p].p_share <= 0
         \/ scheduling_algorithm = 4 /\ ~Drawing /\ runnable = {}
         \/ scheduling_algorithm = 4 /\ Drawing /\ Holders \cap runnable = {}

(* The refinement mapping: schedule() takes effect when its loop ends, or,  *)
(* if it never will, when the loop begins.                                  *)
AbsMode == CASE Doomed             -> "spin"
             [] mode = "schedule" /\ ~Doomed -> "user"
             [] OTHER              -> mode

AbsProcs ==
  CASE Doomed -> IF scheduling_algorithm = 3
                   THEN ClearTime(Runnable(proc_array), proc_array)
                   ELSE proc_array
    [] mode = "schedule" /\ ~Doomed -> before
    [] OTHER -> proc_array

Abs == INSTANCE SchedOSKern WITH mode <- AbsMode, proc_array <- AbsProcs

(***************************************************************************)
(* The five loops compute what SchedOSKern states in closed form: the same *)
(* process from the same table, with the same bookkeeping.  The registers  *)
(* that a trap saves are those found in the descriptor afterwards.         *)
(***************************************************************************)
ImplementsKern ==
  Abs!Init /\ [][Abs!Trap(proc_array'[current].p_registers)]_(Abs!kernvars)
=============================================================================
