---------------------------- MODULE SchedOSFair ----------------------------
(***************************************************************************)
(* How long a runnable process can be kept waiting by schedule().          *)
(*                                                                         *)
(* The history variable bypass counts, for every two processes p and q,    *)
(* how often schedule() gave the processor to q since p last had it, as    *)
(* far as p has a claim to it: a process that exited has none, under       *)
(* algorithm 2 it has none against a more urgent one, under algorithm 3    *)
(* none with a share of 0 or less, and algorithms 1 and 4 promise nothing  *)
(* of the kind.  A process that changes its own priority or share starts a *)
(* new count, because the promise made to the others has changed.  The     *)
(* actions are those of SchedOSKern; bypass observes them and constrains   *)
(* none.                                                                   *)
(***************************************************************************)
EXTENDS SchedOSKern

VARIABLE bypass

fairvars == <<kernvars, bypass>>

(* Calls after which schedule() chooses who runs. *)
Rescheduling(reg) ==
  \/ SysYield(reg)
  \/ \E x \in Statuses : SysExit(reg, x)
  \/ Clock(reg)

(* Calls after which the caller keeps the processor, or the machine stops. *)
Continuing(reg) ==
  \/ \E c \in Chars : cursorpos < CELLS /\ SysPrint(reg, c)  \* bound: one screen
  \/ SysGetTicket(reg)
  \/ BadInterrupt(reg)

Repricing(reg) ==
  \/ \E x \in Priorities : SysSetPriority(reg, x)
  \/ \E x \in Shares : SysSetShare(reg, x)

(* Does p, which waits, have a claim to the processor when q gets it? *)
HasClaim(p, q, procs) ==
  \/ scheduling_algorithm = 0
  \/ scheduling_algorithm = 2 /\ procs[p].p_priority <= procs[q].p_priority
  \/ scheduling_algorithm = 3 /\ procs[p].p_share > 0

(* The counters after schedule() has chosen q; its own start anew. *)
Chosen(q, procs) ==
  [p \in Pids |->
     IF p = q \/ p \notin Runnable(procs) THEN [r \in Pids |-> 0]
     ELSE IF HasClaim(p, q, procs) THEN [bypass[p] EXCEPT ![q] = @ + 1]
     ELSE bypass[p]]

Forget(q) ==
  [p \in Pids |-> [bypass[p] EXCEPT ![q] = 0]]

FairInit == Init /\ bypass = [p \in Pids |-> [q \in Pids |-> 0]]

FairNext ==
  \E reg \in Regs :
    \/ /\ Rescheduling(reg)
       /\ bypass' = IF mode' = "user" THEN Chosen(current', proc_array') ELSE bypass
    \/ Repricing(reg) /\ bypass' = Forget(current)
    \/ Continuing(reg) /\ UNCHANGED bypass

FairSpec == FairInit /\ [][FairNext]_fairvars

-----------------------------------------------------------------------------

Waiting == {p \in Runnable(proc_array) : p # current}

(***************************************************************************)
(* Algorithm 0: whatever the processes do, no process gets the processor   *)
(* twice while another that is runnable waits for its turn.                *)
(***************************************************************************)
RoundRobinBypass ==
  scheduling_algorithm = 0 /\ mode = "user" =>
    \A p \in Waiting, q \in Pids : bypass[p][q] <= 1

(***************************************************************************)
(* Algorithm 2: a waiting process is never passed over in favour of a less *)
(* urgent one, and at most once in favour of each that is as urgent: the   *)
(* processes of the highest urgency alternate.                             *)
(***************************************************************************)
PriorityBypass ==
  scheduling_algorithm = 2 /\ mode = "user" =>
    \A p \in Waiting, q \in Runnable(proc_array) :
      /\ proc_array[p].p_priority < proc_array[q].p_priority => bypass[p][q] = 0
      /\ proc_array[p].p_priority = proc_array[q].p_priority => bypass[p][q] <= 1

(***************************************************************************)
(* Algorithm 3: while a process with a positive share waits, each other    *)
(* one is dispatched at most as often as its own share entitles it to.     *)
(***************************************************************************)
ShareBypass ==
  scheduling_algorithm = 3 /\ mode = "user" =>
    \A p \in Waiting, q \in Runnable(proc_array) :
      proc_array[p].p_share > 0 =>
        bypass[p][q] <= IF proc_array[q].p_share > 0 THEN proc_array[q].p_share ELSE 0

(***************************************************************************)
(* Algorithm 3: a process that is still runnable loses the processor only  *)
(* after the whole of its share, and whoever waits has a fresh one.        *)
(***************************************************************************)
ShareHonoured ==
  [][scheduling_algorithm = 3 =>
       /\ current' # current /\ current \in Runnable(proc_array') =>
            proc_array[current].p_time_passed >= proc_array[current].p_share
       /\ \A p \in Runnable(proc_array') : p # current' =>
            proc_array'[p].p_time_passed = 0]_fairvars
=============================================================================
