------------------------------- MODULE MCFair -------------------------------
(* Small instances of SchedOSFair.  One content of the registers and one    *)
(* character suffice: the properties are about who runs.                    *)
EXTENDS SchedOSFair

MCEntryRegs == [p \in Pids |-> "r"]

(* Processes only set what the scheduling algorithm in use looks at. *)
OnlyWhatMatters ==
  /\ scheduling_algorithm # 4 => tickets = <<>>
  /\ scheduling_algorithm # 2 => \A p \in Pids \ {0} : proc_array[p].p_priority = 1
  /\ scheduling_algorithm # 3 => \A p \in Pids \ {0} : proc_array[p].p_share = 1
=============================================================================
