-------------------------------- MODULE MCOS --------------------------------
(* Instances of SchedOS with the constants of the four applications. *)
EXTENDS SchedOS

(* PRIORITY and SHARE of schedos-1.c, schedos-2.c, schedos-3.c, schedos-4.c *)
ShippedPRIORITY == <<5, 1, 6, 1>>
ShippedSHARE == <<1, 2, 3, 4>>

=============================================================================
