------------------------------- MODULE MCApp --------------------------------
(* Small instances of SchedOSApp. *)
EXTENDS SchedOSApp, TLC

(* The applications only differ in the character they print. *)
Symmetry == Permutations(Apps)
=============================================================================
