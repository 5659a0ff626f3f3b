----------------------------- MODULE MCLottery -----------------------------
(* The shipped applications, with the shipped generator. *)
EXTENDS SchedOSLottery, MCOS
=============================================================================
