------------------------------ MODULE MCRandom ------------------------------
(* Bounded instances of SchedOSRandom: at most MaxCalls calls, and          *)
(* TestRandom(), with its 10000 draws, only as one of the first two.        *)
EXTENDS SchedOSRandom

CONSTANT MaxCalls

VARIABLE calls

MCInit == Init /\ calls = 0

MCNext ==
  /\ Next
  /\ calls' = IF pc = "idle" THEN calls + 1 ELSE calls
  /\ calls' <= MaxCalls
  /\ pc = "idle" /\ pc' = "draw" => calls < 2

MCSpec == MCInit /\ [][MCNext]_<<vars, calls>>

(* Ordinary seeds and the ones that PutSeed() replaces. *)
MCSeeds == {1, 10086, 2147483646, 2147483647, 0, -5}

MCIndices == {0, 1, 3, -1, 258}
=============================================================================
