--------------------------- MODULE SchedOSLottery ---------------------------
(***************************************************************************)
(* The system with the lottery as it is drawn: get_winner() of             *)
(* schedos-kern.c:58-64 over the generator of lib.c, which start() plants  *)
(* with 1.  SchedOS lets any runnable holder of a ticket win and assumes   *)
(* that the draws are fair; here they are the numbers that the generator   *)
(* yields, and nothing is assumed but that the processor goes on.          *)
(***************************************************************************)
EXTENDS SchedOS

VARIABLE seed   \* of stream 0, the only one that the kernel uses

lotteryvars == <<vars, seed>>

Gen == INSTANCE SchedOSRandom WITH
         STREAMS <- 256, Seeds <- {1}, Indices <- {},
         seed <- [s \in {0} |-> seed], stream <- 0, initialized <- TRUE,
         pc <- "idle", ret <- "idle", j <- 0, ok <- TRUE

(***************************************************************************)
(* int i = Random()*10000: the whole part of 10000 * x / MODULUS, without  *)
(* a product beyond 32 bits.  10000 * 214748 + 3647 = MODULUS, and         *)
(* i <= 10000 * x / MODULUS iff 214748 * i + 3647 * i / 10000 <= x.  (The  *)
(* double is exact enough: the quotient is at least 1 / MODULUS away from  *)
(* any whole number.)                                                      *)
(***************************************************************************)
Scaled(x) ==
  LET i == x \div 214748
  IN  IF 214748 * i + (3647 * i + 9999) \div 10000 <= x THEN i ELSE i - 1

(* The holder of the ticket drawn when the seed is x. *)
Winner(x) == tickets[(Scaled(x) % Len(tickets)) + 1]

(* schedule() is about to be called, and will draw. *)
AboutToDraw ==
  /\ mode = "user" /\ cpu.eip \in {"yield", "exit"}
  /\ scheduling_algorithm = 4 /\ Kern!Drawing

Loses(p) == Exited(p) \/ (p = current /\ cpu.eip = "exit")

CanBeWon == \E p \in Kern!Holders : ~Loses(p)

Drawn_defect == seed   \* the generator does not advance

Drawn == Gen!Lehmer(Gen!MULTIPLIER, seed)

(* The loop of schedule() around get_winner(); it changes nothing but the seed. *)
Redraw ==
  /\ AboutToDraw /\ CanBeWon
  /\ Loses(Winner(Drawn))
  /\ seed' = Drawn
  /\ UNCHANGED vars

(* The first draw that a process still running wins. *)
Win ==
  /\ AboutToDraw /\ CanBeWon
  /\ ~Loses(Winner(Drawn))
  /\ sys_yield \/ sys_exit
  /\ current' = Winner(Drawn)
  /\ seed' = Drawn

Other ==
  /\ ~(AboutToDraw /\ CanBeWon)
  /\ Execute
  /\ UNCHANGED seed

(* start() calls interrupt_controller_init(0). *)
LotteryInit == Init /\ ~allow_clock_interrupt /\ seed = Gen!Planted(1)

LotteryNext == Redraw \/ Win \/ Other

(* The processor never stops. *)
LotterySpec ==
  LotteryInit /\ [][LotteryNext]_lotteryvars /\ WF_lotteryvars(LotteryNext)
=============================================================================
