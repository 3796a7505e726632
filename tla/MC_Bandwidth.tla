---------------------------- MODULE MC_Bandwidth ----------------------------
(***************************************************************************)
(* Two goroutines reading and PrintBWStats, a limit of 3 bytes a second,  *)
(* a buffer of 2 with reads capped to 1 when the budget exceeds it, clock *)
(* reads in the middle and at the end of a second, and a wall clock over  *)
(* 0..2 that moves on by one or two seconds.  The history ring has 4      *)
(* slots, its index starting at the last one, and PrintBWStats averages 2 *)
(* seconds.  (ClockSteps may also hold -1: with a clock set back,         *)
(* ReadsReturn fails; see the README.)                                    *)
(***************************************************************************)
EXTENDS Bandwidth
=============================================================================
