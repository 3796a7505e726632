------------------------------ MODULE MC_Chain ------------------------------
(***************************************************************************)
(* A main branch a1..a4, a competing branch b2..b5 forking at a1, and a   *)
(* branch c2 (its scripts fail) and c3 forking at a1 as well.  Arrival    *)
(* order is free, so blocks arrive early (retry later), as extensions,    *)
(* as side blocks and as branch switches of depth 1 to 3; c2 fails when   *)
(* it extends the head, and a switch to c3 fails half way at c2.          *)
(***************************************************************************)
EXTENDS Chain

CONSTANTS a1, a2, a3, a4, b2, b3, b4, b5, c2, c3

MCBlocks == {a1, a2, a3, a4, b2, b3, b4, b5, c2, c3}

MCParent ==
    [x \in MCBlocks |->
        CASE x = a1 -> Genesis
          [] x \in {a2, b2, c2} -> a1
          [] x = a3 -> a2
          [] x = a4 -> a3
          [] x = b3 -> b2
          [] x = b4 -> b3
          [] x = b5 -> b4
          [] x = c3 -> c2]

MCTxVerdict == [x \in MCBlocks |-> IF x = c2 THEN "bad-script" ELSE "ok"]
=============================================================================
