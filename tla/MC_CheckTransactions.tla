------------------------ MODULE MC_CheckTransactions ------------------------
(* Three transactions, each valid, invalid or not final. *)
EXTENDS CheckTransactions
=============================================================================
