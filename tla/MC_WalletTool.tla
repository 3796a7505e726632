----------------------------- MODULE MC_WalletTool -----------------------------
(***************************************************************************)
(* Two outputs the file may list at the start, and one transaction       *)
(* paying a wallet key (o3) and someone else (o4); two runs of the tool:  *)
(* one to apply it, one to load what the first left.                      *)
(***************************************************************************)
EXTENDS WalletTool

CONSTANTS o3, o4

MCTxOuts == [t \in Txs |-> <<o3, o4>>]
====
