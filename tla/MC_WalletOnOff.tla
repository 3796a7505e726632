---------------------------- MODULE MC_WalletOnOff ----------------------------
(* Three outputs, two of them of a tracked value.                          *)
EXTENDS WalletOnOff
=============================================================================
