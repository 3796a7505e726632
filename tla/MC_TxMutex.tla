----------------------------- MODULE MC_TxMutex -----------------------------
(* Two transaction ids, an unparsable parameter and one or two network    *)
(* goroutines; the pool starts as any subset of the ids.                  *)
EXTENDS TxMutex
=============================================================================
