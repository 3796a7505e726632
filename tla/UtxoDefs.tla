------------------------------ MODULE UtxoDefs ------------------------------
(***************************************************************************)
(* The unspent-output set as the chain code uses it.  The store itself    *)
(* (lib/bch_utxo) is not in this repository's src/, so its read and       *)
(* commit operations are taken from the interface the spec gives (§6):    *)
(* UnspentGet(outpoint), CommitBlockTxs(changes) and the undo of a block. *)
(*                                                                         *)
(* An output is an entry                                                   *)
(*   [op |-> <<txid, vout>>, value, cb, h, vcnt]                           *)
(* where cb is WasCoinbase, h is the height of the containing block and   *)
(* vcnt is the VoutCount of the transaction that created it.  Scripts are *)
(* not modelled: script verification is an external pure function whose  *)
(* verdict is part of the block's data.                                    *)
(***************************************************************************)
EXTENDS Naturals, FiniteSets, FiniteSetsExt

CONSTANT Nil

\* ch.Unspent.UnspentGet(inp): the unspent output named by op, or nil.
UnspentGet(utxo, op) ==
    IF \E e \in utxo : e.op = op THEN CHOOSE e \in utxo : e.op = op ELSE Nil

\* ch.Unspent.CommitBlockTxs(changes, hash): every output marked in the
\* block's DeledTxs spent-maps is removed and the AddList is inserted.
CommitBlockTxs(utxo, deled, addList) ==
    {e \in utxo : ~(e.op[1] \in DOMAIN deled /\ deled[e.op[1]][e.op[2] + 1])}
        \cup addList

\* Undo of one block: the outputs the block added are removed and the
\* pre-images kept in its undo data are put back.
UndoBlockTxs(utxo, added, undo) == (utxo \ added) \cup undo

\* Total value held by a set of outputs.
ValueOf(S) == MapThenSumSet(LAMBDA e : e.value, S)
=============================================================================
