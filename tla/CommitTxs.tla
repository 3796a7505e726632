------------------------------ MODULE CommitTxs ------------------------------
(***************************************************************************)
(* Chain.commitTxs (lib/bch_chain/bch_chain_accept.go:159-350), called by *)
(* ProcessBlockTransactions, step by step.  The committing thread walks    *)
(* the block's transactions in order and each input in order; for every  *)
(* input of an untrusted transaction it starts a goroutine running        *)
(* script.VerifyTxScript, which bumps the shared ver_err_cnt on failure;  *)
(* at the end of the transaction's inputs it waits on the WaitGroup and   *)
(* rejects the block if the counter is non-zero.  A failure anywhere      *)
(* returns at once, leaving goroutines already started to finish alone.  *)
(*                                                                         *)
(* State: pc, i (transaction), j (input) of the committing thread; the    *)
(* BlockChanges it fills (deled = DeledTxs, undo = UndoData, addList);     *)
(* blUnsp, the outputs created so far in the block; the running sums; and *)
(* pending, the verification goroutines not yet finished.                *)
(***************************************************************************)
EXTENDS Naturals, Sequences, SequencesExt, Functions, TLC, UtxoDefs

CONSTANTS Store, Blocks, BlTrusted, Height, LastKnownHeights, UnwindBufLen,
          COINBASE_MATURITY, Reward, MaxSigops, WITNESS_SCALE_FACTOR,
          LegacySigops, InputSigops

VARIABLES
    block, blTrusted, lknown,      \* the call's inputs
    pc, i, j,                      \* the committing thread
    txinsum, sumblockin, sumblockout, sigopscost,
    deled,                         \* changes.DeledTxs: txid -> spent map
    undo,                          \* changes.UndoData (pre-images)
    blUnsp,                        \* txid -> outputs made in this block
    addList,                       \* changes.AddList
    pending,                       \* verification goroutines still running
    ver_err_cnt,
    err

vars == <<block, blTrusted, lknown, pc, i, j, txinsum, sumblockin,
          sumblockout, sigopscost, deled, undo, blUnsp, addList, pending,
          ver_err_cnt, err>>

\* changes.UndoData is made only for a block within the unwind window.
KeepUndo == Height + UnwindBufLen >= lknown

\* tx_trusted: the whole block is trusted, or TrustedTxChecker says so.
TxTrusted(k) == blTrusted \/ block[k].trusted

\* VerifyTxScript's verdict on input p of transaction k.
ScriptFails(t) == block[t[1]].bad = t[2]

\* The spent-map checks against outputs of the committed set already
\* consumed by this block (lines 186-199).
SpentMapError(op) ==
    IF op[1] \notin DOMAIN deled THEN "none"
    ELSE IF op[2] >= Len(deled[op[1]]) THEN "vout-too-big"
    ELSE IF deled[op[1]][op[2] + 1] THEN "double-spend"
    ELSE "none"

\* The checks on an output created earlier in the block (lines 202-223).
BlockOutError(op) ==
    IF op[1] \notin DOMAIN blUnsp THEN "unknown-input"
    ELSE IF op[2] >= Len(blUnsp[op[1]]) THEN "vout-too-big"
    ELSE IF blUnsp[op[1]][op[2] + 1] = Nil THEN "vout-already-spent"
    ELSE IF blUnsp[op[1]][op[2] + 1].cb THEN "own-coinbase"
    ELSE "none"

\* Coinbase maturity, in the code's uint32 arithmetic (line 228): when
\* the output's height exceeds the block's the difference wraps to a
\* huge number and the output counts as mature.
Premature(tout) ==
    tout.cb /\ tout.h <= Height /\ Height - tout.h < COINBASE_MATURITY

\* spent_map[vout] = true, the map made with VoutCount slots if new.
MarkSpent(op, vcnt) ==
    IF op[1] \in DOMAIN deled
    THEN [deled EXCEPT ![op[1]][op[2] + 1] = TRUE]
    ELSE deled @@ (op[1] :> [v \in 1..vcnt |-> v = op[2] + 1])

\* The outputs of transaction k as put into blUnsp (lines 313-315).
TxOuts(k) ==
    [v \in 1..Len(block[k].outs) |->
        [op |-> <<block[k].id, v - 1>>, value |-> block[k].outs[v],
         cb |-> k = 1, h |-> Height, vcnt |-> Len(block[k].outs)]]

\* Every output of blUnsp still not spent in the block (lines 328-347).
Survivors == {o \in UNION {Range(blUnsp[t]) : t \in DOMAIN blUnsp} : o # Nil}

Init ==
    /\ block \in Blocks
    /\ blTrusted \in BlTrusted
    /\ lknown \in LastKnownHeights
    /\ pc = "tx" /\ i = 1 /\ j = 1
    /\ txinsum = 0 /\ sumblockin = Reward /\ sumblockout = 0
    /\ sigopscost = 0
    /\ deled = <<>> /\ undo = {} /\ blUnsp = <<>> /\ addList = {}
    /\ pending = {} /\ ver_err_cnt = 0
    /\ err = "none"

Fail(kind) ==
    /\ pc' = "failed" /\ err' = kind
    /\ UNCHANGED <<block, blTrusted, lknown, i, j, txinsum, sumblockin,
                   sumblockout, sigopscost, deled, undo, blUnsp, addList,
                   pending, ver_err_cnt>>

\* Lines 173-183: a new non-coinbase transaction; its inputs come next.
StartTx ==
    /\ pc = "tx" /\ i > 1
    /\ sigopscost' = sigopscost + WITNESS_SCALE_FACTOR * LegacySigops
    /\ txinsum' = 0 /\ j' = 1 /\ pc' = "in"
    /\ UNCHANGED <<block, blTrusted, lknown, i, sumblockin, sumblockout,
                   deled, undo, blUnsp, addList, pending, ver_err_cnt, err>>

\* Lines 173-175 and 285-292: the coinbase; only its script length is
\* checked, its outputs come next.
StartCoinbase ==
    /\ pc = "tx" /\ i = 1
    /\ \/ /\ block[1].cbOk
          /\ sigopscost' = sigopscost + WITNESS_SCALE_FACTOR * LegacySigops
          /\ txinsum' = 0 /\ pc' = "outs"
          /\ UNCHANGED <<block, blTrusted, lknown, i, j, sumblockin,
                         sumblockout, deled, undo, blUnsp, addList, pending,
                         ver_err_cnt, err>>
       \/ /\ ~block[1].cbOk
          /\ Fail("cb-script-length")

\* Lines 258-274: the input is resolved to tout; start its verification
\* unless the transaction is trusted, count its sigops and value.
InputAccepted(tout) ==
    /\ pending' = IF TxTrusted(i) THEN pending ELSE pending \cup {<<i, j>>}
    /\ sigopscost' = sigopscost + InputSigops
    /\ txinsum' = txinsum + tout.value
    /\ j' = j + 1
    /\ UNCHANGED <<block, blTrusted, lknown, pc, i, sumblockin, sumblockout,
                   addList, ver_err_cnt, err>>

\* Mutation: a pre-image is also kept for outputs made inside the block.
SpendFromBlockWithUndo(op) ==
    \/ /\ BlockOutError(op) # "none"
       /\ Fail(BlockOutError(op))
    \/ /\ BlockOutError(op) = "none"
       /\ blUnsp' = [blUnsp EXCEPT ![op[1]][op[2] + 1] = Nil]
       /\ undo' = IF KeepUndo THEN undo \cup {blUnsp[op[1]][op[2] + 1]} ELSE undo
       /\ UNCHANGED deled
       /\ InputAccepted(blUnsp[op[1]][op[2] + 1])

\* Lines 201-226: the input spends an output made earlier in the block.
SpendFromBlock(op) ==
    \/ /\ BlockOutError(op) # "none"
       /\ Fail(BlockOutError(op))
    \/ /\ BlockOutError(op) = "none"
       /\ blUnsp' = [blUnsp EXCEPT ![op[1]][op[2] + 1] = Nil]
       /\ UNCHANGED <<deled, undo>>
       /\ InputAccepted(blUnsp[op[1]][op[2] + 1])

\* Mutation: the undo record of a transaction is filled only for the first
\* of its outputs the block spends (urec reused without adding Outs).
SpendFromStoreFirstUndoOnly(op) ==
    LET tout == UnspentGet(Store, op) IN
    \/ /\ Premature(tout)
       /\ Fail("premature-coinbase")
    \/ /\ ~Premature(tout)
       /\ deled' = MarkSpent(op, tout.vcnt)
       /\ undo' = IF KeepUndo /\ op[1] \notin DOMAIN deled
                  THEN undo \cup {tout} ELSE undo
       /\ UNCHANGED blUnsp
       /\ InputAccepted(tout)

\* Lines 227-256: the input spends a committed output; it is marked in
\* the spent map and its pre-image goes to the undo data.
SpendFromStore(op) ==
    LET tout == UnspentGet(Store, op) IN
    \/ /\ Premature(tout)
       /\ Fail("premature-coinbase")
    \/ /\ ~Premature(tout)
       /\ deled' = MarkSpent(op, tout.vcnt)
       /\ undo' = IF KeepUndo THEN undo \cup {tout} ELSE undo
       /\ UNCHANGED blUnsp
       /\ InputAccepted(tout)

\* Lines 184-275: one input of transaction i.
SpendInput ==
    /\ pc = "in" /\ j <= Len(block[i].ins)
    /\ LET op == block[i].ins[j] IN
       \/ /\ SpentMapError(op) # "none"
          /\ Fail(SpentMapError(op))
       \/ /\ SpentMapError(op) = "none"
          /\ UnspentGet(Store, op) = Nil
          /\ SpendFromBlock(op)
       \/ /\ SpentMapError(op) = "none"
          /\ UnspentGet(Store, op) # Nil
          /\ SpendFromStore(op)

\* Mutation: the ver_err_cnt is read without waiting for the goroutines.
EndInputsNoWait ==
    /\ pc = "in" /\ j > Len(block[i].ins)
    /\ \/ /\ ver_err_cnt > 0
          /\ Fail("verify-scripts")
       \/ /\ ver_err_cnt = 0
          /\ pc' = "outs"
          /\ UNCHANGED <<block, blTrusted, lknown, i, j, txinsum, sumblockin,
                         sumblockout, sigopscost, deled, undo, blUnsp,
                         addList, pending, ver_err_cnt, err>>

\* Lines 277-284: after the last input, wg.Wait() for the transaction's
\* verifications, then reject the block if any of them failed.
EndInputs ==
    /\ pc = "in" /\ j > Len(block[i].ins)
    /\ \/ /\ TxTrusted(i)
          /\ pc' = "outs"
          /\ UNCHANGED <<block, blTrusted, lknown, i, j, txinsum, sumblockin,
                         sumblockout, sigopscost, deled, undo, blUnsp,
                         addList, pending, ver_err_cnt, err>>
       \/ /\ ~TxTrusted(i)
          /\ pending = {}
          /\ \/ /\ ver_err_cnt > 0
                /\ Fail("verify-scripts")
             \/ /\ ver_err_cnt = 0
                /\ pc' = "outs"
                /\ UNCHANGED <<block, blTrusted, lknown, i, j, txinsum,
                               sumblockin, sumblockout, sigopscost, deled,
                               undo, blUnsp, addList, pending, ver_err_cnt,
                               err>>

\* Lines 293-315: add up the outputs, reject a transaction spending more
\* than its inputs, and make its outputs spendable by later ones.
TxOutputs ==
    LET txoutsum == FoldLeft(+, 0, block[i].outs) IN
    /\ pc = "outs"
    /\ sumblockin' = sumblockin + txinsum
    /\ sumblockout' = sumblockout + txoutsum
    /\ \/ /\ i > 1 /\ txoutsum > txinsum
          /\ pc' = "failed" /\ err' = "more-spent-than-input"
          /\ UNCHANGED <<i, blUnsp>>
       \/ /\ i = 1 \/ txoutsum <= txinsum
          /\ blUnsp' = blUnsp @@ (block[i].id :> TxOuts(i))
          /\ i' = i + 1
          /\ pc' = IF i < Len(block) THEN "tx" ELSE "final"
          /\ UNCHANGED err
    /\ UNCHANGED <<block, blTrusted, lknown, j, txinsum, sigopscost, deled,
                   undo, addList, pending, ver_err_cnt>>

\* Mutation: the block-wide sum check (line 318) is left out.
FinishNoBlockSum ==
    /\ pc = "final"
    /\ \/ /\ sigopscost > MaxSigops
          /\ Fail("bad-blk-sigops")
       \/ /\ sigopscost <= MaxSigops
          /\ addList' = Survivors
          /\ pc' = "done"
          /\ UNCHANGED <<block, blTrusted, lknown, i, j, txinsum, sumblockin,
                         sumblockout, sigopscost, deled, undo, blUnsp,
                         pending, ver_err_cnt, err>>

\* Lines 318-347: the block-wide value and sigops checks, then the
\* AddList of every created output not spent inside the block.
Finish ==
    /\ pc = "final"
    /\ \/ /\ sumblockin < sumblockout
          /\ Fail("block-out-exceeds-in")
       \/ /\ sumblockin >= sumblockout /\ sigopscost > MaxSigops
          /\ Fail("bad-blk-sigops")
       \/ /\ sumblockin >= sumblockout /\ sigopscost <= MaxSigops
          /\ addList' = Survivors
          /\ pc' = "done"
          /\ UNCHANGED <<block, blTrusted, lknown, i, j, txinsum, sumblockin,
                         sumblockout, sigopscost, deled, undo, blUnsp,
                         pending, ver_err_cnt, err>>

\* Lines 260-265: a verification goroutine finishes; a failed script
\* bumps ver_err_cnt atomically.
Verify(t) ==
    /\ t \in pending
    /\ pending' = pending \ {t}
    /\ ver_err_cnt' = IF ScriptFails(t) THEN ver_err_cnt + 1 ELSE ver_err_cnt
    /\ UNCHANGED <<block, blTrusted, lknown, pc, i, j, txinsum, sumblockin,
                   sumblockout, sigopscost, deled, undo, blUnsp, addList, err>>

\* commitTxs has returned and every goroutine it started has finished.
Returned == pc \in {"done", "failed"} /\ pending = {} /\ UNCHANGED vars

Committer == StartTx \/ StartCoinbase \/ SpendInput \/ EndInputs \/ TxOutputs \/ Finish

Next == Committer \/ (\E t \in pending : Verify(t)) \/ Returned

\* The committing thread and the goroutines are all scheduled by the Go
\* runtime; none of them blocks except on wg.Wait().
Fairness == WF_vars(Committer) /\ WF_vars(\E t \in pending : Verify(t))

Spec == Init /\ [][Next]_vars /\ Fairness

-----------------------------------------------------------------------------
TypeOK ==
    /\ pc \in {"tx", "in", "outs", "final", "done", "failed"}
    /\ i \in 1..Len(block) + 1 /\ j \in Nat
    /\ pending \subseteq (1..Len(block)) \X Nat
    /\ ver_err_cnt \in Nat /\ sigopscost \in Nat
    /\ undo \subseteq Store /\ addList \subseteq Survivors

\* The unspent-output set once the BlockChanges are committed.
Committed == CommitBlockTxs(Store, deled, addList)

\* Refinement: the step-by-step walk with its goroutines implements the
\* atomic decision of CommitTxsSpec: commitTxs accepts exactly the valid
\* blocks, eventually decides, and its changes yield the expected set.
Abs == INSTANCE CommitTxsSpec WITH
    outcome <- CASE pc = "done" -> "ok" [] pc = "failed" -> "fail"
                    [] OTHER -> "running",
    utxo <- IF pc = "done" THEN Committed ELSE Store,
    undoData <- IF pc = "done" THEN undo ELSE {}
CommitTxsRefinement == Abs!Spec

\* No money creation: the outputs commitTxs lets through hold at most the
\* committed value plus the block reward (the per-transaction fee check,
\* the block-wide sum and the in-block spend tracking together).
NoInflation == pc = "done" => ValueOf(Committed) <= ValueOf(Store) + Reward

\* The undo data commitTxs collects while consuming committed outputs
\* restores the set exactly: undoing the block after committing it gives
\* back the set it started from (what a reorg relies on).
UndoRevertsCommit ==
    pc = "done" /\ KeepUndo => UndoBlockTxs(Committed, addList, undo) = Store
=============================================================================
