---------------------------- MODULE CommitTxsSpec ----------------------------
(***************************************************************************)
(* What Chain.commitTxs (lib/bch_chain/bch_chain_accept.go) promises, as  *)
(* one atomic decision: a block's transactions are accepted exactly when   *)
(* the block is valid against the committed unspent-output set, and then  *)
(* the set after the commit is the old set minus every output the block   *)
(* spends plus every output the block creates and does not itself spend.  *)
(* The undo data, when kept, is the pre-image of every consumed output.   *)
(*                                                                         *)
(* Validity is stated declaratively over the whole block (every input     *)
(* resolvable, no outpoint spent twice, no spend of the block's own       *)
(* coinbase or of an immature coinbase, scripts verified unless trusted,  *)
(* no transaction or block creating value, sigops under the cap); the     *)
(* detailed module CommitTxs walks the block input by input as the code   *)
(* does and is shown to implement this specification.                    *)
(***************************************************************************)
EXTENDS Naturals, Sequences, SequencesExt, UtxoDefs

CONSTANTS
    Store,                 \* the committed unspent outputs (a set of entries)
    Blocks,                \* candidate blocks: sequences of transactions
    BlTrusted,             \* possible values of bl.Trusted
    Height,                \* changes.Height, the block's height
    LastKnownHeights,      \* possible changes.LastKnownHeight
    UnwindBufLen,          \* ch.Unspent.UnwindBufLen
    COINBASE_MATURITY,
    Reward,                \* bch.GetBlockReward(Height)
    MaxSigops,             \* ch.MaxBlockSigopsCost(Height)
    WITNESS_SCALE_FACTOR,
    LegacySigops,          \* GetLegacySigOpCount() of every transaction
    InputSigops            \* P2SH plus witness sigops of every input

VARIABLES block, blTrusted, lknown, outcome, utxo, undoData

absVars == <<block, blTrusted, lknown, outcome, utxo, undoData>>

\* Transaction 1 is the coinbase (bl.Txs[0]); Spends names every input.
Spends == UNION {{<<k, p>> : p \in 1..Len(block[k].ins)} : k \in 2..Len(block)}
Prev(s) == block[s[1]].ins[s[2]]
Creates(k) ==
    {[op |-> <<block[k].id, v>>, value |-> block[k].outs[v + 1], cb |-> k = 1,
      h |-> Height, vcnt |-> Len(block[k].outs)] : v \in 0..Len(block[k].outs) - 1}
Created == UNION {Creates(k) : k \in 1..Len(block)}
\* The output an input spends: a committed one, else one made earlier in
\* the block by a transaction other than the coinbase.
EarlierOut(s) == {e \in UNION {Creates(m) : m \in 2..s[1] - 1} : e.op = Prev(s)}
Mature(e) == e.cb => Height - e.h >= COINBASE_MATURITY
Resolvable(s) ==
    LET e == UnspentGet(Store, Prev(s))
    IN  IF e # Nil THEN Mature(e) ELSE EarlierOut(s) # {}
Source(s) ==
    IF UnspentGet(Store, Prev(s)) # Nil THEN UnspentGet(Store, Prev(s))
    ELSE CHOOSE e \in EarlierOut(s) : TRUE
InSum(k) == MapThenSumSet(LAMBDA s : Source(s).value, {s \in Spends : s[1] = k})
OutSum(k) == FoldLeft(+, 0, block[k].outs)
Trusted(k) == blTrusted \/ block[k].trusted
SigopCost == Len(block) * WITNESS_SCALE_FACTOR * LegacySigops
               + Cardinality(Spends) * InputSigops

ValidBlock ==
    /\ block[1].cbOk
    /\ \A s \in Spends : Resolvable(s)
    /\ \A s, t \in Spends : s # t => Prev(s) # Prev(t)
    /\ \A k \in 2..Len(block) : ~Trusted(k) => block[k].bad = 0
    /\ \A k \in 2..Len(block) : OutSum(k) <= InSum(k)
    /\ OutSum(1) + MapThenSumSet(OutSum, 2..Len(block))
         <= Reward + MapThenSumSet(InSum, 2..Len(block))
    /\ SigopCost <= MaxSigops

SpentOps == {Prev(s) : s \in Spends}
AfterBlock == {e \in Store \cup Created : e.op \notin SpentOps}
KeepUndo == Height + UnwindBufLen >= lknown

Init ==
    /\ block \in Blocks
    /\ blTrusted \in BlTrusted
    /\ lknown \in LastKnownHeights
    /\ outcome = "running"
    /\ utxo = Store
    /\ undoData = {}

Decide ==
    /\ outcome = "running"
    /\ \/ /\ ValidBlock
          /\ outcome' = "ok"
          /\ utxo' = AfterBlock
          /\ undoData' = IF KeepUndo THEN {e \in Store : e.op \in SpentOps} ELSE {}
       \/ /\ ~ValidBlock
          /\ outcome' = "fail"
          /\ UNCHANGED <<utxo, undoData>>
    /\ UNCHANGED <<block, blTrusted, lknown>>

Spec == Init /\ [][Decide]_absVars /\ WF_absVars(Decide)
=============================================================================
