---------------------------- MODULE MC_CommitTxs ----------------------------
(***************************************************************************)
(* A block of a coinbase and two transactions at height 3 against a small *)
(* committed set: s1 (three outputs, the third already spent), s2 (an      *)
(* immature coinbase output) and s3 (a coinbase output exactly           *)
(* COINBASE_MATURITY old).  Inputs may name any of these, the block's own *)
(* coinbase t1 or the output of the first transaction t2, so in-block     *)
(* chaining, in-block and in-transaction double spends, forward and       *)
(* unknown references and both maturity cases all occur.                  *)
(***************************************************************************)
EXTENDS CommitTxs

CONSTANTS s1, s2, s3, t1, t2, t3

MCStore ==
    { [op |-> <<s1, 0>>, value |-> 1, cb |-> FALSE, h |-> 1, vcnt |-> 3],
      [op |-> <<s1, 1>>, value |-> 1, cb |-> FALSE, h |-> 1, vcnt |-> 3],
      [op |-> <<s2, 0>>, value |-> 2, cb |-> TRUE,  h |-> 2, vcnt |-> 1],
      [op |-> <<s3, 0>>, value |-> 1, cb |-> TRUE,  h |-> 1, vcnt |-> 1] }

OneInput == {<<o>> : o \in {<<s1, 0>>, <<s1, 2>>, <<s2, 0>>, <<s3, 0>>,
                            <<t1, 0>>, <<t2, 0>>, <<t3, 0>>}}
TwoInputs == {<<a, b>> : a, b \in {<<s1, 0>>, <<s1, 1>>, <<t2, 0>>}}

\* (trusted, bad): verified and good, verified with its last input's
\* script failing, or trusted by the mempool oracle despite that.
Verdicts(ins) == {[trusted |-> FALSE, bad |-> 0],
                  [trusted |-> FALSE, bad |-> Len(ins)],
                  [trusted |-> TRUE, bad |-> Len(ins)]}

Spending(id) ==
    UNION {{[id |-> id, ins |-> ins, outs |-> <<v>>, trusted |-> d.trusted,
             bad |-> d.bad, cbOk |-> TRUE] : v \in 0..2, d \in Verdicts(ins)}
           : ins \in OneInput \cup TwoInputs}

Coinbases ==
    {[id |-> t1, ins |-> <<>>, outs |-> <<v>>, trusted |-> FALSE, bad |-> 0,
      cbOk |-> ok] : <<v, ok>> \in {<<1, TRUE>>, <<2, TRUE>>, <<1, FALSE>>}}

MCBlocks == Coinbases \X Spending(t2) \X Spending(t3)
=============================================================================
