-------------------------------- MODULE Chain --------------------------------
(***************************************************************************)
(* The block index and head of Chain (lib/bch_chain): the checks of       *)
(* PreCheckBlock that depend on the index (bch_block_check.go:220-319),   *)
(* AcceptBlock / AcceptHeader / CommitBlock (bch_chain_accept.go:83-156)  *)
(* and the branch switch MoveToBlock that CommitBlock calls.  MoveToBlock *)
(* and the unspent-output store are not in this repository's src/; they   *)
(* follow the spec (§4.4, §6): undo back to the common ancestor with each *)
(* block's undo data, then commit forward; a block failing its commit    *)
(* ends the switch and is deleted with its descendants.                   *)
(*                                                                         *)
(* The unspent-output set is abstracted to the sequence `applied` of the  *)
(* blocks whose transactions it holds, pushed by a commit and popped by   *)
(* an undo; commitTxs is abstracted to its verdict (module CommitTxs      *)
(* checks it in detail).  Header and body checks that do not depend on   *)
(* the index (size, version, proof of work, time, difficulty, Merkle     *)
(* root) only ever reject a block; a block failing them is one that never *)
(* arrives, so they are not modelled here.                                *)
(***************************************************************************)
EXTENDS Naturals, Sequences, SequencesExt, FiniteSets

CONSTANTS
    Genesis,
    Blocks,                 \* hashes of the blocks that may arrive
    Parent,                 \* Blocks -> Blocks \cup {Genesis}: ParentHash()
    TxVerdict,              \* Blocks -> {"ok", "bad-script", "bad"}
    MovingCheckopintDepth,
    UnwindBufLen,           \* ch.Unspent.UnwindBufLen
    LknownAhead             \* how far bl.LastKnownHeight may be ahead

ASSUME Parent \in [Blocks -> Blocks \cup {Genesis}]
ASSUME TxVerdict \in [Blocks -> {"ok", "bad-script", "bad"}]

VARIABLES
    index,      \* BchBlockIndex: the hashes it holds
    stored,     \* BchBlocks: blocks saved by BchBlockAdd
    trusted,    \* blocks whose bl.Trusted is set
    last,       \* ch.LastBlock()
    applied,    \* the blocks the unspent-output set reflects, in order
    undoKept,   \* blocks committed with undo data (changes.UndoData)
    undone,     \* blocks undone by the latest branch switch
    halted      \* an undo found no undo data: the node stopped

vars == <<index, stored, trusted, last, applied, undoKept, undone, halted>>

RECURSIVE PathTo(_)
\* The blocks from genesis (excluded) to x, following Parent links.
PathTo(x) == IF x = Genesis THEN <<>> ELSE Append(PathTo(Parent[x]), x)

\* BchBlockTreeNode.Height; every block carries the same work, so
\* MorePOW compares heights.
Height(x) == Len(PathTo(x))
MorePOW(x, y) == Height(x) > Height(y)

\* changes.UndoData is made when Height + UnwindBufLen >= LastKnownHeight
\* (commitTxs, bch_chain_accept.go:163).
KeepUndo(x, lknown) == Height(x) + UnwindBufLen >= lknown

\* commitTxs fails for a block with invalid transactions, and for one with
\* an invalid script unless bl.Trusted skips the script checks.
CommitOk(x, tr) ==
    TxVerdict[x] = "ok" \/ (TxVerdict[x] = "bad-script" /\ x \in tr)

\* The checks of PreCheckBlock on the index (lines 255-282): a block
\* already indexed is a duplicate (or genesis), one with an unknown parent
\* is to be retried later, one hooking more than MovingCheckopintDepth
\* below the head is refused.
TooDeep(b) ==
    Parent[b] # last /\ Height(last) - (Height(Parent[b]) + 1) >= MovingCheckopintDepth
PreCheckOk(b) ==
    /\ b \notin index
    /\ Parent[b] \in index
    /\ ~TooDeep(b)

Init ==
    /\ index = {Genesis}
    /\ stored = {}
    /\ trusted = {}
    /\ last = Genesis
    /\ applied = <<>>
    /\ undoKept = {}
    /\ undone = 0
    /\ halted = FALSE

\* PreCheckBlock refuses the block (duplicate, genesis, parent unknown:
\* retry later, or hooking too deep); nothing changes.
Reject(b) ==
    /\ ~halted
    /\ ~PreCheckOk(b)
    /\ UNCHANGED vars

\* Mutant: the changes reach the store although the commit failed.
AcceptExtendFailedApplied(b) ==
    /\ ~halted /\ PreCheckOk(b) /\ Parent[b] = last
    /\ ~CommitOk(b, trusted)
    /\ applied' = Append(applied, b)
    /\ UNCHANGED <<index, stored, trusted, last, undoKept, undone, halted>>

\* CommitBlock, lines 114-125: the block extends the head and its commit
\* fails; AcceptHeader's node is deleted again, the store is untouched.
AcceptExtendFailed(b) ==
    /\ ~halted /\ PreCheckOk(b) /\ Parent[b] = last
    /\ ~CommitOk(b, trusted)
    /\ UNCHANGED vars

\* Mutant: the block is not saved by BchBlockAdd.
AcceptExtendNoSave(b) ==
    /\ ~halted /\ PreCheckOk(b) /\ Parent[b] = last
    /\ CommitOk(b, trusted)
    /\ \E ahead \in LknownAhead :
          undoKept' = IF KeepUndo(b, Height(b) + ahead)
                      THEN undoKept \cup {b} ELSE undoKept
    /\ index' = index \cup {b}
    /\ trusted' = trusted \cup {b}
    /\ applied' = Append(applied, b)
    /\ last' = b
    /\ UNCHANGED <<stored, undone, halted>>

\* CommitBlock, lines 126-137: the block extends the head and commits; it
\* is marked trusted, saved, its changes go to the store and it is the new
\* head.  bl.LastKnownHeight comes from the peers and may be ahead.
AcceptExtend(b) ==
    /\ ~halted /\ PreCheckOk(b) /\ Parent[b] = last
    /\ CommitOk(b, trusted)
    /\ \E ahead \in LknownAhead :
          undoKept' = IF KeepUndo(b, Height(b) + ahead)
                      THEN undoKept \cup {b} ELSE undoKept
    /\ index' = index \cup {b}
    /\ trusted' = trusted \cup {b}
    /\ stored' = stored \cup {b}
    /\ applied' = Append(applied, b)
    /\ last' = b
    /\ UNCHANGED <<undone, halted>>

\* Mutant: a side block is saved as trusted.
AcceptSideTrusted(b) ==
    /\ ~halted /\ PreCheckOk(b) /\ Parent[b] # last
    /\ ~MorePOW(b, last)
    /\ index' = index \cup {b}
    /\ stored' = stored \cup {b}
    /\ trusted' = trusted \cup {b}
    /\ UNCHANGED <<last, applied, undoKept, undone, halted>>

\* CommitBlock, lines 139-153: the block is on another branch and has no
\* more work than the head: it is indexed and saved, not committed.
AcceptSide(b) ==
    /\ ~halted /\ PreCheckOk(b) /\ Parent[b] # last
    /\ ~MorePOW(b, last)
    /\ index' = index \cup {b}
    /\ stored' = stored \cup {b}
    /\ UNCHANGED <<trusted, last, applied, undoKept, undone, halted>>

\* The blocks of the index at or below x (DeleteBranch).
Branch(x, idx) == {y \in idx : x \in ToSet(PathTo(y))}

RECURSIVE RedoDeleteOne(_, _, _)
\* Mutant: only the failing block leaves the index, not its descendants.
RedoDeleteOne(st, path, lknown) ==
    IF path = <<>> THEN st
    ELSE LET x == Head(path) IN
         IF CommitOk(x, st.trusted)
         THEN RedoDeleteOne([st EXCEPT !.applied = Append(@, x), !.last = x,
                                       !.trusted = @ \cup {x},
                                       !.undoKept = IF KeepUndo(x, lknown) THEN @ \cup {x} ELSE @],
                            Tail(path), lknown)
         ELSE [st EXCEPT !.index = @ \ {x}]

RECURSIVE Redo(_, _, _)
\* MoveToBlock's forward part: commit each block of path in turn; the
\* first that fails is deleted with its descendants and ends the switch.
Redo(st, path, lknown) ==
    IF path = <<>> THEN st
    ELSE LET x == Head(path) IN
         IF CommitOk(x, st.trusted)
         THEN Redo([st EXCEPT !.applied = Append(@, x), !.last = x,
                              !.trusted = @ \cup {x},
                              !.undoKept = IF KeepUndo(x, lknown) THEN @ \cup {x} ELSE @],
                   Tail(path), lknown)
         ELSE [st EXCEPT !.index = @ \ Branch(x, @)]

\* The branch switch from the head to b: the head's blocks above the
\* common ancestor are undone, b's branch above it is committed.
Common(b) == Len(LongestCommonPrefix({PathTo(last), PathTo(b)}))
ToUndo(b) == SubSeq(PathTo(last), Common(b) + 1, Height(last))
Ancestor(b) == IF Common(b) = 0 THEN Genesis ELSE PathTo(b)[Common(b)]

\* CommitBlock, lines 139-149, with MoveToBlock: the block is on another
\* branch with more work: undo the head's blocks back to the common
\* ancestor, then commit the new branch up to the block (lknown is the
\* height of b).
AcceptReorg(b) ==
    LET st == Redo([applied |-> SubSeq(applied, 1, Len(applied) - Len(ToUndo(b))),
                    last |-> Ancestor(b), trusted |-> trusted,
                    undoKept |-> undoKept, index |-> index \cup {b}],
                   SubSeq(PathTo(b), Common(b) + 1, Height(b)), Height(b))
    IN
    /\ ~halted /\ PreCheckOk(b) /\ Parent[b] # last
    /\ MorePOW(b, last)
    /\ \A k \in 1..Len(ToUndo(b)) : ToUndo(b)[k] \in undoKept
    /\ stored' = stored \cup {b}
    /\ index' = st.index
    /\ trusted' = st.trusted
    /\ last' = st.last
    /\ applied' = st.applied
    /\ undoKept' = st.undoKept
    /\ undone' = Len(ToUndo(b))
    /\ UNCHANGED halted

\* The same, but a block to undo has no undo data: the store cannot undo
\* it and the node stops.
AcceptReorgNoUndo(b) ==
    /\ ~halted /\ PreCheckOk(b) /\ Parent[b] # last
    /\ MorePOW(b, last)
    /\ \E k \in 1..Len(ToUndo(b)) : ToUndo(b)[k] \notin undoKept
    /\ halted' = TRUE
    /\ stored' = stored \cup {b}
    /\ index' = index \cup {b}
    /\ UNCHANGED <<trusted, last, applied, undoKept, undone>>

Next ==
    \E b \in Blocks :
        \/ Reject(b)
        \/ AcceptExtendFailed(b)
        \/ AcceptExtend(b)
        \/ AcceptSide(b)
        \/ AcceptReorg(b)
        \/ AcceptReorgNoUndo(b)

Spec == Init /\ [][Next]_vars

-----------------------------------------------------------------------------
TypeOK ==
    /\ index \subseteq Blocks \cup {Genesis} /\ Genesis \in index
    /\ stored \subseteq Blocks /\ trusted \subseteq stored
    /\ last \in index
    /\ applied \in Seq(Blocks) /\ undoKept \subseteq Blocks
    /\ undone \in Nat /\ halted \in BOOLEAN

\* The unspent-output set always reflects exactly the chain from genesis
\* to the head: after extensions, failed commits (all-or-nothing) and
\* branch switches, including ones cut short by a failing block.
UtxoFollowsHead == applied = PathTo(last)

\* The index stays a tree rooted at genesis: every indexed block's parent
\* is indexed, so the head is reachable from genesis.
IndexIsTree == \A x \in index \ {Genesis} : Parent[x] \in index

\* No block whose transactions are invalid is ever in the unspent-output
\* set, even when a branch switch re-commits trusted blocks without
\* their script checks.
NoInvalidApplied == \A k \in 1..Len(applied) : TxVerdict[applied[k]] = "ok"

\* The comment on PreCheckBlock's depth check (bch_block_check.go:275):
\* no accepted block reaches deeper into the chain than the unwind buffer,
\* so no branch switch undoes more than MovingCheckopintDepth blocks.
ReorgWithinCheckpoint == undone <= MovingCheckopintDepth

\* Every branch switch finds the undo data of the blocks it undoes.
UndoDataAvailable == ~halted
=============================================================================
