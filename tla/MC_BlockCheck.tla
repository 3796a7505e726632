---------------------------- MODULE MC_BlockCheck ----------------------------
(***************************************************************************)
(* Blocks of heights 1..5 with no defect, one, or two of them, every      *)
(* version class (0, below each soft-fork version, 4, and the two BIP9   *)
(* versions with and without the segwit bit), both sides of the BIP16    *)
(* switch time, trusted or not, and every state of the witness           *)
(* commitment.  The activation heights put every soft fork and the        *)
(* signalling window inside 1..5.                                         *)
(***************************************************************************)
EXTENDS BlockCheck

MCVersions == {0, 1, 3, 4, 536870912, 536870914}

MCBlocks ==
    [d : {s \in SUBSET Defects : Cardinality(s) <= 2}, h : 1..5,
     ver : MCVersions, t16 : BOOLEAN, trusted : BOOLEAN, commit : Commitments]
=============================================================================
