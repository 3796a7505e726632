------------------------------ MODULE BlockCheck ------------------------------
(***************************************************************************)
(* Block validation of lib/bch_chain/bch_block_check.go: CheckBlock runs  *)
(* PreCheckBlock (header and index checks) and, if it passes,             *)
(* PostCheckBlock (body checks, ApplyBlockFlags, CheckTransactions) and    *)
(* classifies the result as (er, dos, maybelater).  BchPreCheckBlock, a    *)
(* copy of PreCheckBlock that differs in prints and wording and that       *)
(* nothing in src/ calls, is not modelled.                                 *)
(*                                                                         *)
(* Each check is an early return; a check is a record of whether it       *)
(* fails on the block, the error it returns and its dos / maybelater      *)
(* flags, and a function is the sequence of its checks in the code's      *)
(* order: the first failing one is the result.  What the checks compute   *)
(* from bytes (proof of work, Merkle roots, the coinbase height prefix,  *)
(* the witness commitment) is abstracted to the block's set of defects.   *)
(***************************************************************************)
EXTENDS Naturals, Sequences, SequencesExt, FiniteSets

CONSTANTS
    Blocks,                 \* the candidate blocks: records, see BlockOK
    BIP34Height, BIP66Height, BIP65Height, BIP91Height,
    Enforce_CSV, Enforce_UAHF, Enforce_SEGWIT,
    SignalWindow,           \* the 2016 of line 311
    TxsBuilt                \* whether bl.Txs is already set on entry

\* The defects a block may have: each makes one check of the code fail.
Defects == {"short", "high-hash", "time-too-new", "genesis", "duplicate",
            "no-parent", "too-deep", "bad-diffbits", "time-too-old",
            "build", "weight", "cb-missing", "cb-height", "cb-multiple",
            "mutated", "merkle", "witness-data", "txs", "lock-mtp"}
Commitments == {"none", "bad-nonce", "mismatch", "ok"}

NoError == [fails |-> FALSE, er |-> "none", dos |-> FALSE, later |-> FALSE]

BlockOK(b) ==
    /\ b.d \subseteq Defects /\ b.commit \in Commitments
    /\ b.ver \in Nat /\ b.h \in Nat /\ b.t16 \in BOOLEAN /\ b.trusted \in BOOLEAN
ASSUME \A b \in Blocks : BlockOK(b)

VARIABLES
    blk,        \* the block under check
    pc,         \* "pre", "post", "done"
    er, dos, maybelater,
    flags,      \* bl.VerifyFlags
    txs         \* bl.Txs # nil

vars == <<blk, pc, er, dos, maybelater, flags, txs>>

\* An early return: the check fails when cond holds.
Chk(cond, e, isDos, isLater) ==
    [fails |-> cond, er |-> e, dos |-> isDos, later |-> isLater]

\* The result of a sequence of early returns: the first failing check.
FirstFailing(checks) ==
    LET k == SelectInSeq(checks, LAMBDA c : c.fails) IN
    IF k = 0 THEN NoError ELSE checks[k]

\* (ver&0xE0000000) == 0x20000000 && (ver&2) != 0, on a uint32.
SignalsSegwit(ver) == ver \div 2^29 = 1 /\ (ver \div 2) % 2 = 1

\* Lines 300-308: the version each soft fork demands from its height on.
VersionTooLow(b) ==
    \/ b.ver < 2 /\ b.h >= BIP34Height
    \/ b.ver < 3 /\ b.h >= BIP66Height
    \/ b.ver < 4 /\ b.h >= BIP65Height

\* Lines 310-316: inside the signalling window the block must signal.
MissingSignal(b) ==
    /\ BIP91Height # 0 /\ Enforce_SEGWIT # 0
    /\ b.h >= BIP91Height /\ b.h < Enforce_SEGWIT - SignalWindow
    /\ ~SignalsSegwit(b.ver)

\* PreCheckBlock, lines 220-319, in the code's order.
PreChecks(b) ==
    << Chk("short" \in b.d, "bad-blk-length", TRUE, FALSE),
       Chk(b.ver = 0, "bad-version", TRUE, FALSE),
       Chk("high-hash" \in b.d, "high-hash", TRUE, FALSE),
       Chk("time-too-new" \in b.d, "time-too-new", TRUE, FALSE),
       Chk("genesis" \in b.d, "genesis", FALSE, FALSE),
       Chk("duplicate" \in b.d, "duplicate", FALSE, FALSE),
       Chk("no-parent" \in b.d, "bad-prevblk", FALSE, TRUE),
       Chk("too-deep" \in b.d, "too-deep", FALSE, FALSE),
       Chk("bad-diffbits" \in b.d, "bad-diffbits", TRUE, FALSE),
       Chk("time-too-old" \in b.d, "time-too-old", TRUE, FALSE),
       Chk(VersionTooLow(b), "bad-version", TRUE, FALSE),
       Chk(MissingSignal(b), "bad-no-segwit", FALSE, FALSE) >>

\* Mutant: CSV from the height after Enforce_CSV.
ApplyBlockFlagsCsvLate(h, t16) ==
    (IF t16 THEN {"P2SH"} ELSE {})
    \cup (IF h >= BIP66Height THEN {"DERSIG"} ELSE {})
    \cup (IF h >= BIP65Height THEN {"CLTV"} ELSE {})
    \cup (IF Enforce_CSV # 0 /\ h > Enforce_CSV THEN {"CSV"} ELSE {})
    \cup (IF Enforce_UAHF # 0 /\ h > Enforce_UAHF THEN {"UAHF", "STRICTENC"} ELSE {})
    \cup (IF Enforce_SEGWIT # 0 /\ h >= Enforce_SEGWIT THEN {"WITNESS", "NULLDUMMY"} ELSE {})

\* ApplyBlockFlags, lines 321-359: the script flags in force for a block
\* of height h, its time past BIP16SwitchTime or not.
ApplyBlockFlags(h, t16) ==
    (IF t16 THEN {"P2SH"} ELSE {})
    \cup (IF h >= BIP66Height THEN {"DERSIG"} ELSE {})
    \cup (IF h >= BIP65Height THEN {"CLTV"} ELSE {})
    \cup (IF Enforce_CSV # 0 /\ h >= Enforce_CSV THEN {"CSV"} ELSE {})
    \cup (IF Enforce_UAHF # 0 /\ h > Enforce_UAHF THEN {"UAHF", "STRICTENC"} ELSE {})
    \cup (IF Enforce_SEGWIT # 0 /\ h >= Enforce_SEGWIT THEN {"WITNESS", "NULLDUMMY"} ELSE {})

\* Lines 428-481 for an untrusted block under flags fl: the witness
\* commitment (when the witness rule is on and the coinbase has one), the
\* stray witness data check, then CheckTransactions with the median time
\* past as block time once CSV is on (a lock time between the two is
\* final at the block's own time only).
BodyChecks(b, fl) ==
    LET hadWitness == "WITNESS" \in fl /\ b.commit = "ok" IN
    << Chk("WITNESS" \in fl /\ b.commit = "bad-nonce", "bad-witness-nonce-size", TRUE, FALSE),
       Chk("WITNESS" \in fl /\ b.commit = "mismatch", "bad-witness-merkle-match", TRUE, FALSE),
       Chk(~hadWitness /\ "witness-data" \in b.d, "unexpected-witness", TRUE, FALSE),
       Chk("txs" \in b.d \/ ("lock-mtp" \in b.d /\ "CSV" \in fl), "bad-txns", TRUE, FALSE) >>

\* PostCheckBlock, lines 361-426, up to ApplyBlockFlags; the weight is
\* checked only when the transaction list is built here (lines 368-377).
PostChecks(b, built) ==
    << Chk("short" \in b.d, "bad-blk-length", TRUE, FALSE),
       Chk(~built /\ "build" \in b.d, "build", TRUE, FALSE),
       Chk(~built /\ "weight" \in b.d, "bad-blk-weight", TRUE, FALSE),
       Chk(~b.trusted /\ "cb-missing" \in b.d, "bad-cb-missing", TRUE, FALSE),
       Chk(~b.trusted /\ b.h >= BIP34Height /\ "cb-height" \in b.d, "bad-cb-height", TRUE, FALSE),
       Chk(~b.trusted /\ "cb-multiple" \in b.d, "bad-cb-multiple", TRUE, FALSE),
       Chk("mutated" \in b.d, "bad-txns-duplicate", TRUE, FALSE),
       Chk("merkle" \in b.d, "bad-txnmrklroot", TRUE, FALSE) >>

Init ==
    /\ blk \in Blocks
    /\ txs \in TxsBuilt
    /\ txs => "build" \notin blk.d      \* a built list was decoded
    /\ pc = "pre"
    /\ er = "none" /\ dos = FALSE /\ maybelater = FALSE
    /\ flags = {}

\* CheckBlock, line 485: PreCheckBlock.
PreCheck ==
    LET r == FirstFailing(PreChecks(blk)) IN
    /\ pc = "pre"
    /\ er' = r.er /\ dos' = r.dos /\ maybelater' = r.later
    /\ pc' = IF r.fails THEN "done" ELSE "post"
    /\ UNCHANGED <<blk, flags, txs>>

\* CheckBlock, lines 486-491: PostCheckBlock, all of whose errors are
\* DoS.  BuildTxList sets bl.Txs (unless the length check returns first).
\* A block failing a check before line 427 keeps its flags.
PostCheck ==
    LET r == FirstFailing(PostChecks(blk, txs))
        fl == ApplyBlockFlags(blk.h, blk.t16)
        rb == IF blk.trusted THEN NoError ELSE FirstFailing(BodyChecks(blk, fl))
    IN
    /\ pc = "post"
    /\ txs' = (txs \/ "short" \notin blk.d)
    /\ \/ /\ r.fails
          /\ er' = r.er /\ dos' = TRUE
          /\ UNCHANGED flags
       \/ /\ ~r.fails
          /\ flags' = fl
          /\ er' = rb.er /\ dos' = rb.fails
    /\ pc' = "done"
    /\ UNCHANGED <<blk, maybelater>>

\* CheckBlock has returned.
Returned == pc = "done" /\ UNCHANGED vars

Next == PreCheck \/ PostCheck \/ Returned

Spec == Init /\ [][Next]_vars

-----------------------------------------------------------------------------
\* The consensus rules of spec §4.1 a block must meet, stated as one set
\* of conditions with no order: the header rules, the soft-fork version
\* and signalling rules at the block's height, the body rules (coinbase
\* rules only for untrusted blocks), and for an untrusted block the
\* witness commitment once the witness rule is on, no stray witness
\* data, and transactions final at the time CSV selects.
Valid(b) ==
    /\ b.d \cap {"short", "high-hash", "time-too-new", "genesis", "duplicate",
                 "no-parent", "too-deep", "bad-diffbits", "time-too-old",
                 "build", "weight", "mutated", "merkle"} = {}
    /\ b.ver # 0 /\ ~VersionTooLow(b) /\ ~MissingSignal(b)
    /\ ~b.trusted =>
          LET witnessOn == Enforce_SEGWIT # 0 /\ b.h >= Enforce_SEGWIT
              csvOn == Enforce_CSV # 0 /\ b.h >= Enforce_CSV
          IN
          /\ {"cb-missing", "cb-multiple", "txs"} \cap b.d = {}
          /\ b.h >= BIP34Height => "cb-height" \notin b.d
          /\ witnessOn => b.commit \in {"none", "ok"}
          /\ ~(witnessOn /\ b.commit = "ok") => "witness-data" \notin b.d
          /\ csvOn => "lock-mtp" \notin b.d

\* CheckBlock (PreCheckBlock, PostCheckBlock, ApplyBlockFlags and the
\* flags-dependent body checks together) accepts exactly the valid
\* blocks, whatever their defects, height, version and trust.
AcceptsExactlyValid == pc = "done" => (er = "none" <=> Valid(blk))

=============================================================================
