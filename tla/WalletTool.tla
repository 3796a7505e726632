------------------------------ MODULE WalletTool ------------------------------
(***************************************************************************)
(* The balance folder of the offline wallet tool (src/wallet/unspent.go). *)
(* balance/unspent.txt lists the outputs the wallet can spend, one line   *)
(* each.  A run of the tool loads it into unspentOuts (load_balance);     *)
(* signing a transaction marks the outputs it spends (code outside src/, *)
(* an environment action here); apply_to_balance then truncates the file, *)
(* appends the new transaction's outputs that pay one of the wallet's     *)
(* keys to unspentOuts, and writes back every record not marked spent,    *)
(* one line per Fprintln, ignoring its error.                             *)
(*                                                                         *)
(* The fault model: the process may die at any point while the file is    *)
(* being rewritten (a crash, a kill, a power cut); its memory is lost and *)
(* the next run loads whatever the file holds.  A line is an output (a    *)
(* model value for its txid-vout) or Bad, a line NewUnspRec cannot parse. *)
(* owned is a history variable: the outputs the file has listed and the   *)
(* wallet still owns: those of the file it started from and of every     *)
(* rewrite that completed, less the outputs a signed transaction spent.  *)
(* An output joins it only when the rewrite listing it is closed, so a    *)
(* rewrite that is atomic (a new file renamed over the old) satisfies     *)
(* FileKeepsUnspent whenever it is interrupted.                           *)
(***************************************************************************)
EXTENDS Naturals, Sequences, SequencesExt

CONSTANTS
    Outs,       \* outputs (txid-vout)
    Held,       \* the outputs unspent.txt may list when the model starts
    Bad,        \* an unparsable line of unspent.txt
    Keyed,      \* outputs whose pkscript pkscr_to_key maps to a wallet key
    Txs,        \* transactions the tool may sign
    TxOuts,     \* TxOuts[t]: the outputs of t, in order
    MaxRuns     \* bound on the runs of the tool

ASSUME Held \cup Keyed \subseteq Outs /\ Bad \notin Outs

VARIABLES
    file,       \* the lines of balance/unspent.txt
    mem,        \* unspentOuts: a sequence of [out, spent]
    pc,         \* "down", "ready", "writing", "done"
    j,          \* apply_to_balance's write loop index
    runs,       \* runs of the tool started
    owned       \* history: the outputs the wallet should list

vars == <<file, mem, pc, j, runs, owned>>

\* NewUnspRec, lines 103-127: nil for a line it cannot parse.
IsRec(l) == l # Bad

\* Lines 193-201: the outputs of t that pkscr_to_key maps to a key.
NewRecs(t) ==
    LET keyed == SelectSeq(TxOuts[t], LAMBDA o : o \in Keyed)
    IN [i \in 1..Len(keyed) |-> [out |-> keyed[i], spent |-> FALSE]]

Init ==
    /\ file \in {s \in SeqOf(Held \cup {Bad}, 3) : IsInjective(s)}
    /\ mem = <<>> /\ pc = "down" /\ j = 1 /\ runs = 0
    /\ owned = {file[i] : i \in {i \in DOMAIN file : IsRec(file[i])}}

\* load_balance, lines 130-152: a new run reads every line and keeps the
\* records that parse (the others are reported and skipped).
LoadBalance ==
    /\ pc = "down" /\ runs < MaxRuns
    /\ LET recs == SelectSeq(file, IsRec)
       IN mem' = [i \in 1..Len(recs) |-> [out |-> recs[i], spent |-> FALSE]]
    /\ pc' = "ready" /\ runs' = runs + 1
    /\ UNCHANGED <<file, j, owned>>

\* The signing code (outside src/) marks an input the new transaction
\* spends.
MarkSpent ==
    /\ pc = "ready"
    /\ \E i \in DOMAIN mem :
        /\ ~mem[i].spent
        /\ mem' = [mem EXCEPT ![i].spent = TRUE]
    /\ UNCHANGED <<file, pc, j, runs, owned>>

\* apply_to_balance, lines 187-202: os.Create truncates unspent.txt (or
\* fails, and the function only prints), then the new keyed outputs are
\* appended to unspentOuts.
ApplyToBalance ==
    /\ pc = "ready"
    /\ \E t \in Txs :
        \/ /\ file' = <<>>
           /\ mem' = mem \o NewRecs(t)
           /\ j' = 1 /\ pc' = "writing"
           /\ owned' = owned \ {mem[i].out : i \in {i \in DOMAIN mem : mem[i].spent}}
        \/ /\ pc' = "done"
           /\ UNCHANGED <<file, mem, j, owned>>
    /\ UNCHANGED runs

\* Lines 204-208: one record per step; Fprintln's error is not looked at,
\* so a failed write loses the line.
WriteRecord ==
    /\ pc = "writing" /\ j <= Len(mem)
    /\ \/ file' = IF mem[j].spent THEN file ELSE Append(file, mem[j].out)
       \/ file' = file
    /\ j' = j + 1
    /\ UNCHANGED <<mem, pc, runs, owned>>

\* Line 209: f.Close().  The file now lists the wallet's unspent outputs.
CloseFile ==
    /\ pc = "writing" /\ j > Len(mem)
    /\ pc' = "done"
    /\ owned' = owned \cup {mem[i].out : i \in {i \in DOMAIN mem : ~mem[i].spent}}
    /\ UNCHANGED <<file, mem, j, runs>>

\* The run ends (after applying, or without signing anything).
Exit ==
    /\ pc \in {"ready", "done"}
    /\ pc' = "down" /\ mem' = <<>>
    /\ UNCHANGED <<file, j, runs, owned>>

\* The process dies while rewriting the file; its memory is lost.
Crash ==
    /\ pc = "writing"
    /\ pc' = "down" /\ mem' = <<>>
    /\ UNCHANGED <<file, j, runs, owned>>

Next ==
    \/ LoadBalance \/ MarkSpent \/ ApplyToBalance \/ WriteRecord \/ CloseFile
    \/ Exit \/ Crash

Spec == Init /\ [][Next]_vars
-----------------------------------------------------------------------------
\* Whenever unspent.txt is not being rewritten, it still lists every
\* output it has listed that the wallet has not spent: an interrupted or
\* failed apply_to_balance loses none of the outputs the wallet held.
FileKeepsUnspent ==
    pc # "writing" => owned \subseteq {file[i] : i \in DOMAIN file}
====
