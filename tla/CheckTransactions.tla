-------------------------- MODULE CheckTransactions --------------------------
(***************************************************************************)
(* CheckTransactions (lib/bch_chain/bch_chain_accept.go:353-394).  The    *)
(* caller starts one goroutine per transaction while the one-slot         *)
(* res_chan is empty; each goroutine returns early if an error is already *)
(* in the channel (before and after tx.CheckTransaction()), otherwise     *)
(* adds the finality check and offers its error with a non-blocking send. *)
(* The caller waits on the WaitGroup and returns what the channel holds. *)
(*                                                                         *)
(* The verdict of CheckTransaction and IsFinal on each transaction is     *)
(* data chosen in Init; an error is named by its transaction's index.     *)
(***************************************************************************)
EXTENDS Naturals, Sequences

CONSTANTS
    N,          \* len(txs)
    None        \* the nil error

Txs == 1..N
Verdicts == {"ok", "invalid", "nonfinal"}

VARIABLES
    verdict,    \* what CheckTransaction / IsFinal say of each transaction
    pc,         \* the caller: "loop", "wait", "done"
    k,          \* the loop index i, 1-based
    gpc,        \* each goroutine: "none", "entry", "checked", "send", "exit"
    gerr,       \* the error er a goroutine holds
    res_chan,   \* the buffered channel of capacity 1
    res

vars == <<verdict, pc, k, gpc, gerr, res_chan, res>>

Init ==
    /\ verdict \in [Txs -> Verdicts]
    /\ pc = "loop" /\ k = 1
    /\ gpc = [t \in Txs |-> "none"]
    /\ gerr = [t \in Txs |-> None]
    /\ res_chan = <<>>
    /\ res = None

\* Lines 358-385: wg.Add(1) and start the goroutine for txs[k].
Spawn ==
    /\ pc = "loop" /\ Len(res_chan) = 0 /\ k <= N
    /\ gpc' = [gpc EXCEPT ![k] = "entry"]
    /\ k' = k + 1
    /\ UNCHANGED <<verdict, pc, gerr, res_chan, res>>

\* Line 358: the loop stops once an error is in the channel or all are out.
EndLoop ==
    /\ pc = "loop" /\ (Len(res_chan) > 0 \/ k > N)
    /\ pc' = "wait"
    /\ UNCHANGED <<verdict, k, gpc, gerr, res_chan, res>>

\* Mutation: the channel is read without waiting on the WaitGroup.
ReturnNoWait ==
    /\ pc = "wait"
    /\ pc' = "done"
    /\ IF Len(res_chan) > 0
       THEN res' = Head(res_chan) /\ res_chan' = Tail(res_chan)
       ELSE UNCHANGED <<res, res_chan>>
    /\ UNCHANGED <<verdict, k, gpc, gerr>>

\* Lines 387-391: wg.Wait(), then take the error if there is one.
Return ==
    /\ pc = "wait"
    /\ \A t \in Txs : gpc[t] \in {"none", "exit"}
    /\ pc' = "done"
    /\ IF Len(res_chan) > 0
       THEN res' = Head(res_chan) /\ res_chan' = Tail(res_chan)
       ELSE UNCHANGED <<res, res_chan>>
    /\ UNCHANGED <<verdict, k, gpc, gerr>>

GoTo(t, l) == gpc' = [gpc EXCEPT ![t] = l]

\* Lines 364-366: return at once if a parallel error is reported.
Enter(t) ==
    /\ gpc[t] = "entry"
    /\ GoTo(t, IF Len(res_chan) > 0 THEN "exit" ELSE "checked")
    /\ UNCHANGED <<verdict, pc, k, gerr, res_chan, res>>

\* Lines 368-376: tx.CheckTransaction(), the second early return, then
\* tx.IsFinal() when the transaction passed.
Check(t) ==
    /\ gpc[t] = "checked"
    /\ GoTo(t, IF Len(res_chan) > 0 THEN "exit" ELSE "send")
    /\ gerr' = [gerr EXCEPT ![t] = IF verdict[t] = "ok" THEN None ELSE t]
    /\ UNCHANGED <<verdict, pc, k, res_chan, res>>

\* Mutation: every error is queued, as with a channel of len(txs) slots.
SendQueued(t) ==
    /\ gpc[t] = "send"
    /\ GoTo(t, "exit")
    /\ res_chan' = IF gerr[t] # None THEN Append(res_chan, gerr[t]) ELSE res_chan
    /\ UNCHANGED <<verdict, pc, k, gerr, res>>

\* Lines 378-383: the non-blocking send; a full channel drops the error.
Send(t) ==
    /\ gpc[t] = "send"
    /\ GoTo(t, "exit")
    /\ res_chan' = IF gerr[t] # None /\ Len(res_chan) = 0
                   THEN Append(res_chan, gerr[t]) ELSE res_chan
    /\ UNCHANGED <<verdict, pc, k, gerr, res>>

Returned == pc = "done" /\ UNCHANGED vars

Next ==
    \/ Spawn \/ EndLoop \/ Return
    \/ \E t \in Txs : Enter(t) \/ Check(t) \/ Send(t)
    \/ Returned

Spec == Init /\ [][Next]_vars

-----------------------------------------------------------------------------
TypeOK ==
    /\ verdict \in [Txs -> Verdicts]
    /\ pc \in {"loop", "wait", "done"} /\ k \in 1..N + 1
    /\ gpc \in [Txs -> {"none", "entry", "checked", "send", "exit"}]
    /\ res_chan \in Seq(Txs) /\ Len(res_chan) <= 1
    /\ res \in Txs \cup {None}

\* Whatever order the goroutines run in, and however many of them find an
\* error, the call returns nil exactly when every transaction passes both
\* checks, and otherwise the error of a transaction that really failed.
ResultCorrect ==
    pc = "done" =>
        /\ (res = None) <=> (\A t \in Txs : verdict[t] = "ok")
        /\ res # None => verdict[res] # "ok"
=============================================================================
