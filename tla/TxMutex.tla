------------------------------- MODULE TxMutex -------------------------------
(***************************************************************************)
(* The mempool commands of the text UI (client/usif/textui/              *)
(* transactions.go) against the network goroutines that share            *)
(* network.TxMutex and the map network.TransactionsToSend.                *)
(*                                                                         *)
(* A Go sync.Mutex has no owner: Unlock by anyone releases it, and Unlock *)
(* of an unlocked mutex is a fatal error that ends the process (crashed). *)
(* The UI is one goroutine running one command at a time.  The network    *)
(* goroutines are the environment: each may take TxMutex, write the map   *)
(* (a transaction arrives or leaves) and unlock.  A transaction is a model *)
(* value; printing, INV routing and file I/O change no state modelled.    *)
(***************************************************************************)
EXTENDS Naturals, FiniteSets

CONSTANTS
    Txids,          \* transaction ids the map may hold
    BadTxid,        \* a parameter NewUint256FromString rejects
    NetProcs        \* network goroutines taking TxMutex

\* The commands of init() that touch TxMutex or the map.
LockedReads == {"list_txs", "baned_txs", "send_all_tx", "check_txs"}
Commands == {"send_tx", "send1_tx", "del_tx", "dec_tx", "save_tx",
             "load_mempool"} \cup LockedReads

VARIABLES
    locked,         \* TxMutex is held
    pool,           \* the keys of TransactionsToSend
    crashed,        \* the process died of "unlock of unlocked mutex"
    upc, cmd, id,   \* the UI goroutine: where it is, the command, its txid
    deferUnlock,    \* del_tx's `defer TxMutex.Unlock()` is pending
    net,            \* per network goroutine: "idle", "held", "writing"
    abort, kill,    \* load_mempool's abort flag; a Ctrl+C in KillChan
    aborter         \* load_mempool's goroutine: "none", "select", "done"

vars == <<locked, pool, crashed, upc, cmd, id, deferUnlock, net, abort, kill,
          aborter>>

uiVars == <<upc, cmd, id, deferUnlock, abort, kill, aborter>>

Init ==
    /\ locked = FALSE
    /\ pool \in SUBSET Txids
    /\ crashed = FALSE
    /\ upc = "idle" /\ cmd = "none" /\ id = BadTxid
    /\ deferUnlock = FALSE
    /\ net = [p \in NetProcs |-> "idle"]
    /\ abort = FALSE /\ kill = FALSE /\ aborter = "none"

\* sync.Mutex.Unlock: releases the mutex whoever took it; on an unlocked
\* mutex the runtime throws and the process ends.
Unlock ==
    /\ locked' = FALSE
    /\ crashed' = ~locked

-----------------------------------------------------------------------------
\* The user types a command.  A txid that does not parse prints the list
\* (lines 109-112 and the same lines of send1_tx, del_tx, dec_tx, save_tx).
StartCommand ==
    /\ upc = "idle"
    /\ \E c \in Commands, t \in Txids \cup {BadTxid} :
        /\ cmd' = c /\ id' = t
        /\ upc' = CASE c \in LockedReads                 -> "lock"
                    [] c = "load_mempool"                -> "load"
                    [] t = BadTxid                       -> "list_lock"
                    [] c \in {"dec_tx", "save_tx"}       -> "read"
                    [] OTHER                             -> "lock"
        /\ aborter' = IF c = "load_mempool" THEN "select" ELSE aborter
        /\ abort' = IF c = "load_mempool" THEN FALSE ELSE abort
    /\ UNCHANGED <<locked, pool, crashed, deferUnlock, net, kill>>

\* TxMutex.Lock() of send_tx (114), send1_tx (135), del_tx (156-157, with
\* its deferred Unlock), list_txs (208), baned_txs (248), send_all_tx
\* (258), check_txs (274).
LockTxMutex ==
    /\ upc = "lock" /\ ~locked
    /\ locked' = TRUE
    /\ upc' = "cs"
    /\ deferUnlock' = (cmd = "del_tx")
    /\ UNCHANGED <<pool, crashed, cmd, id, net, abort, kill, aborter>>

\* send_tx and send1_tx: look the txid up and unlock; the INV goes out
\* after the unlock; an unknown txid prints the list.
SendTx ==
    /\ upc = "cs" /\ cmd \in {"send_tx", "send1_tx"}
    /\ Unlock
    /\ upc' = IF id \in pool THEN "idle" ELSE "list_lock"
    /\ UNCHANGED <<pool, cmd, id, deferUnlock, net, abort, kill, aborter>>

\* Mutant: line 160 dropped, so list_txs is called with TxMutex held.
DelTxKeepLock ==
    /\ upc = "cs" /\ cmd = "del_tx"
    /\ \/ /\ id \in pool
          /\ pool' = pool \ {id}
          /\ Unlock
          /\ upc' = "idle" /\ deferUnlock' = FALSE
       \/ /\ id \notin pool
          /\ upc' = "list_lock"
          /\ UNCHANGED <<pool, deferUnlock, locked, crashed>>
    /\ UNCHANGED <<cmd, id, net, abort, kill, aborter>>

\* del_tx: a known txid is deleted and the deferred Unlock runs on
\* return; an unknown one is unlocked at line 160, the list printed, and
\* the deferred Unlock still runs on return.
DelTx ==
    /\ upc = "cs" /\ cmd = "del_tx"
    /\ \/ /\ id \in pool
          /\ pool' = pool \ {id}
          /\ Unlock
          /\ upc' = "idle" /\ deferUnlock' = FALSE
       \/ /\ id \notin pool
          /\ Unlock
          /\ upc' = "list_lock"
          /\ UNCHANGED <<pool, deferUnlock>>
    /\ UNCHANGED <<cmd, id, net, abort, kill, aborter>>

\* baned_txs, send_all_tx, check_txs and list_txs as a command: read
\* under the lock and unlock.
ReadUnderLock ==
    /\ upc = "cs" /\ cmd \in LockedReads
    /\ Unlock
    /\ upc' = "idle"
    /\ UNCHANGED <<pool, cmd, id, deferUnlock, net, abort, kill, aborter>>

\* list_txs called after a failed lookup: Lock, defer Unlock, read.
ListLock ==
    /\ upc = "list_lock" /\ ~locked
    /\ locked' = TRUE
    /\ upc' = "list_cs"
    /\ UNCHANGED <<pool, crashed, cmd, id, deferUnlock, net, abort, kill, aborter>>

\* list_txs returns: its deferred Unlock; then its caller returns, running
\* del_tx's own deferred Unlock if one is pending.
ListReturn ==
    /\ upc = "list_cs"
    /\ Unlock
    /\ upc' = IF deferUnlock THEN "defer" ELSE "idle"
    /\ UNCHANGED <<pool, cmd, id, deferUnlock, net, abort, kill, aborter>>

DeferredUnlock ==
    /\ upc = "defer"
    /\ Unlock
    /\ upc' = "idle" /\ deferUnlock' = FALSE
    /\ UNCHANGED <<pool, cmd, id, net, abort, kill, aborter>>

\* dec_tx and save_tx read TransactionsToSend without TxMutex.
UnlockedRead ==
    /\ upc = "read"
    /\ upc' = "idle"
    /\ UNCHANGED <<locked, pool, crashed, cmd, id, deferUnlock, net, abort,
                   kill, aborter>>

-----------------------------------------------------------------------------
\* load_mempool: the goroutine started at line 286 selects on KillChan and
\* __exit; MempoolLoadNew polls abort and returns, early if it was set.
Kill ==
    /\ aborter = "select" /\ ~kill
    /\ kill' = TRUE
    /\ UNCHANGED <<locked, pool, crashed, upc, cmd, id, deferUnlock, net,
                   abort, aborter>>

AborterKill ==
    /\ aborter = "select" /\ kill
    /\ abort' = TRUE /\ kill' = FALSE
    /\ UNCHANGED <<locked, pool, crashed, upc, cmd, id, deferUnlock, net,
                   aborter>>

LoadReturns ==
    /\ upc = "load"
    /\ upc' = "exit"
    /\ UNCHANGED <<locked, pool, crashed, cmd, id, deferUnlock, net, abort,
                   kill, aborter>>

\* `__exit <- true` (line 300) meets the goroutine's select, which then
\* blocks on `__done <- true`.
SendExit ==
    /\ upc = "exit" /\ aborter = "select"
    /\ aborter' = "done" /\ upc' = "done_wait"
    /\ UNCHANGED <<locked, pool, crashed, cmd, id, deferUnlock, net, abort, kill>>

\* `<-__done` (line 301): the goroutine returns, and so does the command.
ReceiveDone ==
    /\ upc = "done_wait" /\ aborter = "done"
    /\ aborter' = "none" /\ upc' = "idle"
    /\ UNCHANGED <<locked, pool, crashed, cmd, id, deferUnlock, net, abort, kill>>

-----------------------------------------------------------------------------
\* The network goroutines: take TxMutex, add or remove a transaction,
\* unlock.
NetLock(p) ==
    /\ net[p] = "idle" /\ ~locked
    /\ locked' = TRUE /\ net' = [net EXCEPT ![p] = "held"]
    /\ UNCHANGED <<pool, crashed, uiVars>>

NetWrite(p) ==
    /\ net[p] = "held"
    /\ \E t \in Txids : pool' \in {pool \cup {t}, pool \ {t}}
    /\ net' = [net EXCEPT ![p] = "writing"]
    /\ UNCHANGED <<locked, crashed, uiVars>>

NetUnlock(p) ==
    /\ net[p] = "writing"
    /\ Unlock
    /\ net' = [net EXCEPT ![p] = "idle"]
    /\ UNCHANGED <<pool, uiVars>>

Net(p) == NetLock(p) \/ NetWrite(p) \/ NetUnlock(p)

UiStep == LockTxMutex \/ SendTx \/ DelTx \/ ReadUnderLock \/ ListLock
          \/ ListReturn \/ DeferredUnlock \/ UnlockedRead \/ LoadReturns
          \/ SendExit \/ ReceiveDone

\* The process is gone after a fatal error.
Next ==
    /\ ~crashed
    /\ \/ StartCommand \/ UiStep \/ Kill \/ AborterKill
       \/ \E p \in NetProcs : Net(p)

\* Go runs every runnable goroutine, and a sync.Mutex waiter starved for
\* over 1 ms is handed the lock, so taking TxMutex is strongly fair; a
\* select with several ready cases picks one at random, so each is taken
\* eventually.  The user need not type, and the network need not lock.
Live(A) == ~crashed /\ A

Fairness ==
    /\ WF_vars(Live(SendTx)) /\ WF_vars(Live(DelTx)) /\ WF_vars(Live(ReadUnderLock))
    /\ WF_vars(Live(ListReturn)) /\ WF_vars(Live(DeferredUnlock))
    /\ WF_vars(Live(UnlockedRead)) /\ WF_vars(Live(LoadReturns))
    /\ WF_vars(Live(SendExit)) /\ WF_vars(Live(ReceiveDone)) /\ WF_vars(Live(AborterKill))
    /\ SF_vars(Live(LockTxMutex)) /\ SF_vars(Live(ListLock))
    /\ \A p \in NetProcs : WF_vars(Live(NetWrite(p) \/ NetUnlock(p)))

Spec == Init /\ [][Next]_vars /\ Fairness

-----------------------------------------------------------------------------
\* Goroutines inside a TxMutex critical section, by their own control flow.
Holders ==
    {p \in NetProcs : net[p] \in {"held", "writing"}}
    \cup (IF upc \in {"cs", "list_cs"} THEN {"ui"} ELSE {})

\* TxMutex serialises the mempool: no two goroutines are ever inside their
\* critical sections at once (del_tx, list_txs and the network writers).
MutualExclusion == Cardinality(Holders) <= 1

\* Every command the user types returns (or the process has died): the UI
\* never waits on TxMutex forever, neither on itself nor on the network,
\* and load_mempool's handshake with its goroutine completes.
CommandsReturn == upc # "idle" ~> (upc = "idle" \/ crashed)
=============================================================================
