----------------------------- MODULE WalletOnOff -----------------------------
(***************************************************************************)
(* Switching the wallet's balance tracking on and off                     *)
(* (client/wallet/onoff.go) while blocks are committed to the UTXO set.   *)
(*                                                                         *)
(* LoadBalance fills the AllBalances maps from a scan of the UTXO hash   *)
(* map under Unspent.RWMutex.RLock, then installs the NotifyTxAdd /       *)
(* NotifyTxDel callbacks through which later commits keep them current.   *)
(* Disable removes the callbacks and empties the maps.  The committer is  *)
(* the UTXO database's CommitBlockTxs: under RWMutex.Lock it adds or       *)
(* spends an output and calls the callbacks that are installed.  The maps *)
(* are abstracted to the set of outputs they record; NewUTXO and the       *)
(* callbacks record an output of value at least AllBalMinVal (Relevant).  *)
(***************************************************************************)
EXTENDS Naturals

CONSTANTS
    Outs,           \* outputs that may exist
    Relevant        \* those of value >= common.AllBalMinVal()

VARIABLES
    utxo,           \* Unspent.HashMap
    bal,            \* the AllBalances maps
    walletOn,       \* common.WalletON
    notifyAdd,      \* Unspent.CB.NotifyTxAdd is TxNotifyAdd
    notifyDel,      \* Unspent.CB.NotifyTxDel is TxNotifyDel
    readers,        \* RLocks held on Unspent.RWMutex
    lpc,            \* LoadBalance: "idle", "scan", "finish", "runlock"
    toScan,         \* the part of the map range not visited yet
    aborted

vars == <<utxo, bal, walletOn, notifyAdd, notifyDel, readers, lpc, toScan,
          aborted>>

Init ==
    /\ utxo \in SUBSET Outs
    /\ bal = {}
    /\ walletOn = FALSE /\ notifyAdd = FALSE /\ notifyDel = FALSE
    /\ readers = 0
    /\ lpc = "idle" /\ toScan = {} /\ aborted = FALSE

\* NewUTXO, TxNotifyAdd: an output of a tracked value enters the maps.
Record(b, o) == IF o \in Relevant THEN b \cup {o} ELSE b

-----------------------------------------------------------------------------
\* Lines 115-128: with the wallet on, return.  Otherwise InitMaps(false)
\* empties the maps, and RLock is taken (a commit holding Lock is atomic
\* here, so RLock always succeeds); the range starts over the whole map.
LoadBalanceStart ==
    /\ lpc = "idle"
    /\ \/ walletOn /\ UNCHANGED vars
       \/ /\ ~walletOn
          /\ bal' = {}
          /\ readers' = readers + 1
          /\ toScan' = utxo
          /\ lpc' = IF utxo = {} THEN "finish" ELSE "scan"
          /\ aborted' = FALSE
          /\ UNCHANGED <<utxo, walletOn, notifyAdd, notifyDel>>

\* Lines 134-147: one record of the range goes to NewUTXO; then
\* FetchingBalanceTick may report that the user asked to stop.
LoadBalanceScan ==
    /\ lpc = "scan" /\ toScan # {}
    /\ \E o \in toScan :
        /\ bal' = Record(bal, o)
        /\ toScan' = toScan \ {o}
    /\ \E stop \in BOOLEAN :
        /\ aborted' = stop
        /\ lpc' = IF stop \/ toScan' = {} THEN "finish" ELSE "scan"
    /\ UNCHANGED <<utxo, walletOn, notifyAdd, notifyDel, readers>>

\* Mutant: only NotifyTxAdd is installed.
LoadBalanceFinishAddOnly ==
    /\ lpc = "finish"
    /\ \/ aborted /\ bal' = {} /\ UNCHANGED <<walletOn, notifyAdd, notifyDel>>
       \/ ~aborted /\ notifyAdd' = TRUE /\ walletOn' = TRUE
          /\ UNCHANGED <<bal, notifyDel>>
    /\ lpc' = "runlock"
    /\ UNCHANGED <<utxo, readers, toScan, aborted>>

\* Lines 148-155, still under RLock: an aborted scan empties the maps
\* (InitMaps(true)); a complete one installs both callbacks and turns
\* WalletON on.  (The progress counter only feeds the UI.)
LoadBalanceFinish ==
    /\ lpc = "finish"
    /\ \/ aborted /\ bal' = {} /\ UNCHANGED <<walletOn, notifyAdd, notifyDel>>
       \/ ~aborted /\ notifyAdd' = TRUE /\ notifyDel' = TRUE /\ walletOn' = TRUE
          /\ UNCHANGED bal
    /\ lpc' = "runlock"
    /\ UNCHANGED <<utxo, readers, toScan, aborted>>

\* The deferred RUnlock of line 128 runs on return.
LoadBalanceReturn ==
    /\ lpc = "runlock"
    /\ readers' = readers - 1
    /\ lpc' = "idle"
    /\ UNCHANGED <<utxo, bal, walletOn, notifyAdd, notifyDel, toScan, aborted>>

\* Lines 158-167: with the wallet off, return; otherwise remove the
\* callbacks, turn WalletON off and empty the maps (UpdateMapSizes only
\* writes the map sizes to a file).
Disable ==
    /\ lpc = "idle"
    /\ \/ ~walletOn /\ UNCHANGED vars
       \/ /\ walletOn
          /\ notifyAdd' = FALSE /\ notifyDel' = FALSE /\ walletOn' = FALSE
          /\ bal' = {}
          /\ UNCHANGED <<utxo, readers, lpc, toScan, aborted>>

\* The UTXO database commits a block under RWMutex.Lock, which waits for
\* every RLock: an output is added or spent, and the installed callback
\* is told.
Commit ==
    /\ readers = 0
    /\ \E o \in Outs :
        \/ /\ o \notin utxo
           /\ utxo' = utxo \cup {o}
           /\ bal' = IF notifyAdd THEN Record(bal, o) ELSE bal
        \/ /\ o \in utxo
           /\ utxo' = utxo \ {o}
           /\ bal' = IF notifyDel THEN bal \ {o} ELSE bal
    /\ UNCHANGED <<walletOn, notifyAdd, notifyDel, readers, lpc, toScan, aborted>>

Next ==
    \/ LoadBalanceStart \/ LoadBalanceScan \/ LoadBalanceFinish
    \/ LoadBalanceReturn \/ Disable \/ Commit

Spec == Init /\ [][Next]_vars

-----------------------------------------------------------------------------
\* While WalletON is set, the balance maps record exactly the tracked
\* outputs of the UTXO set: the scan under RLock and the callbacks
\* installed before RUnlock miss no commit and keep no spent output.
WalletConsistent == walletOn => bal = utxo \cap Relevant
=============================================================================
