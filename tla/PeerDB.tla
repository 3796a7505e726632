-------------------------------- MODULE PeerDB --------------------------------
(***************************************************************************)
(* The peer address database (lib/others/peersdb/peerdb.go): a qdb       *)
(* key-value store of PeerAddr records, each a last-seen Time and a       *)
(* Banned stamp, written by Save from several goroutines, and read and    *)
(* pruned by GetBestPeers and ExpirePeers under peerdb_mutex.             *)
(*                                                                         *)
(* A peer is a model value (its IP:port key, UniqID); a record is          *)
(* [time, banned].  Time is in scaled units: ExpireAfter for the 24 hours *)
(* of ExpirePeerAfter, FutureSlack for the 3600 s of line 196, SaveEvery  *)
(* for the 60 s of Alive, DeadAge for the 600 s of Dead.  The Unix times  *)
(* of a running node are far from 0 and 2^32, so no uint32 wrap is        *)
(* modelled.  qdb serialises single Get, Put, Del and Browse calls, so    *)
(* each is one step.  Connections are the callers' in-memory PeerAddr    *)
(* copies (network code outside this file): they are opened from a       *)
(* GetBestPeers result and call Alive, Dead and Ban on their copy.        *)
(***************************************************************************)
EXTENDS Naturals, Integers, FiniteSets, Sequences, SequencesExt

CONSTANTS
    Peers,          \* peer keys
    Blocked,        \* peers sys.IsIPBlocked rejects (all pass sys.ValidIp4)
    Conns,          \* connection slots of the network code
    NoPeer,         \* a free connection slot
    MinPeersInDB,   \* do not expire below this many records
    Limit,          \* GetBestPeers' limit argument
    Seeds,          \* the addresses initSeeds' DNS lookups return
    Proxies,        \* the addresses ConnectOnly may name
    ExpireAfter, FutureSlack, SaveEvery, DeadAge,
    MaxTime,        \* bound on the clock
    TimeFloor       \* bound on how far Dead may age a record

ASSUME MinPeersInDB \in Nat /\ Limit \in Nat /\ Blocked \cup Seeds \cup Proxies \subseteq Peers

Times == TimeFloor..MaxTime
Rec == [time : Times, banned : BOOLEAN]

VARIABLES
    now,            \* time.Now()
    db,             \* PeerDB: key -> record
    mutexFree,      \* peerdb_mutex is not held
    expPc, todel,   \* ExpirePeers: "idle", "count", "del" or "panic"; the
                    \* keys it collected and has still to delete
    expCnt, expNow, \* ExpirePeers' len(todel) (Count() at line 193) and now
    best,           \* the last GetBestPeers result: a sequence of copies
    conn,           \* per slot: NoPeer or the connection's PeerAddr copy
    upc, uiPeer,    \* NewPeerFromString: "idle" or "save"; its peer
    seedsLeft,      \* initSeeds: the addresses it has still to save
    proxyPeer       \* NoPeer, or the PeerAddr ConnectOnly names

vars == <<now, db, mutexFree, expPc, todel, expCnt, expNow, best, conn, upc, uiPeer, seedsLeft,
          proxyPeer>>

\* A PeerAddr in memory: the key with a copy of its record.
Addr == [peer : Peers, time : Times, banned : BOOLEAN]

TypeOK ==
    /\ now \in 0..MaxTime
    /\ \E D \in SUBSET Peers : db \in [D -> Rec]
    /\ mutexFree \in BOOLEAN /\ expPc \in {"idle", "count", "del", "panic"}
    /\ todel \subseteq Peers /\ expCnt \in 0..Cardinality(Peers) /\ expNow \in 0..MaxTime
    /\ best \in Seq(Addr) /\ Len(best) <= Limit
    /\ conn \in [Conns -> Addr \cup {NoPeer}]
    /\ upc \in {"idle", "save"} /\ uiPeer \in Peers
    /\ seedsLeft \subseteq Seeds
    /\ proxyPeer \in Addr \cup {NoPeer}

\* InitPeers, lines 321-346: with ConnectOnly set, proxyPeer is a
\* NewEmptyPeer (Time now, not banned) for the resolved address, and no
\* seeding goroutine starts; without it, initSeeds runs.
Init ==
    /\ now = 0
    /\ \E D \in SUBSET Peers : db \in [D -> [time : {0}, banned : BOOLEAN]]
    /\ mutexFree = TRUE
    /\ expPc = "idle" /\ todel = {} /\ expCnt = 0 /\ expNow = 0
    /\ best = <<>>
    /\ conn = [c \in Conns |-> NoPeer]
    /\ upc = "idle" /\ uiPeer \in Peers
    /\ proxyPeer \in {NoPeer} \cup [peer : Proxies, time : {0}, banned : {FALSE}]
    /\ seedsLeft = IF proxyPeer = NoPeer THEN Seeds ELSE {}

\* PeerAddr.Save: Put the whole record under its key (qdb replaces it).
Save(x, rec) == db' = (x :> rec) @@ db

\* The record an in-memory PeerAddr writes.
RecOf(a) == [time |-> a.time, banned |-> a.banned]

Connected == {conn[c].peer : c \in {c \in Conns : conn[c] # NoPeer}}

\* A connection made from GetBestPeers' proxy result holds the proxyPeer
\* pointer itself, so what it does to its PeerAddr is done to proxyPeer.
Touch(c, a) ==
    proxyPeer' = IF proxyPeer # NoPeer /\ conn[c].peer = proxyPeer.peer
                 THEN a ELSE proxyPeer

-----------------------------------------------------------------------------
\* NewPeerFromString, lines 174-181: a blocked address, or one whose
\* stored record is banned, is an error; PeerDB.Get is one qdb call.
NewPeerCheck ==
    /\ upc = "idle"
    /\ \E x \in Peers :
        \/ /\ x \in Blocked \/ (x \in DOMAIN db /\ db[x].banned)
           /\ UNCHANGED vars
        \/ /\ x \notin Blocked /\ ~(x \in DOMAIN db /\ db[x].banned)
           /\ upc' = "save" /\ uiPeer' = x
           /\ UNCHANGED <<now, db, mutexFree, expPc, todel, expCnt, expNow, best, conn, seedsLeft>>

\* Lines 182-185: a fresh unbanned record stamped now is saved, without
\* peerdb_mutex and in a call of its own after the Get.
NewPeerSave ==
    /\ upc = "save"
    /\ Save(uiPeer, [time |-> now, banned |-> FALSE])
    /\ upc' = "idle"
    /\ UNCHANGED <<now, mutexFree, expPc, todel, expCnt, expNow, best, conn, uiPeer, seedsLeft>>

-----------------------------------------------------------------------------
\* Line 196: older than ExpirePeerAfter, or over an hour in the future,
\* at the time t0 read at line 192.
Expired(t, t0) == t0 > t + ExpireAfter \/ t > t0 + FutureSlack

\* ExpirePeers, lines 190-193: lock, read the clock, and size todel by
\* PeerDB.Count(), a qdb call of its own.
ExpireCount ==
    /\ mutexFree /\ expPc = "idle"
    /\ mutexFree' = FALSE /\ expPc' = "count"
    /\ expCnt' = Cardinality(DOMAIN db) /\ expNow' = now
    /\ UNCHANGED <<now, db, todel, best, conn, upc, uiPeer, seedsLeft>>

\* Lines 194-201: Browse stores each expired key at todel[delcnt]; Save
\* takes no peerdb_mutex, so the store may have grown since Count(), and
\* a key past len(todel) is an index-out-of-range panic that ends the
\* process.  With no expired key the function unlocks and returns.
ExpireBrowse ==
    LET found == {k \in DOMAIN db : Expired(db[k].time, expNow)} IN
    /\ expPc = "count"
    /\ \/ Cardinality(found) <= expCnt /\ found = {}
          /\ expPc' = "idle" /\ mutexFree' = TRUE /\ UNCHANGED todel
          /\ expCnt' = 0 /\ expNow' = 0
       \/ Cardinality(found) <= expCnt /\ found # {}
          /\ expPc' = "del" /\ todel' = found /\ UNCHANGED mutexFree
          /\ expCnt' = 0 /\ expNow' = 0     \* not read again
       \/ Cardinality(found) > expCnt /\ expPc' = "panic"
          /\ UNCHANGED <<todel, mutexFree, expCnt, expNow>>
    /\ UNCHANGED <<now, db, best, conn, upc, uiPeer, seedsLeft>>

\* Lines 203-206: delete one collected key while the store holds more
\* than MinPeersInDB records; the key is not looked at again.
ExpireDelete ==
    /\ expPc = "del"
    /\ todel # {} /\ Cardinality(DOMAIN db) > MinPeersInDB
    /\ \E k \in todel :
        /\ db' = [x \in DOMAIN db \ {k} |-> db[x]]
        /\ todel' = todel \ {k}
    /\ UNCHANGED <<now, mutexFree, expPc, expCnt, expNow, best, conn, upc, uiPeer,
                   seedsLeft>>

\* Lines 207-209: the loop ends, Defrag, unlock.
ExpireEnd ==
    /\ expPc = "del"
    /\ todel = {} \/ Cardinality(DOMAIN db) <= MinPeersInDB
    /\ expPc' = "idle" /\ todel' = {} /\ mutexFree' = TRUE
    /\ UNCHANGED <<now, db, expCnt, expNow, best, conn, upc, uiPeer, seedsLeft>>
-----------------------------------------------------------------------------
\* manyPeers.Less, lines 261-263: the more recently seen peer first.
Less(a, b) == a.time > b.time

\* The browse of lines 279-287 keeps the unbanned, usable peers that the
\* isConnected callback does not report.
Eligible == {x \in DOMAIN db : ~db[x].banned /\ x \notin Blocked /\ x \notin Connected}

\* NewPeer(v): the PeerAddr decoded from the i-th browsed record.
AddrAt(keys, i) == [peer |-> keys[i]] @@ db[keys[i]]

\* Mutant: the rows are copied without clamping to limit.
GetBestPeersNoClamp ==
    /\ mutexFree
    /\ \E tmp \in SetToSeqs(Eligible) :
        /\ \A i, j \in 1..Len(tmp) : i < j => ~Less(AddrAt(tmp, j), AddrAt(tmp, i))
        /\ best' = [i \in 1..Len(tmp) |-> AddrAt(tmp, i)]
    /\ UNCHANGED <<now, db, mutexFree, expPc, todel, expCnt, expNow, conn, upc, uiPeer, seedsLeft>>

\* Lines 277-297: browse under peerdb_mutex, then sort.Sort by Less (not
\* stable, so any order of equal times) and copy the first limit rows, or
\* all when fewer.
GetBestPeersFromDB ==
    /\ mutexFree
    /\ \E tmp \in SetToSeqs(Eligible) :
        /\ \A i, j \in 1..Len(tmp) : i < j => ~Less(AddrAt(tmp, j), AddrAt(tmp, i))
        /\ best' = [i \in 1..IF Len(tmp) < Limit THEN Len(tmp) ELSE Limit |->
                        AddrAt(tmp, i)]
    /\ UNCHANGED <<now, db, mutexFree, expPc, todel, expCnt, expNow, conn, upc, uiPeer, seedsLeft>>

GetBestPeers ==
    \/ /\ proxyPeer # NoPeer
       /\ best' = IF proxyPeer.peer \in Connected THEN <<>> ELSE <<proxyPeer>>
       /\ UNCHANGED <<now, db, mutexFree, expPc, todel, expCnt, expNow, conn, upc, uiPeer, seedsLeft>>
    \/ /\ proxyPeer = NoPeer
       /\ GetBestPeersFromDB

\* The connection manager (network code) opens a connection to one peer
\* of the result and drops the rest; the connection keeps that copy.
Connect(c) ==
    /\ conn[c] = NoPeer
    /\ \E i \in 1..Len(best) :
        /\ best[i].peer \notin Connected
        /\ conn' = [conn EXCEPT ![c] = best[i]]
    /\ best' = <<>>
    /\ UNCHANGED <<now, db, mutexFree, expPc, todel, expCnt, expNow, upc, uiPeer, seedsLeft>>

\* PeerAddr.Alive, lines 225-232: stamp the copy with now; save only if
\* the copy's previous stamp is at least a minute old.
Alive(c) ==
    /\ conn[c] # NoPeer
    /\ LET a == [conn[c] EXCEPT !.time = now]
       IN /\ conn' = [conn EXCEPT ![c] = a] /\ Touch(c, a)
          /\ IF now - conn[c].time >= SaveEvery THEN Save(a.peer, RecOf(a))
                                              ELSE UNCHANGED db
    /\ UNCHANGED <<now, mutexFree, expPc, todel, expCnt, expNow, best, upc, uiPeer, seedsLeft>>

\* PeerAddr.Dead, lines 234-237: age the copy by ten minutes and save it;
\* the network code then closes the connection.
Dead(c) ==
    /\ conn[c] # NoPeer
    /\ conn[c].time - DeadAge >= TimeFloor
    /\ LET a == [conn[c] EXCEPT !.time = @ - DeadAge]
       IN Save(a.peer, RecOf(a)) /\ Touch(c, a)
    /\ conn' = [conn EXCEPT ![c] = NoPeer]
    /\ UNCHANGED <<now, mutexFree, expPc, todel, expCnt, expNow, best, upc, uiPeer, seedsLeft>>

\* PeerAddr.Ban, lines 220-223: stamp Banned and save the copy; the
\* network code then drops the connection.
Ban(c) ==
    /\ conn[c] # NoPeer
    /\ LET a == [conn[c] EXCEPT !.banned = TRUE]
       IN Save(a.peer, RecOf(a)) /\ Touch(c, a)
    /\ conn' = [conn EXCEPT ![c] = NoPeer]
    /\ UNCHANGED <<now, mutexFree, expPc, todel, expCnt, expNow, best, upc, uiPeer, seedsLeft>>

\* initSeeds, lines 300-318, the goroutine InitPeers starts when there is
\* no ConnectOnly: each address a lookup returns is saved as a fresh
\* NewEmptyPeer (Banned 0, Time now), without peerdb_mutex and whatever
\* is stored under its key; a failed lookup saves nothing.
InitSeed ==
    /\ \E x \in seedsLeft :
        /\ seedsLeft' = seedsLeft \ {x}
        /\ \/ Save(x, [time |-> now, banned |-> FALSE])
           \/ UNCHANGED db
    /\ UNCHANGED <<now, mutexFree, expPc, todel, expCnt, expNow, best, conn, upc, uiPeer>>

\* The clock moves on.  Count() and Browse are adjacent qdb calls,
\* microseconds apart against the minutes of one time unit, so no unit
\* passes between them.
Tick ==
    /\ now < MaxTime /\ expPc # "count"
    /\ now' = now + 1
    /\ UNCHANGED <<db, mutexFree, expPc, todel, expCnt, expNow, best, conn, upc, uiPeer, seedsLeft>>

\* A panic in ExpirePeers ends the process: nothing happens after it.
Next ==
    /\ expPc # "panic"
    /\ \/ /\ \/ NewPeerCheck \/ NewPeerSave
             \/ ExpireCount \/ ExpireBrowse \/ ExpireDelete \/ ExpireEnd
             \/ GetBestPeers \/ InitSeed \/ Tick
             \/ \E c \in Conns : Connect(c)
          /\ UNCHANGED proxyPeer
       \/ \E c \in Conns : Alive(c) \/ Dead(c) \/ Ban(c)

Spec == Init /\ [][Next]_vars

-----------------------------------------------------------------------------
ExpireNeverPanics == expPc # "panic"
====
