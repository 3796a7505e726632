------------------------------ MODULE Bandwidth ------------------------------
(***************************************************************************)
(* The download limiter of client/common/bwidth.go.  Every connection's   *)
(* goroutine calls SockRead: under bw_mutex it runs TickRecv (start a new *)
(* second when the wall clock has moved on) and reserves toread bytes of  *)
(* this second's budget in dl_bytes_so_far; it unlocks, reads from the    *)
(* socket (at most toread bytes, maybe fewer on the 10 ms deadline), then *)
(* locks again to replace the reservation by the bytes really read.       *)
(* SockWrite / TickSent / ul_* are the same code for uploads.              *)
(*                                                                         *)
(* TickRecv also files each finished second's byte count in the ring    *)
(* DlBytesPrevSec, indexed by a uint16 that wraps at the array's size;   *)
(* PrintBWStats averages the last seconds of it with GetAvgBW.  The ring *)
(* is scaled down to RingLen slots, the index still wrapping at the ring's *)
(* size.  DlBytesTotal is only printed; ms is tn.Nanosecond() / 1e6.     *)
(***************************************************************************)
EXTENDS Integers, FiniteSets, Functions

CONSTANTS
    Readers,        \* goroutines calling SockRead
    NoOne,
    Limit,          \* DownloadLimit(), bytes per second, > 0
    BufLen,         \* len(buf)
    MaxChunk,       \* the 4096 of line 158
    MsValues,       \* the milliseconds a clock read may return
    ClockSteps,     \* how the wall clock may move: +1, +2 (a stall), -1
    MaxSec,         \* the wall clock stays in 0..MaxSec
    RingLen,        \* len(DlBytesPrevSec), 0x10000
    AvgCnt          \* the seconds PrintBWStats averages, 5

ASSUME MaxSec < RingLen /\ AvgCnt \in 1..RingLen

Ring == 0..RingLen-1

VARIABLES
    now,            \* the wall clock, time.Now().Unix()
    dl_last_sec,
    dl_bytes_so_far,
    dl_bytes_priod,
    mutex,          \* bw_mutex: its holder or NoOne
    pc,             \* per reader: "idle", "tick", "budget", "io", "acct"
    tn,             \* per reader: the (second, ms) it read from the clock
    toread, n,
    DlBytesPrevSec, DlBytesPrevSecIdx,
    spc, stn,       \* PrintBWStats: "idle", "tick", "print"; its clock read
    received        \* history: bytes accounted while each second was current

vars == <<now, dl_last_sec, dl_bytes_so_far, dl_bytes_priod, mutex, pc, tn,
          toread, n, DlBytesPrevSec, DlBytesPrevSecIdx, spc, stn, received>>

dlVars == <<dl_bytes_priod, dl_bytes_so_far, dl_last_sec, DlBytesPrevSec,
            DlBytesPrevSecIdx>>

statsVars == <<DlBytesPrevSec, DlBytesPrevSecIdx, spc, stn, received>>

\* Seconds the history may talk about: the ring reaches back before Init.
Seconds == -RingLen..MaxSec

Init ==
    /\ now \in 0..MaxSec
    /\ dl_last_sec = now
    /\ dl_bytes_so_far = 0 /\ dl_bytes_priod = 0
    /\ mutex = NoOne
    /\ pc = [r \in Readers |-> "idle"]
    /\ tn = [r \in Readers |-> [sec |-> 0, ms |-> 0]]
    /\ toread = [r \in Readers |-> 0] /\ n = [r \in Readers |-> 0]
    \* A node idle so far, its index about to wrap: the ring is zero.
    /\ DlBytesPrevSec = [i \in Ring |-> 0] /\ DlBytesPrevSecIdx = RingLen - 1
    /\ spc = "idle" /\ stn = 0
    /\ received = [s \in Seconds |-> 0]

\* The wall clock moves; NTP or an operator may also set it back.
Clock ==
    /\ \E d \in ClockSteps : now + d \in 0..MaxSec /\ now' = now + d
    /\ UNCHANGED <<dlVars, mutex, pc, tn, toread, n, spc, stn, received>>

\* SockRead, lines 150-151: lock bw_mutex, and TickRecv reads the clock.
Lock(r) ==
    /\ pc[r] = "idle" /\ mutex = NoOne
    /\ mutex' = r
    /\ \E ms \in MsValues : tn' = [tn EXCEPT ![r] = [sec |-> now, ms |-> ms]]
    /\ pc' = [pc EXCEPT ![r] = "tick"]
    /\ UNCHANGED <<now, dlVars, toread, n, spc, stn, received>>

\* Mutant: dl_bytes_priod is not reset once filed (line 120 dropped).
NewSecondNoReset(sec) ==
    LET gap == sec - dl_last_sec - 1
        Slot(i) == (i - DlBytesPrevSecIdx) % RingLen
    IN /\ DlBytesPrevSec' = [i \in Ring |->
                IF Slot(i) < gap THEN 0
                ELSE IF Slot(i) = gap THEN dl_bytes_priod ELSE DlBytesPrevSec[i]]
       /\ DlBytesPrevSecIdx' = (DlBytesPrevSecIdx + gap + 1) % RingLen
       /\ dl_bytes_so_far' = 0 /\ dl_last_sec' = sec
       /\ UNCHANGED dl_bytes_priod

\* TickRecv, lines 113-122, when the clock read sec is past dl_last_sec:
\* one zero per second skipped, then the finished second's byte count,
\* each at DlBytesPrevSecIdx++ (a uint16 over a 0x10000 array, so it
\* wraps at the ring's end); then a new budget starts.
NewSecond(sec) ==
    LET gap == sec - dl_last_sec - 1
        Slot(i) == (i - DlBytesPrevSecIdx) % RingLen
    IN /\ DlBytesPrevSec' = [i \in Ring |->
                IF Slot(i) < gap THEN 0
                ELSE IF Slot(i) = gap THEN dl_bytes_priod ELSE DlBytesPrevSec[i]]
       /\ DlBytesPrevSecIdx' = (DlBytesPrevSecIdx + gap + 1) % RingLen
       /\ dl_bytes_priod' = 0 /\ dl_bytes_so_far' = 0 /\ dl_last_sec' = sec

\* TickRecv, lines 112-123, for a clock read of second sec at or after
\* dl_last_sec: nothing in the same second, a new second otherwise.
TickRecvAt(sec) ==
    \/ sec = dl_last_sec /\ UNCHANGED dlVars
    \/ sec > dl_last_sec /\ NewSecond(sec)

\* Mutant: the `if now != dl_last_sec` guard is dropped, so a clock read
\* in the same second enters the loop too, and never leaves it.
TickRecvNoSameSecondCheck(r) ==
    /\ pc[r] = "tick"
    /\ \/ tn[r].sec > dl_last_sec /\ NewSecond(tn[r].sec)
          /\ pc' = [pc EXCEPT ![r] = "budget"]
       \/ tn[r].sec <= dl_last_sec /\ UNCHANGED <<pc, dlVars>>
    /\ UNCHANGED <<now, mutex, tn, toread, n, spc, stn, received>>

\* SockRead's TickRecv (line 151), under bw_mutex.  When the clock read
\* is behind dl_last_sec, now - dl_last_sec only moves away from 1 and the
\* loop of line 113 never ends, with the mutex held.
TickRecv(r) ==
    /\ pc[r] = "tick"
    /\ \/ tn[r].sec >= dl_last_sec /\ TickRecvAt(tn[r].sec)
          /\ pc' = [pc EXCEPT ![r] = "budget"]
       \/ tn[r].sec < dl_last_sec /\ UNCHANGED <<pc, dlVars>>
    /\ UNCHANGED <<now, mutex, tn, toread, n, spc, stn, received>>

\* SockRead returns: its locals are gone.
Return(r) ==
    /\ tn' = [tn EXCEPT ![r] = [sec |-> 0, ms |-> 0]]
    /\ toread' = [toread EXCEPT ![r] = 0]

\* Mutant: line 165 dropped, so nothing is reserved before the unlock.
BudgetNoReserve(r) ==
    LET want == (tn[r].ms * Limit) \div 1000 - dl_bytes_so_far
        t == IF want > BufLen THEN (IF BufLen > MaxChunk THEN MaxChunk ELSE BufLen)
             ELSE IF want < 0 THEN 0 ELSE want
    IN
    /\ pc[r] = "budget"
    /\ mutex' = NoOne
    /\ \/ t > 0 /\ pc' = [pc EXCEPT ![r] = "io"] /\ toread' = [toread EXCEPT ![r] = t]
          /\ UNCHANGED tn
       \/ t = 0 /\ pc' = [pc EXCEPT ![r] = "idle"] /\ Return(r)
    /\ UNCHANGED <<now, dl_last_sec, dl_bytes_priod, n, DlBytesPrevSec,
                   DlBytesPrevSecIdx, spc, stn, received, dl_bytes_so_far>>

\* Lines 152-166: reserve this second's remaining budget, capped to the
\* buffer and, if capped, to 4096; unlock.  Nothing to read returns -1.
Budget(r) ==
    LET want == (tn[r].ms * Limit) \div 1000 - dl_bytes_so_far
        t == IF want > BufLen THEN (IF BufLen > MaxChunk THEN MaxChunk ELSE BufLen)
             ELSE IF want < 0 THEN 0 ELSE want
    IN
    /\ pc[r] = "budget"
    /\ dl_bytes_so_far' = dl_bytes_so_far + t
    /\ mutex' = NoOne
    /\ \/ t > 0 /\ pc' = [pc EXCEPT ![r] = "io"] /\ toread' = [toread EXCEPT ![r] = t]
          /\ UNCHANGED tn
       \/ t = 0 /\ pc' = [pc EXCEPT ![r] = "idle"] /\ Return(r)
    /\ UNCHANGED <<now, dl_last_sec, dl_bytes_priod, n, DlBytesPrevSec,
                   DlBytesPrevSecIdx, spc, stn, received>>

\* Lines 170-171: con.Read with a 10 ms deadline returns 0..toread bytes.
Read(r) ==
    /\ pc[r] = "io"
    /\ \E k \in 0..toread[r] : n' = [n EXCEPT ![r] = k]
    /\ pc' = [pc EXCEPT ![r] = "acct"]
    /\ UNCHANGED <<now, dlVars, mutex, tn, toread, spc, stn, received>>

\* Lines 172-179: under the lock, the reservation is replaced by the bytes
\* read, which count for the current second.
Account(r) ==
    /\ pc[r] = "acct" /\ mutex = NoOne
    /\ dl_bytes_so_far' = dl_bytes_so_far - toread[r] + n[r]
    /\ dl_bytes_priod' = dl_bytes_priod + n[r]
    /\ pc' = [pc EXCEPT ![r] = "idle"] /\ Return(r)
    /\ n' = [n EXCEPT ![r] = 0]
    /\ received' = [received EXCEPT ![dl_last_sec] = @ + n[r]]
    /\ UNCHANGED <<now, dl_last_sec, mutex, DlBytesPrevSec, DlBytesPrevSecIdx,
                   spc, stn>>

-----------------------------------------------------------------------------
\* GetAvgBW, lines 238-241: cnt times, idx-- (wrapping as a uint16) and
\* add the slot.
RECURSIVE GetAvgBWSum(_, _, _)
GetAvgBWSum(arr, idx, cnt) ==
    IF cnt = 0 THEN 0
    ELSE LET i == (idx - 1) % RingLen
         IN arr[i] + GetAvgBWSum(arr, i, cnt - 1)

\* GetAvgBW, lines 233-243: the mean of the cnt slots before idx.
GetAvgBW(arr, idx, cnt) ==
    IF cnt <= 0 THEN 0 ELSE GetAvgBWSum(arr, idx, cnt) \div cnt

\* PrintBWStats, lines 246-247: lock bw_mutex; TickRecv reads the clock.
StatsLock ==
    /\ spc = "idle" /\ mutex = NoOne
    /\ mutex' = "stats" /\ stn' = now /\ spc' = "tick"
    /\ UNCHANGED <<now, dlVars, pc, tn, toread, n, received>>

\* Line 247: PrintBWStats' own TickRecv; it spins as SockRead's does.
StatsTick ==
    /\ spc = "tick"
    /\ \/ stn >= dl_last_sec /\ TickRecvAt(stn) /\ spc' = "print"
       \/ stn < dl_last_sec /\ UNCHANGED <<spc, dlVars>>
    /\ UNCHANGED <<now, mutex, pc, tn, toread, n, stn, received>>

\* Lines 248-253: TickSent (uploads, not modelled), print the average of
\* the last AvgCnt seconds and DlBytesTotal, unlock.
StatsPrint ==
    /\ spc = "print"
    /\ mutex' = NoOne /\ spc' = "idle"
    /\ UNCHANGED <<now, dlVars, pc, tn, toread, n, stn, received>>

Stats == StatsLock \/ StatsTick \/ StatsPrint

Reader(r) == Lock(r) \/ TickRecv(r) \/ Budget(r) \/ Read(r) \/ Account(r)

Next == Clock \/ Stats \/ \E r \in Readers : Reader(r)

\* Go schedules every runnable goroutine; sync.Mutex hands the lock to a
\* waiter starved for over 1 ms, so taking it is strongly fair.
Fairness ==
    \A r \in Readers :
        /\ WF_vars(TickRecv(r) \/ Budget(r) \/ Read(r))
        /\ SF_vars(Lock(r)) /\ SF_vars(Account(r))
    /\ WF_vars(StatsTick \/ StatsPrint)

Spec == Init /\ [][Next]_vars /\ Fairness

-----------------------------------------------------------------------------
\* SockRead's comment says reads respect the download limit.  The bytes of
\* one second can in fact exceed DownloadLimit(): a reservation made in
\* the previous second is subtracted from this second's count when it is
\* accounted, which frees budget.  Since PrintBWStats also starts seconds,
\* every reader may hold such a reservation; the excess is at most one
\* reservation (at most len(buf)) per reader.
OvershootBounded ==
    dl_bytes_priod <= Limit + Cardinality(Readers) * BufLen

\* Every SockRead that has taken bw_mutex returns: TickRecv ends and the
\* read is accounted.
ReadsReturn == \A r \in Readers : pc[r] = "tick" ~> pc[r] = "idle"

\* Every byte SockRead accounts while a second is current is filed in
\* the history ring exactly once when a TickRecv (of any reader or of
\* PrintBWStats) closes that second: the ring's slots sum to the bytes of
\* all finished seconds, across stalls (zero-filled seconds), the index
\* wrap, and reads accounted after another goroutine started a new
\* second.  (While fewer than RingLen seconds have been filed.)
RingHoldsAllBytes ==
    FoldFunctionOnSet(LAMBDA x, y : x + y, 0, DlBytesPrevSec, Ring)
      = FoldFunctionOnSet(LAMBDA x, y : x + y, 0, received,
                          {s \in Seconds : s < dl_last_sec})

\* Not checked by a run: what PrintBWStats' "Downloading at" suggests, the
\* mean of the bytes accounted in each of the last AvgCnt seconds.  The
\* code files a finished second after the zeros of the seconds skipped
\* (lines 113-119), so after a stall its bytes sit in a later second's
\* slot and this fails from MaxSec = 3 on (see the README).
AvgIsRecentMean ==
    spc = "print" =>
        GetAvgBW(DlBytesPrevSec, DlBytesPrevSecIdx, AvgCnt)
          = FoldFunctionOnSet(LAMBDA x, y : x + y, 0, received,
                              (dl_last_sec - AvgCnt)..(dl_last_sec - 1))
            \div AvgCnt
=============================================================================
