-------------------------------- MODULE WAL --------------------------------
(***************************************************************************)
(* internal/wal: the write-ahead log with group commit.                    *)
(*                                                                         *)
(* Goroutines call Append, ReadRange and Close on one WAL.  All of Append  *)
(* runs under the mutex mu except file.Sync and cond.Wait, so one action   *)
(* below is one stretch of code between two points where mu is free.       *)
(* Records are counted instead of bytes: written and synced are how many   *)
(* of the records of log are wholly in the file and are certain to survive *)
(* a power loss.  What the operating system may do is given by Faults.     *)
(***************************************************************************)
EXTENDS Integers, Sequences

CONSTANTS
    Callers,        \* goroutines that call Append
    Readers,        \* goroutines that call ReadRange
    Values,         \* record contents, apart from the commit position
    ReadLimit,      \* the limit argument of ReadRange
    MaxRecords,     \* bound: commit positions handed out
    Faults          \* what can go wrong outside the process, see AllFaults

(* "write": a write(2) fails; "sync": an fsync fails; "drop": a failed fsync
   also discards the dirty pages, so that a later fsync succeeds without
   writing them; "power": power loss, the page cache is gone; "corrupt": a
   power loss leaves a record of full length with wrong content, or a header
   with wrong content. *)
AllFaults == {"write", "sync", "drop", "power", "corrupt"}

ASSUME ConstantsAssumption ==
    /\ MaxRecords \in Nat
    /\ ReadLimit \in Nat
    /\ Faults \subseteq AllFaults

VARIABLES
    log,            \* records written or buffered, in file order
    written,        \* how many of them are in the file
    synced,         \* how many of them a power loss cannot take
    syncing,        \* how many were in the file when the fsync in flight began
    lostFrom,       \* first record whose pages a failed fsync dropped, or 0
    tail,           \* the bytes behind the last whole record, after a crash
    header,         \* the format header of the file
    mode,           \* of the process: "down", "header", "open", "closed", "refused"
    next,           \* WAL.next
    bufErr,         \* the sticky error of the bufio.Writer
    pendingSeq,     \* WAL.pendingSeq
    flushedSeq,     \* WAL.flushedSeq
    flushErr,       \* WAL.flushErr # nil
    leading,        \* WAL.leading
    pc,             \* per caller: "idle", "sync", "wait" or "woken"
    mine,           \* per caller: the record it appends
    mySeq,          \* per caller: the local mySeq
    flushSeq,       \* per caller: the local flushSeq
    closing,        \* the goroutine in Close: "no", "wait" or "woken"
    rd,             \* per reader: the position it reads from, or 0
    acked,          \* history: records whose Append returned nil error
    observed        \* history: records some ReadRange returned

fileVars == <<log, written, synced, syncing, lostFrom, tail, header>>
objVars == <<mode, next, bufErr>>
groupVars == <<pendingSeq, flushedSeq, flushErr, leading>>
callVars == <<pc, mine, mySeq, flushSeq>>
readVars == <<rd, observed>>
vars == <<fileVars, objVars, groupVars, callVars, readVars, closing, acked>>

Record == [pos : Nat \ {0}, val : Values]
NoRecord == <<>>

MaxOf(a, b) == IF a >= b THEN a ELSE b
MinOf(a, b) == IF a <= b THEN a ELSE b

TypeOK ==
    /\ log \in Seq(Record)
    /\ written \in 0..Len(log)
    /\ synced \in 0..written
    /\ syncing \in 0..written
    /\ lostFrom \in Nat
    /\ tail \in {"clean", "torn", "corrupt"}
    /\ header \in {"none", "bad", "written", "durable"}
    /\ mode \in {"down", "header", "open", "closed", "refused"}
    /\ next \in Nat \ {0}
    /\ bufErr \in BOOLEAN
    /\ pendingSeq \in Nat
    /\ flushedSeq \in 0..pendingSeq
    /\ flushErr \in BOOLEAN
    /\ leading \in BOOLEAN
    /\ pc \in [Callers -> {"idle", "sync", "wait", "woken"}]
    /\ mine \in [Callers -> Record \cup {NoRecord}]
    /\ mySeq \in [Callers -> Nat]
    /\ flushSeq \in [Callers -> Nat]
    /\ closing \in {"no", "wait", "woken"}
    /\ rd \in [Readers -> Nat]
    /\ acked \subseteq Record
    /\ observed \subseteq Record

Init ==
    /\ log = <<>> /\ written = 0 /\ synced = 0 /\ syncing = 0 /\ lostFrom = 0
    /\ tail = "clean" /\ header = "none"
    /\ mode = "down" /\ next = 1 /\ bufErr = FALSE
    /\ pendingSeq = 0 /\ flushedSeq = 0 /\ flushErr = FALSE /\ leading = FALSE
    /\ pc = [c \in Callers |-> "idle"]
    /\ mine = [c \in Callers |-> NoRecord]
    /\ mySeq = [c \in Callers |-> 0]
    /\ flushSeq = [c \in Callers |-> 0]
    /\ closing = "no"
    /\ rd = [r \in Readers |-> 0]
    /\ acked = {} /\ observed = {}

-----------------------------------------------------------------------------
(* Append. *)

CanAppend(c) ==
    /\ mode \in {"open", "closed"}
    /\ pc[c] = "idle"
    /\ next <= MaxRecords

(* Whether a write to the file can fail, and whether it can succeed: a bufio
   error is sticky and a closed file takes no write. *)
WriteCanFail == bufErr \/ mode = "closed" \/ "write" \in Faults
WriteCanWork == ~bufErr /\ mode = "open"

(* A failing write may still have moved whole records from buffer to file. *)
PartialWriteOffByOne(l) == IF WriteCanWork THEN written..(Len(l) + 1) ELSE {written}
PartialWrite(l) == IF WriteCanWork THEN written..Len(l) ELSE {written}

(* cond.Broadcast: whoever sleeps now competes for mu. *)
BroadcastForgotten(p) == p
Broadcast(p) == [c \in Callers |-> IF p[c] = "wait" THEN "woken" ELSE p[c]]
BroadcastClose == closing' = IF closing = "wait" THEN "woken" ELSE closing

(* Caller c leaves Append; the others are in state p. *)
Return(c, p) ==
    /\ pc' = [p EXCEPT ![c] = "idle"]
    /\ mine' = [mine EXCEPT ![c] = NoRecord]
    /\ mySeq' = [mySeq EXCEPT ![c] = 0]
    /\ flushSeq' = [flushSeq EXCEPT ![c] = 0]

(* The record gets the next position and goes to the buffer; pendingSeq
   numbers it within this open WAL. *)
Buffer(c, v) ==
    /\ log' = Append(log, [pos |-> next, val |-> v])
    /\ next' = next + 1
    /\ pendingSeq' = pendingSeq + 1

(* A Write of the buffer's overflow fails: the position is spent, nothing
   else is recorded of the call. *)
AppendWriteError(c) ==
    /\ CanAppend(c) /\ WriteCanFail
    /\ next' = next + 1
    /\ bufErr' = TRUE
    /\ written' \in PartialWrite(log)
    /\ UNCHANGED <<log, synced, syncing, lostFrom, tail, header, mode,
                   groupVars, callVars, readVars, closing, acked>>

(* A leader is at work: wait for it.  The buffer may overflow to the file. *)
AppendFollow(c, v) ==
    /\ CanAppend(c) /\ WriteCanWork
    /\ leading
    /\ Buffer(c, v)
    /\ written' \in PartialWrite(log')
    /\ pc' = [pc EXCEPT ![c] = "wait"]
    /\ mine' = [mine EXCEPT ![c] = [pos |-> next, val |-> v]]
    /\ mySeq' = [mySeq EXCEPT ![c] = pendingSeq']
    /\ UNCHANGED <<synced, syncing, lostFrom, tail, header, mode, bufErr,
                   flushedSeq, flushErr, leading, flushSeq, readVars, closing,
                   acked>>

(* No leader: lead, flush the buffer, and enter file.Sync without mu. *)
AppendLead(c, v) ==
    /\ CanAppend(c) /\ WriteCanWork
    /\ ~leading
    /\ Buffer(c, v)
    /\ written' = Len(log')
    /\ syncing' = Len(log')
    /\ leading' = TRUE
    /\ pc' = [pc EXCEPT ![c] = "sync"]
    /\ mine' = [mine EXCEPT ![c] = [pos |-> next, val |-> v]]
    /\ mySeq' = [mySeq EXCEPT ![c] = pendingSeq']
    /\ flushSeq' = [flushSeq EXCEPT ![c] = pendingSeq']
    /\ UNCHANGED <<synced, lostFrom, tail, header, mode, bufErr, flushedSeq,
                   flushErr, readVars, closing, acked>>

(* No leader, and the new leader's first Flush fails. *)
AppendLeadFlushError(c, v) ==
    /\ CanAppend(c) /\ ~bufErr /\ WriteCanFail
    /\ ~leading
    /\ Buffer(c, v)
    /\ written' \in PartialWrite(log')
    /\ bufErr' = TRUE
    /\ flushErr' = TRUE
    /\ flushedSeq' = pendingSeq'
    /\ pc' = Broadcast(pc)
    /\ BroadcastClose
    /\ UNCHANGED <<synced, syncing, lostFrom, tail, header, mode, leading,
                   mine, mySeq, flushSeq, readVars, acked>>

(* A successful fsync: every record that was in the file when it began is
   durable, unless its pages were dropped before. *)
FsyncDone ==
    /\ synced' = MaxOf(synced, IF lostFrom = 0 THEN syncing
                               ELSE MinOf(syncing, lostFrom - 1))
    /\ header' = "durable"
    /\ UNCHANGED <<lostFrom, tail>>

(* What a successful round lets its waiters know is durable: the snapshot of
   pendingSeq taken before Flush, not what arrived during the fsync. *)
RoundCoversArrivals(c) == pendingSeq
RoundCovers(c) == flushSeq[c]

(* A failed round releases everybody, those that arrived during it included. *)
FailedRoundCoversSnapshot(c) == flushSeq[c]
FailedRoundCovers(c) == pendingSeq

(* The leader's fsync succeeded and nothing arrived meanwhile: step down. *)
SyncStepDown(c) ==
    /\ pc[c] = "sync"
    /\ pendingSeq = flushSeq[c]
    /\ FsyncDone
    /\ flushedSeq' = RoundCovers(c)
    /\ flushErr' = FALSE
    /\ leading' = FALSE
    /\ Return(c, Broadcast(pc))
    /\ BroadcastClose
    /\ acked' = acked \cup {mine[c]}
    /\ syncing' = 0
    /\ UNCHANGED <<log, written, objVars, pendingSeq, readVars>>

(* The fsync succeeded but records were buffered meanwhile: flush and sync
   once more for the followers that wait for them. *)
SyncContinue(c) ==
    /\ pc[c] = "sync"
    /\ pendingSeq # flushSeq[c]
    /\ FsyncDone
    /\ flushedSeq' = RoundCovers(c)
    /\ flushErr' = FALSE
    /\ WriteCanWork
    /\ written' = Len(log)
    /\ syncing' = Len(log)
    /\ flushSeq' = [flushSeq EXCEPT ![c] = pendingSeq]
    /\ pc' = Broadcast(pc)
    /\ BroadcastClose
    /\ UNCHANGED <<log, objVars, pendingSeq, leading, mine, mySeq, readVars,
                   acked>>

(* As SyncContinue, but the second Flush fails: every waiter, and the leader,
   gets the error. *)
SyncContinueFlushError(c) ==
    /\ pc[c] = "sync"
    /\ pendingSeq # flushSeq[c]
    /\ FsyncDone
    /\ WriteCanFail
    /\ written' \in PartialWrite(log)
    /\ bufErr' = TRUE
    /\ flushErr' = TRUE
    /\ flushedSeq' = FailedRoundCovers(c)
    /\ leading' = FALSE
    /\ Return(c, Broadcast(pc))
    /\ BroadcastClose
    /\ syncing' = 0
    /\ UNCHANGED <<log, mode, next, pendingSeq, readVars, acked>>

(* The leader's fsync failed: every waiter, and the leader, gets the error,
   and the WAL stays in use. *)
SyncError(c) ==
    /\ pc[c] = "sync"
    /\ "sync" \in Faults
    /\ flushErr' = TRUE
    /\ flushedSeq' = FailedRoundCovers(c)
    /\ leading' = FALSE
    /\ Return(c, Broadcast(pc))
    /\ BroadcastClose
    /\ lostFrom' \in {lostFrom} \cup
          (IF "drop" \in Faults /\ lostFrom = 0 /\ synced < written
           THEN {synced + 1} ELSE {})
    /\ syncing' = 0
    /\ UNCHANGED <<log, written, synced, tail, header, objVars, pendingSeq,
                   readVars, acked>>

(* A woken follower whose record is not covered yet sleeps again. *)
FollowerWaitAgain(c) ==
    /\ pc[c] = "woken"
    /\ flushedSeq < mySeq[c]
    /\ pc' = [pc EXCEPT ![c] = "wait"]
    /\ UNCHANGED <<fileVars, objVars, groupVars, mine, mySeq, flushSeq,
                   readVars, closing, acked>>

(* A woken follower returns what flushErr says now. *)
FollowerIgnoresError == TRUE
FollowerSucceeds == ~flushErr

FollowerReturn(c) ==
    /\ pc[c] = "woken"
    /\ flushedSeq >= mySeq[c]
    /\ Return(c, pc)
    /\ acked' = IF FollowerSucceeds THEN acked \cup {mine[c]} ELSE acked
    /\ UNCHANGED <<fileVars, objVars, groupVars, readVars, closing>>

-----------------------------------------------------------------------------
(* ReadRange: the start offset is looked up under mu, the file is read
   without it. *)

ReadBegin(r, from) ==
    /\ mode \in {"open", "closed"}
    /\ rd[r] = 0
    /\ from \in 1..Len(log)
    /\ rd' = [rd EXCEPT ![r] = from]
    /\ UNCHANGED <<fileVars, objVars, groupVars, callVars, closing, acked,
                   observed>>

(* The last record the size of the file lets a reader reach. *)
ReadableFromBuffer == Len(log)
Readable == written

(* Up to ReadLimit records, as far as the file holds whole ones; Stat of a
   closed file is an error and returns none. *)
ReadEnd(r) ==
    /\ rd[r] > 0
    /\ observed' = observed \cup
          {log[p] : p \in IF mode = "open"
                          THEN rd[r]..MinOf(Readable, rd[r] + ReadLimit - 1)
                          ELSE {}}
    /\ rd' = [rd EXCEPT ![r] = 0]
    /\ UNCHANGED <<fileVars, objVars, groupVars, callVars, closing, acked>>

-----------------------------------------------------------------------------
(* Close: wait until nobody leads, flush, close the file. *)

CloseNeverWaits == FALSE
CloseMustWait == leading

CloseWait ==
    /\ \/ mode = "open" /\ closing = "no"
       \/ closing = "woken"
    /\ CloseMustWait
    /\ closing' = "wait"
    /\ UNCHANGED <<fileVars, objVars, groupVars, callVars, readVars, acked>>

CloseDone ==
    /\ \/ mode = "open" /\ closing = "no"
       \/ closing = "woken"
    /\ ~CloseMustWait
    /\ closing' = "no"
    /\ \/ /\ WriteCanWork
          /\ written' = Len(log)
          /\ mode' = "closed"
          /\ UNCHANGED bufErr
       \/ /\ WriteCanFail
          /\ written' \in PartialWrite(log)
          /\ bufErr' = TRUE
          /\ UNCHANGED mode
    /\ UNCHANGED <<log, synced, syncing, lostFrom, tail, header, next,
                   groupVars, callVars, readVars, acked>>

-----------------------------------------------------------------------------
(* Crashes, and Open. *)

(* Everything the process held in memory is gone. *)
ForgetProcess ==
    /\ mode' = "down"
    /\ next' = 1
    /\ bufErr' = FALSE
    /\ pendingSeq' = 0 /\ flushedSeq' = 0 /\ flushErr' = FALSE
    /\ leading' = FALSE
    /\ syncing' = 0
    /\ pc' = [c \in Callers |-> "idle"]
    /\ mine' = [c \in Callers |-> NoRecord]
    /\ mySeq' = [c \in Callers |-> 0]
    /\ flushSeq' = [c \in Callers |-> 0]
    /\ closing' = "no"
    /\ rd' = [r \in Readers |-> 0]
    /\ UNCHANGED <<acked, observed>>

(* The process stops, at any point or after Close; the page cache survives.
   Part of a record that was still buffered may be in the file. *)
ProcessCrash ==
    /\ mode \in {"header", "open", "closed"}
    /\ log' = SubSeq(log, 1, written)
    /\ tail' \in {"clean"} \cup (IF written < Len(log) THEN {"torn"} ELSE {})
    /\ UNCHANGED <<written, synced, lostFrom, header>>
    /\ ForgetProcess

(* The machine stops: of what was never synced, any prefix survives, and
   part or all of the bytes of the next record. *)
PowerLoss ==
    /\ "power" \in Faults
    /\ mode # "refused"
    /\ \E k \in synced..written :
          /\ log' = SubSeq(log, 1, k)
          /\ written' = k
          /\ synced' = k
          /\ tail' \in {"clean", tail} \cup
                (IF k < Len(log)
                 THEN {"torn"} \cup ({"corrupt"} \cap Faults) ELSE {})
          /\ header' \in
                IF header # "written" THEN {header}
                ELSE {"durable"} \cup
                     (IF k = 0 THEN {"none"} \cup
                                    (IF "corrupt" \in Faults THEN {"bad"} ELSE {})
                      ELSE {})
    /\ lostFrom' = 0
    /\ ForgetProcess

(* Open of a new file: write the header, then sync it. *)
OpenCreate ==
    /\ mode = "down"
    /\ header = "none"
    /\ header' = "written"
    /\ mode' = "header"
    /\ tail' = "clean"
    /\ UNCHANGED <<log, written, synced, syncing, lostFrom, next, bufErr, groupVars,
                   callVars, readVars, closing, acked>>

OpenHeaderSynced ==
    /\ mode = "header"
    /\ header' = "durable"
    /\ mode' = "open"
    /\ UNCHANGED <<log, written, synced, syncing, lostFrom, tail, next, bufErr,
                   groupVars, callVars, readVars, closing, acked>>

OpenHeaderSyncError ==
    /\ mode = "header"
    /\ "sync" \in Faults
    /\ mode' = "down"
    /\ UNCHANGED <<fileVars, next, bufErr, groupVars, callVars, readVars,
                   closing, acked>>

(* What recover_ makes of the file: an incomplete tail is truncated; a record
   that fails its checksum or has the wrong position is a hard error. *)
Recoverable ==
    /\ tail # "corrupt"
    /\ \A i \in 1..Len(log) : log[i].pos = i

(* The position after the last record replayed. *)
NextRepeatsLast == IF log = <<>> THEN 1 ELSE Len(log)
NextAfterRecovery == Len(log) + 1

(* Open of an existing file. *)
OpenRecover ==
    /\ mode = "down"
    /\ header # "none"
    /\ IF header # "bad" /\ Recoverable
       THEN mode' = "open" /\ tail' = "clean" /\ next' = NextAfterRecovery
       ELSE mode' = "refused" /\ UNCHANGED <<tail, next>>
    /\ UNCHANGED <<log, written, synced, syncing, lostFrom, header, bufErr,
                   groupVars, callVars, readVars, closing, acked>>

-----------------------------------------------------------------------------
AppendStep(c) ==
    \/ SyncStepDown(c) \/ SyncContinue(c) \/ SyncContinueFlushError(c)
    \/ SyncError(c) \/ FollowerWaitAgain(c) \/ FollowerReturn(c)

Next ==
    \/ \E c \in Callers :
          \/ AppendStep(c)
          \/ AppendWriteError(c)
          \/ \E v \in Values :
                AppendFollow(c, v) \/ AppendLead(c, v) \/ AppendLeadFlushError(c, v)
    \/ \E r \in Readers : ReadEnd(r) \/ \E from \in 1..MaxRecords : ReadBegin(r, from)
    \/ CloseWait \/ CloseDone
    \/ ProcessCrash \/ PowerLoss
    \/ OpenCreate \/ OpenHeaderSynced \/ OpenHeaderSyncError \/ OpenRecover

Spec == Init /\ [][Next]_vars

(* fsync returns, and a goroutine that can run is eventually scheduled and
   gets mu: sync.Mutex hands itself to a waiter it has starved for 1ms.
   Nothing obliges anybody to call Append or Close, or the machine to fail. *)
FairSpec ==
    /\ Spec
    /\ \A c \in Callers : WF_vars(AppendStep(c))
    /\ WF_vars(closing = "woken" /\ (CloseWait \/ CloseDone))

-----------------------------------------------------------------------------
(* Properties. *)

(* A caller never returns success before its own bytes are durable
   (wal.go:323): each acknowledged record is in the part of the log that no
   crash can take, at the position that was returned, whoever performed the
   fsync and whatever crashes and failed rounds came between. *)
AckedDurable ==
    \A r \in acked : r.pos <= synced /\ log[r.pos] = r

(* No follower is left behind (wal.go:390-406, 413-418): while one waits for
   a round that has not happened, exactly one caller is inside file.Sync, and
   nobody sleeps on the condition variable once its record is covered. *)
WaitersHaveALeader ==
    \A c \in Callers :
       /\ (pc[c] \in {"wait", "woken"} /\ flushedSeq < mySeq[c])
             => \E d \in Callers : pc[d] = "sync" /\ \A e \in Callers : pc[e] = "sync" => e = d
       /\ pc[c] = "wait" => flushedSeq < mySeq[c]

(* Close never takes the file from under an fsync (wal.go:467-470), and
   does not sleep when no leader is left to wake it. *)
CloseExcludesSync ==
    /\ (\E c \in Callers : pc[c] = "sync") => mode = "open" /\ leading
    /\ closing = "wait" => leading

(* recover_ never meets a gap or a repeated commit position in a file this
   code wrote (wal.go:183), failed writes that spend a position included. *)
PositionsDense ==
    \A i \in 1..Len(log) : log[i].pos = i

(* What ReadRange has returned stays in the log, unchanged. *)
ObservedStable ==
    \A r \in observed : r.pos <= Len(log) /\ log[r.pos] = r

(* Every Append returns, and so does Close. *)
CallsReturn ==
    /\ \A c \in Callers : pc[c] # "idle" ~> pc[c] = "idle"
    /\ closing # "no" ~> closing = "no"

(* The promise of DurableLog. *)
Abstract == INSTANCE DurableLog
Implements == Abstract!Spec
=============================================================================
