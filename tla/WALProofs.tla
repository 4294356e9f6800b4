----------------------------- MODULE WALProofs -----------------------------
(***************************************************************************)
(* Proofs about the write-ahead log, for any number of goroutines, records *)
(* and crashes.                                                            *)
(***************************************************************************)
EXTENDS WAL, TLAPS

-----------------------------------------------------------------------------
(* The inductive invariant. *)

(* leading says whether some caller is inside file.Sync; never two are. *)
OneLeader ==
    /\ leading <=> \E c \in Callers : pc[c] = "sync"
    /\ \A c, d \in Callers : pc[c] = "sync" /\ pc[d] = "sync" => c = d

(* With no leader every pending record has been decided; a leader, and a
   Close that waits for one, exist only on an open log. *)
Quiet ==
    /\ ~leading => flushedSeq = pendingSeq
    /\ leading => mode = "open"
    /\ closing = "wait" => leading
    /\ closing # "no" => mode = "open"
    /\ mode \notin {"open", "closed"} =>
          /\ pendingSeq = 0
          /\ \A c \in Callers : pc[c] = "idle"

(* Positions are dense, and the next one continues them as long as the
   buffer takes writes. *)
Numbering ==
    /\ pendingSeq <= Len(log)
    /\ \A i \in 1..Len(log) : log[i].pos = i
    /\ (mode \in {"open", "closed"} /\ ~bufErr) => next = Len(log) + 1
    /\ mode \in {"down", "header"} => next = 1 /\ ~bufErr
    /\ (mode = "header" \/ header = "none") => log = <<>>
    /\ mode \in {"open", "closed"} => header # "none"

(* The pendingSeq records appended since Open are the last ones of the log,
   which ties a caller's sequence number to its record's position, and the
   leader's snapshot to what its fsync covers. *)
Calls ==
    \A c \in Callers :
       /\ pc[c] # "idle" =>
             /\ mySeq[c] \in 1..pendingSeq
             /\ mine[c] = log[mySeq[c] + (Len(log) - pendingSeq)]
       /\ pc[c] = "sync" =>
             /\ flushSeq[c] \in mySeq[c]..pendingSeq
             /\ syncing = flushSeq[c] + (Len(log) - pendingSeq)
       /\ pc[c] = "wait" => flushedSeq < mySeq[c]

IndInv == TypeOK /\ OneLeader /\ Quiet /\ Numbering /\ Calls

(* As long as the last round succeeded, everything it let go is durable. *)
Covered ==
    /\ lostFrom = 0
    /\ (flushedSeq > 0 /\ ~flushErr) =>
          synced >= flushedSeq + (Len(log) - pendingSeq)

DurableInv == Covered /\ AckedDurable

-----------------------------------------------------------------------------
(* Lemmas. *)

(* The numbers of a reachable state, as the arithmetic of the proofs needs
   them. *)
LEMMA Bounds ==
    ASSUME TypeOK
    PROVE  /\ Len(log) \in Nat
           /\ written \in Nat /\ written <= Len(log)
           /\ synced \in Nat /\ synced <= written
           /\ syncing \in Nat /\ syncing <= written
           /\ lostFrom \in Nat /\ pendingSeq \in Nat
           /\ flushedSeq \in Nat /\ flushedSeq <= pendingSeq
<1>1. Len(log) \in Nat
  BY DEF TypeOK
<1>2. /\ written \in 0..Len(log) /\ synced \in 0..written
      /\ syncing \in 0..written /\ lostFrom \in Nat
      /\ pendingSeq \in Nat /\ flushedSeq \in 0..pendingSeq
  BY Zenon DEF TypeOK
<1>. QED
  BY <1>1, <1>2

(* A completed fsync moves synced up, within what had been written. *)
LEMMA FsyncBounds ==
    ASSUME TypeOK, FsyncDone
    PROVE  /\ synced' \in Nat /\ synced' >= synced /\ synced' <= written
           /\ lostFrom = 0 => synced' >= syncing
BY Bounds DEF FsyncDone, MaxOf, MinOf

(* What an incomplete write of the unchanged buffer leaves in the file. *)
LEMMA PartialBounds ==
    ASSUME TypeOK, written' \in PartialWrite(log)
    PROVE  written' \in Nat /\ written <= written' /\ written' <= Len(log)
BY Bounds DEF PartialWrite

(* Positions of records are numbers. *)
LEMMA RecordPositions ==
    ASSUME TypeOK
    PROVE  /\ \A r \in acked : r.pos \in Nat \ {0}
           /\ \A r \in observed : r.pos \in Nat \ {0}
<1>1. acked \subseteq Record /\ observed \subseteq Record
  BY Zenon DEF TypeOK
<1>. QED
  BY <1>1, Zenon DEF Record

(* Buffering a record extends the log by it, at the next dense position. *)
LEMMA BufferFacts ==
    ASSUME TypeOK, Numbering, mode \in {"open", "closed"}, ~bufErr,
           NEW c \in Callers, NEW v \in Values, Buffer(c, v)
    PROVE  /\ next = Len(log) + 1
           /\ [pos |-> next, val |-> v] \in Record
           /\ log' \in Seq(Record)
           /\ Len(log') = Len(log) + 1
           /\ \A i \in 1..Len(log) : log'[i] = log[i]
           /\ log'[next] = [pos |-> next, val |-> v]
           /\ \A i \in 1..Len(log') : log'[i].pos = i
           /\ next' = next + 1
           /\ pendingSeq' = pendingSeq + 1
<1>1. next = Len(log) + 1
  BY Zenon DEF Numbering
<1>2. [pos |-> next, val |-> v] \in Record
  BY Zenon DEF TypeOK, Record
<1>3. /\ log' \in Seq(Record)
      /\ Len(log') = Len(log) + 1
      /\ \A i \in 1..Len(log) : log'[i] = log[i]
      /\ log'[next] = [pos |-> next, val |-> v]
  BY <1>1, <1>2 DEF Buffer, TypeOK
<1>4. ASSUME NEW i \in 1..Len(log')
      PROVE  log'[i].pos = i
  <2>1. CASE i = next
    BY <1>3, <2>1
  <2>2. CASE i # next
    <3>1. i \in 1..Len(log)
      BY <1>1, <1>3, <2>2 DEF TypeOK
    <3>. QED
      BY <1>3, <3>1, Zenon DEF Numbering
  <2>. QED
    BY <2>1, <2>2, Zenon
<1>. QED
  BY <1>1, <1>2, <1>3, <1>4, Zenon DEF Buffer

(* The record of a call in progress is in the log, at its own position. *)
LEMMA CallRecord ==
    ASSUME TypeOK, Numbering, Calls, NEW c \in Callers, pc[c] # "idle"
    PROVE  /\ mine[c] \in Record
           /\ mine[c].pos = mySeq[c] + (Len(log) - pendingSeq)
           /\ mine[c].pos \in 1..Len(log)
           /\ log[mine[c].pos] = mine[c]
<1>1. mySeq[c] + (Len(log) - pendingSeq) \in 1..Len(log)
  BY DEF TypeOK, Numbering, Calls
<1>2. mine[c] = log[mySeq[c] + (Len(log) - pendingSeq)]
  BY Zenon DEF Calls
<1>3. log[mySeq[c] + (Len(log) - pendingSeq)].pos = mySeq[c] + (Len(log) - pendingSeq)
  BY <1>1, Zenon DEF Numbering
<1>4. log[mySeq[c] + (Len(log) - pendingSeq)] \in Record
  BY <1>1 DEF TypeOK
<1>. QED
  BY <1>1, <1>2, <1>3, <1>4, Zenon

(* A prefix of the log keeps its records. *)
LEMMA PrefixFacts ==
    ASSUME log \in Seq(Record), NEW k \in 0..Len(log)
    PROVE  /\ SubSeq(log, 1, k) \in Seq(Record)
           /\ Len(SubSeq(log, 1, k)) = k
           /\ \A i \in 1..k : SubSeq(log, 1, k)[i] = log[i]
OBVIOUS

-----------------------------------------------------------------------------
(* Every action preserves IndInv. *)

LEMMA AppendWriteErrorInv ==
    ASSUME IndInv, NEW c \in Callers, AppendWriteError(c)
    PROVE  IndInv'
<1>. USE ConstantsAssumption DEF IndInv, AppendWriteError, CanAppend,
        PartialWrite, WriteCanWork,
        fileVars, objVars, groupVars, callVars, readVars
<1>1. TypeOK'
  BY DEF TypeOK
<1>2. OneLeader'
  BY Zenon DEF OneLeader
<1>3. Quiet'
  BY Zenon DEF Quiet
<1>4. Numbering'
  BY Zenon DEF Numbering
<1>5. Calls'
  BY Zenon DEF Calls
<1>. QED
  BY <1>1, <1>2, <1>3, <1>4, <1>5, Zenon

LEMMA AppendFollowInv ==
    ASSUME IndInv, NEW c \in Callers, NEW v \in Values, AppendFollow(c, v)
    PROVE  IndInv'
<1>. USE ConstantsAssumption DEF IndInv, AppendFollow, CanAppend,
        PartialWrite, WriteCanWork,
        fileVars, objVars, groupVars, callVars, readVars
<1>b. /\ next = Len(log) + 1
      /\ [pos |-> next, val |-> v] \in Record
      /\ log' \in Seq(Record)
      /\ Len(log') = Len(log) + 1
      /\ \A i \in 1..Len(log) : log'[i] = log[i]
      /\ log'[next] = [pos |-> next, val |-> v]
      /\ \A i \in 1..Len(log') : log'[i].pos = i
      /\ next' = next + 1
      /\ pendingSeq' = pendingSeq + 1
  BY BufferFacts, Zenon
<1>1. TypeOK'
  <2>1. /\ log' \in Seq(Record) /\ written' \in 0..Len(log')
        /\ synced' \in 0..written' /\ syncing' \in 0..written' /\ lostFrom' \in Nat
        /\ pendingSeq' \in Nat /\ flushedSeq' \in 0..pendingSeq'
    BY <1>b DEF TypeOK
  <2>2. /\ pc' \in [Callers -> {"idle", "sync", "wait", "woken"}]
        /\ mine' \in [Callers -> Record \cup {NoRecord}]
        /\ mySeq' \in [Callers -> Nat] /\ flushSeq' \in [Callers -> Nat]
    BY <1>b, <2>1, Zenon DEF TypeOK
  <2>3. acked' \subseteq Record /\ observed' \subseteq Record
    BY <1>b, Zenon DEF TypeOK
  <2>. QED
    BY <1>b, <2>1, <2>2, <2>3 DEF TypeOK
<1>2. OneLeader'
  BY <1>b DEF OneLeader
<1>3. Quiet'
  BY <1>b, Zenon DEF Quiet
<1>4. Numbering'
  <2>1. /\ pendingSeq' <= Len(log')
        /\ (mode' \in {"open", "closed"} /\ ~bufErr') => next' = Len(log') + 1
        /\ mode' \in {"open", "closed"}
        /\ header' # "none"
    BY <1>b DEF TypeOK, Numbering
  <2>. QED
    BY <1>b, <2>1, Zenon DEF Numbering
<1>5. Calls'
  <2>. SUFFICES ASSUME NEW d \in Callers
                PROVE  Calls!(d)'
    BY Zenon DEF Calls
  <2>1. CASE d = c
    <3>1. /\ pc'[d] = "wait"
          /\ mySeq'[d] = pendingSeq + 1
          /\ mine'[d] = [pos |-> next, val |-> v]
      BY <1>b, <2>1, Zenon DEF TypeOK
    <3>2. /\ pendingSeq' = pendingSeq + 1
          /\ mySeq'[d] + (Len(log') - pendingSeq') = next
          /\ mySeq'[d] \in 1..pendingSeq'
      BY <1>b, <3>1, Bounds
    <3>3. flushedSeq' < mySeq'[d]
      BY <3>1, Bounds
    <3>. QED
      BY <1>b, <3>1, <3>2, <3>3, Zenon
  <2>2. CASE d # c
    <3>1. /\ mySeq'[d] = mySeq[d] /\ mine'[d] = mine[d]
          /\ flushSeq'[d] = flushSeq[d]
          /\ Len(log') - pendingSeq' = Len(log) - pendingSeq
      BY <1>b, <2>2 DEF TypeOK
    <3>2. pc[d] # "idle" =>
             mine[d] = log'[mySeq[d] + (Len(log) - pendingSeq)]
      BY <1>b, CallRecord, Zenon
    <3>3. /\ pc'[d] = pc[d]
          /\ flushedSeq' = flushedSeq /\ syncing' = syncing
      BY <2>2, Zenon DEF TypeOK
    <3>. HIDE DEF AppendFollow
    <3>. QED
      BY <1>b, <3>1, <3>2, <3>3 DEF TypeOK, Calls
  <2>. QED
    BY <2>1, <2>2, Zenon
<1>. QED
  BY <1>1, <1>2, <1>3, <1>4, <1>5, Zenon

LEMMA AppendLeadInv ==
    ASSUME IndInv, NEW c \in Callers, NEW v \in Values, AppendLead(c, v)
    PROVE  IndInv'
<1>. USE ConstantsAssumption DEF IndInv, AppendLead, CanAppend,
        WriteCanWork,
        fileVars, objVars, groupVars, callVars, readVars
<1>b. /\ next = Len(log) + 1
      /\ [pos |-> next, val |-> v] \in Record
      /\ log' \in Seq(Record)
      /\ Len(log') = Len(log) + 1
      /\ \A i \in 1..Len(log) : log'[i] = log[i]
      /\ log'[next] = [pos |-> next, val |-> v]
      /\ \A i \in 1..Len(log') : log'[i].pos = i
      /\ next' = next + 1
      /\ pendingSeq' = pendingSeq + 1
  BY BufferFacts, Zenon
<1>1. TypeOK'
  <2>1. /\ log' \in Seq(Record) /\ written' \in 0..Len(log')
        /\ synced' \in 0..written' /\ syncing' \in 0..written' /\ lostFrom' \in Nat
        /\ pendingSeq' \in Nat /\ flushedSeq' \in 0..pendingSeq'
    BY <1>b DEF TypeOK
  <2>2. /\ pc' \in [Callers -> {"idle", "sync", "wait", "woken"}]
        /\ mine' \in [Callers -> Record \cup {NoRecord}]
        /\ mySeq' \in [Callers -> Nat] /\ flushSeq' \in [Callers -> Nat]
    BY <1>b, <2>1, Zenon DEF TypeOK
  <2>3. acked' \subseteq Record /\ observed' \subseteq Record
    BY <1>b, Zenon DEF TypeOK
  <2>. QED
    BY <1>b, <2>1, <2>2, <2>3 DEF TypeOK
<1>2. OneLeader'
  BY <1>b, Zenon DEF TypeOK, OneLeader
<1>3. Quiet'
  BY <1>b, Zenon DEF Quiet
<1>4. Numbering'
  <2>1. /\ pendingSeq' <= Len(log')
        /\ (mode' \in {"open", "closed"} /\ ~bufErr') => next' = Len(log') + 1
        /\ mode' \in {"open", "closed"}
        /\ header' # "none"
    BY <1>b DEF TypeOK, Numbering
  <2>. QED
    BY <1>b, <2>1, Zenon DEF Numbering
<1>5. Calls'
  <2>. SUFFICES ASSUME NEW d \in Callers
                PROVE  Calls!(d)'
    BY Zenon DEF Calls
  <2>1. CASE d = c
    BY <1>b, <2>1 DEF TypeOK
  <2>2. CASE d # c
    <3>1. /\ mySeq'[d] = mySeq[d] /\ mine'[d] = mine[d]
          /\ flushSeq'[d] = flushSeq[d]
          /\ Len(log') - pendingSeq' = Len(log) - pendingSeq
      BY <1>b, <2>2 DEF TypeOK
    <3>2. pc[d] # "idle" =>
             mine[d] = log'[mySeq[d] + (Len(log) - pendingSeq)]
      BY <1>b, CallRecord, Zenon
    <3>. QED
      BY <1>b, <2>2, <3>1, <3>2 DEF TypeOK, OneLeader, Calls
  <2>. QED
    BY <2>1, <2>2, Zenon
<1>. QED
  BY <1>1, <1>2, <1>3, <1>4, <1>5, Zenon

LEMMA AppendLeadFlushErrorInv ==
    ASSUME IndInv, NEW c \in Callers, NEW v \in Values, AppendLeadFlushError(c, v)
    PROVE  IndInv'
<1>. USE ConstantsAssumption DEF IndInv, AppendLeadFlushError, CanAppend,
        PartialWrite, WriteCanWork, Broadcast, BroadcastClose,
        fileVars, objVars, groupVars, callVars, readVars
<1>b. /\ next = Len(log) + 1
      /\ [pos |-> next, val |-> v] \in Record
      /\ log' \in Seq(Record)
      /\ Len(log') = Len(log) + 1
      /\ \A i \in 1..Len(log) : log'[i] = log[i]
      /\ log'[next] = [pos |-> next, val |-> v]
      /\ \A i \in 1..Len(log') : log'[i].pos = i
      /\ next' = next + 1
      /\ pendingSeq' = pendingSeq + 1
  BY BufferFacts, Zenon
<1>1. TypeOK'
  <2>1. /\ log' \in Seq(Record) /\ written' \in 0..Len(log')
        /\ synced' \in 0..written' /\ syncing' \in 0..written' /\ lostFrom' \in Nat
        /\ pendingSeq' \in Nat /\ flushedSeq' \in 0..pendingSeq'
    BY <1>b DEF TypeOK
  <2>2. /\ pc' \in [Callers -> {"idle", "sync", "wait", "woken"}]
        /\ mine' \in [Callers -> Record \cup {NoRecord}]
        /\ mySeq' \in [Callers -> Nat] /\ flushSeq' \in [Callers -> Nat]
    BY <1>b, <2>1, Zenon DEF TypeOK
  <2>3. acked' \subseteq Record /\ observed' \subseteq Record
    BY <1>b, Zenon DEF TypeOK
  <2>. QED
    BY <1>b, <2>1, <2>2, <2>3 DEF TypeOK
<1>2. OneLeader'
  BY <1>b, Zenon DEF OneLeader
<1>3. Quiet'
  BY <1>b, Zenon DEF Quiet
<1>4. Numbering'
  <2>1. /\ pendingSeq' <= Len(log')
        /\ (mode' \in {"open", "closed"} /\ ~bufErr') => next' = Len(log') + 1
        /\ mode' \in {"open", "closed"}
        /\ header' # "none"
    BY <1>b DEF TypeOK, Numbering
  <2>. QED
    BY <1>b, <2>1, Zenon DEF Numbering
<1>5. Calls'
  <2>. SUFFICES ASSUME NEW d \in Callers
                PROVE  Calls!(d)'
    BY Zenon DEF Calls
  <2>1. CASE d = c
    BY <1>b, <2>1, Zenon DEF TypeOK
  <2>2. CASE d # c
    <3>1. /\ mySeq'[d] = mySeq[d] /\ mine'[d] = mine[d]
          /\ flushSeq'[d] = flushSeq[d]
          /\ Len(log') - pendingSeq' = Len(log) - pendingSeq
      BY <1>b, <2>2 DEF TypeOK
    <3>2. pc[d] # "idle" =>
             mine[d] = log'[mySeq[d] + (Len(log) - pendingSeq)]
      BY <1>b, CallRecord, Zenon
    <3>. QED
      BY <1>b, <2>2, <3>1, <3>2 DEF TypeOK, Calls
  <2>. QED
    BY <2>1, <2>2, Zenon
<1>. QED
  BY <1>1, <1>2, <1>3, <1>4, <1>5, Zenon

LEMMA SyncStepDownInv ==
    ASSUME IndInv, NEW c \in Callers, SyncStepDown(c)
    PROVE  IndInv'
<1>. USE ConstantsAssumption DEF IndInv, SyncStepDown, FsyncDone,
        RoundCovers, Return, Broadcast, BroadcastClose, MaxOf, MinOf,
        fileVars, objVars, groupVars, callVars, readVars
<1>r. mine[c] \in Record
  BY CallRecord, Zenon
<1>1. TypeOK'
  <2>1. /\ log' \in Seq(Record) /\ written' \in 0..Len(log')
        /\ synced' \in 0..written' /\ syncing' \in 0..written' /\ lostFrom' \in Nat
        /\ pendingSeq' \in Nat /\ flushedSeq' \in 0..pendingSeq'
    BY DEF TypeOK
  <2>2. /\ pc' \in [Callers -> {"idle", "sync", "wait", "woken"}]
        /\ mine' \in [Callers -> Record \cup {NoRecord}]
        /\ mySeq' \in [Callers -> Nat] /\ flushSeq' \in [Callers -> Nat]
    BY <2>1, Zenon DEF TypeOK
  <2>3. acked' \subseteq Record /\ observed' \subseteq Record
    BY <1>r, Zenon DEF TypeOK
  <2>. QED
    BY ZenonT(40), <2>1, <2>2, <2>3 DEF TypeOK
<1>2. OneLeader'
  BY ZenonT(40) DEF TypeOK, OneLeader
<1>3. Quiet'
  BY Zenon DEF Quiet
<1>4. Numbering'
  BY Zenon DEF Numbering
<1>5. Calls'
  BY DEF OneLeader, Calls
<1>. QED
  BY <1>1, <1>2, <1>3, <1>4, <1>5, Zenon

LEMMA SyncContinueInv ==
    ASSUME IndInv, NEW c \in Callers, SyncContinue(c)
    PROVE  IndInv'
<1>. USE ConstantsAssumption DEF IndInv, SyncContinue, FsyncDone,
        RoundCovers, WriteCanWork, Broadcast, BroadcastClose, MaxOf, MinOf,
        fileVars, objVars, groupVars, callVars, readVars
<1>1. TypeOK'
  <2>1. /\ log' \in Seq(Record) /\ written' \in 0..Len(log')
        /\ synced' \in 0..written' /\ syncing' \in 0..written' /\ lostFrom' \in Nat
        /\ pendingSeq' \in Nat /\ flushedSeq' \in 0..pendingSeq'
    BY DEF TypeOK, Calls
  <2>2. /\ pc' \in [Callers -> {"idle", "sync", "wait", "woken"}]
        /\ mine' \in [Callers -> Record \cup {NoRecord}]
        /\ mySeq' \in [Callers -> Nat] /\ flushSeq' \in [Callers -> Nat]
    BY <2>1, Zenon DEF TypeOK
  <2>3. acked' \subseteq Record /\ observed' \subseteq Record
    BY Zenon DEF TypeOK
  <2>. QED
    BY ZenonT(40), <2>1, <2>2, <2>3 DEF TypeOK
<1>2. OneLeader'
  BY Zenon DEF OneLeader
<1>3. Quiet'
  BY Zenon DEF OneLeader, Quiet
<1>4. Numbering'
  BY Zenon DEF Numbering
<1>5. Calls'
  BY DEF TypeOK, OneLeader, Calls
<1>. QED
  BY <1>1, <1>2, <1>3, <1>4, <1>5, Zenon

LEMMA SyncContinueFlushErrorInv ==
    ASSUME IndInv, NEW c \in Callers, SyncContinueFlushError(c)
    PROVE  IndInv'
<1>. USE ConstantsAssumption DEF IndInv, SyncContinueFlushError, FsyncDone,
        FailedRoundCovers, PartialWrite, WriteCanWork, Return, Broadcast,
        BroadcastClose, MaxOf, MinOf,
        fileVars, objVars, groupVars, callVars, readVars
<1>1. TypeOK'
  <2>a. log' \in Seq(Record) /\ log' = log /\ pendingSeq' = pendingSeq
    BY Zenon DEF TypeOK
  <2>b. written' \in Nat /\ written <= written' /\ written' <= Len(log)
    BY PartialBounds, Zenon
  <2>c. synced' \in Nat /\ synced' <= written
    BY FsyncBounds, Zenon
  <2>d. syncing' = 0 /\ flushedSeq' = pendingSeq /\ lostFrom' = lostFrom
    BY Zenon
  <2>1. /\ log' \in Seq(Record) /\ written' \in 0..Len(log')
        /\ synced' \in 0..written' /\ syncing' \in 0..written' /\ lostFrom' \in Nat
        /\ pendingSeq' \in Nat /\ flushedSeq' \in 0..pendingSeq'
    <3>. HIDE DEF SyncContinueFlushError, FsyncDone, PartialWrite, IndInv
    <3>. QED
      BY <2>a, <2>b, <2>c, <2>d, Bounds DEF IndInv
  <2>2. /\ pc' \in [Callers -> {"idle", "sync", "wait", "woken"}]
        /\ mine' \in [Callers -> Record \cup {NoRecord}]
        /\ mySeq' \in [Callers -> Nat] /\ flushSeq' \in [Callers -> Nat]
    BY Zenon DEF TypeOK
  <2>3. acked' \subseteq Record /\ observed' \subseteq Record
    BY Zenon DEF TypeOK
  <2>. QED
    BY ZenonT(40), <2>1, <2>2, <2>3 DEF TypeOK
<1>2. OneLeader'
  BY ZenonT(40) DEF TypeOK, OneLeader
<1>3. Quiet'
  BY Zenon DEF Quiet
<1>4. Numbering'
  BY Zenon DEF Quiet, Numbering
<1>5. Calls'
  BY DEF OneLeader, Quiet, Numbering, Calls
<1>. QED
  BY <1>1, <1>2, <1>3, <1>4, <1>5, Zenon

LEMMA SyncErrorInv ==
    ASSUME IndInv, NEW c \in Callers, SyncError(c)
    PROVE  IndInv'
<1>. USE ConstantsAssumption DEF IndInv, SyncError, FailedRoundCovers,
        Return, Broadcast, BroadcastClose,
        fileVars, objVars, groupVars, callVars, readVars
<1>1. TypeOK'
  <2>1. /\ log' \in Seq(Record) /\ written' \in 0..Len(log')
        /\ synced' \in 0..written' /\ syncing' \in 0..written' /\ lostFrom' \in Nat
        /\ pendingSeq' \in Nat /\ flushedSeq' \in 0..pendingSeq'
    BY DEF TypeOK
  <2>2. /\ pc' \in [Callers -> {"idle", "sync", "wait", "woken"}]
        /\ mine' \in [Callers -> Record \cup {NoRecord}]
        /\ mySeq' \in [Callers -> Nat] /\ flushSeq' \in [Callers -> Nat]
    BY <2>1, Zenon DEF TypeOK
  <2>3. acked' \subseteq Record /\ observed' \subseteq Record
    BY Zenon DEF TypeOK
  <2>. QED
    BY ZenonT(40), <2>1, <2>2, <2>3 DEF TypeOK
<1>2. OneLeader'
  BY ZenonT(40) DEF TypeOK, OneLeader
<1>3. Quiet'
  BY Zenon DEF Quiet
<1>4. Numbering'
  BY Zenon DEF Numbering
<1>5. Calls'
  BY DEF OneLeader, Quiet, Numbering, Calls
<1>. QED
  BY <1>1, <1>2, <1>3, <1>4, <1>5, Zenon

LEMMA FollowerWaitAgainInv ==
    ASSUME IndInv, NEW c \in Callers, FollowerWaitAgain(c)
    PROVE  IndInv'
<1>. USE ConstantsAssumption DEF IndInv, FollowerWaitAgain,
        fileVars, objVars, groupVars, callVars, readVars
<1>1. TypeOK'
  BY DEF TypeOK
<1>2. OneLeader'
  BY DEF OneLeader
<1>3. Quiet'
  BY Zenon DEF Quiet
<1>4. Numbering'
  BY Zenon DEF Numbering
<1>5. Calls'
  BY DEF Calls
<1>. QED
  BY <1>1, <1>2, <1>3, <1>4, <1>5, Zenon

LEMMA FollowerReturnInv ==
    ASSUME IndInv, NEW c \in Callers, FollowerReturn(c)
    PROVE  IndInv'
<1>. USE ConstantsAssumption DEF IndInv, FollowerReturn, Return,
        fileVars, objVars, groupVars, callVars, readVars
<1>r. mine[c] \in Record
  BY CallRecord, Zenon
<1>1. TypeOK'
  <2>1. /\ log' \in Seq(Record) /\ written' \in 0..Len(log')
        /\ synced' \in 0..written' /\ syncing' \in 0..written' /\ lostFrom' \in Nat
        /\ pendingSeq' \in Nat /\ flushedSeq' \in 0..pendingSeq'
    BY Zenon DEF TypeOK
  <2>2. /\ pc' \in [Callers -> {"idle", "sync", "wait", "woken"}]
        /\ mine' \in [Callers -> Record \cup {NoRecord}]
        /\ mySeq' \in [Callers -> Nat] /\ flushSeq' \in [Callers -> Nat]
    BY <2>1, Zenon DEF TypeOK
  <2>3. acked' \subseteq Record /\ observed' \subseteq Record
    BY <1>r, Zenon DEF TypeOK
  <2>. QED
    BY <2>1, <2>2, <2>3, ZenonT(40) DEF TypeOK
<1>2. OneLeader'
  BY DEF OneLeader
<1>3. Quiet'
  BY Zenon DEF Quiet
<1>4. Numbering'
  BY Zenon DEF Numbering
<1>5. Calls'
  <2>. SUFFICES ASSUME NEW d \in Callers
                PROVE  Calls!(d)'
    BY Zenon DEF Calls
  <2>1. CASE d = c
    <3>1. pc'[d] = "idle"
      BY <2>1, Zenon DEF TypeOK
    <3>. QED
      BY Zenon, <3>1
  <2>2. CASE d # c
    <3>1. /\ pc'[d] = pc[d] /\ mine'[d] = mine[d]
          /\ mySeq'[d] = mySeq[d] /\ flushSeq'[d] = flushSeq[d]
      BY <2>2, Zenon DEF TypeOK
    <3>2. /\ log' = log /\ pendingSeq' = pendingSeq
          /\ flushedSeq' = flushedSeq /\ syncing' = syncing
      BY Zenon
    <3>3. Calls!(d)
      BY Zenon DEF Calls
    <3>. HIDE DEF IndInv, FollowerReturn
    <3>. QED
      BY Zenon, <3>1, <3>2, <3>3
  <2>. QED
    BY Zenon, <2>1, <2>2
<1>. QED
  BY <1>1, <1>2, <1>3, <1>4, <1>5, Zenon

LEMMA ReadBeginInv ==
    ASSUME IndInv, NEW r \in Readers, NEW from \in 1..MaxRecords, ReadBegin(r, from)
    PROVE  IndInv'
<1>. USE ConstantsAssumption DEF IndInv, ReadBegin,
        fileVars, objVars, groupVars, callVars, readVars
<1>1. TypeOK'
  BY DEF TypeOK
<1>2. OneLeader'
  BY Zenon DEF OneLeader
<1>3. Quiet'
  BY Zenon DEF Quiet
<1>4. Numbering'
  BY Zenon DEF Numbering
<1>5. Calls'
  BY Zenon DEF Calls
<1>. QED
  BY <1>1, <1>2, <1>3, <1>4, <1>5, Zenon

LEMMA ReadEndInv ==
    ASSUME IndInv, NEW r \in Readers, ReadEnd(r)
    PROVE  IndInv'
<1>. USE ConstantsAssumption DEF IndInv, ReadEnd, Readable, MinOf,
        fileVars, objVars, groupVars, callVars, readVars
<1>1. TypeOK'
  <2>1. /\ log' \in Seq(Record) /\ written' \in 0..Len(log')
        /\ synced' \in 0..written' /\ syncing' \in 0..written' /\ lostFrom' \in Nat
        /\ pendingSeq' \in Nat /\ flushedSeq' \in 0..pendingSeq'
    BY Zenon DEF TypeOK
  <2>2. /\ pc' \in [Callers -> {"idle", "sync", "wait", "woken"}]
        /\ mine' \in [Callers -> Record \cup {NoRecord}]
        /\ mySeq' \in [Callers -> Nat] /\ flushSeq' \in [Callers -> Nat]
    BY <2>1, Zenon DEF TypeOK
  <2>3. acked' \subseteq Record /\ observed' \subseteq Record
    <3>1. /\ log \in Seq(Record) /\ rd \in [Readers -> Nat]
          /\ acked \subseteq Record /\ observed \subseteq Record
      BY Zenon DEF TypeOK
    <3>2. rd[r] > 0
      BY Zenon
    <3>3. \A p \in rd[r]..MinOf(Readable, rd[r] + ReadLimit - 1) : p \in 1..Len(log)
      <4>. HIDE DEF ReadEnd
      <4>1. written \in Nat /\ written <= Len(log) /\ Len(log) \in Nat
        BY Zenon, Bounds
      <4>. HIDE DEF IndInv
      <4>. QED
        BY <3>1, <3>2, <4>1
    <3>4. \A p \in 1..Len(log) : log[p] \in Record
      <4>. HIDE DEF ReadEnd, IndInv
      <4>. QED
        BY <3>1
    <3>. HIDE DEF Readable, MinOf
    <3>. QED
      BY Zenon, <3>1, <3>3, <3>4
  <2>. QED
    BY <2>1, <2>2, <2>3, ZenonT(40) DEF TypeOK
<1>2. OneLeader'
  BY Zenon DEF OneLeader
<1>3. Quiet'
  BY Zenon DEF Quiet
<1>4. Numbering'
  BY Zenon DEF Numbering
<1>5. Calls'
  BY Zenon DEF Calls
<1>. QED
  BY ZenonT(40), <1>1, <1>2, <1>3, <1>4, <1>5

LEMMA CloseWaitInv ==
    ASSUME IndInv, CloseWait
    PROVE  IndInv'
<1>. USE ConstantsAssumption DEF IndInv, CloseWait, CloseMustWait,
        fileVars, objVars, groupVars, callVars, readVars
<1>1. TypeOK'
  BY Zenon DEF TypeOK
<1>2. OneLeader'
  BY Zenon DEF OneLeader
<1>3. Quiet'
  BY Zenon DEF Quiet
<1>4. Numbering'
  BY Zenon DEF Numbering
<1>5. Calls'
  BY Zenon DEF Calls
<1>. QED
  BY <1>1, <1>2, <1>3, <1>4, <1>5, Zenon

LEMMA CloseDoneInv ==
    ASSUME IndInv, CloseDone
    PROVE  IndInv'
<1>. USE ConstantsAssumption DEF IndInv, CloseDone, CloseMustWait,
        PartialWrite, WriteCanWork,
        fileVars, objVars, groupVars, callVars, readVars
<1>1. TypeOK'
  <2>1. /\ log' \in Seq(Record) /\ written' \in 0..Len(log')
        /\ synced' \in 0..written' /\ syncing' \in 0..written' /\ lostFrom' \in Nat
        /\ pendingSeq' \in Nat /\ flushedSeq' \in 0..pendingSeq'
    BY DEF TypeOK
  <2>2. /\ pc' \in [Callers -> {"idle", "sync", "wait", "woken"}]
        /\ mine' \in [Callers -> Record \cup {NoRecord}]
        /\ mySeq' \in [Callers -> Nat] /\ flushSeq' \in [Callers -> Nat]
    BY <2>1, Zenon DEF TypeOK
  <2>3. acked' \subseteq Record /\ observed' \subseteq Record
    BY Zenon DEF TypeOK
  <2>. QED
    BY ZenonT(40), <2>1, <2>2, <2>3 DEF TypeOK
<1>2. OneLeader'
  BY Zenon DEF OneLeader
<1>3. Quiet'
  BY Zenon DEF Quiet
<1>4. Numbering'
  BY Zenon DEF Quiet, Numbering
<1>5. Calls'
  BY Zenon DEF Calls
<1>. QED
  BY <1>1, <1>2, <1>3, <1>4, <1>5, Zenon

LEMMA ProcessCrashInv ==
    ASSUME IndInv, ProcessCrash
    PROVE  IndInv'
<1>. USE ConstantsAssumption DEF IndInv, ProcessCrash, ForgetProcess,
        fileVars, objVars, groupVars, callVars, readVars
<1>1. TypeOK'
  <2>1. /\ log' \in Seq(Record) /\ written' \in 0..Len(log')
        /\ synced' \in 0..written' /\ syncing' \in 0..written' /\ lostFrom' \in Nat
        /\ pendingSeq' \in Nat /\ flushedSeq' \in 0..pendingSeq'
    BY DEF TypeOK
  <2>2. /\ pc' \in [Callers -> {"idle", "sync", "wait", "woken"}]
        /\ mine' \in [Callers -> Record \cup {NoRecord}]
        /\ mySeq' \in [Callers -> Nat] /\ flushSeq' \in [Callers -> Nat]
        /\ rd' \in [Readers -> Nat]
    BY <2>1, Zenon DEF TypeOK
  <2>3. acked' \subseteq Record /\ observed' \subseteq Record
    BY Zenon DEF TypeOK
  <2>4. /\ lostFrom' \in Nat /\ next' \in Nat \ {0} /\ pendingSeq' \in Nat
        /\ mode' \in {"down", "header", "open", "closed", "refused"}
        /\ tail' \in {"clean", "torn", "corrupt"}
        /\ header' \in {"none", "bad", "written", "durable"}
        /\ closing' \in {"no", "wait", "woken"}
    BY DEF TypeOK
  <2>5. bufErr' \in BOOLEAN /\ flushErr' \in BOOLEAN /\ leading' \in BOOLEAN
    BY Zenon
  <2>. HIDE DEF ProcessCrash, ForgetProcess
  <2>. QED
    BY Zenon, <2>1, <2>2, <2>3, <2>4, <2>5 DEF TypeOK
<1>2. OneLeader'
  BY Zenon DEF OneLeader
<1>3. Quiet'
  BY Zenon DEF Quiet
<1>4. Numbering'
  <2>1. PICK k \in 0..Len(log) : log' = SubSeq(log, 1, k)
    BY Bounds
  <2>2. Len(log') = k /\ \A i \in 1..k : log'[i] = log[i]
    BY <2>1, PrefixFacts, Zenon DEF TypeOK
  <2>3. \A i \in 1..Len(log') : log'[i].pos = i
    <3>1. Len(log) \in Nat /\ \A i \in 1..Len(log) : log[i].pos = i
      BY Zenon, Bounds DEF Numbering
    <3>. HIDE DEF IndInv, ProcessCrash, PowerLoss, ForgetProcess
    <3>. QED
      BY <2>1, <2>2, <3>1
  <2>4. ASSUME header' = "none"
        PROVE  log' = <<>>
    <3>1. log = <<>>
      BY Zenon, <2>4 DEF Numbering
    <3>2. k = 0
      BY <3>1
    <3>. QED
      BY <2>1, <3>1, <3>2
  <2>5. pendingSeq' = 0 /\ Len(log') \in Nat
    <3>1. pendingSeq' = 0 /\ Len(log) \in Nat
      BY Zenon, Bounds
    <3>. HIDE DEF IndInv, ProcessCrash, PowerLoss, ForgetProcess
    <3>. QED
      BY <2>1, <2>2, <3>1
  <2>6. mode' = "down" /\ next' = 1 /\ bufErr' = FALSE
    BY Zenon
  <2>. HIDE DEF IndInv, ProcessCrash, PowerLoss, ForgetProcess
  <2>. QED
    BY <2>3, <2>4, <2>5, <2>6 DEF Numbering
<1>5. Calls'
  BY Zenon DEF Calls
<1>. QED
  BY <1>1, <1>2, <1>3, <1>4, <1>5, Zenon

LEMMA PowerLossInv ==
    ASSUME IndInv, PowerLoss
    PROVE  IndInv'
<1>. USE ConstantsAssumption DEF IndInv, PowerLoss, ForgetProcess,
        fileVars, objVars, groupVars, callVars, readVars
<1>1. TypeOK'
  <2>1. /\ log' \in Seq(Record) /\ written' \in 0..Len(log')
        /\ synced' \in 0..written' /\ syncing' \in 0..written' /\ lostFrom' \in Nat
        /\ pendingSeq' \in Nat /\ flushedSeq' \in 0..pendingSeq'
    BY DEF TypeOK
  <2>2. /\ pc' \in [Callers -> {"idle", "sync", "wait", "woken"}]
        /\ mine' \in [Callers -> Record \cup {NoRecord}]
        /\ mySeq' \in [Callers -> Nat] /\ flushSeq' \in [Callers -> Nat]
        /\ rd' \in [Readers -> Nat]
    BY <2>1, Zenon DEF TypeOK
  <2>3. acked' \subseteq Record /\ observed' \subseteq Record
    BY Zenon DEF TypeOK
  <2>4. /\ lostFrom' \in Nat /\ next' \in Nat \ {0} /\ pendingSeq' \in Nat
        /\ mode' \in {"down", "header", "open", "closed", "refused"}
        /\ tail' \in {"clean", "torn", "corrupt"}
        /\ header' \in {"none", "bad", "written", "durable"}
        /\ closing' \in {"no", "wait", "woken"}
    BY DEF TypeOK
  <2>5. bufErr' \in BOOLEAN /\ flushErr' \in BOOLEAN /\ leading' \in BOOLEAN
    BY Zenon
  <2>. HIDE DEF PowerLoss, ForgetProcess
  <2>. QED
    BY Zenon, <2>1, <2>2, <2>3, <2>4, <2>5 DEF TypeOK
<1>2. OneLeader'
  BY Zenon DEF OneLeader
<1>3. Quiet'
  BY Zenon DEF Quiet
<1>4. Numbering'
  <2>1. PICK k \in 0..Len(log) : log' = SubSeq(log, 1, k)
    BY Bounds
  <2>2. Len(log') = k /\ \A i \in 1..k : log'[i] = log[i]
    BY <2>1, PrefixFacts, Zenon DEF TypeOK
  <2>3. \A i \in 1..Len(log') : log'[i].pos = i
    <3>1. Len(log) \in Nat /\ \A i \in 1..Len(log) : log[i].pos = i
      BY Zenon, Bounds DEF Numbering
    <3>. HIDE DEF IndInv, ProcessCrash, PowerLoss, ForgetProcess
    <3>. QED
      BY <2>1, <2>2, <3>1
  <2>4. header' = "none" => log' = <<>>
    BY DEF TypeOK, Numbering
  <2>5. pendingSeq' = 0 /\ Len(log') \in Nat
    <3>1. pendingSeq' = 0 /\ Len(log) \in Nat
      BY Zenon, Bounds
    <3>. HIDE DEF IndInv, ProcessCrash, PowerLoss, ForgetProcess
    <3>. QED
      BY <2>1, <2>2, <3>1
  <2>6. mode' = "down" /\ next' = 1 /\ bufErr' = FALSE
    BY Zenon
  <2>. HIDE DEF IndInv, ProcessCrash, PowerLoss, ForgetProcess
  <2>. QED
    BY <2>3, <2>4, <2>5, <2>6 DEF Numbering
<1>5. Calls'
  BY Zenon DEF Calls
<1>. QED
  BY <1>1, <1>2, <1>3, <1>4, <1>5, Zenon

LEMMA OpenCreateInv ==
    ASSUME IndInv, OpenCreate
    PROVE  IndInv'
<1>. USE ConstantsAssumption DEF IndInv, OpenCreate,
        fileVars, objVars, groupVars, callVars, readVars
<1>1. TypeOK'
  BY Zenon DEF TypeOK
<1>2. OneLeader'
  BY Zenon DEF OneLeader
<1>3. Quiet'
  BY Zenon DEF Quiet
<1>4. Numbering'
  BY Zenon DEF Numbering
<1>5. Calls'
  BY Zenon DEF Calls
<1>. QED
  BY <1>1, <1>2, <1>3, <1>4, <1>5, Zenon

LEMMA OpenHeaderSyncedInv ==
    ASSUME IndInv, OpenHeaderSynced
    PROVE  IndInv'
<1>. USE ConstantsAssumption DEF IndInv, OpenHeaderSynced,
        fileVars, objVars, groupVars, callVars, readVars
<1>1. TypeOK'
  BY Zenon DEF TypeOK
<1>2. OneLeader'
  BY Zenon DEF OneLeader
<1>3. Quiet'
  BY Zenon DEF Quiet
<1>4. Numbering'
  BY DEF Numbering
<1>5. Calls'
  BY Zenon DEF Calls
<1>. QED
  BY <1>1, <1>2, <1>3, <1>4, <1>5, Zenon

LEMMA OpenHeaderSyncErrorInv ==
    ASSUME IndInv, OpenHeaderSyncError
    PROVE  IndInv'
<1>. USE ConstantsAssumption DEF IndInv, OpenHeaderSyncError,
        fileVars, objVars, groupVars, callVars, readVars
<1>1. TypeOK'
  BY Zenon DEF TypeOK
<1>2. OneLeader'
  BY Zenon DEF OneLeader
<1>3. Quiet'
  BY Zenon DEF Quiet
<1>4. Numbering'
  BY Zenon DEF Numbering
<1>5. Calls'
  BY Zenon DEF Calls
<1>. QED
  BY <1>1, <1>2, <1>3, <1>4, <1>5, Zenon

LEMMA OpenRecoverInv ==
    ASSUME IndInv, OpenRecover
    PROVE  IndInv'
<1>. USE ConstantsAssumption DEF IndInv, OpenRecover, NextAfterRecovery,
        fileVars, objVars, groupVars, callVars, readVars
<1>1. TypeOK'
  BY DEF TypeOK
<1>2. OneLeader'
  BY Zenon DEF OneLeader
<1>3. Quiet'
  BY Zenon DEF Quiet
<1>4. Numbering'
  BY Zenon DEF Numbering
<1>5. Calls'
  BY Zenon DEF Calls
<1>. QED
  BY <1>1, <1>2, <1>3, <1>4, <1>5, Zenon

-----------------------------------------------------------------------------
LEMMA InitInv == Init => IndInv
<1>. SUFFICES ASSUME Init
              PROVE  IndInv
  BY Zenon
<1>1. TypeOK
  <2>1. /\ log \in Seq(Record) /\ written \in 0..Len(log)
        /\ synced \in 0..written /\ syncing \in 0..written
        /\ flushedSeq \in 0..pendingSeq
    BY DEF Init
  <2>2. pc \in [Callers -> {"idle", "sync", "wait", "woken"}]
    BY Zenon DEF Init
  <2>3. mine \in [Callers -> Record \cup {NoRecord}]
    BY Zenon DEF Init
  <2>4. mySeq \in [Callers -> Nat] /\ flushSeq \in [Callers -> Nat] /\ rd \in [Readers -> Nat]
    BY Zenon DEF Init
  <2>5. /\ lostFrom \in Nat /\ next \in Nat \ {0} /\ pendingSeq \in Nat
        /\ mode \in {"down", "header", "open", "closed", "refused"}
        /\ tail \in {"clean", "torn", "corrupt"}
        /\ header \in {"none", "bad", "written", "durable"}
        /\ closing \in {"no", "wait", "woken"}
        /\ acked \subseteq Record /\ observed \subseteq Record
    BY DEF Init
  <2>6. bufErr \in BOOLEAN /\ flushErr \in BOOLEAN /\ leading \in BOOLEAN
    BY Zenon DEF Init
  <2>. QED
    BY <2>1, <2>2, <2>3, <2>4, <2>5, <2>6, Zenon DEF TypeOK
<1>2. OneLeader /\ Quiet /\ Numbering /\ Calls
  BY DEF Init, OneLeader, Quiet, Numbering, Calls
<1>. QED
  BY <1>1, <1>2, Zenon DEF IndInv

LEMMA NextInv == IndInv /\ [Next]_vars => IndInv'
<1>. SUFFICES ASSUME IndInv, [Next]_vars
              PROVE  IndInv'
  BY Zenon
<1>1. CASE UNCHANGED vars
  <2>. USE <1>1 DEF vars, fileVars, objVars, groupVars, callVars, readVars, IndInv
  <2>1. TypeOK'
    BY DEF TypeOK
  <2>2. OneLeader'
    BY Zenon DEF OneLeader
  <2>3. Quiet' /\ Numbering'
    BY Zenon DEF Quiet, Numbering
  <2>4. Calls'
    BY ZenonT(40) DEF Calls
  <2>. QED
    BY <2>1, <2>2, <2>3, <2>4, Zenon
<1>2. ASSUME NEW c \in Callers, AppendStep(c)
      PROVE  IndInv'
  BY <1>2, SyncStepDownInv, SyncContinueInv, SyncContinueFlushErrorInv, SyncErrorInv,
     FollowerWaitAgainInv, FollowerReturnInv, Zenon DEF AppendStep
<1>3. ASSUME NEW c \in Callers, AppendWriteError(c)
      PROVE  IndInv'
  BY <1>3, AppendWriteErrorInv, Zenon
<1>4. ASSUME NEW c \in Callers, NEW v \in Values,
             AppendFollow(c, v) \/ AppendLead(c, v) \/ AppendLeadFlushError(c, v)
      PROVE  IndInv'
  BY <1>4, AppendFollowInv, AppendLeadInv, AppendLeadFlushErrorInv, Zenon
<1>5. ASSUME NEW r \in Readers,
             ReadEnd(r) \/ \E from \in 1..MaxRecords : ReadBegin(r, from)
      PROVE  IndInv'
  BY <1>5, ReadEndInv, ReadBeginInv, Zenon
<1>6. CASE CloseWait \/ CloseDone
  BY <1>6, CloseWaitInv, CloseDoneInv, Zenon
<1>7. CASE ProcessCrash \/ PowerLoss
  BY <1>7, ProcessCrashInv, PowerLossInv, Zenon
<1>8. CASE OpenCreate \/ OpenHeaderSynced \/ OpenHeaderSyncError \/ OpenRecover
  BY <1>8, OpenCreateInv, OpenHeaderSyncedInv, OpenHeaderSyncErrorInv, OpenRecoverInv, Zenon
<1>. QED
  BY <1>1, <1>2, <1>3, <1>4, <1>5, <1>6, <1>7, <1>8, Zenon DEF Next

LEMMA InvHolds == Spec => []IndInv
BY InitInv, NextInv, PTL DEF Spec

(* Every variable of the log keeps its type. *)
THEOREM TypeCorrect == Spec => []TypeOK
<1>1. IndInv => TypeOK
  BY Zenon DEF IndInv
<1>. QED
  BY <1>1, InvHolds, PTL

(* recover_ never meets a gap or a repeated position (wal.go:183). *)
THEOREM DensePositions == Spec => []PositionsDense
<1>1. IndInv => PositionsDense
  BY Zenon DEF IndInv, Numbering, PositionsDense
<1>. QED
  BY <1>1, InvHolds, PTL

(* A follower that still waits has exactly one leader to release it, and none
   sleeps past its release (wal.go:352-419). *)
THEOREM NoOrphanedWaiter == Spec => []WaitersHaveALeader
<1>1. IndInv => WaitersHaveALeader
  <2>. SUFFICES ASSUME IndInv, NEW c \in Callers
                PROVE  WaitersHaveALeader!(c)
    BY ZenonT(40) DEF WaitersHaveALeader
  <2>1. ASSUME pc[c] \in {"wait", "woken"}, flushedSeq < mySeq[c]
        PROVE  \E d \in Callers : pc[d] = "sync" /\ \A e \in Callers : pc[e] = "sync" => e = d
    <3>1. mySeq[c] \in 1..pendingSeq
      BY <2>1, Zenon DEF IndInv, Calls
    <3>2. flushedSeq # pendingSeq
      BY <2>1, <3>1 DEF IndInv, TypeOK
    <3>. QED
      BY <3>2, Zenon DEF IndInv, OneLeader, Quiet
  <2>2. pc[c] = "wait" => flushedSeq < mySeq[c]
    BY Zenon DEF IndInv, Calls
  <2>. QED
    BY <2>1, <2>2, Zenon
<1>. QED
  BY <1>1, InvHolds, PTL

(* Close never closes the file under an fsync, nor sleeps for a leader that is
   gone (wal.go:471-481). *)
THEOREM CloseIsSafe == Spec => []CloseExcludesSync
<1>1. IndInv => CloseExcludesSync
  BY Zenon DEF IndInv, OneLeader, Quiet, CloseExcludesSync
<1>. QED
  BY <1>1, InvHolds, PTL

-----------------------------------------------------------------------------
(* Durability, where a failed fsync does not lose pages. *)

LEMMA InitDurable == Init => DurableInv
BY DEF Init, DurableInv, Covered, AckedDurable

(* A step that keeps the durable prefix of the log, and acknowledges nothing,
   keeps what was acknowledged durable. *)
LEMMA AckedKept ==
    ASSUME TypeOK, AckedDurable, acked' = acked,
           synced' \in Nat, synced <= synced',
           \A i \in 1..synced : log'[i] = log[i]
    PROVE  AckedDurable'
<1>. SUFFICES ASSUME NEW r \in acked
              PROVE  r.pos <= synced' /\ log'[r.pos] = r
  BY Zenon DEF AckedDurable
<1>1. r.pos <= synced /\ log[r.pos] = r
  BY Zenon DEF AckedDurable
<1>2. synced \in Nat /\ r.pos \in Nat \ {0}
  BY Bounds, RecordPositions, Zenon
<1>. QED
  BY <1>1, <1>2

(* So does a step that acknowledges the record of a call whose bytes are
   durable. *)
LEMMA AckedGrows ==
    ASSUME TypeOK, AckedDurable, NEW m, acked' = acked \cup {m}, log' = log,
           synced' \in Nat, synced <= synced',
           m.pos <= synced', log[m.pos] = m
    PROVE  AckedDurable'
<1>. SUFFICES ASSUME NEW r \in acked \cup {m}
              PROVE  r.pos <= synced' /\ log[r.pos] = r
  BY Zenon DEF AckedDurable
<1>1. CASE r \in acked
  <2>1. r.pos <= synced /\ log[r.pos] = r
    BY <1>1, Zenon DEF AckedDurable
  <2>2. synced \in Nat /\ r.pos \in Nat
    BY <1>1, Bounds, RecordPositions, Zenon
  <2>. QED
    BY <2>1, <2>2
<1>2. CASE r = m
  BY <1>2, Zenon
<1>. QED
  BY <1>1, <1>2, Zenon

(* Steps that leave the log and the group-commit counters alone. *)
LEMMA FrameDurable ==
    ASSUME TypeOK, DurableInv, log' = log, synced' = synced,
           lostFrom' = lostFrom, flushedSeq' = flushedSeq,
           flushErr' = flushErr, pendingSeq' = pendingSeq, acked' = acked
    PROVE  DurableInv'
BY Zenon DEF DurableInv, Covered, AckedDurable

LEMMA AppendDurable ==
    ASSUME IndInv, DurableInv, NEW c \in Callers, NEW v \in Values,
           AppendFollow(c, v) \/ AppendLead(c, v) \/ AppendLeadFlushError(c, v)
    PROVE  DurableInv'
<1>1. /\ Len(log') = Len(log) + 1
      /\ \A i \in 1..Len(log) : log'[i] = log[i]
      /\ pendingSeq' = pendingSeq + 1
  BY ZenonT(40), BufferFacts DEF IndInv, AppendFollow, AppendLead, AppendLeadFlushError,
     CanAppend, WriteCanWork
<1>2. acked' = acked /\ synced' = synced /\ lostFrom' = lostFrom
  BY Zenon DEF AppendFollow, AppendLead, AppendLeadFlushError
<1>3. flushErr' \/ (flushedSeq' = flushedSeq /\ flushErr' = flushErr)
  BY Zenon DEF AppendFollow, AppendLead, AppendLeadFlushError
<1>4. TypeOK /\ Covered /\ AckedDurable
  BY Zenon DEF IndInv, DurableInv
<1>. HIDE DEF IndInv, DurableInv
<1>5. Covered'
  <2>1. Len(log') - pendingSeq' = Len(log) - pendingSeq
    BY <1>1, <1>4, Bounds
  <2>. QED
    BY <1>2, <1>3, <1>4, <2>1, Zenon DEF Covered
<1>6. AckedDurable'
  <2>1. synced \in Nat /\ \A i \in 1..synced : i \in 1..Len(log)
    BY <1>4, Bounds
  <2>2. \A i \in 1..synced : log'[i] = log[i]
    BY <1>1, <2>1, Zenon
  <2>3. synced' \in Nat /\ synced <= synced'
    BY <1>2, <2>1
  <2>. QED
    BY <1>2, <1>4, <2>2, <2>3, AckedKept, Zenon
<1>. QED
  BY Zenon, <1>5, <1>6 DEF DurableInv

(* What a leader finds when its fsync succeeds: everything up to its snapshot
   is durable, its own record included. *)
LEMMA LeaderDurable ==
    ASSUME IndInv, Covered, NEW c \in Callers, pc[c] = "sync", FsyncDone
    PROVE  /\ synced' \in Nat /\ synced <= synced' /\ lostFrom' = 0
           /\ synced' >= flushSeq[c] + (Len(log) - pendingSeq)
           /\ mine[c].pos <= synced' /\ log[mine[c].pos] = mine[c]
<1>1. TypeOK /\ Numbering /\ Calls
  BY Zenon DEF IndInv
<1>2. lostFrom = 0 /\ lostFrom' = lostFrom
  BY Zenon DEF Covered, FsyncDone
<1>3. synced' \in Nat /\ synced <= synced' /\ synced' >= syncing
  BY <1>1, <1>2, FsyncBounds, Bounds, Zenon
<1>4. /\ syncing = flushSeq[c] + (Len(log) - pendingSeq)
      /\ flushSeq[c] \in mySeq[c]..pendingSeq
  BY <1>1, Zenon DEF Calls
<1>5. /\ mine[c].pos = mySeq[c] + (Len(log) - pendingSeq)
      /\ log[mine[c].pos] = mine[c]
  BY <1>1, CallRecord, Zenon
<1>6. mySeq[c] \in Nat /\ flushSeq[c] \in Nat
  BY <1>1, Zenon DEF TypeOK
<1>7. Len(log) \in Nat /\ pendingSeq \in Nat /\ syncing \in Nat
  BY <1>1, Bounds, Zenon
<1>8. mine[c].pos <= syncing
  BY <1>4, <1>5, <1>6, <1>7
<1>9. mine[c].pos \in Int
  BY <1>5, <1>6, <1>7
<1>. QED
  BY <1>2, <1>3, <1>4, <1>5, <1>7, <1>8, <1>9

LEMMA SyncDurable ==
    ASSUME IndInv, DurableInv, "drop" \notin Faults, NEW c \in Callers,
           AppendStep(c)
    PROVE  DurableInv'
<1>1. TypeOK /\ Numbering /\ Calls /\ Covered /\ AckedDurable
  BY Zenon DEF IndInv, DurableInv
<1>2. CASE SyncStepDown(c)
  <2>1. pc[c] = "sync" /\ FsyncDone
    BY Zenon, <1>2 DEF SyncStepDown
  <2>2. /\ log' = log /\ pendingSeq' = pendingSeq
        /\ flushedSeq' = flushSeq[c] /\ acked' = acked \cup {mine[c]}
    BY Zenon, <1>2 DEF SyncStepDown, RoundCovers
  <2>3. /\ synced' \in Nat /\ synced <= synced' /\ lostFrom' = 0
        /\ synced' >= flushSeq[c] + (Len(log) - pendingSeq)
        /\ mine[c].pos <= synced' /\ log[mine[c].pos] = mine[c]
    BY Zenon, <1>1, <2>1, LeaderDurable
  <2>4. Covered'
    BY <2>2, <2>3, Zenon DEF Covered
  <2>5. AckedDurable'
    BY Zenon, <1>1, <2>2, <2>3, AckedGrows
  <2>. QED
    BY Zenon, <2>4, <2>5 DEF DurableInv
<1>3. CASE SyncContinue(c) \/ SyncContinueFlushError(c)
  <2>1. pc[c] = "sync" /\ FsyncDone
    BY Zenon, <1>3 DEF SyncContinue, SyncContinueFlushError
  <2>2. /\ log' = log /\ pendingSeq' = pendingSeq /\ acked' = acked
        /\ flushErr' \/ flushedSeq' = flushSeq[c]
    BY Zenon, <1>3 DEF SyncContinue, SyncContinueFlushError, RoundCovers
  <2>3. /\ synced' \in Nat /\ synced <= synced' /\ lostFrom' = 0
        /\ synced' >= flushSeq[c] + (Len(log) - pendingSeq)
    BY Zenon, <1>1, <2>1, LeaderDurable
  <2>4. Covered'
    BY <2>2, <2>3, Zenon DEF Covered
  <2>5. AckedDurable'
    BY Zenon, <1>1, <2>2, <2>3, AckedKept
  <2>. QED
    BY Zenon, <2>4, <2>5 DEF DurableInv
<1>4. CASE SyncError(c)
  <2>1. /\ log' = log /\ synced' = synced /\ acked' = acked
        /\ flushErr' = TRUE /\ lostFrom' = lostFrom
    BY Zenon, <1>4 DEF SyncError
  <2>. QED
    BY Zenon, <1>1, <2>1 DEF DurableInv, Covered, AckedDurable
<1>5. CASE FollowerWaitAgain(c)
  BY Zenon, <1>1, <1>5, FrameDurable DEF FollowerWaitAgain, fileVars, groupVars
<1>6. CASE FollowerReturn(c)
  <2>1. /\ log' = log /\ synced' = synced /\ lostFrom' = lostFrom
        /\ flushedSeq' = flushedSeq /\ flushErr' = flushErr
        /\ pendingSeq' = pendingSeq
    BY Zenon, <1>6 DEF FollowerReturn, fileVars, groupVars
  <2>2. CASE flushErr
    <3>1. acked' = acked
      BY Zenon, <1>6, <2>2 DEF FollowerReturn, FollowerSucceeds
    <3>. QED
      BY Zenon, <1>1, <2>1, <3>1, FrameDurable
  <2>3. CASE ~flushErr
    <3>1. acked' = acked \cup {mine[c]}
      BY Zenon, <1>6, <2>3 DEF FollowerReturn, FollowerSucceeds
    <3>2. pc[c] # "idle" /\ flushedSeq >= mySeq[c]
      BY <1>6, Zenon DEF FollowerReturn
    <3>3. /\ mine[c].pos = mySeq[c] + (Len(log) - pendingSeq)
          /\ log[mine[c].pos] = mine[c]
      BY Zenon, <1>1, <3>2, CallRecord
    <3>4. mySeq[c] \in 1..pendingSeq
      BY <1>1, <3>2, Zenon DEF Calls
    <3>5. mine[c].pos <= synced
      BY <1>1, <2>3, <3>2, <3>3, <3>4, Bounds DEF Covered
    <3>6. synced' \in Nat /\ synced <= synced' /\ mine[c].pos <= synced'
      BY <1>1, <2>1, <3>5, Bounds
    <3>7. AckedDurable'
      BY Zenon, <1>1, <2>1, <3>1, <3>3, <3>6, AckedGrows
    <3>. QED
      BY Zenon, <1>1, <2>1, <3>7 DEF DurableInv, Covered
  <2>. QED
    BY Zenon, <2>2, <2>3
<1>. QED
  BY Zenon, <1>2, <1>3, <1>4, <1>5, <1>6 DEF AppendStep

LEMMA CrashDurable ==
    ASSUME IndInv, DurableInv, ProcessCrash \/ PowerLoss
    PROVE  DurableInv'
<1>1. TypeOK /\ Covered /\ AckedDurable
  BY Zenon DEF IndInv, DurableInv
<1>2. log \in Seq(Record)
  BY Zenon, <1>1 DEF TypeOK
<1>3. PICK k \in synced..written :
         log' = SubSeq(log, 1, k) /\ synced' \in synced..k
  <2>1. CASE ProcessCrash
    <3>1. written \in synced..written /\ synced \in synced..written
      BY <1>1, Bounds
    <3>2. log' = SubSeq(log, 1, written) /\ synced' = synced
      BY Zenon, <2>1 DEF ProcessCrash
    <3>. QED
      BY Zenon, <3>1, <3>2
  <2>2. CASE PowerLoss
    <3>1. PICK k \in synced..written : log' = SubSeq(log, 1, k) /\ synced' = k
      BY Zenon, <2>2 DEF PowerLoss
    <3>2. k \in synced..k
      BY <1>1, <3>1, Bounds
    <3>. QED
      BY Zenon, <3>1, <3>2
  <2>. QED
    BY Zenon, <2>1, <2>2
<1>4. /\ lostFrom' \in {0, lostFrom} /\ flushedSeq' = 0 /\ acked' = acked
  BY Zenon DEF ProcessCrash, PowerLoss, ForgetProcess
<1>5. Covered'
  BY <1>1, <1>4 DEF Covered
<1>6. k \in 0..Len(log) /\ synced' \in Nat /\ synced <= synced' /\ synced <= k
  BY <1>1, <1>3, Bounds
<1>7. \A i \in 1..synced : log'[i] = log[i]
  <2>1. \A i \in 1..k : log'[i] = log[i]
    BY <1>2, <1>3, <1>6, PrefixFacts, Zenon
  <2>2. \A i \in 1..synced : i \in 1..k
    BY <1>1, <1>6, Bounds
  <2>. QED
    BY Zenon, <2>1, <2>2
<1>8. AckedDurable'
  BY Zenon, <1>1, <1>4, <1>6, <1>7, AckedKept
<1>. QED
  BY Zenon, <1>5, <1>8 DEF DurableInv

LEMMA NextDurable ==
    ASSUME "drop" \notin Faults
    PROVE  IndInv /\ DurableInv /\ [Next]_vars => DurableInv'
<1>. SUFFICES ASSUME IndInv, DurableInv, [Next]_vars
              PROVE  DurableInv'
  BY Zenon
<1>a. TypeOK
  BY Zenon DEF IndInv
<1>1. CASE UNCHANGED vars
  BY Zenon, <1>a, <1>1, FrameDurable DEF vars, fileVars, groupVars
<1>2. ASSUME NEW c \in Callers, AppendWriteError(c)
      PROVE  DurableInv'
  BY Zenon, <1>a, <1>2, FrameDurable DEF AppendWriteError, groupVars
<1>3. ASSUME NEW r \in Readers, ReadEnd(r)
      PROVE  DurableInv'
  BY Zenon, <1>a, <1>3, FrameDurable DEF ReadEnd, fileVars, groupVars
<1>4. ASSUME NEW r \in Readers, NEW from \in 1..MaxRecords, ReadBegin(r, from)
      PROVE  DurableInv'
  BY Zenon, <1>a, <1>4, FrameDurable DEF ReadBegin, fileVars, groupVars
<1>5. CASE CloseWait
  BY Zenon, <1>a, <1>5, FrameDurable DEF CloseWait, fileVars, groupVars
<1>6. CASE CloseDone
  BY Zenon, <1>a, <1>6, FrameDurable DEF CloseDone, groupVars
<1>7. CASE OpenCreate \/ OpenHeaderSynced \/ OpenHeaderSyncError
  BY Zenon, <1>a, <1>7, FrameDurable DEF OpenCreate, OpenHeaderSynced, OpenHeaderSyncError,
     fileVars, groupVars
<1>8. CASE OpenRecover
  BY Zenon, <1>a, <1>8, FrameDurable DEF OpenRecover, fileVars, groupVars
<1>. QED
  BY Zenon, <1>1, <1>2, <1>3, <1>4, <1>5, <1>6, <1>7, <1>8, AppendDurable, SyncDurable,
     CrashDurable DEF Next

LEMMA DurableHolds ==
    ASSUME "drop" \notin Faults
    PROVE  Spec => []DurableInv
BY InitDurable, NextDurable, InvHolds, PTL DEF Spec

(* A caller never returns success before its own bytes are durable
   (wal.go:323), if a failed fsync leaves the dirty pages dirty. *)
THEOREM AcknowledgedIsDurable ==
    ASSUME "drop" \notin Faults
    PROVE  Spec => []AckedDurable
<1>1. DurableInv => AckedDurable
  BY Zenon DEF DurableInv
<1>. QED
  BY <1>1, DurableHolds, PTL

-----------------------------------------------------------------------------
(* Refinement of DurableLog. *)

LEMMA StepImplements ==
    ASSUME IndInv, DurableInv, [Next]_vars
    PROVE  [Abstract!Next]_(Abstract!vars)
<1>a. TypeOK /\ Numbering /\ Calls /\ AckedDurable
  BY Zenon DEF IndInv, DurableInv
<1>b. log \in Seq(Record)
  BY Zenon, <1>a DEF TypeOK
<1>1. ASSUME NEW c \in Callers, NEW v \in Values,
             AppendFollow(c, v) \/ AppendLead(c, v) \/ AppendLeadFlushError(c, v)
      PROVE  Abstract!Accept
  <2>1. next = Len(log) + 1
    BY ZenonT(40), <1>1, <1>a DEF AppendFollow, AppendLead, AppendLeadFlushError, CanAppend,
       WriteCanWork, Numbering
  <2>2. log' = Append(log, [pos |-> next, val |-> v]) /\ acked' = acked
    BY Zenon, <1>1 DEF AppendFollow, AppendLead, AppendLeadFlushError, Buffer
  <2>. QED
    BY <2>1, <2>2, Zenon DEF Abstract!Accept
<1>2. ASSUME NEW c \in Callers, AppendStep(c)
      PROVE  Abstract!Acknowledge \/ UNCHANGED <<log, acked>>
  <2>1. pc[c] \in {"sync", "woken"}
    BY Zenon, <1>2 DEF AppendStep, SyncStepDown, SyncContinue, SyncContinueFlushError, SyncError,
       FollowerWaitAgain, FollowerReturn
  <2>2. /\ log' = log
        /\ acked' = acked \/ acked' = acked \cup {mine[c]}
    BY Zenon, <1>2 DEF AppendStep, SyncStepDown, SyncContinue, SyncContinueFlushError, SyncError,
       FollowerWaitAgain, FollowerReturn, fileVars
  <2>3. mine[c].pos \in 1..Len(log) /\ log[mine[c].pos] = mine[c]
    BY <2>1, <1>a, CallRecord, Zenon
  <2>. QED
    BY <2>2, <2>3, Zenon DEF Abstract!Acknowledge
<1>3. ASSUME ProcessCrash \/ PowerLoss
      PROVE  Abstract!Lose
  <2>1. written \in synced..written
    BY <1>a, Bounds
  <2>2. PICK k \in synced..written : log' = SubSeq(log, 1, k)
    BY Zenon, <1>3, <2>1 DEF ProcessCrash, PowerLoss
  <2>3. k \in 0..Len(log) /\ synced <= k /\ synced \in Nat
    BY <1>a, <2>2, Bounds
  <2>4. \A r \in acked : r.pos <= k
    <3>1. \A r \in acked : r.pos <= synced /\ r.pos \in Nat
      BY <1>a, RecordPositions, Zenon DEF AckedDurable
    <3>. QED
      BY <2>3, <3>1
  <2>5. acked' = acked
    BY Zenon, <1>3 DEF ProcessCrash, PowerLoss, ForgetProcess
  <2>. QED
    BY Zenon, <2>2, <2>3, <2>4, <2>5 DEF Abstract!Lose
<1>4. ASSUME NEW c \in Callers, AppendWriteError(c)
      PROVE  UNCHANGED <<log, acked>>
  BY Zenon, <1>4 DEF AppendWriteError
<1>5. ASSUME NEW r \in Readers,
             ReadEnd(r) \/ \E from \in 1..MaxRecords : ReadBegin(r, from)
      PROVE  UNCHANGED <<log, acked>>
  BY Zenon, <1>5 DEF ReadEnd, ReadBegin, fileVars
<1>6. ASSUME \/ CloseWait \/ CloseDone \/ OpenCreate \/ OpenHeaderSynced
             \/ OpenHeaderSyncError \/ OpenRecover \/ UNCHANGED vars
      PROVE  UNCHANGED <<log, acked>>
  BY Zenon, <1>6 DEF CloseWait, CloseDone, OpenCreate, OpenHeaderSynced, OpenHeaderSyncError,
     OpenRecover, vars, fileVars
<1>. QED
  BY Zenon, <1>1, <1>2, <1>3, <1>4, <1>5, <1>6 DEF Next, Abstract!Next, Abstract!vars

(* The group-commit log does what DurableLog promises: dense positions, and
   nothing acknowledged is ever lost or altered. *)
THEOREM ImplementsDurableLog ==
    ASSUME "drop" \notin Faults
    PROVE  Spec => Implements
<1>1. Init => Abstract!Init
  BY Zenon DEF Init, Abstract!Init
<1>. QED
  BY <1>1, StepImplements, InvHolds, DurableHolds, PTL DEF Spec, Implements, Abstract!Spec

-----------------------------------------------------------------------------
(* Reads, where the machine keeps its power. *)

ReadInv == \A r \in observed : r.pos \in 1..written /\ log[r.pos] = r

(* A step that keeps the written prefix of the log keeps what readers saw. *)
LEMMA ReadKept ==
    ASSUME TypeOK, ReadInv, observed' = observed,
           written' \in Nat, written <= written',
           \A i \in 1..written : log'[i] = log[i]
    PROVE  ReadInv'
<1>. SUFFICES ASSUME NEW r \in observed
              PROVE  r.pos \in 1..written' /\ log'[r.pos] = r
  BY Zenon DEF ReadInv
<1>1. r.pos \in 1..written /\ log[r.pos] = r
  BY Zenon DEF ReadInv
<1>2. written \in Nat
  BY Bounds, Zenon
<1>. QED
  BY <1>1, <1>2

LEMMA NextReads ==
    ASSUME "power" \notin Faults
    PROVE  IndInv /\ ReadInv /\ [Next]_vars => ReadInv'
<1>. SUFFICES ASSUME IndInv, ReadInv, [Next]_vars
              PROVE  ReadInv'
  BY Zenon
<1>a. TypeOK /\ Numbering
  BY Zenon DEF IndInv
<1>b. written \in Nat /\ written <= Len(log) /\ Len(log) \in Nat
  BY <1>a, Bounds, Zenon
<1>c. log \in Seq(Record)
  BY Zenon, <1>a DEF TypeOK
<1>1. ASSUME NEW c \in Callers, NEW v \in Values,
             AppendFollow(c, v) \/ AppendLead(c, v) \/ AppendLeadFlushError(c, v)
      PROVE  ReadInv'
  <2>1. /\ \A i \in 1..Len(log) : log'[i] = log[i]
        /\ Len(log') = Len(log) + 1
    BY ZenonT(40), <1>1, <1>a, BufferFacts DEF AppendFollow, AppendLead, AppendLeadFlushError,
       CanAppend, WriteCanWork
  <2>2. /\ written' \in PartialWrite(log') \/ written' = Len(log')
        /\ observed' = observed
    BY Zenon, <1>1 DEF AppendFollow, AppendLead, AppendLeadFlushError, readVars
  <2>3. written' \in Nat /\ written <= written'
    BY <1>b, <2>1, <2>2 DEF PartialWrite
  <2>4. \A i \in 1..written : i \in 1..Len(log)
    BY <1>b
  <2>5. \A i \in 1..written : log'[i] = log[i]
    BY Zenon, <2>1, <2>4
  <2>. QED
    BY Zenon, <1>a, <2>2, <2>3, <2>5, ReadKept
<1>2. ASSUME NEW r \in Readers, ReadEnd(r)
      PROVE  ReadInv'
  <2>1. /\ log' = log /\ written' = written /\ rd[r] > 0
        /\ observed' = observed \cup
              {log[p] : p \in IF mode = "open"
                              THEN rd[r]..MinOf(Readable, rd[r] + ReadLimit - 1)
                              ELSE {}}
    BY Zenon, <1>2 DEF ReadEnd, fileVars
  <2>2. rd[r] \in Nat
    BY <1>a, Zenon DEF TypeOK
  <2>3. \A p \in rd[r]..MinOf(Readable, rd[r] + ReadLimit - 1) : p \in 1..written
    BY <1>b, <2>1, <2>2, ConstantsAssumption DEF MinOf, Readable
  <2>4. \A p \in 1..written : log[p].pos = p
    BY <1>a, <1>b DEF Numbering
  <2>. SUFFICES ASSUME NEW o \in observed'
                PROVE  o.pos \in 1..written /\ log[o.pos] = o
    BY Zenon, <2>1 DEF ReadInv
  <2>5. CASE o \in observed
    BY Zenon, <2>5 DEF ReadInv
  <2>6. ASSUME NEW p \in 1..written, o = log[p]
        PROVE  o.pos \in 1..written /\ log[o.pos] = o
    BY Zenon, <2>4, <2>6
  <2>7. o \in observed \/ \E p \in 1..written : o = log[p]
    BY Zenon, <2>1, <2>3
  <2>. QED
    BY Zenon, <2>5, <2>6, <2>7
<1>3. CASE ProcessCrash
  <2>1. /\ log' = SubSeq(log, 1, written)
        /\ written' = written /\ observed' = observed
    BY Zenon, <1>3 DEF ProcessCrash, ForgetProcess
  <2>2. written \in 0..Len(log) /\ written' \in Nat /\ written <= written'
    BY <1>b, <2>1
  <2>3. \A i \in 1..written : log'[i] = log[i]
    BY Zenon, <1>c, <2>1, <2>2, PrefixFacts
  <2>. QED
    BY Zenon, <1>a, <2>1, <2>2, <2>3, ReadKept
<1>4. ASSUME \/ \E c \in Callers : AppendStep(c) \/ AppendWriteError(c)
             \/ CloseWait \/ CloseDone
      PROVE  ReadInv'
  <2>1. /\ log' = log /\ observed' = observed
        /\ \/ written' = written \/ written' = Len(log)
           \/ written' \in PartialWrite(log)
    <3>1. ASSUME NEW c \in Callers, AppendStep(c) \/ AppendWriteError(c)
          PROVE  /\ log' = log /\ observed' = observed
                 /\ \/ written' = written \/ written' = Len(log)
                    \/ written' \in PartialWrite(log)
      BY Zenon, <3>1 DEF AppendStep, SyncStepDown, SyncContinue, SyncContinueFlushError,
         SyncError, FollowerWaitAgain, FollowerReturn, AppendWriteError, fileVars, readVars
    <3>2. ASSUME CloseWait \/ CloseDone
          PROVE  /\ log' = log /\ observed' = observed
                 /\ \/ written' = written \/ written' = Len(log)
                    \/ written' \in PartialWrite(log)
      BY Zenon, <3>2 DEF CloseWait, CloseDone, fileVars, readVars
    <3>. QED
      BY Zenon, <1>4, <3>1, <3>2
  <2>2. written' \in Nat /\ written <= written'
    BY <1>b, <2>1 DEF PartialWrite
  <2>. QED
    BY Zenon, <1>a, <2>1, <2>2, ReadKept
<1>5. ASSUME NEW r \in Readers, NEW from \in 1..MaxRecords, ReadBegin(r, from)
      PROVE  ReadInv'
  BY Zenon, <1>5 DEF ReadBegin, ReadInv, fileVars
<1>6. CASE \/ OpenCreate \/ OpenHeaderSynced \/ OpenHeaderSyncError \/ OpenRecover
           \/ UNCHANGED vars
  BY Zenon, <1>6 DEF OpenCreate, OpenHeaderSynced, OpenHeaderSyncError, OpenRecover, vars,
     ReadInv, fileVars, readVars
<1>7. ~PowerLoss
  BY Zenon DEF PowerLoss
<1>. QED
  BY Zenon, <1>1, <1>2, <1>3, <1>4, <1>5, <1>6, <1>7 DEF Next

(* What ReadRange returned stays in the log across process crashes and failed
   rounds; only a power loss can take it back. *)
THEOREM ReadsAreStable ==
    ASSUME "power" \notin Faults
    PROVE  Spec => []ObservedStable
<1>1. Init => ReadInv
  BY Zenon DEF Init, ReadInv
<1>2. IndInv /\ ReadInv => ObservedStable
  <2>. SUFFICES ASSUME IndInv, ReadInv, NEW r \in observed
                PROVE  r.pos \in 1..Len(log) /\ log[r.pos] = r
    BY DEF ObservedStable
  <2>1. r.pos \in 1..written /\ log[r.pos] = r
    BY Zenon DEF ReadInv
  <2>. QED
    BY <2>1, Bounds DEF IndInv
<1>. QED
  BY <1>1, <1>2, NextReads, InvHolds, PTL DEF Spec
=============================================================================
