---------------------------- MODULE EngineProofs ----------------------------
(***************************************************************************)
(* Proofs about Engine, for any keys, values, clients, clocks and faults.  *)
(***************************************************************************)
EXTENDS Engine, SequenceTheorems, WellFoundedInduction, TLAPS

(* The least-number principle. *)
LEMMA Least ==
  ASSUME NEW S \in SUBSET Nat, S # {}
  PROVE  \E q \in S : \A p \in S : q <= p
<1> DEFINE R == {ss \in Nat \X Nat : ss[1] < ss[2]}
<1>1. IsWellFoundedOn(R, Nat)
  BY NatLessThanWellFounded, Zenon DEF OpToRel
<1>2. PICK q \in S : \A p \in S : ~(<<p, q>> \in R)
  <2> HIDE DEF R
  <2> QED BY <1>1, WFMin, Zenon
<1>3. \A p \in S : p < q => <<p, q>> \in R
  BY Zenon
<1>4. \A p \in S : ~(p < q)
  <2> HIDE DEF R
  <2> QED BY <1>2, <1>3, Zenon
<1> QED BY <1>4

(* A non-empty set of numbers with a bound has a greatest one. *)
LEMMA Greatest ==
  ASSUME NEW n \in Nat, NEW S \in SUBSET (1..n), S # {}
  PROVE  \E q \in S : \A p \in S : p <= q
<1> DEFINE D == {n - p : p \in S}
<1>1. D \in SUBSET Nat /\ D # {}
  <2>1. \A p \in S : n - p \in Nat
    OBVIOUS
  <2> QED BY <2>1, Zenon
<1>2. PICK d \in D : \A e \in D : d <= e
  BY <1>1, Least, Zenon
<1>3. PICK q \in S : d = n - q
  BY <1>2, Zenon
<1>4. \A p \in S : d <= n - p
  BY <1>2, Zenon
<1> QED BY <1>3, <1>4

LEMMA Prefix ==
  ASSUME NEW S, NEW s \in Seq(S), NEW n \in 0..Len(s)
  PROVE  /\ SubSeq(s, 1, n) \in Seq(S)
         /\ Len(SubSeq(s, 1, n)) = n
         /\ \A i \in 1..n : SubSeq(s, 1, n)[i] = s[i]
<1>1. \A i \in 1..n : s[i] \in S
  BY ElementOfSeq
<1> QED BY <1>1, SubSeqProperties

(* A client in a call has a request, only a node that is up serves one, and whoever
   holds e.mu across Append has its record at the end of a log that works. *)
Holding ==
    /\ \A c \in Clients : pc[c] # "idle" => mode = "up" /\ req[c] \in Request
    /\ \A c \in Clients : pc[c] = "commit" =>
          log # <<>> /\ log[Len(log)] = req[c].rec /\ ~broken
    /\ \A c \in Clients : pc[c] = "idle" => req[c] = NoRequest
    /\ \A c, d \in Clients : pc[c] = "commit" /\ pc[d] = "commit" => c = d
    /\ mode = "down" => cursor = 0 /\ index = EmptyIndex /\ dedup = EmptyDedup

TypeInv == TypeOK /\ Holding

LEMMA Empties ==
  EmptyIndex \in [Keys -> Entry] /\ EmptyDedup \in [IdemKeys -> Nat] /\ Absent \in Entry
  BY Zenon DEF EmptyIndex, EmptyDedup, Absent, Entry

LEMMA ReplayTypes ==
  ASSUME NEW i \in [Keys -> Entry], NEW d \in [IdemKeys -> Nat], NEW p \in Nat,
         NEW r \in LogRecord
  PROVE  /\ ReplayIndex(i, p, r) \in [Keys -> Entry]
         /\ ReplayDedup(d, p, r) \in [IdemKeys -> Nat]
<1>1. [val |-> r.val, version |-> p, exp |-> r.exp] \in Entry
  BY Zenon DEF Entry, LogRecord
<1> QED BY <1>1, Empties, Zenon DEF ReplayIndex, ReplayDedup, LogRecord

LEMMA TypeInit == Init => TypeInv
<1> SUFFICES ASSUME Init PROVE TypeInv
  BY Zenon
<1>1. log \in Seq(LogRecord) /\ Len(log) = 0
  BY EmptySeq, Zenon DEF Init
<1>2. broken \in BOOLEAN
  BY Zenon DEF Init
<1>3. /\ pc \in [Clients -> {"idle", "called", "commit"}]
      /\ req \in [Clients -> Request \cup {NoRequest}]
  BY Zenon DEF Init
<1>4. TypeOK
  BY <1>1, <1>2, <1>3, Empties DEF Init, TypeOK
<1>5. Holding
  BY Zenon DEF Init, Holding
<1> QED BY <1>4, <1>5, Zenon DEF TypeInv

(* The requests clients make. *)
LEMMA Requests ==
  ASSUME TypeOK, NEW c \in Clients, CallPut(c) \/ CallDelete(c) \/ CallCompareAndSet(c)
  PROVE  \E r \in Request : Call(c, r)
<1>1. \A t \in TTLs : ExpiresAt(t) \in Nat
  BY ConstantsAssumption DEF ExpiresAt, TypeOK
<1>2. CASE CallPut(c)
  BY <1>1, <1>2, Zenon DEF CallPut, Request, LogRecord
<1>3. CASE CallDelete(c)
  BY <1>3, Zenon DEF CallDelete, Request, LogRecord
<1>4. CASE CallCompareAndSet(c)
  BY <1>1, <1>4 DEF CallCompareAndSet, Request, LogRecord
<1> QED BY <1>2, <1>3, <1>4, Zenon

LEMMA CallStep ==
  ASSUME TypeInv, NEW c \in Clients, NEW r \in Request, Call(c, r)
  PROVE  TypeInv'
<1>1. TypeOK'
  BY Zenon DEF TypeInv, TypeOK, Call, logVars, histVars
<1>2. Holding'
  BY Zenon DEF TypeInv, TypeOK, Holding, Call, logVars
<1> QED BY <1>1, <1>2, Zenon DEF TypeInv

(* The request of a call that has e.mu. *)
LEMMA RequestType ==
  ASSUME TypeInv, NEW c \in Clients, pc[c] # "idle"
  PROVE  /\ req[c] \in Request /\ req[c].rec \in LogRecord
         /\ req[c].expected \in Nat /\ req[c].rec.key \in Keys
         /\ req[c].rec.idem \in IdemKeys \cup {NoIdem}
  BY Zenon DEF TypeInv, Holding, Request, LogRecord

LEMMA MutateStep ==
  ASSUME TypeInv, NEW c \in Clients, Mutate(c)
  PROVE  TypeInv'
<1>1. CASE AnswerFromDedup(c)
  <2>1. [pos |-> dedup[req[c].rec.idem], idem |-> req[c].rec.idem]
           \in [pos : Nat, idem : IdemKeys \cup {NoIdem}]
    BY <1>1, RequestType, Zenon DEF AnswerFromDedup, Locks, Deduplicated, TypeInv, TypeOK
  <2>2. TypeOK'
    BY <1>1, <2>1, Zenon DEF AnswerFromDedup, Return, TypeInv, TypeOK, logVars
  <2>3. Holding'
    BY <1>1, Zenon DEF AnswerFromDedup, Return, TypeInv, TypeOK, Holding, logVars
  <2> QED BY <2>2, <2>3, Zenon DEF TypeInv
<1>2. CASE RejectVersion(c) \/ CommitSyncError(c)
  <2>2. TypeOK'
    BY <1>2, Zenon DEF RejectVersion, CommitSyncError, Return, TypeInv, TypeOK, logVars, histVars
  <2>3. Holding'
    <3>1. CASE RejectVersion(c)
      BY <3>1, Zenon DEF RejectVersion, Locks, MuFree, Return, TypeInv, TypeOK, Holding, logVars
    <3>2. CASE CommitSyncError(c)
      BY <3>2, Zenon DEF CommitSyncError, Return, TypeInv, TypeOK, Holding, logVars
    <3> QED BY <1>2, <3>1, <3>2, Zenon
  <2> QED BY <2>2, <2>3 DEF TypeInv
<1>3. CASE BeginCommit(c)
  <2>1. pc[c] # "idle" /\ MuFree /\ mode = "up" /\ ~broken
    BY <1>3, Zenon DEF BeginCommit, Locks
  <2>2. req[c] \in Request /\ req[c].rec \in LogRecord
    BY <2>1, RequestType, Zenon
  <2>3. /\ log' \in Seq(LogRecord) /\ log' # <<>> /\ Len(log') = Len(log) + 1
        /\ log'[Len(log')] = req[c].rec
    <3>1. log \in Seq(LogRecord) /\ log' = Append(log, req[c].rec)
      BY <1>3, Zenon DEF BeginCommit, TypeInv, TypeOK
    <3> QED BY <2>2, <3>1, AppendProperties
  <2>4. TypeOK'
    BY <1>3, <2>3 DEF BeginCommit, TypeInv, TypeOK, histVars
  <2>5. Holding'
    BY <1>3, <2>1, <2>3, Zenon DEF BeginCommit, TypeInv, TypeOK, Holding, MuFree
  <2> QED BY <2>4, <2>5 DEF TypeInv
<1>4. CASE CommitWriteError(c)
  <2>1. broken' \in BOOLEAN
    BY <1>4, Zenon DEF CommitWriteError
  <2>2. TypeOK'
    BY <1>4, <2>1, Zenon DEF CommitWriteError, Return, TypeInv, TypeOK, histVars
  <2>3. Holding'
    BY <1>4, Zenon DEF CommitWriteError, Return, Locks, MuFree, TypeInv, TypeOK, Holding
  <2> QED BY <2>2, <2>3 DEF TypeInv
<1>5. CASE Commit(c)
  <2>1. /\ req[c].rec \in LogRecord /\ req[c].expected \in Nat
        /\ req[c].rec.idem \in IdemKeys \cup {NoIdem}
    BY <1>5, RequestType, Zenon DEF Commit
  <2>2. index' \in [Keys -> Entry] /\ dedup' \in [IdemKeys -> Nat]
    BY <1>5, <2>1, ReplayTypes DEF Commit, TypeInv, TypeOK
  <2>3. /\ acks' \subseteq [pos : Nat, idem : IdemKeys \cup {NoIdem}]
        /\ cas' \subseteq [pos : Nat, expected : Nat, at : Nat]
    BY <1>5, <2>1 DEF Commit, TypeInv, TypeOK
  <2>4. TypeOK'
    BY <1>5, <2>2, <2>3 DEF Commit, Return, TypeInv, TypeOK
  <2>5. Holding'
    BY <1>5, Zenon DEF Commit, Return, TypeInv, TypeOK, Holding
  <2> QED BY <2>4, <2>5 DEF TypeInv
<1> QED BY <1>1, <1>2, <1>3, <1>4, <1>5, Zenon DEF Mutate

LEMMA ResetStep ==
  ASSUME TypeInv, Reset \/ ResetRemoveError \/ ResetOpenError
  PROVE  TypeInv'
<1>1. <<>> \in Seq(LogRecord) /\ Len(<<>>) = 0
  BY EmptySeq, Zenon
<1>2. CASE Reset
  <2>1. TypeOK'
    BY <1>1, <1>2, Empties DEF Reset, TypeInv, TypeOK
  <2>2. Holding'
    BY <1>2, Zenon DEF Reset, MuFree, TypeInv, Holding
  <2> QED BY <2>1, <2>2, Zenon DEF TypeInv
<1>3. CASE ResetRemoveError
  <2>0. broken' \in BOOLEAN
    BY <1>3, Zenon DEF ResetRemoveError
  <2>1. TypeOK'
    BY <1>3, <2>0, Zenon DEF ResetRemoveError, TypeInv, TypeOK, histVars
  <2>2. Holding'
    BY <1>3, Zenon DEF ResetRemoveError, MuFree, TypeInv, Holding
  <2> QED BY <2>1, <2>2 DEF TypeInv
<1>4. CASE ResetOpenError
  <2>0. broken' \in BOOLEAN
    BY <1>4, Zenon DEF ResetOpenError
  <2>1. TypeOK'
    BY <1>1, <1>4, <2>0 DEF ResetOpenError, TypeInv, TypeOK
  <2>2. Holding'
    BY <1>4, Zenon DEF ResetOpenError, MuFree, TypeInv, Holding
  <2> QED BY <2>1, <2>2 DEF TypeInv
<1> QED BY <1>2, <1>3, <1>4, Zenon

LEMMA StopStep ==
  ASSUME TypeInv, ProcessCrash \/ PowerLoss
  PROVE  TypeInv'
<1>1. log' \in Seq(LogRecord) /\ synced' \in 0..Len(log')
  <2>1. CASE ProcessCrash
    BY <2>1, Zenon DEF ProcessCrash, TypeInv, TypeOK
  <2>2. CASE PowerLoss
    <3>1. PICK n \in synced..Len(log) : log' = SubSeq(log, 1, n) /\ synced' = n
      BY <2>2, Zenon DEF PowerLoss
    <3>2. n \in 0..Len(log) /\ log \in Seq(LogRecord)
      BY DEF TypeInv, TypeOK
    <3> QED BY <3>1, <3>2, Prefix
  <2> QED BY <2>1, <2>2, Zenon
<1>2. Stop
  BY Zenon DEF ProcessCrash, PowerLoss
<1>3. broken' \in BOOLEAN
  BY <1>2, Zenon DEF Stop
<1>4. TypeOK'
  BY <1>1, <1>2, <1>3, Empties DEF Stop, TypeInv, TypeOK, histVars
<1>5. Holding'
  BY <1>2, Zenon DEF Stop, Holding
<1> QED BY <1>4, <1>5, Zenon DEF TypeInv

LEMMA RecoverStep ==
  ASSUME TypeInv, Open \/ Replay \/ OpenDone
  PROVE  TypeInv'
<1>1. CASE Open \/ OpenDone
  <2>1. TypeOK'
    BY <1>1, Zenon DEF Open, OpenDone, TypeInv, TypeOK, logVars, histVars
  <2>2. Holding'
    BY <1>1, Zenon DEF Open, OpenDone, TypeInv, Holding, logVars
  <2> QED BY <2>1, <2>2 DEF TypeInv
<1>2. CASE Replay
  <2>1. cursor' \in 0..Len(log) /\ cursor' \in Nat /\ log[cursor'] \in LogRecord
    BY <1>2, ElementOfSeq DEF Replay, TypeInv, TypeOK
  <2>2. index' \in [Keys -> Entry] /\ dedup' \in [IdemKeys -> Nat]
    BY <1>2, <2>1, ReplayTypes, Zenon DEF Replay, TypeInv, TypeOK
  <2>3. TypeOK'
    BY <1>2, <2>1, <2>2, Zenon DEF Replay, TypeInv, TypeOK, logVars, histVars
  <2>4. Holding'
    BY <1>2, Zenon DEF Replay, TypeInv, Holding, logVars
  <2> QED BY <2>3, <2>4 DEF TypeInv
<1> QED BY <1>1, <1>2, Zenon

LEMMA OtherStep ==
  ASSUME TypeInv, Tick \/ UNCHANGED vars
  PROVE  TypeInv'
<1>1. TypeOK'
  BY DEF Tick, vars, TypeInv, TypeOK, logVars, histVars
<1>2. Holding'
  BY DEF Tick, vars, TypeInv, Holding, logVars
<1> QED BY <1>1, <1>2, Zenon DEF TypeInv

LEMMA TypeStep == TypeInv /\ [Next]_vars => TypeInv'
<1> SUFFICES ASSUME TypeInv, [Next]_vars PROVE TypeInv'
  BY Zenon
<1>1. ASSUME NEW c \in Clients, CallPut(c) \/ CallDelete(c) \/ CallCompareAndSet(c)
      PROVE  TypeInv'
  BY <1>1, Requests, CallStep, Zenon DEF TypeInv
<1> QED BY <1>1, MutateStep, ResetStep, StopStep, RecoverStep, OtherStep, Zenon DEF Next

(* The engine is type-correct. *)
THEOREM TypeCorrect == Spec => []TypeOK
<1>1. TypeInv => TypeOK
  BY Zenon DEF TypeInv
<1> QED BY <1>1, TypeInit, TypeStep, PTL DEF Spec

-----------------------------------------------------------------------------
(* What is told and shown is durable. *)

Trusted == faults \cap {"process", "reopen"} = {}

(* What index, dedup and the callers know lies below synced, and a process that is
   not up has lost power, which leaves nothing behind that is not durable. *)
BelowSynced ==
    /\ mode # "up" => synced = Len(log)
    /\ \A k \in Keys : index[k].version <= synced
    /\ \A i \in IdemKeys : dedup[i] # 0 => dedup[i] <= synced /\ log[dedup[i]].idem = i
    /\ \A a \in acks : a.pos \in 1..synced /\ log[a.pos].idem = a.idem

DurableInv == TypeInv /\ (Trusted => BelowSynced)

LEMMA DurableInit == Init => DurableInv
<1> SUFFICES ASSUME Init PROVE BelowSynced
  BY TypeInit, Zenon DEF DurableInv
<1> QED BY DEF Init, BelowSynced, EmptyIndex, EmptyDedup, Absent

LEMMA FaultsFixed == [Next]_vars => faults' = faults
  BY ZenonT(40) DEF Next, Tick, CallPut, CallDelete, CallCompareAndSet, Call, Mutate,
     AnswerFromDedup, RejectVersion, BeginCommit, CommitWriteError, Commit, CommitSyncError,
     Reset, ResetRemoveError, ResetOpenError, ProcessCrash, PowerLoss, Stop, Open, Replay,
     OpenDone, vars

LEMMA BelowSyncedStep ==
  ASSUME TypeInv, TypeInv', [Next]_vars, Trusted, BelowSynced
  PROVE  BelowSynced'
<1> USE DEF TypeInv
<1>1. CASE \/ Tick \/ UNCHANGED vars
           \/ \E c \in Clients : CallPut(c) \/ CallDelete(c) \/ CallCompareAndSet(c)
  <2>1. UNCHANGED <<mode, synced, log, index, dedup, acks>>
    BY <1>1, Zenon DEF Tick, vars, CallPut, CallDelete, CallCompareAndSet, Call, logVars, histVars
  <2> QED BY <2>1, Zenon DEF BelowSynced
<1>2. ASSUME NEW c \in Clients, Mutate(c)
      PROVE  BelowSynced'
  <2>1. CASE AnswerFromDedup(c)
    <3>1. UNCHANGED <<mode, synced, log, index, dedup>>
      BY <2>1, Zenon DEF AnswerFromDedup, logVars
    <3>2. req[c].rec.idem \in IdemKeys /\ dedup[req[c].rec.idem] # 0
      BY <2>1, RequestType, Zenon DEF AnswerFromDedup, Locks, Deduplicated
    <3>3. acks' = acks \cup {[pos |-> dedup[req[c].rec.idem], idem |-> req[c].rec.idem]}
      BY <2>1, Zenon DEF AnswerFromDedup
    <3> QED BY <3>1, <3>2, <3>3 DEF BelowSynced, TypeOK
  <2>2. CASE RejectVersion(c) \/ CommitSyncError(c) \/ CommitWriteError(c)
    <3>1. UNCHANGED <<mode, synced, log, index, dedup, acks>>
      BY <2>2, Zenon DEF RejectVersion, CommitSyncError, CommitWriteError, logVars, histVars
    <3> QED BY <3>1, Zenon DEF BelowSynced
  <2>3. CASE BeginCommit(c)
    <3>1. UNCHANGED <<mode, synced, index, dedup, acks>> /\ mode = "up"
      BY <2>3, Zenon DEF BeginCommit, histVars, Locks
    <3>2. log' = Append(log, req[c].rec) /\ req[c].rec \in LogRecord /\ log \in Seq(LogRecord)
      BY <2>3, RequestType, Zenon DEF BeginCommit, Locks, TypeOK
    <3>3. \A p \in 1..synced : log'[p] = log[p]
      BY <3>2, AppendProperties DEF TypeOK
    <3>4. \A i \in IdemKeys : dedup[i] # 0 => dedup[i] \in 1..synced
      BY DEF BelowSynced, TypeOK
    <3> QED BY <3>1, <3>3, <3>4, Zenon DEF BelowSynced
  <2>4. CASE Commit(c)
    <3>1. /\ mode' = mode /\ log' = log /\ synced' = Len(log)
          /\ index' = ReplayIndex(index, Len(log), req[c].rec)
          /\ dedup' = ReplayDedup(dedup, Len(log), req[c].rec)
          /\ acks' = acks \cup {[pos |-> Len(log), idem |-> req[c].rec.idem]}
      BY <2>4, Zenon DEF Commit
    <3>2. /\ mode = "up" /\ log[Len(log)] = req[c].rec /\ Len(log) \in 1..Len(log)
          /\ req[c].rec \in LogRecord /\ req[c].rec.idem \in IdemKeys \cup {NoIdem}
      BY <2>4, RequestType, EmptySeq DEF Commit, Holding, TypeOK
    <3>3. synced <= Len(log) /\ synced \in Nat /\ Len(log) \in Nat
      BY DEF TypeOK
    <3>4. \A k \in Keys : index'[k] \in {index[k], Absent} \/ index'[k].version = Len(log)
      BY <3>1, <3>2, Zenon DEF ReplayIndex, LogRecord, TypeOK
    <3>5. \A k \in Keys : index'[k].version <= synced'
      <4>1. \A k \in Keys : index[k].version <= synced /\ index[k].version \in Nat
        BY Zenon DEF BelowSynced, TypeOK, Entry
      <4>2. Absent.version = 0
        BY Zenon DEF Absent
      <4> QED BY <3>1, <3>3, <3>4, <4>1, <4>2
    <3>6. \A j \in IdemKeys : dedup'[j] = IF j = req[c].rec.idem THEN Len(log) ELSE dedup[j]
      BY <3>1, <3>2, NoIdemAssumption, Zenon DEF ReplayDedup, TypeOK
    <3>7. \A j \in IdemKeys : dedup'[j] # 0 => dedup'[j] <= synced' /\ log'[dedup'[j]].idem = j
      BY <3>1, <3>2, <3>3, <3>6 DEF BelowSynced, TypeOK
    <3>8. \A a \in acks' : a.pos \in 1..synced' /\ log'[a.pos].idem = a.idem
      BY <3>1, <3>2, <3>3 DEF BelowSynced, TypeOK
    <3> QED BY <3>1, <3>2, <3>5, <3>7, <3>8, Zenon DEF BelowSynced
  <2> QED BY <1>2, <2>1, <2>2, <2>3, <2>4, Zenon DEF Mutate
<1>3. CASE Reset
  BY <1>3 DEF Reset, BelowSynced, EmptyIndex, EmptyDedup, Absent
<1>4. CASE ResetRemoveError
  BY <1>4, Zenon DEF ResetRemoveError, BelowSynced, histVars
<1>5. CASE ProcessCrash \/ ResetOpenError
  BY <1>5, Zenon DEF ProcessCrash, ResetOpenError, Trusted
<1>6. CASE PowerLoss
  <2>1. PICK n \in synced..Len(log) : log' = SubSeq(log, 1, n) /\ synced' = n
    BY <1>6, Zenon DEF PowerLoss
  <2>2. n \in 0..Len(log) /\ log \in Seq(LogRecord) /\ synced \in Nat /\ n \in Nat /\ synced <= n
    BY DEF TypeOK
  <2>3. Len(log') = n /\ \A p \in 1..n : log'[p] = log[p]
    BY <2>1, <2>2, Prefix, Zenon
  <2>4. index' = EmptyIndex /\ dedup' = EmptyDedup /\ acks' = acks
    BY <1>6, Zenon DEF PowerLoss, Stop, histVars
  <2>5. \A a \in acks' : a.pos \in 1..synced' /\ log'[a.pos].idem = a.idem
    BY <2>1, <2>2, <2>3, <2>4 DEF BelowSynced, TypeOK
  <2> QED BY <2>1, <2>2, <2>3, <2>4, <2>5 DEF BelowSynced, EmptyIndex, EmptyDedup, Absent
<1>7. CASE Open \/ OpenDone
  BY <1>7, Zenon DEF Open, OpenDone, BelowSynced, logVars, histVars
<1>8. CASE Replay
  <2>1. /\ synced = Len(log) /\ mode' = mode /\ synced' = synced /\ log' = log /\ acks' = acks
        /\ cursor' \in 1..Len(log)
        /\ index' = ReplayIndex(index, cursor', log[cursor'])
        /\ dedup' = ReplayDedup(dedup, cursor', log[cursor'])
    BY <1>8 DEF Replay, BelowSynced, logVars, histVars, TypeOK
  <2>2. log[cursor'] \in LogRecord /\ cursor' \in Nat /\ Len(log) \in Nat
    BY <2>1, ElementOfSeq DEF TypeOK
  <2>3. \A k \in Keys : index'[k] \in {index[k], Absent} \/ index'[k].version = cursor'
    BY <2>1, <2>2, Zenon DEF ReplayIndex, LogRecord, TypeOK
  <2>4. \A k \in Keys : index'[k].version <= synced'
    BY <2>1, <2>2, <2>3 DEF BelowSynced, Absent
  <2>5. \A j \in IdemKeys : dedup'[j] = IF j = log[cursor'].idem THEN cursor' ELSE dedup[j]
    BY <2>1, <2>2, NoIdemAssumption, Zenon DEF ReplayDedup, LogRecord, TypeOK
  <2>6. \A j \in IdemKeys : dedup'[j] # 0 => dedup'[j] <= synced' /\ log'[dedup'[j]].idem = j
    BY <2>1, <2>2, <2>5 DEF BelowSynced
  <2> QED BY <2>1, <2>4, <2>6, Zenon DEF BelowSynced
<1> QED BY <1>1, <1>2, <1>3, <1>4, <1>5, <1>6, <1>7, <1>8, Zenon DEF Next

LEMMA DurableStep == DurableInv /\ [Next]_vars => DurableInv'
  BY TypeStep, BelowSyncedStep, FaultsFixed, Zenon DEF DurableInv, Trusted

(* No acknowledged loss: whatever a caller was told, by its own commit or by
   dedup, is durable, through failing writes and fsyncs, power losses and wipes. *)
THEOREM AcknowledgedSurvives == Spec => []AckedSurvives
<1>1. DurableInv => AckedSurvives
  BY DEF DurableInv, BelowSynced, Trusted, AckedSurvives, TypeInv, TypeOK
<1> QED BY <1>1, DurableInit, DurableStep, PTL DEF Spec

(* The WAL comes first: nothing a reader can see is lost by a power loss. *)
THEOREM VisibleAfterDurable == Spec => []VisibleIsDurable
<1>1. DurableInv => VisibleIsDurable
  BY Zenon DEF DurableInv, BelowSynced, Trusted, VisibleIsDurable
<1> QED BY <1>1, DurableInit, DurableStep, PTL DEF Spec
-----------------------------------------------------------------------------
(* State and change stream. *)

(* The entry the record at position q of l leaves behind. *)
EntryAt(l, q) ==
    IF l[q].kind = "delete" THEN Absent
    ELSE [val |-> l[q].val, version |-> q, exp |-> l[q].exp]

(* e is what the first n records of l say of key k. *)
LastIn(l, k, n, e) ==
    \/ e = Absent /\ \A p \in 1..n : l[p].key # k
    \/ \E q \in 1..n : /\ l[q].key = k
                       /\ \A p \in 1..n : l[p].key = k => p <= q
                       /\ e = EntryAt(l, q)

(* d[i] is the position of i among the first n records of l, 0 if it has none. *)
PositionIn(l, n, d, i) ==
    d[i] \in 0..n /\ \A p \in 1..n : l[p].idem = i <=> d[i] = p

Agree(l, x, d, n) ==
    /\ \A k \in Keys : LastIn(l, k, n, x[k])
    /\ \A i \in IdemKeys : PositionIn(l, n, d, i)

OneRecord(l) ==
    \A p, q \in 1..Len(l) : l[p].idem # NoIdem /\ l[p].idem = l[q].idem => p = q

LEMMA AgreeEmpty == \A l : Agree(l, EmptyIndex, EmptyDedup, 0)
<1> SUFFICES ASSUME NEW l PROVE Agree(l, EmptyIndex, EmptyDedup, 0)
  BY Zenon
<1>1. ASSUME NEW k \in Keys PROVE LastIn(l, k, 0, EmptyIndex[k])
  BY DEF LastIn, EmptyIndex
<1>2. ASSUME NEW i \in IdemKeys PROVE PositionIn(l, 0, EmptyDedup, i)
  BY DEF PositionIn, EmptyDedup
<1> QED BY <1>1, <1>2, Zenon DEF Agree

LEMMA AgreeFrame ==
  ASSUME NEW l, NEW m, NEW x, NEW d, NEW n \in Nat,
         Agree(l, x, d, n), \A p \in 1..n : m[p] = l[p]
  PROVE  Agree(m, x, d, n)
<1>1. ASSUME NEW k \in Keys PROVE LastIn(m, k, n, x[k])
  <2>1. LastIn(l, k, n, x[k]) /\ \A q \in 1..n : EntryAt(m, q) = EntryAt(l, q)
    BY Zenon DEF Agree, EntryAt
  <2> QED BY <2>1, Zenon DEF LastIn
<1>2. ASSUME NEW i \in IdemKeys PROVE PositionIn(m, n, d, i)
  BY DEF Agree, PositionIn
<1> QED BY <1>1, <1>2, Zenon DEF Agree

(* Committing or replaying the next record keeps both sides in step. *)
LEMMA AgreeNext ==
  ASSUME NEW l \in Seq(LogRecord), NEW x \in [Keys -> Entry], NEW d \in [IdemKeys -> Nat],
         NEW n \in Nat, NEW p \in 1..Len(l), p = n + 1, OneRecord(l), Agree(l, x, d, n)
  PROVE  Agree(l, ReplayIndex(x, p, l[p]), ReplayDedup(d, p, l[p]), p)
<1>0. /\ l[p] \in LogRecord /\ l[p].kind \in {"put", "delete"} /\ l[p].key \in Keys
      /\ l[p].idem \in IdemKeys \cup {NoIdem} /\ Len(l) \in Nat
  <2>1. l[p] \in LogRecord
    BY ElementOfSeq, Zenon
  <2>2. Len(l) \in Nat
    BY LenProperties, Zenon
  <2> QED BY <2>1, <2>2, Zenon DEF LogRecord
<1>1. ASSUME NEW k \in Keys PROVE LastIn(l, k, p, ReplayIndex(x, p, l[p])[k])
  <2>1. CASE l[p].key = k
    <3>1. ReplayIndex(x, p, l[p])[k] = EntryAt(l, p)
      BY <1>0, <2>1, Zenon DEF ReplayIndex, EntryAt
    <3>2. p \in 1..p /\ \A q \in 1..p : l[q].key = k => q <= p
      OBVIOUS
    <3> QED BY <2>1, <3>1, <3>2, Zenon DEF LastIn
  <2>2. CASE l[p].key # k
    <3>1. ReplayIndex(x, p, l[p])[k] = x[k]
      BY <1>0, <2>2, Zenon DEF ReplayIndex
    <3>2. LastIn(l, k, n, x[k])
      BY Zenon DEF Agree
    <3>3. 1..n \subseteq 1..p /\ \A q \in 1..p : l[q].key = k => q \in 1..n
      BY <2>2
    <3> QED BY <3>1, <3>2, <3>3, Zenon DEF LastIn
  <2> QED BY <2>1, <2>2, Zenon
<1>2. ASSUME NEW i \in IdemKeys PROVE PositionIn(l, p, ReplayDedup(d, p, l[p]), i)
  <2>1. PositionIn(l, n, d, i)
    BY Zenon DEF Agree
  <2>2. CASE l[p].idem = i
    <3>1. ReplayDedup(d, p, l[p])[i] = p
      BY <2>2, NoIdemAssumption, Zenon DEF ReplayDedup
    <3>2. \A q \in 1..p : l[q].idem = i => q = p
      BY <1>0, <2>2, NoIdemAssumption DEF OneRecord
    <3> QED BY <2>2, <3>1, <3>2 DEF PositionIn
  <2>3. CASE l[p].idem # i
    <3>1. ReplayDedup(d, p, l[p])[i] = d[i]
      BY <1>0, <2>3, Zenon DEF ReplayDedup
    <3> QED BY <2>1, <2>3, <3>1 DEF PositionIn
  <2> QED BY <2>2, <2>3, Zenon
<1> QED BY <1>1, <1>2, Zenon DEF Agree

LEMMA AgreeIsMatch ==
  ASSUME NEW k, NEW n \in Nat, NEW e, LastIn(log, k, n, e)
  PROVE  e = LastWrite(k, n)
<1>1. CASE e = Absent /\ \A p \in 1..n : log[p].key # k
  BY <1>1, Zenon DEF LastWrite, Touching
<1>2. ASSUME NEW q \in 1..n, log[q].key = k, \A p \in 1..n : log[p].key = k => p <= q,
             e = EntryAt(log, q)
      PROVE  e = LastWrite(k, n)
  <2>1. q \in Touching(k, n) /\ \A p \in Touching(k, n) : p <= q /\ p \in Nat /\ q \in Nat
    BY <1>2 DEF Touching
  <2>2. q = CHOOSE r \in Touching(k, n) : \A o \in Touching(k, n) : o <= r
    <3>1. \A r \in Touching(k, n) : (\A o \in Touching(k, n) : o <= r) => r = q
      BY <2>1
    <3> QED BY <2>1, <3>1, Zenon
  <2> QED BY <1>2, <2>1, <2>2, Zenon DEF LastWrite, EntryAt
<1> QED BY <1>1, <1>2, Zenon DEF LastIn

Synchronous == "sync" \notin faults

(* The log has one record per idempotency key, and what the engine holds is what its
   first Reflected records say. *)
InStep ==
    /\ OneRecord(log)
    /\ ~("reopen" \in faults /\ broken /\ log = <<>>) => Agree(log, index, dedup, Reflected)

MatchInv == TypeInv /\ (Synchronous => InStep)

LEMMA MatchInit == Init => MatchInv
<1> SUFFICES ASSUME Init PROVE InStep
  BY TypeInit DEF MatchInv
<1>1. Len(log) = 0 /\ MuFree /\ mode = "up"
  BY EmptySeq, Zenon DEF Init, MuFree
<1>2. Reflected = 0
  BY <1>1, Zenon DEF Reflected
<1>3. OneRecord(log)
  BY <1>1 DEF OneRecord
<1> QED BY <1>2, <1>3, AgreeEmpty, Zenon DEF Init, InStep

LEMMA ReflectedType == TypeInv => Reflected \in Nat /\ Reflected \in 0..Len(log)
  BY EmptySeq DEF TypeInv, TypeOK, Holding, Reflected, MuFree

(* A step that leaves the log and the state alone. *)
LEMMA InStepFrame ==
  ASSUME InStep, UNCHANGED <<faults, log, index, dedup, mode, cursor>>, MuFree' = MuFree,
         broken' = broken \/ (broken' = TRUE /\ ~broken)
  PROVE  InStep'
<1>1. Reflected' = Reflected
  BY Zenon DEF Reflected
<1>2. broken' = broken \/ ~("reopen" \in faults /\ broken /\ log = <<>>)
  BY Zenon
<1> QED BY <1>1, <1>2, Zenon DEF InStep

LEMMA InStepStep ==
  ASSUME TypeInv, TypeInv', [Next]_vars, Synchronous, InStep
  PROVE  InStep'
<1>0. /\ log \in Seq(LogRecord) /\ index \in [Keys -> Entry] /\ dedup \in [IdemKeys -> Nat]
      /\ Len(log) \in Nat /\ broken \in BOOLEAN /\ pc \in [Clients -> {"idle", "called", "commit"}]
  BY DEF TypeInv, TypeOK
<1>1. CASE Tick \/ UNCHANGED vars
  <2>1. UNCHANGED <<faults, log, index, dedup, mode, cursor, broken, pc>>
    BY <1>1, Zenon DEF Tick, vars, logVars, histVars
  <2>2. MuFree' = MuFree
    BY <2>1, Zenon DEF MuFree
  <2> QED BY <2>1, <2>2, InStepFrame, Zenon
<1>2. ASSUME NEW c \in Clients, CallPut(c) \/ CallDelete(c) \/ CallCompareAndSet(c)
      PROVE  InStep'
  <2>1. PICK r \in Request : Call(c, r)
    BY <1>2, Requests, Zenon DEF TypeInv
  <2>2. UNCHANGED <<faults, log, index, dedup, mode, cursor, broken>>
    BY <2>1, Zenon DEF Call, logVars
  <2>3. \A d \in Clients : pc'[d] = "commit" <=> pc[d] = "commit"
    BY <2>1, <1>0, Zenon DEF Call
  <2>4. MuFree' = MuFree
    BY <2>3, Zenon DEF MuFree
  <2> QED BY <2>2, <2>4, InStepFrame, Zenon
<1>3. ASSUME NEW c \in Clients, AnswerFromDedup(c) \/ RejectVersion(c) \/ CommitWriteError(c)
      PROVE  InStep'
  <2>1. UNCHANGED <<faults, log, index, dedup, mode, cursor>> /\ (broken' = broken \/ broken' = TRUE)
    BY <1>3, Zenon DEF AnswerFromDedup, RejectVersion, CommitWriteError, logVars
  <2>2. \A d \in Clients : pc[d] # "commit" /\ pc'[d] # "commit"
    BY <1>3, <1>0, Zenon DEF AnswerFromDedup, RejectVersion, CommitWriteError, Locks, MuFree, Return
  <2>3. MuFree' = MuFree
    BY <2>2, Zenon DEF MuFree
  <2> QED BY <2>1, <2>3, <1>0, InStepFrame, Zenon
<1>4. ASSUME NEW c \in Clients, BeginCommit(c)
      PROVE  InStep'
  <2>1. /\ mode = "up" /\ mode' = mode /\ MuFree /\ ~MuFree' /\ ~broken
        /\ UNCHANGED <<index, dedup>> /\ log' = Append(log, req[c].rec)
        /\ ~Deduplicated(dedup, req[c].rec.idem)
    BY <1>4, <1>0, Zenon DEF BeginCommit, Locks, MuFree
  <2>2. req[c].rec \in LogRecord /\ req[c].rec.idem \in IdemKeys \cup {NoIdem}
    BY <1>4, RequestType, Zenon DEF BeginCommit, Locks
  <2>3. /\ Len(log') = Len(log) + 1 /\ log'[Len(log) + 1] = req[c].rec
        /\ \A p \in 1..Len(log) : log'[p] = log[p]
    <3>1. log \in Seq(LogRecord) /\ log' = Append(log, req[c].rec)
      BY <1>0, <2>1, Zenon
    <3> QED BY <2>2, <3>1, AppendProperties
  <2>4. Reflected = Len(log) /\ Reflected' = Len(log)
    BY <1>0, <2>1, <2>3 DEF Reflected
  <2>5. Agree(log, index, dedup, Len(log))
    BY <2>1, <2>4, Zenon DEF InStep
  <2>6. Agree(log', index, dedup, Len(log))
    BY <1>0, <2>3, <2>5, AgreeFrame, Zenon
  <2>7. \A p \in 1..Len(log) : req[c].rec.idem # NoIdem => log[p].idem # req[c].rec.idem
    BY <2>1, <2>2, <2>5 DEF Agree, PositionIn, Deduplicated
  <2>8. OneRecord(log')
    <3> SUFFICES ASSUME NEW p \in 1..Len(log'), NEW q \in 1..Len(log'),
                        log'[p].idem # NoIdem, log'[p].idem = log'[q].idem
                 PROVE  p = q
      BY Zenon DEF OneRecord
    <3>1. (p \in 1..Len(log) \/ p = Len(log) + 1) /\ (q \in 1..Len(log) \/ q = Len(log) + 1)
      BY <1>0, <2>3
    <3> QED BY <2>3, <2>7, <3>1, Zenon DEF InStep, OneRecord
  <2> QED BY <2>1, <2>4, <2>6, <2>8, Zenon DEF InStep
<1>5. ASSUME NEW c \in Clients, Commit(c)
      PROVE  InStep'
  <2>1. /\ pc[c] = "commit" /\ UNCHANGED <<faults, log, broken, mode>>
        /\ index' = ReplayIndex(index, Len(log), req[c].rec)
        /\ dedup' = ReplayDedup(dedup, Len(log), req[c].rec)
    BY <1>5, ZenonT(40) DEF Commit
  <2>2. log # <<>> /\ log[Len(log)] = req[c].rec /\ mode = "up" /\ ~MuFree
    BY <2>1, Zenon DEF TypeInv, Holding, MuFree
  <2>3. MuFree'
    BY <1>5, <1>0, Zenon DEF Commit, Return, MuFree, TypeInv, Holding
  <2>4. Reflected = Len(log) - 1 /\ Reflected' = Len(log)
    BY <2>1, <2>2, <2>3, Zenon DEF Reflected
  <2>5. Len(log) \in 1..Len(log) /\ Reflected \in Nat /\ Len(log) = Reflected + 1
    BY <1>0, <2>2, <2>4, EmptySeq
  <2>6. Agree(log, index, dedup, Reflected) /\ OneRecord(log)
    BY <2>2, Zenon DEF InStep
  <2>7. Agree(log, index', dedup', Len(log))
    BY <1>0, <2>1, <2>2, <2>5, <2>6, AgreeNext, Zenon
  <2> QED BY <2>1, <2>4, <2>6, <2>7, Zenon DEF InStep
<1>6. ASSUME NEW c \in Clients, CommitSyncError(c)
      PROVE  InStep'
  BY <1>6, Zenon DEF CommitSyncError, Synchronous
<1>7. CASE Reset
  <2>1. /\ log' = <<>> /\ index' = EmptyIndex /\ dedup' = EmptyDedup
        /\ mode' = "up" /\ MuFree /\ pc' = pc
    BY <1>7, Zenon DEF Reset
  <2>2. Reflected' = 0 /\ Len(log') = 0
    BY <2>1, EmptySeq, Zenon DEF Reflected, MuFree
  <2> QED BY <2>1, <2>2, AgreeEmpty DEF InStep, OneRecord
<1>8. CASE ResetRemoveError
  <2>1. /\ UNCHANGED <<faults, log, index, dedup, mode, cursor, pc>> /\ broken' = TRUE
    BY <1>8, Zenon DEF ResetRemoveError
  <2>2. MuFree' = MuFree
    BY <2>1, Zenon DEF MuFree
  <2> QED BY <2>1, <2>2, <1>0, InStepFrame, Zenon
<1>9. CASE ResetOpenError
  <2>1. log' = <<>> /\ broken' = TRUE /\ Len(log') = 0 /\ "reopen" \in faults'
    BY <1>9, EmptySeq, Zenon DEF ResetOpenError
  <2> QED BY <2>1 DEF InStep, OneRecord
<1>10. CASE ProcessCrash \/ PowerLoss
  <2>1. /\ mode' = "down" /\ cursor' = 0 /\ index' = EmptyIndex /\ dedup' = EmptyDedup
    BY <1>10, Zenon DEF ProcessCrash, PowerLoss, Stop
  <2>2. Reflected' = 0
    BY <2>1, Zenon DEF Reflected
  <2>3. Len(log') \in 0..Len(log) /\ \A p \in 1..Len(log') : log'[p] = log[p]
    <3>1. CASE ProcessCrash
      BY <3>1, <1>0 DEF ProcessCrash
    <3>2. CASE PowerLoss
      <4>1. PICK n \in synced..Len(log) : log' = SubSeq(log, 1, n)
        BY <3>2, Zenon DEF PowerLoss
      <4>2. n \in 0..Len(log)
        BY DEF TypeInv, TypeOK
      <4> QED BY <1>0, <4>1, <4>2, Prefix, Zenon
    <3> QED BY <1>10, <3>1, <3>2, Zenon
  <2>4. OneRecord(log')
    BY <1>0, <2>3 DEF InStep, OneRecord
  <2> QED BY <2>1, <2>2, <2>4, AgreeEmpty, Zenon DEF InStep
<1>11. CASE Open \/ OpenDone
  <2>1. UNCHANGED <<faults, log, index, dedup, cursor, broken, pc>>
    BY <1>11, Zenon DEF Open, OpenDone, logVars
  <2>2. mode # "up" /\ MuFree'
    BY <1>11, <2>1, Zenon DEF Open, OpenDone, TypeInv, Holding, MuFree
  <2>3. Reflected' = Reflected
    BY <1>11, <2>1, <2>2, Zenon DEF Open, OpenDone, Reflected
  <2> QED BY <2>1, <2>3, Zenon DEF InStep
<1>12. CASE Replay
  <2>1. /\ cursor' = cursor + 1 /\ cursor < Len(log) /\ mode = "replay" /\ mode' = mode
        /\ index' = ReplayIndex(index, cursor', log[cursor'])
        /\ dedup' = ReplayDedup(dedup, cursor', log[cursor'])
        /\ UNCHANGED <<faults, log, broken>>
    BY <1>12, Zenon DEF Replay, logVars
  <2>2. cursor \in Nat /\ cursor' \in 1..Len(log) /\ log # <<>>
    BY <1>0, <2>1, EmptySeq DEF TypeInv, TypeOK
  <2>3. Reflected = cursor /\ Reflected' = cursor'
    BY <2>1, Zenon DEF Reflected
  <2>4. Agree(log, index, dedup, cursor) /\ OneRecord(log)
    BY <2>2, <2>3, Zenon DEF InStep
  <2>5. Agree(log, index', dedup', cursor')
    BY <1>0, <2>1, <2>2, <2>4, AgreeNext, Zenon
  <2> QED BY <2>1, <2>3, <2>4, <2>5, Zenon DEF InStep
<1> QED BY <1>1, <1>2, <1>3, <1>4, <1>5, <1>6, <1>7, <1>8, <1>9, <1>10, <1>11, <1>12, Zenon DEF
   Next, Mutate

LEMMA MatchStep == MatchInv /\ [Next]_vars => MatchInv'
  BY TypeStep, InStepStep, FaultsFixed, Zenon DEF MatchInv, Synchronous

(* State and change stream cannot diverge, however mutations, power losses, crashes,
   replays and wipes alternate, as long as no fsync fails. *)
THEOREM StreamIsState == Spec => []StateMatchesStream
<1>1. ASSUME MatchInv PROVE StateMatchesStream
  <2> SUFFICES ASSUME Synchronous, ~("reopen" \in faults /\ broken /\ log = <<>>)
               PROVE  /\ \A k \in Keys : index[k] = LastWrite(k, Reflected)
                      /\ \A i \in IdemKeys, p \in 1..Reflected : log[p].idem = i <=> dedup[i] = p
    BY Zenon DEF StateMatchesStream, Synchronous
  <2>1. Agree(log, index, dedup, Reflected) /\ Reflected \in Nat
    BY <1>1, ReflectedType, Zenon DEF MatchInv, InStep
  <2>2. \A k \in Keys : index[k] = LastWrite(k, Reflected)
    BY <2>1, AgreeIsMatch, Zenon DEF Agree
  <2>3. \A i \in IdemKeys, p \in 1..Reflected : log[p].idem = i <=> dedup[i] = p
    BY <2>1, Zenon DEF Agree, PositionIn
  <2> QED BY <2>2, <2>3, Zenon
<1> QED BY <1>1, MatchInit, MatchStep, PTL DEF Spec

(* A retry with the same idempotency key commits nothing more, as long as no fsync
   fails. *)
THEOREM RetriesCommitOnce == Spec => []CommittedOnce
<1>1. MatchInv => CommittedOnce
  BY Zenon DEF MatchInv, InStep, OneRecord, Synchronous, CommittedOnce, OncePerKey
<1> QED BY <1>1, MatchInit, MatchStep, PTL DEF Spec

-----------------------------------------------------------------------------
(* CompareAndSet. *)

(* What CompareAndSet found before Append still holds of the entry e of its key, at
   time t. *)
Found(e, expected, t) ==
    IF expected > 0 THEN e.version = expected
    ELSE e.version = 0 \/ (e.exp > 0 /\ e.exp < t)

(* What NoLostUpdate says of one commit, with the key and the log as parameters. *)
Overwrote(l, k, n, expected, t) ==
    LET before == {p \in 1..n : l[p].key = k}
    IN IF expected > 0
       THEN /\ expected \in before
            /\ \A p \in before : p <= expected
            /\ l[expected].kind = "put"
       ELSE \/ before = {}
            \/ \E p \in before :
                  /\ \A q \in before : q <= p
                  /\ \/ l[p].kind = "delete"
                     \/ l[p].exp > 0 /\ l[p].exp < t

Updates ==
    /\ \A c \in Clients : pc[c] = "commit" /\ req[c].op = "cas" =>
          Found(index[req[c].rec.key], req[c].expected, now)
    /\ \A h \in cas : /\ h.pos \in 1..synced
                      /\ Overwrote(log, log[h.pos].key, h.pos - 1, h.expected, h.at)

CasInv == MatchInv /\ (Synchronous => Updates)

LEMMA OverwroteFrame ==
  ASSUME NEW l, NEW m, NEW k, NEW n \in Nat, NEW expected, NEW t,
         \A p \in 1..n : m[p] = l[p], Overwrote(l, k, n, expected, t)
  PROVE  Overwrote(m, k, n, expected, t)
<1>1. {p \in 1..n : m[p].key = k} = {p \in 1..n : l[p].key = k}
  BY Zenon
<1> QED BY <1>1, Zenon DEF Overwrote

(* A commit whose condition was found to hold overwrites what it expected. *)
LEMMA FoundOverwrites ==
  ASSUME NEW l, NEW k, NEW n \in Nat, NEW e, NEW expected \in Nat, NEW t \in Nat,
         \A p \in 1..n : l[p] \in LogRecord,
         LastIn(l, k, n, e), Found(e, expected, t)
  PROVE  Overwrote(l, k, n, expected, t)
<1> DEFINE before == {p \in 1..n : l[p].key = k}
<1>1. CASE e = Absent /\ \A p \in 1..n : l[p].key # k
  <2>1. before = {} /\ e.version = 0 /\ e.exp = 0
    BY <1>1, Zenon DEF Absent
  <2>2. expected = 0
    BY <2>1 DEF Found
  <2> QED BY <2>1, <2>2 DEF Overwrote
<1>2. ASSUME NEW q \in 1..n, l[q].key = k, \A p \in 1..n : l[p].key = k => p <= q,
             e = EntryAt(l, q)
      PROVE  Overwrote(l, k, n, expected, t)
  <2>1. q \in before /\ (\A p \in before : p <= q) /\ l[q].kind \in {"put", "delete"} /\ q > 0
    BY <1>2 DEF LogRecord
  <2>2. CASE l[q].kind = "delete"
    <3>1. e.version = 0 /\ e.exp = 0
      BY <1>2, <2>2, Zenon DEF EntryAt, Absent
    <3>2. expected = 0
      BY <3>1 DEF Found
    <3> QED BY <2>1, <2>2, <3>2 DEF Overwrote
  <2>3. CASE l[q].kind = "put"
    <3>1. e.version = q /\ e.exp = l[q].exp
      BY <1>2, <2>3, Zenon DEF EntryAt
    <3>2. CASE expected > 0
      BY <2>1, <2>3, <3>1, <3>2, Zenon DEF Overwrote, Found
    <3>3. CASE expected = 0
      BY <2>1, <2>3, <3>1, <3>3, Zenon DEF Overwrote, Found
    <3> QED BY <3>2, <3>3
  <2> QED BY <2>1, <2>2, <2>3, Zenon
<1> QED BY <1>1, <1>2, Zenon DEF LastIn

(* A step that touches neither a commit under way nor what is durable. *)
LEMMA UpdatesFrame ==
  ASSUME TypeInv, Updates, UNCHANGED <<now, index, cas>>,
         \A c \in Clients : pc'[c] = "commit" => pc[c] = "commit" /\ req'[c] = req[c],
         synced' \in Nat, synced <= synced', \A p \in 1..synced : log'[p] = log[p]
  PROVE  Updates'
<1>1. ASSUME NEW h \in cas
      PROVE  h.pos \in 1..synced' /\ Overwrote(log', log'[h.pos].key, h.pos - 1, h.expected, h.at)
  <2>1. h.pos \in 1..synced /\ synced \in Nat
    BY DEF Updates, TypeInv, TypeOK
  <2>2. /\ h.pos - 1 \in Nat /\ log'[h.pos] = log[h.pos]
        /\ \A p \in 1..(h.pos - 1) : log'[p] = log[p]
    BY <2>1
  <2>3. Overwrote(log, log[h.pos].key, h.pos - 1, h.expected, h.at)
    BY Zenon DEF Updates
  <2> QED BY <2>1, <2>2, <2>3, OverwroteFrame
<1>2. \A c \in Clients : pc'[c] = "commit" /\ req'[c].op = "cas" =>
         Found(index'[req'[c].rec.key], req'[c].expected, now')
  BY Zenon DEF Updates
<1> QED BY <1>1, <1>2, ZenonT(40) DEF Updates

LEMMA UpdatesStep ==
  ASSUME TypeInv, InStep, TypeInv', [Next]_vars, Synchronous, Updates
  PROVE  Updates'
<1>0. /\ log \in Seq(LogRecord) /\ index \in [Keys -> Entry] /\ now \in Nat
      /\ Len(log) \in Nat /\ pc \in [Clients -> {"idle", "called", "commit"}]
      /\ req \in [Clients -> Request \cup {NoRequest}] /\ synced \in Nat /\ synced <= Len(log)
  BY DEF TypeInv, TypeOK
<1>1. CASE Tick
  <2>1. UNCHANGED <<log, synced, index, pc, req, cas>> /\ now' = now + 1
    BY <1>1, Zenon DEF Tick, logVars, histVars
  <2>2. ASSUME NEW c \in Clients, pc[c] = "commit", req[c].op = "cas"
        PROVE  Found(index[req[c].rec.key], req[c].expected, now + 1)
    <3>1. index[req[c].rec.key] \in Entry
      BY <1>0, <2>2, RequestType, Zenon
    <3> QED BY <1>0, <2>2, <3>1 DEF Updates, Found, Entry
  <2> QED BY <2>1, <2>2, Zenon DEF Updates
<1>2. CASE UNCHANGED vars
  BY <1>2, ZenonT(40) DEF vars, Updates, logVars, histVars
<1>3. ASSUME NEW c \in Clients, CallPut(c) \/ CallDelete(c) \/ CallCompareAndSet(c)
      PROVE  Updates'
  <2>1. PICK r \in Request : Call(c, r)
    BY <1>3, Requests, Zenon DEF TypeInv
  <2>2. UNCHANGED <<log, synced, now, index, cas>>
    BY <2>1, Zenon DEF Call, logVars, histVars
  <2>3. \A d \in Clients : pc'[d] = "commit" => pc[d] = "commit" /\ req'[d] = req[d]
    BY <2>1, <1>0, Zenon DEF Call
  <2>4. synced' \in Nat /\ synced <= synced' /\ \A p \in 1..synced : log'[p] = log[p]
    BY <1>0, <2>2
  <2>5. UNCHANGED <<now, index, cas>>
    BY <2>2, Zenon
  <2> QED BY <2>3, <2>4, <2>5, UpdatesFrame, Zenon
<1>4. ASSUME NEW c \in Clients, AnswerFromDedup(c) \/ RejectVersion(c) \/ CommitWriteError(c)
      PROVE  Updates'
  <2>1. UNCHANGED <<log, synced, now, index, cas>>
    BY <1>4, ZenonT(40) DEF AnswerFromDedup, RejectVersion, CommitWriteError, logVars, histVars
  <2>2. \A d \in Clients : pc'[d] # "commit"
    BY <1>4, <1>0, ZenonT(40) DEF AnswerFromDedup, RejectVersion, CommitWriteError, Locks,
       MuFree, Return
  <2>3. synced' \in Nat /\ synced <= synced' /\ \A p \in 1..synced : log'[p] = log[p]
    BY <1>0, <2>1
  <2>4. UNCHANGED <<now, index, cas>>
    BY <2>1, Zenon
  <2>5. \A d \in Clients : pc'[d] = "commit" => pc[d] = "commit" /\ req'[d] = req[d]
    BY <2>2, Zenon
  <2> QED BY <2>3, <2>4, <2>5, UpdatesFrame, Zenon
<1>5. ASSUME NEW c \in Clients, BeginCommit(c)
      PROVE  Updates'
  <2>1. /\ UNCHANGED <<synced, now, index, cas, req>> /\ log' = Append(log, req[c].rec)
        /\ MuFree /\ pc' = [pc EXCEPT ![c] = "commit"] /\ CasHolds(c) /\ pc[c] = "called"
    BY <1>5, Zenon DEF BeginCommit, Locks, histVars
  <2>2. req[c].rec \in LogRecord /\ index[req[c].rec.key] \in Entry /\ req[c].expected \in Nat
    BY <1>0, <2>1, RequestType, Zenon
  <2>3. \A p \in 1..Len(log) : log'[p] = log[p]
    BY <1>0, <2>1, <2>2, AppendProperties
  <2>4. req[c].op = "cas" => Found(index[req[c].rec.key], req[c].expected, now)
    BY <1>0, <2>1, <2>2 DEF CasHolds, LiveVersion, Expired, Found, Entry
  <2>5. \A d \in Clients : pc'[d] = "commit" => d = c
    BY <1>0, <2>1, Zenon DEF MuFree
  <2>6. \A h \in cas : /\ h.pos \in 1..synced'
                       /\ Overwrote(log', log'[h.pos].key, h.pos - 1, h.expected, h.at)
    <3> SUFFICES ASSUME NEW h \in cas
                 PROVE  /\ h.pos \in 1..synced'
                        /\ Overwrote(log', log'[h.pos].key, h.pos - 1, h.expected, h.at)
      BY Zenon
    <3>1. h.pos \in 1..synced /\ Overwrote(log, log[h.pos].key, h.pos - 1, h.expected, h.at)
      BY Zenon DEF Updates
    <3>2. /\ h.pos - 1 \in Nat /\ log'[h.pos] = log[h.pos]
          /\ \A p \in 1..(h.pos - 1) : log'[p] = log[p]
      BY <1>0, <2>3, <3>1
    <3> QED BY <2>1, <3>1, <3>2, OverwroteFrame, ZenonT(40)
  <2> QED BY <2>1, <2>4, <2>5, <2>6, Zenon DEF Updates
<1>6. ASSUME NEW c \in Clients, Commit(c)
      PROVE  Updates'
  <2>1. /\ pc[c] = "commit" /\ log' = log /\ synced' = Len(log)
        /\ cas' = IF req[c].op # "cas" THEN cas
                  ELSE cas \cup {[pos |-> Len(log), expected |-> req[c].expected, at |-> now]}
    BY <1>6, Zenon DEF Commit
  <2>2. \A d \in Clients : pc'[d] # "commit"
    BY <1>6, <1>0, Zenon DEF Commit, Return, TypeInv, Holding
  <2>3. /\ log # <<>> /\ log[Len(log)] = req[c].rec /\ ~broken /\ mode = "up" /\ ~MuFree
        /\ req[c].rec.key \in Keys /\ req[c].expected \in Nat
    BY <2>1, RequestType, Zenon DEF TypeInv, Holding, MuFree
  <2>4. Reflected = Len(log) - 1 /\ Reflected \in Nat /\ Len(log) \in 1..Len(log)
    BY <1>0, <2>3, EmptySeq DEF Reflected
  <2>5. LastIn(log, req[c].rec.key, Len(log) - 1, index[req[c].rec.key])
    BY <2>3, <2>4, Zenon DEF InStep, Agree
  <2>6. \A p \in 1..(Len(log) - 1) : log[p] \in LogRecord
    BY <1>0, ElementOfSeq
  <2>7. req[c].op = "cas" =>
           Overwrote(log, req[c].rec.key, Len(log) - 1, req[c].expected, now)
    <3> SUFFICES ASSUME req[c].op = "cas"
                 PROVE  Overwrote(log, req[c].rec.key, Len(log) - 1, req[c].expected, now)
      BY Zenon
    <3>1. Found(index[req[c].rec.key], req[c].expected, now) /\ Len(log) - 1 \in Nat
      BY <2>1, <2>4, Zenon DEF Updates
    <3> QED BY <1>0, <2>3, <2>5, <2>6, <3>1, FoundOverwrites, Zenon
  <2>8. ASSUME NEW h \in cas'
        PROVE  /\ h.pos \in 1..synced'
               /\ Overwrote(log', log'[h.pos].key, h.pos - 1, h.expected, h.at)
    <3>1. CASE h \in cas
      BY <1>0, <2>1, <3>1 DEF Updates
    <3>2. CASE h \notin cas
      <4>1. req[c].op = "cas" /\ h = [pos |-> Len(log), expected |-> req[c].expected, at |-> now]
        BY <2>1, <2>8, <3>2, Zenon
      <4> QED BY <2>1, <2>3, <2>4, <2>7, <4>1, Zenon
    <3> QED BY <3>1, <3>2, Zenon
  <2> QED BY <2>2, <2>8, Zenon DEF Updates
<1>7. ASSUME NEW c \in Clients, CommitSyncError(c)
      PROVE  Updates'
  BY <1>7, Zenon DEF CommitSyncError, Synchronous
<1>8. CASE Reset \/ ResetOpenError
  <2>1. cas' = {} /\ pc' = pc /\ MuFree
    BY <1>8, Zenon DEF Reset, ResetOpenError
  <2> QED BY <2>1, Zenon DEF MuFree, Updates
<1>9. CASE ResetRemoveError
  BY <1>9, Zenon DEF ResetRemoveError, Updates, histVars
<1>10. CASE ProcessCrash \/ PowerLoss
  <2>1. UNCHANGED <<now, cas>> /\ \A d \in Clients : pc'[d] # "commit"
    BY <1>10, Zenon DEF ProcessCrash, PowerLoss, Stop, histVars
  <2>2. synced' \in Nat /\ synced <= synced' /\ \A p \in 1..synced : log'[p] = log[p]
    <3>1. CASE ProcessCrash
      BY <3>1, <1>0 DEF ProcessCrash
    <3>2. CASE PowerLoss
      <4>1. PICK n \in synced..Len(log) : log' = SubSeq(log, 1, n) /\ synced' = n
        BY <3>2, Zenon DEF PowerLoss
      <4>2. n \in 0..Len(log) /\ n \in Nat /\ synced <= n
        BY <1>0
      <4>3. \A p \in 1..n : log'[p] = log[p]
        BY <1>0, <4>1, <4>2, Prefix, Zenon
      <4> QED BY <1>0, <4>1, <4>2, <4>3
    <3> QED BY <1>10, <3>1, <3>2, Zenon
  <2>3. ASSUME NEW h \in cas
        PROVE  h.pos \in 1..synced' /\ Overwrote(log', log'[h.pos].key, h.pos - 1, h.expected, h.at)
    <3>1. h.pos \in 1..synced /\ Overwrote(log, log[h.pos].key, h.pos - 1, h.expected, h.at)
      BY Zenon DEF Updates
    <3>2. /\ h.pos - 1 \in Nat /\ log'[h.pos] = log[h.pos]
          /\ \A p \in 1..(h.pos - 1) : log'[p] = log[p]
      BY <1>0, <2>2, <3>1
    <3> QED BY <1>0, <2>2, <3>1, <3>2, OverwroteFrame
  <2> QED BY <2>1, <2>3, Zenon DEF Updates
<1>11. CASE Open \/ OpenDone
  BY <1>11, Zenon DEF Open, OpenDone, Updates, logVars, histVars
<1>12. CASE Replay
  <2>1. UNCHANGED <<log, synced, cas, pc>> /\ mode # "up"
    BY <1>12, Zenon DEF Replay, logVars, histVars
  <2>2. \A d \in Clients : pc'[d] # "commit"
    BY <2>1, Zenon DEF TypeInv, Holding
  <2> QED BY <2>1, <2>2, Zenon DEF Updates
<1> QED BY <1>1, <1>2, <1>3, <1>4, <1>5, <1>6, <1>7, <1>8, <1>9, <1>10, <1>11, <1>12, Zenon DEF
   Next, Mutate

LEMMA CasInit == Init => CasInv
<1>1. Init => Updates
  BY Zenon DEF Init, Updates
<1> QED BY <1>1, MatchInit, Zenon DEF CasInv

LEMMA CasStep == CasInv /\ [Next]_vars => CasInv'
  BY MatchStep, UpdatesStep, FaultsFixed, Zenon DEF CasInv, MatchInv, Synchronous

(* No lost update: every commit of CompareAndSet overwrote the version it expected,
   though the clock goes on while its fsync runs. *)
THEOREM UpdatesAreNotLost == Spec => []NoLostUpdate
<1>1. CasInv => NoLostUpdate
  BY Zenon DEF CasInv, Updates, Overwrote, Synchronous, NoLostUpdate, Touching
<1> QED BY <1>1, CasInit, CasStep, PTL DEF Spec

-----------------------------------------------------------------------------
(* The engine implements the key-value store. *)

(* Two states that agree with the same records are the same. *)
LEMMA AgreeUnique ==
  ASSUME NEW l, NEW n \in Nat, NEW x, NEW y, NEW d, NEW e,
         x = [k \in Keys |-> x[k]], y = [k \in Keys |-> y[k]],
         d = [i \in IdemKeys |-> d[i]], e = [i \in IdemKeys |-> e[i]],
         Agree(l, x, d, n), Agree(l, y, e, n)
  PROVE  x = y /\ d = e
<1>1. ASSUME NEW k \in Keys PROVE x[k] = y[k]
  <2>1. LastIn(l, k, n, x[k]) /\ LastIn(l, k, n, y[k])
    BY Zenon DEF Agree
  <2>2. CASE \A p \in 1..n : l[p].key # k
    BY <2>1, <2>2, Zenon DEF LastIn
  <2>3. CASE ~ \A p \in 1..n : l[p].key # k
    <3>1. PICK p \in 1..n : /\ l[p].key = k /\ x[k] = EntryAt(l, p)
                            /\ \A o \in 1..n : l[o].key = k => o <= p
      BY <2>1, <2>3, Zenon DEF LastIn
    <3>2. PICK q \in 1..n : /\ l[q].key = k /\ y[k] = EntryAt(l, q)
                            /\ \A o \in 1..n : l[o].key = k => o <= q
      BY <2>1, <2>3, Zenon DEF LastIn
    <3>3. p <= q /\ q <= p
      BY <3>1, <3>2, Zenon
    <3>4. p = q
      BY <3>3
    <3> QED BY <3>1, <3>2, <3>4, Zenon
  <2> QED BY <2>2, <2>3, Zenon
<1>2. ASSUME NEW i \in IdemKeys PROVE d[i] = e[i]
  BY DEF Agree, PositionIn
<1>3. x = y
  BY <1>1, Zenon
<1>4. d = e
  BY <1>2, Zenon
<1> QED BY <1>3, <1>4, Zenon

(* What the log says of a key and of an idempotency key. *)
LEMMA LastWriteIsLast ==
  ASSUME NEW k, NEW n \in Nat
  PROVE  LastIn(log, k, n, LastWrite(k, n))
<1>1. CASE Touching(k, n) = {}
  BY <1>1, Zenon DEF LastWrite, LastIn, Touching
<1>2. CASE Touching(k, n) # {}
  <2> DEFINE q == CHOOSE r \in Touching(k, n) : \A o \in Touching(k, n) : o <= r
  <2>1. \E r \in Touching(k, n) : \A o \in Touching(k, n) : o <= r
    BY <1>2, Greatest, Zenon DEF Touching
  <2>2. q \in Touching(k, n) /\ \A o \in Touching(k, n) : o <= q
    BY <2>1, Zenon
  <2>3. LastWrite(k, n) = EntryAt(log, q)
    BY <1>2, Zenon DEF LastWrite, EntryAt
  <2> HIDE DEF q
  <2> QED BY <2>2, <2>3, Zenon DEF LastIn, Touching
<1> QED BY <1>1, <1>2, Zenon

LEMMA LastOutcomeIsPosition ==
  ASSUME NEW i \in IdemKeys, Len(log) \in Nat, OneRecord(log)
  PROVE  LastOutcome(i) \in 0..Len(log) /\ \A p \in 1..Len(log) : log[p].idem = i <=> LastOutcome(i) = p
<1> DEFINE keyed == {p \in 1..Len(log) : log[p].idem = i}
<1>1. CASE keyed = {}
  <2>1. LastOutcome(i) = 0
    BY <1>1, Zenon DEF LastOutcome
  <2> QED BY <1>1, <2>1
<1>2. CASE keyed # {}
  <2> DEFINE q == CHOOSE r \in keyed : \A o \in keyed : o <= r
  <2>1. \E r \in keyed : \A o \in keyed : o <= r
    BY <1>2, Greatest, Zenon
  <2>2. q \in keyed
    BY <2>1, Zenon
  <2>3. LastOutcome(i) = q
    BY <1>2, Zenon DEF LastOutcome
  <2>4. \A p \in 1..Len(log) : log[p].idem = i => p = q
    BY <2>2, NoIdemAssumption, Zenon DEF OneRecord
  <2> HIDE DEF q
  <2> QED BY <2>2, <2>3, <2>4
<1> QED BY <1>1, <1>2, Zenon

(* The store holds what the settled records say, whatever the mode. *)
LEMMA StoreAgrees ==
  ASSUME TypeInv, InStep, Regular
  PROVE  /\ Agree(log, Entries, Outcomes, Settled)
         /\ Entries = [k \in Keys |-> Entries[k]] /\ Outcomes = [i \in IdemKeys |-> Outcomes[i]]
         /\ Settled \in Nat /\ Settled <= Len(log)
<1>0. /\ index \in [Keys -> Entry] /\ dedup \in [IdemKeys -> Nat] /\ Len(log) \in Nat
  BY DEF TypeInv, TypeOK
<1>1. CASE mode = "up"
  <2>1. Entries = index /\ Outcomes = dedup /\ Settled = Reflected
    BY <1>1, Zenon DEF Entries, Outcomes, Settled, Reflected
  <2>2. Agree(log, index, dedup, Reflected)
    BY Zenon DEF InStep, Regular
  <2>3. Reflected \in Nat /\ Reflected <= Len(log)
    BY <1>0, ReflectedType
  <2> QED BY <1>0, <2>1, <2>2, <2>3, Zenon
<1>2. CASE mode # "up"
  <2>1. /\ Entries = [k \in Keys |-> LastWrite(k, Len(log))]
        /\ Outcomes = [i \in IdemKeys |-> LastOutcome(i)] /\ Settled = Len(log)
    BY <1>2, Zenon DEF Entries, Outcomes, Settled
  <2>2. \A k \in Keys : LastIn(log, k, Len(log), Entries[k])
    BY <1>0, <2>1, LastWriteIsLast, Zenon
  <2>3. \A i \in IdemKeys : PositionIn(log, Len(log), Outcomes, i)
    BY <1>0, <2>1, LastOutcomeIsPosition, Zenon DEF PositionIn, InStep
  <2> QED BY <1>0, <2>1, <2>2, <2>3 DEF Agree
<1> QED BY <1>1, <1>2, Zenon

(* A step that keeps the settled records keeps the store. *)
LEMMA StoreStays ==
  ASSUME TypeInv, TypeInv', InStep, InStep', Regular, Regular', Settled' = Settled,
         \A p \in 1..Settled : log'[p] = log[p]
  PROVE  Entries' = Entries /\ Outcomes' = Outcomes
<1>1. /\ Agree(log, Entries, Outcomes, Settled) /\ Settled \in Nat
      /\ Entries = [k \in Keys |-> Entries[k]] /\ Outcomes = [i \in IdemKeys |-> Outcomes[i]]
  BY StoreAgrees, Zenon
<1>2. /\ Agree(log', Entries', Outcomes', Settled)
      /\ Entries' = [k \in Keys |-> Entries'[k]] /\ Outcomes' = [i \in IdemKeys |-> Outcomes'[i]]
  <2>1. (/\ Agree(log, Entries, Outcomes, Settled)
         /\ Entries = [k \in Keys |-> Entries[k]]
         /\ Outcomes = [i \in IdemKeys |-> Outcomes[i]])'
    BY StoreAgrees, PTL
  <2> QED BY <2>1
<1>3. Agree(log', Entries, Outcomes, Settled)
  BY <1>1, AgreeFrame, Zenon
<1> QED BY <1>1, <1>2, <1>3, AgreeUnique, Zenon

(* What is settled is durable where only a power loss ends the process. *)
StoreInv ==
    /\ CasInv
    /\ Regular /\ "process" \notin faults => synced = Settled

LEMMA StoreInit == Init => StoreInv
<1> SUFFICES ASSUME Init PROVE synced = Settled
  BY CasInit, Zenon DEF StoreInv
<1> QED BY EmptySeq, Zenon DEF Init, Settled, MuFree

LEMMA SettledStep ==
  ASSUME TypeInv, TypeInv', [Next]_vars, Regular, "process" \notin faults, synced = Settled
  PROVE  synced' = Settled'
<1>0. /\ log \in Seq(LogRecord) /\ Len(log) \in Nat
      /\ pc \in [Clients -> {"idle", "called", "commit"}]
  BY DEF TypeInv, TypeOK
<1>1. CASE Tick \/ UNCHANGED vars
  BY <1>1, Zenon DEF Tick, vars, logVars, Settled, MuFree
<1>2. ASSUME NEW c \in Clients, CallPut(c) \/ CallDelete(c) \/ CallCompareAndSet(c)
      PROVE  synced' = Settled'
  <2>1. PICK r \in Request : Call(c, r)
    BY <1>2, Requests, Zenon DEF TypeInv
  <2>2. UNCHANGED <<log, synced, mode>> /\ \A d \in Clients : pc'[d] = "commit" <=> pc[d] = "commit"
    BY <2>1, <1>0, Zenon DEF Call, logVars
  <2> QED BY <2>2, Zenon DEF Settled, MuFree
<1>3. ASSUME NEW c \in Clients, AnswerFromDedup(c) \/ RejectVersion(c) \/ CommitWriteError(c)
      PROVE  synced' = Settled'
  <2>1. UNCHANGED <<log, synced, mode>>
    BY <1>3, Zenon DEF AnswerFromDedup, RejectVersion, CommitWriteError, logVars
  <2>2. \A d \in Clients : pc[d] # "commit" /\ pc'[d] # "commit"
    BY <1>3, <1>0, Zenon DEF AnswerFromDedup, RejectVersion, CommitWriteError, Locks, MuFree, Return
  <2> QED BY <2>1, <2>2, Zenon DEF Settled, MuFree
<1>4. ASSUME NEW c \in Clients, BeginCommit(c)
      PROVE  synced' = Settled'
  <2>1. /\ mode = "up" /\ MuFree /\ ~MuFree' /\ UNCHANGED <<mode, synced>>
        /\ log' = Append(log, req[c].rec) /\ req[c].rec \in LogRecord
    BY <1>4, <1>0, RequestType, Zenon DEF BeginCommit, Locks, MuFree
  <2>2. Len(log') = Len(log) + 1
    BY <1>0, <2>1, AppendProperties
  <2> QED BY <1>0, <2>1, <2>2 DEF Settled
<1>5. ASSUME NEW c \in Clients, Commit(c)
      PROVE  synced' = Settled'
  <2>1. MuFree'
    BY <1>5, <1>0, Zenon DEF Commit, Return, MuFree, TypeInv, Holding
  <2> QED BY <1>5, <2>1, Zenon DEF Commit, Settled
<1>6. ASSUME NEW c \in Clients, CommitSyncError(c)
      PROVE  synced' = Settled'
  BY <1>6, Zenon DEF CommitSyncError, Regular
<1>7. CASE Reset
  BY <1>7, EmptySeq, Zenon DEF Reset, Settled, MuFree
<1>8. CASE ResetRemoveError
  BY <1>8, Zenon DEF ResetRemoveError, Settled, MuFree
<1>9. CASE ResetOpenError
  BY <1>9, Zenon DEF ResetOpenError, Regular
<1>10. CASE ProcessCrash
  BY <1>10, Zenon DEF ProcessCrash
<1>11. CASE PowerLoss
  <2>1. PICK n \in synced..Len(log) : log' = SubSeq(log, 1, n) /\ synced' = n
    BY <1>11, Zenon DEF PowerLoss
  <2>2. n \in 0..Len(log)
    BY <1>0 DEF TypeInv, TypeOK
  <2>3. Len(log') = n /\ mode' = "down"
    BY <1>0, <1>11, <2>1, <2>2, Prefix, Zenon DEF PowerLoss, Stop
  <2> QED BY <2>1, <2>3, Zenon DEF Settled
<1>12. CASE Open \/ Replay \/ OpenDone
  <2>1. UNCHANGED <<log, synced, pc>> /\ mode # "up"
    BY <1>12, Zenon DEF Open, Replay, OpenDone, logVars
  <2> QED BY <2>1, Zenon DEF Settled, MuFree, TypeInv, Holding
<1> QED BY <1>1, <1>2, <1>3, <1>4, <1>5, <1>6, <1>7, <1>8, <1>9, <1>10, <1>11, <1>12, Zenon DEF
   Next, Mutate

LEMMA StoreStep == StoreInv /\ [Next]_vars => StoreInv'
<1> SUFFICES ASSUME StoreInv, [Next]_vars PROVE StoreInv'
  BY Zenon
<1>1. CasInv' /\ faults' = faults
  BY CasStep, FaultsFixed, Zenon DEF StoreInv
<1>2. Regular' = Regular
  BY <1>1, Zenon DEF Regular
<1>3. TypeInv /\ TypeInv'
  BY <1>1, Zenon DEF StoreInv, CasInv, MatchInv
<1> QED BY <1>1, <1>2, <1>3, SettledStep, Zenon DEF StoreInv

LEMMA RequestIsOne == \A r \in Request : r # NoRequest
  BY DEF Request, NoRequest

(* The record of a commit takes effect as the next position of the store. *)
LEMMA EffectOf ==
  ASSUME TypeInv, NEW c \in Clients, pc[c] = "commit", Synchronous, InStep, Updates, Regular,
         Settled' = Settled + 1, Entries' = ReplayIndex(index, Settled', req[c].rec),
         Outcomes' = ReplayDedup(dedup, Settled', req[c].rec)
  PROVE  Store!Effect(req[c])
<1>0. /\ req[c] \in Request /\ req[c].rec \in LogRecord /\ mode = "up" /\ ~MuFree
      /\ req[c].rec.idem \in IdemKeys \cup {NoIdem} /\ req[c].rec.key \in Keys
      /\ log # <<>> /\ log[Len(log)] = req[c].rec /\ Len(log) \in Nat
  <2>1. Len(log) \in Nat
    BY LenProperties, Zenon DEF TypeInv, TypeOK
  <2> QED BY <2>1, RequestType, Zenon DEF TypeInv, Holding, MuFree
<1>1. Entries = index /\ Outcomes = dedup
  BY <1>0, Zenon DEF Entries, Outcomes
<1>2. Agree(log, index, dedup, Settled) /\ Settled = Len(log) - 1 /\ OneRecord(log)
  BY <1>0, <1>1, StoreAgrees, Zenon DEF Settled, InStep
<1>3. ~Deduplicated(dedup, req[c].rec.idem)
  <2> SUFFICES ASSUME req[c].rec.idem \in IdemKeys PROVE dedup[req[c].rec.idem] = 0
    BY <1>0, Zenon DEF Deduplicated
  <2>1. PositionIn(log, Settled, dedup, req[c].rec.idem)
    BY <1>2, Zenon DEF Agree
  <2>2. \A p \in 1..Settled : log[p].idem # req[c].rec.idem
    BY <1>0, <1>2, EmptySeq, NoIdemAssumption DEF OneRecord
  <2> QED BY <1>0, <1>2, <2>1, <2>2 DEF PositionIn
<1>4. req[c].op = "cas" => Found(index[req[c].rec.key], req[c].expected, now)
  BY Zenon DEF Updates
<1>5. Store!Expected(req[c])
  <2>1. index[req[c].rec.key].exp \in Nat /\ now \in Nat
    <3>1. index[req[c].rec.key] \in Entry /\ now \in Nat
      BY <1>0, Zenon DEF TypeInv, TypeOK
    <3> QED BY <3>1, Zenon DEF Entry
  <2> QED BY <1>1, <1>4, <2>1 DEF Store!Expected, Store!Expired, Found
<1>6. Entries' = [index EXCEPT ![req[c].rec.key] =
                    IF req[c].rec.kind = "delete" THEN Store!Absent
                    ELSE [val |-> req[c].rec.val, version |-> Settled', exp |-> req[c].rec.exp]]
  BY <1>0, Zenon DEF ReplayIndex, LogRecord, Store!Absent, Absent
<1>7. Outcomes' = IF req[c].rec.idem = NoIdem THEN dedup
                  ELSE [dedup EXCEPT ![req[c].rec.idem] = Settled']
  BY Zenon DEF ReplayDedup
<1> QED BY <1>1, <1>3, <1>5, <1>6, <1>7, Zenon DEF Store!Effect, Store!Deduplicated, Deduplicated

(* A crash keeps the settled records, and at most the one that is not. *)
LEMMA CrashOfStore ==
  ASSUME StoreInv, StoreInv', Regular, Regular', ProcessCrash \/ PowerLoss
  PROVE  Store!Crash \/ UNCHANGED Store!vars
<1>0. /\ TypeInv /\ TypeInv' /\ InStep /\ InStep' /\ Synchronous /\ Updates
      /\ log \in Seq(LogRecord) /\ Len(log) \in Nat
      /\ index \in [Keys -> Entry] /\ dedup \in [IdemKeys -> Nat]
  <2>1. Synchronous /\ Synchronous'
    BY Zenon DEF Regular, Synchronous
  <2>2. TypeInv /\ TypeInv' /\ InStep /\ InStep' /\ Updates
    BY <2>1, Zenon DEF StoreInv, CasInv, MatchInv
  <2>3. Len(log) \in Nat
    BY <2>2, LenProperties, Zenon DEF TypeInv, TypeOK
  <2> QED BY <2>1, <2>2, <2>3, Zenon DEF TypeInv, TypeOK
<1>1. /\ req' = [c \in Clients |-> NoRequest] /\ acks' = acks /\ Settled' = Len(log')
      /\ mode' = "down"
  BY Zenon DEF ProcessCrash, PowerLoss, Stop, histVars, Settled
<1>2. Len(log') \in Settled..Len(log) /\ \A p \in 1..Len(log') : log'[p] = log[p]
  <2>1. CASE ProcessCrash
    BY <2>1, <1>0 DEF ProcessCrash, Settled
  <2>2. CASE PowerLoss
    <3>1. PICK n \in synced..Len(log) : log' = SubSeq(log, 1, n)
      BY <2>2, Zenon DEF PowerLoss
    <3>2. synced = Settled
      BY <2>2, Zenon DEF PowerLoss, StoreInv, Regular
    <3>3. n \in 0..Len(log)
      BY <1>0 DEF TypeInv, TypeOK
    <3>4. Len(log') = n /\ \A p \in 1..n : log'[p] = log[p]
      BY <1>0, <3>1, <3>3, Prefix, Zenon
    <3> QED BY <3>1, <3>2, <3>4, Zenon
  <2> QED BY <2>1, <2>2, Zenon
<1>3. CASE Len(log') = Settled
  <2>1. Entries' = Entries /\ Outcomes' = Outcomes /\ Settled' = Settled
    BY <1>0, <1>1, <1>2, <1>3, StoreStays, Zenon
  <2> QED BY <1>1, <2>1, Zenon DEF Store!Crash, Store!store
<1>4. CASE Len(log') # Settled
  <2>1. mode = "up" /\ ~MuFree /\ Settled = Len(log) - 1 /\ Len(log') = Settled + 1
    BY <1>0, <1>2, <1>4 DEF Settled
  <2>2. PICK c \in Clients : pc[c] = "commit"
    BY <2>1, Zenon DEF MuFree
  <2>3. /\ req[c] # NoRequest /\ req[c].rec \in LogRecord /\ log # <<>>
        /\ log[Len(log)] = req[c].rec
    BY <1>0, <2>2, RequestType, RequestIsOne, Zenon DEF TypeInv, Holding
  <2>4. /\ log' \in Seq(LogRecord) /\ Settled \in Nat /\ Settled' \in 1..Len(log')
        /\ Settled' = Settled + 1 /\ log'[Settled'] = req[c].rec /\ Len(log') = Len(log)
    <3>1. log' \in Seq(LogRecord)
      BY <1>0, Zenon DEF TypeInv, TypeOK
    <3> QED BY <1>0, <1>1, <1>2, <2>1, <2>3, <3>1, EmptySeq
  <2>5. Agree(log, index, dedup, Settled)
    BY <1>0, <2>1, StoreAgrees, Zenon DEF Entries, Outcomes
  <2>6. \A p \in 1..Settled : log'[p] = log[p]
    BY <1>0, <1>2, <2>1, <2>4
  <2>7. Agree(log', index, dedup, Settled)
    BY <2>4, <2>5, <2>6, AgreeFrame, Zenon
  <2>8. Agree(log', ReplayIndex(index, Settled', req[c].rec),
              ReplayDedup(dedup, Settled', req[c].rec), Settled')
    <3>1. OneRecord(log')
      BY <1>0, Zenon DEF InStep
    <3> QED BY <1>0, <2>4, <2>7, <3>1, AgreeNext, Zenon
  <2>9. (/\ Agree(log, Entries, Outcomes, Settled)
         /\ Entries = [k \in Keys |-> Entries[k]] /\ Outcomes = [i \in IdemKeys |-> Outcomes[i]])'
    BY <1>0, StoreAgrees, PTL
  <2>10. /\ ReplayIndex(index, Settled', req[c].rec) \in [Keys -> Entry]
         /\ ReplayDedup(dedup, Settled', req[c].rec) \in [IdemKeys -> Nat]
         /\ Settled' \in Nat
    BY <1>0, <2>3, <2>4, ReplayTypes
  <2>11. /\ Entries' = ReplayIndex(index, Settled', req[c].rec)
         /\ Outcomes' = ReplayDedup(dedup, Settled', req[c].rec)
    <3> DEFINE x == ReplayIndex(index, Settled', req[c].rec)
               d == ReplayDedup(dedup, Settled', req[c].rec)
    <3>1. x = [k \in Keys |-> x[k]] /\ d = [i \in IdemKeys |-> d[i]]
      BY <2>10, Zenon
    <3>2. Agree(log', x, d, Settled')
      BY <2>8, Zenon
    <3> HIDE DEF x, d
    <3>3. Entries' = x /\ Outcomes' = d
      BY <2>9, <2>10, <3>1, <3>2, AgreeUnique, Zenon
    <3> QED BY <3>3, Zenon DEF x, d
  <2>12. Store!Effect(req[c])
    BY <1>0, <2>2, <2>4, <2>11, EffectOf, Zenon
  <2> QED BY <1>1, <2>3, <2>12, Zenon DEF Store!Crash
<1> QED BY <1>3, <1>4, Zenon

LEMMA StoreImplements ==
  ASSUME StoreInv, StoreInv', [Next]_vars, Regular
  PROVE  [Store!Next]_(Store!vars)
<1>0. /\ TypeInv /\ TypeInv' /\ InStep /\ InStep' /\ Synchronous /\ Updates /\ Regular'
      /\ Len(log) \in Nat /\ pc \in [Clients -> {"idle", "called", "commit"}]
  <2>1. faults' = faults
    BY FaultsFixed, Zenon
  <2>2. Regular' /\ Synchronous /\ Synchronous'
    BY <2>1, Zenon DEF Regular, Synchronous
  <2>3. TypeInv /\ TypeInv' /\ InStep /\ InStep' /\ Updates
    BY <2>2, Zenon DEF StoreInv, CasInv, MatchInv
  <2>4. Len(log) \in Nat
    BY <2>3, LenProperties, Zenon DEF TypeInv, TypeOK
  <2> QED BY <2>2, <2>3, <2>4, Zenon DEF TypeInv, TypeOK
<1>1. CASE Tick \/ UNCHANGED vars \/ ResetRemoveError
  <2>1. UNCHANGED <<log, index, dedup, mode, pc, req, acks>>
    BY <1>1, Zenon DEF Tick, ResetRemoveError, vars, logVars, histVars
  <2>2. Settled' = Settled
    BY <2>1, Zenon DEF Settled, MuFree
  <2>3. UNCHANGED <<Settled, Entries, Outcomes>>
    BY <1>0, <2>1, <2>2, StoreStays, Zenon
  <2> QED BY <2>1, <2>3, Zenon DEF Store!vars, Store!store
<1>2. ASSUME NEW c \in Clients, CallPut(c) \/ CallDelete(c) \/ CallCompareAndSet(c)
      PROVE  Store!Call(c)
  <2>1. PICK r \in Request : Call(c, r)
    BY <1>0, <1>2, Requests, Zenon DEF TypeInv
  <2>2. /\ UNCHANGED <<log, index, dedup, mode, acks>> /\ mode = "up" /\ req[c] = NoRequest
        /\ req' = [req EXCEPT ![c] = r] /\ req'[c] = r
    BY <1>0, <2>1, Zenon DEF Call, logVars, histVars, TypeInv, TypeOK, Holding
  <2>3. MuFree' = MuFree
    BY <1>0, <2>1, Zenon DEF Call, MuFree
  <2>4. UNCHANGED <<Settled, Entries, Outcomes>>
    BY <2>2, <2>3, Zenon DEF Settled, Entries, Outcomes
  <2> QED BY <2>2, <2>4, Zenon DEF Store!Call, Store!store
<1>3. ASSUME NEW c \in Clients, AnswerFromDedup(c) \/ RejectVersion(c) \/ CommitWriteError(c)
      PROVE  Store!Answer(c) \/ Store!Refuse(c)
  <2>1. /\ UNCHANGED <<log, index, dedup, mode>> /\ mode = "up" /\ pc[c] # "idle"
        /\ req' = [req EXCEPT ![c] = NoRequest]
    BY <1>3, Zenon DEF AnswerFromDedup, RejectVersion, CommitWriteError, Locks, Return, logVars
  <2>2. \A d \in Clients : pc[d] # "commit" /\ pc'[d] # "commit"
    BY <1>3, <1>0, Zenon DEF AnswerFromDedup, RejectVersion, CommitWriteError, Locks, MuFree, Return
  <2>3. UNCHANGED <<Settled, Entries, Outcomes>> /\ Outcomes = dedup
    BY <2>1, <2>2, Zenon DEF Settled, Entries, Outcomes, MuFree
  <2>4. Store!Return(c)
    BY <1>0, <2>1, RequestType, RequestIsOne, Zenon DEF Store!Return
  <2>5. CASE AnswerFromDedup(c)
    BY <2>3, <2>4, <2>5, Zenon DEF AnswerFromDedup, Store!Answer, Store!store,
       Store!Deduplicated, Deduplicated
  <2>6. CASE RejectVersion(c) \/ CommitWriteError(c)
    BY <2>3, <2>4, <2>6, Zenon DEF RejectVersion, CommitWriteError, histVars, Store!Refuse,
       Store!store
  <2> QED BY <1>3, <2>5, <2>6, Zenon
<1>4. ASSUME NEW c \in Clients, BeginCommit(c)
      PROVE  UNCHANGED Store!vars
  <2>1. /\ mode = "up" /\ MuFree /\ ~MuFree' /\ UNCHANGED <<mode, index, dedup, req, acks>>
        /\ log' = Append(log, req[c].rec) /\ req[c].rec \in LogRecord /\ log \in Seq(LogRecord)
    BY <1>4, <1>0, RequestType, Zenon DEF BeginCommit, Locks, MuFree, histVars, TypeInv, TypeOK
  <2>2. Len(log') = Len(log) + 1
    BY <2>1, AppendProperties
  <2>3. Settled' = Settled
    BY <1>0, <2>1, <2>2 DEF Settled
  <2>4. UNCHANGED <<Entries, Outcomes>>
    BY <2>1, Zenon DEF Entries, Outcomes
  <2> QED BY <2>1, <2>3, <2>4, Zenon DEF Store!vars, Store!store
<1>5. ASSUME NEW c \in Clients, Commit(c)
      PROVE  Store!Perform(c)
  <2>1. /\ pc[c] = "commit" /\ mode = "up" /\ UNCHANGED <<mode, log>>
        /\ index' = ReplayIndex(index, Len(log), req[c].rec)
        /\ dedup' = ReplayDedup(dedup, Len(log), req[c].rec)
        /\ acks' = acks \cup {[pos |-> Len(log), idem |-> req[c].rec.idem]}
        /\ req' = [req EXCEPT ![c] = NoRequest]
    BY <1>0, <1>5, ZenonT(40) DEF Commit, Return, TypeInv, Holding
  <2>2. ~MuFree /\ MuFree'
    BY <1>5, <1>0, Zenon DEF Commit, Return, MuFree, TypeInv, Holding
  <2>3. Settled' = Len(log) /\ Settled = Len(log) - 1
    BY <2>1, <2>2, Zenon DEF Settled
  <2>4. Settled' = Settled + 1
    BY <1>0, <2>3
  <2>5. /\ Entries' = ReplayIndex(index, Settled', req[c].rec)
        /\ Outcomes' = ReplayDedup(dedup, Settled', req[c].rec)
    BY <2>1, <2>3, Zenon DEF Entries, Outcomes
  <2>6. Store!Effect(req[c])
    BY <1>0, <2>1, <2>4, <2>5, EffectOf, Zenon
  <2>7. Store!Return(c)
    BY <1>0, <2>1, RequestType, RequestIsOne, Zenon DEF Store!Return
  <2> QED BY <2>1, <2>3, <2>6, <2>7, Zenon DEF Store!Perform
<1>6. ASSUME NEW c \in Clients, CommitSyncError(c)
      PROVE  FALSE
  BY <1>6, Zenon DEF CommitSyncError, Regular
<1>7. CASE Reset
  <2>1. /\ log' = <<>> /\ index' = EmptyIndex /\ dedup' = EmptyDedup /\ acks' = {}
        /\ UNCHANGED <<mode, req>> /\ mode = "up" /\ Len(log') = 0 /\ MuFree'
    BY <1>7, EmptySeq, Zenon DEF Reset, MuFree
  <2>2. Settled' = 0 /\ Entries' = EmptyIndex /\ Outcomes' = EmptyDedup
    BY <2>1, Zenon DEF Settled, Entries, Outcomes
  <2> QED BY <2>1, <2>2, Zenon DEF Store!Reset, Store!EmptyIndex, Store!EmptyDedup, Store!Absent,
     EmptyIndex, EmptyDedup, Absent, Store!Next
<1>8. CASE ResetOpenError
  BY <1>8, Zenon DEF ResetOpenError, Regular
<1>9. CASE ProcessCrash \/ PowerLoss
  BY <1>0, <1>9, CrashOfStore, Zenon DEF Store!Next
<1>10. CASE Open \/ Replay \/ OpenDone
  <2>1. UNCHANGED <<log, pc, req, acks>> /\ mode # "up"
    BY <1>10, Zenon DEF Open, Replay, OpenDone, logVars, histVars
  <2>2. Settled' = Settled
    BY <1>0, <2>1, Zenon DEF Settled, MuFree, TypeInv, Holding
  <2>3. UNCHANGED <<Entries, Outcomes>>
    BY <1>0, <2>1, <2>2, StoreStays, Zenon
  <2> QED BY <2>1, <2>2, <2>3, Zenon DEF Store!vars, Store!store
<1> QED BY <1>1, <1>2, <1>3, <1>4, <1>5, <1>6, <1>7, <1>8, <1>9, <1>10, Zenon DEF Next, Mutate,
   Store!Next

(* Callers see a store whose mutations are atomic, through failed writes, crashes between
   an append and the update of the maps, and replays: index and dedup always are the
   state the abstract store reaches by the requests that took effect. *)
THEOREM EngineIsKeyValue == Spec => ImplementsKeyValue
<1>1. Init => Store!Init
  <2> SUFFICES ASSUME Init PROVE Store!Init
    BY Zenon
  <2>1. Settled = 0 /\ Entries = EmptyIndex /\ Outcomes = EmptyDedup
    BY EmptySeq, Zenon DEF Init, Settled, MuFree, Entries, Outcomes
  <2> QED BY <2>1, Zenon DEF Init, Store!Init, Store!EmptyIndex, Store!EmptyDedup, Store!Absent,
     EmptyIndex, EmptyDedup, Absent
<1>2. StoreInv /\ StoreInv' /\ [Next]_vars => [Regular => Store!Next]_(Store!vars)
  BY StoreImplements, Zenon
<1> QED BY <1>1, <1>2, StoreInit, StoreStep, PTL DEF Spec, ImplementsKeyValue
=============================================================================
