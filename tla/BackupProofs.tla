---------------------------- MODULE BackupProofs ----------------------------
(***************************************************************************)
(* Proofs about Backup, for any keys, operators, paths and faults.         *)
(***************************************************************************)
EXTENDS Backup, SequenceTheorems, WellFoundedInduction, TLAPS

(* The least-number principle. *)
LEMMA Least ==
  ASSUME NEW S \in SUBSET Nat, S # {}
  PROVE  \E q \in S : \A p \in S : q <= p
<1> DEFINE R == {ss \in Nat \X Nat : ss[1] < ss[2]}
<1>1. IsWellFoundedOn(R, Nat)
  BY NatLessThanWellFounded, Zenon DEF OpToRel
<1>2. PICK q \in S : \A p \in S : ~(<<p, q>> \in R)
  <2> HIDE DEF R
  <2> QED BY <1>1, WFMin, Zenon
<1>3. \A p \in S : p < q => <<p, q>> \in R
  BY Zenon
<1>4. \A p \in S : ~(p < q)
  <2> HIDE DEF R
  <2> QED BY <1>2, <1>3, Zenon
<1> QED BY <1>4

(* A non-empty set of numbers with a bound has a greatest one. *)
LEMMA Greatest ==
  ASSUME NEW n \in Nat, NEW S \in SUBSET (1..n), S # {}
  PROVE  \E q \in S : \A p \in S : p <= q
<1> DEFINE D == {n - p : p \in S}
<1>1. D \in SUBSET Nat /\ D # {}
  <2>1. \A p \in S : n - p \in Nat
    OBVIOUS
  <2> QED BY <2>1, Zenon
<1>2. PICK d \in D : \A e \in D : d <= e
  BY <1>1, Least, Zenon
<1>3. PICK q \in S : d = n - q
  BY <1>2, Zenon
<1>4. \A p \in S : d <= n - p
  BY <1>2, Zenon
<1> QED BY <1>3, <1>4

InCall == {"snapped", "pointed", "created", "written", "read", "load", "restored"}

(* Who has created a file finds it there. *)
Present ==
    \A o \in Operators : pc[o] \in {"created", "written"} => files[call[o].path] \in File

(* Every record has a position; positions of failed writes have no record. *)
Assigned == next \in Nat \ {0} /\ Len(log) < next

(* An operator in a call has what it has read; nobody is in one on a node that is down. *)
TypeInv ==
    /\ TypeOK
    /\ call \in [Operators -> Call \cup {NoCall}]
    /\ \A o \in Operators : pc[o] \in InCall => call[o] \in Call
    /\ ~up => \A o \in Operators : pc[o] = "idle"
    /\ Present
    /\ Assigned

LEMMA SnapshotType ==
  ASSUME NEW s \in [Keys -> Values \cup {NoValue}]
  PROVE  Snapshot(s) \in SUBSET Entry
  BY DEF Snapshot, Entry

LEMMA NothingType == Nothing \in [Keys -> Values \cup {NoValue}]
  BY Zenon DEF Nothing

LEMMA ReplayedType ==
  ASSUME NEW l \in Seq(Record)
  PROVE  Replayed(l) \in [Keys -> Values \cup {NoValue}]
<1> SUFFICES ASSUME NEW k \in Keys
             PROVE  LET touching == {p \in 1..Len(l) : l[p].key = k}
                    IN (IF touching = {} THEN NoValue ELSE l[Max(touching)].val)
                          \in Values \cup {NoValue}
  BY Zenon DEF Replayed
<1> DEFINE touching == {p \in 1..Len(l) : l[p].key = k}
<1>0. Len(l) \in Nat
  BY LenProperties, Zenon
<1>1. ASSUME touching # {} PROVE Max(touching) \in touching
  <2>1. touching \in SUBSET (1..Len(l))
    BY Zenon
  <2>2. PICK q \in touching : \A p \in touching : p <= q
    BY <1>0, <1>1, <2>1, Greatest, Zenon
  <2>3. \A p \in touching : q >= p
    BY <1>0, <2>1, <2>2, Zenon
  <2> QED BY <2>2, <2>3, Zenon DEF Max
<1>2. \A p \in touching : l[p].val \in Values \cup {NoValue}
  <2>1. \A p \in 1..Len(l) : l[p] \in Record
    BY ElementOfSeq, Zenon
  <2> QED BY <2>1, Zenon DEF Record
<1> HIDE DEF touching
<1>3. (IF touching = {} THEN NoValue ELSE l[Max(touching)].val) \in Values \cup {NoValue}
  BY <1>1, <1>2, Zenon
<1> QED BY <1>3, Zenon DEF touching

LEMMA TypeInit == Init => TypeInv
<1> SUFFICES ASSUME Init PROVE TypeInv
  BY Zenon
<1>1. up \in BOOLEAN /\ broken \in BOOLEAN
  BY Zenon DEF Init
<1>2. log \in Seq(Record)
  BY EmptySeq, Zenon DEF Init
<1>3. /\ pc \in [Operators -> {"idle", "snapped", "pointed", "created", "written",
                               "read", "load", "restored", "counted"}]
      /\ call \in [Operators -> Call \cup {NoCall}]
  BY Zenon DEF Init
<1>4. Assigned
  BY EmptySeq DEF Init, Assigned
<1>5. TypeOK
  BY <1>1, <1>2, <1>3, <1>4, NothingType, Zenon DEF Init, TypeOK, Numberings, Assigned
<1> QED BY <1>3, <1>4, <1>5, Zenon DEF Init, TypeInv, InCall, Present

(* The engine's part of a step. *)
EngineTypes ==
    /\ broken \in BOOLEAN /\ log \in Seq(Record)
    /\ state \in [Keys -> Values \cup {NoValue}] /\ resets \in Nat
    /\ Assigned

LEMMA WritesType ==
  ASSUME EngineTypes, NEW k \in Keys, NEW v \in Values \cup {NoValue},
         NEW by \in Operators \cup {Client}, Writes(k, v, by)
  PROVE  EngineTypes'
<1>1. [key |-> k, val |-> v, by |-> by] \in Record
  BY Zenon DEF Record
<1>2. log' \in Seq(Record)
  BY <1>1, AppendProperties, Zenon DEF Writes, EngineTypes
<1>3. state' \in [Keys -> Values \cup {NoValue}]
  BY Zenon DEF Writes, EngineTypes
<1>4. Len(log') = Len(log) + 1 /\ Len(log) \in Nat
  BY <1>1, AppendProperties, LenProperties, Zenon DEF Writes, EngineTypes
<1>5. Assigned'
  BY <1>4 DEF Writes, EngineTypes, Assigned
<1> QED BY <1>2, <1>3, <1>5, Zenon DEF Writes, EngineTypes

LEMMA WriteFailsType ==
  ASSUME EngineTypes, WriteFails
  PROVE  EngineTypes'
<1>1. Len(log) \in Nat
  BY LenProperties, Zenon DEF EngineTypes
<1>2. Assigned'
  BY <1>1 DEF WriteFails, EngineTypes, Assigned
<1> QED BY <1>2, Zenon DEF WriteFails, EngineTypes

LEMMA ResetType ==
  ASSUME EngineTypes, Reset \/ ResetError
  PROVE  EngineTypes'
<1>1. log' \in Seq(Record)
  BY EmptySeq, Zenon DEF Reset, ResetError, EngineTypes, engineVars
<1>2. broken' \in BOOLEAN
  BY Zenon DEF Reset, ResetError, EngineTypes, engineVars
<1>3. state' \in [Keys -> Values \cup {NoValue}] /\ resets' \in Nat
  BY NothingType DEF Reset, ResetError, EngineTypes, engineVars
<1>4. \/ log' = log /\ next' = next
      \/ Len(log') = 0 /\ (next' = 1 \/ next' = next)
  BY EmptySeq, Zenon DEF Reset, ResetError, engineVars
<1>5. Assigned'
  BY <1>4 DEF EngineTypes, Assigned
<1> QED BY <1>1, <1>2, <1>3, <1>5, Zenon DEF EngineTypes

(* The calls' part: one operator's call goes on, or returns. *)
CallTypes ==
    /\ pc \in [Operators -> {"idle", "snapped", "pointed", "created", "written",
                             "read", "load", "restored", "counted"}]
    /\ call \in [Operators -> Call \cup {NoCall}]
    /\ \A o \in Operators : pc[o] \in InCall => call[o] \in Call

LEMMA ReturnsType ==
  ASSUME CallTypes, NEW o \in Operators, Returns(o)
  PROVE  CallTypes'
  BY Zenon DEF CallTypes, Returns, Goes, InCall

LEMMA GoesType ==
  ASSUME CallTypes, NEW o \in Operators, NEW step \in InCall, NEW c \in Call,
         Goes(o, step), call' = [call EXCEPT ![o] = c]
  PROVE  CallTypes'
  BY Zenon DEF CallTypes, Goes, InCall

FileTypes == files \in [Paths -> File \cup {NoFile}] /\ acked \subseteq Call

LEMMA TypeParts ==
  ASSUME TypeInv
  PROVE  /\ EngineTypes /\ CallTypes /\ FileTypes
         /\ faults \in FaultSets /\ up \in BOOLEAN /\ types \in Numberings
  BY Zenon DEF TypeInv, TypeOK, EngineTypes, CallTypes, FileTypes

LEMMA TypeWhole ==
  ASSUME EngineTypes', CallTypes', FileTypes', Present', faults' \in FaultSets, up' \in BOOLEAN,
         types' \in Numberings, ~up' => \A o \in Operators : pc'[o] = "idle"
  PROVE  TypeInv'
  BY Zenon DEF TypeInv, TypeOK, EngineTypes, CallTypes, FileTypes, Assigned

(* Operators call nodes that are up. *)
LEMMA CallsOnly ==
  ASSUME TypeInv, NEW o \in Operators, Operator(o)
  PROVE  up = TRUE /\ up' = TRUE /\ faults' = faults /\ types' = types
<1>1. up' = up /\ faults' = faults /\ types' = types
  BY Zenon DEF Operator, BackupSnapshot, BackupPoint, BackupCreate, BackupWrite, BackupDiskError,
     BackupSync, RestoreRead, RestoreReset, RestoreResetError, RestorePut, RestorePutError,
     RestoreDone, RestoreReturn, DeleteCount, DeleteReset
<1>2. up \/ pc[o] # "idle"
  BY Zenon DEF Operator, BackupSnapshot, BackupPoint, BackupCreate, BackupWrite, BackupDiskError,
     BackupSync, RestoreRead, RestoreReset, RestoreResetError, RestorePut, RestorePutError,
     RestoreDone, RestoreReturn, DeleteCount, DeleteReset, Begins, At
<1>3. up \in BOOLEAN
  BY TypeParts, Zenon
<1> QED BY <1>1, <1>2, <1>3, Zenon DEF TypeInv

LEMMA UnwrittenType == \A e \in SUBSET Entry : Unwritten(e) \in File
  BY Zenon DEF Unwritten, File, Checksum, Numberings

(* A file is made, written or synced. *)
LEMMA FileStep ==
  ASSUME TypeInv, NEW p \in Paths, NEW f \in File,
         files' = [files EXCEPT ![p] = f], acked' \subseteq Call
  PROVE  FileTypes'
  BY Zenon DEF TypeInv, TypeOK, FileTypes

LEMMA BackupType ==
  ASSUME TypeInv, NEW o \in Operators,
         \/ BackupSnapshot(o) \/ BackupPoint(o) \/ BackupCreate(o) \/ BackupWrite(o)
         \/ BackupDiskError(o) \/ BackupSync(o)
  PROVE  EngineTypes' /\ CallTypes' /\ FileTypes'
<1>0. EngineTypes /\ CallTypes /\ FileTypes /\ types \in Numberings /\ Len(log) \in Nat
  <2>1. EngineTypes /\ CallTypes /\ FileTypes /\ types \in Numberings
    BY TypeParts, Zenon
  <2> QED BY <2>1, LenProperties, Zenon DEF EngineTypes
<1>1. EngineTypes'
  <2>1. UNCHANGED engineVars
    BY Zenon DEF BackupSnapshot, BackupPoint, BackupCreate, BackupWrite, BackupDiskError, BackupSync
  <2> QED BY <1>0, <2>1, Zenon DEF EngineTypes, engineVars, Assigned
<1>2. CASE BackupSnapshot(o)
  <2>1. PICK p \in Paths :
          call' = [call EXCEPT ![o] = [path |-> p, entries |-> Snapshot(state),
                      origin |-> Snapshot(state), left |-> {}, at |-> Len(log), point |-> 0,
                      reset |-> resets, era |-> 0]]
    BY <1>2, Zenon DEF BackupSnapshot
  <2>2. Snapshot(state) \in SUBSET Entry
    BY <1>0, SnapshotType, Zenon DEF EngineTypes
  <2>3. [path |-> p, entries |-> Snapshot(state), origin |-> Snapshot(state), left |-> {},
         at |-> Len(log), point |-> 0, reset |-> resets, era |-> 0] \in Call
    BY <1>0, <2>2, Zenon DEF Call, EngineTypes
  <2>4. Goes(o, "snapped") /\ "snapped" \in InCall
    BY <1>2, Zenon DEF BackupSnapshot, InCall
  <2>5. CallTypes'
    BY <1>0, <2>1, <2>3, <2>4, GoesType, Zenon
  <2>6. FileTypes'
    BY <1>0, <1>2, Zenon DEF BackupSnapshot, FileTypes
  <2> QED BY <1>1, <2>5, <2>6, Zenon
<1>3. CASE BackupPoint(o)
  <2>1. call[o] \in Call
    BY <1>0, <1>3, Zenon DEF BackupPoint, At, CallTypes, InCall
  <2> DEFINE c == [call[o] EXCEPT !.point = next - 1, !.era = resets]
  <2>0. next - 1 \in Nat
    BY <1>0 DEF EngineTypes, Assigned
  <2>2. c \in Call
    BY <1>0, <2>0, <2>1, Zenon DEF Call, EngineTypes
  <2>3. call' = [call EXCEPT ![o] = c] /\ Goes(o, "pointed") /\ "pointed" \in InCall
    BY <1>3, <1>0, Zenon DEF BackupPoint, InCall, CallTypes
  <2> HIDE DEF c
  <2>4. CallTypes'
    BY <1>0, <2>2, <2>3, GoesType, Zenon
  <2>5. FileTypes'
    BY <1>0, <1>3, Zenon DEF BackupPoint, FileTypes
  <2> QED BY <1>1, <2>4, <2>5, Zenon
<1>4. CASE BackupCreate(o)
  <2>1. call[o] \in Call /\ call[o].path \in Paths /\ call[o].entries \in SUBSET Entry
    BY <1>0, <1>4, Zenon DEF BackupCreate, At, CallTypes, InCall, Call
  <2>2. CASE files[call[o].path] # NoFile
    <3>1. Returns(o) /\ UNCHANGED <<files, acked>>
      BY <1>4, <2>2, Zenon DEF BackupCreate
    <3> QED BY <1>0, <1>1, <3>1, ReturnsType, Zenon DEF FileTypes
  <2>3. CASE files[call[o].path] = NoFile
    <3>1. /\ files' = [files EXCEPT ![call[o].path] = Unwritten(call[o].entries)]
          /\ Goes(o, "created") /\ call' = call /\ acked' = acked
      BY <1>4, <2>3, Zenon DEF BackupCreate
    <3>2. FileTypes'
      BY <1>0, <2>1, <3>1, UnwrittenType, FileStep, Zenon DEF FileTypes
    <3>3. CallTypes'
      BY <1>0, <2>1, <3>1, Zenon DEF CallTypes, Goes, InCall
    <3> QED BY <1>1, <3>2, <3>3, Zenon
  <2> QED BY <2>2, <2>3, Zenon
<1>5. CASE BackupWrite(o)
  <2>1. /\ call[o] \in Call /\ call[o].path \in Paths /\ call[o].entries \in SUBSET Entry
        /\ call[o].point \in Nat
    BY <1>0, <1>5, Zenon DEF BackupWrite, At, CallTypes, InCall, Call
  <2> DEFINE f == [origin |-> call[o].entries, whole |-> TRUE, synced |-> FALSE,
                   entries |-> call[o].entries, point |-> call[o].point,
                   sum |-> Checksum(call[o].entries, types)]
  <2>2. f \in File
    BY <1>0, <2>1, Zenon DEF File, Checksum
  <2>3. /\ files' = [files EXCEPT ![call[o].path] = f]
        /\ Goes(o, "written") /\ call' = call /\ acked' = acked
    BY <1>5, Zenon DEF BackupWrite
  <2> HIDE DEF f
  <2>4. FileTypes'
    BY <1>0, <2>1, <2>2, <2>3, FileStep, Zenon DEF FileTypes
  <2>5. CallTypes'
    BY <1>0, <2>1, <2>3, Zenon DEF CallTypes, Goes, InCall
  <2> QED BY <1>1, <2>4, <2>5
<1>6. CASE BackupDiskError(o)
  <2>1. Returns(o) /\ UNCHANGED <<files, acked>>
    BY <1>6, Zenon DEF BackupDiskError
  <2> QED BY <1>0, <1>1, <2>1, ReturnsType DEF FileTypes
<1>7. CASE BackupSync(o)
  <2>1. call[o] \in Call /\ call[o].path \in Paths
    BY <1>0, <1>7, Zenon DEF BackupSync, At, CallTypes, InCall, Call
  <2>2. /\ files' = [files EXCEPT ![call[o].path].synced = TRUE]
        /\ Returns(o) /\ acked' = acked \cup {call[o]}
    BY <1>7, Zenon DEF BackupSync
  <2>3. files[call[o].path] \in File
    BY <1>7, Zenon DEF BackupSync, At, TypeInv, Present
  <2> QED BY <1>0, <1>1, <2>1, <2>2, <2>3, ReturnsType, Zenon DEF FileTypes, File
<1> QED BY <1>2, <1>3, <1>4, <1>5, <1>6, <1>7, Zenon

LEMMA RestoreType ==
  ASSUME TypeInv, NEW o \in Operators,
         \/ RestoreRead(o) \/ RestoreReset(o) \/ RestoreResetError(o) \/ RestorePut(o)
         \/ RestorePutError(o) \/ RestoreDone(o) \/ RestoreReturn(o)
         \/ DeleteCount(o) \/ DeleteReset(o)
  PROVE  EngineTypes' /\ CallTypes' /\ FileTypes'
<1>0. EngineTypes /\ CallTypes /\ FileTypes
  BY TypeParts, Zenon
<1>1. FileTypes'
  <2>1. UNCHANGED <<files, acked>>
    BY Zenon DEF RestoreRead, RestoreReset, RestoreResetError, RestorePut, RestorePutError,
       RestoreDone, RestoreReturn, DeleteCount, DeleteReset
  <2> QED BY <1>0, <2>1, Zenon DEF FileTypes
<1>2. CASE RestoreRead(o)
  <2>1. PICK p \in Paths :
          /\ Readable(files[p])
          /\ call' = [call EXCEPT ![o] = [path |-> p, entries |-> files[p].entries,
                         origin |-> files[p].origin, left |-> files[p].entries, at |-> 0,
                         point |-> files[p].point, reset |-> 0, era |-> 0]]
    BY <1>2, Zenon DEF RestoreRead
  <2>2. files[p] \in File
    BY <1>0, <2>1, Zenon DEF Readable, FileTypes
  <2>3. [path |-> p, entries |-> files[p].entries, origin |-> files[p].origin,
         left |-> files[p].entries, at |-> 0, point |-> files[p].point, reset |-> 0, era |-> 0]
           \in Call
    BY <2>2, Zenon DEF Call, File
  <2>4. Goes(o, "read") /\ "read" \in InCall /\ UNCHANGED engineVars
    BY <1>2, Zenon DEF RestoreRead, InCall
  <2>5. CallTypes'
    BY <1>0, <2>1, <2>3, <2>4, GoesType, Zenon
  <2> QED BY <1>0, <1>1, <2>4, <2>5, Zenon DEF EngineTypes, engineVars, Assigned
<1>3. CASE RestoreReset(o)
  <2>1. call[o] \in Call
    BY <1>0, <1>3, Zenon DEF RestoreReset, At, CallTypes, InCall
  <2>2. EngineTypes'
    BY <1>0, <1>3, ResetType, Zenon DEF RestoreReset
  <2> DEFINE c == [call[o] EXCEPT !.reset = resets']
  <2>3. c \in Call
    BY <2>1, <2>2, Zenon DEF Call, EngineTypes
  <2>4. call' = [call EXCEPT ![o] = c] /\ Goes(o, "load") /\ "load" \in InCall
    BY <1>3, <1>0, Zenon DEF RestoreReset, InCall, CallTypes
  <2> HIDE DEF c
  <2> QED BY <1>0, <1>1, <2>2, <2>3, <2>4, GoesType, Zenon
<1>4. CASE RestoreResetError(o) \/ DeleteReset(o)
  <2>1. Returns(o) /\ (Reset \/ ResetError)
    BY <1>4, Zenon DEF RestoreResetError, DeleteReset
  <2> QED BY <1>0, <1>1, <2>1, ReturnsType, ResetType, Zenon
<1>5. CASE RestorePut(o)
  <2>1. call[o] \in Call
    BY <1>0, <1>5, Zenon DEF RestorePut, At, CallTypes, InCall
  <2>2. PICK e \in call[o].left : /\ Writes(e.key, e.val, o) /\ Goes(o, "load")
                                  /\ call' = [call EXCEPT ![o].left = @ \ {e}]
    BY <1>5, Zenon DEF RestorePut
  <2>3. e.key \in Keys /\ e.val \in Values
    BY <2>1, <2>2, Zenon DEF Call, Entry
  <2>4. EngineTypes'
    BY <1>0, <2>2, <2>3, WritesType, Zenon
  <2> DEFINE c == [call[o] EXCEPT !.left = @ \ {e}]
  <2>5. c \in Call
    BY <2>1, Zenon DEF Call
  <2>6. call' = [call EXCEPT ![o] = c] /\ Goes(o, "load") /\ "load" \in InCall
    BY <1>0, <2>2, Zenon DEF InCall, CallTypes
  <2> HIDE DEF c
  <2> QED BY <1>0, <1>1, <2>4, <2>5, <2>6, GoesType, Zenon
<1>6. CASE RestorePutError(o)
  <2>1. Returns(o) /\ WriteFails
    BY <1>6, Zenon DEF RestorePutError
  <2> QED BY <1>0, <1>1, <2>1, ReturnsType, WriteFailsType, Zenon
<1>7. CASE RestoreDone(o)
  <2>1. /\ pc[o] = "load" /\ Goes(o, "restored") /\ call' = call /\ UNCHANGED engineVars
    BY <1>7, Zenon DEF RestoreDone, At
  <2> QED BY <1>0, <1>1, <2>1, Zenon DEF EngineTypes, engineVars, Assigned, CallTypes, Goes, InCall
<1>8. CASE RestoreReturn(o)
  <2>1. Returns(o) /\ UNCHANGED engineVars
    BY <1>8, Zenon DEF RestoreReturn
  <2> QED BY <1>0, <1>1, <2>1, ReturnsType, Zenon DEF EngineTypes, engineVars, Assigned
<1>9. CASE DeleteCount(o)
  <2>1. /\ Goes(o, "counted") /\ call' = call /\ UNCHANGED engineVars
    BY <1>9, Zenon DEF DeleteCount
  <2> QED BY <1>0, <1>1, <2>1, Zenon DEF EngineTypes, engineVars, Assigned, CallTypes, Goes, InCall
<1> QED BY <1>2, <1>3, <1>4, <1>5, <1>6, <1>7, <1>8, <1>9, Zenon

(* What a step of o does to who is where: the others stay, with their calls, and every
   path that has a file keeps one. *)
OthersStay(o) ==
    /\ \A x \in Operators \ {o} : pc'[x] = pc[x] /\ call'[x] = call[x]
    /\ \A p \in Paths : files[p] \in File => files'[p] \in File

LEMMA OperatorFrame ==
  ASSUME TypeInv, NEW o \in Operators, Operator(o), FileTypes'
  PROVE  OthersStay(o) /\ Present'
<1>0. CallTypes /\ FileTypes
  BY TypeParts, Zenon
<1>1. \A x \in Operators \ {o} : pc'[x] = pc[x] /\ call'[x] = call[x]
  BY <1>0, Zenon DEF CallTypes, Operator, BackupSnapshot, BackupPoint, BackupCreate, BackupWrite,
     BackupDiskError, BackupSync, RestoreRead, RestoreReset, RestoreResetError, RestorePut,
     RestorePutError, RestoreDone, RestoreReturn, DeleteCount, DeleteReset, Goes, Returns
<1>2. CASE BackupCreate(o) /\ files[call[o].path] = NoFile
  <2>1. /\ pc' = [pc EXCEPT ![o] = "created"] /\ call' = call
        /\ files' = [files EXCEPT ![call[o].path] = Unwritten(call[o].entries)]
        /\ call[o] \in Call
    BY <1>0, <1>2, Zenon DEF BackupCreate, Goes, At, CallTypes, InCall
  <2>2. call[o].path \in Paths /\ Unwritten(call[o].entries) \in File
    BY <2>1, UnwrittenType, Zenon DEF Call
  <2>3. \A p \in Paths : files[p] \in File => files'[p] \in File
    BY <1>0, <2>1, <2>2, Zenon DEF FileTypes
  <2>4. \A x \in Operators : x = o \/ pc'[x] = pc[x]
    BY <1>1, Zenon
  <2>5. ASSUME NEW x \in Operators, pc'[x] \in {"created", "written"}
        PROVE  files'[call'[x].path] \in File
    <3>1. CASE x = o
      BY <1>0, <2>1, <2>2, <3>1, Zenon DEF FileTypes
    <3>2. CASE x # o
      <4>1. files[call[x].path] \in File /\ call[x] \in Call
        BY <1>0, <2>4, <2>5, <3>2, Zenon DEF TypeInv, Present, CallTypes, InCall
      <4> QED BY <2>1, <2>3, <4>1, Zenon DEF Call
    <3> QED BY <3>1, <3>2, Zenon
  <2> QED BY <1>1, <2>3, <2>5, Zenon DEF OthersStay, Present
<1>3. CASE BackupWrite(o) \/ BackupSync(o)
  <2>1. /\ pc[o] \in {"created", "written"} /\ pc' \in {[pc EXCEPT ![o] = "written"], [pc EXCEPT ![o] = "idle"]}
        /\ \A p \in Paths : p # call[o].path => files'[p] = files[p]
        /\ (BackupWrite(o) /\ call' = call) \/ pc'[o] = "idle"
    BY <1>0, <1>3, Zenon DEF BackupWrite, BackupSync, At, Goes, Returns, CallTypes, FileTypes
  <2>2. call[o] \in Call /\ call[o].path \in Paths /\ files[call[o].path] \in File
    BY <1>0, <2>1, Zenon DEF CallTypes, InCall, Call, TypeInv, Present
  <2>3. files'[call[o].path] \in File
    <3>1. CASE BackupWrite(o)
      <4>1. files'[call[o].path] = [origin |-> call[o].entries, whole |-> TRUE, synced |-> FALSE,
                     entries |-> call[o].entries, point |-> call[o].point,
                     sum |-> Checksum(call[o].entries, types)]
        BY <1>0, <2>2, <3>1, Zenon DEF BackupWrite, FileTypes
      <4>2. types \in Numberings
        BY TypeParts, Zenon
      <4> QED BY <2>2, <4>1, <4>2 DEF File, Call, Checksum
    <3>2. CASE BackupSync(o)
      <4>1. files'[call[o].path] = [files[call[o].path] EXCEPT !.synced = TRUE]
        BY <1>0, <2>2, <3>2, Zenon DEF BackupSync, FileTypes
      <4> QED BY <2>2, <4>1, Zenon DEF File
    <3> QED BY <1>3, <3>1, <3>2, Zenon
  <2>4. \A p \in Paths : files[p] \in File => files'[p] \in File
    BY <2>1, <2>3, Zenon
  <2>5. ASSUME NEW x \in Operators, pc'[x] \in {"created", "written"}
        PROVE  files'[call'[x].path] \in File
    <3>1. call'[x] = call[x] /\ pc[x] \in {"created", "written"}
      BY <1>1, <2>1, <2>5, Zenon
    <3>2. files[call[x].path] \in File /\ call[x] \in Call
      BY <1>0, <3>1, Zenon DEF TypeInv, Present, CallTypes, InCall
    <3> QED BY <2>4, <3>1, <3>2, Zenon DEF Call
  <2> QED BY <1>1, <2>4, <2>5 DEF OthersStay, Present
<1>4. CASE ~(BackupCreate(o) /\ files[call[o].path] = NoFile) /\ ~(BackupWrite(o) \/ BackupSync(o))
  <2>1. files' = files /\ pc'[o] \notin {"created", "written"}
    BY <1>0, <1>4, Zenon DEF CallTypes, Operator, BackupSnapshot, BackupPoint, BackupCreate,
       BackupDiskError, RestoreRead, RestoreReset, RestoreResetError, RestorePut,
       RestorePutError, RestoreDone, RestoreReturn, DeleteCount, DeleteReset, Goes, Returns
  <2> QED BY <1>1, <2>1, Zenon DEF OthersStay, TypeInv, Present
<1> QED BY <1>2, <1>3, <1>4, Zenon

LEMMA OperatorType ==
  ASSUME TypeInv, NEW o \in Operators, Operator(o)
  PROVE  TypeInv'
<1>1. EngineTypes' /\ CallTypes' /\ FileTypes'
  BY BackupType, RestoreType, Zenon DEF Operator
<1>2. Present'
  BY <1>1, OperatorFrame, Zenon
<1> QED BY <1>1, <1>2, CallsOnly, TypeParts, TypeWhole, Zenon

LEMMA MutateType ==
  ASSUME TypeInv, Mutate \/ MutateError
  PROVE  TypeInv'
<1>1. EngineTypes'
  BY TypeParts, WritesType, WriteFailsType, Zenon DEF Mutate, MutateError
<1>2. UNCHANGED <<faults, up, types, files, pc, call, acked>>
  BY Zenon DEF Mutate, MutateError, callVars
<1> QED BY <1>1, <1>2, Zenon DEF TypeInv, TypeOK, EngineTypes, Present, Assigned

LEMMA StopType ==
  ASSUME TypeInv, ProcessCrash \/ PowerLoss
  PROVE  TypeInv'
<1>0. EngineTypes /\ CallTypes /\ FileTypes /\ faults \in FaultSets /\ types \in Numberings
  BY TypeParts, Zenon
<1>1. Stop
  BY Zenon DEF ProcessCrash, PowerLoss
<1>2. EngineTypes'
  BY <1>0, <1>1, NothingType, Zenon DEF Stop, EngineTypes, Assigned
<1>3. CallTypes' /\ Present' /\ \A o \in Operators : pc'[o] = "idle"
  BY <1>1, Zenon DEF Stop, CallTypes, InCall, Present
<1>4. files' \in [Paths -> File \cup {NoFile}]
  <2>1. CASE ProcessCrash
    BY <1>0, <2>1, Zenon DEF ProcessCrash, FileTypes
  <2>2. CASE PowerLoss
    <3>1. /\ DOMAIN files' = Paths /\ files' = [p \in Paths |-> files'[p]]
          /\ \A p \in Paths : files'[p] \in Remains(files[p])
      BY <2>2, Zenon DEF PowerLoss
    <3>2. ASSUME NEW p \in Paths PROVE Remains(files[p]) \subseteq File \cup {NoFile}
      <4>1. CASE files[p] = NoFile
        BY <4>1, Zenon DEF Remains
      <4>2. CASE files[p] # NoFile
        <5>1. files[p] \in File /\ Unwritten(files[p].origin) \in File
          BY <1>0, <4>2, UnwrittenType, Zenon DEF FileTypes, File
        <5> QED BY <4>2, <5>1, Zenon DEF Remains
      <4> QED BY <4>1, <4>2, Zenon
    <3> QED BY <3>1, <3>2, Zenon
  <2> QED BY <2>1, <2>2, Zenon
<1>5. FileTypes' /\ faults' \in FaultSets /\ up' \in BOOLEAN /\ types' \in Numberings
  BY <1>0, <1>1, <1>4, Zenon DEF Stop, FileTypes
<1> QED BY <1>2, <1>3, <1>5, TypeWhole, Zenon

LEMMA StartType ==
  ASSUME TypeInv, Start
  PROVE  TypeInv'
<1>0. EngineTypes /\ CallTypes /\ FileTypes /\ faults \in FaultSets
  BY TypeParts, Zenon
<1>1. UNCHANGED <<faults, log, broken, resets, files, pc, call, acked>> /\ up' = TRUE
  BY Zenon DEF Start, callVars
<1>2. state' \in [Keys -> Values \cup {NoValue}]
  BY <1>0, ReplayedType, Zenon DEF Start, EngineTypes
<1>3. types' \in Numberings
  BY Zenon DEF Start, Numberings
<1>5. Assigned'
  <2>1. Len(log) \in Nat
    BY <1>0, LenProperties, Zenon DEF EngineTypes
  <2> QED BY <1>1, <2>1 DEF Start, Assigned
<1>4. EngineTypes' /\ CallTypes' /\ FileTypes' /\ Present'
  BY <1>0, <1>1, <1>2, <1>5, Zenon DEF EngineTypes, CallTypes, FileTypes, TypeInv, Present
<1> QED BY <1>0, <1>1, <1>3, <1>4, TypeWhole, Zenon

LEMMA CorruptType ==
  ASSUME TypeInv, Corrupt
  PROVE  TypeInv'
<1>0. EngineTypes /\ CallTypes /\ FileTypes /\ faults \in FaultSets /\ types \in Numberings
  BY TypeParts, Zenon
<1>1. UNCHANGED <<faults, up, types, log, next, broken, state, resets, pc, call, acked>>
  BY Zenon DEF Corrupt, engineVars, callVars
<1>2. PICK p \in Paths :
        /\ files[p] # NoFile
        /\ \/ \E e \in files[p].entries : files' = [files EXCEPT ![p].entries = @ \ {e}]
           \/ files' = [files EXCEPT ![p].point = 0]
  BY Zenon DEF Corrupt
<1>3. files[p] \in File
  BY <1>0, <1>2, Zenon DEF FileTypes
<1>4. files' \in [Paths -> File \cup {NoFile}] /\ files'[p] \in File
  BY <1>0, <1>2, <1>3 DEF File, FileTypes
<1>5. \A q \in Paths : files[q] \in File => files'[q] \in File
  BY <1>0, <1>2, <1>4, Zenon DEF FileTypes
<1>6. Present'
  BY <1>0, <1>1, <1>5, Zenon DEF TypeInv, Present, CallTypes, InCall, Call
<1>7. EngineTypes' /\ CallTypes' /\ FileTypes'
  BY <1>0, <1>1, <1>4, Zenon DEF EngineTypes, CallTypes, FileTypes, Assigned
<1> QED BY <1>0, <1>1, <1>6, <1>7, TypeWhole, Zenon DEF TypeInv, TypeOK

LEMMA TypeStep == TypeInv /\ [Next]_vars => TypeInv'
<1> SUFFICES ASSUME TypeInv, [Next]_vars PROVE TypeInv'
  BY Zenon
<1>1. CASE UNCHANGED vars
  BY <1>1, Zenon DEF vars, engineVars, callVars, TypeInv, TypeOK, Present, Assigned
<1> QED BY <1>1, MutateType, OperatorType, StopType, StartType, CorruptType, Zenon DEF Next

(* The admin operations are type-correct: what a crash leaves of the files and a replay
   makes of the log included. *)
THEOREM TypeCorrect == Spec => []TypeOK
<1>1. TypeInv => TypeOK
  BY Zenon DEF TypeInv
<1> QED BY <1>1, TypeInit, TypeStep, PTL DEF Spec

-----------------------------------------------------------------------------
(* The recovery point. *)

Taking == {"pointed", "created", "written"}

(* A snapshot is not ahead of the log it was taken from, as long as that is there, and so
   never ahead of the recovery point read after it. *)
Ahead ==
    /\ \A o \in Operators :
          /\ pc[o] = "snapped" => /\ call[o].reset <= resets
                                  /\ call[o].reset = resets => call[o].at <= Len(log)
          /\ pc[o] \in Taking => (call[o].era = call[o].reset => call[o].at <= call[o].point)
    /\ NothingPastPoint

(* The log grows, or is emptied and counted. *)
LEMMA LogGrows ==
  ASSUME TypeInv, TypeInv', [Next]_vars
  PROVE  /\ resets \in Nat /\ resets' \in Nat /\ Len(log) \in Nat /\ Len(log') \in Nat
         /\ resets' > resets \/ (resets' = resets /\ Len(log') >= Len(log))
<1>0. /\ resets \in Nat /\ resets' \in Nat /\ Len(log) \in Nat /\ Len(log') \in Nat
      /\ log \in Seq(Record)
  BY LenProperties, Zenon DEF TypeInv, TypeOK
<1>1. CASE UNCHANGED <<log, resets>>
  BY <1>0, <1>1
<1>2. CASE Reset \/ ResetError
  BY <1>0, <1>2 DEF Reset, ResetError, engineVars
<1>3. ASSUME NEW k \in Keys, NEW v \in Values \cup {NoValue},
             NEW by \in Operators \cup {Client}, Writes(k, v, by)
      PROVE  resets' = resets /\ Len(log') >= Len(log)
  <2>1. [key |-> k, val |-> v, by |-> by] \in Record
    BY Zenon DEF Record
  <2>2. Len(log') = Len(log) + 1
    BY <1>0, <1>3, <2>1, AppendProperties, Zenon DEF Writes
  <2> QED BY <1>0, <1>3, <2>2 DEF Writes
<1>4. CASE Mutate
  BY <1>0, <1>3, <1>4, ZenonT(40) DEF Mutate
<1>5. ASSUME NEW o \in Operators, RestorePut(o)
      PROVE  resets' = resets /\ Len(log') >= Len(log)
  <2>1. call[o] \in Call
    BY <1>5, Zenon DEF RestorePut, At, TypeInv, InCall
  <2>2. PICK e \in call[o].left : Writes(e.key, e.val, o)
    BY <1>5, Zenon DEF RestorePut
  <2>3. e.key \in Keys /\ e.val \in Values
    BY <2>1, <2>2, Zenon DEF Call, Entry
  <2> QED BY <1>3, <2>2, <2>3, Zenon
<1>6. ASSUME NEW o \in Operators, Operator(o), ~RestorePut(o)
      PROVE  UNCHANGED <<log, resets>> \/ Reset \/ ResetError
  BY <1>6, Zenon DEF Operator, BackupSnapshot, BackupPoint, BackupCreate, BackupWrite,
     BackupDiskError, BackupSync, RestoreRead, RestoreReset, RestoreResetError, RestorePutError,
     WriteFails, RestoreDone, RestoreReturn, DeleteCount, DeleteReset, engineVars
<1>7. CASE MutateError \/ ProcessCrash \/ PowerLoss \/ Start \/ Corrupt \/ UNCHANGED vars
  <2>1. UNCHANGED <<log, resets>>
    BY <1>7, Zenon DEF MutateError, WriteFails, ProcessCrash, PowerLoss, Stop, Start, Corrupt,
       vars, engineVars
  <2> QED BY <1>1, <2>1, Zenon
<1> QED BY <1>0, <1>1, <1>2, <1>4, <1>5, <1>6, <1>7, Zenon DEF Next

(* What one operator's step does to its own call. *)
LEMMA AheadOwn ==
  ASSUME TypeInv, Ahead, NEW o \in Operators, Operator(o)
  PROVE  /\ pc'[o] = "snapped" => /\ call'[o].reset = resets' /\ call'[o].at = Len(log')
         /\ pc'[o] \in Taking => (call'[o].era = call'[o].reset => call'[o].at <= call'[o].point)
         /\ \A b \in acked' : b \in acked \/ (b = call[o] /\ pc[o] \in Taking)
<1>0. /\ pc \in [Operators -> {"idle", "snapped", "pointed", "created", "written",
                               "read", "load", "restored", "counted"}]
      /\ call \in [Operators -> Call \cup {NoCall}]
      /\ pc[o] \in InCall => call[o] \in Call
  BY Zenon DEF TypeInv, TypeOK
<1>1. CASE BackupSnapshot(o)
  <2>1. /\ pc'[o] = "snapped" /\ acked' = acked /\ UNCHANGED <<log, resets>>
        /\ call'[o].reset = resets /\ call'[o].at = Len(log)
    BY <1>0, <1>1 DEF BackupSnapshot, Goes, engineVars
  <2> QED BY <2>1, Zenon DEF Taking
<1>2. CASE BackupPoint(o)
  <2>1. /\ pc[o] = "snapped" /\ pc'[o] = "pointed" /\ acked' = acked /\ call[o] \in Call
        /\ call' = [call EXCEPT ![o].point = next - 1, ![o].era = resets]
    BY <1>0, <1>2, Zenon DEF BackupPoint, At, Goes, InCall
  <2>2. /\ call'[o].point = next - 1 /\ call'[o].era = resets
        /\ call'[o].reset = call[o].reset /\ call'[o].at = call[o].at /\ call[o].at \in Nat
    BY <1>0, <2>1, Zenon DEF Call
  <2>3. call[o].reset = resets => call[o].at <= Len(log)
    BY <2>1, Zenon DEF Ahead
  <2>4. Len(log) \in Nat /\ Len(log) < next /\ next \in Nat
    BY LenProperties, TypeParts, Zenon DEF EngineTypes, Assigned
  <2>5. call'[o].era = call'[o].reset => call'[o].at <= call'[o].point
    BY <2>2, <2>3, <2>4
  <2> QED BY <2>1, <2>5, Zenon
<1>3. CASE BackupCreate(o) \/ BackupWrite(o)
  <2>1. /\ pc'[o] = "idle" \/ (call'[o] = call[o] /\ pc'[o] \in {"created", "written"})
        /\ pc[o] \in Taking /\ acked' = acked
    BY <1>0, <1>3, Zenon DEF BackupCreate, BackupWrite, Goes, Returns, At, Taking
  <2> QED BY <2>1, Zenon DEF Ahead, Taking
<1>4. CASE BackupSync(o)
  <2>1. pc'[o] = "idle" /\ acked' = acked \cup {call[o]} /\ pc[o] \in Taking
    BY <1>0, <1>4, Zenon DEF BackupSync, Goes, Returns, At, Taking
  <2> QED BY <2>1, Zenon DEF Taking
<1>5. CASE ~(BackupSnapshot(o) \/ BackupPoint(o) \/ BackupCreate(o) \/ BackupWrite(o) \/ BackupSync(o))
  <2>1. acked' = acked /\ pc'[o] \notin {"snapped", "pointed", "created", "written"}
    BY <1>0, <1>5, Zenon DEF Operator, BackupDiskError, RestoreRead, RestoreReset,
       RestoreResetError, RestorePut, RestorePutError, RestoreDone, RestoreReturn, DeleteCount,
       DeleteReset, Goes, Returns
  <2> QED BY <2>1, Zenon DEF Taking
<1> QED BY <1>1, <1>2, <1>3, <1>4, <1>5, Zenon

LEMMA AheadStep ==
  ASSUME TypeInv, TypeInv', [Next]_vars, Ahead
  PROVE  Ahead'
<1>0. /\ resets \in Nat /\ resets' \in Nat /\ Len(log) \in Nat /\ Len(log') \in Nat
      /\ resets' > resets \/ (resets' = resets /\ Len(log') >= Len(log))
  BY LogGrows, Zenon
<1>1. ASSUME NEW x \in Operators, pc'[x] = pc[x], call'[x] = call[x]
      PROVE  /\ pc'[x] = "snapped" => /\ call'[x].reset <= resets'
                                      /\ call'[x].reset = resets' => call'[x].at <= Len(log')
             /\ pc'[x] \in Taking => (call'[x].era = call'[x].reset => call'[x].at <= call'[x].point)
  <2>1. ASSUME pc[x] = "snapped"
        PROVE  /\ call[x].reset \in Nat /\ call[x].at \in Nat /\ call[x].reset <= resets
               /\ call[x].reset = resets => call[x].at <= Len(log)
    <3>1. call[x] \in Call
      BY <2>1, Zenon DEF TypeInv, InCall
    <3> QED BY <2>1, <3>1, Zenon DEF Call, Ahead
  <2>2. ASSUME pc[x] = "snapped"
        PROVE  call[x].reset <= resets' /\ (call[x].reset = resets' => call[x].at <= Len(log'))
    BY <1>0, <2>1, <2>2
  <2> QED BY <1>1, <2>2, Zenon DEF Ahead
<1>2. CASE UNCHANGED <<pc, call, acked>>
  BY <1>1, <1>2, Zenon DEF Ahead, NothingPastPoint
<1>3. CASE Stop
  BY <1>3, Zenon DEF Stop, Ahead, NothingPastPoint, Taking
<1>4. ASSUME NEW o \in Operators, Operator(o)
      PROVE  Ahead'
  <2>1. /\ pc'[o] = "snapped" => /\ call'[o].reset = resets' /\ call'[o].at = Len(log')
        /\ pc'[o] \in Taking => (call'[o].era = call'[o].reset => call'[o].at <= call'[o].point)
        /\ \A b \in acked' : b \in acked \/ (b = call[o] /\ pc[o] \in Taking)
    BY <1>4, AheadOwn, Zenon
  <2>2. OthersStay(o)
    BY <1>4, OperatorFrame, Zenon DEF TypeInv, TypeOK, FileTypes
  <2>3. NothingPastPoint'
    BY <2>1, Zenon DEF Ahead, NothingPastPoint
  <2>4. ASSUME NEW x \in Operators
        PROVE  /\ pc'[x] = "snapped" => /\ call'[x].reset <= resets'
                                        /\ call'[x].reset = resets' => call'[x].at <= Len(log')
               /\ pc'[x] \in Taking => (call'[x].era = call'[x].reset => call'[x].at <= call'[x].point)
    <3>1. CASE x = o
      BY <1>0, <2>1, <3>1
    <3>2. CASE x # o
      BY <1>1, <2>2, <3>2, Zenon DEF OthersStay
    <3> QED BY <3>1, <3>2, Zenon
  <2> QED BY <2>3, <2>4, Zenon DEF Ahead
<1>5. CASE Mutate \/ MutateError \/ Start \/ Corrupt \/ UNCHANGED vars
  <2>1. UNCHANGED <<pc, call, acked>>
    BY <1>5, Zenon DEF Mutate, MutateError, Start, Corrupt, vars, callVars
  <2> QED BY <1>2, <2>1, Zenon
<1> QED BY <1>3, <1>4, <1>5, Zenon DEF Next, ProcessCrash, PowerLoss

(* No entry of a reported backup stems from a record after its recovery point. *)
THEOREM PointCoversEntries == Spec => []NothingPastPoint
<1>1. Init => TypeInv /\ Ahead
  BY TypeInit, Zenon DEF Init, Ahead, NothingPastPoint, Taking
<1>2. TypeInv /\ Ahead /\ [Next]_vars => (TypeInv /\ Ahead)'
  BY TypeStep, AheadStep, Zenon
<1>3. Ahead => NothingPastPoint
  BY Zenon DEF Ahead
<1> QED BY <1>1, <1>2, <1>3, PTL DEF Spec

-----------------------------------------------------------------------------
(* What is in the files. *)

(* What a step can do to the file at p. *)
FileStays(p) == files'[p] = files[p]
FileMade(p) ==
    /\ files[p] = NoFile /\ files'[p].whole = FALSE
    /\ \E o \in Operators : pc[o] = "pointed" /\ files'[p].origin = call[o].entries
FileLost(p) ==
    /\ PowerLoss
    /\ files[p] = NoFile \/ files[p].synced # TRUE \/ "dirent" \in faults
    /\ \/ files'[p] = NoFile
       \/ files[p] # NoFile /\ files'[p].whole = FALSE /\ files'[p].origin = files[p].origin
FileFilled(p) ==
    \E o \in Operators :
       /\ BackupWrite(o) /\ call[o].path = p
       /\ files'[p] = [origin |-> call[o].entries, whole |-> TRUE, synced |-> FALSE,
                       entries |-> call[o].entries, point |-> call[o].point,
                       sum |-> Checksum(call[o].entries, types)]
FileSynced(p) ==
    \E o \in Operators :
       /\ BackupSync(o) /\ call[o].path = p
       /\ files[p] \in File /\ files'[p] = [files[p] EXCEPT !.synced = TRUE]
FileDamaged(p) ==
    /\ "corrupt" \in faults /\ files[p] \in File
    /\ files'[p].whole = files[p].whole /\ files'[p].sum = files[p].sum
    /\ files'[p].origin = files[p].origin

LEMMA FileChange ==
  ASSUME TypeInv, [Next]_vars, NEW p \in Paths
  PROVE  \/ FileStays(p) \/ FileMade(p) \/ FileLost(p)
         \/ FileFilled(p) \/ FileSynced(p) \/ FileDamaged(p)
<1>0. files \in [Paths -> File \cup {NoFile}]
  BY Zenon DEF TypeInv, TypeOK
<1>1. CASE files' = files
  BY <1>1, Zenon DEF FileStays
<1>2. ASSUME NEW o \in Operators, BackupCreate(o), files' # files
      PROVE  FileStays(p) \/ FileMade(p)
  <2>1. /\ files[call[o].path] = NoFile /\ pc[o] = "pointed"
        /\ files' = [files EXCEPT ![call[o].path] = Unwritten(call[o].entries)]
    BY <1>2, Zenon DEF BackupCreate, At
  <2>2. /\ Unwritten(call[o].entries).whole = FALSE
        /\ Unwritten(call[o].entries).origin = call[o].entries
    BY Zenon DEF Unwritten
  <2> QED BY <1>0, <2>1, <2>2, Zenon DEF FileStays, FileMade
<1>3. ASSUME NEW o \in Operators, BackupWrite(o)
      PROVE  FileStays(p) \/ FileFilled(p)
  <2> DEFINE f == [origin |-> call[o].entries, whole |-> TRUE, synced |-> FALSE,
                   entries |-> call[o].entries, point |-> call[o].point,
                   sum |-> Checksum(call[o].entries, types)]
  <2>1. files' = [files EXCEPT ![call[o].path] = f]
    BY <1>3, Zenon DEF BackupWrite
  <2>2. files'[p] = f \/ p # call[o].path
    BY <1>0, <2>1, Zenon
  <2>3. p # call[o].path => files'[p] = files[p]
    BY <1>0, <2>1, Zenon
  <2> QED BY <1>3, <2>2, <2>3, Zenon DEF FileStays, FileFilled
<1>4. ASSUME NEW o \in Operators, BackupSync(o)
      PROVE  FileStays(p) \/ FileSynced(p)
  <2>1. files' = [files EXCEPT ![call[o].path].synced = TRUE] /\ files[call[o].path] \in File
    BY <1>4, Zenon DEF BackupSync, At, TypeInv, Present
  <2> QED BY <1>0, <1>4, <2>1, Zenon DEF FileStays, FileSynced
<1>5. CASE PowerLoss
  <2>1. files'[p] \in Remains(files[p])
    BY <1>5, Zenon DEF PowerLoss
  <2>2. CASE files[p] = NoFile
    BY <2>1, <2>2, Zenon DEF Remains, FileStays
  <2>3. CASE files[p] # NoFile
    <3>1. files[p] \in File /\ files[p].synced \in BOOLEAN
      BY <1>0, <2>3, Zenon DEF File
    <3>2. /\ Unwritten(files[p].origin).whole = FALSE
          /\ Unwritten(files[p].origin).origin = files[p].origin
      BY Zenon DEF Unwritten
    <3>3. CASE files[p].synced
      BY <1>5, <2>1, <2>3, <3>3, Zenon DEF Remains, FileStays, FileLost
    <3>4. CASE ~files[p].synced
      <4>1. files'[p] = files[p] \/ files'[p] = NoFile \/ files'[p] = Unwritten(files[p].origin)
        BY <2>1, <2>3, <3>4, Zenon DEF Remains
      <4>2. files[p].synced # TRUE
        BY <3>1, <3>4, Zenon
      <4> QED BY <1>5, <2>3, <3>2, <4>1, <4>2, Zenon DEF FileStays, FileLost
    <3> QED BY <3>3, <3>4, Zenon
  <2> QED BY <2>2, <2>3, Zenon
<1>6. CASE Corrupt
  <2>1. PICK q \in Paths :
          /\ files[q] # NoFile
          /\ \/ \E e \in files[q].entries : files' = [files EXCEPT ![q].entries = @ \ {e}]
             \/ files' = [files EXCEPT ![q].point = 0]
    BY <1>6, Zenon DEF Corrupt
  <2>2. files[q] \in File /\ "corrupt" \in faults
    BY <1>0, <1>6, <2>1, Zenon DEF Corrupt
  <2>3. CASE q = p
    BY <1>0, <2>1, <2>2, <2>3 DEF FileDamaged, File
  <2>4. CASE q # p
    BY <1>0, <2>1, <2>4, Zenon DEF FileStays
  <2> QED BY <2>3, <2>4, Zenon
<1>7. ASSUME NEW o \in Operators, Operator(o), ~BackupCreate(o), ~BackupWrite(o), ~BackupSync(o)
      PROVE  files' = files
  BY <1>7, Zenon DEF Operator, BackupSnapshot, BackupPoint, BackupDiskError, RestoreRead,
     RestoreReset, RestoreResetError, RestorePut, RestorePutError, RestoreDone, RestoreReturn,
     DeleteCount, DeleteReset
<1>8. CASE Mutate \/ MutateError \/ ProcessCrash \/ Start \/ UNCHANGED vars
  BY <1>1, <1>8, Zenon DEF Mutate, MutateError, ProcessCrash, Start, vars
<1> QED BY <1>1, <1>2, <1>3, <1>4, <1>5, <1>6, <1>7, <1>8, Zenon DEF Next

(* The checksum of a file that was written to the end is that of what its writer took. *)
Taken ==
    /\ \A p \in Paths : files[p] # NoFile /\ files[p].whole = TRUE => files[p].sum[1] = files[p].origin
    /\ LoadedWasTaken

LEMMA TakenFiles ==
  ASSUME TypeInv, TypeInv', [Next]_vars, Taken, NEW p \in Paths,
         files'[p] # NoFile, files'[p].whole = TRUE
  PROVE  files'[p].sum[1] = files'[p].origin
<1>0. files \in [Paths -> File \cup {NoFile}]
  BY Zenon DEF TypeInv, TypeOK
<1>1. CASE FileStays(p)
  BY <1>1, Zenon DEF FileStays, Taken
<1>2. CASE FileMade(p) \/ FileLost(p)
  BY <1>2, Zenon DEF FileMade, FileLost
<1>3. CASE FileFilled(p)
  BY <1>3 DEF FileFilled, Checksum
<1>4. CASE FileSynced(p)
  <2>1. /\ files[p] \in File /\ files[p] # NoFile /\ files'[p].whole = files[p].whole
        /\ files'[p].sum = files[p].sum /\ files'[p].origin = files[p].origin
    BY <1>4, NoFileAssumption DEF FileSynced, File
  <2> QED BY <2>1, Zenon DEF Taken
<1>5. CASE FileDamaged(p)
  <2>1. files[p] # NoFile
    BY <1>5, NoFileAssumption, Zenon DEF FileDamaged
  <2> QED BY <1>5, <2>1, Zenon DEF FileDamaged, Taken
<1> QED BY <1>1, <1>2, <1>3, <1>4, <1>5, FileChange, Zenon

Restoring == {"read", "load", "restored"}

LEMMA TakenCalls ==
  ASSUME TypeInv, Taken, NEW o \in Operators, Operator(o), pc'[o] \in Restoring
  PROVE  call'[o].entries = call'[o].origin
<1>0. /\ CallTypes /\ files \in [Paths -> File \cup {NoFile}]
  BY TypeParts, Zenon DEF FileTypes
<1>1. CASE RestoreRead(o)
  <2>1. PICK p \in Paths :
          /\ Readable(files[p])
          /\ call' = [call EXCEPT ![o] = [path |-> p, entries |-> files[p].entries,
                         origin |-> files[p].origin, left |-> files[p].entries, at |-> 0,
                         point |-> files[p].point, reset |-> 0, era |-> 0]]
    BY <1>1, Zenon DEF RestoreRead
  <2>2. files[p] # NoFile /\ files[p] \in File /\ files[p].whole /\ files[p].sum[1] = files[p].entries
    BY <1>0, <2>1 DEF Readable, Checksum
  <2>3. files[p].whole = TRUE
    BY <2>2, Zenon DEF File
  <2> QED BY <1>0, <2>1, <2>2, <2>3, Zenon DEF Taken, CallTypes
<1>2. CASE RestoreReset(o) \/ RestorePut(o) \/ RestoreDone(o)
  <2>1. /\ pc[o] \in Restoring /\ call[o] \in Call
        /\ call'[o].entries = call[o].entries /\ call'[o].origin = call[o].origin
    BY <1>0, <1>2 DEF RestoreReset, RestorePut, RestoreDone, At, CallTypes, InCall, Restoring, Call
  <2> QED BY <2>1, Zenon DEF Taken, LoadedWasTaken, Restoring
<1>3. CASE ~(RestoreRead(o) \/ RestoreReset(o) \/ RestorePut(o) \/ RestoreDone(o))
  <2>1. pc'[o] \notin Restoring
    BY <1>0, <1>3, Zenon DEF Operator, BackupSnapshot, BackupPoint, BackupCreate, BackupWrite,
       BackupDiskError, BackupSync, RestoreResetError, RestorePutError, RestoreReturn,
       DeleteCount, DeleteReset, Goes, Returns, CallTypes, Restoring
  <2> QED BY <2>1, Zenon
<1> QED BY <1>1, <1>2, <1>3, Zenon

LEMMA TakenStep ==
  ASSUME TypeInv, TypeInv', [Next]_vars, Taken
  PROVE  Taken'
<1>1. \A p \in Paths : files'[p] # NoFile /\ files'[p].whole = TRUE
                          => files'[p].sum[1] = files'[p].origin
  BY TakenFiles, Zenon
<1>2. CASE UNCHANGED <<pc, call>>
  BY <1>1, <1>2, Zenon DEF Taken, LoadedWasTaken
<1>3. CASE Stop
  BY <1>1, <1>3, Zenon DEF Taken, LoadedWasTaken, Stop
<1>4. ASSUME NEW o \in Operators, Operator(o)
      PROVE  LoadedWasTaken'
  <2>1. pc'[o] \in Restoring => call'[o].entries = call'[o].origin
    BY <1>4, TakenCalls, Zenon
  <2>2. OthersStay(o)
    BY <1>4, OperatorFrame DEF TypeInv, TypeOK, FileTypes
  <2> QED BY <2>1, <2>2, Zenon DEF OthersStay, Taken, LoadedWasTaken, Restoring
<1>5. CASE Mutate \/ MutateError \/ Start \/ Corrupt \/ UNCHANGED vars
  <2>1. UNCHANGED <<pc, call>>
    BY <1>5, Zenon DEF Mutate, MutateError, Start, Corrupt, vars, callVars
  <2> QED BY <1>2, <2>1, Zenon
<1>6. (\E o \in Operators : Operator(o)) => Taken'
  BY <1>1, <1>4, Zenon DEF Taken
<1> QED BY <1>3, <1>5, <1>6, Zenon DEF Next, ProcessCrash, PowerLoss

(* A restore loads only what one CreateBackup took as a whole. *)
THEOREM NoPartIsLoaded == Spec => []LoadedWasTaken
<1>1. Init => TypeInv /\ Taken
  BY TypeInit, Zenon DEF Init, Taken, LoadedWasTaken
<1>2. TypeInv /\ Taken /\ [Next]_vars => (TypeInv /\ Taken)'
  BY TypeStep, TakenStep
<1>3. Taken => LoadedWasTaken
  BY Zenon DEF Taken
<1> QED BY <1>1, <1>2, <1>3, PTL DEF Spec

-----------------------------------------------------------------------------
(* Reported backups. *)

Calm == faults \cap {"dirent", "corrupt", "leader"} = {}
Making == {"created", "written"}

(* The file of backup b, written and then synced. *)
FileOf(b, synced) ==
    [origin |-> b.entries, whole |-> TRUE, synced |-> synced, entries |-> b.entries,
     point |-> b.point, sum |-> Checksum(b.entries, "plain")]

(* Nobody writes to a file that another is writing or that was reported. *)
Apart ==
    \A o \in Operators : pc[o] \in Making =>
       /\ \A b \in acked : b.path # call[o].path
       /\ \A x \in Operators : x # o /\ pc[x] \in Making => call[x].path # call[o].path

OnDisk ==
    /\ \A b \in acked : files[b.path] = FileOf(b, TRUE)
    /\ \A o \in Operators : pc[o] = "written" => files[call[o].path] = FileOf(call[o], FALSE)

Kept == types = "plain" /\ Apart /\ OnDisk

LEMMA SameFile ==
  ASSUME NEW f \in File, NEW g \in File,
         f.origin = g.origin, f.whole = g.whole, f.synced = g.synced,
         f.entries = g.entries, f.point = g.point, f.sum = g.sum
  PROVE  f = g
  BY DEF File

LEMMA FileOfType ==
  ASSUME NEW b \in Call
  PROVE  /\ FileOf(b, TRUE) # NoFile /\ FileOf(b, TRUE).synced = TRUE
         /\ FileOf(b, FALSE) # NoFile
         /\ [FileOf(b, FALSE) EXCEPT !.synced = TRUE] = FileOf(b, TRUE)
<1> DEFINE g == [FileOf(b, FALSE) EXCEPT !.synced = TRUE]
<1>1. FileOf(b, TRUE) \in File /\ FileOf(b, FALSE) \in File
  BY Zenon DEF FileOf, File, Call, Checksum, Numberings
<1>2. g \in File
  BY <1>1, Zenon DEF File
<1>3. /\ FileOf(b, TRUE).synced = TRUE /\ FileOf(b, TRUE).whole = TRUE
      /\ g.synced = TRUE /\ g.whole = TRUE
  BY Zenon DEF FileOf
<1>4. /\ g.origin = FileOf(b, TRUE).origin /\ g.entries = FileOf(b, TRUE).entries
      /\ g.point = FileOf(b, TRUE).point /\ g.sum = FileOf(b, TRUE).sum
  BY Zenon DEF FileOf
<1> HIDE DEF g
<1>5. g = FileOf(b, TRUE)
  BY <1>1, <1>2, <1>3, <1>4, SameFile, Zenon
<1> QED BY <1>1, <1>3, <1>5, NoFileAssumption, Zenon DEF g

(* Which operators are making a file after a step, and which backups are reported. *)
LEMMA MakingStep ==
  ASSUME TypeInv, [Next]_vars
  PROVE  /\ \A x \in Operators : pc'[x] \in Making =>
               /\ call'[x] = call[x]
               /\ \/ pc[x] \in Making /\ (pc[x] = pc'[x] \/ BackupWrite(x))
                  \/ BackupCreate(x) /\ files[call[x].path] = NoFile /\ pc'[x] = "created"
         /\ \A b \in acked' : b \in acked \/ \E o \in Operators : BackupSync(o) /\ b = call[o] /\ pc'[o] = "idle"
<1>0. CallTypes
  BY TypeParts, Zenon
<1>1. ASSUME NEW o \in Operators, Operator(o), pc'[o] \in Making
      PROVE  /\ call'[o] = call[o]
             /\ \/ pc[o] \in Making /\ BackupWrite(o)
                \/ BackupCreate(o) /\ files[call[o].path] = NoFile /\ pc'[o] = "created"
  BY <1>0, <1>1, Zenon DEF Operator, BackupSnapshot, BackupPoint, BackupCreate, BackupWrite,
     BackupDiskError, BackupSync, RestoreRead, RestoreReset, RestoreResetError, RestorePut,
     RestorePutError, RestoreDone, RestoreReturn, DeleteCount, DeleteReset, Goes, Returns, At,
     CallTypes, Making
<1>2. ASSUME NEW o \in Operators, Operator(o), NEW x \in Operators \ {o}
      PROVE  pc'[x] = pc[x] /\ call'[x] = call[x]
  BY <1>0, <1>2, Zenon DEF CallTypes, Operator, BackupSnapshot, BackupPoint, BackupCreate,
     BackupWrite, BackupDiskError, BackupSync, RestoreRead, RestoreReset, RestoreResetError,
     RestorePut, RestorePutError, RestoreDone, RestoreReturn, DeleteCount, DeleteReset, Goes,
     Returns
<1>3. ASSUME NEW o \in Operators, Operator(o)
      PROVE  \A b \in acked' : b \in acked \/ (BackupSync(o) /\ b = call[o] /\ pc'[o] = "idle")
  BY <1>0, <1>3, Zenon DEF Operator, BackupSnapshot, BackupPoint, BackupCreate, BackupWrite,
     BackupDiskError, BackupSync, RestoreRead, RestoreReset, RestoreResetError, RestorePut,
     RestorePutError, RestoreDone, RestoreReturn, DeleteCount, DeleteReset, Returns, Goes,
     CallTypes
<1>4. CASE Mutate \/ MutateError \/ Start \/ Corrupt \/ UNCHANGED vars
  BY <1>4, Zenon DEF Mutate, MutateError, Start, Corrupt, vars, callVars
<1>5. CASE ProcessCrash \/ PowerLoss
  BY <1>5, Zenon DEF ProcessCrash, PowerLoss, Stop, Making
<1>6. ASSUME NEW o \in Operators, Operator(o), NEW x \in Operators, pc'[x] \in Making
      PROVE  /\ call'[x] = call[x]
             /\ \/ pc[x] \in Making /\ (pc[x] = pc'[x] \/ BackupWrite(x))
                \/ BackupCreate(x) /\ files[call[x].path] = NoFile /\ pc'[x] = "created"
  BY <1>1, <1>2, <1>6, Zenon
<1> QED BY <1>3, <1>4, <1>5, <1>6, Zenon DEF Next

LEMMA ApartStep ==
  ASSUME TypeInv, [Next]_vars, Kept
  PROVE  Apart'
<1>0. CallTypes /\ acked \subseteq Call
  BY TypeParts, Zenon DEF FileTypes
<1>1. /\ \A x \in Operators : pc'[x] \in Making =>
            /\ call'[x] = call[x]
            /\ \/ pc[x] \in Making
               \/ BackupCreate(x) /\ files[call[x].path] = NoFile /\ pc'[x] = "created"
      /\ \A b \in acked' : b \in acked \/ \E o \in Operators : BackupSync(o) /\ b = call[o] /\ pc'[o] = "idle"
  BY MakingStep, Zenon
<1>2. \A b \in acked : files[b.path] # NoFile
  BY <1>0, FileOfType, ZenonT(40) DEF Kept, OnDisk
<1>3. \A x \in Operators : pc[x] \in Making => files[call[x].path] # NoFile
  BY NoFileAssumption, Zenon DEF TypeInv, Present, Making
<1>4. \A o \in Operators : BackupSync(o) => pc[o] \in Making
  BY Zenon DEF BackupSync, At, Making
<1>5. ASSUME NEW o \in Operators, pc'[o] \in Making, NEW b \in acked'
      PROVE  b.path # call'[o].path
  <2>1. CASE b \in acked
    BY <1>1, <1>2, <1>5, <2>1 DEF Kept, Apart
  <2>2. CASE b \notin acked
    <3>1. PICK x \in Operators : BackupSync(x) /\ b = call[x] /\ pc'[x] = "idle"
      BY <1>1, <1>5, <2>2, Zenon
    <3>2. x # o /\ pc[x] \in Making
      BY <1>4, <1>5, <3>1, Zenon DEF Making
    <3> QED BY <1>1, <1>3, <1>5, <3>1, <3>2 DEF Kept, Apart
  <2> QED BY <2>1, <2>2, Zenon
<1>6. ASSUME NEW o \in Operators, pc'[o] \in Making, NEW x \in Operators, x # o, pc'[x] \in Making
      PROVE  call'[x].path # call'[o].path
  <2>1. CASE pc[o] \in Making /\ pc[x] \in Making
    BY <1>1, <1>6, <2>1 DEF Kept, Apart
  <2>2. CASE pc[o] \notin Making /\ pc[x] \in Making
    BY <1>1, <1>3, <1>6, <2>2
  <2>3. CASE pc[o] \in Making /\ pc[x] \notin Making
    BY <1>1, <1>3, <1>6, <2>3
  <2>4. CASE pc[o] \notin Making /\ pc[x] \notin Making
    <3>1. BackupCreate(o) /\ BackupCreate(x) /\ pc'[o] = "created" /\ pc'[x] = "created"
      BY <1>1, <1>6, <2>4, Zenon
    <3>2. pc' = [pc EXCEPT ![o] = "created"] \/ pc' = [pc EXCEPT ![o] = "idle"]
      BY <3>1, Zenon DEF BackupCreate, Goes, Returns
    <3>3. pc[x] = "pointed"
      BY <3>1, Zenon DEF BackupCreate, At
    <3> QED BY <1>0, <1>6, <3>1, <3>2, <3>3, Zenon DEF CallTypes
  <2> QED BY <2>1, <2>2, <2>3, <2>4, Zenon
<1> QED BY <1>5, <1>6, Zenon DEF Apart

(* A file nobody is making and that has been synced stays. *)
LEMMA SyncedStays ==
  ASSUME TypeInv, [Next]_vars, Calm, Kept, NEW b \in acked
  PROVE  files'[b.path] = FileOf(b, TRUE)
<1>0. b \in Call /\ b.path \in Paths
  BY Zenon DEF TypeInv, TypeOK, Call
<1>1. /\ files[b.path] = FileOf(b, TRUE) /\ FileOf(b, TRUE) # NoFile /\ FileOf(b, TRUE).synced = TRUE
  BY <1>0, FileOfType, Zenon DEF Kept, OnDisk
<1>2. CASE FileStays(b.path)
  BY <1>1, <1>2, Zenon DEF FileStays
<1>3. CASE FileMade(b.path) \/ FileLost(b.path) \/ FileDamaged(b.path)
  BY <1>1, <1>3, Zenon DEF FileMade, FileLost, FileDamaged, Calm
<1>4. CASE FileFilled(b.path)
  BY <1>4, Zenon DEF FileFilled, BackupWrite, At, Kept, Apart, Making
<1>5. CASE FileSynced(b.path)
  BY <1>5, Zenon DEF FileSynced, BackupSync, At, Kept, Apart, Making
<1> QED BY <1>0, <1>2, <1>3, <1>4, <1>5, FileChange, Zenon

(* A file somebody has written stays until it is synced. *)
LEMMA WrittenStays ==
  ASSUME TypeInv, [Next]_vars, Calm, Kept, NEW x \in Operators,
         pc[x] = "written", pc'[x] = "written"
  PROVE  files'[call[x].path] = FileOf(call[x], FALSE)
<1>0. call[x] \in Call /\ call[x].path \in Paths
  BY Zenon DEF TypeInv, InCall, Call
<1>1. files[call[x].path] = FileOf(call[x], FALSE) /\ FileOf(call[x], FALSE) # NoFile
  BY <1>0, FileOfType, Zenon DEF Kept, OnDisk
<1>2. CASE FileStays(call[x].path)
  BY <1>1, <1>2, Zenon DEF FileStays
<1>3. CASE FileMade(call[x].path) \/ FileDamaged(call[x].path)
  BY <1>1, <1>3, Zenon DEF FileMade, FileDamaged, Calm
<1>4. CASE FileLost(call[x].path)
  BY <1>4, Zenon DEF FileLost, PowerLoss, Stop
<1>5. CASE FileFilled(call[x].path)
  BY <1>5, Zenon DEF FileFilled, BackupWrite, At, Kept, Apart, Making
<1>6. CASE FileSynced(call[x].path)
  <2>1. PICK o \in Operators : BackupSync(o) /\ call[o].path = call[x].path
    BY <1>6, Zenon DEF FileSynced
  <2>2. pc[o] \in Making /\ pc' = [pc EXCEPT ![o] = "idle"]
    BY <2>1, Zenon DEF BackupSync, At, Returns, Goes, Making
  <2>3. pc'[o] = "idle"
    BY <2>2, TypeParts, Zenon DEF CallTypes
  <2>4. o # x
    BY <2>3, Zenon
  <2> QED BY <2>1, <2>2, <2>4, Zenon DEF Kept, Apart, Making
<1> QED BY <1>0, <1>2, <1>3, <1>4, <1>5, <1>6, FileChange, Zenon

LEMMA OnDiskStep ==
  ASSUME TypeInv, [Next]_vars, Calm, Kept
  PROVE  OnDisk'
<1>0. CallTypes /\ acked \subseteq Call /\ files \in [Paths -> File \cup {NoFile}]
  BY TypeParts, Zenon DEF FileTypes
<1>1. /\ \A x \in Operators : pc'[x] \in Making =>
            /\ call'[x] = call[x]
            /\ \/ pc[x] \in Making /\ (pc[x] = pc'[x] \/ BackupWrite(x))
               \/ BackupCreate(x) /\ files[call[x].path] = NoFile /\ pc'[x] = "created"
      /\ \A b \in acked' : b \in acked \/ \E o \in Operators : BackupSync(o) /\ b = call[o] /\ pc'[o] = "idle"
  BY MakingStep, Zenon
<1>2. ASSUME NEW b \in acked'
      PROVE  files'[b.path] = FileOf(b, TRUE)
  <2>1. CASE b \in acked
    BY <2>1, SyncedStays, Zenon
  <2>2. CASE b \notin acked
    <3>1. PICK o \in Operators : BackupSync(o) /\ b = call[o]
      BY <1>1, <1>2, <2>2, Zenon
    <3>2. /\ call[o] \in Call /\ call[o].path \in Paths /\ files[call[o].path] = FileOf(call[o], FALSE)
          /\ files' = [files EXCEPT ![call[o].path].synced = TRUE]
      BY <1>0, <3>1, Zenon DEF BackupSync, At, CallTypes, InCall, Call, Kept, OnDisk
    <3>3. files'[call[o].path] = [FileOf(call[o], FALSE) EXCEPT !.synced = TRUE]
      BY <1>0, <3>2, Zenon
    <3>4. [FileOf(call[o], FALSE) EXCEPT !.synced = TRUE] = FileOf(call[o], TRUE)
      BY <3>2, FileOfType, Zenon
    <3> QED BY <3>1, <3>3, <3>4, Zenon
  <2> QED BY <2>1, <2>2, Zenon
<1>3. ASSUME NEW x \in Operators, pc'[x] = "written"
      PROVE  files'[call'[x].path] = FileOf(call'[x], FALSE)
  <2>1. call'[x] = call[x] /\ pc[x] \in Making /\ (pc[x] = "written" \/ BackupWrite(x))
    BY <1>1, <1>3, Zenon DEF Making
  <2>2. CASE pc[x] = "written"
    <3>1. files'[call[x].path] = FileOf(call[x], FALSE)
      BY <1>3, <2>2, WrittenStays, Zenon
    <3> QED BY <2>1, <3>1, Zenon
  <2>3. CASE BackupWrite(x)
    <3>1. call[x] \in Call /\ call[x].path \in Paths
      BY <1>0, <2>1, Zenon DEF CallTypes, InCall, Making, Call
    <3>2. files' = [files EXCEPT ![call[x].path] = FileOf(call[x], FALSE)]
      BY <2>3, Zenon DEF BackupWrite, FileOf, Kept
    <3> QED BY <1>0, <2>1, <3>1, <3>2, ZenonT(40)
  <2> QED BY <2>1, <2>2, <2>3, Zenon
<1> QED BY <1>2, <1>3, Zenon DEF OnDisk

LEMMA KeptStep ==
  ASSUME TypeInv, [Next]_vars, Calm => Kept
  PROVE  (Calm => Kept)'
<1>1. faults' = faults
  BY CallsOnly, Zenon DEF Next, Mutate, MutateError, ProcessCrash, PowerLoss, Stop, Start,
     Corrupt, vars
<1> SUFFICES ASSUME Calm PROVE Kept'
  BY <1>1, Zenon DEF Calm
<1>2. types' = "plain"
  BY CallsOnly, Zenon DEF Next, Mutate, MutateError, ProcessCrash, PowerLoss, Stop, Start,
     Corrupt, vars, Kept, Calm
<1> QED BY <1>2, ApartStep, OnDiskStep, Zenon DEF Kept

(* A backup that was reported can be restored, with its entries and its recovery point,
   through the calls of other operators, failed writes, crashes and power losses. *)
THEOREM ReportedCanBeRestored == Spec => []AckedIsRestorable
<1>1. Init => TypeInv /\ (Calm => Kept)
  BY TypeInit, Zenon DEF Init, Kept, Apart, OnDisk, Making
<1>2. TypeInv /\ (Calm => Kept) /\ [Next]_vars => (TypeInv /\ (Calm => Kept))'
  BY TypeStep, KeptStep, Zenon
<1>3. TypeInv /\ (Calm => Kept) => AckedIsRestorable
  <2> SUFFICES ASSUME TypeInv, Calm, Kept, NEW b \in acked
               PROVE  /\ Readable(files[b.path]) /\ files[b.path] # NoFile
                      /\ files[b.path].entries = b.entries /\ files[b.path].point = b.point
    BY Zenon DEF AckedIsRestorable, Calm
  <2>1. b \in Call
    BY Zenon DEF TypeInv, TypeOK
  <2>2. files[b.path] = FileOf(b, TRUE) /\ FileOf(b, TRUE) # NoFile /\ types = "plain"
    BY <2>1, FileOfType, ZenonT(40) DEF Kept, OnDisk
  <2>3. /\ FileOf(b, TRUE).whole /\ FileOf(b, TRUE).entries = b.entries
        /\ FileOf(b, TRUE).point = b.point /\ FileOf(b, TRUE).sum = Checksum(b.entries, "plain")
    BY Zenon DEF FileOf
  <2> QED BY <2>2, <2>3, Zenon DEF Readable
<1> QED BY <1>1, <1>2, <1>3, PTL DEF Spec

-----------------------------------------------------------------------------
(* Restores. *)

OneEach(entries) == \A e, f \in entries : e.key = f.key => e = f

(* What o has loaded is in the state, for the keys nobody else has written. *)
Loaded(o) ==
    \A k \in Keys :
       (\A p \in 1..Len(log) : log[p].key = k => log[p].by = o) =>
          \A v \in Values :
             [key |-> k, val |-> v] \in call[o].entries \ call[o].left <=> state[k] = v

LoadedSoFar(o) ==
    /\ call[o].left \subseteq call[o].entries
    /\ call[o].reset <= resets
    /\ call[o].reset = resets => Loaded(o)

Loading ==
    /\ \A p \in Paths : files[p] # NoFile => OneEach(files[p].origin)
    /\ \A o \in Operators :
          /\ pc[o] \in InCall => OneEach(call[o].entries)
          /\ pc[o] = "read" => call[o].left = call[o].entries
          /\ pc[o] \in {"load", "restored"} => LoadedSoFar(o)
          /\ pc[o] = "restored" => call[o].left = {}

LEMMA SnapshotOneEach == \A s : OneEach(Snapshot(s))
  BY DEF OneEach, Snapshot

LEMMA AppendedLog ==
  ASSUME TypeInv, NEW k \in Keys, NEW v \in Values \cup {NoValue},
         NEW by \in Operators \cup {Client}, Writes(k, v, by)
  PROVE  /\ Len(log) \in Nat /\ Len(log') = Len(log) + 1
         /\ \A p \in 1..Len(log) : log'[p] = log[p]
         /\ log'[Len(log) + 1] = [key |-> k, val |-> v, by |-> by]
         /\ state' = [state EXCEPT ![k] = v] /\ resets' = resets
         /\ state \in [Keys -> Values \cup {NoValue}]
<1>1. [key |-> k, val |-> v, by |-> by] \in Record /\ log \in Seq(Record)
  BY Zenon DEF Record, TypeInv, TypeOK
<1> QED BY <1>1, AppendProperties, LenProperties DEF Writes, TypeInv, TypeOK

(* Somebody else's write touches a key that then no longer counts. *)
LEMMA OthersWrite ==
  ASSUME TypeInv, NEW k \in Keys, NEW v \in Values \cup {NoValue},
         NEW by \in Operators \cup {Client}, Writes(k, v, by),
         NEW o \in Operators, by # o, call'[o] = call[o], Loaded(o)
  PROVE  Loaded(o)'
<1>0. /\ Len(log) \in Nat /\ Len(log') = Len(log) + 1
      /\ \A p \in 1..Len(log) : log'[p] = log[p]
      /\ log'[Len(log) + 1] = [key |-> k, val |-> v, by |-> by]
      /\ state' = [state EXCEPT ![k] = v]
      /\ state \in [Keys -> Values \cup {NoValue}]
  BY AppendedLog, Zenon
<1> SUFFICES ASSUME NEW j \in Keys, \A p \in 1..Len(log') : log'[p].key = j => log'[p].by = o,
                    NEW w \in Values
             PROVE  [key |-> j, val |-> w] \in call[o].entries \ call[o].left <=> state'[j] = w
  BY Zenon DEF Loaded
<1>1. Len(log) + 1 \in 1..Len(log') /\ log'[Len(log) + 1].key = k /\ log'[Len(log) + 1].by = by
  BY <1>0
<1>2. j # k
  BY <1>1, Zenon
<1>3. \A p \in 1..Len(log) : log[p].key = j => log[p].by = o
  BY <1>0
<1>4. state'[j] = state[j]
  BY <1>0, <1>2, Zenon
<1> QED BY <1>3, <1>4, Zenon DEF Loaded

(* A turn of o's own loop. *)
LEMMA OwnWrite ==
  ASSUME TypeInv, NEW o \in Operators, pc[o] = "load", NEW e \in call[o].left,
         Writes(e.key, e.val, o), call' = [call EXCEPT ![o].left = @ \ {e}],
         OneEach(call[o].entries), call[o].left \subseteq call[o].entries, Loaded(o)
  PROVE  Loaded(o)'
<1>0. call[o] \in Call /\ call[o].entries \in SUBSET Entry /\ e \in Entry
  BY Zenon DEF TypeInv, InCall, Call
<1>1. e.key \in Keys /\ e.val \in Values /\ e = [key |-> e.key, val |-> e.val]
  BY <1>0, Zenon DEF Entry
<1>2. /\ Len(log) \in Nat /\ Len(log') = Len(log) + 1
      /\ \A p \in 1..Len(log) : log'[p] = log[p]
      /\ state' = [state EXCEPT ![e.key] = e.val]
      /\ state \in [Keys -> Values \cup {NoValue}]
  BY <1>1, AppendedLog, Zenon
<1>3. call'[o].entries = call[o].entries /\ call'[o].left = call[o].left \ {e}
  BY <1>0, Zenon DEF TypeInv, Call
<1> SUFFICES ASSUME NEW j \in Keys, \A p \in 1..Len(log') : log'[p].key = j => log'[p].by = o,
                    NEW w \in Values
             PROVE  [key |-> j, val |-> w] \in call'[o].entries \ call'[o].left <=> state'[j] = w
  BY Zenon DEF Loaded
<1>4. \A p \in 1..Len(log) : log[p].key = j => log[p].by = o
  BY <1>2
<1>5. [key |-> j, val |-> w] \in call[o].entries \ call[o].left <=> state[j] = w
  BY <1>4, Zenon DEF Loaded
<1> DEFINE n == [key |-> j, val |-> w]
<1>6. n.key = j /\ n.val = w
  BY Zenon
<1>7. CASE j = e.key
  <2>1. state'[j] = e.val
    BY <1>1, <1>2, <1>7, Zenon
  <2>2. n \in call[o].entries => n = e
    BY <1>6, <1>7, Zenon DEF OneEach
  <2>3. n = e <=> w = e.val
    BY <1>1, <1>6, <1>7, Zenon
  <2> HIDE DEF n
  <2>4. n \in call'[o].entries \ call'[o].left <=> n = e
    BY <1>3, <2>2, Zenon
  <2> QED BY <2>1, <2>3, <2>4, Zenon DEF n
<1>8. CASE j # e.key
  <2>1. state'[j] = state[j]
    BY <1>2, <1>8, Zenon
  <2>2. n # e
    BY <1>6, <1>8, Zenon
  <2> HIDE DEF n
  <2>3. n \in call'[o].entries \ call'[o].left <=> n \in call[o].entries \ call[o].left
    BY <1>3, <2>2, Zenon
  <2> QED BY <1>5, <2>1, <2>3, Zenon DEF n
<1> QED BY <1>7, <1>8, Zenon

(* The reset that begins a load. *)
LEMMA ResetLoaded ==
  ASSUME TypeInv, NEW o \in Operators, Reset, call'[o].left = call'[o].entries
  PROVE  Loaded(o)'
<1>1. \A k \in Keys : state'[k] = NoValue
  BY Zenon DEF Reset, Nothing
<1>2. \A v \in Values : v # NoValue
  BY ConstantsAssumption, Zenon
<1> QED BY <1>1, <1>2, Zenon DEF Loaded

(* What o is loading, in a step that is not o's. *)
LEMMA LoadedFrame ==
  ASSUME TypeInv, NEW o \in Operators, call[o] \in Call, call'[o] = call[o], LoadedSoFar(o),
         \/ UNCHANGED <<log, state, resets>>
         \/ resets' = resets + 1
         \/ \E k \in Keys, v \in Values \cup {NoValue}, by \in (Operators \cup {Client}) \ {o} :
               Writes(k, v, by)
  PROVE  LoadedSoFar(o)'
<1>0. resets \in Nat /\ call[o].reset \in Nat
  BY Zenon DEF TypeInv, TypeOK, Call
<1>1. CASE UNCHANGED <<log, state, resets>>
  BY <1>1, Zenon DEF LoadedSoFar, Loaded
<1>2. CASE resets' = resets + 1
  BY <1>0, <1>2 DEF LoadedSoFar
<1>3. ASSUME NEW k \in Keys, NEW v \in Values \cup {NoValue},
             NEW by \in (Operators \cup {Client}) \ {o}, Writes(k, v, by)
      PROVE  LoadedSoFar(o)'
  <2>1. resets' = resets
    BY <1>3, Zenon DEF Writes
  <2>2. Loaded(o) => Loaded(o)'
    BY <1>3, OthersWrite, Zenon
  <2> QED BY <2>1, <2>2, Zenon DEF LoadedSoFar
<1> QED BY <1>1, <1>2, <1>3, Zenon

LEMMA EngineStep ==
  ASSUME TypeInv, NEW x \in Operators, Operator(x)
  PROVE  \/ UNCHANGED <<log, state, resets>>
         \/ resets' = resets + 1
         \/ \E k \in Keys, v \in Values \cup {NoValue} : Writes(k, v, x)
<1>1. CASE RestorePut(x)
  <2>1. call[x] \in Call
    BY <1>1, Zenon DEF RestorePut, At, TypeInv, InCall
  <2>2. PICK e \in call[x].left : Writes(e.key, e.val, x)
    BY <1>1, Zenon DEF RestorePut
  <2>3. e.key \in Keys /\ e.val \in Values
    BY <2>1, <2>2, Zenon DEF Call, Entry
  <2> QED BY <2>2, <2>3, Zenon
<1>2. CASE Reset \/ ResetError
  BY <1>2, Zenon DEF Reset, ResetError, engineVars
<1>3. CASE ~RestorePut(x) /\ ~(Reset \/ ResetError)
  BY <1>3, Zenon DEF Operator, BackupSnapshot, BackupPoint, BackupCreate, BackupWrite,
     BackupDiskError, BackupSync, RestoreRead, RestoreReset, RestoreResetError, RestorePutError,
     WriteFails, RestoreDone, RestoreReturn, DeleteCount, DeleteReset, engineVars
<1> QED BY <1>1, <1>2, <1>3, Zenon

LEMMA LoadingFiles ==
  ASSUME TypeInv, [Next]_vars, Loading, NEW p \in Paths, files'[p] # NoFile
  PROVE  OneEach(files'[p].origin)
<1>1. CASE FileStays(p)
  BY <1>1, Zenon DEF FileStays, Loading
<1>2. CASE FileMade(p)
  BY <1>2, Zenon DEF FileMade, Loading, InCall
<1>3. CASE FileLost(p)
  BY <1>3, Zenon DEF FileLost, Loading
<1>4. CASE FileFilled(p)
  <2>1. PICK o \in Operators : pc[o] = "created" /\ files'[p].origin = call[o].entries
    BY <1>4 DEF FileFilled, BackupWrite, At
  <2> QED BY <2>1, Zenon DEF Loading, InCall
<1>5. CASE FileSynced(p)
  <2>1. files[p] # NoFile /\ files'[p].origin = files[p].origin
    BY <1>5, NoFileAssumption, Zenon DEF FileSynced, File
  <2> QED BY <2>1, Zenon DEF Loading
<1>6. CASE FileDamaged(p)
  <2>1. files[p] # NoFile /\ files'[p].origin = files[p].origin
    BY <1>6, NoFileAssumption, Zenon DEF FileDamaged
  <2> QED BY <2>1 DEF Loading
<1> QED BY <1>1, <1>2, <1>3, <1>4, <1>5, <1>6, FileChange, Zenon

(* What Loading says of one operator. *)
LoadingCall(o) ==
    /\ pc[o] \in InCall => OneEach(call[o].entries)
    /\ pc[o] = "read" => call[o].left = call[o].entries
    /\ pc[o] \in {"load", "restored"} => LoadedSoFar(o)
    /\ pc[o] = "restored" => call[o].left = {}

LEMMA LoadingOwn ==
  ASSUME TypeInv, TypeInv', Taken, Loading, NEW o \in Operators, Operator(o)
  PROVE  LoadingCall(o)'
<1>0. /\ CallTypes /\ files \in [Paths -> File \cup {NoFile}]
      /\ pc[o] \in InCall => call[o] \in Call
      /\ resets \in Nat
  BY TypeParts, Zenon DEF FileTypes, CallTypes, EngineTypes
<1>1. CASE BackupSnapshot(o)
  <2>1. pc'[o] = "snapped" /\ call'[o].entries = Snapshot(state)
    BY <1>0, <1>1 DEF BackupSnapshot, Goes, CallTypes
  <2> QED BY <2>1, SnapshotOneEach, Zenon DEF LoadingCall
<1>2. CASE BackupPoint(o) \/ BackupCreate(o) \/ BackupWrite(o)
  <2>1. /\ pc[o] \in InCall /\ call[o] \in Call
        /\ \/ pc'[o] = "idle"
           \/ pc'[o] \in Taking /\ call'[o].entries = call[o].entries
    BY <1>0, <1>2 DEF BackupPoint, BackupCreate, BackupWrite, At, Goes, Returns, CallTypes,
       InCall, Taking, Call
  <2> QED BY <2>1, Zenon DEF Loading, LoadingCall, Taking, InCall
<1>3. CASE RestoreRead(o)
  <2>1. PICK p \in Paths :
          /\ Readable(files[p])
          /\ call' = [call EXCEPT ![o] = [path |-> p, entries |-> files[p].entries,
                         origin |-> files[p].origin, left |-> files[p].entries, at |-> 0,
                         point |-> files[p].point, reset |-> 0, era |-> 0]]
    BY <1>3, ZenonT(40) DEF RestoreRead
  <2>2. /\ call'[o].entries = files[p].entries /\ call'[o].origin = files[p].origin
        /\ call'[o].left = files[p].entries /\ pc'[o] = "read" /\ files[p] # NoFile
    BY <1>0, <1>3, <2>1, Zenon DEF RestoreRead, Goes, CallTypes, Readable
  <2>3. call'[o].entries = call'[o].origin
    BY <1>3, <2>2, TakenCalls, Zenon DEF Operator, Restoring
  <2>4. OneEach(call'[o].entries)
    BY <2>2, <2>3, Zenon DEF Loading
  <2> QED BY <2>2, <2>4, Zenon DEF LoadingCall
<1>4. CASE RestoreReset(o)
  <2>1. /\ pc[o] = "read" /\ Reset /\ pc'[o] = "load" /\ call[o] \in Call
        /\ call' = [call EXCEPT ![o].reset = resets']
    BY <1>0, <1>4, Zenon DEF RestoreReset, At, Goes, CallTypes, InCall
  <2>2. /\ call'[o].entries = call[o].entries /\ call'[o].left = call[o].left
        /\ call'[o].reset = resets'
    BY <1>0, <2>1, Zenon DEF CallTypes, Call
  <2>3. call[o].left = call[o].entries /\ OneEach(call[o].entries)
    BY <2>1, Zenon DEF Loading, InCall
  <2>4. Loaded(o)'
    BY <2>1, <2>2, <2>3, ResetLoaded, Zenon
  <2>5. resets' \in Nat
    BY Zenon DEF TypeInv, TypeOK
  <2>6. LoadedSoFar(o)'
    BY <2>2, <2>3, <2>4, <2>5 DEF LoadedSoFar
  <2> QED BY <2>1, <2>2, <2>3, <2>6, Zenon DEF LoadingCall
<1>5. CASE RestorePut(o)
  <2>1. pc[o] = "load" /\ pc'[o] = "load" /\ call[o] \in Call
    BY <1>0, <1>5, Zenon DEF RestorePut, At, Goes, CallTypes, InCall
  <2>2. PICK e \in call[o].left : /\ Writes(e.key, e.val, o)
                                  /\ call' = [call EXCEPT ![o].left = @ \ {e}]
    BY <1>5, Zenon DEF RestorePut
  <2>3. OneEach(call[o].entries) /\ LoadedSoFar(o)
    BY <2>1, Zenon DEF Loading, InCall
  <2>4. Loaded(o) => Loaded(o)'
    BY <2>1, <2>2, <2>3, OwnWrite, ZenonT(40) DEF LoadedSoFar
  <2>5. /\ call'[o].entries = call[o].entries /\ call'[o].left = call[o].left \ {e}
        /\ call'[o].reset = call[o].reset /\ resets' = resets
    BY <1>0, <2>1, <2>2, Zenon DEF CallTypes, Call, Writes
  <2>6. LoadedSoFar(o)'
    BY <2>3, <2>4, <2>5, Zenon DEF LoadedSoFar
  <2> QED BY <2>1, <2>3, <2>5, <2>6, Zenon DEF LoadingCall
<1>6. CASE RestoreDone(o)
  <2>1. UNCHANGED <<log, state, resets, call>>
    BY <1>6, Zenon DEF RestoreDone, engineVars
  <2>2. pc[o] = "load" /\ pc'[o] = "restored" /\ call[o].left = {}
    BY <1>0, <1>6, Zenon DEF RestoreDone, At, Goes, CallTypes
  <2>3. OneEach(call[o].entries) /\ LoadedSoFar(o)
    BY <2>2, Zenon DEF Loading, InCall
  <2>4. LoadedSoFar(o)'
    BY <2>1, <2>3, Zenon DEF LoadedSoFar, Loaded
  <2>5. OneEach(call[o].entries)'
    BY <2>1, <2>3, Zenon DEF OneEach
  <2> QED BY <2>1, <2>2, <2>4, <2>5, Zenon DEF LoadingCall
<1>7. CASE \/ BackupDiskError(o) \/ BackupSync(o) \/ RestoreResetError(o) \/ RestorePutError(o)
           \/ RestoreReturn(o) \/ DeleteCount(o) \/ DeleteReset(o)
  <2>1. pc'[o] \in {"idle", "counted"}
    BY <1>0, <1>7, Zenon DEF BackupDiskError, BackupSync, RestoreResetError, RestorePutError,
       RestoreReturn, DeleteCount, DeleteReset, Goes, Returns, CallTypes
  <2> QED BY <2>1, Zenon DEF LoadingCall, InCall
<1> QED BY <1>1, <1>2, <1>3, <1>4, <1>5, <1>6, <1>7, Zenon DEF Operator

LEMMA LoadingOther ==
  ASSUME TypeInv, Loading, NEW o \in Operators, pc'[o] = pc[o], call'[o] = call[o],
         \/ UNCHANGED <<log, state, resets>>
         \/ resets' = resets + 1
         \/ \E k \in Keys, v \in Values \cup {NoValue}, by \in (Operators \cup {Client}) \ {o} :
               Writes(k, v, by)
  PROVE  LoadingCall(o)'
<1>1. pc[o] \in {"load", "restored"} => call[o] \in Call
  BY Zenon DEF TypeInv, InCall
<1>2. pc[o] \in {"load", "restored"} => LoadedSoFar(o)'
  BY <1>1, LoadedFrame, Zenon DEF Loading
<1> QED BY <1>2, ZenonT(40) DEF Loading, LoadingCall

LEMMA LoadingStep ==
  ASSUME TypeInv, TypeInv', [Next]_vars, Taken, Loading
  PROVE  Loading'
<1>0. \A p \in Paths : files'[p] # NoFile => OneEach(files'[p].origin)
  BY LoadingFiles, Zenon
<1> SUFFICES ASSUME NEW o \in Operators PROVE LoadingCall(o)'
  BY <1>0, Zenon DEF Loading, LoadingCall
<1>1. ASSUME NEW x \in Operators, Operator(x)
      PROVE  LoadingCall(o)'
  <2>1. CASE x = o
    BY <1>1, <2>1, LoadingOwn, Zenon
  <2>2. CASE x # o
    <3>1. OthersStay(x)
      BY <1>1, OperatorFrame, Zenon DEF TypeInv, TypeOK, FileTypes
    <3>2. pc'[o] = pc[o] /\ call'[o] = call[o]
      BY <2>2, <3>1, Zenon DEF OthersStay
    <3>3. \/ UNCHANGED <<log, state, resets>>
          \/ resets' = resets + 1
          \/ \E k \in Keys, v \in Values \cup {NoValue} : Writes(k, v, x)
      BY <1>1, EngineStep, Zenon
    <3>4. x \in (Operators \cup {Client}) \ {o}
      BY <2>2, Zenon
    <3> QED BY <3>2, <3>3, <3>4, LoadingOther, Zenon
  <2> QED BY <2>1, <2>2, Zenon
<1>2. CASE Mutate
  <2>1. pc'[o] = pc[o] /\ call'[o] = call[o]
    BY <1>2, Zenon DEF Mutate, callVars
  <2>2. \E k \in Keys, v \in Values \cup {NoValue} : Writes(k, v, Client)
    BY <1>2, Zenon DEF Mutate
  <2>3. Client \in (Operators \cup {Client}) \ {o}
    BY ConstantsAssumption, Zenon
  <2> QED BY <2>1, <2>2, <2>3, LoadingOther, ZenonT(40)
<1>3. CASE Stop
  BY <1>3, ZenonT(40) DEF Stop, LoadingCall, InCall
<1>4. CASE Start
  BY <1>4, ZenonT(40) DEF Start, callVars, LoadingCall, InCall, TypeInv
<1>5. CASE MutateError \/ Corrupt \/ UNCHANGED vars
  <2>1. pc'[o] = pc[o] /\ call'[o] = call[o] /\ UNCHANGED <<log, state, resets>>
    BY <1>5, Zenon DEF MutateError, WriteFails, Corrupt, vars, callVars, engineVars
  <2> QED BY <2>1, LoadingOther, Zenon
<1> QED BY <1>1, <1>2, <1>3, <1>4, <1>5, Zenon DEF Next, ProcessCrash, PowerLoss

LEMMA LoadedIsBackup ==
  ASSUME TypeInv, Loading
  PROVE  RestoredIsBackup
<1> SUFFICES ASSUME NEW o \in Operators, pc[o] = "restored", call[o].reset = resets, NEW k \in Keys,
                    \A p \in 1..Len(log) : log[p].key = k => log[p].by = o
             PROVE  {e \in call[o].entries : e.key = k} = {e \in Snapshot(state) : e.key = k}
  BY Zenon DEF RestoredIsBackup
<1>0. /\ call[o].entries \in SUBSET Entry /\ call[o].left = {}
      /\ state \in [Keys -> Values \cup {NoValue}]
  BY Zenon DEF TypeInv, TypeOK, InCall, Call, Loading
<1>1. \A v \in Values : [key |-> k, val |-> v] \in call[o].entries <=> state[k] = v
  BY <1>0, Zenon DEF Loading, LoadedSoFar, Loaded
<1>2. NoValue \notin Values
  BY ConstantsAssumption, Zenon
<1>3. ASSUME NEW e \in call[o].entries, e.key = k PROVE e \in Snapshot(state)
  <2>1. e = [key |-> k, val |-> e.val] /\ e.val \in Values
    BY <1>0, <1>3, Zenon DEF Entry
  <2>2. state[k] = e.val /\ state[k] # NoValue
    BY <1>1, <1>2, <1>3, <2>1, Zenon
  <2> QED BY <2>1, <2>2, Zenon DEF Snapshot
<1>4. ASSUME NEW e \in Snapshot(state), e.key = k PROVE e \in call[o].entries
  <2>1. e = [key |-> k, val |-> state[k]] /\ state[k] \in Values
    BY <1>0, <1>4 DEF Snapshot
  <2> QED BY <1>1, <2>1, Zenon
<1> QED BY <1>3, <1>4, Zenon

(* When a restore is reported, every key that nobody else has written since its reset is
   as the backup has it, whoever wrote or wiped while it ran. *)
THEOREM RestoreIsComplete == Spec => []RestoredIsBackup
<1>1. Init => TypeInv /\ Taken /\ Loading
  BY TypeInit, Zenon DEF Init, Taken, LoadedWasTaken, Loading, InCall
<1>2. TypeInv /\ Taken /\ Loading /\ [Next]_vars => (TypeInv /\ Taken /\ Loading)'
  BY TypeStep, TakenStep, LoadingStep, Zenon
<1>3. TypeInv /\ Loading => RestoredIsBackup
  BY LoadedIsBackup, Zenon
<1> QED BY <1>1, <1>2, <1>3, PTL DEF Spec
=============================================================================
