------------------------- MODULE ChangeStreamProofs -------------------------
(***************************************************************************)
(* Proofs about ChangeStream, for every number of members, batch size and  *)
(* combination of faults.                                                  *)
(***************************************************************************)
EXTENDS ChangeStream, SequenceTheorems, TLAPS

LEMMA Prefix ==
  ASSUME NEW S, NEW s \in Seq(S), NEW n \in 0..Len(s)
  PROVE  /\ SubSeq(s, 1, n) \in Seq(S)
         /\ Len(SubSeq(s, 1, n)) = n
         /\ \A i \in 1..n : SubSeq(s, 1, n)[i] = s[i]
<1>1. \A i \in 1..n : s[i] \in S
  BY ElementOfSeq
<1> QED BY <1>1, SubSeqProperties

(* What ReadRange gives: the records from position from on, in order. *)
LEMMA ReadRangeGives ==
  ASSUME TypeOK, NEW from \in Nat \ {0}
  PROVE  /\ ReadRange(from) \in Seq(1..produced)
         /\ Len(ReadRange(from)) \in Nat
         /\ \A i \in 1..Len(ReadRange(from)) :
               /\ from + i - 1 \in 1..Len(log)
               /\ ReadRange(from)[i] = log[from + i - 1]
<1> DEFINE to == IF from + Limit - 1 < Len(log) THEN from + Limit - 1 ELSE Len(log)
<1>1. to \in Nat /\ to <= Len(log)
  BY ConstantsAssumption DEF TypeOK
<1>2. \A i \in from..to : log[i] \in 1..produced
  BY <1>1, ElementOfSeq DEF TypeOK
<1>3. ReadRange(from) = SubSeq(log, from, to)
  BY Zenon DEF ReadRange
<1> HIDE DEF to
<1>4. /\ SubSeq(log, from, to) \in Seq(1..produced)
      /\ Len(SubSeq(log, from, to)) = IF from <= to THEN to - from + 1 ELSE 0
      /\ \A i \in 1..to - from + 1 : SubSeq(log, from, to)[i] = log[from + i - 1]
  BY <1>1, <1>2, SubSeqProperties
<1> QED BY <1>1, <1>3, <1>4 DEF TypeOK

LEMMA TypeInit == Init => TypeOK
<1> SUFFICES ASSUME Init PROVE TypeOK
  BY Zenon
<1>1. log \in Seq(1..produced) /\ synced \in 0..Len(log)
  BY EmptySeq DEF Init
<1>2. olog \in Seq(Nat) /\ osynced \in 0..Len(olog)
  BY EmptySeq DEF Init
<1>3. <<>> \in Seq(1..produced)
  BY EmptySeq, Zenon
<1>4. batch \in [Members -> Seq(1..produced)]
  BY <1>3, Zenon DEF Init
<1>5. up \in BOOLEAN /\ writing \in BOOLEAN
  BY Zenon DEF Init
<1>6. processed \subseteq 1..produced
  BY Zenon DEF Init
<1>7. /\ pc \in [Members -> {"idle", "fetch", "process", "commit", "sync"}]
      /\ pos \in [Members -> Nat \ {0}]
  BY DEF Init
<1> QED BY <1>1, <1>2, <1>4, <1>5, <1>6, <1>7, Zenon DEF Init, TypeOK

LEMMA TypeStep == TypeOK /\ [Next]_vars => TypeOK'
<1> SUFFICES ASSUME TypeOK, [Next]_vars PROVE TypeOK'
  BY Zenon
<1>1. CASE Produce
  <2>1. produced' = produced + 1 /\ 1..produced \subseteq 1..produced' /\ produced' \in 1..produced'
    BY <1>1 DEF Produce, TypeOK
  <2>2. log \in Seq(1..produced') /\ \A m \in Members : batch[m] \in Seq(1..produced')
    BY <2>1, SeqMonotonic, Zenon DEF TypeOK
  <2>3. log' \in Seq(1..produced') /\ Len(log') = Len(log) + 1
    BY <1>1, <2>1, <2>2, AppendProperties, Zenon DEF Produce
  <2>4. batch' \in [Members -> Seq(1..produced')]
    BY <1>1, <2>2, Zenon DEF Produce, memberVars, TypeOK
  <2>5. synced' \in 0..Len(log') /\ processed' \subseteq 1..produced'
    BY <1>1, <2>1, <2>3 DEF Produce, TypeOK
  <2> QED BY <1>1, <2>1, <2>3, <2>4, <2>5 DEF Produce, TypeOK, storeVars, memberVars
<1>2. CASE ProduceDone \/ ProduceSyncError \/ DeleteNamespace
  <2>1. CASE ProduceDone \/ ProduceSyncError
    <3>1. writing' \in BOOLEAN
      BY <2>1, Zenon DEF ProduceDone, ProduceSyncError
    <3>2. synced' \in 0..Len(log')
      BY <2>1 DEF ProduceDone, ProduceSyncError, TypeOK
    <3> QED BY <2>1, <3>1, <3>2, Zenon DEF ProduceDone, ProduceSyncError, TypeOK, storeVars,
       memberVars
  <2>2. CASE DeleteNamespace
    <3>1. log' \in Seq(1..produced) /\ synced' \in 0..Len(log')
      BY <2>2, EmptySeq DEF DeleteNamespace
    <3> QED BY <2>2, <3>1, Zenon DEF DeleteNamespace, TypeOK, storeVars, memberVars
  <2> QED BY <1>2, <2>1, <2>2, Zenon
<1>3. ASSUME NEW m \in Members, Member(m) \/ MemberCrash(m)
      PROVE  TypeOK'
  <2>1. CASE FetchOffset(m)
    BY <2>1 DEF FetchOffset, Higher, TypeOK, nodeVars, storeVars
  <2>6. CASE CommitDone(m)
    BY <2>6 DEF CommitDone, Higher, TypeOK, nodeVars
  <2>7. CASE CommitRejected(m) \/ CommitError(m)
    BY <2>7, Zenon DEF CommitRejected, CommitError, TypeOK, nodeVars, storeVars
  <2>2. CASE Fetch(m)
    <3>1. /\ ReadRange(pos[m]) \in Seq(1..produced)
          /\ NextOffset(pos[m], ReadRange(pos[m])) \in Nat \ {0}
      BY ReadRangeGives DEF TypeOK, NextOffset
    <3> QED BY <2>2, <3>1, Zenon DEF Fetch, TypeOK, nodeVars, storeVars
  <2>3. CASE Process(m)
    <3>1. {batch[m][i] : i \in 1..Len(batch[m])} \subseteq 1..produced
      BY ElementOfSeq DEF TypeOK
    <3> QED BY <2>3, <3>1, EmptySeq, Zenon DEF Process, TypeOK, nodeVars, storeVars
  <2>4. CASE CommitAppend(m)
    <3>1. olog' \in Seq(Nat) /\ Len(olog') = Len(olog) + 1
      BY <2>4, AppendProperties DEF CommitAppend, TypeOK
    <3> QED BY <2>4, <3>1 DEF CommitAppend, TypeOK, nodeVars
  <2>5. CASE MemberCrash(m)
    BY <2>5, EmptySeq, Zenon DEF MemberCrash, TypeOK, nodeVars, storeVars
  <2> QED BY <1>3, <2>1, <2>2, <2>3, <2>4, <2>5, <2>6, <2>7, Zenon DEF Member
<1>4. CASE ProcessCrash
  BY <1>4, Zenon DEF ProcessCrash, Stop, TypeOK
<1>5. CASE PowerLoss
  <2>1. log' \in Seq(1..produced) /\ synced' \in 0..Len(log')
    BY <1>5, Prefix DEF PowerLoss, TypeOK
  <2>2. olog' \in Seq(Nat) /\ osynced' \in 0..Len(olog')
    BY <1>5, Prefix DEF PowerLoss, TypeOK
  <2> QED BY <1>5, <2>1, <2>2, Zenon DEF PowerLoss, Stop, TypeOK
<1>6. CASE Restart
  <2>1. offset' \in Nat
    BY <1>6, EmptySeq, ElementOfSeq DEF Restart, TypeOK
  <2> QED BY <1>6, <2>1, Zenon DEF Restart, TypeOK, nodeVars, memberVars
<1>7. CASE UNCHANGED vars
  BY <1>7, Zenon DEF vars, TypeOK, nodeVars, storeVars, memberVars
<1> QED BY <1>1, <1>2, <1>3, <1>4, <1>5, <1>6, <1>7, Zenon DEF Next

(* The model of the stream and of its consumers is type-correct. *)
THEOREM TypeCorrect == Spec => []TypeOK
  BY TypeInit, TypeStep, PTL DEF Spec
-----------------------------------------------------------------------------
(* Delivery. *)

(* Offset o is where a consumer may go on: all records before it are processed,
   and it is at most one past the end. *)
Upto(o) ==
    /\ o <= Len(log) + 1
    /\ \A p \in 1..Len(log) : p < o => log[p] \in processed

(* Where member m goes on is of that kind; with a batch still to process it vouches
   for it itself. *)
Vouches(m) ==
    /\ pc[m] \in {"fetch", "commit", "sync"} => Upto(pos[m])
    /\ pc[m] = "process" =>
          /\ pos[m] <= Len(log) + 1
          /\ \A p \in 1..Len(log) : p < pos[m] =>
                log[p] \in processed \cup {batch[m][i] : i \in 1..Len(batch[m])}

(* So are the committed offset and those in the offset log, which replay may bring
   back. *)
Vouched ==
    /\ Upto(offset)
    /\ \A i \in 1..Len(olog) : Upto(olog[i])
    /\ \A m \in Members : Vouches(m)

Lossless == faults \cap {"power", "wipe"} = {}

DeliveryInv == TypeOK /\ (Lossless => Vouched)

(* While nothing is lost, the log and what is processed only grow. *)
LEMMA Grows ==
  ASSUME TypeOK, [Next]_vars
  PROVE  /\ faults' = faults
         /\ Lossless =>
               /\ Len(log') \in Nat /\ Len(log) <= Len(log')
               /\ \A p \in 1..Len(log) : log'[p] = log[p]
               /\ processed \subseteq processed'
<1>1. CASE Produce
  <2>1. /\ Len(log') = Len(log) + 1
        /\ \A p \in 1..Len(log) : log'[p] = log[p]
    BY <1>1 DEF Produce, TypeOK
  <2> QED BY <1>1, <2>1 DEF Produce, TypeOK
<1>2. CASE ProduceDone \/ ProduceSyncError
  BY <1>2 DEF ProduceDone, ProduceSyncError, TypeOK
<1>3. CASE DeleteNamespace \/ PowerLoss
  BY <1>3, Zenon DEF DeleteNamespace, PowerLoss, Stop, Lossless
<1>4. ASSUME NEW m \in Members, Member(m) \/ MemberCrash(m)
      PROVE  faults' = faults /\ log' = log /\ processed \subseteq processed'
  BY <1>4, Zenon DEF Member, FetchOffset, Fetch, Process, CommitRejected, CommitAppend,
     CommitDone, CommitError, MemberCrash, nodeVars
<1>5. CASE ProcessCrash \/ Restart \/ UNCHANGED vars
  BY <1>5 DEF ProcessCrash, Stop, Restart, nodeVars, vars, TypeOK
<1> QED BY <1>1, <1>2, <1>3, <1>4, <1>5 DEF Next, TypeOK

LEMMA UptoStays ==
  ASSUME TypeOK, [Next]_vars, Lossless, NEW o \in Nat, Upto(o)
  PROVE  /\ o <= Len(log') + 1
         /\ \A p \in 1..Len(log') : p < o => log'[p] \in processed'
<1>1. \A p \in 1..Len(log') : p < o => p \in 1..Len(log)
  BY Grows DEF Upto, TypeOK
<1> QED BY <1>1, Grows DEF Upto, TypeOK

(* A member that stays where it is keeps what was known of it. *)
LEMMA MemberStays ==
  ASSUME TypeOK, [Next]_vars, Lossless, Vouched, NEW m \in Members,
         pc'[m] \in {pc[m], "idle"}, pos'[m] = pos[m],
         pc'[m] = "process" => batch'[m] = batch[m]
  PROVE  Vouches(m)'
<1>1. pos[m] \in Nat
  BY Zenon DEF TypeOK
<1>2. CASE pc'[m] \in {"fetch", "commit", "sync"}
  <2>1. Upto(pos[m])
    BY <1>2, Zenon DEF Vouched, Vouches
  <2>2. /\ pos[m] <= Len(log') + 1
        /\ \A p \in 1..Len(log') : p < pos[m] => log'[p] \in processed'
    BY <1>1, <2>1, UptoStays, Zenon
  <2> QED BY <1>2, <2>2, Zenon DEF Upto, Vouches
<1>3. CASE pc'[m] = "process"
  <2>1. /\ pos[m] <= Len(log) + 1
        /\ \A p \in 1..Len(log) : p < pos[m] =>
              log[p] \in processed \cup {batch[m][i] : i \in 1..Len(batch[m])}
    BY <1>3, Zenon DEF Vouched, Vouches
  <2>2. \A p \in 1..Len(log') : p < pos[m] => p \in 1..Len(log)
    BY <1>1, <2>1, Grows DEF TypeOK
  <2>3. pos'[m] <= Len(log') + 1
    BY <1>1, <2>1, Grows DEF TypeOK
  <2>4. ASSUME NEW p \in 1..Len(log'), p < pos'[m]
        PROVE  log'[p] \in processed' \cup {batch'[m][i] : i \in 1..Len(batch'[m])}
    <3>1. p \in 1..Len(log) /\ log'[p] = log[p] /\ batch'[m] = batch[m]
      BY <1>3, <2>2, <2>4, Grows, Zenon
    <3>2. log[p] \in processed \cup {batch[m][i] : i \in 1..Len(batch[m])}
      BY <2>1, <2>4, <3>1, Zenon
    <3> QED BY <3>1, <3>2, Grows, Zenon
  <2> QED BY <1>3, <2>3, <2>4, Zenon DEF Vouches
<1> QED BY <1>2, <1>3, Zenon DEF Vouches
(* Offsets that stay where they are. *)
LEMMA OffsetsStay ==
  ASSUME TypeOK, [Next]_vars, Lossless, Vouched
  PROVE  /\ offset' \in {0, offset} => Upto(offset)'
         /\ olog' = olog => \A i \in 1..Len(olog') : Upto(olog[i])'
<1>1. ASSUME offset' = 0 PROVE Upto(offset)'
  <2>1. Len(log') \in Nat
    BY Grows, Zenon
  <2>2. Upto(offset)' <=> /\ offset' <= Len(log') + 1
                          /\ \A p \in 1..Len(log') : p < offset' => log'[p] \in processed'
    BY Zenon DEF Upto
  <2> QED BY <1>1, <2>1, <2>2
<1>2. ASSUME offset' = offset PROVE Upto(offset)'
  <2>1. offset \in Nat /\ Upto(offset)
    BY Zenon DEF TypeOK, Vouched
  <2>2. /\ offset <= Len(log') + 1
        /\ \A p \in 1..Len(log') : p < offset => log'[p] \in processed'
    BY <2>1, UptoStays, Zenon
  <2> QED BY <1>2, <2>2, Zenon DEF Upto
<1>3. ASSUME olog' = olog, NEW i \in 1..Len(olog')
      PROVE  Upto(olog[i])'
  <2>1. olog[i] \in Nat /\ Upto(olog[i])
    BY <1>3, ElementOfSeq, Zenon DEF TypeOK, Vouched
  <2> QED BY <1>3, <2>1, UptoStays, Zenon DEF Upto
<1> QED BY <1>1, <1>2, <1>3, Zenon

LEMMA VouchedStep ==
  ASSUME TypeOK, [Next]_vars, Lossless, Vouched
  PROVE  Vouched'
<1>1. CASE Produce \/ ProduceDone \/ ProduceSyncError \/ DeleteNamespace \/ UNCHANGED vars
  <2>1. offset' = offset /\ olog' = olog /\ pc' = pc /\ pos' = pos /\ batch' = batch
    BY <1>1, Zenon DEF Produce, ProduceDone, ProduceSyncError, DeleteNamespace, vars, storeVars,
       memberVars
  <2> QED BY <2>1, OffsetsStay, MemberStays, Zenon DEF Vouched
<1>2. ASSUME NEW m \in Members, Member(m) \/ MemberCrash(m)
      PROVE  Vouched'
  <2>1. ASSUME NEW k \in Members \ {m}
        PROVE  Vouches(k)'
    <3>1. pc'[k] = pc[k] /\ pos'[k] = pos[k] /\ batch'[k] = batch[k]
      BY <1>2, Zenon DEF Member, FetchOffset, Fetch, Process, CommitRejected, CommitAppend,
         CommitDone, CommitError, MemberCrash, TypeOK
    <3> QED BY <3>1, MemberStays, Zenon
  <2>2. CASE FetchOffset(m)
    <3>1. offset' = offset /\ olog' = olog /\ log' = log /\ processed' = processed
      BY <2>2, Zenon DEF FetchOffset, storeVars, nodeVars
    <3>2. pc'[m] = "fetch" /\ pos'[m] = IF offset = 0 THEN 1 ELSE offset
      BY <2>2, Zenon DEF FetchOffset, TypeOK
    <3>3. Vouches(m)'
      BY <3>1, <3>2 DEF Vouches, Vouched, Upto, TypeOK
    <3> QED BY <2>1, <3>1, <3>3, OffsetsStay, Zenon DEF Vouched
  <2>3. CASE Fetch(m)
    <3>1. offset' = offset /\ olog' = olog /\ log' = log /\ processed' = processed
      BY <2>3, Zenon DEF Fetch, storeVars, nodeVars
    <3> DEFINE records == ReadRange(pos[m])
    <3>2. /\ pc[m] = "fetch" /\ pc'[m] = "process"
          /\ pos'[m] = pos[m] + Len(records) /\ batch'[m] = records
      BY <2>3, Zenon DEF Fetch, NextOffset, TypeOK
    <3>3. pos[m] \in Nat \ {0} /\ Upto(pos[m])
      BY <3>2, Zenon DEF Vouched, Vouches, TypeOK
    <3>4. /\ Len(records) \in Nat
          /\ \A i \in 1..Len(records) :
                pos[m] + i - 1 \in 1..Len(log) /\ records[i] = log[pos[m] + i - 1]
      BY <3>3, ReadRangeGives, Zenon
    <3> HIDE DEF records
    <3>5. pos'[m] <= Len(log) + 1
      <4>1. CASE Len(records) = 0
        BY <3>2, <3>3, <4>1 DEF Upto, TypeOK
      <4>2. CASE Len(records) # 0
        <5>1. Len(records) \in 1..Len(records)
          BY <3>4, <4>2
        <5>2. pos[m] + Len(records) - 1 \in 1..Len(log)
          BY <3>4, <5>1, Zenon
        <5> QED BY <3>2, <3>3, <3>4, <5>2 DEF TypeOK
      <4> QED BY <4>1, <4>2, Zenon
    <3>6. ASSUME NEW p \in 1..Len(log), p < pos'[m]
          PROVE  log[p] \in processed \cup {batch'[m][i] : i \in 1..Len(batch'[m])}
      <4>1. CASE p < pos[m]
        BY <3>3, <4>1, Zenon DEF Upto
      <4>2. CASE ~(p < pos[m])
        <5>1. p - pos[m] + 1 \in 1..Len(records) /\ pos[m] + (p - pos[m] + 1) - 1 = p
          BY <3>2, <3>3, <3>4, <3>6, <4>2
        <5>2. records[p - pos[m] + 1] = log[p]
          BY <3>4, <5>1, Zenon
        <5>3. log[p] \in {records[i] : i \in 1..Len(records)}
          BY <5>1, <5>2, Zenon
        <5> QED BY <3>2, <5>3, Zenon
      <4> QED BY <4>1, <4>2, Zenon
    <3>7. Vouches(m)'
      BY <3>1, <3>2, <3>5, <3>6, Zenon DEF Vouches
    <3> QED BY <2>1, <3>1, <3>7, OffsetsStay DEF Vouched
  <2>4. CASE Process(m)
    <3>1. offset' = offset /\ olog' = olog /\ log' = log /\ pos' = pos
      BY <2>4, Zenon DEF Process, storeVars, nodeVars
    <3>2. /\ pc[m] = "process" /\ pc'[m] = "commit"
          /\ processed' = processed \cup {batch[m][i] : i \in 1..Len(batch[m])}
      BY <2>4, Zenon DEF Process, TypeOK
    <3>3. Vouches(m)'
      BY <3>1, <3>2, Zenon DEF Vouches, Vouched, Upto
    <3> QED BY <2>1, <3>1, <3>3, OffsetsStay DEF Vouched
  <2>5. CASE CommitRejected(m) \/ CommitError(m) \/ MemberCrash(m)
    <3>1. offset' = offset /\ olog' = olog /\ pos' = pos /\ pc'[m] = "idle"
      BY <2>5, Zenon DEF CommitRejected, CommitError, MemberCrash, storeVars, TypeOK
    <3>2. Vouches(m)'
      BY <3>1, MemberStays, Zenon
    <3> QED BY <2>1, <3>1, <3>2, OffsetsStay, Zenon DEF Vouched
  <2>6. CASE CommitAppend(m)
    <3>1. /\ offset' = offset /\ pos' = pos /\ log' = log /\ processed' = processed
          /\ olog' = Append(olog, pos[m])
          /\ pc[m] = "commit" /\ pc'[m] = "sync"
      BY <2>6, Zenon DEF CommitAppend, nodeVars, TypeOK
    <3>2. Vouches(m)'
      BY <3>1, Zenon DEF Vouches, Vouched, Upto
    <3>3. /\ Len(olog') = Len(olog) + 1 /\ olog'[Len(olog) + 1] = pos[m]
          /\ \A i \in 1..Len(olog) : olog'[i] = olog[i]
      BY <3>1, AppendProperties DEF TypeOK
    <3>4. \A i \in 1..Len(olog') : Upto(olog'[i])
      BY <3>1, <3>3 DEF Vouched, Vouches, TypeOK
    <3>5. \A i \in 1..Len(olog') : Upto(olog[i])'
      BY <3>1, <3>4, Zenon DEF Upto
    <3> QED BY <2>1, <3>1, <3>2, <3>5, OffsetsStay, Zenon DEF Vouched
  <2>7. CASE CommitDone(m)
    <3>1. /\ offset' = pos[m] /\ pos' = pos /\ olog' = olog /\ log' = log
          /\ processed' = processed /\ pc[m] = "sync" /\ pc'[m] = "fetch"
      BY <2>7, Zenon DEF CommitDone, nodeVars, TypeOK
    <3>2. Vouches(m)' /\ Upto(offset)'
      BY <3>1, Zenon DEF Vouches, Vouched, Upto
    <3> QED BY <2>1, <3>1, <3>2, OffsetsStay, Zenon DEF Vouched
  <2> QED BY <1>2, <2>2, <2>3, <2>4, <2>5, <2>6, <2>7, Zenon DEF Member
<1>3. CASE ProcessCrash \/ PowerLoss
  <2>1. ProcessCrash
    BY <1>3, Zenon DEF PowerLoss, Lossless
  <2>2. /\ offset' = 0 /\ olog' = olog /\ pos' = pos /\ batch' = batch
        /\ \A m \in Members : pc'[m] \in {pc[m], "idle"}
    BY <2>1, Zenon DEF ProcessCrash, Stop
  <2> QED BY <2>2, OffsetsStay, MemberStays, Zenon DEF Vouched
<1>4. CASE Restart
  <2>1. /\ olog' = olog /\ pos' = pos /\ batch' = batch /\ pc' = pc
        /\ log' = log /\ processed' = processed
        /\ offset' = IF olog = <<>> THEN 0 ELSE olog[Len(olog)]
    BY <1>4, Zenon DEF Restart, nodeVars, memberVars
  <2>2. Upto(offset)'
    <3>1. CASE olog = <<>>
      BY <2>1, <3>1, OffsetsStay, Zenon
    <3>2. CASE olog # <<>>
      <4>1. Len(olog) \in 1..Len(olog)
        BY <3>2, EmptySeq DEF TypeOK
      <4> QED BY <2>1, <3>2, <4>1, Zenon DEF Vouched, Upto
    <3> QED BY <3>1, <3>2, Zenon
  <2> QED BY <2>1, <2>2, OffsetsStay, MemberStays, Zenon DEF Vouched
<1> QED BY <1>1, <1>2, <1>3, <1>4, Zenon DEF Next

LEMMA DeliveryInit == Init => DeliveryInv
<1> SUFFICES ASSUME Init PROVE Vouched
  BY TypeInit, Zenon DEF DeliveryInv
<1> QED BY DEF Init, Vouched, Vouches, Upto

LEMMA DeliveryStep == DeliveryInv /\ [Next]_vars => DeliveryInv'
  BY TypeStep, VouchedStep, Grows, Zenon DEF DeliveryInv, Lossless

(* At-least-once delivery: while no record is lost, no member of a group, however
   many there are and however they race, crash or commit late, moves the committed
   offset over a record nobody has processed. *)
THEOREM DeliveredAtLeastOnce == Spec => []NothingSkipped
<1>1. DeliveryInv => NothingSkipped
  BY Zenon DEF DeliveryInv, Vouched, Upto, Lossless, NothingSkipped, AtLeastOnce
<1> QED BY <1>1, DeliveryInit, DeliveryStep, PTL DEF Spec
-----------------------------------------------------------------------------
(* Offsets. *)

(* The offset replay finds in the first n records of the offset log, and the least
   n it can be given: a power loss may take what is not fsynced. *)
Found(n) == IF n = 0 THEN 0 ELSE olog[n]
Kept == IF "power" \in faults THEN osynced ELSE Len(olog)

Covered == ~({"process", "power"} \subseteq faults)

(* Whatever replay finds is as high as the offset in memory and as all that was
   shown; the commit under way is the last record; after a power loss everything
   that is left is durable. *)
Monotonic ==
    /\ \A n \in Kept..Len(olog) : Found(n) >= shown /\ Found(n) >= offset
    /\ up => offset >= shown
    /\ \A m \in Members : pc[m] = "sync" => olog # <<>> /\ olog[Len(olog)] = pos[m]
    /\ ~up /\ "power" \in faults => osynced = Len(olog)

OffsetInv == TypeOK /\ (Covered => Monotonic)

LEMMA OffsetInit == Init => OffsetInv
<1> SUFFICES ASSUME Init PROVE Monotonic
  BY TypeInit, Zenon DEF OffsetInv
<1>1. Len(olog) = 0 /\ Kept = 0
  BY Zenon DEF Init, Kept
<1> QED BY <1>1 DEF Init, Monotonic, Found

LEMMA MonotonicStep ==
  ASSUME TypeOK, TypeOK', [Next]_vars, Covered, Monotonic
  PROVE  Monotonic'
<1>0. /\ Kept \in 0..Len(olog) /\ Len(olog) \in Nat
      /\ \A n \in 0..Len(olog) : Found(n) \in Nat
      /\ offset \in Nat /\ shown \in Nat
  <2>1. \A n \in 1..Len(olog) : olog[n] \in Nat
    BY ElementOfSeq, Zenon DEF TypeOK
  <2> QED BY <2>1, SMTT(30) DEF Kept, Found, TypeOK
<1>1. CASE Produce \/ ProduceDone \/ ProduceSyncError \/ DeleteNamespace \/ UNCHANGED vars
  <2>1. UNCHANGED <<olog, osynced, offset, faults, up, shown, pc, pos>>
    BY <1>1, Zenon DEF Produce, ProduceDone, ProduceSyncError, DeleteNamespace, vars, storeVars,
       memberVars
  <2> QED BY <2>1, Zenon DEF Monotonic, Kept, Found
<1>2. ASSUME NEW m \in Members, Member(m) \/ MemberCrash(m)
      PROVE  Monotonic'
  <2>1. CASE FetchOffset(m)
    <3>1. /\ UNCHANGED <<olog, osynced, offset, faults, up>> /\ up
          /\ shown' = Higher(shown, offset)
          /\ \A k \in Members : pc'[k] = "sync" => pc[k] = "sync" /\ pos'[k] = pos[k]
      BY <2>1, Zenon DEF FetchOffset, storeVars, TypeOK
    <3> QED BY <1>0, <3>1 DEF Monotonic, Kept, Found, Higher
  <2>2. CASE Fetch(m) \/ Process(m) \/ CommitRejected(m) \/ CommitError(m) \/ MemberCrash(m)
    <3>1. /\ UNCHANGED <<olog, osynced, offset, faults, up, shown>>
          /\ \A k \in Members : pc'[k] = "sync" => pc[k] = "sync" /\ pos'[k] = pos[k]
      BY <2>2, Zenon DEF Fetch, Process, CommitRejected, CommitError, MemberCrash, storeVars, TypeOK
    <3> QED BY <3>1, Zenon DEF Monotonic, Kept, Found
  <2>3. CASE CommitAppend(m)
    <3>1. /\ UNCHANGED <<osynced, offset, faults, up, shown, pos>> /\ up
          /\ pos[m] \in Nat /\ pos[m] >= offset
          /\ \A k \in Members \ {m} : pc'[k] # "sync"
      BY <2>3 DEF CommitAppend, StoreFree, Regresses, TypeOK
    <3>2. /\ olog' # <<>> /\ Len(olog') = Len(olog) + 1 /\ olog'[Len(olog) + 1] = pos[m]
          /\ \A n \in 1..Len(olog) : olog'[n] = olog[n]
      <4>1. olog \in Seq(Nat) /\ pos[m] \in Nat /\ olog' = Append(olog, pos[m])
        BY <2>3, <3>1, Zenon DEF CommitAppend, TypeOK
      <4> QED BY <4>1, AppendProperties
    <3>3. \A n \in Kept'..Len(olog) : n \in Kept..Len(olog) /\ Found(n)' = Found(n)
      <4>1. ASSUME NEW n \in Kept'..Len(olog)
            PROVE  n \in Kept..Len(olog)
        BY <1>0, <3>1, <3>2, SMTT(30) DEF Kept, TypeOK
      <4>2. ASSUME NEW n \in Kept..Len(olog)
            PROVE  Found(n)' = Found(n)
        BY <1>0, <3>2 DEF Found
      <4> QED BY <4>1, <4>2, Zenon
    <3>4. ASSUME NEW n \in Nat, n = Len(olog) + 1
          PROVE  Found(n)' = pos[m]
      BY <1>0, <3>2, <3>4 DEF Found
    <3>5. \A n \in Kept'..Len(olog') : Found(n)' >= shown' /\ Found(n)' >= offset'
      <4>1. Kept' \in Nat
        BY <1>0, <3>1, <3>2 DEF Kept, TypeOK
      <4>2. ASSUME NEW n \in Kept'..Len(olog')
            PROVE  n \in Kept'..Len(olog) \/ n = Len(olog) + 1
        BY <1>0, <3>2, <4>1, <4>2
      <4>3. ASSUME NEW n \in Kept'..Len(olog')
            PROVE  Found(n)' >= shown /\ Found(n)' >= offset
        <5>1. CASE n \in Kept'..Len(olog)
          BY <3>3, <5>1, Zenon DEF Monotonic
        <5>2. CASE n = Len(olog) + 1
          BY <1>0, <3>1, <3>4, <5>2 DEF Monotonic
        <5> QED BY <4>2, <5>1, <5>2, Zenon
      <4> QED BY <3>1, <4>3, Zenon
    <3> QED BY <3>1, <3>2, <3>5, Zenon DEF Monotonic
  <2>4. CASE CommitDone(m)
    <3>1. /\ UNCHANGED <<olog, faults, up, pos>> /\ osynced' = Len(olog)
          /\ offset' = pos[m] /\ shown' = Higher(shown, pos[m]) /\ pc[m] = "sync"
          /\ \A k \in Members : pc'[k] = "sync" => pc[k] = "sync"
      BY <2>4, Zenon DEF CommitDone, TypeOK
    <3>2. olog # <<>> /\ olog[Len(olog)] = pos[m]
      BY <3>1, Zenon DEF Monotonic
    <3>3. Found(Len(olog)) = pos[m] /\ Found(Len(olog))' = pos[m] /\ Kept' = Len(olog)
      BY <3>1, <3>2, EmptySeq, Zenon DEF Found, Kept, TypeOK
    <3>4. Found(Len(olog)) >= shown
      BY <1>0 DEF Monotonic
    <3>5. offset' = shown' /\ offset' = pos[m] /\ pos[m] \in Nat
      BY <1>0, <3>1, <3>3, <3>4 DEF Higher, TypeOK
    <3>6. \A n \in Kept'..Len(olog') : n = Len(olog)
      BY <1>0, <3>1, <3>3
    <3> QED BY <1>0, <3>1, <3>2, <3>3, <3>5, <3>6 DEF Monotonic
  <2> QED BY <1>2, <2>1, <2>2, <2>3, <2>4, Zenon DEF Member
<1>3. CASE ProcessCrash
  <2>1. /\ UNCHANGED <<olog, osynced, faults, shown, pos>> /\ offset' = 0 /\ ~up'
        /\ \A k \in Members : pc'[k] # "sync"
        /\ "power" \notin faults
    BY <1>3, Zenon DEF ProcessCrash, Stop, Covered
  <2> QED BY <1>0, <2>1 DEF Monotonic, Kept, Found
<1>4. CASE PowerLoss
  <2>1. /\ UNCHANGED <<faults, shown, pos>> /\ offset' = 0 /\ ~up'
        /\ \A k \in Members : pc'[k] # "sync"
        /\ "power" \in faults
    BY <1>4, Zenon DEF PowerLoss, Stop
  <2>2. PICK n \in osynced..Len(olog) : olog' = SubSeq(olog, 1, n) /\ osynced' = n
    BY <1>4, Zenon DEF PowerLoss
  <2>3. n \in 0..Len(olog) /\ n \in Kept..Len(olog)
    BY <2>1, <2>2 DEF Kept, TypeOK
  <2>4. Len(olog') = n /\ \A i \in 1..n : olog'[i] = olog[i]
    BY <2>2, <2>3, Prefix, Zenon DEF TypeOK
  <2>5. Kept' = n /\ Found(n)' = Found(n)
    BY <2>1, <2>2, <2>3, <2>4 DEF Kept, Found
  <2>6. Found(n) >= shown /\ Found(n) \in Nat
    BY <1>0, <2>3, Zenon DEF Monotonic
  <2>7. \A i \in Kept'..Len(olog') : i = n
    BY <2>3, <2>4, <2>5
  <2> QED BY <2>1, <2>2, <2>4, <2>5, <2>6, <2>7 DEF Monotonic
<1>5. CASE Restart
  <2>1. /\ UNCHANGED <<olog, osynced, faults, shown, pos, pc>> /\ up' /\ ~up
        /\ offset' = IF olog = <<>> THEN 0 ELSE olog[Len(olog)]
    BY <1>5, Zenon DEF Restart, nodeVars, memberVars
  <2>2. offset' = Found(Len(olog)) /\ Found(Len(olog))' = Found(Len(olog))
    BY <2>1, EmptySeq, Zenon DEF Found, TypeOK
  <2>3. Kept = Len(olog) /\ Kept' = Len(olog)
    BY <2>1, Zenon DEF Kept, Monotonic
  <2>4. \A n \in Kept'..Len(olog') : n = Len(olog)
    BY <1>0, <2>1, <2>3
  <2>5. Found(Len(olog)) >= shown /\ Found(Len(olog)) \in Nat
    BY <1>0 DEF Monotonic
  <2> QED BY <2>1, <2>2, <2>3, <2>4, <2>5 DEF Monotonic
<1> QED BY <1>1, <1>2, <1>3, <1>4, <1>5, Zenon DEF Next

LEMMA OffsetStep == OffsetInv /\ [Next]_vars => OffsetInv'
<1>1. TypeOK /\ [Next]_vars => faults' = faults
  BY Grows, Zenon
<1> QED BY <1>1, TypeStep, MonotonicStep, Zenon DEF OffsetInv, Covered

(* Committed offsets do not go back, through racing and failing commits and through
   process crashes or power losses; a node that has both can show an offset that it
   replayed and that was never fsynced. *)
THEOREM OffsetsNeverGoBack == Spec => []OffsetsDoNotRollBack
<1>1. OffsetInv => OffsetsDoNotRollBack
  BY Zenon DEF OffsetInv, Monotonic, Covered, OffsetsDoNotRollBack
<1> QED BY <1>1, OffsetInit, OffsetStep, PTL DEF Spec
=============================================================================
