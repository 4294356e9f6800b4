------------------------- MODULE ReplicationProofs -------------------------
(***************************************************************************)
(* Proofs about Replication, for any nodes, keys, clients and settings:    *)
(* types, membership, keyed commands.                                      *)
(***************************************************************************)
EXTENDS Replication, SequenceTheorems, FiniteSetTheorems, TLAPS

(* Only tombstones have no value. *)
Engines == {e \in EngineStates : \A k \in Keys : e.index[k].version > 0 => e.index[k].val \in Values}
Commands == {c \in Command : c.op \in {"put", "cas"} => c.val \in Values}

IsReset(cmd) == cmd.op \in {"wipe", "load"}

(* Commands are what the setting lets clients and operators send. *)
Usual(cmd) == cmd.op \in setting.ops /\ (~IsReset(cmd) => cmd.idem \in setting.idems)

(* What a replay yields is what the engine holds, unless the log is broken or an
   fsync failed. *)
EngineTypes ==
    /\ eng \in [Nodes -> Engines] /\ file \in [Nodes -> Engines] /\ broken \subseteq Nodes
    /\ setting.faults \cap DiskFaults = {} => broken = {}
    /\ "sync" \notin setting.faults => \A n \in Nodes \ broken : file[n] = eng[n]

TypeInv ==
    /\ TypeOK
    /\ clog \in Seq(Commands) /\ \A i \in 1..Len(clog) : Usual(clog[i])
    /\ EngineTypes
    /\ "snapshot" \notin setting.faults => snapshot.index = 0

LEMMA SettingTypes ==
  ASSUME TypeOK
  PROVE  /\ setting.ops \subseteq AllOps /\ setting.vals \subseteq Values
         /\ setting.idems \subseteq IdemKeys \cup {NoIdem}
         /\ setting.ttls \subseteq Nat /\ setting.commands \in Nat
  BY ConstantsAssumption, Zenon DEF TypeOK, IsSetting

LEMMA Empties ==
  /\ EmptyIndex \in [Keys -> Entry] /\ EmptyDedup \in [IdemKeys -> Nat] /\ Absent \in Entry
  /\ Absent.version = 0 /\ NewEngine \in Engines /\ NewEngine.last = 0
  /\ NewEngine.dedup = EmptyDedup /\ NewEngine.index = EmptyIndex
<1>1. /\ EmptyIndex \in [Keys -> Entry] /\ EmptyDedup \in [IdemKeys -> Nat] /\ Absent \in Entry
      /\ Absent.version = 0
  BY Zenon DEF EmptyIndex, EmptyDedup, Absent, Entry
<1>2. /\ NewEngine.last = 0 /\ NewEngine.dedup = EmptyDedup /\ NewEngine.index = EmptyIndex
      /\ NewEngine \in EngineStates
  BY <1>1, Zenon DEF NewEngine, EngineStates
<1>3. \A k \in Keys : EmptyIndex[k].version = 0
  BY <1>1, Zenon DEF EmptyIndex
<1> QED BY <1>1, <1>2, <1>3 DEF Engines

(* One record committed. *)
LEMMA CommitType ==
  ASSUME NEW e \in Engines, NEW r \in LogRecord, r.kind = "put" => r.val \in Values
  PROVE  /\ CommitRecord(e, r) \in Engines
         /\ CommitRecord(e, r).last = e.last + 1 /\ e.last \in Nat
         /\ \A k \in Keys : CommitRecord(e, r).index[k] \in {e.index[k], Absent}
                               \/ CommitRecord(e, r).index[k].version = e.last + 1
         /\ \A i \in IdemKeys : CommitRecord(e, r).dedup[i] =
                                   IF r.idem = i THEN e.last + 1 ELSE e.dedup[i]
<1>0. e.index \in [Keys -> Entry] /\ e.dedup \in [IdemKeys -> Nat] /\ e.last \in Nat
  BY Zenon DEF Engines, EngineStates
<1> DEFINE n == [val |-> r.val, version |-> e.last + 1, exp |-> r.exp]
           i == ReplayIndex(e.index, e.last + 1, r)
           d == ReplayDedup(e.dedup, e.last + 1, r)
<1>1. n \in Entry /\ n.version = e.last + 1 /\ n.val = r.val
  BY <1>0 DEF Entry, LogRecord
<1>2. i = [e.index EXCEPT ![r.key] = IF r.kind = "put" THEN n ELSE Absent]
  BY Zenon DEF ReplayIndex
<1>3. r.key \in Keys /\ r.kind \in {"put", "delete"} /\ r.idem \in IdemKeys \cup {NoIdem}
  BY Zenon DEF LogRecord
<1> HIDE DEF n
<1>4. i \in [Keys -> Entry] /\ \A k \in Keys : i[k] \in {e.index[k], Absent} \/ i[k] = n
  BY <1>0, <1>1, <1>2, <1>3, Empties, Zenon
<1>5. \A k \in Keys : i[k].version > 0 => i[k].val \in Values
  <2>1. \A k \in Keys : e.index[k].version > 0 => e.index[k].val \in Values
    BY Zenon DEF Engines
  <2>2. \A k \in Keys : i[k] = IF k = r.key THEN (IF r.kind = "put" THEN n ELSE Absent) ELSE e.index[k]
    BY <1>0, <1>2, <1>3, Zenon
  <2>3. ~(Absent.version > 0)
    BY Empties
  <2> HIDE DEF i
  <2> QED BY <1>1, <2>1, <2>2, <2>3, Zenon
<1>6. d \in [IdemKeys -> Nat] /\ \A x \in IdemKeys : d[x] = IF r.idem = x THEN e.last + 1 ELSE e.dedup[x]
  BY <1>0, <1>3, NoIdemAssumption DEF ReplayDedup
<1>7. CommitRecord(e, r) = [index |-> i, dedup |-> d, last |-> e.last + 1]
  BY Zenon DEF CommitRecord
<1> HIDE DEF i, d
<1>8. [index |-> i, dedup |-> d, last |-> e.last + 1] \in EngineStates
  BY <1>0, <1>4, <1>6 DEF EngineStates
<1> QED BY <1>0, <1>1, <1>4, <1>5, <1>6, <1>7, <1>8 DEF Engines

LEMMA LoadedType ==
  ASSUME NEW s \in Seq(SnapshotEntry)
  PROVE  Loaded(s) \in Engines
<1>0. Len(s) \in Nat /\ \A i \in 1..Len(s) : s[i] \in SnapshotEntry
  BY LenProperties, ElementOfSeq, Zenon
<1> DEFINE first(k) == CHOOSE j \in 1..Len(s) : s[j].key = k
           new == [k \in Keys |-> IF \E i \in 1..Len(s) : s[i].key = k
                     THEN [val |-> s[first(k)].val, version |-> first(k), exp |-> s[first(k)].exp]
                     ELSE Absent]
<1>1. ASSUME NEW k \in Keys
      PROVE  new[k] \in Entry /\ (new[k].version > 0 => new[k].val \in Values)
  <2>1. CASE \E i \in 1..Len(s) : s[i].key = k
    <3>1. first(k) \in 1..Len(s)
      BY <2>1, Zenon
    <3>2. s[first(k)].val \in Values /\ s[first(k)].exp \in Nat
      BY <1>0, <3>1, Zenon DEF SnapshotEntry
    <3>3. new[k] = [val |-> s[first(k)].val, version |-> first(k), exp |-> s[first(k)].exp]
      BY <2>1, Zenon
    <3> HIDE DEF first, new
    <3> QED BY <1>0, <3>1, <3>2, <3>3 DEF Entry
  <2>2. CASE ~\E i \in 1..Len(s) : s[i].key = k
    <3>1. new[k] = Absent
      BY <2>2, Zenon
    <3> HIDE DEF new
    <3> QED BY <3>1, Empties
  <2> QED BY <2>1, <2>2, Zenon
<1>2. new \in [Keys -> Entry]
  BY <1>1, Zenon
<1>3. Loaded(s) = [NewEngine EXCEPT !.last = Len(s), !.index = new]
  BY Zenon DEF Loaded
<1> HIDE DEF new
<1> DEFINE f == [NewEngine EXCEPT !.last = Len(s), !.index = new]
<1>4. f \in EngineStates /\ f.index = new
  BY <1>0, <1>2, Empties, Zenon DEF EngineStates, NewEngine
<1> QED BY <1>1, <1>3, <1>4, Zenon DEF Engines

(* FSM.Apply at time t. *)
Step(t, e, cmd) ==
    CASE cmd.op = "wipe" -> NewEngine
      [] cmd.op = "load" -> Loaded(cmd.entries)
      [] OTHER -> IF /\ ~Deduplicated(e.dedup, cmd.idem)
                     /\ cmd.op = "cas" => LiveVersion(e.index, cmd.key, t) = cmd.expected
                  THEN CommitRecord(e, RecordOf(cmd)) ELSE e

LEMMA ApplyIsStep ==
  ASSUME NEW e, NEW cmd
  PROVE  ApplyCommand(e, cmd) = Step(now, e, cmd)
  BY Zenon DEF ApplyCommand, Step, Mutates

LEMMA RecordType ==
  ASSUME NEW cmd \in Commands, ~IsReset(cmd)
  PROVE  /\ RecordOf(cmd) \in LogRecord /\ RecordOf(cmd).idem = cmd.idem
         /\ RecordOf(cmd).kind = "put" => RecordOf(cmd).val \in Values
<1>1. cmd.op \in {"put", "delete", "cas"}
  BY Zenon DEF IsReset, Commands, Command, AllOps
<1> QED BY <1>1, Zenon DEF RecordOf, LogRecord, Commands, Command

(* What a step keeps and what it does to what is remembered. *)
LEMMA StepEffect ==
  ASSUME NEW t \in Nat, NEW e \in Engines, NEW cmd \in Commands
  PROVE  /\ Step(t, e, cmd) \in Engines
         /\ IsReset(cmd) => \A x : Step(t, x, cmd) = Step(t, e, cmd)
         /\ ~IsReset(cmd) =>
              /\ \/ Step(t, e, cmd) = e
                 \/ ~Deduplicated(e.dedup, cmd.idem) /\ Step(t, e, cmd) = CommitRecord(e, RecordOf(cmd))
              /\ Deduplicated(e.dedup, cmd.idem) => Step(t, e, cmd) = e
              /\ ~Deduplicated(e.dedup, cmd.idem) /\ cmd.op # "cas"
                    => Step(t, e, cmd) = CommitRecord(e, RecordOf(cmd))
         /\ cmd.op # "cas" => \A u : Step(u, e, cmd) = Step(t, e, cmd)
<1>0. cmd.op \in AllOps /\ cmd.entries \in Seq(SnapshotEntry)
  BY Zenon DEF Commands, Command
<1>1. CASE cmd.op = "wipe"
  <2>1. \A u, x : Step(u, x, cmd) = NewEngine
    BY <1>1, Zenon DEF Step
  <2> QED BY <1>1, <2>1, Empties, Zenon DEF IsReset
<1>2. CASE cmd.op = "load"
  <2>1. \A u, x : Step(u, x, cmd) = Loaded(cmd.entries)
    BY <1>2, Zenon DEF Step
  <2>2. Loaded(cmd.entries) \in Engines
    BY <1>0, LoadedType, Zenon
  <2> QED BY <1>2, <2>1, <2>2, Zenon DEF IsReset
<1>3. CASE cmd.op \in {"put", "delete", "cas"}
  <2>0. ~IsReset(cmd)
    BY <1>3, Zenon DEF IsReset
  <2>1. \A u : Step(u, e, cmd) = IF /\ ~Deduplicated(e.dedup, cmd.idem)
                                    /\ cmd.op = "cas" => LiveVersion(e.index, cmd.key, u) = cmd.expected
                                 THEN CommitRecord(e, RecordOf(cmd)) ELSE e
    BY <1>3, Zenon DEF Step
  <2>2. CommitRecord(e, RecordOf(cmd)) \in Engines
    BY <2>0, RecordType, CommitType, Zenon
  <2> HIDE DEF Deduplicated
  <2> QED BY <2>0, <2>1, <2>2, Zenon
<1> QED BY <1>0, <1>1, <1>2, <1>3, Zenon DEF AllOps

-----------------------------------------------------------------------------
(* Type correctness. *)

LogTypes ==
    /\ setting \in Settings /\ now \in Nat /\ leader \in Nodes \cup {NoNode}
    /\ clog \in Seq(Commands) /\ \A i \in 1..Len(clog) : Usual(clog[i])
NodeTypes ==
    /\ applied \in [Nodes -> 0..Len(clog)] /\ pending \in [Nodes -> 0..Len(clog)]
    /\ \A n \in Nodes : pending[n] # 0 => pending[n] > applied[n]
FileTypes ==
    /\ backup \in Seq(SnapshotEntry)
    /\ snapshot \in [index : 0..Len(clog), entries : Seq(SnapshotEntry)]
    /\ "snapshot" \notin setting.faults => snapshot.index = 0
MemberTypes ==
    /\ voters \in (SUBSET Nodes) \ {{}} /\ halted \subseteq Nodes
    /\ known \in [Nodes -> SUBSET Nodes]
    /\ admin \in [Nodes -> [step : {"idle", "config", "leader"},
                            added : SUBSET Nodes, members : SUBSET Nodes]]
HistoryTypes == direct \in Nat /\ answers \subseteq [idem : IdemKeys, pos : Nat]

LEMMA TypeParts ==
  ASSUME TypeInv
  PROVE  /\ LogTypes /\ NodeTypes /\ EngineTypes /\ FileTypes /\ MemberTypes
         /\ HistoryTypes /\ Len(clog) \in Nat
         /\ eng \in [Nodes -> Engines]
         /\ setting.ops \subseteq AllOps /\ setting.vals \subseteq Values
         /\ setting.idems \subseteq IdemKeys \cup {NoIdem}
         /\ setting.ttls \subseteq Nat /\ setting.commands \in Nat
<1>1. Len(clog) \in Nat
  BY LenProperties, Zenon DEF TypeInv
<1>2. /\ LogTypes /\ NodeTypes /\ EngineTypes /\ FileTypes /\ MemberTypes
      /\ HistoryTypes
  BY Zenon DEF TypeInv, TypeOK, LogTypes, NodeTypes, FileTypes, MemberTypes, HistoryTypes
<1> QED BY <1>1, <1>2, SettingTypes, Zenon DEF TypeInv, EngineTypes

LEMMA TypeWhole ==
  ASSUME LogTypes', NodeTypes', EngineTypes', FileTypes', MemberTypes', HistoryTypes'
  PROVE  TypeInv'
<1>1. clog' \in Seq(Command)
  BY SeqMonotonic, Zenon DEF LogTypes, Commands
<1>2. eng' \in [Nodes -> EngineStates] /\ file' \in [Nodes -> EngineStates] /\ broken' \subseteq Nodes
  BY Zenon DEF Engines, EngineTypes
<1> QED BY <1>1, <1>2, Zenon DEF TypeInv, TypeOK, LogTypes, NodeTypes, FileTypes, MemberTypes,
   HistoryTypes

LEMMA TypeInit == Init => TypeInv
<1> SUFFICES ASSUME Init PROVE TypeInv
  BY Zenon
<1>1. clog \in Seq(Commands) /\ clog \in Seq(Command) /\ Len(clog) = 0 /\ backup \in Seq(SnapshotEntry)
  BY EmptySeq, Zenon DEF Init
<1>2. <<>> \in Seq(SnapshotEntry)
  BY EmptySeq, Zenon
<1>3. /\ applied \in [Nodes -> 0..Len(clog)] /\ pending \in [Nodes -> 0..Len(clog)]
      /\ \A n \in Nodes : pending[n] = 0
  BY <1>1 DEF Init
<1>4. snapshot \in [index : 0..Len(clog), entries : Seq(SnapshotEntry)] /\ snapshot.index = 0
  BY <1>1, <1>2 DEF Init
<1>5. eng \in [Nodes -> Engines] /\ eng \in [Nodes -> EngineStates]
  <2>1. NewEngine \in Engines /\ NewEngine \in EngineStates
    BY Empties, Zenon DEF Engines
  <2> QED BY <2>1, Zenon DEF Init
<1>9. EngineTypes /\ file \in [Nodes -> EngineStates] /\ broken = {}
  BY <1>5, Zenon DEF Init, EngineTypes
<1>6. voters \in (SUBSET Nodes) \ {{}} /\ known \in [Nodes -> SUBSET Nodes]
  <2>1. voters \in (SUBSET Nodes) \ {{}}
    <3>1. CASE "member" \in setting.faults
      BY <3>1, Zenon DEF Init
    <3>2. CASE "member" \notin setting.faults
      <4>1. voters = Nodes
        BY <3>2, Zenon DEF Init
      <4>2. Nodes # {}
        BY ConstantsAssumption, Zenon
      <4> QED BY <4>1, <4>2, Zenon
    <3> QED BY <3>1, <3>2, Zenon
  <2> QED BY <2>1, Zenon DEF Init
<1>7. admin \in [Nodes -> [step : {"idle", "config", "leader"},
                           added : SUBSET Nodes, members : SUBSET Nodes]]
  BY Zenon DEF Init, NoCall
<1>8. /\ setting \in Settings /\ now = 0 /\ leader = NoNode /\ halted = {} /\ direct = 0 /\ answers = {}
  BY Zenon DEF Init
<1> QED BY <1>1, <1>3, <1>4, <1>5, <1>6, <1>7, <1>8, <1>9 DEF TypeInv, TypeOK

Proposes(n) ==
    Put(n) \/ Delete(n) \/ CompareAndSet(n) \/ DeleteNamespace(n) \/ RestoreBackup(n)

LEMMA ProposedCommand ==
  ASSUME TypeInv, NEW n \in Nodes, Proposes(n)
  PROVE  \E cmd \in Commands : Usual(cmd) /\ Propose(n, cmd)
<1>0. /\ backup \in Seq(SnapshotEntry) /\ <<>> \in Seq(SnapshotEntry) /\ now \in Nat
      /\ setting.vals \subseteq Values /\ setting.idems \subseteq IdemKeys \cup {NoIdem}
      /\ setting.ttls \subseteq Nat /\ setting.commands \in Nat
  BY TypeParts, EmptySeq, Zenon DEF FileTypes, LogTypes
<1>1. \A t \in setting.ttls : resolveExpiry(t) \in Nat
  BY <1>0 DEF resolveExpiry
<1>2. CASE Put(n)
  <2>1. PICK k \in Keys, v \in setting.vals, t \in setting.ttls, i \in setting.idems :
          /\ "put" \in setting.ops
          /\ Propose(n, [op |-> "put", key |-> k, val |-> v, exp |-> resolveExpiry(t),
                         expected |-> 0, idem |-> i, entries |-> <<>>])
    BY <1>2, Zenon DEF Put
  <2>2. [op |-> "put", key |-> k, val |-> v, exp |-> resolveExpiry(t),
         expected |-> 0, idem |-> i, entries |-> <<>>] \in Commands
    BY <1>0, <1>1, Zenon DEF Commands, Command, AllOps
  <2> QED BY <2>1, <2>2, Zenon DEF Usual
<1>3. CASE Delete(n)
  <2>1. PICK k \in Keys, i \in setting.idems :
          /\ "delete" \in setting.ops
          /\ Propose(n, [op |-> "delete", key |-> k, val |-> NoValue, exp |-> 0,
                         expected |-> 0, idem |-> i, entries |-> <<>>])
    BY <1>3, Zenon DEF Delete
  <2>2. [op |-> "delete", key |-> k, val |-> NoValue, exp |-> 0,
         expected |-> 0, idem |-> i, entries |-> <<>>] \in Commands
    BY <1>0, Zenon DEF Commands, Command, AllOps
  <2> QED BY <2>1, <2>2, Zenon DEF Usual
<1>4. CASE CompareAndSet(n)
  <2>1. PICK k \in Keys, v \in setting.vals, t \in setting.ttls, i \in setting.idems,
             x \in 0..setting.commands :
          /\ "cas" \in setting.ops
          /\ Propose(n, [op |-> "cas", key |-> k, val |-> v, exp |-> resolveExpiry(t),
                         expected |-> x, idem |-> i, entries |-> <<>>])
    BY <1>4, Zenon DEF CompareAndSet
  <2>2. [op |-> "cas", key |-> k, val |-> v, exp |-> resolveExpiry(t),
         expected |-> x, idem |-> i, entries |-> <<>>] \in Commands
    BY <1>0, <1>1 DEF Commands, Command, AllOps
  <2> QED BY <2>1, <2>2, Zenon DEF Usual
<1>5. ASSUME NEW op \in {"wipe", "load"}, NEW s \in Seq(SnapshotEntry), op \in setting.ops
      PROVE  AdminCommand(op, s) \in Commands /\ Usual(AdminCommand(op, s))
  <2>1. (CHOOSE k \in Keys : TRUE) \in Keys
    BY ConstantsAssumption, Zenon
  <2> DEFINE k0 == CHOOSE k \in Keys : TRUE
  <2>2. AdminCommand(op, s) = [op |-> op, key |-> k0, val |-> NoValue, exp |-> 0,
                               expected |-> 0, idem |-> NoIdem, entries |-> s]
    BY Zenon DEF AdminCommand
  <2>3. k0 \in Keys
    BY <2>1, Zenon
  <2> HIDE DEF k0
  <2> QED BY <1>5, <2>2, <2>3 DEF Commands, Command, AllOps, Usual, IsReset
<1>6. CASE DeleteNamespace(n)
  BY <1>0, <1>5, <1>6, Zenon DEF DeleteNamespace
<1>7. CASE RestoreBackup(n)
  BY <1>0, <1>5, <1>7, Zenon DEF RestoreBackup
<1> QED BY <1>2, <1>3, <1>4, <1>6, <1>7, Zenon DEF Proposes

(* The log with one command more. *)
LEMMA LongerLog ==
  ASSUME TypeInv, NEW cmd \in Commands, clog' = Append(clog, cmd)
  PROVE  /\ clog' \in Seq(Commands) /\ Len(clog') = Len(clog) + 1
         /\ \A i \in 1..Len(clog) : clog'[i] = clog[i]
         /\ clog'[Len(clog) + 1] = cmd
  BY AppendProperties, TypeParts DEF LogTypes

LEMMA ProposeType ==
  ASSUME TypeInv, NEW n \in Nodes, NEW cmd \in Commands, Usual(cmd), Propose(n, cmd)
  PROVE  TypeInv'
<1>0. /\ LogTypes /\ NodeTypes /\ EngineTypes /\ FileTypes /\ MemberTypes
      /\ HistoryTypes /\ Len(clog) \in Nat
  BY TypeParts, Zenon
<1>1. /\ UNCHANGED <<setting, now, leader, applied, eng, backup, snapshot, file, broken>>
      /\ UNCHANGED <<voters, halted, known, admin, direct, answers>>
      /\ clog' = Append(clog, cmd) /\ pending' = [pending EXCEPT ![n] = Len(clog')]
  BY Zenon DEF Propose, fileVars, memberVars
<1>2. /\ clog' \in Seq(Commands) /\ Len(clog') = Len(clog) + 1
      /\ \A i \in 1..Len(clog) : clog'[i] = clog[i]
      /\ clog'[Len(clog) + 1] = cmd
  BY <1>1, LongerLog, Zenon
<1>3. \A i \in 1..Len(clog') : Usual(clog'[i])
  BY <1>0, <1>2 DEF LogTypes
<1>4. LogTypes'
  BY <1>0, <1>1, <1>2, <1>3, Zenon DEF LogTypes, Usual
<1>5. NodeTypes'
  BY <1>0, <1>1, <1>2 DEF NodeTypes
<1>6. FileTypes'
  BY <1>0, <1>1, <1>2 DEF FileTypes
<1>7. MemberTypes' /\ HistoryTypes' /\ EngineTypes'
  BY <1>0, <1>1, Zenon DEF MemberTypes, HistoryTypes, EngineTypes
<1> QED BY <1>0, <1>1, <1>4, <1>5, <1>6, <1>7, TypeWhole, Zenon

(* A step that leaves all engines and files but those of n. *)
LEMMA EngineTypesAt ==
  ASSUME EngineTypes, setting' = setting, NEW n \in Nodes,
         eng' \in [Nodes -> Engines], file' \in [Nodes -> Engines],
         \A m \in Nodes \ {n} : eng'[m] = eng[m] /\ file'[m] = file[m],
         \/ broken' = broken \/ broken' = broken \ {n}
         \/ (broken' = broken \cup {n} /\ (n \in broken \/ setting.faults \cap DiskFaults # {})),
         n \in broken' \/ eng'[n] = file'[n] \/ "sync" \in setting.faults
  PROVE  EngineTypes'
<1>1. broken' \subseteq Nodes /\ \A m \in Nodes \ {n} : m \in broken' <=> m \in broken
  BY Zenon DEF EngineTypes
<1>2. setting'.faults \cap DiskFaults = {} => broken' = {}
  BY DEF EngineTypes
<1>3. "sync" \notin setting'.faults => \A m \in Nodes \ broken' : file'[m] = eng'[m]
  BY <1>1, Zenon DEF EngineTypes
<1> QED BY <1>1, <1>2, <1>3, Zenon DEF EngineTypes

LEMMA LaterType ==
  ASSUME NEW e \in Engines, NEW p \in Nat
  PROVE  [e EXCEPT !.last = p] \in Engines
  BY Zenon DEF Engines, EngineStates

LEMMA AppendFailsType ==
  ASSUME TypeInv, setting' = setting, NEW n \in Nodes, NEW r \in LogRecord,
         r.kind = "put" => r.val \in Values, AppendFails(n, r)
  PROVE  EngineTypes'
<1>0. EngineTypes /\ eng \in [Nodes -> Engines] /\ file \in [Nodes -> Engines]
  BY TypeParts, Zenon DEF EngineTypes
<1>1. CASE /\ n \in broken \/ "write" \in setting.faults
           /\ broken' = broken \cup {n} /\ UNCHANGED <<eng, file>>
  BY <1>0, <1>1, EngineTypesAt, Zenon DEF DiskFaults
<1>2. CASE /\ n \notin broken /\ "sync" \in setting.faults /\ broken' = broken
           /\ eng' = [eng EXCEPT ![n].last = @ + 1]
           /\ file' = [file EXCEPT ![n] = CommitRecord(@, r)]
  <2>1. eng[n].last + 1 \in Nat
    BY <1>0 DEF Engines, EngineStates
  <2>2. [eng[n] EXCEPT !.last = eng[n].last + 1] \in Engines /\ CommitRecord(file[n], r) \in Engines
    BY <1>0, <2>1, LaterType, CommitType, Zenon
  <2>3. eng' = [eng EXCEPT ![n] = [eng[n] EXCEPT !.last = eng[n].last + 1]]
    BY <1>2, Zenon
  <2>4. /\ eng' \in [Nodes -> Engines] /\ file' \in [Nodes -> Engines]
        /\ \A m \in Nodes \ {n} : eng'[m] = eng[m] /\ file'[m] = file[m]
    BY <1>0, <1>2, <2>2, <2>3, Zenon
  <2> QED BY <1>0, <1>2, <2>4, EngineTypesAt, Zenon
<1> QED BY <1>1, <1>2, Zenon DEF AppendFails

LEMMA ResetFailsType ==
  ASSUME TypeInv, setting' = setting, NEW n \in Nodes, ResetFails(n)
  PROVE  EngineTypes'
<1>0. EngineTypes /\ eng \in [Nodes -> Engines] /\ file \in [Nodes -> Engines]
  BY TypeParts, Zenon DEF EngineTypes
<1>1. /\ eng' = eng /\ broken' = broken \cup {n} /\ (n \in broken \/ "reset" \in setting.faults)
      /\ file' = file \/ file' = [file EXCEPT ![n] = NewEngine]
  BY Zenon DEF ResetFails
<1>2. file' \in [Nodes -> Engines] /\ \A m \in Nodes \ {n} : file'[m] = file[m]
  BY <1>0, <1>1, Empties, Zenon
<1> QED BY <1>0, <1>1, <1>2, EngineTypesAt, Zenon DEF DiskFaults

LEMMA LoadFailsType ==
  ASSUME TypeInv, setting' = setting, NEW n \in Nodes, NEW s \in Seq(SnapshotEntry), LoadFails(n, s)
  PROVE  EngineTypes'
<1>0. EngineTypes /\ eng \in [Nodes -> Engines] /\ file \in [Nodes -> Engines]
  BY TypeParts, Zenon DEF EngineTypes
<1>1. CASE ResetFails(n)
  BY <1>1, ResetFailsType, Zenon
<1>2. CASE ~ResetFails(n)
  <2>1. PICK i \in 1..Len(s) :
           LET put == Loaded(SubSeq(s, 1, i - 1))
           IN \/ /\ "write" \in setting.faults /\ broken' = broken \cup {n}
                 /\ eng' = [eng EXCEPT ![n] = put] /\ file' = [file EXCEPT ![n] = put]
              \/ /\ "sync" \in setting.faults /\ broken' = broken
                 /\ eng' = [eng EXCEPT ![n] = [put EXCEPT !.last = i]]
                 /\ file' = [file EXCEPT ![n] = Loaded(SubSeq(s, 1, i))]
    BY <1>2, Zenon DEF LoadFails
  <2>2. SubSeq(s, 1, i - 1) \in Seq(SnapshotEntry) /\ SubSeq(s, 1, i) \in Seq(SnapshotEntry) /\ i \in Nat
    BY LenProperties, SubSeqProperties
  <2> DEFINE put == Loaded(SubSeq(s, 1, i - 1))
             synced == Loaded(SubSeq(s, 1, i))
  <2>3. put \in Engines /\ synced \in Engines /\ [put EXCEPT !.last = i] \in Engines
    BY <2>2, LoadedType, LaterType, Zenon
  <2>4. \/ /\ "write" \in setting.faults /\ broken' = broken \cup {n}
           /\ eng' = [eng EXCEPT ![n] = put] /\ file' = [file EXCEPT ![n] = put]
        \/ /\ "sync" \in setting.faults /\ broken' = broken
           /\ eng' = [eng EXCEPT ![n] = [put EXCEPT !.last = i]]
           /\ file' = [file EXCEPT ![n] = synced]
    BY <2>1, Zenon
  <2> HIDE DEF put, synced
  <2>5. /\ eng' \in [Nodes -> Engines] /\ file' \in [Nodes -> Engines]
        /\ \A m \in Nodes \ {n} : eng'[m] = eng[m] /\ file'[m] = file[m]
    BY <1>0, <2>3, <2>4, Zenon
  <2> QED BY <1>0, <2>4, <2>5, EngineTypesAt, Zenon DEF DiskFaults
<1> QED BY <1>1, <1>2, Zenon

(* FSM.Apply on the engine and on the file of its log. *)
LEMMA AppliedToFile ==
  ASSUME NEW e \in Engines, NEW f \in Engines, NEW cmd \in Commands
  PROVE  /\ ApplyToFile(f, e, cmd) \in Engines
         /\ f = e => ApplyToFile(f, e, cmd) = ApplyCommand(e, cmd)
         /\ ~NeedsLog(e, cmd) => ApplyToFile(f, e, cmd) = f /\ ApplyCommand(e, cmd) = e
         /\ ~IsReset(cmd) /\ NeedsLog(e, cmd) =>
               /\ ~Deduplicated(e.dedup, cmd.idem)
               /\ ApplyCommand(e, cmd) = CommitRecord(e, RecordOf(cmd))
         /\ cmd.op = "wipe" => ApplyCommand(e, cmd) = NewEngine /\ ApplyToFile(f, e, cmd) = NewEngine
<1>0. cmd.op \in AllOps /\ cmd.entries \in Seq(SnapshotEntry)
  BY Zenon DEF Commands, Command
<1>1. CASE cmd.op = "wipe"
  BY <1>1, Empties, Zenon DEF ApplyToFile, ApplyCommand, NeedsLog, IsReset
<1>2. CASE cmd.op = "load"
  BY <1>0, <1>2, LoadedType, Zenon DEF ApplyToFile, ApplyCommand, NeedsLog, IsReset
<1>3. CASE cmd.op \in {"put", "delete", "cas"}
  <2>1. ~IsReset(cmd) /\ CommitRecord(f, RecordOf(cmd)) \in Engines
    BY <1>3, RecordType, CommitType, Zenon DEF IsReset
  <2>2. /\ ApplyToFile(f, e, cmd) = IF Mutates(e, cmd) THEN CommitRecord(f, RecordOf(cmd)) ELSE f
        /\ ApplyCommand(e, cmd) = IF Mutates(e, cmd) THEN CommitRecord(e, RecordOf(cmd)) ELSE e
        /\ NeedsLog(e, cmd) <=> Mutates(e, cmd)
    BY <1>3, Zenon DEF ApplyToFile, ApplyCommand, NeedsLog
  <2>3. Mutates(e, cmd) => ~Deduplicated(e.dedup, cmd.idem)
    BY Zenon DEF Mutates
  <2> QED BY <1>3, <2>1, <2>2, <2>3, Zenon
<1> QED BY <1>0, <1>1, <1>2, <1>3, Zenon DEF AllOps

(* The command a node is given. *)
LEMMA GivenCommand ==
  ASSUME TypeInv, NEW n \in Nodes, Given(n)
  PROVE  /\ applied[n] + 1 \in 1..Len(clog) /\ clog[applied[n] + 1] \in Commands
         /\ Usual(clog[applied[n] + 1])
<1>1. applied[n] + 1 \in 1..Len(clog)
  BY TypeParts DEF Given, NodeTypes
<1> QED BY <1>1, TypeParts, ElementOfSeq, Zenon DEF LogTypes

LEMMA ApplyType ==
  ASSUME TypeInv, NEW n \in Nodes, Apply(n) \/ ApplyError(n)
  PROVE  TypeInv'
<1>0. /\ LogTypes /\ NodeTypes /\ EngineTypes /\ FileTypes /\ MemberTypes
      /\ HistoryTypes /\ Len(clog) \in Nat
      /\ eng \in [Nodes -> Engines] /\ file \in [Nodes -> Engines]
  BY TypeParts, Zenon DEF EngineTypes
<1>1. /\ UNCHANGED <<setting, now, leader, clog, backup, snapshot>>
      /\ UNCHANGED <<voters, halted, known, admin, direct>>
      /\ Given(n)
  BY Zenon DEF Apply, ApplyError, memberVars
<1>2. LogTypes' /\ FileTypes' /\ MemberTypes'
  BY <1>0, <1>1, Zenon DEF LogTypes, Usual, FileTypes, MemberTypes
<1>3. NodeTypes'
  <2>1. /\ applied[n] < Len(clog) /\ applied' = [applied EXCEPT ![n] = @ + 1]
        /\ pending' = [pending EXCEPT ![n] = IF @ = applied[n] + 1 THEN 0 ELSE @]
    BY <1>1, Zenon DEF Given
  <2>2. applied' \in [Nodes -> 0..Len(clog)] /\ pending' \in [Nodes -> 0..Len(clog)]
    BY <1>0, <2>1 DEF NodeTypes
  <2>3. ASSUME NEW m \in Nodes, pending'[m] # 0 PROVE pending'[m] > applied'[m]
    BY <1>0, <2>1, <2>3 DEF NodeTypes
  <2> QED BY <1>1, <2>2, <2>3, Zenon DEF NodeTypes
<1> DEFINE cmd == clog[applied[n] + 1]
<1>4. cmd \in Commands /\ ApplyCommand(eng[n], cmd) \in Engines
  <2>1. cmd \in Commands
    BY <1>1, GivenCommand, Zenon
  <2> HIDE DEF cmd
  <2> QED BY <1>0, <2>1, StepEffect, ApplyIsStep, Zenon DEF LogTypes
<1>5. CASE Apply(n)
  <2>1. /\ eng' = [eng EXCEPT ![n] = ApplyCommand(eng[n], cmd)]
        /\ file' = [file EXCEPT ![n] = ApplyToFile(file[n], eng[n], cmd)]
        /\ NeedsLog(eng[n], cmd) => n \notin broken
        /\ broken' = broken /\ answers' = answers \cup Answer(n, cmd)
    BY <1>5, Zenon DEF Apply
  <2>2. Answer(n, cmd) \subseteq [idem : IdemKeys, pos : Nat]
    <3>1. cmd.idem \in IdemKeys \cup {NoIdem}
      BY <1>4, Zenon DEF Commands, Command
    <3>2. ApplyCommand(eng[n], cmd).dedup \in [IdemKeys -> Nat]
      BY <1>4, Zenon DEF Engines, EngineStates
    <3> HIDE DEF cmd
    <3> QED BY <3>1, <3>2 DEF Answer
  <2> HIDE DEF cmd
  <2>3. HistoryTypes'
    BY <1>0, <1>1, <2>1, <2>2, Zenon DEF HistoryTypes
  <2>4. /\ ApplyToFile(file[n], eng[n], cmd) \in Engines
        /\ file[n] = eng[n] => ApplyToFile(file[n], eng[n], cmd) = ApplyCommand(eng[n], cmd)
        /\ n \in broken \/ file[n] = eng[n] \/ "sync" \in setting.faults
    BY <1>0, <1>4, AppliedToFile, Zenon DEF EngineTypes
  <2>5. /\ eng' \in [Nodes -> Engines] /\ file' \in [Nodes -> Engines]
        /\ \A m \in Nodes \ {n} : eng'[m] = eng[m] /\ file'[m] = file[m]
        /\ n \in broken' \/ eng'[n] = file'[n] \/ "sync" \in setting.faults
    BY <1>0, <1>4, <2>1, <2>4, Zenon
  <2>6. EngineTypes'
    BY <1>0, <1>1, <2>1, <2>5, EngineTypesAt, Zenon
  <2> QED BY <1>2, <1>3, <2>3, <2>6, TypeWhole, Zenon
<1>6. CASE ApplyError(n)
  <2>1. answers' = answers
    BY <1>6, Zenon DEF ApplyError
  <2>2. \/ ResetFails(n) \/ LoadFails(n, cmd.entries)
        \/ cmd.op \notin {"wipe", "load"} /\ AppendFails(n, RecordOf(cmd))
    BY <1>6, Zenon DEF ApplyError
  <2> HIDE DEF cmd
  <2>3. cmd.entries \in Seq(SnapshotEntry)
    BY <1>4, Zenon DEF Commands, Command
  <2>4. EngineTypes'
    BY <1>1, <1>4, <2>2, <2>3, ResetFailsType, LoadFailsType, AppendFailsType, RecordType, Zenon
       DEF IsReset
  <2> QED BY <1>0, <1>1, <1>2, <1>3, <2>1, <2>4, TypeWhole, Zenon DEF HistoryTypes
<1> QED BY <1>5, <1>6, Zenon

LEMMA RestartType ==
  ASSUME TypeInv, NEW n \in Nodes, Restart(n)
  PROVE  TypeInv'
<1>0. /\ LogTypes /\ NodeTypes /\ EngineTypes /\ FileTypes /\ MemberTypes
      /\ HistoryTypes /\ Len(clog) \in Nat
      /\ eng \in [Nodes -> Engines] /\ file \in [Nodes -> Engines]
  BY TypeParts, Zenon DEF EngineTypes
<1>1. /\ UNCHANGED <<setting, now, clog, backup, snapshot, file, voters, known, direct, answers>>
      /\ applied' = [applied EXCEPT ![n] = 0] /\ pending' = [pending EXCEPT ![n] = 0]
      /\ leader' = (IF leader = n THEN NoNode ELSE leader) /\ halted' = halted \ {n}
      /\ admin' = [admin EXCEPT ![n] = NoCall]
      /\ eng' = [eng EXCEPT ![n] = file[n]] /\ broken' = broken \ {n}
  BY Zenon DEF Restart
<1>2. LogTypes' /\ FileTypes' /\ HistoryTypes'
  BY <1>0, <1>1, Zenon DEF LogTypes, Usual, FileTypes, HistoryTypes
<1>3. NodeTypes'
  BY <1>0, <1>1 DEF NodeTypes
<1>4. MemberTypes'
  BY <1>0, <1>1, Zenon DEF MemberTypes, NoCall
<1>5. /\ eng' \in [Nodes -> Engines] /\ file' \in [Nodes -> Engines] /\ eng'[n] = file'[n]
      /\ \A m \in Nodes \ {n} : eng'[m] = eng[m] /\ file'[m] = file[m]
  BY <1>0, <1>1, Zenon
<1>6. EngineTypes'
  BY <1>0, <1>1, <1>5, EngineTypesAt, Zenon
<1> QED BY <1>2, <1>3, <1>4, <1>6, TypeWhole, Zenon

(* The live entries, listed in some order, each once. *)
LEMMA SnapshotType ==
  ASSUME now \in Nat, NEW e \in Engines, NEW s \in EngineSnapshots(e)
  PROVE  /\ s \in Seq(SnapshotEntry)
         /\ \A i \in 1..Len(s) : /\ s[i].key \in Live(e) /\ s[i].val = e.index[s[i].key].val
                                 /\ s[i].exp = e.index[s[i].key].exp
         /\ \A k \in Live(e) : \E i \in 1..Len(s) : s[i].key = k
<1> DEFINE N == Cardinality(Live(e))
<1>1. IsFiniteSet(Live(e)) /\ N \in Nat
  <2>1. Live(e) \in SUBSET Keys /\ IsFiniteSet(Keys)
    BY ConstantsAssumption, Zenon DEF Live
  <2>2. IsFiniteSet(Live(e))
    BY <2>1, FS_Subset, Zenon
  <2> QED BY <2>2, FS_CardinalityType, Zenon
<1>2. PICK o \in Bijection(1..N, Live(e)) :
        s = [i \in DOMAIN o |-> [key |-> o[i], val |-> e.index[o[i]].val,
                                 exp |-> e.index[o[i]].exp]]
  BY Zenon DEF EngineSnapshots
<1>3. o \in [1..N -> Live(e)] /\ \A k \in Live(e) : \E i \in 1..N : o[i] = k
  BY Zenon DEF Bijection, Injection, Surjection
<1>5. \A k \in Live(e) : k \in Keys /\ e.index[k].val \in Values /\ e.index[k].exp \in Nat
  BY Zenon DEF Live, Engines, EngineStates, Entry
<1> HIDE DEF N
<1>6. DOMAIN o = 1..N
  BY <1>3, Zenon
<1>7. \A i \in 1..N : /\ s[i] = [key |-> o[i], val |-> e.index[o[i]].val, exp |-> e.index[o[i]].exp]
                      /\ o[i] \in Live(e)
  BY <1>2, <1>3, <1>6, Zenon
<1>8. s \in [1..N -> SnapshotEntry]
  BY <1>2, <1>3, <1>5, <1>6, Zenon DEF SnapshotEntry
<1>9. s \in Seq(SnapshotEntry) /\ Len(s) = N
  BY <1>1, <1>8
<1>10. ASSUME NEW i \in 1..N
       PROVE  s[i].key = o[i] /\ s[i].val = e.index[o[i]].val /\ s[i].exp = e.index[o[i]].exp
  <2>1. s[i] = [key |-> o[i], val |-> e.index[o[i]].val, exp |-> e.index[o[i]].exp]
    BY <1>7, Zenon
  <2> QED BY <2>1
<1> QED BY <1>3, <1>7, <1>9, <1>10, SMTT(30)

LEMMA FilesType ==
  ASSUME TypeInv, NEW n \in Nodes, CreateBackup(n) \/ Snapshot(n)
  PROVE  TypeInv'
<1>0. /\ LogTypes /\ NodeTypes /\ EngineTypes /\ FileTypes /\ MemberTypes
      /\ HistoryTypes /\ Len(clog) \in Nat
  BY TypeParts
<1>1. /\ UNCHANGED <<setting, now, leader, clog, applied, eng, pending, file, broken>>
      /\ UNCHANGED <<voters, halted, known, admin, direct, answers>>
  BY Zenon DEF CreateBackup, Snapshot, memberVars
<1>2. EngineSnapshots(eng[n]) \subseteq Seq(SnapshotEntry)
  BY TypeParts, SnapshotType, Zenon DEF LogTypes
<1>3. FileTypes'
  <2>1. CASE CreateBackup(n)
    BY <1>0, <1>1, <1>2, <2>1, Zenon DEF CreateBackup, FileTypes
  <2>2. CASE Snapshot(n)
    <3>1. PICK entries \in EngineSnapshots(eng[n]) :
             snapshot' = [index |-> applied[n], entries |-> entries]
      BY <2>2, Zenon DEF Snapshot
    <3>2. "snapshot" \in setting.faults /\ backup' = backup /\ applied[n] \in 0..Len(clog)
      BY <1>0, <2>2, Zenon DEF Snapshot, NodeTypes
    <3> QED BY <1>0, <1>1, <1>2, <3>1, <3>2, Zenon DEF FileTypes
  <2> QED BY <2>1, <2>2, Zenon
<1>4. LogTypes' /\ NodeTypes' /\ EngineTypes' /\ MemberTypes' /\ HistoryTypes'
  BY <1>0, <1>1, Zenon DEF LogTypes, Usual, NodeTypes, EngineTypes, MemberTypes, HistoryTypes
<1> QED BY <1>0, <1>1, <1>3, <1>4, TypeWhole, Zenon

LEMMA RestoreType ==
  ASSUME TypeInv, NEW n \in Nodes, Restore(n)
  PROVE  TypeInv'
<1>0. /\ LogTypes /\ NodeTypes /\ EngineTypes /\ FileTypes /\ MemberTypes
      /\ HistoryTypes /\ Len(clog) \in Nat
      /\ eng \in [Nodes -> Engines] /\ file \in [Nodes -> Engines]
  BY TypeParts, Zenon DEF EngineTypes
<1>1. /\ UNCHANGED <<setting, now, leader, clog, backup, snapshot, broken>>
      /\ UNCHANGED <<voters, halted, known, admin, direct, answers>>
      /\ applied' = [applied EXCEPT ![n] = snapshot.index]
      /\ pending' = [pending EXCEPT ![n] = 0]
      /\ eng' = [eng EXCEPT ![n] = Loaded(snapshot.entries)]
      /\ file' = [file EXCEPT ![n] = Loaded(snapshot.entries)]
  BY Zenon DEF Restore, memberVars
<1>2. Loaded(snapshot.entries) \in Engines /\ snapshot.index \in 0..Len(clog)
  BY <1>0, LoadedType, Zenon DEF FileTypes
<1>3. NodeTypes'
  BY <1>0, <1>1, <1>2 DEF NodeTypes
<1>4. LogTypes' /\ FileTypes' /\ MemberTypes' /\ HistoryTypes'
  BY <1>0, <1>1, Zenon DEF LogTypes, Usual, FileTypes, MemberTypes, HistoryTypes
<1>5. /\ eng' \in [Nodes -> Engines] /\ file' \in [Nodes -> Engines] /\ eng'[n] = file'[n]
      /\ \A m \in Nodes \ {n} : eng'[m] = eng[m] /\ file'[m] = file[m]
  BY <1>0, <1>1, <1>2, Zenon
<1>6. EngineTypes'
  BY <1>0, <1>1, <1>5, EngineTypesAt, Zenon
<1> QED BY <1>3, <1>4, <1>6, TypeWhole, Zenon

LEMMA RestoreErrorType ==
  ASSUME TypeInv, NEW n \in Nodes, RestoreError(n)
  PROVE  TypeInv'
<1>0. LogTypes /\ NodeTypes /\ FileTypes /\ MemberTypes /\ HistoryTypes
  BY TypeParts, Zenon
<1>1. /\ UNCHANGED <<setting, now, leader, clog, applied, pending, backup, snapshot>>
      /\ UNCHANGED <<voters, halted, known, admin, direct, answers>>
      /\ LoadFails(n, snapshot.entries)
  BY Zenon DEF RestoreError, memberVars
<1>2. EngineTypes'
  BY <1>0, <1>1, LoadFailsType, Zenon DEF FileTypes
<1>3. LogTypes' /\ NodeTypes' /\ FileTypes' /\ MemberTypes' /\ HistoryTypes'
  BY <1>0, <1>1, Zenon DEF LogTypes, Usual, NodeTypes, FileTypes, MemberTypes, HistoryTypes
<1> QED BY <1>2, <1>3, TypeWhole, Zenon

LEMMA RespRecord ==
  ASSUME TypeInv, NEW n \in Nodes, RespSet(n) \/ RespDel(n)
  PROVE  \E r \in LogRecord : (r.kind = "put" => r.val \in Values) /\ Direct(n, r)
<1>0. /\ now \in Nat /\ setting.vals \subseteq Values /\ setting.ttls \subseteq Nat
  BY TypeParts, Zenon DEF LogTypes
<1>1. CASE RespSet(n)
  <2>1. PICK k \in Keys, v \in setting.vals, t \in setting.ttls :
          Direct(n, [kind |-> "put", key |-> k, val |-> v, exp |-> resolveExpiry(t), idem |-> NoIdem])
    BY <1>1, Zenon DEF RespSet
  <2> DEFINE r == [kind |-> "put", key |-> k, val |-> v, exp |-> resolveExpiry(t), idem |-> NoIdem]
  <2>2. r \in LogRecord /\ r.val \in Values
    BY <1>0 DEF LogRecord, resolveExpiry
  <2> QED BY <2>1, <2>2, Zenon
<1>2. CASE RespDel(n)
  <2>1. PICK k \in Live(eng[n]) :
          Direct(n, [kind |-> "delete", key |-> k, val |-> NoValue, exp |-> 0, idem |-> NoIdem])
    BY <1>2, Zenon DEF RespDel
  <2> DEFINE r == [kind |-> "delete", key |-> k, val |-> NoValue, exp |-> 0, idem |-> NoIdem]
  <2>2. r \in LogRecord /\ r.kind = "delete"
    BY Zenon DEF LogRecord, Live
  <2> QED BY <2>1, <2>2, Zenon
<1> QED BY <1>1, <1>2, Zenon

LEMMA RespType ==
  ASSUME TypeInv, NEW n \in Nodes, RespSet(n) \/ RespDel(n)
  PROVE  TypeInv'
<1>0. /\ LogTypes /\ NodeTypes /\ EngineTypes /\ FileTypes /\ MemberTypes /\ HistoryTypes
      /\ eng \in [Nodes -> Engines] /\ file \in [Nodes -> Engines]
  BY TypeParts, Zenon DEF EngineTypes
<1>1. PICK r \in LogRecord : (r.kind = "put" => r.val \in Values) /\ Direct(n, r)
  BY RespRecord, Zenon
<1>2. /\ UNCHANGED <<setting, now, leader, clog, applied, pending, backup, snapshot>>
      /\ UNCHANGED <<voters, halted, known, admin, answers>>
      /\ direct' = direct + 1
  BY <1>1, Zenon DEF Direct, memberVars
<1>3. EngineTypes'
  <2>1. CASE AppendFails(n, r)
    BY <1>1, <1>2, <2>1, AppendFailsType, Zenon
  <2>2. CASE ~AppendFails(n, r)
    <3>1. /\ n \notin broken /\ broken' = broken
          /\ eng' = [eng EXCEPT ![n] = CommitRecord(eng[n], r)]
          /\ file' = [file EXCEPT ![n] = CommitRecord(file[n], r)]
      BY <1>1, <2>2, Zenon DEF Direct
    <3>2. CommitRecord(eng[n], r) \in Engines /\ CommitRecord(file[n], r) \in Engines
      BY <1>0, <1>1, CommitType, Zenon
    <3>3. file[n] = eng[n] \/ "sync" \in setting.faults
      BY <1>0, <3>1, Zenon DEF EngineTypes
    <3>4. /\ eng' \in [Nodes -> Engines] /\ file' \in [Nodes -> Engines]
          /\ \A m \in Nodes \ {n} : eng'[m] = eng[m] /\ file'[m] = file[m]
          /\ eng'[n] = file'[n] \/ "sync" \in setting.faults
      BY <1>0, <3>1, <3>2, <3>3, Zenon
    <3> QED BY <1>0, <1>2, <3>1, <3>4, EngineTypesAt, Zenon
  <2> QED BY <2>1, <2>2, Zenon
<1>4. LogTypes' /\ NodeTypes' /\ FileTypes' /\ MemberTypes' /\ HistoryTypes'
  BY <1>0, <1>2 DEF LogTypes, Usual, NodeTypes, FileTypes, MemberTypes, HistoryTypes
<1> QED BY <1>3, <1>4, TypeWhole, Zenon

Membership(n) ==
    \/ AddNode(n) \/ RemoveNode(n) \/ ListNodes(n)
    \/ ListConfiguration(n) \/ ListLeader(n) \/ LearnConfiguration(n)

LEMMA MembershipType ==
  ASSUME TypeInv, NEW n \in Nodes, Membership(n)
  PROVE  TypeInv'
<1>0. /\ LogTypes /\ NodeTypes /\ EngineTypes /\ FileTypes /\ MemberTypes
      /\ HistoryTypes
  BY TypeParts, Zenon
<1>1. /\ UNCHANGED <<setting, now, clog, applied, eng, pending, backup, snapshot, direct, answers>>
      /\ UNCHANGED <<file, broken>>
      /\ leader' \in {leader, NoNode}
  BY Zenon DEF Membership, AddNode, RemoveNode, ListNodes, ListConfiguration, ListLeader,
     LearnConfiguration, fileVars
<1>2. LogTypes' /\ NodeTypes' /\ FileTypes' /\ HistoryTypes' /\ EngineTypes'
  BY <1>0, <1>1, Zenon DEF LogTypes, Usual, NodeTypes, FileTypes, HistoryTypes, EngineTypes
<1>3. ASSUME AddNode(n) PROVE MemberTypes'
  <2>1. PICK m \in Nodes : voters' = voters \cup {m} /\ admin' = [admin EXCEPT ![n] = Listing({m})]
    BY <1>3, Zenon DEF AddNode
  <2>2. halted' = halted /\ known' = [known EXCEPT ![n] = voters']
    BY <1>3, Zenon DEF AddNode
  <2> QED BY <1>0, <2>1, <2>2, Zenon DEF MemberTypes, Listing
<1>4. ASSUME RemoveNode(n) PROVE MemberTypes'
  <2>1. PICK m \in Nodes :
          /\ voters # {m} /\ voters' = voters \ {m}
          /\ halted' = (IF m = n THEN halted \cup {n} ELSE halted)
          /\ admin' = [x \in Nodes |-> IF x = n THEN Listing({})
                                       ELSE [admin[x] EXCEPT !.added = @ \ {m}]]
    BY <1>4, Zenon DEF RemoveNode
  <2>2. known' = [known EXCEPT ![n] = voters']
    BY <1>4, Zenon DEF RemoveNode
  <2>3. voters' \in (SUBSET Nodes) \ {{}}
    BY <1>0, <2>1 DEF MemberTypes
  <2>4. admin' \in [Nodes -> [step : {"idle", "config", "leader"},
                              added : SUBSET Nodes, members : SUBSET Nodes]]
    BY <1>0, <2>1 DEF MemberTypes, Listing
  <2> QED BY <1>0, <2>1, <2>2, <2>3, <2>4, Zenon DEF MemberTypes
<1>5. ASSUME ListNodes(n) \/ ListConfiguration(n) \/ ListLeader(n) PROVE MemberTypes'
  <2>1. UNCHANGED <<voters, halted, known>>
    BY <1>5, Zenon DEF ListNodes, ListConfiguration, ListLeader
  <2>2. \/ admin' = [admin EXCEPT ![n] = Listing({})]
        \/ admin' = [admin EXCEPT ![n].step = "leader", ![n].members = known[n]]
        \/ admin' = [admin EXCEPT ![n] = NoCall]
    BY <1>5, Zenon DEF ListNodes, ListConfiguration, ListLeader
  <2> QED BY <1>0, <2>1, <2>2, SMTT(30) DEF MemberTypes, Listing, NoCall
<1>6. ASSUME LearnConfiguration(n) PROVE MemberTypes'
  BY <1>0, <1>6, Zenon DEF LearnConfiguration, MemberTypes
<1> QED BY <1>2, <1>3, <1>4, <1>5, <1>6, TypeWhole, Zenon DEF Membership

LEMMA TypeStep ==
  ASSUME TypeInv, [Next]_vars
  PROVE  TypeInv'
<1>0. /\ LogTypes /\ NodeTypes /\ EngineTypes /\ FileTypes /\ MemberTypes
      /\ HistoryTypes /\ Len(clog) \in Nat
  BY TypeParts, Zenon
<1>1. ASSUME Tick \/ (\E n \in Nodes : NewLeader(n) \/ ProposeLost(n)) \/ UNCHANGED vars
      PROVE  TypeInv'
  <2>1. /\ UNCHANGED <<setting, clog, applied, eng, backup, snapshot, file, broken>>
        /\ UNCHANGED <<voters, halted, known, admin, direct, answers>>
    BY <1>1, Zenon DEF Tick, NewLeader, ProposeLost, vars, fileVars, memberVars
  <2>2. /\ now' \in {now, now + 1} /\ (leader' = leader \/ leader' \in Nodes)
        /\ pending' = pending \/ \E n \in Nodes : pending' = [pending EXCEPT ![n] = 0]
    BY <1>1, Zenon DEF Tick, NewLeader, ProposeLost, vars
  <2>3. LogTypes' /\ FileTypes' /\ MemberTypes' /\ HistoryTypes'
    BY <1>0, <2>1, <2>2 DEF LogTypes, Usual, FileTypes, MemberTypes, HistoryTypes
  <2>4. NodeTypes'
    BY <1>0, <2>1, <2>2 DEF NodeTypes
  <2>5. EngineTypes'
    BY <1>0, <2>1, Zenon DEF EngineTypes
  <2> QED BY <2>3, <2>4, <2>5, TypeWhole, Zenon
<1>2. ASSUME NEW n \in Nodes, Proposes(n) PROVE TypeInv'
  BY <1>2, ProposedCommand, ProposeType, Zenon
<1> QED BY <1>1, <1>2, ApplyType, RestartType, FilesType, RestoreType, RestoreErrorType,
   RespType, MembershipType, SMTT(30) DEF Next, Proposes, Membership

LEMMA SettingKept ==
  ASSUME [Next]_vars
  PROVE  setting' = setting
  BY ZenonT(40) DEF Next, Tick, NewLeader, ProposeLost, Put, Delete, CompareAndSet,
     DeleteNamespace, CreateBackup, RestoreBackup, Propose, Apply, ApplyError, Restart, Snapshot,
     Restore, RestoreError, RespSet, RespDel, Direct, AddNode, RemoveNode, ListNodes,
     ListConfiguration, ListLeader, LearnConfiguration, vars

(* While nothing fails and nobody writes past raft, what a node restarts with is what it had. *)
LEMMA SoundDisks ==
  ASSUME TypeInv, setting.faults \cap (DiskFaults \cup {"resp"}) = {}, NEW n \in Nodes
  PROVE  /\ ~ApplyError(n) /\ ~RestoreError(n) /\ ~RespSet(n) /\ ~RespDel(n)
         /\ Restart(n) => eng' = eng
<1>0. /\ eng \in [Nodes -> Engines] /\ broken = {} /\ file[n] = eng[n]
      /\ {"write", "sync", "reset", "resp"} \cap setting.faults = {}
  BY TypeParts, Zenon DEF EngineTypes, DiskFaults
<1>1. /\ ~ResetFails(n) /\ \A s : ~LoadFails(n, s)
      /\ \A r : ~AppendFails(n, r) /\ ~Direct(n, r)
  BY <1>0, Zenon DEF ResetFails, LoadFails, AppendFails, Direct
<1>2. Restart(n) => eng' = [eng EXCEPT ![n] = eng[n]]
  BY <1>0, Zenon DEF Restart
<1> QED BY <1>0, <1>1, <1>2, Zenon DEF ApplyError, RestoreError, RespSet, RespDel

(* The cluster is type-correct, for any nodes, keys, clients and settings. *)
THEOREM TypeCorrect == Spec => []TypeOK
<1>1. Init => TypeInv
  BY TypeInit, Zenon
<1>2. TypeInv /\ [Next]_vars => TypeInv'
  BY TypeStep, Zenon
<1>3. TypeInv => TypeOK
  BY Zenon DEF TypeInv
<1> QED BY <1>1, <1>2, <1>3, PTL DEF Spec

-----------------------------------------------------------------------------
(* Membership. *)

(* A node that was added is a voter, and in the configuration its leader reads. *)
Listed ==
    \A n \in Nodes :
       /\ admin[n].added \subseteq voters
       /\ admin[n].step = "config" => admin[n].added \subseteq known[n]
       /\ admin[n].step = "leader" => admin[n].added \subseteq admin[n].members

LEMMA ListedStep ==
  ASSUME TypeInv, [Next]_vars, Listed
  PROVE  Listed'
<1>0. MemberTypes
  BY TypeParts, Zenon
<1>1. CASE UNCHANGED memberVars
  BY <1>1, Zenon DEF Listed, memberVars
<1>2. ASSUME NEW n \in Nodes, Restart(n) PROVE Listed'
  <2>1. UNCHANGED <<voters, known>> /\ admin' = [admin EXCEPT ![n] = NoCall]
    BY <1>2, Zenon DEF Restart
  <2> QED BY <1>0, <2>1, Zenon DEF Listed, MemberTypes, NoCall
<1>3. ASSUME NEW n \in Nodes, AddNode(n) PROVE Listed'
  <2>1. PICK m \in Nodes : voters' = voters \cup {m} /\ admin' = [admin EXCEPT ![n] = Listing({m})]
    BY <1>3, Zenon DEF AddNode
  <2>2. known' = [known EXCEPT ![n] = voters']
    BY <1>3, Zenon DEF AddNode
  <2>3. /\ admin'[n] = Listing({m}) /\ known'[n] = voters'
        /\ \A x \in Nodes \ {n} : admin'[x] = admin[x] /\ known'[x] = known[x]
    BY <1>0, <2>1, <2>2, Zenon DEF MemberTypes
  <2>4. Listing({m}).added = {m} /\ Listing({m}).step = "config"
    BY Zenon DEF Listing
  <2> QED BY <2>1, <2>3, <2>4, Zenon DEF Listed
<1>4. ASSUME NEW n \in Nodes, RemoveNode(n) PROVE Listed'
  <2>1. PICK m \in Nodes :
          /\ voters' = voters \ {m}
          /\ admin' = [x \in Nodes |-> IF x = n THEN Listing({})
                                       ELSE [admin[x] EXCEPT !.added = @ \ {m}]]
    BY <1>4, Zenon DEF RemoveNode
  <2>2. known' = [known EXCEPT ![n] = voters']
    BY <1>4, Zenon DEF RemoveNode
  <2>3. Listing({}).added = {}
    BY Zenon DEF Listing
  <2>4. ASSUME NEW x \in Nodes, x # n
        PROVE  /\ admin'[x].added = admin[x].added \ {m} /\ admin'[x].step = admin[x].step
               /\ admin'[x].members = admin[x].members /\ known'[x] = known[x]
    BY <1>0, <2>1, <2>2, <2>4 DEF MemberTypes
  <2>5. admin'[n] = Listing({})
    BY <2>1, Zenon
  <2> QED BY <2>1, <2>3, <2>4, <2>5 DEF Listed
<1>5. ASSUME NEW n \in Nodes, ListNodes(n) \/ ListLeader(n) PROVE Listed'
  <2>1. /\ UNCHANGED <<voters, known>>
        /\ admin' = [admin EXCEPT ![n] = Listing({})] \/ admin' = [admin EXCEPT ![n] = NoCall]
    BY <1>5, Zenon DEF ListNodes, ListLeader
  <2>2. Listing({}).added = {} /\ NoCall.added = {}
    BY Zenon DEF Listing, NoCall
  <2> QED BY <1>0, <2>1, <2>2, Zenon DEF Listed, MemberTypes
<1>6. ASSUME NEW n \in Nodes, ListConfiguration(n) PROVE Listed'
  <2>1. /\ UNCHANGED <<voters, known>> /\ admin[n].step = "config"
        /\ admin' = [admin EXCEPT ![n].step = "leader", ![n].members = known[n]]
    BY <1>6, Zenon DEF ListConfiguration
  <2>2. /\ admin'[n].added = admin[n].added /\ admin'[n].members = known[n]
        /\ admin'[n].step = "leader" /\ \A x \in Nodes \ {n} : admin'[x] = admin[x]
    BY <1>0, <2>1 DEF MemberTypes
  <2> QED BY <2>1, <2>2, Zenon DEF Listed
<1>7. ASSUME NEW n \in Nodes, LearnConfiguration(n) PROVE Listed'
  BY <1>0, <1>7, Zenon DEF LearnConfiguration, Listed, MemberTypes
<1>8. ASSUME ~UNCHANGED memberVars
      PROVE  \E n \in Nodes : \/ Restart(n) \/ AddNode(n) \/ RemoveNode(n) \/ ListNodes(n)
                              \/ ListConfiguration(n) \/ ListLeader(n) \/ LearnConfiguration(n)
  BY <1>8, ZenonT(40) DEF Next, Tick, NewLeader, ProposeLost, Put, Delete, CompareAndSet,
     DeleteNamespace, CreateBackup, RestoreBackup, Propose, Apply, ApplyError, Snapshot, Restore,
     RestoreError, RespSet, RespDel, Direct, vars
<1> QED BY <1>1, <1>2, <1>3, <1>4, <1>5, <1>6, <1>7, <1>8, Zenon

(* The answer to AddNode lists the node that was added, whoever leads by then. *)
THEOREM AddedNodeIsListed == Spec => []AddedIsListed
<1>1. Init => TypeInv /\ Listed
  <2>1. ASSUME Init PROVE \A n \in Nodes : admin[n].step = "idle" /\ admin[n].added = {}
    BY <2>1, Zenon DEF Init, NoCall
  <2> QED BY <2>1, TypeInit, Zenon DEF Listed
<1>2. TypeInv /\ Listed /\ [Next]_vars => (TypeInv /\ Listed)'
  BY TypeStep, ListedStep, Zenon
<1>3. Listed => AddedIsListed
  BY Zenon DEF Listed, AddedIsListed
<1> QED BY <1>1, <1>2, <1>3, PTL DEF Spec

-----------------------------------------------------------------------------
(* Keyed commands. *)

LEMMA NewIsKeyed == OneKeyEach(NewEngine)
<1>1. NewEngine.last = 0 /\ \A i \in IdemKeys : NewEngine.dedup[i] = 0
  BY Empties, Zenon DEF EmptyDedup
<1> QED BY <1>1 DEF OneKeyEach

(* A record with a new key. *)
LEMMA CommitIsKeyed ==
  ASSUME NEW e \in Engines, OneKeyEach(e), NEW r \in LogRecord, r.kind = "put" => r.val \in Values,
         r.idem \in IdemKeys, ~Deduplicated(e.dedup, r.idem)
  PROVE  OneKeyEach(CommitRecord(e, r))
<1> DEFINE f == CommitRecord(e, r)
<1>1. /\ f.last = e.last + 1 /\ e.last \in Nat /\ e.dedup \in [IdemKeys -> Nat]
      /\ \A i \in IdemKeys : f.dedup[i] = IF r.idem = i THEN e.last + 1 ELSE e.dedup[i]
  BY CommitType, Zenon DEF Engines, EngineStates
<1>2. e.dedup[r.idem] = 0
  BY NoIdemAssumption, Zenon DEF Deduplicated
<1> HIDE DEF f
<1>3. \A i \in IdemKeys : e.dedup[i] <= e.last
  BY Zenon DEF OneKeyEach
<1>4. \A i \in IdemKeys : f.dedup[i] <= f.last
  BY <1>1, <1>3
<1>5. ASSUME NEW p \in 1..e.last
      PROVE  \E i \in IdemKeys : \A j \in IdemKeys : f.dedup[j] = p <=> j = i
  <2>1. PICK i \in IdemKeys : \A j \in IdemKeys : e.dedup[j] = p <=> j = i
    BY Zenon DEF OneKeyEach
  <2>2. i # r.idem /\ p # e.last + 1 /\ p # 0
    BY <1>1, <1>2, <2>1
  <2>3. \A j \in IdemKeys : f.dedup[j] = p <=> j = i
    BY <1>1, <1>2, <2>1, <2>2
  <2> QED BY <2>3, Zenon
<1>6. \A j \in IdemKeys : f.dedup[j] = e.last + 1 <=> j = r.idem
  BY <1>1, <1>3
<1>7. \A p \in 1..f.last : p = e.last + 1 \/ p \in 1..e.last
  BY <1>1
<1>8. \A p \in 1..f.last : \E i \in IdemKeys : \A j \in IdemKeys : f.dedup[j] = p <=> j = i
  BY <1>5, <1>6, <1>7, Zenon
<1>9. OneKeyEach(f)
  BY <1>4, <1>8, Zenon DEF OneKeyEach
<1> QED BY <1>9, Zenon DEF f

LEMMA KeyedStep ==
  ASSUME TypeInv, KeyedOnce, [Next]_vars
  PROVE  KeyedOnce'
<1>0. /\ EngineTypes /\ FileTypes /\ NodeTypes /\ Len(clog) \in Nat
      /\ eng \in [Nodes -> Engines] /\ file \in [Nodes -> Engines]
  BY TypeParts, Zenon DEF EngineTypes
<1>1. setting' = setting
  BY SettingKept, Zenon
<1> SUFFICES ASSUME EachIsKeyed
             PROVE  \A n \in Nodes : OneKeyEach(eng'[n]) /\ OneKeyEach(file'[n])
  BY <1>1, Zenon DEF KeyedOnce, EachIsKeyed
<1>2. /\ \A n \in Nodes : OneKeyEach(eng[n]) /\ OneKeyEach(file[n])
      /\ \A n \in Nodes \ broken : file[n] = eng[n]
  BY <1>0, Zenon DEF KeyedOnce, EachIsKeyed, EngineTypes
<1>3. CASE UNCHANGED <<eng, file>>
  BY <1>2, <1>3, Zenon
<1>4. ASSUME NEW m \in Nodes, Apply(m)
      PROVE  \A n \in Nodes : OneKeyEach(eng'[n]) /\ OneKeyEach(file'[n])
  <2> DEFINE cmd == clog[applied[m] + 1]
  <2>1. cmd \in Commands /\ Usual(cmd) /\ cmd.op # "load"
    BY <1>4, GivenCommand, Zenon DEF Apply, EachIsKeyed, Usual
  <2>2. /\ eng' = [eng EXCEPT ![m] = ApplyCommand(eng[m], cmd)]
        /\ file' = [file EXCEPT ![m] = ApplyToFile(file[m], eng[m], cmd)]
        /\ NeedsLog(eng[m], cmd) => m \notin broken
    BY <1>4, Zenon DEF Apply
  <2> HIDE DEF cmd
  <2>3. OneKeyEach(ApplyCommand(eng[m], cmd)) /\ OneKeyEach(ApplyToFile(file[m], eng[m], cmd))
    <3> DEFINE e == eng[m]
               f == file[m]
    <3>0. /\ f = e => ApplyToFile(f, e, cmd) = ApplyCommand(e, cmd)
          /\ ~NeedsLog(e, cmd) => ApplyToFile(f, e, cmd) = f /\ ApplyCommand(e, cmd) = e
          /\ ~IsReset(cmd) /\ NeedsLog(e, cmd) =>
                /\ ~Deduplicated(e.dedup, cmd.idem)
                /\ ApplyCommand(e, cmd) = CommitRecord(e, RecordOf(cmd))
          /\ cmd.op = "wipe" => ApplyCommand(e, cmd) = NewEngine /\ ApplyToFile(f, e, cmd) = NewEngine
      <4>1. e \in Engines /\ f \in Engines
        BY <1>0, Zenon
      <4> HIDE DEF e, f
      <4> QED BY <2>1, <4>1, AppliedToFile, Zenon
    <3>1. CASE ~NeedsLog(eng[m], cmd)
      BY <1>2, <3>0, <3>1, Zenon
    <3>2. CASE cmd.op = "wipe"
      BY <3>0, <3>2, NewIsKeyed, Zenon
    <3>3. CASE NeedsLog(eng[m], cmd) /\ cmd.op # "wipe"
      <4>1. ~IsReset(cmd) /\ cmd.idem \in IdemKeys
        BY <2>1, <3>3, Zenon DEF IsReset, Usual, EachIsKeyed, Commands, Command
      <4>2. /\ RecordOf(cmd) \in LogRecord /\ RecordOf(cmd).idem \in IdemKeys
            /\ RecordOf(cmd).kind = "put" => RecordOf(cmd).val \in Values
        BY <2>1, <4>1, RecordType, Zenon
      <4>3. /\ ~Deduplicated(eng[m].dedup, RecordOf(cmd).idem) /\ file[m] = eng[m]
            /\ ApplyCommand(eng[m], cmd) = CommitRecord(eng[m], RecordOf(cmd))
            /\ ApplyToFile(file[m], eng[m], cmd) = ApplyCommand(eng[m], cmd)
        BY <1>2, <2>1, <2>2, <3>0, <3>3, <4>1, RecordType, Zenon
      <4> QED BY <1>0, <1>2, <4>2, <4>3, CommitIsKeyed, Zenon
    <3> QED BY <3>1, <3>2, <3>3, Zenon
  <2> QED BY <1>0, <1>2, <2>2, <2>3, Zenon
<1>5. ASSUME NEW m \in Nodes, ApplyError(m)
      PROVE  \A n \in Nodes : OneKeyEach(eng'[n]) /\ OneKeyEach(file'[n])
  <2>1. Usual(clog[applied[m] + 1])
    BY <1>5, GivenCommand, Zenon DEF ApplyError
  <2>2. ResetFails(m) \/ AppendFails(m, RecordOf(clog[applied[m] + 1]))
    BY <1>5, <2>1, Zenon DEF ApplyError, EachIsKeyed, Usual
  <2>3. eng' = eng /\ (file' = file \/ file' = [file EXCEPT ![m] = NewEngine])
    BY <2>2, Zenon DEF ResetFails, AppendFails, EachIsKeyed
  <2> QED BY <1>0, <1>2, <2>3, NewIsKeyed, Zenon
<1>6. ASSUME NEW m \in Nodes, Restart(m)
      PROVE  \A n \in Nodes : OneKeyEach(eng'[n]) /\ OneKeyEach(file'[n])
  <2>1. eng' = [eng EXCEPT ![m] = file[m]] /\ file' = file
    BY <1>6, Zenon DEF Restart
  <2> QED BY <1>0, <1>2, <2>1, Zenon
<1>7. ASSUME NEW m \in Nodes PROVE ~Restore(m) /\ ~RestoreError(m) /\ ~RespSet(m) /\ ~RespDel(m)
  <2>1. snapshot.index = 0 /\ applied[m] \in Nat
    BY <1>0 DEF EachIsKeyed, FileTypes, NodeTypes
  <2>2. ~Behind(m)
    BY <2>1 DEF Behind
  <2> QED BY <2>2, Zenon DEF Restore, RestoreError, RespSet, RespDel, Direct, EachIsKeyed
<1>8. ASSUME ~UNCHANGED <<eng, file>>
      PROVE  \E m \in Nodes : \/ Apply(m) \/ ApplyError(m) \/ Restart(m) \/ Restore(m)
                              \/ RestoreError(m) \/ RespSet(m) \/ RespDel(m)
  BY <1>8, ZenonT(40) DEF Next, Tick, NewLeader, ProposeLost, Put, Delete, CompareAndSet,
     DeleteNamespace, CreateBackup, RestoreBackup, Propose, Snapshot, AddNode, RemoveNode,
     ListNodes, ListConfiguration, ListLeader, LearnConfiguration, vars, fileVars
<1> QED BY <1>3, <1>4, <1>5, <1>6, <1>7, <1>8, Zenon

(* Where every request has its key, a replica has no command twice and no record without a
   key, in memory or in its file, for any number of nodes, restarts and retries, and also
   where writes and Resets fail. *)
THEOREM KeyedCommandsOnce == Spec => []KeyedOnce
<1>1. Init => TypeInv /\ KeyedOnce
  <2>1. ASSUME Init PROVE \A n \in Nodes : eng[n] = NewEngine /\ file[n] = NewEngine
    BY <2>1, Zenon DEF Init
  <2> QED BY <2>1, TypeInit, NewIsKeyed, Zenon DEF KeyedOnce
<1>2. TypeInv /\ KeyedOnce /\ [Next]_vars => (TypeInv /\ KeyedOnce)'
  BY TypeStep, KeyedStep, Zenon
<1> QED BY <1>1, <1>2, PTL DEF Spec
=============================================================================
