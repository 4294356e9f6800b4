---------------------------- MODULE ChangeStream ----------------------------
(***************************************************************************)
(* The change stream and its consumers: StreamServer over the engine's log *)
(* (Engine.Fetch) and over streaming.OffsetStore, which keeps the committed*)
(* offset of a consumer group in a WAL of its own.                         *)
(*                                                                         *)
(* The two logs share nothing, so a power loss cuts each where it likes.   *)
(* A record is named by a number no other record has, whatever position it *)
(* is written at.  The members of the group are remote clients: they outlive*)
(* the node, and follow the protocol stream.proto is made for: FetchOffset,*)
(* Fetch, process, CommitOffset with next_offset, Fetch again.             *)
(***************************************************************************)
EXTENDS Integers, Sequences

CONSTANTS
    Members,        \* consumers of the group
    Limit,          \* max_records of a Fetch
    MaxRecords,     \* bound: records ever produced
    MaxCommits,     \* bound: records in the offset log, where faults repeat commits
    FaultSets       \* what can go wrong together: a set of subsets of AllFaults

(* "sync": an fsync fails; "member": a consumer dies and starts again;
   "process", "power": as in Engine; "wipe": an operator deletes the namespace. *)
AllFaults == {"sync", "member", "process", "power", "wipe"}

ASSUME ConstantsAssumption ==
    /\ Limit \in Nat \ {0}
    /\ MaxRecords \in Nat
    /\ MaxCommits \in Nat
    /\ FaultSets \subseteq SUBSET AllFaults

VARIABLES
    faults,         \* which of them can happen in this behaviour
    up,             \* the node serves
    produced,       \* records ever produced
    log,            \* the engine's log in the file
    synced,         \* how much of it is durable
    writing,        \* a mutation waits for its fsync
    olog,           \* the offset log in the file
    osynced,        \* how much of it is durable
    offset,         \* OffsetStore.offsets[group], 0 if not found
    pc,             \* per member: "idle", "fetch", "process", "commit", "sync"
    pos,            \* per member: from_offset of its next Fetch
    batch,          \* per member: the records it was given last
    processed,      \* history: records some member processed
    shown           \* history: the highest offset a member was told

nodeVars == <<produced, log, synced, writing>>
storeVars == <<olog, osynced, offset>>
memberVars == <<pc, pos, batch>>
vars == <<faults, up, nodeVars, storeVars, memberVars, processed, shown>>

TypeOK ==
    /\ faults \in FaultSets
    /\ up \in BOOLEAN /\ writing \in BOOLEAN
    /\ produced \in Nat
    /\ log \in Seq(1..produced) /\ synced \in 0..Len(log)
    /\ olog \in Seq(Nat) /\ osynced \in 0..Len(olog)
    /\ offset \in Nat /\ shown \in Nat
    /\ pc \in [Members -> {"idle", "fetch", "process", "commit", "sync"}]
    /\ pos \in [Members -> Nat \ {0}]
    /\ batch \in [Members -> Seq(1..produced)]
    /\ processed \subseteq 1..produced

Init ==
    /\ faults \in FaultSets
    /\ up = TRUE
    /\ produced = 0 /\ log = <<>> /\ synced = 0 /\ writing = FALSE
    /\ olog = <<>> /\ osynced = 0 /\ offset = 0
    /\ pc = [m \in Members |-> "idle"]
    /\ pos = [m \in Members |-> 1]
    /\ batch = [m \in Members |-> <<>>]
    /\ processed = {} /\ shown = 0

Higher(a, b) == IF a >= b THEN a ELSE b

-----------------------------------------------------------------------------
(* The engine, as far as its log shows it: one mutation at a time, and its
   record is in the file before it is durable. *)
Produce ==
    /\ up /\ ~writing
    /\ produced < MaxRecords
    /\ produced' = produced + 1
    /\ log' = Append(log, produced')
    /\ writing' = TRUE
    /\ UNCHANGED <<faults, up, synced, storeVars, memberVars, processed, shown>>

ProduceDone ==
    /\ writing
    /\ writing' = FALSE
    /\ synced' = Len(log)
    /\ UNCHANGED <<faults, up, produced, log, storeVars, memberVars, processed, shown>>

ProduceSyncError ==
    /\ "sync" \in faults
    /\ writing
    /\ writing' = FALSE
    /\ UNCHANGED <<faults, up, produced, log, synced, storeVars, memberVars, processed, shown>>

(* DeleteNamespace resets the engine, and leaves the offset store alone. *)
DeleteNamespaceKeepsSynced ==
    /\ "wipe" \in faults
    /\ up /\ ~writing
    /\ log' = <<>>
    /\ UNCHANGED <<faults, up, produced, synced, writing, storeVars, memberVars, processed, shown>>

DeleteNamespace ==
    /\ "wipe" \in faults
    /\ up /\ ~writing
    /\ log' = <<>> /\ synced' = 0
    /\ UNCHANGED <<faults, up, produced, writing, storeVars, memberVars, processed, shown>>

-----------------------------------------------------------------------------
(* Consumers. *)

FetchOffset(m) ==
    /\ up /\ pc[m] = "idle"
    /\ pc' = [pc EXCEPT ![m] = "fetch"]
    /\ pos' = [pos EXCEPT ![m] = IF offset = 0 THEN 1 ELSE offset]
    /\ shown' = Higher(shown, offset)
    /\ UNCHANGED <<faults, up, nodeVars, storeVars, batch, processed>>

(* Engine.Fetch(from, limit): what the file holds, durable or not. *)
ReadRangeBeforeLast(from) ==
    SubSeq(log, from, IF from + Limit - 1 < Len(log) THEN from + Limit - 1 ELSE Len(log) - 1)

ReadRange(from) ==
    SubSeq(log, from, IF from + Limit - 1 < Len(log) THEN from + Limit - 1 ELSE Len(log))

(* StreamServer.Fetch: next_offset is one past the last record given. *)
NextOffsetSkips(from, records) == from + Limit

NextOffset(from, records) == from + Len(records)

Fetch(m) ==
    /\ up /\ pc[m] = "fetch"
    /\ ReadRange(pos[m]) # <<>>
    /\ pc' = [pc EXCEPT ![m] = "process"]
    /\ batch' = [batch EXCEPT ![m] = ReadRange(pos[m])]
    /\ pos' = [pos EXCEPT ![m] = NextOffset(pos[m], ReadRange(pos[m]))]
    /\ UNCHANGED <<faults, up, nodeVars, storeVars, processed, shown>>

Process(m) ==
    /\ pc[m] = "process"
    /\ pc' = [pc EXCEPT ![m] = "commit"]
    /\ processed' = processed \cup {batch[m][i] : i \in 1..Len(batch[m])}
    /\ batch' = [batch EXCEPT ![m] = <<>>]
    /\ UNCHANGED <<faults, up, nodeVars, storeVars, pos, shown>>

(* OffsetStore.Commit takes s.mu ... *)
StoreFree == \A m \in Members : pc[m] # "sync"

RegressesNever(m) == FALSE

Regresses(m) == pos[m] < offset

(* ... refuses to go back: the member asks for the offset again ... *)
CommitRejected(m) ==
    /\ up /\ pc[m] = "commit" /\ StoreFree
    /\ Regresses(m)
    /\ pc' = [pc EXCEPT ![m] = "idle"]
    /\ UNCHANGED <<faults, up, nodeVars, storeVars, pos, batch, processed, shown>>

(* ... appends, waits for the fsync ... *)
CommitAppend(m) ==
    /\ up /\ pc[m] = "commit" /\ StoreFree
    /\ ~Regresses(m)
    /\ faults # {} => Len(olog) < MaxCommits
    /\ olog' = Append(olog, pos[m])
    /\ pc' = [pc EXCEPT ![m] = "sync"]
    /\ UNCHANGED <<faults, up, nodeVars, osynced, offset, pos, batch, processed, shown>>

(* ... and only then remembers the offset. *)
CommitDone(m) ==
    /\ pc[m] = "sync"
    /\ osynced' = Len(olog)
    /\ offset' = pos[m]
    /\ pc' = [pc EXCEPT ![m] = "fetch"]
    /\ shown' = Higher(shown, pos[m])
    /\ UNCHANGED <<faults, up, nodeVars, olog, pos, batch, processed>>

CommitError(m) ==
    /\ "sync" \in faults
    /\ pc[m] = "sync"
    /\ pc' = [pc EXCEPT ![m] = "idle"]
    /\ UNCHANGED <<faults, up, nodeVars, storeVars, pos, batch, processed, shown>>

MemberCrash(m) ==
    /\ "member" \in faults
    /\ pc[m] \in {"fetch", "process", "commit"}
    /\ pc' = [pc EXCEPT ![m] = "idle"]
    /\ batch' = [batch EXCEPT ![m] = <<>>]
    /\ UNCHANGED <<faults, up, nodeVars, storeVars, pos, processed, shown>>

-----------------------------------------------------------------------------
(* Crashes of the node.  A member waiting for CommitOffset gets an error. *)

Stop ==
    /\ up' = FALSE /\ writing' = FALSE
    /\ offset' = 0
    /\ pc' = [m \in Members |-> IF pc[m] = "sync" THEN "idle" ELSE pc[m]]
    /\ UNCHANGED <<faults, produced, pos, batch, processed, shown>>

ProcessCrash ==
    /\ "process" \in faults
    /\ up
    /\ UNCHANGED <<log, synced, olog, osynced>>
    /\ Stop

PowerLoss ==
    /\ "power" \in faults
    /\ \E n \in synced..Len(log) : log' = SubSeq(log, 1, n) /\ synced' = n
    /\ \E n \in osynced..Len(olog) : olog' = SubSeq(olog, 1, n) /\ osynced' = n
    /\ Stop

(* OffsetStore.replay: the last record of the group wins. *)
Restart ==
    /\ ~up
    /\ up' = TRUE
    /\ offset' = IF olog = <<>> THEN 0 ELSE olog[Len(olog)]
    /\ UNCHANGED <<faults, nodeVars, olog, osynced, memberVars, processed, shown>>

-----------------------------------------------------------------------------
Member(m) ==
    \/ FetchOffset(m) \/ Fetch(m) \/ Process(m)
    \/ CommitRejected(m) \/ CommitAppend(m) \/ CommitDone(m) \/ CommitError(m)

Next ==
    \/ Produce \/ ProduceDone \/ ProduceSyncError \/ DeleteNamespace
    \/ \E m \in Members : Member(m) \/ MemberCrash(m)
    \/ ProcessCrash \/ PowerLoss \/ Restart

Spec == Init /\ [][Next]_vars

(* The node's goroutines run, fsync returns, and consumers keep polling. *)
FairSpec == Spec /\ WF_vars(ProduceDone) /\ \A m \in Members : WF_vars(Member(m))

-----------------------------------------------------------------------------
(* "Consumers remain at-least-once" (TECHNICAL_REQUIREMENTS.md:95): a record the
   stream holds below the committed offset has been processed, for no member
   will be given it again. *)
AtLeastOnce ==
    \A p \in 1..Len(log) : p < offset => log[p] \in processed

(* Delivery is at least once while neither a power loss nor a wipe takes records
   away that a member was given before they were durable (wal.go:437), with
   members that race, die and commit late, and failing offset commits. *)
NothingSkipped == faults \cap {"power", "wipe"} = {} => AtLeastOnce

(* "offset commits survive restart and can't silently roll back"
   (offsets.go:21): a running node never knows less than an offset it has told
   a member, by CommitOffset or by FetchOffset; except where a process dies
   before an fsync, replays the offset, and the power then fails. *)
OffsetsDoNotRollBack ==
    ~({"process", "power"} \subseteq faults) /\ up => offset >= shown

(* Without faults the members catch up with a producer that pauses, however
   their reads and commits interleave: every record of the stream is processed
   by one of them, no member waits for another for ever, and rejected commits
   (offsets.go:64) do not keep the group from moving on. *)
EventuallyProcessed ==
    faults = {} ~> \A p \in 1..Len(log) : log[p] \in processed
=============================================================================
