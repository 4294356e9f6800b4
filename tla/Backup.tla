------------------------------- MODULE Backup -------------------------------
(***************************************************************************)
(* The admin operations of a node without replication that read or replace *)
(* the whole namespace (internal/api/admin_server.go), and the backup files*)
(* they write and read (internal/backup).                                  *)
(*                                                                         *)
(* Clients keep writing while an operator's call runs: every step below    *)
(* that uses the engine holds e.mu only for that step.  A mutation is      *)
(* atomic here, as Engine shows it to be as long as no fsync fails.        *)
(* Without TTLs an entry is a key and its value.  With replication the load*)
(* and the wipe are one raft command each: see Replication.                *)
(***************************************************************************)
EXTENDS Integers, Sequences, FiniteSetsExt

CONSTANTS
    Keys,
    Values,
    NoValue,        \* the value of a key that has no entry
    Operators,      \* callers of the admin API
    Client,         \* whoever writes through StateService
    Paths,          \* paths of backup files
    NoFile,         \* what is at a path where no file is
    MaxLog,         \* bound: records in the log since the last Reset, and the
                    \* positions of clients' writes, one that fails included
    MaxWrites,      \* bound: those of clients among them
    MaxResets,      \* bound: calls of Reset
    FaultSets       \* what can happen together: a set of subsets of AllFaults

(* "write": a write to the engine's log fails, which is sticky; "disk": a write
   or fsync of a backup file fails; "remove", "reopen": as in Engine; "process",
   "power": as in Engine; "dirent": a power loss takes the directory entry of a
   file that was itself fsynced; "corrupt": a file is damaged on disk.  Not
   failures: "client", clients write; "overlap", operators' calls overlap;
   "leader", a process may have encoded raft commands before it encodes entries. *)
AllFaults == {"write", "disk", "remove", "reopen", "process", "power", "dirent",
              "corrupt", "client", "overlap", "leader"}

ASSUME ConstantsAssumption ==
    /\ MaxLog \in Nat /\ MaxWrites \in Nat /\ MaxResets \in Nat
    /\ NoValue \notin Values /\ Client \notin Operators
    /\ FaultSets \subseteq SUBSET AllFaults

VARIABLES
    faults,         \* which of them can happen in this behaviour
    up,             \* the node serves
    types,          \* how this process numbers its gob types
    log,            \* the engine's log, each record with its writer
    next,           \* the position the log assigns next
    broken,         \* the log accepts no more writes
    state,          \* the engine's index
    resets,         \* history: how often the log was emptied
    files,          \* what is at each path
    pc,             \* per operator: how far its call is
    call,           \* per operator: what its call has read so far
    acked           \* history: the backups reported as made

engineVars == <<log, next, broken, state, resets>>
callVars == <<pc, call>>
vars == <<faults, up, types, engineVars, files, callVars, acked>>

Entry == [key : Keys, val : Values]
Record == [key : Keys, val : Values \cup {NoValue}, by : Operators \cup {Client}]

(* The checksum is over the gob encoding of the entries, which has the numbers
   the process gave its types: "plain" where entries came first. *)
Checksum(entries, numbering) == <<entries, numbering>>
Numberings == {"plain", "leader"}

(* origin is history: the entries its writer took. *)
File == [origin : SUBSET Entry, whole : BOOLEAN, synced : BOOLEAN,
         entries : SUBSET Entry, point : Nat, sum : (SUBSET Entry) \X Numberings]

ASSUME NoFileAssumption == NoFile \notin File

NoCall == <<>>
Call == [path : Paths, entries : SUBSET Entry, origin : SUBSET Entry, left : SUBSET Entry,
         at : Nat, point : Nat, reset : Nat, era : Nat]

TypeOK ==
    /\ faults \in FaultSets
    /\ up \in BOOLEAN /\ broken \in BOOLEAN
    /\ types \in Numberings
    /\ log \in Seq(Record)
    /\ next \in Nat \ {0}
    /\ state \in [Keys -> Values \cup {NoValue}]
    /\ resets \in Nat
    /\ files \in [Paths -> File \cup {NoFile}]
    /\ pc \in [Operators -> {"idle", "snapped", "pointed", "created", "written",
                             "read", "load", "restored", "counted"}]
    /\ \A o \in Operators : call[o] \in Call \cup {NoCall}
    /\ acked \subseteq Call

Nothing == [k \in Keys |-> NoValue]

Init ==
    /\ faults \in FaultSets
    /\ up = TRUE /\ types = "plain"
    /\ log = <<>> /\ next = 1 /\ broken = FALSE /\ state = Nothing /\ resets = 0
    /\ files = [p \in Paths |-> NoFile]
    /\ pc = [o \in Operators |-> "idle"]
    /\ call = [o \in Operators |-> NoCall]
    /\ acked = {}

(* Engine.Snapshot. *)
Snapshot(s) == {[key |-> k, val |-> s[k]] : k \in {k \in Keys : s[k] # NoValue}}

(* Open replays the log: what stays of a key is what its last record says. *)
Replayed(recs) ==
    [k \in Keys |->
        LET touching == {p \in 1..Len(recs) : recs[p].key = k}
        IN IF touching = {} THEN NoValue ELSE recs[Max(touching)].val]

At(o, step) == pc[o] = step
Begins(o) ==
    /\ up /\ At(o, "idle")
    /\ "overlap" \in faults \/ \A other \in Operators : At(other, "idle")
Goes(o, step) == pc' = [pc EXCEPT ![o] = step]
Returns(o) == Goes(o, "idle") /\ call' = [call EXCEPT ![o] = NoCall]

-----------------------------------------------------------------------------
(* One committed mutation. *)
Writes(k, v, by) ==
    /\ ~broken /\ Len(log) < MaxLog
    /\ log' = Append(log, [key |-> k, val |-> v, by |-> by])
    /\ next' = next + 1
    /\ state' = [state EXCEPT ![k] = v]
    /\ UNCHANGED <<broken, resets>>

(* One that fails in the log, for good; its position is assigned all the same. *)
WriteFails ==
    /\ broken \/ "write" \in faults
    /\ broken' = TRUE /\ next' = next + 1
    /\ UNCHANGED <<log, state, resets>>

(* StateService Put and Delete. *)
Mutate ==
    /\ "client" \in faults /\ up
    /\ Cardinality({p \in 1..Len(log) : log[p].by = Client}) < MaxWrites
    /\ \E k \in Keys, v \in Values \cup {NoValue} : Writes(k, v, Client)
    /\ UNCHANGED <<faults, up, types, files, callVars, acked>>

MutateError ==
    /\ "client" \in faults /\ up
    /\ next <= MaxLog + 1
    /\ WriteFails
    /\ UNCHANGED <<faults, up, types, files, callVars, acked>>

(* Engine.Reset: all of it, or an error after which the log is closed; the file
   is still there (Remove failed) or gone (Open failed).  The closed log still
   says which position is next. *)
ResetKeepsIndex ==
    /\ ~broken /\ resets < MaxResets
    /\ log' = <<>> /\ next' = 1 /\ resets' = resets + 1
    /\ UNCHANGED <<broken, state>>

Reset ==
    /\ ~broken /\ resets < MaxResets
    /\ log' = <<>> /\ next' = 1 /\ state' = Nothing
    /\ resets' = resets + 1
    /\ UNCHANGED broken

ResetError ==
    \/ broken /\ UNCHANGED engineVars
    \/ /\ "remove" \in faults /\ ~broken /\ resets < MaxResets
       /\ broken' = TRUE
       /\ UNCHANGED <<log, next, state, resets>>
    \/ /\ "reopen" \in faults /\ ~broken /\ resets < MaxResets
       /\ broken' = TRUE /\ log' = <<>> /\ resets' = resets + 1
       /\ UNCHANGED <<next, state>>

-----------------------------------------------------------------------------
(* CreateBackup.  The snapshot and the recovery point are read one after the
   other, and the file is written after both. *)
BackupSnapshot(o) ==
    /\ Begins(o)
    /\ \E p \in Paths :
          call' = [call EXCEPT ![o] = [path |-> p, entries |-> Snapshot(state),
                      origin |-> Snapshot(state), left |-> {}, at |-> Len(log), point |-> 0,
                      reset |-> resets, era |-> 0]]
    /\ Goes(o, "snapped")
    /\ UNCHANGED <<faults, up, types, engineVars, files, acked>>

BackupPointUnderflows(o) ==
    /\ At(o, "snapped")
    /\ call' = [call EXCEPT ![o].point = next - 2, ![o].era = resets]
    /\ Goes(o, "pointed")
    /\ UNCHANGED <<faults, up, types, engineVars, files, acked>>

BackupPointOffByOne(o) ==
    /\ At(o, "snapped")
    /\ call' = [call EXCEPT ![o].point = IF next = 1 THEN 0 ELSE next - 2,
                            ![o].era = resets]
    /\ Goes(o, "pointed")
    /\ UNCHANGED <<faults, up, types, engineVars, files, acked>>

(* LastCommitPosition: the last position assigned, to a record or to none. *)
BackupPoint(o) ==
    /\ At(o, "snapped")
    /\ call' = [call EXCEPT ![o].point = next - 1, ![o].era = resets]
    /\ Goes(o, "pointed")
    /\ UNCHANGED <<faults, up, types, engineVars, files, acked>>

(* OpenFile with O_EXCL: a path that has a file, a left-over included, is refused. *)
Unwritten(origin) ==
    [origin |-> origin, whole |-> FALSE, synced |-> FALSE, entries |-> {},
     point |-> 0, sum |-> Checksum({}, "plain")]

BackupCreate(o) ==
    /\ At(o, "pointed")
    /\ IF files[call[o].path] # NoFile
       THEN Returns(o) /\ UNCHANGED files
       ELSE /\ files' = [files EXCEPT ![call[o].path] = Unwritten(call[o].entries)]
            /\ Goes(o, "created") /\ UNCHANGED call
    /\ UNCHANGED <<faults, up, types, engineVars, acked>>

(* Write: checksum of the entries, then everything in one payload. *)
BackupWrite(o) ==
    /\ At(o, "created")
    /\ files' = [files EXCEPT ![call[o].path] =
                    [origin |-> call[o].entries, whole |-> TRUE, synced |-> FALSE,
                     entries |-> call[o].entries, point |-> call[o].point,
                     sum |-> Checksum(call[o].entries, types)]]
    /\ Goes(o, "written")
    /\ UNCHANGED <<faults, up, types, engineVars, call, acked>>

(* An error leaves what was written, and the file, behind. *)
BackupDiskError(o) ==
    /\ "disk" \in faults
    /\ At(o, "created") \/ At(o, "written")
    /\ Returns(o)
    /\ UNCHANGED <<faults, up, types, engineVars, files, acked>>

BackupNoSync(o) ==
    /\ At(o, "written")
    /\ acked' = acked \cup {call[o]}
    /\ Returns(o)
    /\ UNCHANGED <<faults, up, types, engineVars, files>>

BackupSync(o) ==
    /\ At(o, "written")
    /\ files' = [files EXCEPT ![call[o].path].synced = TRUE]
    /\ acked' = acked \cup {call[o]}
    /\ Returns(o)
    /\ UNCHANGED <<faults, up, types, engineVars>>

-----------------------------------------------------------------------------
(* RestoreBackup, not replicated. *)

(* Read: decoded to the end, of this version (there is only one), and with the
   checksum this process computes from the entries. *)
ReadableUnchecked(f) == f # NoFile

Readable(f) == f # NoFile /\ f.whole /\ f.sum = Checksum(f.entries, types)

RestoreRead(o) ==
    /\ Begins(o)
    /\ \E p \in Paths :
          /\ Readable(files[p])
          /\ call' = [call EXCEPT ![o] = [path |-> p, entries |-> files[p].entries,
                         origin |-> files[p].origin, left |-> files[p].entries, at |-> 0,
                         point |-> files[p].point, reset |-> 0, era |-> 0]]
    /\ Goes(o, "read")
    /\ UNCHANGED <<faults, up, types, engineVars, files, acked>>

RestoreReset(o) ==
    /\ At(o, "read")
    /\ Reset
    /\ call' = [call EXCEPT ![o].reset = resets']
    /\ Goes(o, "load")
    /\ UNCHANGED <<faults, up, types, files, acked>>

RestoreResetError(o) ==
    /\ At(o, "read")
    /\ ResetError
    /\ Returns(o)
    /\ UNCHANGED <<faults, up, types, files, acked>>

(* One turn of the loop, in the order of the file, which is any order. *)
RestorePut(o) ==
    /\ At(o, "load")
    /\ \E e \in call[o].left :
          /\ Writes(e.key, e.val, o)
          /\ call' = [call EXCEPT ![o].left = @ \ {e}]
          /\ Goes(o, "load")
    /\ UNCHANGED <<faults, up, types, files, acked>>

(* The first error ends the call, with the entries before it loaded. *)
RestorePutError(o) ==
    /\ At(o, "load") /\ call[o].left # {}
    /\ WriteFails
    /\ Returns(o)
    /\ UNCHANGED <<faults, up, types, files, acked>>

RestoreDone(o) ==
    /\ At(o, "load") /\ call[o].left = {}
    /\ Goes(o, "restored")
    /\ UNCHANGED <<faults, up, types, engineVars, files, call, acked>>

RestoreReturn(o) ==
    /\ At(o, "restored")
    /\ Returns(o)
    /\ UNCHANGED <<faults, up, types, engineVars, files, acked>>

-----------------------------------------------------------------------------
(* DeleteNamespace, confirmed with the name of the namespace: entries are counted,
   then wiped. *)
DeleteCount(o) ==
    /\ Begins(o)
    /\ Goes(o, "counted")
    /\ UNCHANGED <<faults, up, types, engineVars, files, call, acked>>

DeleteReset(o) ==
    /\ At(o, "counted")
    /\ Reset \/ ResetError
    /\ Returns(o)
    /\ UNCHANGED <<faults, up, types, files, acked>>

-----------------------------------------------------------------------------
(* The process dies with its calls; the page cache survives, or does not. *)
Stop ==
    /\ up' = FALSE /\ broken' = FALSE
    /\ state' = Nothing
    /\ pc' = [o \in Operators |-> "idle"]
    /\ call' = [o \in Operators |-> NoCall]
    /\ UNCHANGED <<faults, types, log, next, resets, acked>>

ProcessCrash ==
    /\ "process" \in faults /\ up
    /\ Stop
    /\ UNCHANGED files

(* What a power loss may leave of file f. *)
Remains(f) ==
    IF f = NoFile THEN {NoFile}
    ELSE (IF f.synced THEN {f} ELSE {NoFile, f, Unwritten(f.origin)})
         \cup (IF "dirent" \in faults THEN {NoFile} ELSE {})

PowerLoss ==
    /\ "power" \in faults /\ up
    /\ Stop
    /\ files' \in {fs \in [Paths -> UNION {Remains(files[p]) : p \in Paths}] :
                     \A p \in Paths : fs[p] \in Remains(files[p])}

Start ==
    /\ ~up
    /\ up' = TRUE
    /\ types' \in IF "leader" \in faults THEN Numberings ELSE {"plain"}
    /\ state' = Replayed(log) /\ next' = Len(log) + 1
    /\ UNCHANGED <<faults, log, broken, resets, files, callVars, acked>>

(* Damage to the entries, or to the metadata, which no checksum covers. *)
Corrupt ==
    /\ "corrupt" \in faults
    /\ \E p \in Paths :
          /\ files[p] # NoFile /\ files[p].whole
          /\ \/ \E e \in files[p].entries :
                    files' = [files EXCEPT ![p].entries = @ \ {e}]
             \/ files' = [files EXCEPT ![p].point = 0]
    /\ UNCHANGED <<faults, up, types, engineVars, callVars, acked>>

Operator(o) ==
    \/ BackupSnapshot(o) \/ BackupPoint(o) \/ BackupCreate(o) \/ BackupWrite(o)
    \/ BackupDiskError(o) \/ BackupSync(o)
    \/ RestoreRead(o) \/ RestoreReset(o) \/ RestoreResetError(o) \/ RestorePut(o)
    \/ RestorePutError(o) \/ RestoreDone(o) \/ RestoreReturn(o)
    \/ DeleteCount(o) \/ DeleteReset(o)

Next ==
    \/ Mutate \/ MutateError
    \/ \E o \in Operators : Operator(o)
    \/ ProcessCrash \/ PowerLoss \/ Start \/ Corrupt

Spec == Init /\ [][Next]_vars

-----------------------------------------------------------------------------
(* Properties. *)

(* The recovery point of a reported backup is never behind its content: no entry
   stems from a record after it, although clients write between Snapshot and
   LastCommitPosition (admin_server.go:90-93), and positions are assigned to writes
   that fail (wal.go:330).  Nothing is said of a backup whose log was wiped between
   the two. *)
NothingPastPoint ==
    \A b \in acked : b.era = b.reset => b.at <= b.point

(* The recovery point is "the commit position the backup represents"
   (admin.proto:102): the entries are the state at exactly that position. *)
PointIsExact ==
    \A b \in acked : b.reset = resets =>
       b.entries = Snapshot(Replayed(SubSeq(log, 1, b.point)))

(* A restore loads only what one CreateBackup once took as a whole: never part of
   a file whose writer failed, crashed or is not done, nor a damaged one
   (backup.go:89-109). *)
LoadedWasTaken ==
    \A o \in Operators : pc[o] \in {"read", "load", "restored"} => call[o].entries = call[o].origin

(* A backup that was reported is on disk and can be restored, with its entries
   and its recovery point, whatever other operators do with the same path and
   through any crash (backup.go:66-83). *)
AckedIsRestorable ==
    faults \cap {"dirent", "corrupt", "leader"} = {} =>
    \A b \in acked :
       /\ up => Readable(files[b.path])
       /\ files[b.path] # NoFile
       /\ files[b.path].entries = b.entries
       /\ files[b.path].point = b.point

(* When a restore is reported and nobody has wiped the log since, every key that
   nobody else has written since is as it is in the backup: nothing from before
   is left, and no entry is missing (admin_server.go:122-129). *)
RestoredIsBackup ==
    \A o \in Operators : pc[o] = "restored" /\ call[o].reset = resets =>
       \A k \in Keys :
          (\A p \in 1..Len(log) : log[p].key = k => log[p].by = o) =>
             {e \in call[o].entries : e.key = k} = {e \in Snapshot(state) : e.key = k}
=============================================================================
