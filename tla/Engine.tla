------------------------------- MODULE Engine -------------------------------
(***************************************************************************)
(* internal/engine: the key-value state machine of one node.               *)
(*                                                                         *)
(* A mutation resolves its TTL, takes e.mu, consults dedup (and the version*)
(* for CompareAndSet), appends to the log and, if Append succeeds, updates *)
(* index and dedup.  e.mu is held across Append, so one mutation at a time *)
(* is inside it; the actions below split it where others can see it: while *)
(* fsync runs, the record is already in the file.  The log is the WAL as   *)
(* module WAL shows it to a single caller.                                 *)
(***************************************************************************)
EXTENDS EngineState, Sequences, FiniteSets

CONSTANTS
    Clients,        \* goroutines that call the engine
    TTLs,           \* ttlSeconds arguments
    MaxLog,         \* bound: records in the log
    MaxTime,        \* bound: the clock
    FaultSets       \* what can go wrong together: a set of subsets of AllFaults

(* "sync": an fsync fails; "write": a write fails, which is sticky; "remove",
   "reopen": Remove or Open fails inside Reset; "process": the process dies and the page
   cache survives; "power": the machine loses power.  Not failures: "wipe", an
   operator calls Reset; "clock", time passes. *)
AllFaults == {"sync", "write", "remove", "reopen", "process", "power",
              "wipe", "clock"}

ASSUME ConstantsAssumption ==
    /\ TTLs \subseteq Nat
    /\ MaxLog \in Nat
    /\ MaxTime \in Nat
    /\ FaultSets \subseteq SUBSET AllFaults

VARIABLES
    faults,         \* which of them can happen in this behaviour
    now,            \* clock.Now()
    log,            \* the records in the file, at their positions
    synced,         \* how many of them a power loss cannot take
    broken,         \* the log accepts no more writes
    index,          \* Engine.index
    dedup,          \* Engine.dedup
    mode,           \* "down", "replay" or "up"
    cursor,         \* records replayed so far, in mode "replay"
    pc,             \* per client: "idle", "called" or "commit"
    req,            \* per client: its resolved request
    acks,           \* history: position and idempotency key of each
                    \* outcome a caller got
    cas             \* history: position, expectedVersion and time of each
                    \* commit of CompareAndSet

logVars == <<log, synced, broken>>
histVars == <<acks, cas>>
vars == <<faults, now, logVars, index, dedup, mode, cursor, pc, req, histVars>>

NoRequest == <<>>
Request == [op : {"put", "delete", "cas"}, rec : LogRecord, expected : Nat]

TypeOK ==
    /\ faults \in FaultSets
    /\ now \in Nat
    /\ log \in Seq(LogRecord)
    /\ synced \in 0..Len(log)
    /\ broken \in BOOLEAN
    /\ index \in [Keys -> Entry]
    /\ dedup \in [IdemKeys -> Nat]
    /\ mode \in {"down", "replay", "up"}
    /\ cursor \in 0..Len(log)
    /\ pc \in [Clients -> {"idle", "called", "commit"}]
    /\ req \in [Clients -> Request \cup {NoRequest}]
    /\ acks \subseteq [pos : Nat, idem : IdemKeys \cup {NoIdem}]
    /\ cas \subseteq [pos : Nat, expected : Nat, at : Nat]

Init ==
    /\ faults \in FaultSets
    /\ now = 0
    /\ log = <<>> /\ synced = 0 /\ broken = FALSE
    /\ index = EmptyIndex /\ dedup = EmptyDedup
    /\ mode = "up" /\ cursor = 0
    /\ pc = [c \in Clients |-> "idle"]
    /\ req = [c \in Clients |-> NoRequest]
    /\ acks = {} /\ cas = {}

Tick ==
    /\ "clock" \in faults
    /\ now < MaxTime
    /\ now' = now + 1
    /\ UNCHANGED <<faults, logVars, index, dedup, mode, cursor, pc, req, histVars>>

-----------------------------------------------------------------------------
(* Mutations. *)

(* The absolute expiry, taken from the clock before e.mu is. *)
ExpiresAt(ttl) == IF ttl > 0 THEN now + ttl ELSE 0

Call(c, r) ==
    /\ mode = "up"
    /\ pc[c] = "idle"
    /\ Len(log) + Cardinality({d \in Clients : pc[d] = "called"}) < MaxLog
    /\ pc' = [pc EXCEPT ![c] = "called"]
    /\ req' = [req EXCEPT ![c] = r]
    /\ UNCHANGED <<faults, now, logVars, index, dedup, mode, cursor, histVars>>

CallPut(c) ==
    \E k \in Keys, v \in Values, t \in TTLs, i \in IdemKeys \cup {NoIdem} :
       Call(c, [op |-> "put",
                rec |-> [idem |-> i, kind |-> "put", key |-> k, val |-> v,
                         exp |-> ExpiresAt(t)],
                expected |-> 0])

CallDelete(c) ==
    \E k \in Keys, i \in IdemKeys \cup {NoIdem} :
       Call(c, [op |-> "delete",
                rec |-> [idem |-> i, kind |-> "delete", key |-> k, val |-> NoValue,
                         exp |-> 0],
                expected |-> 0])

CallCompareAndSet(c) ==
    \E k \in Keys, v \in Values, t \in TTLs, i \in IdemKeys \cup {NoIdem},
       e \in 0..Len(log) :
       Call(c, [op |-> "cas",
                rec |-> [idem |-> i, kind |-> "put", key |-> k, val |-> v,
                         exp |-> ExpiresAt(t)],
                expected |-> e])

MuFree == \A c \in Clients : pc[c] # "commit"

(* c has called, and gets e.mu. *)
Locks(c) == mode = "up" /\ pc[c] = "called" /\ MuFree

Return(c) ==
    /\ pc' = [pc EXCEPT ![c] = "idle"]
    /\ req' = [req EXCEPT ![c] = NoRequest]

(* A remembered idempotency key answers the call. *)
AnswerFromDedup(c) ==
    /\ Locks(c)
    /\ Deduplicated(dedup, req[c].rec.idem)
    /\ acks' = acks \cup {[pos |-> dedup[req[c].rec.idem], idem |-> req[c].rec.idem]}
    /\ Return(c)
    /\ UNCHANGED <<faults, now, logVars, index, dedup, mode, cursor, cas>>

CasHolds(c) ==
    req[c].op = "cas" =>
       LiveVersion(index, req[c].rec.key, now) = req[c].expected

RejectVersion(c) ==
    /\ Locks(c)
    /\ ~Deduplicated(dedup, req[c].rec.idem)
    /\ ~CasHolds(c)
    /\ Return(c)
    /\ UNCHANGED <<faults, now, logVars, index, dedup, mode, cursor, histVars>>

(* The record is flushed to the file and the fsync begins. *)
BeginCommitNoDedup(c) ==
    /\ Locks(c)
    /\ CasHolds(c)
    /\ ~broken
    /\ log' = Append(log, req[c].rec)
    /\ pc' = [pc EXCEPT ![c] = "commit"]
    /\ UNCHANGED <<faults, now, synced, broken, index, dedup, mode, cursor, req, histVars>>

BeginCommit(c) ==
    /\ Locks(c)
    /\ ~Deduplicated(dedup, req[c].rec.idem)
    /\ CasHolds(c)
    /\ ~broken
    /\ log' = Append(log, req[c].rec)
    /\ pc' = [pc EXCEPT ![c] = "commit"]
    /\ UNCHANGED <<faults, now, synced, broken, index, dedup, mode, cursor, req, histVars>>

(* The write fails: less than the record is in the file, and the log is of no
   more use to this process. *)
CommitWriteError(c) ==
    /\ Locks(c)
    /\ ~Deduplicated(dedup, req[c].rec.idem)
    /\ CasHolds(c)
    /\ broken \/ "write" \in faults
    /\ broken' = TRUE
    /\ Return(c)
    /\ UNCHANGED <<faults, now, log, synced, index, dedup, mode, cursor, histVars>>

(* Append returns the position: index and dedup follow, and e.mu is released. *)
CommitSyncsNext(c) ==
    /\ pc[c] = "commit"
    /\ synced' = Len(log) + 1
    /\ index' = ReplayIndex(index, Len(log), req[c].rec)
    /\ dedup' = ReplayDedup(dedup, Len(log), req[c].rec)
    /\ acks' = acks \cup {[pos |-> Len(log), idem |-> req[c].rec.idem]}
    /\ cas' = IF req[c].op # "cas" THEN cas
              ELSE cas \cup {[pos |-> Len(log), expected |-> req[c].expected, at |-> now]}
    /\ Return(c)
    /\ UNCHANGED <<faults, now, log, broken, mode, cursor>>

Commit(c) ==
    /\ pc[c] = "commit"
    /\ synced' = Len(log)
    /\ index' = ReplayIndex(index, Len(log), req[c].rec)
    /\ dedup' = ReplayDedup(dedup, Len(log), req[c].rec)
    /\ acks' = acks \cup {[pos |-> Len(log), idem |-> req[c].rec.idem]}
    /\ cas' = IF req[c].op # "cas" THEN cas
              ELSE cas \cup {[pos |-> Len(log), expected |-> req[c].expected, at |-> now]}
    /\ Return(c)
    /\ UNCHANGED <<faults, now, log, broken, mode, cursor>>

(* Append returns an error; the record stays in the file. *)
CommitSyncErrorIgnored(c) ==
    /\ "sync" \in faults
    /\ pc[c] = "commit"
    /\ index' = ReplayIndex(index, Len(log), req[c].rec)
    /\ dedup' = ReplayDedup(dedup, Len(log), req[c].rec)
    /\ Return(c)
    /\ UNCHANGED <<faults, now, logVars, mode, cursor, histVars>>

CommitSyncError(c) ==
    /\ "sync" \in faults
    /\ pc[c] = "commit"
    /\ Return(c)
    /\ UNCHANGED <<faults, now, logVars, index, dedup, mode, cursor, histVars>>

-----------------------------------------------------------------------------
(* Reset: close the log, remove the file, open a new one, forget the rest.
   The wiped history is of no more concern. *)
Reset ==
    /\ "wipe" \in faults
    /\ mode = "up" /\ MuFree /\ ~broken
    /\ log' = <<>> /\ synced' = 0
    /\ index' = EmptyIndex /\ dedup' = EmptyDedup
    /\ cursor' = 0
    /\ acks' = {} /\ cas' = {}
    /\ UNCHANGED <<faults, now, broken, mode, pc, req>>

(* Remove fails: the file is still there, but the log is closed for good. *)
ResetRemoveError ==
    /\ "remove" \in faults
    /\ mode = "up" /\ MuFree /\ ~broken
    /\ broken' = TRUE
    /\ UNCHANGED <<faults, now, log, synced, index, dedup, mode, cursor, pc, req, histVars>>

(* Open fails: the file is gone too, and index and dedup are as they were. *)
ResetOpenError ==
    /\ "reopen" \in faults
    /\ mode = "up" /\ MuFree /\ ~broken
    /\ broken' = TRUE
    /\ log' = <<>> /\ synced' = 0
    /\ cursor' = 0
    /\ acks' = {} /\ cas' = {}
    /\ UNCHANGED <<faults, now, index, dedup, mode, pc, req>>

-----------------------------------------------------------------------------
(* Crashes and recovery. *)

Stop ==
    /\ mode' = "down"
    /\ broken' = FALSE
    /\ index' = EmptyIndex /\ dedup' = EmptyDedup
    /\ cursor' = 0
    /\ pc' = [c \in Clients |-> "idle"]
    /\ req' = [c \in Clients |-> NoRequest]
    /\ UNCHANGED <<faults, now, histVars>>

ProcessCrash ==
    /\ "process" \in faults
    /\ mode # "down"
    /\ UNCHANGED <<log, synced>>
    /\ Stop

PowerLoss ==
    /\ "power" \in faults
    /\ \E n \in synced..Len(log) : log' = SubSeq(log, 1, n) /\ synced' = n
    /\ Stop

Open ==
    /\ mode = "down"
    /\ mode' = "replay"
    /\ UNCHANGED <<faults, now, logVars, index, dedup, cursor, pc, req, histVars>>

(* recover_ hands the next record to Engine.replay. *)
ReplayIndexOnly ==
    /\ mode = "replay"
    /\ cursor < Len(log)
    /\ cursor' = cursor + 1
    /\ index' = ReplayIndex(index, cursor', log[cursor'])
    /\ UNCHANGED <<faults, now, logVars, dedup, mode, pc, req, histVars>>

Replay ==
    /\ mode = "replay"
    /\ cursor < Len(log)
    /\ cursor' = cursor + 1
    /\ index' = ReplayIndex(index, cursor', log[cursor'])
    /\ dedup' = ReplayDedup(dedup, cursor', log[cursor'])
    /\ UNCHANGED <<faults, now, logVars, mode, pc, req, histVars>>

OpenDone ==
    /\ mode = "replay"
    /\ cursor = Len(log)
    /\ mode' = "up"
    /\ UNCHANGED <<faults, now, logVars, index, dedup, cursor, pc, req, histVars>>

-----------------------------------------------------------------------------
Mutate(c) ==
    \/ AnswerFromDedup(c) \/ RejectVersion(c) \/ BeginCommit(c)
    \/ CommitWriteError(c) \/ Commit(c) \/ CommitSyncError(c)

Next ==
    \/ Tick
    \/ \E c \in Clients :
          CallPut(c) \/ CallDelete(c) \/ CallCompareAndSet(c) \/ Mutate(c)
    \/ Reset \/ ResetRemoveError \/ ResetOpenError
    \/ ProcessCrash \/ PowerLoss \/ Open \/ Replay \/ OpenDone

Spec == Init /\ [][Next]_vars

-----------------------------------------------------------------------------
(* Properties. *)

(* The positions of the first n records that concern key k. *)
Touching(k, n) == {p \in 1..n : log[p].key = k}

(* What the change stream says about k after its first n records. *)
LastWrite(k, n) ==
    IF Touching(k, n) = {} THEN Absent
    ELSE LET p == CHOOSE q \in Touching(k, n) : \A o \in Touching(k, n) : o <= q
         IN IF log[p].kind = "delete" THEN Absent
            ELSE [val |-> log[p].val, version |-> p, exp |-> log[p].exp]

(* How many records the index must reflect. *)
Reflected ==
    IF mode = "up" THEN IF MuFree THEN Len(log) ELSE Len(log) - 1 ELSE cursor

(* State and change stream cannot diverge (engine.go:275-279, TR-002), unless an
   fsync fails: the index is, key by key, the last write of the log, and dedup
   has exactly the positions of the keyed records, while a commit is under way,
   after a crash and at each step of the replay; only a Reset whose Open failed,
   after which the file is gone and takes no more writes, is excepted. *)
StateMatchesStream ==
    "sync" \notin faults /\ ~("reopen" \in faults /\ broken /\ log = <<>>) =>
    /\ \A k \in Keys : index[k] = LastWrite(k, Reflected)
    /\ \A i \in IdemKeys, p \in 1..Reflected : log[p].idem = i <=> dedup[i] = p

(* A retry with the same idempotency key commits nothing more (TR-003): the log
   has at most one record per idempotency key, across crashes and restarts. *)
OncePerKey ==
    \A p, q \in 1..Len(log) :
       log[p].idem # NoIdem /\ log[p].idem = log[q].idem => p = q

(* As long as no fsync fails, a retry with the same idempotency key commits
   nothing more, whatever else does (engine.go:150). *)
CommittedOnce == "sync" \notin faults => OncePerKey

(* A commit of CompareAndSet overwrote the very version it expected
   (engine.go:212), unless an fsync failed: nothing else touched the key in
   between, or the key had no live value for expectedVersion 0. *)
NoLostUpdate ==
    "sync" \notin faults =>
    \A h \in cas :
       LET before == Touching(log[h.pos].key, h.pos - 1)
       IN IF h.expected > 0
          THEN /\ h.expected \in before
               /\ \A p \in before : p <= h.expected
               /\ log[h.expected].kind = "put"
          ELSE \/ before = {}
               \/ \E p \in before :
                     /\ \A q \in before : q <= p
                     /\ \/ log[p].kind = "delete"
                        \/ log[p].exp > 0 /\ log[p].exp < h.at

(* An outcome a caller got, for a commit of its own or through dedup, names a
   durable record, whatever failed before or since, short of a process that
   dies before a fsync and replays the record, and of a Reset that loses the log
   and keeps what it remembers ("No acknowledged loss",
   TECHNICAL_REQUIREMENTS.md:55). *)
AckedSurvives ==
    faults \cap {"process", "reopen"} = {} =>
    \A a \in acks : a.pos <= synced /\ log[a.pos].idem = a.idem

(* "committing atomically to the WAL before making the mutation visible in
   the index" (engine.go:123), under the same condition: what Get can return
   is durable. *)
VisibleIsDurable ==
    faults \cap {"process", "reopen"} = {} /\ mode = "up" =>
       \A k \in Keys : index[k].version <= synced

(* The last record of the log that carries idempotency key i, or 0: what a replay
   leaves in dedup. *)
LastOutcome(i) ==
    LET keyed == {p \in 1..Len(log) : log[p].idem = i}
    IN IF keyed = {} THEN 0 ELSE CHOOSE p \in keyed : \A q \in keyed : q <= p

(* The records of the log whose mutations are over. *)
Settled == IF mode = "up" /\ ~MuFree THEN Len(log) - 1 ELSE Len(log)

(* The engine as a key-value store: index and dedup, or, between a crash and the
   end of the replay, what the log says of them. *)
Entries == IF mode = "up" THEN index ELSE [k \in Keys |-> LastWrite(k, Len(log))]
Outcomes == IF mode = "up" THEN dedup ELSE [i \in IdemKeys |-> LastOutcome(i)]

Store == INSTANCE KeyValue WITH last <- Settled, entries <- Entries, outcomes <- Outcomes

(* No fsync and no reopening fails, and a machine that loses power had no process
   that died before and replayed a record whose fsync was still to come. *)
Regular ==
    /\ faults \cap {"sync", "reopen"} = {}
    /\ ~({"process", "power"} \subseteq faults)

(* Callers see a store whose mutations are atomic, although each takes a check, an
   append, an fsync and two map updates, and a crash between them leaves the replay
   to finish it (engine.go:57-101, 146-273): what a conditional write compared is
   what it replaces, a mutation that returned an error has no effect, then or after
   a restart, one cut off by a crash has all of its effect or none, and the restart
   brings back every entry with its version and every remembered outcome. *)
ImplementsKeyValue == Store!Init /\ [][Regular => Store!Next]_(Store!vars)
=============================================================================
