# A TLA+ model of the unified distributed data platform

This directory specifies the stateful parts of the platform in TLA+, checks them
with TLC on small instances, and proves nearly every safety property that the runs
check with TLAPS, for instances of every size.

## The system

| Part | Source | State | Interacts with |
|---|---|---|---|
| Write-ahead log | `internal/wal` | file, buffer, group-commit counters | callers of `Append`, readers, `Close`, the operating system |
| Engine | `internal/engine` | `index`, `dedup`, a WAL | clients, through `e.mu`; `Fetch` reads its WAL without `e.mu` |
| Consumer offsets | `internal/streaming` | one offset per group, a WAL of its own | `StreamServer` |
| Replication | `internal/replication` | raft log (hashicorp/raft), FSM over the engine | the engine of each node |
| Backup | `internal/backup` | files | `AdminServer`, the engine |
| APIs, authentication, catalog, metrics | `internal/api`, `auth`, `catalog`, `observability` | a gauge and a counter | engine, offsets, raft |
| Redis adapter | `internal/resp` | a connection's pipeline | the engine, directly |
| Node process | `cmd/uddp-node` | what is open, deferred closes, the signal | all of the above |
| Clients | `cmd/uddpctl`, `cmd/uddp-bench` | none | the APIs |

A mutation goes through an API to the engine (single node), or through raft to
the FSM and then to the engine of every node. The engine appends one record to
its WAL, which is also the change stream: consumers read it with `Fetch` and
keep their progress in the offset store. Operators take backups of the entries,
restore them, wipe the namespace and change the membership.

`PROJECT.json` lists every component with its status, the hazards found while
reading the code, and the source lines each definition stands for.

## Modules

**`WAL`** models `internal/wal`. One action is one stretch of code between two
points where `mu` is free: `AppendFollow`, `AppendLead` and the `Sync...` actions
are `Append` cut at `file.Sync` and `cond.Wait`. Bytes become whole records:
`written` is how many are in the file, `synced` how many survive a power loss.
`Faults` says what the operating system may do: `write`, `sync`, `drop` (a failed
fsync discards its pages), `power`, `corrupt`. A process crash is always possible.
**`DurableLog`** is what a WAL promises: records are accepted, acknowledged, and
lost only from the end and only when nobody was told of them. `WAL` refines it
(`Implements`).

**`EngineState`** has the data of the engine and the effect of one record.
**`Engine`** models `internal/engine` on one node. A mutation is `Call...` (the TTL
is resolved before the lock), then under `e.mu` an answer from dedup, a version
mismatch, or `BeginCommit` (the record is in the file) and `Commit` or an error.
`e.mu` is held across `Append`, so the WAL has one caller and is reduced to
`log`, `synced` and `broken` (the sticky write error). Recovery replays record by
record. **`KeyValue`** is what a partition promises its callers, without log, lock,
fsync or replay: a map with versions and remembered outcomes, on which a request
takes effect at one instant, a refused one never, and one that a crash cuts off
entirely or not at all. `Engine` implements it with its `index` and `dedup`
(`ImplementsKeyValue`), and, from a crash to the end of the replay, with what the
log says of them.

**`ChangeStream`** composes the engine's log, the offset store with its own log,
and the members of one consumer group. Consumers are not part of the repository;
they follow the protocol `stream.proto` is made for. Groups share nothing but the
offset file, so one group is enough.

**`Replication`** composes the engines of several nodes, the committed raft
sequence (external), the API calls that propose to it, membership calls and FSM
snapshots. An apply is atomic, which `Engine` justifies. `file` is what a replay of a
node's log yields. It differs from the engine after a failed fsync (the record is in
the file only) and after a failed `Reset`; a failed write leaves a log that takes no
more writes (`broken`). A restart takes the engine from the file and gives it the
raft sequence from the beginning, as snapshots are configured away
(`node.go:64-71`).

**`Backup`** models `internal/backup` and the three admin calls that use it, on a
node without raft, step by step: `CreateBackup` reads the entries, then the commit
position, creates the file exclusively, writes, fsyncs; `RestoreBackup` reads with
all checks, resets, puts entry by entry; `DeleteNamespace` resets. `next` is the
position the next record gets, one less than which is the recovery point; a write
that fails has taken a position too. The checksum is over an encoding that depends on
which types the process has encoded first, so it carries that numbering.

**`Api`** has the requests, what the node can tell of `uddpctl`'s command lines, and
the checks of interceptors and handlers; calls to unknown methods and requests that
cannot be decoded are answered before either. **`Resp`** has the framing and dispatch
of the Redis adapter, with null bulk strings, and headers that announce more than can
be allocated, which panic. **`Node`** composes them in one process: `run()` step by step with every
step that can fail, the deferred closes, the signal goroutine, calls on their way
through metrics, token check and handler, raft as a queue that applies or loses,
one Redis connection with its pipeline.

`MC...` modules give TLC its settings and symmetry sets; `...Proofs`, `NodeAnswers`
and `ReplicationAgreement` have the proofs. Operators that no action uses are faulty
variants of the one that follows them; `PROJECT.json` lists each under `mutants`,
with the property that catches it.

Most modules take a set of fault sets (`FaultSets`) or of `Settings`, and a
behaviour picks one of them at the start and keeps it. The condition under which a
property holds is part of the property: `NothingSkipped`, for instance, begins with
`faults \cap {"power", "wipe"} = {}`.

## Runs

Passing runs:

| Run | What it shows |
|---|---|
| `wal_commit` | acknowledged records are durable, no follower is orphaned, no file is closed under an fsync, positions have no gap, and the WAL implements `DurableLog` |
| `wal_live` | `Append` and `Close` return; what was read stays at its position while the power stays on |
| `engine_commit` | index and dedup are at every step what the log says; one commit per idempotency key; no lost update across an expiry; what a caller was told and a reader sees is durable when the disk fails; mutations are atomic, as `KeyValue` says, through crashes and replays |
| `stream_delivery` | nothing below a group's committed offset was skipped, an offset never goes back, and without faults everything is processed in the end |
| `replication_agree` | replicas agree, a retry gets the first answer, a keyed command is in a replica once, also when its disk failed and the command came again after a restart, a node that was added is listed, a snapshot carries all live entries |
| `backup_files` | a reported backup can be restored, a restore loads a whole backup or fails and leaves exactly its entries, and a recovery point is never behind the entries |
| `node_serve` | stores are closed last, clients and the Redis client are told what the log says, every answer of a call that reached the interceptors is counted, only negative offsets panic in `Fetch`, and a signal ends the process |

Five runs find a violation. Each has an entry under `findings` in
`PROJECT.json`, with the sentence of the repository it contradicts:

| Run | What happens |
|---|---|
| `engine_retry` | an fsync fails, the record stays in the log, and the retry commits it a second time |
| `stream_power` | a consumer is given a record that is not durable and commits an offset behind it; after a power loss the record that takes its position is never delivered |
| `replication_unkeyed` | a restarted node applies the raft log a second time to the engine it recovered |
| `backup_point` | a client writes between `Snapshot` and `LastCommitPosition`, and the recovery point covers a write the backup has not got |
| `node_gauge` | the handler of an older commit, or of a retry, sets the commit-position gauge back |

Some properties have a condition. Without it TLC reports a violation, given a fault
set or a setting that has what the condition excludes. For several rows the run has no
such set, or only with another excluded fault in it, and one has to be added: those of
`reopen`, `power`, `wipe`, `process` with `power`, `write`, `sync`, `reset` and `resp`,
and that of `snapshot`, which needs idempotency keys. Each violation is what the code
does, and the reason for the condition:

| Property | Without the condition on | Why |
|---|---|---|
| `AckedDurable` | `drop` (not in `Faults`) | the WAL is used on after a failed fsync whose pages are gone (`wal.go:391`) |
| `StateMatchesStream`, `CommittedOnce`, `NoLostUpdate` | `sync` | after a failed fsync the record is in the log and not in the state (`engine.go:164`) |
| `AckedSurvives`, `VisibleIsDurable` | `process` | a replayed record that was never fsynced is visible, and answers retries (`engine.go:67`); a power loss then takes it |
| `AckedSurvives`, `VisibleIsDurable` | `reopen` | a `Reset` that fails half way has lost the log and keeps index and dedup (`StateMatchesStream` excepts the broken, empty log it leaves) |
| `ImplementsKeyValue` | `sync` | a mutation that returned an error has its effect after a restart |
| `ImplementsKeyValue` | `reopen` | a `Reset` that fails half way keeps entries that the restart loses |
| `ImplementsKeyValue` | `process` with `power` | a replayed record was served before it was durable, and the power loss takes it |
| `NothingSkipped` | `power`, `wipe` | offsets outlive the records they point to (`admin_server.go:170`) |
| `OffsetsDoNotRollBack` | `process` with `power` | an offset that was never fsynced is shown after a crash, and then lost (`offsets.go:32`) |
| `ReplicasAgree` | keyed `cas` with `restart` | a rejected `CompareAndSet` is not remembered, and can succeed when it is applied again |
| `ReplicasAgree` | `cas` with `clock` | `CompareAndSet` consults the local clock (`engine.go:239`) |
| `ReplicasAgree` | `resp` | RESP writes bypass raft (`main.go:250`) |
| `ReplicasAgree` | `write`, `sync`, `reset` | one replica skips a command its disk refused (`fsm.go:58`) |
| `AnswersAgree` | `snapshot` | a snapshot has no remembered outcomes |
| `KeyedOnce` | `sync` | the record of a failed fsync is in the file, and its outcome is not remembered |
| `KeyedOnce` | `load`, `snapshot`, `resp`, requests without a key | these write records without a key |
| `AckedIsRestorable` | `dirent` | the directory is not fsynced after the file is created |
| `AckedIsRestorable` | `corrupt` | damage is detected, not repaired |
| `AckedIsRestorable` | `leader` | the checksum of a process that has led is not the one a fresh process computes |
| `ClosedInOrder` | a failed bootstrap | `replication.Open` returns without stopping the raft it has started (`node.go:118-120`) |
| `AnswersCounted` | a panic | the process ends between the count and the answer of other calls |
| `ShutdownCompletes` | `Watch` | `GracefulStop` waits for a watcher of the health service |

Two more facts show in the actions themselves: `ReadEnd` returns records that are
not fsynced (`wal.go:437`), and `OpenRecover` refuses a file whose last record is
whole and corrupt (`wal.go:180`).

Deadlock is not checked: every model may stop, when its bounds are reached or
when the node is closed or refuses to start.

### Bounds

- `wal_commit`: three callers are a leader, a follower its round covers and one it
  does not. Four records allow two rounds, a crash and a record after recovery. Two
  values tell a record from the one that replaces it. `wal_live` adds a reader with
  a limit of 2, and has three records.
- `engine_commit`: two clients race for `e.mu`, on two keys. Three records are a
  write, its overwrite and a third on top. The clock goes to 2 with a TTL of 1:
  before, at and after an expiry. `Call` lets a client in only while the log and the
  waiting calls stay within `MaxLog`.
- `stream_delivery`: two members race for one offset. Batches of 2 over 3 records
  give a full batch, a short one and an empty one; with 3 commits one member commits
  between two of the other.
- `replication_agree`: two nodes are enough to disagree, on one key. Three commands
  are a rejected, an accepted and a later one. The clock goes to 2 with a TTL of 1,
  so that entries expire (`After` is strict) and backups and snapshots leave them
  out. There is one RESP write (`MaxDirect`). A node restarts only while its file has
  at most `MaxPositions` = 3 positions, as each restart may use more. The settings
  in `MCReplication` are retries, restarts, restores, commands missed until a restart,
  RESP writes with failing disks, restores that fail half way, membership and
  compaction.
- `backup_files`: two operators at one path, two keys, so that a part of a backup is
  not the whole. Three records, of which clients write two, and two resets: a wipe
  within a restore. Six fault sets keep apart what multiplies states.
- `node_serve`: two calls under way (three in all for the mutations), `Width` = 3, so
  that offsets 5 to 7 are negative as `int`, and `MaxLength` = 6, longer than any
  request that is meant to be read and shorter than one announced length. `MCNode` has start-up with every failing
  step, alone and with a second one, every combination of peers, profile, namespace
  and TLS flags, and one setting for each kind of traffic.

Callers, values, clients and nodes are symmetric where the cfg says so; runs
that check liveness use no symmetry.

### Fairness

- `wal_live`: a goroutine that can run does, and fsync returns: weak fairness of each
  caller's steps and of a woken closer. The Go scheduler runs every runnable
  goroutine, and `sync.Cond` wakes all that sleep at a `Broadcast`. Nothing is
  assumed of new calls, faults, readers or crashes. Records are bounded, so arrivals
  end; with endless arrivals the leader's loop has no bound, and nothing is claimed.
  A call that a crash cut short counts as returned.
- `stream_delivery`: the fsync of a mutation returns, and members keep polling, which
  is the protocol; `EventuallyProcessed` is for behaviours without faults.
- `node_serve`: `run()`, the signal goroutine, a request's goroutine and the HTTP
  handler run when they can, and raft applies a command or reports it lost.
  Nothing is assumed of clients, signals and the Redis connection.

## Proofs

Every theorem is about all values of the constants that satisfy the assumptions of
its module (`ConstantsAssumption`, `NoFileAssumption` in `Backup`, `LengthAssumption`
in `Resp`): any sets of
callers, keys, nodes, operators, any fault sets or settings, any bounds.

| Module | Theorem | Property |
|---|---|---|
| `WALProofs` | `TypeCorrect`, `DensePositions`, `NoOrphanedWaiter`, `CloseIsSafe` | `TypeOK`, `PositionsDense`, `WaitersHaveALeader`, `CloseExcludesSync` |
| | `AcknowledgedIsDurable`, `ImplementsDurableLog` | `AckedDurable`, `Implements`, if a failed fsync drops no pages |
| | `ReadsAreStable` | `ObservedStable`, if the power stays on |
| `EngineProofs` | `TypeCorrect` | `TypeOK` |
| | `AcknowledgedSurvives`, `VisibleAfterDurable` | `AckedSurvives`, `VisibleIsDurable` |
| | `StreamIsState`, `RetriesCommitOnce`, `UpdatesAreNotLost` | `StateMatchesStream`, `CommittedOnce`, `NoLostUpdate` |
| | `EngineIsKeyValue` | `ImplementsKeyValue` |
| `ChangeStreamProofs` | `TypeCorrect`, `DeliveredAtLeastOnce`, `OffsetsNeverGoBack` | `TypeOK`, `NothingSkipped`, `OffsetsDoNotRollBack` |
| `ReplicationProofs` | `TypeCorrect`, `AddedNodeIsListed`, `KeyedCommandsOnce` | `TypeOK`, `AddedIsListed`, `KeyedOnce` |
| `ReplicationAgreement` | `CaughtUpReplicasAgree`, `RetriesGetTheFirstAnswer`, `SnapshotsCarryContents` | `ReplicasAgree`, `AnswersAgree`, `ContentsAgree` |
| `BackupProofs` | `TypeCorrect`, `PointCoversEntries`, `NoPartIsLoaded` | `TypeOK`, `NothingPastPoint`, `LoadedWasTaken` |
| | `ReportedCanBeRestored`, `RestoreIsComplete` | `AckedIsRestorable`, `RestoredIsBackup` |
| `NodeProofs` | `TypeCorrect`, `StoresCloseLast`, `EveryAnswerCounted`, `OnlyNegativeOffsetsPanic` | `TypeOK`, `ClosedInOrder`, `AnswersCounted`, `FetchInRange` |
| `NodeAnswers` | `AnswersAreTrue`, `RepliesAreTrue` | `AnswersMatchLog`, `RepliesMatchLog` |

Hardly any of these properties is inductive. What has to be added, and why:

**WAL.** `IndInv` adds to `TypeOK`: `OneLeader` (`leading` holds exactly when one
caller is in its fsync), `Quiet` (with no leader every pending record is decided),
`Numbering` (record `i` has position `i`) and `Calls` (the records appended since
`Open` are the last of the log, so each caller's record lies at its position, the
leader's fsync covers what its snapshot says, and a sleeping follower is not covered
yet). `DurableInv` adds `Covered`: what `flushedSeq` covers after a good round is
synced; without it a follower that returns success would have no reason to be
durable. `ReadInv` says that what was read lies in the written part of the file. The
refinement maps `log` and `acked` to themselves: appends accept, a successful return
acknowledges, a crash loses a tail that holds nothing acknowledged, everything else
is a stutter.

**Engine.** `Holding`: one client at most is between `Append` and `Commit`, and the
last record is its. `BelowSynced` extends `AckedSurvives` to `index` and `dedup`,
since dedup answers later callers. `InStep` states `StateMatchesStream` and
`OncePerKey` together, as each needs the other: dedup knows all keyed records, so no
second one is written; there is one record per key, so replay ends with the same
dedup. `Updates` keeps what a `CompareAndSet` found when it took the lock until its
fsync is over, though the clock goes on. The refinement maps the store of `KeyValue`
to `index` and `dedup` while the engine is up, and otherwise to what the log will
yield; its `last` to the records whose mutations are over. `Commit` is `Perform`, an
answer from dedup is `Answer`, mismatches and errors are `Refuse`. A crash is `Crash`,
with the effect of the one commit under way if its record is in the file the crash
leaves; replay is a stutter, because by `InStep` it rebuilds exactly the maps that
were lost. `StoreInv` adds that where only a power loss ends the process, all records
whose mutations are over are synced, so that the loss takes none of them.

**Change stream.** `Vouched`: all offsets a member, the store or the offset log holds
lie behind processed records only, a batch under way counted for its member. With
power losses ruled out this survives late commits and crashed members. `Monotonic`:
whatever replay can find is at least what was shown.

**Replication.** For `ReplicasAgree`, `AgreeInv` says that there is one history `h` of
engines, `h[i]` the effect of command `i` on `h[i - 1]`, and every node is on it: its
engine is `h[j]` for a `j` at or after the command it is at, and what it is given
again up to `j` is deduplicated; or a reset lies ahead, which makes the past
irrelevant. `Remembers` is why a restart is harmless: a state knows every keyed
command since the last reset. `Outcomes` ties the answers to the same history.
`ShowInv` is the like for contents: engines have the same live entries as `h`, and so
has the snapshot. `Listed` says that an added node is a voter in the configuration
the leader reads. `KeyedOnce` is inductive as it stands, given `TypeInv`, which says
that every command in the sequence is of an operation, and has a key, of the setting:
a commit takes the next position for a key that has none in the engine. What takes
work is the file, which a failing disk sets apart from the engine: without failed
fsyncs they differ only while `broken`, when neither changes until the restart.

**Backup.** `Assigned`: every record of the log has a position below `next`, though
positions of failed writes have no record. `Ahead`: a snapshot is not ahead of its log. `Taken`: the checksum of a
file written to its end is that of the entries its writer took, so a file that passes
the check is whole. `Kept`: nobody writes to a file that another is writing or that
was reported (which is what exclusive creation is for), and reported files are on
disk, synced. `Loading`: what a restore has put so far is in the state, for keys
nobody else wrote.

**Node.** `CloseInv`: `defers` is the reverse of what is open, and calls are served
only before `GracefulStop` has returned; a panic leaves nothing open. `CountInv` needs only
`Serving` besides. For
`AnswersMatchLog`, `AnswerInv` follows a call through the server: before its handler
has decided, it has no record and none is on its way through raft; while raft has it,
it is in the queue, once; from then on its answer is settled, which means that no late
apply can still make it untrue. The answer `Unavailable` is the one that promises
nothing, so a lost leader's command may still be applied after it. For
`RepliesMatchLog`, `Pipelined` numbers replies like commands and counts the
tombstones that a `DEL` under way has written.

Everything rests on lemmas in the same modules, one per action, such as
`Least` and `Greatest` (a set of positions has a least and, bounded, a greatest
element) and `Appending` (what an append leaves alone).

A leaf cites `Zenon` where Zenon proves it. `tlapm` keeps in memory what it has
translated for SMT, so a long module that sends it every leaf slows down until
leaves that take a tenth of a second run into their time limit.

Only model-checked:

- `CallsReturn`, `EventuallyProcessed` and `ShutdownCompletes`: liveness under fairness
  is out of the prover's reach;
- that a violation exists: the five runs above.

## Not modelled

The encoding of records, commands and backups beyond what decides whether they are
read, checksums as computations, the TLS handshake, the raft library itself, the
benchmark's workers and statistics, generated message types, flag parsing and output.
Reasons are in `PROJECT.json`.
