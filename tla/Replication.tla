---------------------------- MODULE Replication ----------------------------
(***************************************************************************)
(* internal/replication and its callers: StateServer and AdminServer       *)
(* propose commands to raft, and the FSM of every node applies the         *)
(* committed ones, in order, to the engine of that node.                   *)
(*                                                                         *)
(* raft is external.  It is modelled by what the code relies on: one       *)
(* sequence of committed commands, a leader that may change at any time,   *)
(* and an apply loop per node.  Snapshots are configured away              *)
(* (node.go:64-71), so a node that starts applies the sequence from its    *)
(* beginning, to an engine that has recovered all it had applied before.   *)
(* An engine is what EngineState makes of it: mutations are atomic here,   *)
(* as module Engine shows them to be, and the log file of a node is what a *)
(* replay of it yields, which is what the engine holds until an append or  *)
(* a Reset fails.                                                          *)
(***************************************************************************)
EXTENDS EngineState, Sequences, FiniteSets, Functions

CONSTANTS
    Nodes,
    Settings,       \* what clients, operators and failures do together
    MaxDirect,      \* bound: RESP mutations
    MaxPositions,   \* bound: positions a replica has used when it restarts
    MaxTime         \* bound: the clock

AllOps == {"put", "delete", "cas", "wipe", "load"}

(* "restart": a node's process ends and starts again; "write", "sync", "reset":
   the write or the fsync of an Append, or a Reset, fails in one replica;
   "snapshot": raft hands a replica a snapshot.  Not failures: "resp", clients
   also use the RESP listener; "member", operators change the membership;
   "clock", time passes. *)
DiskFaults == {"write", "sync", "reset"}
AllFaults == DiskFaults \cup {"restart", "snapshot", "resp", "member", "clock"}

(* A setting: the operations in use; values, idempotency keys (or NoIdem) and
   ttl_seconds in requests; a bound on the committed commands; what happens. *)
IsSetting(s) ==
    /\ DOMAIN s = {"ops", "vals", "idems", "ttls", "commands", "faults"}
    /\ s.ops \subseteq AllOps /\ s.vals \subseteq Values
    /\ s.idems \subseteq IdemKeys \cup {NoIdem}
    /\ s.ttls \subseteq Nat /\ s.commands \in Nat
    /\ s.faults \subseteq AllFaults

NoNode == "none"

ASSUME ConstantsAssumption ==
    /\ NoNode \notin Nodes /\ Nodes # {}
    /\ Keys # {} /\ IsFiniteSet(Keys)
    /\ \A s \in Settings : IsSetting(s)
    /\ MaxDirect \in Nat /\ MaxPositions \in Nat /\ MaxTime \in Nat

VARIABLES
    setting,        \* the setting of this behaviour
    now,            \* the clock of every node
    leader,         \* the raft leader, or NoNode
    clog,           \* the commands raft has committed
    applied,        \* per node: how many of them its FSM was given
    eng,            \* per node: its engine
    pending,        \* per node: index of the command its API waits for, or 0
    backup,         \* the entries of the last backup file
    snapshot,       \* the last FSM snapshot: how many commands it covers, entries
    file,           \* per node: what a replay of its log file yields
    broken,         \* nodes whose log takes no more writes
    voters,         \* the committed raft configuration
    halted,         \* nodes whose raft shut itself down
    known,          \* per node: the latest configuration it has
    admin,          \* per node: its membership call
    direct,         \* RESP mutations so far
    answers         \* history: position reported for each idempotency key

fileVars == <<backup, snapshot, file, broken>>
memberVars == <<voters, halted, known, admin>>
vars == <<setting, now, leader, clog, applied, eng, pending, fileVars,
          memberVars, direct, answers>>

SnapshotEntry == [key : Keys, val : Values, exp : Nat]

Command ==
    [op : AllOps, key : Keys, val : Values \cup {NoValue}, exp : Nat,
     expected : Nat, idem : IdemKeys \cup {NoIdem}, entries : Seq(SnapshotEntry)]

EngineStates ==
    [index : [Keys -> Entry], dedup : [IdemKeys -> Nat], last : Nat]

TypeOK ==
    /\ setting \in Settings
    /\ now \in Nat
    /\ leader \in Nodes \cup {NoNode}
    /\ clog \in Seq(Command)
    /\ applied \in [Nodes -> 0..Len(clog)]
    /\ eng \in [Nodes -> EngineStates]
    /\ pending \in [Nodes -> 0..Len(clog)]
    /\ \A n \in Nodes : pending[n] # 0 => pending[n] > applied[n]
    /\ backup \in Seq(SnapshotEntry)
    /\ snapshot \in [index : 0..Len(clog), entries : Seq(SnapshotEntry)]
    /\ file \in [Nodes -> EngineStates]
    /\ broken \subseteq Nodes
    /\ voters \in (SUBSET Nodes) \ {{}}
    /\ halted \subseteq Nodes
    /\ known \in [Nodes -> SUBSET Nodes]
    /\ admin \in [Nodes -> [step : {"idle", "config", "leader"},
                            added : SUBSET Nodes, members : SUBSET Nodes]]
    /\ direct \in Nat
    /\ answers \subseteq [idem : IdemKeys, pos : Nat]

NewEngine == [index |-> EmptyIndex, dedup |-> EmptyDedup, last |-> 0]

NoCall == [step |-> "idle", added |-> {}, members |-> {}]

(* BootstrapCluster gives the first configuration. *)
Init ==
    /\ setting \in Settings
    /\ voters \in IF "member" \in setting.faults THEN (SUBSET Nodes) \ {{}} ELSE {Nodes}
    /\ halted = {}
    /\ known = [n \in Nodes |-> IF n \in voters THEN voters ELSE {}]
    /\ admin = [n \in Nodes |-> NoCall]
    /\ snapshot = [index |-> 0, entries |-> <<>>]
    /\ now = 0
    /\ leader = NoNode
    /\ clog = <<>>
    /\ applied = [n \in Nodes |-> 0]
    /\ eng = [n \in Nodes |-> NewEngine]
    /\ file = eng /\ broken = {}
    /\ pending = [n \in Nodes |-> 0]
    /\ backup = <<>>
    /\ direct = 0
    /\ answers = {}

Tick ==
    /\ "clock" \in setting.faults
    /\ now < MaxTime
    /\ now' = now + 1
    /\ UNCHANGED <<setting, leader, clog, applied, eng, pending, fileVars, memberVars, direct, answers>>

-----------------------------------------------------------------------------
(* What an engine makes of a mutation. *)

CommitRecord(e, r) ==
    [index |-> ReplayIndex(e.index, e.last + 1, r),
     dedup |-> ReplayDedup(e.dedup, e.last + 1, r),
     last |-> e.last + 1]

RecordOf(cmd) ==
    [kind |-> IF cmd.op = "delete" THEN "delete" ELSE "put",
     key |-> cmd.key, val |-> cmd.val, exp |-> cmd.exp, idem |-> cmd.idem]

(* ApplyPut, Delete and ApplyCompareAndSet. *)
MutatesIgnoringDedup(e, cmd) ==
    cmd.op = "cas" => LiveVersion(e.index, cmd.key, now) = cmd.expected

Mutates(e, cmd) ==
    /\ ~Deduplicated(e.dedup, cmd.idem)
    /\ cmd.op = "cas" => LiveVersion(e.index, cmd.key, now) = cmd.expected

(* Reset, then an ApplyPut for each entry, without idempotency key. *)
Loaded(entries) ==
    [NewEngine EXCEPT !.last = Len(entries),
                      !.index = [k \in Keys |->
        IF \E i \in 1..Len(entries) : entries[i].key = k
        THEN LET i == CHOOSE j \in 1..Len(entries) : entries[j].key = k
             IN [val |-> entries[i].val, version |-> i, exp |-> entries[i].exp]
        ELSE Absent]]

(* FSM.Apply: what it makes of the engine e, and of the file f of e's log. *)
ApplyCommand(e, cmd) ==
    CASE cmd.op = "wipe" -> NewEngine
      [] cmd.op = "load" -> Loaded(cmd.entries)
      [] OTHER -> IF Mutates(e, cmd) THEN CommitRecord(e, RecordOf(cmd)) ELSE e

ApplyToFile(f, e, cmd) ==
    CASE cmd.op = "wipe" -> NewEngine
      [] cmd.op = "load" -> Loaded(cmd.entries)
      [] OTHER -> IF Mutates(e, cmd) THEN CommitRecord(f, RecordOf(cmd)) ELSE f

(* The command needs the log: Append, or Reset, which closes it first. *)
NeedsLog(e, cmd) == cmd.op \in {"wipe", "load"} \/ Mutates(e, cmd)

(* Append fails for record r of node n.  A write that fails fails for good; with
   the fsync, the record stays in the file, and its position is taken. *)
AppendFails(n, r) ==
    \/ /\ n \in broken \/ "write" \in setting.faults
       /\ broken' = broken \cup {n}
       /\ UNCHANGED <<eng, file>>
    \/ /\ n \notin broken /\ "sync" \in setting.faults
       /\ eng' = [eng EXCEPT ![n].last = @ + 1]
       /\ file' = [file EXCEPT ![n] = CommitRecord(@, r)]
       /\ UNCHANGED broken

(* Reset fails: Close or Remove, and the log is closed for good, or Open, and
   the file is gone too. *)
ResetFails(n) ==
    /\ n \in broken \/ "reset" \in setting.faults
    /\ broken' = broken \cup {n}
    /\ \/ UNCHANGED file
       \/ n \notin broken /\ file' = [file EXCEPT ![n] = NewEngine]
    /\ UNCHANGED eng

(* Reset or one of the ApplyPuts fails; what was put before stays. *)
LoadFails(n, entries) ==
    \/ ResetFails(n)
    \/ /\ n \notin broken
       /\ \E i \in 1..Len(entries) :
             LET put == Loaded(SubSeq(entries, 1, i - 1))
             IN \/ /\ "write" \in setting.faults
                   /\ eng' = [eng EXCEPT ![n] = put]
                   /\ file' = [file EXCEPT ![n] = put]
                   /\ broken' = broken \cup {n}
                \/ /\ "sync" \in setting.faults
                   /\ eng' = [eng EXCEPT ![n] = [put EXCEPT !.last = i]]
                   /\ file' = [file EXCEPT ![n] = Loaded(SubSeq(entries, 1, i))]
                   /\ UNCHANGED broken

-----------------------------------------------------------------------------
(* Proposals. *)

(* n gets what the leader sends. *)
Follows(n) == n \in voters \ halted

NewLeader(n) ==
    /\ leader # n /\ Follows(n)
    /\ leader' = n
    /\ UNCHANGED <<setting, now, clog, applied, eng, pending, fileVars, memberVars, direct, answers>>

(* Node.Propose, up to the commit: the caller waits for the local apply. *)
Propose(n, cmd) ==
    /\ leader = n
    /\ pending[n] = 0
    /\ Len(clog) < setting.commands
    /\ clog' = Append(clog, cmd)
    /\ pending' = [pending EXCEPT ![n] = Len(clog')]
    /\ UNCHANGED <<setting, now, leader, applied, eng, fileVars, memberVars, direct, answers>>

(* The future fails while the command may be, and here is, committed: the
   client is told Unavailable and is free to send its request again. *)
ProposeLost(n) ==
    /\ pending[n] # 0
    /\ pending' = [pending EXCEPT ![n] = 0]
    /\ UNCHANGED <<setting, now, leader, clog, applied, eng, fileVars, memberVars, direct, answers>>

resolveExpiry(ttl) == IF ttl <= 0 THEN 0 ELSE now + ttl

Put(n) ==
    \E k \in Keys, v \in setting.vals, t \in setting.ttls, i \in setting.idems :
       /\ "put" \in setting.ops
       /\ Propose(n, [op |-> "put", key |-> k, val |-> v, exp |-> resolveExpiry(t),
                      expected |-> 0, idem |-> i, entries |-> <<>>])

Delete(n) ==
    \E k \in Keys, i \in setting.idems :
       /\ "delete" \in setting.ops
       /\ Propose(n, [op |-> "delete", key |-> k, val |-> NoValue, exp |-> 0,
                      expected |-> 0, idem |-> i, entries |-> <<>>])

(* The expected version is one that some replica may have shown. *)
CompareAndSet(n) ==
    \E k \in Keys, v \in setting.vals, t \in setting.ttls, i \in setting.idems, x \in 0..setting.commands :
       /\ "cas" \in setting.ops
       /\ Propose(n, [op |-> "cas", key |-> k, val |-> v, exp |-> resolveExpiry(t),
                      expected |-> x, idem |-> i, entries |-> <<>>])

AdminCommand(op, entries) ==
    [op |-> op, key |-> CHOOSE k \in Keys : TRUE, val |-> NoValue, exp |-> 0,
     expected |-> 0, idem |-> NoIdem, entries |-> entries]

DeleteNamespace(n) ==
    /\ "wipe" \in setting.ops
    /\ Propose(n, AdminCommand("wipe", <<>>))

(* Engine.Snapshot: the live entries, in the order the map yields them. *)
Live(e) == {k \in Keys : e.index[k].version > 0 /\ ~Expired(e.index[k], now)}

EngineSnapshots(e) ==
    {[i \in DOMAIN order |-> [key |-> order[i], val |-> e.index[order[i]].val,
                              exp |-> e.index[order[i]].exp]] :
        order \in Bijection(1..Cardinality(Live(e)), Live(e))}

CreateBackup(n) ==
    /\ "load" \in setting.ops
    /\ backup' \in EngineSnapshots(eng[n])
    /\ UNCHANGED <<setting, now, leader, clog, applied, eng, pending, snapshot,
                   file, broken, memberVars, direct, answers>>

RestoreBackup(n) ==
    /\ "load" \in setting.ops
    /\ Propose(n, AdminCommand("load", backup))

-----------------------------------------------------------------------------
(* Replicas. *)

(* What the proposer is told: the position of a keyed mutation that succeeds. *)
Answer(n, cmd) ==
    IF pending[n] = applied[n] + 1 /\ cmd.idem # NoIdem
       /\ ApplyCommand(eng[n], cmd).dedup[cmd.idem] # 0
    THEN {[idem |-> cmd.idem, pos |-> ApplyCommand(eng[n], cmd).dedup[cmd.idem]]}
    ELSE {}

GivenKeepsPending(n) ==
    /\ Follows(n)
    /\ applied[n] < Len(clog)
    /\ applied' = [applied EXCEPT ![n] = @ + 1]
    /\ pending' = pending

Given(n) ==
    /\ Follows(n)
    /\ applied[n] < Len(clog)
    /\ applied' = [applied EXCEPT ![n] = @ + 1]
    /\ pending' = [pending EXCEPT ![n] = IF @ = applied[n] + 1 THEN 0 ELSE @]

ApplyTwiceWhereProposed(n) ==
    /\ Given(n)
    /\ LET cmd == clog[applied[n] + 1]
           e == IF pending[n] = applied[n] + 1 THEN ApplyCommand(eng[n], cmd) ELSE eng[n]
       IN eng' = [eng EXCEPT ![n] = ApplyCommand(e, cmd)]
    /\ file' = [file EXCEPT ![n] = eng'[n]]
    /\ answers' = answers \cup Answer(n, clog[applied[n] + 1])
    /\ UNCHANGED <<setting, now, leader, clog, backup, snapshot, broken, memberVars, direct>>

Apply(n) ==
    LET cmd == clog[applied[n] + 1]
    IN /\ Given(n)
       /\ NeedsLog(eng[n], cmd) => n \notin broken
       /\ eng' = [eng EXCEPT ![n] = ApplyCommand(@, cmd)]
       /\ file' = [file EXCEPT ![n] = ApplyToFile(@, eng[n], cmd)]
       /\ answers' = answers \cup Answer(n, cmd)
       /\ UNCHANGED <<setting, now, leader, clog, backup, snapshot, broken, memberVars, direct>>

(* The engine returns an error; raft takes it for a result, and goes on. *)
ApplyError(n) ==
    LET cmd == clog[applied[n] + 1]
    IN /\ Given(n)
       /\ \/ cmd.op = "wipe" /\ ResetFails(n)
          \/ cmd.op = "load" /\ LoadFails(n, cmd.entries)
          \/ /\ cmd.op \notin {"wipe", "load"} /\ Mutates(eng[n], cmd)
             /\ AppendFails(n, RecordOf(cmd))
       /\ UNCHANGED <<setting, now, leader, clog, backup, snapshot, memberVars, direct, answers>>

(* engine.Open recovers what the file holds; NewRaft starts from nothing, and
   BootstrapCluster finds that there is a cluster already. *)
RestartForgetsOutcomes(n) ==
    /\ "restart" \in setting.faults
    /\ applied[n] > 0 \/ n \in halted \cup broken \/ eng[n] # file[n]
    /\ file[n].last <= MaxPositions
    /\ eng' = [eng EXCEPT ![n] = [file[n] EXCEPT !.dedup = EmptyDedup]]
    /\ file' = [file EXCEPT ![n].dedup = EmptyDedup]
    /\ broken' = broken \ {n}
    /\ applied' = [applied EXCEPT ![n] = 0]
    /\ pending' = [pending EXCEPT ![n] = 0]
    /\ leader' = IF leader = n THEN NoNode ELSE leader
    /\ halted' = halted \ {n}
    /\ admin' = [admin EXCEPT ![n] = NoCall]
    /\ UNCHANGED <<setting, now, clog, backup, snapshot, voters, known, direct, answers>>

Restart(n) ==
    /\ "restart" \in setting.faults
    /\ applied[n] > 0 \/ n \in halted \cup broken \/ eng[n] # file[n]
    /\ file[n].last <= MaxPositions
    /\ eng' = [eng EXCEPT ![n] = file[n]]
    /\ broken' = broken \ {n}
    /\ applied' = [applied EXCEPT ![n] = 0]
    /\ pending' = [pending EXCEPT ![n] = 0]
    /\ leader' = IF leader = n THEN NoNode ELSE leader
    /\ halted' = halted \ {n}
    /\ admin' = [admin EXCEPT ![n] = NoCall]
    /\ UNCHANGED <<setting, now, clog, backup, snapshot, file, voters, known, direct, answers>>

(* FSM.Snapshot and Persist. *)
Snapshot(n) ==
    /\ "snapshot" \in setting.faults
    /\ applied[n] > snapshot.index
    /\ \E entries \in EngineSnapshots(eng[n]) :
          snapshot' = [index |-> applied[n], entries |-> entries]
    /\ UNCHANGED <<setting, now, leader, clog, applied, eng, pending, backup,
                   file, broken, memberVars, direct, answers>>

(* FSM.Restore: raft gives the snapshot to a follower that is behind it. *)
Behind(n) == Follows(n) /\ leader # n /\ applied[n] < snapshot.index

RestoreWithoutReset(n) ==
    /\ Behind(n) /\ n \notin broken
    /\ applied' = [applied EXCEPT ![n] = snapshot.index]
    /\ eng' = [eng EXCEPT ![n].index = [k \in Keys |->
                   IF \E i \in 1..Len(snapshot.entries) : snapshot.entries[i].key = k
                   THEN Loaded(snapshot.entries).index[k] ELSE @[k]]]
    /\ file' = [file EXCEPT ![n] = eng'[n]]
    /\ pending' = [pending EXCEPT ![n] = 0]
    /\ UNCHANGED <<setting, now, leader, clog, backup, snapshot, broken, memberVars, direct, answers>>

Restore(n) ==
    /\ Behind(n) /\ n \notin broken
    /\ applied' = [applied EXCEPT ![n] = snapshot.index]
    /\ eng' = [eng EXCEPT ![n] = Loaded(snapshot.entries)]
    /\ file' = [file EXCEPT ![n] = Loaded(snapshot.entries)]
    /\ pending' = [pending EXCEPT ![n] = 0]
    /\ UNCHANGED <<setting, now, leader, clog, backup, snapshot, broken, memberVars, direct, answers>>

(* It returns an error: raft does not count the snapshot as applied. *)
RestoreError(n) ==
    /\ Behind(n)
    /\ LoadFails(n, snapshot.entries)
    /\ UNCHANGED <<setting, now, leader, clog, applied, pending, backup, snapshot, memberVars,
                   direct, answers>>

(* SET and DEL of the RESP listener go to the engine of the node. *)
Direct(n, r) ==
    /\ "resp" \in setting.faults
    /\ direct < MaxDirect
    /\ \/ /\ n \notin broken
          /\ eng' = [eng EXCEPT ![n] = CommitRecord(@, r)]
          /\ file' = [file EXCEPT ![n] = CommitRecord(@, r)]
          /\ UNCHANGED broken
       \/ AppendFails(n, r)
    /\ direct' = direct + 1
    /\ UNCHANGED <<setting, now, leader, clog, applied, pending, backup, snapshot, memberVars, answers>>

RespSet(n) ==
    \E k \in Keys, v \in setting.vals, t \in setting.ttls :
       Direct(n, [kind |-> "put", key |-> k, val |-> v, exp |-> resolveExpiry(t), idem |-> NoIdem])

RespDel(n) ==
    \E k \in Live(eng[n]) :
       Direct(n, [kind |-> "delete", key |-> k, val |-> NoValue, exp |-> 0, idem |-> NoIdem])

-----------------------------------------------------------------------------
(* Membership.  A change is committed before the call goes on; then the answer
   lists the configuration and the leader, read one after the other. *)

MembershipCall(n) == "member" \in setting.faults /\ admin[n].step = "idle"

Listing(added) == [step |-> "config", added |-> added, members |-> {}]

AddNodeNoWait(n) ==
    /\ MembershipCall(n)
    /\ leader = n
    /\ \E m \in Nodes :
          /\ voters' = voters \cup {m}
          /\ admin' = [admin EXCEPT ![n] = Listing({m})]
    /\ UNCHANGED <<setting, now, leader, clog, applied, eng, pending, fileVars,
                   halted, known, direct, answers>>

(* AddNode and AddVoter: adding a voter again changes nothing. *)
AddNode(n) ==
    /\ MembershipCall(n)
    /\ leader = n
    /\ \E m \in Nodes :
          /\ voters' = voters \cup {m}
          /\ admin' = [admin EXCEPT ![n] = Listing({m})]
    /\ known' = [known EXCEPT ![n] = voters']
    /\ UNCHANGED <<setting, now, leader, clog, applied, eng, pending, fileVars,
                   halted, direct, answers>>

(* RemoveNode and RemoveServer; raft refuses to remove the last voter, and a
   leader that removes itself shuts its raft down. *)
RemoveNode(n) ==
    /\ MembershipCall(n)
    /\ leader = n
    /\ \E m \in Nodes :
          /\ voters # {m}
          /\ voters' = voters \ {m}
          /\ leader' = IF m = n THEN NoNode ELSE leader
          /\ halted' = IF m = n THEN halted \cup {n} ELSE halted
          /\ admin' = [x \in Nodes |-> IF x = n THEN Listing({})
                                       ELSE [admin[x] EXCEPT !.added = @ \ {m}]]
    /\ known' = [known EXCEPT ![n] = voters']
    /\ UNCHANGED <<setting, now, clog, applied, eng, pending, fileVars, direct, answers>>

(* Any node answers ListNodes. *)
ListNodes(n) ==
    /\ MembershipCall(n)
    /\ admin' = [admin EXCEPT ![n] = Listing({})]
    /\ UNCHANGED <<setting, now, leader, clog, applied, eng, pending, fileVars,
                   voters, halted, known, direct, answers>>

(* ListServers: GetConfiguration, then LeaderWithID. *)
ListConfiguration(n) ==
    /\ admin[n].step = "config"
    /\ admin' = [admin EXCEPT ![n].step = "leader", ![n].members = known[n]]
    /\ UNCHANGED <<setting, now, leader, clog, applied, eng, pending, fileVars,
                   voters, halted, known, direct, answers>>

ListLeader(n) ==
    /\ admin[n].step = "leader"
    /\ admin' = [admin EXCEPT ![n] = NoCall]
    /\ UNCHANGED <<setting, now, leader, clog, applied, eng, pending, fileVars,
                   voters, halted, known, direct, answers>>

(* A voter receives the configuration from the leader. *)
LearnConfiguration(n) ==
    /\ Follows(n) /\ known[n] # voters
    /\ known' = [known EXCEPT ![n] = voters]
    /\ UNCHANGED <<setting, now, leader, clog, applied, eng, pending, fileVars,
                   voters, halted, admin, direct, answers>>

-----------------------------------------------------------------------------
Next ==
    \/ Tick
    \/ \E n \in Nodes :
          \/ NewLeader(n) \/ ProposeLost(n)
          \/ Put(n) \/ Delete(n) \/ CompareAndSet(n)
          \/ DeleteNamespace(n) \/ CreateBackup(n) \/ RestoreBackup(n)
          \/ Apply(n) \/ ApplyError(n) \/ Restart(n)
          \/ Snapshot(n) \/ Restore(n) \/ RestoreError(n)
          \/ RespSet(n) \/ RespDel(n)
          \/ AddNode(n) \/ RemoveNode(n) \/ ListNodes(n)
          \/ ListConfiguration(n) \/ ListLeader(n) \/ LearnConfiguration(n)

Spec == Init /\ [][Next]_vars

-----------------------------------------------------------------------------
CaughtUp(n) == applied[n] = Len(clog)

(* Replicas that have applied everything have the same entries, versions,
   expiries and remembered outcomes: the "deterministic state machines" of
   ApplyPut's comment (engine.go:136-145). *)
CaughtUpAgree ==
    \A m, n \in Nodes : CaughtUp(m) /\ CaughtUp(n) => eng[m] = eng[n]

(* When what a replica does with a command depends on the commands before it
   only: nobody writes past raft, no disk fails, a CompareAndSet meets no
   expiry, and what a restart repeats is keyed. *)
Deterministic ==
    /\ setting.faults \cap (DiskFaults \cup {"resp"}) = {}
    /\ "cas" \in setting.ops => setting.faults \cap {"clock", "restart"} = {}
    /\ "restart" \in setting.faults => NoIdem \notin setting.idems

(* Under that condition replicas agree, through lost answers, leader changes,
   restarts that repeat the log (node.go:105), wipes, restores, expiries, and
   members that are added late or removed for a while (node.go:166, 182). *)
ReplicasAgree ==
    Deterministic /\ "snapshot" \notin setting.faults => CaughtUpAgree

Contents(n) ==
    [k \in Live(eng[n]) |-> [val |-> eng[n].index[k].val, exp |-> eng[n].index[k].exp]]

(* A replica that "adopt[s] the leader's snapshot" (fsm.go:84-87) shows what its
   peers show once it has caught up.  It has other versions, no remembered
   outcomes and none of the expired entries its peers still hold, so this is
   for requests that use neither versions nor idempotency keys. *)
ContentsAgree ==
    Deterministic /\ setting.idems \subseteq {NoIdem} /\ "cas" \notin setting.ops =>
    \A m, n \in Nodes : CaughtUp(m) /\ CaughtUp(n) => Contents(m) = Contents(n)

(* A request sent again with its idempotency key, to whichever node leads by
   then, gets the position the first answer gave (TR-003), as long as nobody
   wipes or restores the namespace, or starts a replica from a snapshot. *)
AnswersAgree ==
    Deterministic /\ "snapshot" \notin setting.faults /\ setting.ops \cap {"wipe", "load"} = {} =>
    \A a, b \in answers : a.idem = b.idem => a.pos = b.pos

(* Every position of engine e is the outcome of one idempotency key. *)
OneKeyEach(e) ==
    /\ \A i \in IdemKeys : e.dedup[i] <= e.last
    /\ \A p \in 1..e.last : \E i \in IdemKeys : \A j \in IdemKeys : e.dedup[j] = p <=> j = i

EachIsKeyed ==
    /\ setting.faults \cap {"resp", "sync", "snapshot"} = {}
    /\ "load" \notin setting.ops
    /\ NoIdem \notin setting.idems

(* raft's log is in memory, so a node that restarts is given every command again, on
   top of what its own log brought back (node.go:105-106), and clients send again what
   they got no answer for.  Where every request has its idempotency key, all of this
   leaves no command twice in a replica (TR-003), and no record that no key accounts
   for: now, and in what the next restart will find, also where writes or a Reset
   failed and a command is applied only after the restart.  An fsync that fails is
   excepted, and so are restores, which write without a key. *)
KeyedOnce ==
    EachIsKeyed => \A n \in Nodes : OneKeyEach(eng[n]) /\ OneKeyEach(file[n])

(* The cluster in the answer to AddNode has the node that was added, whichever
   node leads by the time it is read (admin_server.go:35-38), unless another
   call has removed it again. *)
AddedIsListed ==
    \A n \in Nodes : admin[n].step = "leader" => admin[n].added \subseteq admin[n].members
=============================================================================
