-------------------------------- MODULE Node --------------------------------
(***************************************************************************)
(* One uddp-node process (cmd/uddp-node): start-up in the order of run(),  *)
(* gRPC calls on their way through interceptors and handlers, a Redis      *)
(* connection next to them, and the shutdown a signal starts.              *)
(*                                                                         *)
(* The engine is its log, one atomic step per mutation (see Engine); raft  *)
(* applies what it was given, or loses it (see Replication).  The handlers *)
(* that Backup and Replication model are followed here only as far as they *)
(* refuse a request.  gRPC, net/http and raft are external: GracefulStop   *)
(* and http.Server.Shutdown take nothing new and wait for what runs.       *)
(***************************************************************************)
EXTENDS Integers, Sequences, FiniteSets, Api, Resp

CONSTANTS
    Callers,        \* gRPC calls under way at the same time
    Settings,       \* configurations and the traffic they are checked with
    Width           \* bits of the uint64 offsets and of int

(* A setting is the flags of the node, the steps of run() that fail, and what
   clients do: command lines of uddpctl, operations of uddp-bench, requests of other
   programs, one pipelined input per Redis connection.  maxCalls is a bound. *)
IsSetting(s) ==
    /\ s.peers \in {"none", "good", "bad"}
    /\ {s.raftIds, s.bootstrap, s.token, s.redis, s.signals, s.scrapes} \subseteq BOOLEAN
    /\ s.maxCalls \in Nat
    /\ s.namespace \in STRING /\ s.profile \in STRING
    /\ s.raftTls \subseteq {"cert", "key", "ca"} /\ s.tls \subseteq {"cert", "key"}
    /\ s.fails \subseteq {"dir", "engine", "offsets", "raftDir", "logStore",
                          "snapshotStore", "raftKeypair", "peerCA", "raftAddr", "newRaft",
                          "bootstrap", "listen", "keypair", "http", "resp"}
    /\ s.lines \subseteq CommandLine
    /\ s.bench \subseteq {"OpGet", "OpPut"}
    /\ s.requests \subseteq Request
    /\ s.inputs \subseteq Seq(Line)

ASSUME ConstantsAssumption ==
    /\ IsFiniteSet(Callers)
    /\ \A s \in Settings : IsSetting(s)
    /\ Width \in Nat \ {0}

VARIABLES
    setting,
    phase,          \* how far run() is
    open,           \* what is open or running
    defers,         \* the deferred closes, the last one first
    sig,            \* the goroutine that waits for a signal
    scrape,         \* a request to the HTTP server is being served
    log,            \* the engine's log, each record with its writer
    offset,         \* the one group's committed offset
    gauge,          \* uddp_partition_commit_position
    counted,        \* the sum of uddp_requests_total
    raftq,          \* commands raft still may apply, as the calls they are from
    calls,          \* calls made so far
    call,           \* per caller: its request and what is known of the answer
    client,         \* per caller: what the client's side does
    srv,            \* per caller: how far the server is with the call
    conn,           \* the Redis connection
    told,           \* history: the answers clients got
    replies,        \* history: the replies on the Redis connection
    answered,       \* history: calls the services have answered
    panicked        \* history: what ended the process

procVars == <<phase, open, defers, sig, scrape>>
storeVars == <<log, offset>>
meterVars == <<gauge, counted>>
callVars == <<raftq, calls, call, client, srv>>
histVars == <<told, replies, answered, panicked>>
vars == <<setting, procVars, storeVars, meterVars, callVars, conn, histVars>>

NoCall == <<>>
NoConn == [pc |-> "none", in |-> <<>>, id |-> 0, todo |-> <<>>, n |-> 0]

Phases == {"config", "engine", "offsets", "raft", "listen", "credentials", "start",
           "serve", "unwind", "exit"}
Resources == {"engine", "offsets", "raft", "grpc", "http", "resp"}
ServerSteps == {"none", "handler", "raft", "gauge", "count", "reply", "error"}

(* The key of all gRPC mutations. *)
Key == "a"

CallRecord == [id : Nat, req : Request, transport : {"plaintext", "tls"},
               code : RefusalCodes \cup {"none", "OK", "Unavailable"}, pos : Nat]
LogRecord == [kind : {"put", "delete"}, key : {Key} \cup STRING,
              by : [via : {"grpc", "resp"}, id : Nat], idem : {NoIdem, "i"}, applied : BOOLEAN]
ConnRecord == [pc : {"none", "read", "put", "del", "delete", "closed"}, in : Seq(Line),
               id : Nat, todo : Seq(STRING), n : Nat]
PanicRecord == [via : {"grpc", "resp"}, n : Nat]
ReplyRecord == [id : Nat, kind : {"reply", "error", "ok", "integer", "failed"}, n : Nat]

TypeOK ==
    /\ setting \in Settings
    /\ phase \in Phases
    /\ open \subseteq Resources
    /\ defers \in Seq(Resources)
    /\ sig \in {"none", "caught", "stopping", "done"}
    /\ scrape \in BOOLEAN
    /\ log \in Seq(LogRecord)
    /\ {offset, gauge, counted, calls, answered} \subseteq Nat
    /\ raftq \subseteq CallRecord /\ told \subseteq CallRecord
    /\ call \in [Callers -> CallRecord \cup {NoCall}]
    /\ client \in [Callers -> {"idle", "waiting", "gaveup"}]
    /\ srv \in [Callers -> ServerSteps]
    /\ \A c \in Callers : call[c] = NoCall <=> client[c] = "idle"
    /\ conn \in ConnRecord
    /\ replies \in Seq(ReplyRecord)
    /\ panicked \subseteq PanicRecord

Init ==
    /\ setting \in Settings
    /\ phase = "config" /\ open = {} /\ defers = <<>>
    /\ sig = "none" /\ scrape = FALSE
    /\ log = <<>> /\ offset = 0 /\ gauge = 0 /\ counted = 0
    /\ raftq = {} /\ calls = 0
    /\ call = [c \in Callers |-> NoCall]
    /\ client = [c \in Callers |-> "idle"]
    /\ srv = [c \in Callers |-> "none"]
    /\ conn = NoConn
    /\ told = {} /\ replies = <<>> /\ answered = 0 /\ panicked = {}

Replicated == setting.peers = "good"
Fails(step) == step \in setting.fails

(* Whether a key is found. *)
Found(k) ==
    LET touching == {p \in 1..Len(log) : log[p].key = k} IN
    touching # {} /\ log[CHOOSE p \in touching : \A q \in touching : q <= p].kind = "put"

ByCall(id) == [via |-> "grpc", id |-> id]
ByConn(id) == [via |-> "resp", id |-> id]
RecordsBy(writer) == {p \in 1..Len(log) : log[p].by = writer}

-----------------------------------------------------------------------------
(* run(), step by step.  A step that fails returns, and what was deferred so far
   is closed. *)

Run(from, to) ==
    /\ phase = from /\ phase' = to
    /\ UNCHANGED <<setting, sig, scrape, storeVars, meterVars, callVars, conn, histVars>>

Opens(resource) ==
    /\ open' = open \cup {resource}
    /\ defers' = <<resource>> \o defers

OpensNothing == UNCHANGED <<open, defers>>

(* main parses --raft-peers; run checks the identity and the namespace, and makes
   the data directory. *)
ConfigAccepted ==
    /\ setting.peers # "bad"
    /\ Replicated => setting.raftIds
    /\ NamespaceAccepted(setting.namespace, setting.profile, Replicated)
    /\ ~Fails("dir")

CheckConfig ==
    /\ Run("config", IF ConfigAccepted THEN "engine" ELSE "unwind")
    /\ OpensNothing

OpenEngine ==
    IF Fails("engine") THEN Run("engine", "unwind") /\ OpensNothing
    ELSE Run("engine", "offsets") /\ Opens("engine")

OpenOffsets ==
    IF Fails("offsets") THEN Run("offsets", "unwind") /\ OpensNothing
    ELSE Run("offsets", "raft") /\ Opens("offsets")

(* replication.Open.  The flags of the transport's TLS go together. *)
RaftTlsComplete == setting.raftTls \in {{}, {"cert", "key", "ca"}}

TransportFails ==
    IF setting.raftTls = {} THEN Fails("raftAddr")
    ELSE Fails("raftKeypair") \/ Fails("peerCA") \/ Fails("raftAddr")

RaftStarts ==
    /\ RaftTlsComplete
    /\ ~Fails("raftDir") /\ ~Fails("logStore") /\ ~Fails("snapshotStore")
    /\ ~TransportFails /\ ~Fails("newRaft")

(* A bootstrap that fails leaves raft running, with nobody to stop it. *)
OpenRaft ==
    IF ~Replicated THEN Run("raft", "listen") /\ OpensNothing
    ELSE IF ~RaftStarts THEN Run("raft", "unwind") /\ OpensNothing
    ELSE IF setting.bootstrap /\ Fails("bootstrap")
         THEN Run("raft", "unwind") /\ open' = open \cup {"raft"} /\ UNCHANGED defers
    ELSE Run("raft", "listen") /\ Opens("raft")

Listen ==
    /\ Run("listen", IF Fails("listen") THEN "unwind" ELSE "credentials")
    /\ OpensNothing

LoadCredentials ==
    /\ Run("credentials", IF setting.tls \notin {{}, {"cert", "key"}}
                             \/ (setting.tls # {} /\ Fails("keypair"))
                          THEN "unwind" ELSE "start")
    /\ OpensNothing

(* Services are registered, health says SERVING, and the goroutines of the HTTP
   server and of the Redis listener start; that one of them fails is only logged. *)
StartServing ==
    /\ Run("start", "serve")
    /\ open' = open \cup {"grpc"} \cup (IF Fails("http") THEN {} ELSE {"http"})
                    \cup (IF setting.redis /\ ~Fails("resp") THEN {"resp"} ELSE {})
    /\ UNCHANGED defers

(* Serve returns when GracefulStop is done. *)
ServeReturns ==
    /\ sig = "done"
    /\ Run("serve", "unwind")
    /\ OpensNothing

Unwind ==
    /\ defers # <<>>
    /\ Run("unwind", "unwind")
    /\ open' = open \ {Head(defers)} /\ defers' = Tail(defers)

(* The process ends, and everything in it: whoever waits for an answer gets an
   error. *)
Die ==
    /\ phase' = "exit"
    /\ raftq' = {} /\ scrape' = FALSE
    /\ srv' = [c \in Callers |-> "none"]
    /\ client' = [c \in Callers |-> "idle"]
    /\ call' = [c \in Callers |-> NoCall]
    /\ conn' = [NoConn EXCEPT !.pc = "closed"]
    /\ UNCHANGED <<setting, defers, sig, storeVars, meterVars, calls, told, replies, answered>>

(* A panic ends it too, without the deferred closes: n is the offset of a Fetch or
   the number of a Redis command. *)
Panic(via, n) ==
    /\ Die
    /\ open' = {} /\ panicked' = panicked \cup {[via |-> via, n |-> n]}

Exit ==
    /\ phase = "unwind" /\ defers = <<>>
    /\ Die
    /\ UNCHANGED <<open, panicked>>

Main ==
    \/ CheckConfig \/ OpenEngine \/ OpenOffsets \/ OpenRaft \/ Listen
    \/ LoadCredentials \/ StartServing \/ ServeReturns \/ Unwind \/ Exit

-----------------------------------------------------------------------------
(* The signal goroutine: health says NOT_SERVING, the HTTP server is shut down,
   then the gRPC server is stopped.  A second signal is not received. *)

Signalled(from, to) ==
    /\ phase = "serve" /\ sig = from /\ sig' = to
    /\ UNCHANGED <<setting, phase, defers, scrape, storeVars, meterVars, callVars, conn,
                   histVars>>

Signal ==
    /\ setting.signals
    /\ Signalled("none", "caught")
    /\ UNCHANGED open

ShutdownHTTP ==
    /\ ~scrape
    /\ Signalled("caught", "stopping")
    /\ open' = open \ {"http"}

StopAtOnce ==
    /\ Signalled("stopping", "done")
    /\ open' = open \ {"grpc"}

GracefulStopDrainsRedis ==
    /\ \A c \in Callers : srv[c] = "none"
    /\ conn.pc \in {"none", "closed"}
    /\ Signalled("stopping", "done")
    /\ open' = open \ {"grpc"}

GracefulStop ==
    /\ \A c \in Callers : srv[c] = "none"
    /\ Signalled("stopping", "done")
    /\ open' = open \ {"grpc"}

(* /metrics and /healthz. *)
Scrape(busy) ==
    /\ phase = "serve" /\ scrape # busy
    /\ busy => setting.scrapes /\ "http" \in open /\ sig = "none"
    /\ scrape' = busy
    /\ UNCHANGED <<setting, phase, open, defers, sig, storeVars, meterVars, callVars, conn,
                   histVars>>

-----------------------------------------------------------------------------
(* Clients of the gRPC services. *)

ServerTransport == IF setting.tls = {} THEN "plaintext" ELSE "tls"

Starts(c, req, transport) ==
    /\ client[c] = "idle" /\ calls < setting.maxCalls /\ phase = "serve"
    /\ calls' = calls + 1
    /\ client' = [client EXCEPT ![c] = "waiting"]
    /\ call' = [call EXCEPT ![c] = [id |-> calls', req |-> req, transport |-> transport,
                                    code |-> "none", pos |-> 0]]
    /\ UNCHANGED <<setting, procVars, storeVars, meterVars, raftq, srv, conn, histVars>>

CtlInvoke(c) ==
    \E line \in {l \in setting.lines : l.inOrder} :
       Starts(c, CtlRequest(line), Transport(line))

BenchExecute(c) ==
    \E op \in setting.bench : Starts(c, BenchRequest(op, setting.token), ServerTransport)

AppCall(c) == \E req \in setting.requests : Starts(c, req, ServerTransport)

Leaves(c, state) ==
    /\ client' = [client EXCEPT ![c] = state]
    /\ call' = [call EXCEPT ![c] = IF state = "idle" THEN NoCall ELSE @]
    /\ UNCHANGED <<setting, procVars, storeVars, meterVars, raftq, calls, conn, histVars>>

(* Nobody answers, or not with the same transport. *)
Reachable(c) ==
    "grpc" \in open /\ sig # "stopping" /\ call[c].transport = ServerTransport

ConnectError(c) ==
    /\ client[c] = "waiting" /\ srv[c] = "none" /\ ~Reachable(c)
    /\ Leaves(c, "idle")
    /\ UNCHANGED srv

(* uddpctl waits 5 seconds; handlers do not look at their context and go on. *)
GiveUp(c) ==
    /\ client[c] = "waiting" /\ srv[c] # "none" /\ call[c].req.rpc # "Watch"
    /\ Leaves(c, "gaveup")
    /\ UNCHANGED srv

WatcherLeaves(c) ==
    /\ client[c] = "waiting" /\ srv[c] = "handler" /\ call[c].req.rpc = "Watch"
    /\ srv' = [srv EXCEPT ![c] = "none"]
    /\ Leaves(c, "idle")

-----------------------------------------------------------------------------
(* The server's side of a call. *)

Serves(c, from, to) ==
    /\ srv[c] = from
    /\ srv' = [srv EXCEPT ![c] = to]
    /\ UNCHANGED <<setting, procVars, calls, client, conn, told, replies, panicked>>

Result(c, code, pos) == call' = [call EXCEPT ![c].code = code, ![c].pos = pos]

(* gRPC hands the request to the chain of interceptors, and the handler makes its
   checks.  Metrics are outermost, so that they see what authentication refuses. *)
Code(req) ==
    IF req.rpc = "unknown" THEN "Unimplemented"
    ELSE IF req.arg = "garbled" THEN "Internal"
    ELSE IF ~Authorized(req, setting.token) THEN "Unauthenticated"
    ELSE Refusal(req, Replicated)

ArriveAuthFirst(c) ==
    /\ client[c] = "waiting" /\ Reachable(c)
    /\ LET code == Code(call[c].req) IN
       /\ Serves(c, "none", CASE code = "OK" -> "handler"
                              [] ~Dispatched(call[c].req) -> "error"
                              [] code = "Unauthenticated" -> "reply"
                              [] OTHER -> "count")
       /\ IF code = "OK" THEN UNCHANGED call ELSE Result(c, code, 0)
    /\ UNCHANGED <<storeVars, meterVars, raftq, answered>>

Arrive(c) ==
    /\ client[c] = "waiting" /\ Reachable(c)
    /\ LET code == Code(call[c].req) IN
       /\ Serves(c, "none", IF code = "OK" THEN "handler"
                            ELSE IF Dispatched(call[c].req) THEN "count" ELSE "error")
       /\ IF code = "OK" THEN UNCHANGED call ELSE Result(c, code, 0)
    /\ UNCHANGED <<storeVars, meterVars, raftq, answered>>

InHandler(c, rpcs) == srv[c] = "handler" /\ call[c].req.rpc \in rpcs

(* Handlers that only read. *)
Read(c) ==
    /\ InHandler(c, {"Get", "FetchOffset", "ListNodes", "ExportNamespace", "GetUsage", "Check"})
    /\ Serves(c, "handler", "count")
    /\ Result(c, "OK", 0)
    /\ UNCHANGED <<storeVars, meterVars, raftq, answered>>

(* int(from-1): the upper half of the offsets is negative. *)
ToInt(n) == IF n >= 2^(Width - 1) THEN n - 2^Width ELSE n

BeyondLogOffByOne(from) == from < 1 \/ ToInt(from - 1) > Len(log)

BeyondLog(from) == from < 1 \/ ToInt(from - 1) >= Len(log)

(* Fetch: an index that is not in byteOffsets panics, and ends the process. *)
Fetch(c) ==
    /\ InHandler(c, {"Fetch"})
    /\ LET from == call[c].req.from IN
       IF BeyondLog(from) \/ from <= Len(log)
       THEN /\ Serves(c, "handler", "count")
            /\ Result(c, "OK", 0)
            /\ UNCHANGED <<storeVars, meterVars, raftq, answered>>
       ELSE Panic("grpc", from)

CommitOffset(c) ==
    /\ InHandler(c, {"CommitOffset"})
    /\ Serves(c, "handler", "count")
    /\ IF call[c].req.from < offset
       THEN Result(c, "FailedPrecondition", 0) /\ UNCHANGED offset
       ELSE Result(c, "OK", 0) /\ offset' = call[c].req.from
    /\ UNCHANGED <<log, meterVars, raftq, answered>>

(* What the engine does with the mutation of call c, directly or applied by the
   FSM: a remembered position, a version mismatch, or one more record. *)
Remembered(idem) == {p \in 1..Len(log) : idem # NoIdem /\ log[p].idem = idem}

Mismatch(req) == req.rpc = "CompareAndSet" /\ ~req.expected

Commits(req) == Remembered(req.idem) = {} /\ ~Mismatch(req)

LogAfterRawKind(req, id, applied) ==
    IF ~Commits(req) THEN log
    ELSE Append(log, [kind |-> req.rpc, key |-> Key, by |-> ByCall(id), idem |-> req.idem,
                      applied |-> applied])

LogAfter(req, id, applied) ==
    IF ~Commits(req) THEN log
    ELSE Append(log, [kind |-> IF req.rpc = "Delete" THEN "delete" ELSE "put",
                      key |-> Key, by |-> ByCall(id), idem |-> req.idem,
                      applied |-> applied])

Outcome(c) ==
    LET req == call[c].req IN
    IF Remembered(req.idem) # {}
    THEN Result(c, "OK", CHOOSE p \in Remembered(req.idem) : TRUE)
    ELSE IF Mismatch(req) THEN Result(c, "FailedPrecondition", 0)
    ELSE Result(c, "OK", Len(log) + 1)

Mutate(c, applied) ==
    /\ log' = LogAfter(call[c].req, call[c].id, applied)
    /\ Outcome(c)
    /\ UNCHANGED offset

AfterMutation(c) == IF call'[c].code = "OK" THEN "gauge" ELSE "count"

MutateDirectly(c) ==
    /\ InHandler(c, Mutations) /\ ~Replicated
    /\ Mutate(c, FALSE)
    /\ Serves(c, "handler", AfterMutation(c))
    /\ UNCHANGED <<meterVars, raftq, answered>>

(* Propose: refused, by a node that is not the leader, or on its way. *)
ProposeDirectly(c) ==
    /\ InHandler(c, Mutations) /\ Replicated
    /\ Mutate(c, FALSE)
    /\ Serves(c, "handler", AfterMutation(c))
    /\ UNCHANGED <<meterVars, raftq, answered>>

Propose(c) ==
    /\ InHandler(c, Mutations) /\ Replicated
    /\ Serves(c, "handler", "raft")
    /\ raftq' = raftq \cup {call[c]}
    /\ UNCHANGED <<storeVars, meterVars, call, answered>>

NotLeader(c) ==
    /\ InHandler(c, Mutations) /\ Replicated
    /\ Serves(c, "handler", "count")
    /\ Result(c, "Unavailable", 0)
    /\ UNCHANGED <<storeVars, meterVars, raftq, answered>>

(* Leadership is lost: the command may be applied yet. *)
LeadershipLost(c) ==
    /\ Serves(c, "raft", "count")
    /\ Result(c, "Unavailable", 0)
    /\ raftq' \in {raftq, raftq \ {call[c]}}
    /\ UNCHANGED <<storeVars, meterVars, answered>>

(* FSM.Apply, and Propose returns. *)
Apply(c) ==
    /\ call[c] \in raftq /\ "raft" \in open
    /\ Mutate(c, TRUE)
    /\ Serves(c, "raft", AfterMutation(c))
    /\ raftq' = raftq \ {call[c]}
    /\ UNCHANGED <<meterVars, answered>>

(* FSM.Apply of a command whose caller was told it failed. *)
ApplyLate ==
    /\ "raft" \in open
    /\ \E r \in raftq :
          /\ \A c \in Callers : srv[c] = "raft" => call[c] # r
          /\ log' = LogAfter(r.req, r.id, TRUE)
          /\ raftq' = raftq \ {r}
    /\ UNCHANGED <<setting, procVars, offset, meterVars, calls, call, client, srv, conn,
                   histVars>>

(* response sets the gauge, in the handler and after the engine's lock. *)
SetGauge(c) ==
    /\ Serves(c, "gauge", "count")
    /\ gauge' = call[c].pos
    /\ UNCHANGED <<storeVars, counted, raftq, call, answered>>

(* The metrics interceptor counts what the rest of the chain returns. *)
Count(c) ==
    /\ Serves(c, "count", "reply")
    /\ counted' = counted + 1
    /\ UNCHANGED <<storeVars, gauge, raftq, call, answered>>

Answers(c, from) ==
    /\ srv[c] = from
    /\ srv' = [srv EXCEPT ![c] = "none"]
    /\ told' = IF client[c] = "waiting" THEN told \cup {call[c]} ELSE told
    /\ client' = [client EXCEPT ![c] = "idle"]
    /\ call' = [call EXCEPT ![c] = NoCall]
    /\ UNCHANGED <<setting, procVars, storeVars, meterVars, raftq, calls, conn, replies,
                   panicked>>

Reply(c) == Answers(c, "reply") /\ answered' = answered + 1

(* The answer to a call that was not dispatched. *)
ReplyError(c) == Answers(c, "error") /\ UNCHANGED answered

Handler(c) ==
    \/ Read(c) \/ Fetch(c) \/ CommitOffset(c)
    \/ MutateDirectly(c) \/ Propose(c) \/ NotLeader(c) \/ LeadershipLost(c) \/ Apply(c)
    \/ SetGauge(c) \/ Count(c) \/ Reply(c) \/ ReplyError(c)

-----------------------------------------------------------------------------
(* A Redis connection.  Shutdown does not wait for it: it is served until the
   process ends, also when the engine is closed already. *)

RespStep ==
    /\ phase # "exit"
    /\ UNCHANGED <<setting, procVars, offset, meterVars, callVars, told, answered, panicked>>

RespConnect ==
    /\ "resp" \in open /\ conn.pc = "none"
    /\ \E in \in setting.inputs : conn' = [NoConn EXCEPT !.pc = "read", !.in = in]
    /\ RespStep /\ UNCHANGED <<log, replies>>

(* The next read fails: the client has hung up, or sent something that is not
   RESP.  A command under way is finished first. *)
RespClose ==
    /\ conn.pc = "read"
    /\ conn' = [NoConn EXCEPT !.pc = "closed"]
    /\ RespStep /\ UNCHANGED <<log, replies>>

RespReply(kind, n) ==
    /\ replies' = Append(replies, [id |-> conn.id, kind |-> kind, n |-> n])
    /\ conn' = [conn EXCEPT !.pc = "read", !.todo = <<>>, !.n = 0]

(* ReadCommand, and dispatch as far as it does not need the engine. *)
RespRead ==
    /\ conn.pc = "read" /\ Complete(conn.in)
    /\ LET words == Words(conn.in)
           next == [conn EXCEPT !.in = Rest(conn.in), !.id = @ + 1]
       IN \/ /\ Verdict(words) \in {"put", "del"}
             /\ conn' = [next EXCEPT !.pc = Verdict(words), !.todo = Tail(words)]
             /\ UNCHANGED replies
          \/ /\ Verdict(words) \in {"reply", "error"}
             /\ conn' = next
             /\ replies' = Append(replies, [id |-> next.id, kind |-> Verdict(words), n |-> 0])
    /\ RespStep /\ UNCHANGED log

(* ReadCommand is told a length it cannot allocate. *)
RespPanic ==
    /\ phase # "exit"
    /\ conn.pc = "read" /\ Panics(conn.in)
    /\ Panic("resp", conn.id + 1)

RespWrites(kind) ==
    log' = Append(log, [kind |-> kind, key |-> Head(conn.todo), by |-> ByConn(conn.id),
                        idem |-> NoIdem, applied |-> FALSE])

(* A mutation of a closed engine is an error, which becomes the reply. *)
RespPut ==
    /\ conn.pc = "put"
    /\ IF "engine" \in open
       THEN RespWrites("put") /\ RespReply("ok", 0)
       ELSE UNCHANGED log /\ RespReply("failed", 0)
    /\ RespStep

(* DEL takes one key after the other: Get... *)
RespDelGet ==
    /\ conn.pc = "del" /\ conn.todo # <<>>
    /\ conn' = IF Found(Head(conn.todo)) THEN [conn EXCEPT !.pc = "delete"]
               ELSE [conn EXCEPT !.todo = Tail(@)]
    /\ RespStep /\ UNCHANGED <<log, replies>>

(* ...then Delete, which the key may have gone before. *)
RespDeleteCountsErrors ==
    /\ conn.pc = "delete"
    /\ IF "engine" \in open THEN RespWrites("delete") ELSE UNCHANGED log
    /\ conn' = [conn EXCEPT !.pc = "del", !.todo = Tail(@), !.n = @ + 1]
    /\ RespStep /\ UNCHANGED replies

RespDelete ==
    /\ conn.pc = "delete"
    /\ IF "engine" \in open
       THEN /\ RespWrites("delete")
            /\ conn' = [conn EXCEPT !.pc = "del", !.todo = Tail(@), !.n = @ + 1]
            /\ UNCHANGED replies
       ELSE UNCHANGED log /\ RespReply("failed", 0)
    /\ RespStep

RespDelDone ==
    /\ conn.pc = "del" /\ conn.todo = <<>>
    /\ RespReply("integer", conn.n)
    /\ RespStep /\ UNCHANGED log

Redis ==
    \/ RespConnect \/ RespClose \/ RespRead \/ RespPut \/ RespDelGet \/ RespDelete
    \/ RespDelDone \/ RespPanic

-----------------------------------------------------------------------------
Next ==
    \/ Main
    \/ Signal \/ ShutdownHTTP \/ GracefulStop
    \/ \E busy \in BOOLEAN : Scrape(busy)
    \/ \E c \in Callers :
          \/ CtlInvoke(c) \/ BenchExecute(c) \/ AppCall(c)
          \/ ConnectError(c) \/ GiveUp(c) \/ WatcherLeaves(c)
          \/ Arrive(c) \/ Handler(c)
    \/ ApplyLate
    \/ Redis

Spec == Init /\ [][Next]_vars

(* run(), the signal goroutine, a request's goroutine and the HTTP handlers run
   whenever they can; of raft it is assumed that it applies a command or reports it
   lost.  Nothing is assumed of clients, signals and the Redis connection. *)
FairSpec ==
    /\ Spec
    /\ WF_vars(Main) /\ WF_vars(ShutdownHTTP) /\ WF_vars(GracefulStop)
    /\ WF_vars(Scrape(FALSE))
    /\ \A c \in Callers : WF_vars(Handler(c))

-----------------------------------------------------------------------------
(* Properties. *)

(* Nothing uses a store that is closed: while a gRPC call is being served, and
   while raft runs, engine and offset store are open; and the process leaves
   neither them nor raft behind.  Three things the code does are outside it.  A
   bootstrap that failed is excepted, as replication.Open returns without stopping
   the raft it has started (node.go:118-120).  A Redis connection is served until
   the process ends and may use the closed engine (see RepliesMatchLog).  A panic,
   in Fetch or over the length of a Redis request, ends the process without any
   close: then nothing is open because nothing is left. *)
ClosedInOrder ==
    ~Fails("bootstrap") =>
    /\ "raft" \in open \/ (\E c \in Callers : srv[c] # "none")
          => {"engine", "offsets"} \subseteq open
    /\ phase = "exit" => open \cap {"engine", "offsets", "raft"} = {}

MatchesLog(t) ==
    /\ t.code \in RefusalCodes => RecordsBy(ByCall(t.id)) = {}
    /\ t.code = "OK" /\ t.req.rpc \in Mutations =>
          /\ t.pos \in 1..Len(log)
          /\ \/ RecordsBy(ByCall(t.id)) = {t.pos}
             \/ /\ RecordsBy(ByCall(t.id)) = {}
                /\ t.req.idem # NoIdem /\ log[t.pos].idem = t.req.idem
          /\ setting.profile = "durable" => log[t.pos].applied

(* Whatever is interleaved, an answer tells what the log says (state_server.go:
   58-179).  A call that was refused has left no record.  One that succeeded
   has one record at the position it was told, or none and the position of the
   record that has its idempotency key, and with the "durable" profile that
   record came through raft. *)
AnswersMatchLog == \A t \in told : MatchesLog(t)

ReplyMatchesLog(r) ==
    LET written == RecordsBy(ByConn(r.id)) IN
    /\ r.kind \in {"reply", "error"} => written = {}
    /\ r.kind = "ok" => Cardinality(written) = 1
    /\ r.kind = "integer" => Cardinality(written) = r.n
    /\ r.kind \in {"integer", "failed"} => \A p \in written : log[p].kind = "delete"

(* A Redis client is told what it did, while others write and the node shuts
   down (resp/server.go:64-118): OK is one record, an integer is as many
   tombstones, an error or a read is none; only a DEL that failed half way may
   have deleted some of its keys. *)
RepliesMatchLog ==
    \A i \in 1..Len(replies) : replies[i].id = i /\ ReplyMatchesLog(replies[i])

(* Every call that reaches the interceptors and is answered is counted once,
   refused ones and those whose client has given up included (metrics.go:62-78),
   until a panic takes the counter with it.  gRPC's own answers, to an unknown method
   or to a request that cannot be decoded, are not counted, and neither is Watch, a
   stream. *)
AnswersCounted ==
    panicked = {} => counted = answered + Cardinality({c \in Callers : srv[c] = "reply"})

(* Fetch indexes byteOffsets out of range only for offsets whose int is negative
   (wal.go:430). *)
FetchInRange == \A p \in panicked : p.via = "grpc" => p.n > 2^(Width - 1)

(* After a signal the process ends, unless a watcher of the health service stays
   (main.go:258-270). *)
ShutdownCompletes ==
    (sig # "none" /\ \A r \in setting.requests : r.rpc # "Watch") ~> phase = "exit"

(* "the gauge never lags behind what clients could already see" (metrics.go:57):
   no client has been told a position above the gauge. *)
GaugeNeverLags == \A t \in told : t.pos <= gauge
=============================================================================
