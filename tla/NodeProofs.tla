----------------------------- MODULE NodeProofs -----------------------------
(***************************************************************************)
(* Proofs about Node, for every set of callers and settings.               *)
(***************************************************************************)
EXTENDS Node, FiniteSetTheorems, TLAPS

(* What is left of a sequence after its head. *)
LEMMA TailType ==
  ASSUME NEW S, NEW s \in Seq(S), s # << >>
  PROVE  Tail(s) \in Seq(S)
  OBVIOUS

(* Sequences are equal when their elements are. *)
LEMMA SameSeq ==
  ASSUME NEW S, NEW s \in Seq(S), NEW t \in Seq(S), Len(s) = Len(t),
         \A i \in 1..Len(s) : s[i] = t[i]
  PROVE  s = t
  OBVIOUS

Stores == {"engine", "offsets", "raft"}

(* gRPC serves, and calls are in their handlers, only while run() is in Serve and
   the signal goroutine has not stopped it yet. *)
Serving ==
    /\ srv \in [Callers -> ServerSteps]
    /\ sig # "none" => phase \in {"serve", "unwind", "exit"}
    /\ "grpc" \in open => phase = "serve" /\ sig # "done"
    /\ \A c \in Callers : srv[c] # "none" => phase = "serve" /\ sig # "done"

(* What is deferred is what is open, in the order of run(). *)
Deferred ==
    /\ phase \in Phases
    /\ phase \in {"config", "engine"} => defers = <<>> /\ open \cap Stores = {}
    /\ phase = "offsets" => defers = <<"engine">> /\ open \cap Stores = {"engine"}
    /\ phase = "raft" => /\ defers = <<"offsets", "engine">>
                         /\ open \cap Stores = {"engine", "offsets"}
    /\ phase \in {"listen", "credentials", "start", "serve"} =>
          \/ defers = <<"offsets", "engine">> /\ open \cap Stores = {"engine", "offsets"}
          \/ defers = <<"raft", "offsets", "engine">> /\ open \cap Stores = Stores
    /\ phase = "unwind" =>
          \/ defers = <<>> /\ open \cap Stores = {}
          \/ defers = <<"engine">> /\ open \cap Stores = {"engine"}
          \/ defers = <<"offsets", "engine">> /\ open \cap Stores = {"engine", "offsets"}
          \/ defers = <<"raft", "offsets", "engine">> /\ open \cap Stores = Stores
    /\ phase = "exit" => open \cap Stores = {}

CloseInv == Serving /\ (~Fails("bootstrap") => Deferred)

LEMMA CloseInit == Init => CloseInv
  BY Zenon DEF Init, CloseInv, Serving, Deferred, Phases, ServerSteps

LEMMA ServingStep == Serving /\ [Next]_vars => Serving'
<1> SUFFICES ASSUME Serving, [Next]_vars PROVE Serving'
  BY Zenon
<1>1. CASE Main
  BY <1>1 DEF Main, CheckConfig, OpenEngine, OpenOffsets, OpenRaft, Listen, LoadCredentials,
     StartServing, ServeReturns, Unwind, Exit, Die, Run, Opens, OpensNothing, Serving,
     ServerSteps, callVars
<1>2. CASE Signal \/ ShutdownHTTP \/ GracefulStop \/ \E busy \in BOOLEAN : Scrape(busy)
  BY <1>2, Zenon DEF Signal, ShutdownHTTP, GracefulStop, Signalled, Scrape, Serving, ServerSteps,
     callVars
<1>3. ASSUME NEW c \in Callers, CtlInvoke(c) \/ BenchExecute(c) \/ AppCall(c)
      PROVE Serving'
  BY <1>3, Zenon DEF CtlInvoke, BenchExecute, AppCall, Starts, Serving, procVars
<1>4. ASSUME NEW c \in Callers, ConnectError(c) \/ GiveUp(c) \/ WatcherLeaves(c)
      PROVE Serving'
  BY <1>4, Zenon DEF ConnectError, GiveUp, WatcherLeaves, Leaves, Serving, ServerSteps, procVars
<1>5. ASSUME NEW c \in Callers, Arrive(c)
      PROVE Serving'
  BY <1>5, Zenon DEF Arrive, Serves, Reachable, Serving, ServerSteps, procVars
<1>6. ASSUME NEW c \in Callers, Handler(c)
      PROVE Serving'
  <2>1. CASE Fetch(c)
    <3>1. CASE \E n : Panic("grpc", n)
      BY <3>1, Zenon DEF Panic, Die, Serving, ServerSteps
    <3>2. CASE Serves(c, "handler", "count")
      BY <3>2, Zenon DEF Serves, Serving, ServerSteps, procVars
    <3> QED BY <2>1, <3>1, <3>2, Zenon DEF Fetch
  <2>2. CASE Reply(c) \/ ReplyError(c)
    BY <2>2, Zenon DEF Reply, ReplyError, Answers, Serving, ServerSteps, procVars
  <2>3. CASE Read(c) \/ CommitOffset(c) \/ NotLeader(c) \/ Propose(c)
    BY <2>3, Zenon DEF Read, CommitOffset, NotLeader, Propose, InHandler, Serves, Serving,
       ServerSteps, procVars
  <2>4. CASE MutateDirectly(c) \/ LeadershipLost(c) \/ Apply(c) \/ SetGauge(c) \/ Count(c)
    BY <2>4, Zenon DEF MutateDirectly, LeadershipLost, Apply, SetGauge, Count, AfterMutation,
       InHandler, Serves, Serving, ServerSteps, procVars
  <2> QED BY <1>6, <2>1, <2>2, <2>3, <2>4, Zenon DEF Handler
<1>7. CASE ApplyLate
  BY <1>7, Zenon DEF ApplyLate, Serving, procVars
<1>8. CASE Redis
  BY <1>8, Zenon DEF Redis, RespConnect, RespClose, RespRead, RespPut, RespDelGet, RespDelete,
     RespDelDone, RespPanic, Panic, Die, RespStep, Serving, ServerSteps, procVars, callVars
<1>9. CASE UNCHANGED vars
  BY <1>9, Zenon DEF vars, procVars, callVars, Serving
<1> QED BY <1>1, <1>2, <1>3, <1>4, <1>5, <1>6, <1>7, <1>8, <1>9, Zenon DEF Next

(* The stack of deferred closes. *)
LEMMA PushTwo ==
  ASSUME NEW S, NEW x \in S, NEW y \in S
  PROVE  <<x>> \o <<y>> = <<x, y>>
<1> DEFINE s == <<x>> \o <<y>>
           t == <<x, y>>
<1>1. s \in Seq(S) /\ Len(s) = 2 /\ s[1] = x /\ s[2] = y
  OBVIOUS
<1>2. t \in Seq(S) /\ Len(t) = 2 /\ t[1] = x /\ t[2] = y
  OBVIOUS
<1> HIDE DEF s, t
<1>3. Len(s) = Len(t) /\ \A i \in 1..Len(s) : s[i] = t[i]
  BY <1>1, <1>2
<1>4. s = t
  BY <1>1, <1>2, <1>3, SameSeq, Zenon
<1> QED BY <1>4, Zenon DEF s, t

LEMMA PushThree ==
  ASSUME NEW S, NEW x \in S, NEW y \in S, NEW z \in S
  PROVE  <<x>> \o <<y, z>> = <<x, y, z>>
<1> DEFINE s == <<x>> \o <<y, z>>
           t == <<x, y, z>>
<1>1. s \in Seq(S) /\ Len(s) = 3 /\ s[1] = x /\ s[2] = y /\ s[3] = z
  OBVIOUS
<1>2. t \in Seq(S) /\ Len(t) = 3 /\ t[1] = x /\ t[2] = y /\ t[3] = z
  OBVIOUS
<1> HIDE DEF s, t
<1>3. Len(s) = Len(t) /\ \A i \in 1..Len(s) : s[i] = t[i]
  BY <1>1, <1>2
<1>4. s = t
  BY <1>1, <1>2, <1>3, SameSeq, Zenon
<1> QED BY <1>4, Zenon DEF s, t

LEMMA Pushes ==
  /\ <<"engine">> \o <<>> = <<"engine">>
  /\ <<"offsets">> \o <<"engine">> = <<"offsets", "engine">>
  /\ <<"raft">> \o <<"offsets", "engine">> = <<"raft", "offsets", "engine">>
<1>1. <<"engine">> \o <<>> = <<"engine">>
  OBVIOUS
<1>2. "engine" \in Stores /\ "offsets" \in Stores /\ "raft" \in Stores
  BY Zenon DEF Stores
<1> QED BY <1>1, <1>2, PushTwo, PushThree, Zenon

LEMMA Pops ==
  /\ Head(<<"engine">>) = "engine" /\ Tail(<<"engine">>) = <<>>
  /\ Head(<<"offsets", "engine">>) = "offsets" /\ Tail(<<"offsets", "engine">>) = <<"engine">>
  /\ Head(<<"raft", "offsets", "engine">>) = "raft"
  /\ Tail(<<"raft", "offsets", "engine">>) = <<"offsets", "engine">>
  OBVIOUS

LEMMA DeferredStep ==
  Serving /\ Deferred /\ ~Fails("bootstrap") /\ [Next]_vars => Deferred'
<1> SUFFICES ASSUME Serving, Deferred, ~Fails("bootstrap"), [Next]_vars
             PROVE  Deferred'
  BY Zenon
<1>1. CASE Main
  <2>1. CASE CheckConfig \/ OpenEngine \/ OpenOffsets
    BY <2>1, Pushes, Zenon DEF CheckConfig, OpenEngine, OpenOffsets, Run, Opens, OpensNothing,
       Deferred, Phases, Stores
  <2>2. CASE OpenRaft
    BY <2>2, Pushes, Zenon DEF OpenRaft, Run, Opens, OpensNothing, Deferred, Phases, Stores, Fails
  <2>3. CASE Listen \/ LoadCredentials \/ StartServing \/ ServeReturns
    BY <2>3, Zenon DEF Listen, LoadCredentials, StartServing, ServeReturns, Run, OpensNothing,
       Deferred, Phases, Stores
  <2>4. CASE Unwind
    <3>1. phase = "unwind" /\ phase' = "unwind"
      BY <2>4, Zenon DEF Unwind, Run
    <3>2. CASE defers = <<"engine">> /\ open \cap Stores = {"engine"}
      BY <2>4, <3>1, <3>2, Pops, Zenon DEF Unwind, Deferred, Phases, Stores
    <3>3. CASE defers = <<"offsets", "engine">> /\ open \cap Stores = {"engine", "offsets"}
      BY <2>4, <3>1, <3>3, Pops, Zenon DEF Unwind, Deferred, Phases, Stores
    <3>4. CASE defers = <<"raft", "offsets", "engine">> /\ open \cap Stores = Stores
      BY <2>4, <3>1, <3>4, Pops, Zenon DEF Unwind, Deferred, Phases, Stores
    <3> QED BY <2>4, <3>1, <3>2, <3>3, <3>4, Zenon DEF Unwind, Deferred
  <2>5. CASE Exit
    BY <2>5, Zenon DEF Exit, Die, Deferred, Phases, Stores
  <2> QED BY <1>1, <2>1, <2>2, <2>3, <2>4, <2>5, Zenon DEF Main
<1>2. CASE Signal \/ ShutdownHTTP \/ GracefulStop \/ \E busy \in BOOLEAN : Scrape(busy)
  BY <1>2, Zenon DEF Signal, ShutdownHTTP, GracefulStop, Signalled, Scrape, Deferred, Stores
<1>3. ASSUME NEW c \in Callers,
             CtlInvoke(c) \/ BenchExecute(c) \/ AppCall(c) \/ ConnectError(c) \/ GiveUp(c)
                \/ WatcherLeaves(c) \/ Arrive(c)
      PROVE  Deferred'
  BY <1>3, Zenon DEF CtlInvoke, BenchExecute, AppCall, Starts, ConnectError, GiveUp,
     WatcherLeaves, Leaves, Arrive, Serves, Deferred, procVars
<1>4. ASSUME NEW c \in Callers, Handler(c)
      PROVE  Deferred'
  <2>1. CASE Fetch(c)
    BY <2>1, Zenon DEF Fetch, Panic, Die, Serves, Deferred, Phases, Stores, procVars
  <2>2. CASE Reply(c) \/ ReplyError(c)
    BY <2>2, Zenon DEF Reply, ReplyError, Answers, Deferred, procVars
  <2>3. CASE ~Fetch(c) /\ ~Reply(c) /\ ~ReplyError(c)
    BY <1>4, <2>3, Zenon DEF Handler, Read, CommitOffset, NotLeader, Propose, MutateDirectly,
       LeadershipLost, Apply, SetGauge, Count, Serves, Deferred, procVars
  <2> QED BY <2>1, <2>2, <2>3, Zenon
<1>5. CASE ApplyLate \/ Redis \/ UNCHANGED vars
  BY <1>5, Zenon DEF ApplyLate, Redis, RespConnect, RespClose, RespRead, RespPut, RespDelGet,
     RespDelete, RespDelDone, RespPanic, Panic, Die, RespStep, vars, procVars, Deferred, Phases,
     Stores
<1> QED BY <1>1, <1>2, <1>3, <1>4, <1>5, Zenon DEF Next

(* Settings are fixed, and a panic is remembered. *)
LEMMA Remembering ==
  [Next]_vars => setting' = setting /\ (panicked' = {} => panicked = {})
<1> SUFFICES ASSUME [Next]_vars
             PROVE  setting' = setting /\ (panicked' = {} => panicked = {})
  BY Zenon
<1>1. CASE Main
  BY <1>1, Zenon DEF Main, CheckConfig, OpenEngine, OpenOffsets, OpenRaft, Listen,
     LoadCredentials, StartServing, ServeReturns, Unwind, Exit, Die, Run, histVars
<1>2. CASE Signal \/ ShutdownHTTP \/ GracefulStop \/ \E busy \in BOOLEAN : Scrape(busy)
  BY <1>2, Zenon DEF Signal, ShutdownHTTP, GracefulStop, Signalled, Scrape, histVars
<1>3. ASSUME NEW c \in Callers,
             CtlInvoke(c) \/ BenchExecute(c) \/ AppCall(c) \/ ConnectError(c) \/ GiveUp(c)
                \/ WatcherLeaves(c) \/ Arrive(c)
      PROVE  setting' = setting /\ panicked' = panicked
  BY <1>3, Zenon DEF CtlInvoke, BenchExecute, AppCall, Starts, ConnectError, GiveUp,
     WatcherLeaves, Leaves, Arrive, Serves, histVars
<1>4. ASSUME NEW c \in Callers, Handler(c)
      PROVE  setting' = setting /\ (panicked' = {} => panicked = {})
  BY <1>4, Zenon DEF Handler, Read, Fetch, Panic, Die, CommitOffset, NotLeader, Propose,
     MutateDirectly, LeadershipLost, Apply, SetGauge, Count, Reply, ReplyError, Answers, Serves
<1>5. CASE ApplyLate \/ Redis \/ UNCHANGED vars
  BY <1>5, Zenon DEF ApplyLate, Redis, RespConnect, RespClose, RespRead, RespPut, RespDelGet,
     RespDelete, RespDelDone, RespPanic, Panic, Die, RespStep, vars, histVars
<1> QED BY <1>1, <1>2, <1>3, <1>4, <1>5, Zenon DEF Next

LEMMA CloseStep == CloseInv /\ [Next]_vars => CloseInv'
  BY ServingStep, DeferredStep, Remembering, Zenon DEF CloseInv, Fails

(* The stores outlive all who use them, whatever fails at start-up and whenever
   the signal comes: main.go's deferred closes run in the right order, after
   GracefulStop has waited for every call. *)
THEOREM StoresCloseLast == Spec => []ClosedInOrder
<1>1. CloseInv => ClosedInOrder
  BY DEF CloseInv, Serving, Deferred, Phases, Stores, ClosedInOrder
<1> QED BY <1>1, CloseInit, CloseStep, PTL DEF Spec

-----------------------------------------------------------------------------
(* The request counter. *)

Replying == {c \in Callers : srv[c] = "reply"}

CountInv ==
    /\ Serving
    /\ counted \in Nat /\ answered \in Nat
    /\ panicked = {} => counted = answered + Cardinality(Replying)

LEMMA ReplyingFinite ==
  /\ IsFiniteSet(Replying) /\ Cardinality(Replying) \in Nat
  /\ Cardinality({}) = 0
  BY ConstantsAssumption, FS_Subset, FS_CardinalityType, FS_EmptySet, Zenon DEF Replying

LEMMA CountInit == Init => CountInv
<1> SUFFICES ASSUME Init PROVE CountInv
  BY Zenon
<1>1. Serving
  BY CloseInit, Zenon DEF CloseInv
<1>2. Replying = {}
  BY Zenon DEF Init, Replying
<1> QED BY <1>1, <1>2, ReplyingFinite DEF Init, CountInv

(* A step that moves no call to or from "reply", and counts and answers nothing. *)
LEMMA CountFrame ==
  ASSUME CountInv, [Next]_vars, Replying' = Replying, UNCHANGED <<counted, answered>>
  PROVE  CountInv'
<1>1. Serving'
  BY ServingStep, Zenon DEF CountInv
<1>2. Cardinality(Replying)' = Cardinality(Replying)
  BY Zenon
<1> QED BY <1>1, <1>2, Remembering, Zenon DEF CountInv

(* A panic takes the counter with it. *)
LEMMA PanicCounts ==
  ASSUME CountInv, [Next]_vars, NEW via, NEW n, Panic(via, n)
  PROVE  CountInv'
<1>1. UNCHANGED <<counted, answered>> /\ panicked' # {}
  BY Zenon DEF Panic, Die, meterVars
<1> QED BY <1>1, ServingStep, Zenon DEF CountInv

LEMMA CountStep == CountInv /\ [Next]_vars => CountInv'
<1> SUFFICES ASSUME CountInv, [Next]_vars PROVE CountInv'
  OBVIOUS
<1>1. CASE Main
  <2>1. UNCHANGED <<counted, answered>>
    BY <1>1, Zenon DEF Main, CheckConfig, OpenEngine, OpenOffsets, OpenRaft, Listen,
       LoadCredentials, StartServing, ServeReturns, Unwind, Exit, Die, Run, histVars, meterVars
  <2>2. Replying' = Replying
    <3>1. CASE Exit
      BY <3>1, Zenon DEF Exit, Die, CountInv, Serving, Replying
    <3>2. CASE ~Exit
      BY <1>1, <3>2, Zenon DEF Main, CheckConfig, OpenEngine, OpenOffsets, OpenRaft, Listen,
         LoadCredentials, StartServing, ServeReturns, Unwind, Run, callVars, Replying
    <3> QED BY <3>1, <3>2, Zenon
  <2> QED BY <2>1, <2>2, CountFrame, Zenon
<1>2. CASE Signal \/ ShutdownHTTP \/ GracefulStop \/ \E busy \in BOOLEAN : Scrape(busy)
  <2>1. UNCHANGED <<counted, answered>> /\ Replying' = Replying
    BY <1>2, Zenon DEF Signal, ShutdownHTTP, GracefulStop, Signalled, Scrape, histVars,
       meterVars, callVars, Replying
  <2> QED BY <2>1, CountFrame, Zenon
<1>3. ASSUME NEW c \in Callers,
             CtlInvoke(c) \/ BenchExecute(c) \/ AppCall(c) \/ ConnectError(c) \/ GiveUp(c)
                \/ WatcherLeaves(c)
      PROVE  CountInv'
  <2>1. UNCHANGED <<counted, answered>> /\ Replying' = Replying
    BY <1>3, Zenon DEF CtlInvoke, BenchExecute, AppCall, Starts, ConnectError, GiveUp,
       WatcherLeaves, Leaves, histVars, meterVars, Replying, CountInv, Serving
  <2> QED BY <2>1, CountFrame, Zenon
<1>4. ASSUME NEW c \in Callers, Arrive(c)
      PROVE  CountInv'
  <2>1. UNCHANGED <<counted, answered>> /\ Replying' = Replying
    BY <1>4, Zenon DEF Arrive, Serves, meterVars, Replying, CountInv, Serving
  <2> QED BY <2>1, CountFrame
<1>5. ASSUME NEW c \in Callers, Handler(c)
      PROVE  CountInv'
  <2>1. CASE Count(c)
    <3>1. counted' = counted + 1 /\ answered' = answered /\ panicked' = panicked
      BY <2>1, Zenon DEF Count, Serves
    <3>2. Replying' = Replying \cup {c} /\ c \notin Replying
      BY <2>1, Zenon DEF Count, Serves, Replying, CountInv, Serving
    <3>3. Cardinality(Replying') = Cardinality(Replying) + 1
      BY <3>2, ReplyingFinite, FS_AddElement, Zenon
    <3>4. Serving'
      BY ServingStep, Zenon DEF CountInv
    <3> QED BY <3>1, <3>3, <3>4, ReplyingFinite DEF CountInv
  <2>2. CASE Reply(c)
    <3>1. counted' = counted /\ answered' = answered + 1 /\ panicked' = panicked
      BY <2>2, Zenon DEF Reply, Answers, meterVars
    <3>2. Replying' = Replying \ {c} /\ c \in Replying
      BY <2>2, Zenon DEF Reply, Answers, Replying, CountInv, Serving
    <3>3. Cardinality(Replying') = Cardinality(Replying) - 1
      BY <3>2, ReplyingFinite, FS_RemoveElement, Zenon
    <3>4. Serving'
      BY ServingStep DEF CountInv
    <3> QED BY <3>1, <3>3, <3>4, ReplyingFinite DEF CountInv
  <2>3. CASE Fetch(c)
    <3>1. CASE \E n : Panic("grpc", n)
      BY <3>1, PanicCounts, Zenon
    <3>2. CASE Serves(c, "handler", "count") /\ UNCHANGED <<meterVars, answered>>
      <4>1. UNCHANGED <<counted, answered>> /\ Replying' = Replying
        BY <3>2, Zenon DEF Serves, meterVars, Replying, CountInv, Serving
      <4> QED BY <4>1, CountFrame
    <3> QED BY <2>3, <3>1, <3>2, Zenon DEF Fetch
  <2>4. CASE Read(c) \/ CommitOffset(c) \/ NotLeader(c) \/ Propose(c)
    <3>1. UNCHANGED <<counted, answered>> /\ Replying' = Replying
      BY <2>4, Zenon DEF Read, CommitOffset, NotLeader, Propose, Serves, meterVars, Replying,
         CountInv, Serving
    <3> QED BY <3>1, CountFrame
  <2>5. CASE MutateDirectly(c) \/ LeadershipLost(c) \/ Apply(c) \/ SetGauge(c)
    <3>1. UNCHANGED <<counted, answered>> /\ Replying' = Replying
      BY <2>5, Zenon DEF MutateDirectly, LeadershipLost, Apply, SetGauge, AfterMutation, Serves,
         meterVars, Replying, CountInv, Serving
    <3> QED BY <3>1, CountFrame
  <2>6. CASE ReplyError(c)
    <3>1. UNCHANGED <<counted, answered>> /\ Replying' = Replying
      BY <2>6, Zenon DEF ReplyError, Answers, meterVars, Replying, CountInv, Serving
    <3> QED BY <3>1, CountFrame
  <2> QED BY <1>5, <2>1, <2>2, <2>3, <2>4, <2>5, <2>6, Zenon DEF Handler
<1>7. CASE RespPanic
  BY <1>7, PanicCounts, Zenon DEF RespPanic
<1>6. CASE ApplyLate \/ (Redis /\ ~RespPanic) \/ UNCHANGED vars
  <2>1. UNCHANGED <<counted, answered>> /\ Replying' = Replying
    BY <1>6, Zenon DEF ApplyLate, Redis, RespConnect, RespClose, RespRead, RespPut, RespDelGet,
       RespDelete, RespDelDone, RespStep, vars, histVars, meterVars, callVars, Replying
  <2> QED BY <2>1, CountFrame
<1> QED BY <1>1, <1>2, <1>3, <1>4, <1>5, <1>6, <1>7, Zenon DEF Next

(* The request counter is exact for any number of calls under way, refused and
   abandoned ones included: the metrics interceptor is the outermost, and only what
   gRPC answers by itself does not pass it. *)
THEOREM EveryAnswerCounted == Spec => []AnswersCounted
<1>1. CountInv => AnswersCounted
  BY Zenon DEF CountInv, Replying, AnswersCounted
<1> QED BY <1>1, CountInit, CountStep, PTL DEF Spec

-----------------------------------------------------------------------------
(* Types. *)

(* A command that is under way has a key left, and a call that is being served
   has a caller. *)
TypeInv ==
    /\ TypeOK
    /\ conn.pc \in {"put", "delete"} => conn.todo # <<>>
    /\ \A c \in Callers : srv[c] # "none" => client[c] # "idle"

Codes == RefusalCodes \cup {"none", "OK", "Unavailable"}

LEMMA NoCallIsNone == NoCall \notin CallRecord
<1> SUFFICES ASSUME NoCall \in CallRecord PROVE FALSE
  BY Zenon
<1>1. DOMAIN NoCall = {}
  BY DEF NoCall
<1>2. "id" \in DOMAIN NoCall
  BY Zenon DEF CallRecord
<1> QED BY <1>1, <1>2, Zenon

LEMMA RequestTypes ==
  /\ \A line \in CommandLine : CtlRequest(line) \in Request
  /\ \A op, token : BenchRequest(op, token) \in Request
<1>1. ASSUME NEW rpc \in Rpcs PROVE Call(rpc) \in Request
  BY Zenon DEF Call, Request
<1>2. ASSUME NEW line \in CommandLine PROVE CtlRequest(line) \in Request
  <2>1. /\ line.rpc \in Rpcs /\ line.from \in Nat
        /\ line.token \in {"none", "bearer", "bare", "wrong"}
    BY Zenon DEF CommandLine
  <2> QED BY <1>1, <2>1, Zenon DEF CtlRequest, Call, Request
<1>3. ASSUME NEW op, NEW token PROVE BenchRequest(op, token) \in Request
  <2>1. PICK rpc \in Rpcs : rpc = IF op = "OpGet" THEN "Get" ELSE "Put"
    BY Zenon DEF Rpcs, StateRpcs
  <2>2. PICK auth \in {"none", "bearer"} : auth = IF token THEN "bearer" ELSE "none"
    BY Zenon
  <2>3. [Call(rpc) EXCEPT !.auth = auth] \in Request
    BY <2>2, Zenon DEF Call, Request
  <2> QED BY <2>1, <2>2, <2>3, Zenon DEF BenchRequest
<1> QED BY <1>2, <1>3, Zenon

LEMMA ConnectionTypes ==
  /\ <<>> \in Seq(Line) /\ <<>> \in Seq(STRING)
  /\ NoConn \in ConnRecord
  /\ \A pc \in {"none", "read", "put", "del", "delete", "closed"} :
         [NoConn EXCEPT !.pc = pc] \in ConnRecord
<1>1. <<>> \in Seq(Line) /\ <<>> \in Seq(STRING)
  OBVIOUS
<1> QED BY <1>1, Zenon DEF NoConn, ConnRecord

LEMMA TypeInit == Init => TypeInv
<1> SUFFICES ASSUME Init PROVE TypeInv
  OBVIOUS
<1>1. NoConn \in ConnRecord
  BY ConnectionTypes, Zenon
<1>2. conn.pc = "none"
  BY Zenon DEF Init, NoConn
<1>3. log \in Seq(LogRecord) /\ replies \in Seq(ReplyRecord) /\ defers \in Seq(Resources)
  BY DEF Init
<1>4. /\ call \in [Callers -> CallRecord \cup {NoCall}] /\ srv \in [Callers -> ServerSteps]
      /\ client \in [Callers -> {"idle", "waiting", "gaveup"}]
      /\ \A c \in Callers : call[c] = NoCall /\ client[c] = "idle" /\ srv[c] = "none"
  BY Zenon DEF Init, ServerSteps
<1>5. TypeOK
  <2>1. phase \in Phases /\ sig \in {"none", "caught", "stopping", "done"} /\ scrape \in BOOLEAN
    BY Zenon DEF Init, Phases
  <2>2. {offset, gauge, counted, calls, answered} \subseteq Nat
    BY DEF Init
  <2>3. /\ setting \in Settings /\ open \subseteq Resources /\ raftq \subseteq CallRecord
        /\ told \subseteq CallRecord /\ panicked \subseteq PanicRecord
        /\ conn \in ConnRecord
    BY <1>1, Zenon DEF Init
  <2> QED BY <1>3, <1>4, <2>1, <2>2, <2>3, Zenon DEF TypeOK
<1> QED BY <1>2, <1>4, <1>5, Zenon DEF TypeInv

(* What an answer changes of a call. *)
LEMMA ResultEffect ==
  ASSUME TypeInv, NEW c \in Callers, client[c] # "idle", NEW code \in Codes, NEW pos \in Nat,
         Result(c, code, pos)
  PROVE  /\ call[c] \in CallRecord /\ call' \in [Callers -> CallRecord \cup {NoCall}]
         /\ call'[c] \in CallRecord
         /\ call'[c].id = call[c].id /\ call'[c].req = call[c].req
         /\ call'[c].code = code /\ call'[c].pos = pos
         /\ \A d \in Callers \ {c} : call'[d] = call[d]
<1>1. call \in [Callers -> CallRecord \cup {NoCall}] /\ call[c] \in CallRecord
  BY Zenon DEF TypeInv, TypeOK
<1>2. call' = [call EXCEPT ![c] = [call[c] EXCEPT !.code = code, !.pos = pos]]
  BY <1>1, Zenon DEF Result
<1>3. [call[c] EXCEPT !.code = code, !.pos = pos] \in CallRecord
  BY <1>1, Zenon DEF CallRecord, Codes
<1> QED BY <1>1, <1>2, <1>3, Zenon DEF CallRecord

LEMMA DieTypes ==
  ASSUME TypeInv, Die, open' \subseteq Resources, panicked' \subseteq PanicRecord
  PROVE  TypeInv'
<1>1. conn' \in ConnRecord /\ conn'.pc = "closed"
  BY ConnectionTypes, Zenon DEF Die, NoConn
<1>2. call' \in [Callers -> CallRecord \cup {NoCall}] /\ raftq' \subseteq CallRecord
  BY Zenon DEF Die
<1>3. \A c \in Callers : call'[c] = NoCall /\ client'[c] = "idle" /\ srv'[c] = "none"
  BY Zenon DEF Die
<1> QED BY <1>1, <1>2, <1>3, Zenon DEF Die, TypeInv, TypeOK, storeVars, meterVars, Phases,
   ServerSteps

LEMMA PanicTypes ==
  ASSUME TypeInv, NEW via \in {"grpc", "resp"}, NEW n \in Nat, Panic(via, n)
  PROVE  TypeInv'
<1>1. [via |-> via, n |-> n] \in PanicRecord
  BY Zenon DEF PanicRecord
<1>2. Die /\ open' \subseteq Resources /\ panicked' \subseteq PanicRecord
  BY <1>1, Zenon DEF Panic, TypeInv, TypeOK
<1> QED BY <1>2, DieTypes, Zenon

LEMMA MainTypes == TypeInv /\ Main => TypeInv'
<1> SUFFICES ASSUME TypeInv, Main PROVE TypeInv'
  BY Zenon
<1>1. CASE Exit
  BY <1>1, DieTypes, Zenon DEF Exit, TypeInv, TypeOK
<1>2. CASE ~Exit
  <2>1. phase' \in Phases /\ open' \subseteq Resources /\ defers' \in Seq(Resources)
    <3>1. CASE CheckConfig \/ Listen \/ LoadCredentials \/ StartServing \/ ServeReturns
      BY <3>1, ZenonT(40) DEF CheckConfig, Listen, LoadCredentials, StartServing, ServeReturns,
         Run, OpensNothing, TypeInv, TypeOK, Phases, Resources
    <3>2. ASSUME NEW resource \in Resources, Opens(resource)
          PROVE  open' \subseteq Resources /\ defers' \in Seq(Resources)
      BY <3>2 DEF Opens, TypeInv, TypeOK
    <3>3. "engine" \in Resources /\ "offsets" \in Resources /\ "raft" \in Resources
      BY Zenon DEF Resources
    <3>4. CASE OpenEngine \/ OpenOffsets \/ OpenRaft
      BY <3>2, <3>3, <3>4, Zenon DEF OpenEngine, OpenOffsets, OpenRaft, Run, OpensNothing,
         TypeInv, TypeOK, Phases
    <3>5. CASE Unwind
      BY <3>5 DEF Unwind, Run, TypeInv, TypeOK, Phases
    <3> QED BY <1>2, <3>1, <3>4, <3>5, Zenon DEF Main
  <2>2. UNCHANGED <<setting, sig, scrape, storeVars, meterVars, callVars, conn, histVars>>
    BY <1>2, Zenon DEF Main, CheckConfig, OpenEngine, OpenOffsets, OpenRaft, Listen,
       LoadCredentials, StartServing, ServeReturns, Unwind, Run
  <2> QED BY <2>1, <2>2, Zenon DEF TypeInv, TypeOK, storeVars, meterVars, callVars, histVars
<1> QED BY <1>1, <1>2, Zenon

LEMMA SignalTypes ==
  TypeInv /\ (Signal \/ ShutdownHTTP \/ GracefulStop \/ \E busy \in BOOLEAN : Scrape(busy))
     => TypeInv'
<1> SUFFICES ASSUME TypeInv,
                    Signal \/ ShutdownHTTP \/ GracefulStop \/ \E busy \in BOOLEAN : Scrape(busy)
             PROVE  TypeInv'
  BY Zenon
<1>1. /\ open' \subseteq Resources
      /\ sig' \in {"none", "caught", "stopping", "done"} /\ scrape' \in BOOLEAN
  BY Zenon DEF Signal, ShutdownHTTP, GracefulStop, Signalled, Scrape, TypeInv, TypeOK
<1>2. UNCHANGED <<setting, phase, defers, storeVars, meterVars, callVars, conn, histVars>>
  BY Zenon DEF Signal, ShutdownHTTP, GracefulStop, Signalled, Scrape
<1> QED BY <1>1, <1>2, Zenon DEF TypeInv, TypeOK, storeVars, meterVars, callVars, histVars

(* A new call. *)
LEMMA StartsTypes ==
  ASSUME TypeInv, NEW c \in Callers, NEW req \in Request,
         NEW transport \in {"plaintext", "tls"}, Starts(c, req, transport)
  PROVE  TypeInv'
<1>1. [id |-> calls', req |-> req, transport |-> transport, code |-> "none", pos |-> 0] \in CallRecord
  BY DEF Starts, CallRecord, TypeInv, TypeOK
<1>2. call' \in [Callers -> CallRecord \cup {NoCall}] /\ client' \in [Callers -> {"idle", "waiting", "gaveup"}]
  BY <1>1, Zenon DEF Starts, TypeInv, TypeOK
<1>3. \A d \in Callers : call'[d] = NoCall <=> client'[d] = "idle"
  BY <1>1, NoCallIsNone, Zenon DEF Starts, TypeInv, TypeOK
<1>4. UNCHANGED <<setting, procVars, storeVars, meterVars, raftq, srv, conn, histVars>> /\ calls' \in Nat
  BY DEF Starts, TypeInv, TypeOK
<1>5. \A d \in Callers : srv[d] # "none" => client'[d] # "idle"
  BY Zenon DEF Starts, TypeInv, TypeOK
<1> QED BY <1>2, <1>3, <1>4, <1>5, Zenon DEF TypeInv, TypeOK, procVars, storeVars, meterVars,
   histVars

LEMMA ClientTypes ==
  ASSUME TypeInv, NEW c \in Callers,
         CtlInvoke(c) \/ BenchExecute(c) \/ AppCall(c)
  PROVE  \E req \in Request, transport \in {"plaintext", "tls"} : Starts(c, req, transport)
<1>0. /\ setting.lines \subseteq CommandLine /\ setting.requests \subseteq Request
  BY ConstantsAssumption, Zenon DEF TypeInv, TypeOK, IsSetting
<1>1. CASE CtlInvoke(c)
  BY <1>0, <1>1, RequestTypes, Zenon DEF CtlInvoke, Transport
<1>2. CASE BenchExecute(c)
  BY <1>2, RequestTypes, Zenon DEF BenchExecute, ServerTransport
<1>3. CASE AppCall(c)
  BY <1>0, <1>3, Zenon DEF AppCall, ServerTransport
<1> QED BY <1>1, <1>2, <1>3, Zenon

LEMMA LeavesTypes ==
  ASSUME TypeInv, NEW c \in Callers, ConnectError(c) \/ GiveUp(c) \/ WatcherLeaves(c)
  PROVE  TypeInv'
<1>1. PICK state \in {"idle", "gaveup"} :
         /\ Leaves(c, state)
         /\ client[c] = "waiting"
         /\ srv' \in [Callers -> ServerSteps]
         /\ state = "idle" => srv'[c] = "none"
         /\ \A d \in Callers \ {c} : srv'[d] = srv[d]
  BY Zenon DEF ConnectError, GiveUp, WatcherLeaves, TypeInv, TypeOK, ServerSteps
<1>2. /\ client' \in [Callers -> {"idle", "waiting", "gaveup"}]
      /\ call' \in [Callers -> CallRecord \cup {NoCall}]
      /\ \A d \in Callers : call'[d] = NoCall <=> client'[d] = "idle"
  BY <1>1, Zenon DEF Leaves, TypeInv, TypeOK
<1>3. \A d \in Callers : srv'[d] # "none" => client'[d] # "idle"
  BY <1>1, Zenon DEF Leaves, TypeInv, TypeOK
<1> QED BY <1>1, <1>2, <1>3, Zenon DEF Leaves, TypeInv, TypeOK, procVars, storeVars, meterVars,
   histVars

LEMMA LogAfterType ==
  ASSUME TypeInv, NEW req \in Request, NEW id \in Nat, NEW applied \in BOOLEAN
  PROVE  LogAfter(req, id, applied) \in Seq(LogRecord)
<1> DEFINE kind == IF req.rpc = "Delete" THEN "delete" ELSE "put"
           record == [kind |-> kind, key |-> Key, by |-> ByCall(id), idem |-> req.idem,
                      applied |-> applied]
<1>1. record \in LogRecord
  <2>1. PICK k \in {"put", "delete"} : k = kind
    BY Zenon
  <2>2. PICK by \in [via : {"grpc", "resp"}, id : Nat] : by = ByCall(id)
    BY ZenonT(40) DEF ByCall
  <2>3. PICK idem \in {NoIdem, "i"} : idem = req.idem
    BY Zenon DEF Request
  <2>4. [kind |-> k, key |-> Key, by |-> by, idem |-> idem, applied |-> applied] \in LogRecord
    BY <2>1, <2>2, <2>3, Zenon DEF LogRecord
  <2> QED BY <2>1, <2>2, <2>3, <2>4, Zenon
<1>2. log \in Seq(LogRecord)
  BY Zenon DEF TypeInv, TypeOK
<1> HIDE DEF record
<1>3. Append(log, record) \in Seq(LogRecord)
  BY <1>1, <1>2
<1> QED BY <1>2, <1>3, Zenon DEF LogAfter, record

(* The three ways a mutation ends. *)
LEMMA OutcomeEffect ==
  ASSUME TypeInv, NEW c \in Callers, client[c] # "idle", Outcome(c)
  PROVE  \E code \in {"OK", "FailedPrecondition"}, pos \in Nat :
            /\ Result(c, code, pos)
            /\ \/ code = "OK" /\ pos \in Remembered(call[c].req.idem)
               \/ code = "FailedPrecondition" /\ Mismatch(call[c].req)
               \/ code = "OK" /\ pos = Len(log) + 1 /\ Commits(call[c].req)
<1>0. Len(log) \in Nat
  BY DEF TypeInv, TypeOK
<1>1. CASE Remembered(call[c].req.idem) # {}
  <2>1. PICK pos : /\ pos = (CHOOSE p \in Remembered(call[c].req.idem) : TRUE)
                   /\ pos \in Remembered(call[c].req.idem)
    BY <1>1, Zenon
  <2>2. pos \in Nat
    BY <1>0, <2>1 DEF Remembered
  <2> QED BY <1>1, <2>1, <2>2, Zenon DEF Outcome
<1>2. CASE Remembered(call[c].req.idem) = {} /\ Mismatch(call[c].req)
  BY <1>2, Zenon DEF Outcome
<1>3. CASE Remembered(call[c].req.idem) = {} /\ ~Mismatch(call[c].req)
  BY <1>0, <1>3 DEF Outcome, Commits
<1> QED BY <1>1, <1>2, <1>3, Zenon

LEMMA ServedTypes ==
  ASSUME TypeInv, NEW c \in Callers, client[c] # "idle",
         NEW from \in ServerSteps, NEW to \in ServerSteps, Serves(c, from, to),
         log' \in Seq(LogRecord), {offset', gauge', counted', answered'} \subseteq Nat,
         raftq' \subseteq CallRecord,
         call' \in [Callers -> CallRecord \cup {NoCall}], call'[c] \in CallRecord,
         \A d \in Callers \ {c} : call'[d] = call[d]
  PROVE  TypeInv'
<1>1. srv' \in [Callers -> ServerSteps] /\ \A d \in Callers \ {c} : srv'[d] = srv[d]
  BY Zenon DEF Serves, TypeInv, TypeOK
<1>2. \A d \in Callers : call'[d] = NoCall <=> client[d] = "idle"
  BY NoCallIsNone, Zenon DEF TypeInv, TypeOK
<1>3. UNCHANGED <<setting, procVars, calls, client, conn, told, replies, panicked>>
  BY Zenon DEF Serves
<1> QED BY <1>1, <1>2, <1>3, Zenon DEF TypeInv, TypeOK, procVars

LEMMA ArriveTypes ==
  ASSUME TypeInv, NEW c \in Callers, Arrive(c)
  PROVE  TypeInv'
<1>1. client[c] # "idle" /\ call[c] \in CallRecord
  BY Zenon DEF Arrive, TypeInv, TypeOK
<1>2. PICK code : code = Code(call[c].req)
  BY Zenon
<1>3. code \in RefusalCodes \cup {"OK"}
  BY <1>2, ZenonT(40) DEF Code, Refusal, RefusalCodes
<1>4. PICK to \in {"handler", "count", "error"} : Serves(c, "none", to)
  BY <1>2, Zenon DEF Arrive
<1>5. /\ call' \in [Callers -> CallRecord \cup {NoCall}] /\ call'[c] \in CallRecord
      /\ \A d \in Callers \ {c} : call'[d] = call[d]
  <2>1. CASE code = "OK"
    BY <1>1, <1>2, <2>1, Zenon DEF Arrive, TypeInv, TypeOK
  <2>2. CASE code # "OK"
    BY <1>1, <1>2, <1>3, <2>2, ResultEffect, Zenon DEF Arrive, Codes
  <2> QED BY <2>1, <2>2, Zenon
<1>7. "none" \in ServerSteps /\ to \in ServerSteps
  BY Zenon DEF ServerSteps
<1>8. /\ log' \in Seq(LogRecord) /\ {offset', gauge', counted', answered'} \subseteq Nat
      /\ raftq' \subseteq CallRecord
  BY Zenon DEF Arrive, storeVars, meterVars, TypeInv, TypeOK
<1> QED BY <1>1, <1>4, <1>5, <1>7, <1>8, ServedTypes, Zenon

(* A mutation, by the handler or by the FSM. *)
LEMMA MutateTypes ==
  ASSUME TypeInv, NEW c \in Callers, srv[c] # "none", NEW applied \in BOOLEAN, Mutate(c, applied)
  PROVE  /\ log' \in Seq(LogRecord) /\ offset' = offset
         /\ call' \in [Callers -> CallRecord \cup {NoCall}] /\ call'[c] \in CallRecord
         /\ \A d \in Callers \ {c} : call'[d] = call[d]
<1>1. client[c] # "idle" /\ call[c] \in CallRecord
  BY Zenon DEF TypeInv, TypeOK
<1>2. call[c].req \in Request /\ call[c].id \in Nat
  BY <1>1, Zenon DEF CallRecord
<1>3. log' \in Seq(LogRecord)
  BY <1>2, LogAfterType, Zenon DEF Mutate
<1>4. PICK code \in {"OK", "FailedPrecondition"}, pos \in Nat : Result(c, code, pos)
  BY <1>1, OutcomeEffect, Zenon DEF Mutate
<1>5. code \in Codes
  BY Zenon DEF Codes, RefusalCodes
<1> QED BY <1>1, <1>3, <1>4, <1>5, ResultEffect, Zenon DEF Mutate

LEMMA HandlerTypes ==
  ASSUME TypeInv, NEW c \in Callers, Handler(c)
  PROVE  TypeInv'
<1>1. srv[c] # "none" /\ client[c] # "idle" /\ call[c] \in CallRecord
  <2>1. srv[c] # "none"
    BY ZenonT(40) DEF Handler, Read, Fetch, CommitOffset, MutateDirectly, Propose, NotLeader,
       LeadershipLost, Apply, SetGauge, Count, Reply, ReplyError, Answers, InHandler, Serves
  <2> QED BY <2>1, Zenon DEF TypeInv, TypeOK
<1>2. call[c].req \in Request /\ call[c].req.from \in Nat /\ call[c].pos \in Nat
  BY <1>1, Zenon DEF CallRecord, Request
<1>3. /\ "handler" \in ServerSteps /\ "raft" \in ServerSteps /\ "gauge" \in ServerSteps
      /\ "count" \in ServerSteps /\ "reply" \in ServerSteps
  BY Zenon DEF ServerSteps
<1>4. {"OK", "FailedPrecondition", "Unavailable"} \subseteq Codes
  BY Zenon DEF Codes, RefusalCodes
<1>5. /\ log \in Seq(LogRecord) /\ {offset, gauge, counted, answered} \subseteq Nat
      /\ raftq \subseteq CallRecord /\ call \in [Callers -> CallRecord \cup {NoCall}]
  BY Zenon DEF TypeInv, TypeOK
<1>6. AfterMutation(c) \in ServerSteps
  BY <1>3, Zenon DEF AfterMutation
<1>7. CASE Read(c)
  BY <1>1, <1>3, <1>4, <1>5, <1>7, ResultEffect, ServedTypes, ZenonT(40) DEF Read, storeVars,
     meterVars
<1>8. CASE NotLeader(c)
  BY <1>1, <1>3, <1>4, <1>5, <1>8, ResultEffect, ServedTypes, ZenonT(40) DEF NotLeader,
     storeVars, meterVars
<1>9. CASE LeadershipLost(c)
  <2>1. raftq' \subseteq CallRecord
    BY <1>5, <1>9, Zenon DEF LeadershipLost
  <2> QED BY <1>1, <1>3, <1>4, <1>5, <1>9, <2>1, ResultEffect, ServedTypes, Zenon DEF
     LeadershipLost, storeVars, meterVars
<1>10. CASE CommitOffset(c)
  <2>1. \E code \in Codes : Result(c, code, 0)
    BY <1>4, <1>10, Zenon DEF CommitOffset
  <2>2. offset' \in Nat
    BY <1>2, <1>5, <1>10, Zenon DEF CommitOffset
  <2> QED BY <1>1, <1>3, <1>5, <1>10, <2>1, <2>2, ResultEffect, ServedTypes DEF CommitOffset,
     meterVars
<1>11. CASE Fetch(c)
  <2>1. CASE Panic("grpc", call[c].req.from)
    BY <1>2, <2>1, PanicTypes, Zenon
  <2>2. CASE /\ Serves(c, "handler", "count") /\ Result(c, "OK", 0)
             /\ UNCHANGED <<storeVars, meterVars, raftq, answered>>
    BY <1>1, <1>3, <1>4, <1>5, <2>2, ResultEffect, ServedTypes, Zenon DEF storeVars, meterVars
  <2> QED BY <1>11, <2>1, <2>2, Zenon DEF Fetch
<1>12. CASE MutateDirectly(c)
  BY <1>1, <1>3, <1>5, <1>6, <1>12, MutateTypes, ServedTypes, ZenonT(40) DEF MutateDirectly,
     meterVars
<1>13. CASE Apply(c)
  BY <1>1, <1>3, <1>5, <1>6, <1>13, MutateTypes, ServedTypes, ZenonT(40) DEF Apply, meterVars
<1>14. CASE Propose(c)
  BY <1>1, <1>3, <1>5, <1>14, ServedTypes, Zenon DEF Propose, storeVars, meterVars
<1>15. CASE SetGauge(c) \/ Count(c)
  BY <1>1, <1>2, <1>3, <1>5, <1>15, ServedTypes DEF SetGauge, Count, storeVars
<1>16. CASE Reply(c) \/ ReplyError(c)
  <2>1. Answers(c, "reply") \/ Answers(c, "error")
    BY <1>16, Zenon DEF Reply, ReplyError
  <2>2. answered' \in Nat
    BY <1>5, <1>16 DEF Reply, ReplyError
  <2>3. /\ told' \subseteq CallRecord
        /\ client' \in [Callers -> {"idle", "waiting", "gaveup"}]
        /\ srv' \in [Callers -> ServerSteps]
        /\ call' \in [Callers -> CallRecord \cup {NoCall}]
        /\ \A d \in Callers : call'[d] = NoCall <=> client'[d] = "idle"
        /\ \A d \in Callers : srv'[d] # "none" => client'[d] # "idle"
    BY <1>1, <1>5, <2>1, ZenonT(40) DEF Answers, TypeInv, TypeOK, ServerSteps
  <2>4. /\ UNCHANGED <<setting, procVars, storeVars, meterVars, raftq, calls, conn, replies>>
        /\ UNCHANGED panicked
    BY <2>1, Zenon DEF Answers
  <2> QED BY <2>2, <2>3, <2>4, Zenon DEF TypeInv, TypeOK, procVars, storeVars, meterVars
<1> QED BY <1>7, <1>8, <1>9, <1>10, <1>11, <1>12, <1>13, <1>14, <1>15, <1>16 DEF Handler

(* The Redis connection. *)
LEMMA WordsType ==
  ASSUME NEW in \in Seq(Line), Complete(in)
  PROVE  /\ Words(in) \in Seq(STRING) /\ Words(in) # <<>>
         /\ Rest(in) \in Seq(Line)
         /\ Tail(Words(in)) \in Seq(STRING)
         /\ Verdict(Words(in)) \in {"put", "del", "reply", "error"}
         /\ Verdict(Words(in)) \in {"put", "del"} => Tail(Words(in)) # <<>>
<1> DEFINE n == in[1].n
           words == Words(in)
<1>1. Len(in) \in Nat \ {0} /\ in[1] \in Line
  BY DEF Complete
<1>2. n \in Nat /\ n >= 1 /\ Len(in) > n
  BY <1>1 DEF Complete, Malformed, Line
<1>3. ASSUME NEW i \in 1..n PROVE in[i + 1].data \in STRING
  <2> HIDE DEF n
  <2>1. i + 1 \in 1..Len(in)
    BY <1>1, <1>2
  <2>2. in[i + 1] \in Line
    BY <2>1
  <2> QED BY <2>2, Zenon DEF Line
<1>4. words \in [1..n -> STRING]
  BY <1>3, Zenon DEF Words
<1>5. words \in Seq(STRING) /\ Len(words) = n
  BY <1>2, <1>4
<1>6. words # <<>> /\ Tail(words) \in Seq(STRING) /\ Len(Tail(words)) = n - 1
  BY <1>2, <1>5
<1>7. Rest(in) \in Seq(Line)
  BY <1>2 DEF Rest
<1> HIDE DEF words
<1>8. /\ Verdict(words) \in {"put", "del", "reply", "error"}
      /\ Verdict(words) \in {"put", "del"} => Len(Tail(words)) >= 1
  <2> DEFINE args == Tail(words)
  <2> HIDE DEF args
  <2>1. Len(args) \in Nat
    BY <1>2, <1>6 DEF args
  <2>2. /\ SetVerdict(args) \in {"put", "error"}
        /\ SetVerdict(args) = "put" => Len(args) >= 1
    BY <2>1 DEF SetVerdict
  <2>3. /\ Verdict(words) \in {"put", "del", "reply", "error"}
        /\ Verdict(words) \in {"put", "del"} => Len(args) >= 1
    BY <2>1, <2>2, Zenon DEF Verdict, args
  <2> QED BY <2>3, Zenon DEF args
<1>9. Verdict(words) \in {"put", "del"} => Tail(words) # <<>>
  <2>1. ASSUME NEW args, args = <<>> PROVE ~(Len(args) >= 1)
    BY <2>1
  <2> QED BY <1>8, <2>1, Zenon
<1> QED BY <1>5, <1>6, <1>7, <1>8, <1>9, Zenon DEF words

(* A step of the connection that leaves it in order. *)
LEMMA RespTypes ==
  ASSUME TypeInv, RespStep, log' \in Seq(LogRecord), replies' \in Seq(ReplyRecord),
         conn' \in ConnRecord, conn'.pc \in {"put", "delete"} => conn'.todo # <<>>
  PROVE  TypeInv'
  BY Zenon DEF RespStep, TypeInv, TypeOK, procVars, meterVars, callVars

LEMMA RespReplyType ==
  ASSUME TypeInv, NEW kind \in {"ok", "failed", "integer"}, NEW n \in Nat, RespReply(kind, n)
  PROVE  /\ conn' \in ConnRecord /\ conn'.pc = "read" /\ conn'.id = conn.id /\ conn'.n = 0
         /\ replies' \in Seq(ReplyRecord)
         /\ replies' = Append(replies, [id |-> conn.id, kind |-> kind, n |-> n])
<1>1. conn \in ConnRecord /\ replies \in Seq(ReplyRecord)
  BY Zenon DEF TypeInv, TypeOK
<1>2. [id |-> conn.id, kind |-> kind, n |-> n] \in ReplyRecord
  BY <1>1, Zenon DEF ConnRecord, ReplyRecord
<1>3. replies' \in Seq(ReplyRecord)
  BY <1>1, <1>2 DEF RespReply
<1>4. <<>> \in Seq(STRING)
  BY ConnectionTypes, Zenon
<1>5. conn' \in ConnRecord /\ conn'.pc = "read" /\ conn'.id = conn.id /\ conn'.n = 0
  BY <1>1, <1>4, Zenon DEF RespReply, ConnRecord
<1> QED BY <1>3, <1>5, Zenon DEF RespReply

LEMMA RespWritesType ==
  ASSUME TypeInv, conn.pc \in {"put", "delete"}, NEW kind \in {"put", "delete"}
  PROVE  /\ conn.id \in Nat
         /\ [kind |-> kind, key |-> Head(conn.todo), by |-> ByConn(conn.id), idem |-> NoIdem,
             applied |-> FALSE] \in LogRecord
         /\ RespWrites(kind) => log' \in Seq(LogRecord)
<1>1. conn \in ConnRecord /\ log \in Seq(LogRecord) /\ conn.todo # <<>>
  BY Zenon DEF TypeInv, TypeOK
<1>2. conn.todo \in Seq(STRING) /\ conn.id \in Nat
  BY <1>1, Zenon DEF ConnRecord
<1>3. Head(conn.todo) \in STRING
  BY <1>1, <1>2
<1>4. ByConn(conn.id) \in [via : {"grpc", "resp"}, id : Nat]
  BY <1>2, Zenon DEF ByConn
<1>5. [kind |-> kind, key |-> Head(conn.todo), by |-> ByConn(conn.id), idem |-> NoIdem,
       applied |-> FALSE] \in LogRecord
  BY <1>3, <1>4, Zenon DEF LogRecord
<1>6. PICK record \in LogRecord :
          record = [kind |-> kind, key |-> Head(conn.todo), by |-> ByConn(conn.id),
                    idem |-> NoIdem, applied |-> FALSE]
  BY <1>5, Zenon
<1>7. Append(log, record) \in Seq(LogRecord)
  BY <1>1, <1>6
<1> QED BY <1>2, <1>5, <1>6, <1>7, Zenon DEF RespWrites

LEMMA RedisTypes ==
  ASSUME TypeInv, Redis
  PROVE  TypeInv'
<1>1. conn \in ConnRecord /\ log \in Seq(LogRecord) /\ replies \in Seq(ReplyRecord)
  BY Zenon DEF TypeInv, TypeOK
<1>2. conn.in \in Seq(Line) /\ conn.id \in Nat /\ conn.todo \in Seq(STRING) /\ conn.n \in Nat
  BY <1>1, Zenon DEF ConnRecord
<1>3. CASE RespConnect
  <2>1. setting.inputs \subseteq Seq(Line)
    BY ConstantsAssumption, Zenon DEF TypeInv, TypeOK, IsSetting
  <2>2. PICK in \in Seq(Line) : conn' = [NoConn EXCEPT !.pc = "read", !.in = in]
    BY <1>3, <2>1, Zenon DEF RespConnect
  <2>3. conn' \in ConnRecord /\ conn'.pc = "read"
    BY <2>2, ConnectionTypes, Zenon DEF NoConn, ConnRecord
  <2> QED BY <1>1, <1>3, <2>3, RespTypes, Zenon DEF RespConnect
<1>4. CASE RespClose
  <2>1. conn' \in ConnRecord /\ conn'.pc = "closed"
    BY <1>4, ConnectionTypes, Zenon DEF RespClose, NoConn
  <2> QED BY <1>1, <1>4, <2>1, RespTypes, Zenon DEF RespClose
<1>5. CASE RespRead
  <2> DEFINE words == Words(conn.in)
             next == [conn EXCEPT !.in = Rest(conn.in), !.id = @ + 1]
  <2>1. /\ Tail(words) \in Seq(STRING) /\ Rest(conn.in) \in Seq(Line)
        /\ Verdict(words) \in {"put", "del"} => Tail(words) # <<>>
    BY <1>2, <1>5, WordsType, Zenon DEF RespRead
  <2>2. /\ next \in ConnRecord /\ next.pc = "read" /\ next.id \in Nat
        /\ conn.pc = "read"
    <3>1. conn.pc = "read" /\ conn.id + 1 \in Nat
      BY <1>2, <1>5 DEF RespRead
    <3>2. PICK id \in Nat, in \in Seq(Line) : id = conn.id + 1 /\ in = Rest(conn.in)
      BY <2>1, <3>1, Zenon
    <3>3. PICK k \in ConnRecord : k = conn
      BY <1>1, Zenon
    <3>4. /\ [k EXCEPT !.in = in, !.id = id] \in ConnRecord
          /\ [k EXCEPT !.in = in, !.id = id].pc = k.pc
          /\ [k EXCEPT !.in = in, !.id = id].id = id
      BY Zenon DEF ConnRecord
    <3>5. [k EXCEPT !.in = in, !.id = id] = next
      BY <3>2, <3>3, Zenon
    <3> HIDE DEF next
    <3> QED BY <3>1, <3>2, <3>3, <3>4, <3>5, Zenon
  <2>3. CASE /\ Verdict(words) \in {"put", "del"}
             /\ conn' = [next EXCEPT !.pc = Verdict(words), !.todo = Tail(words)]
             /\ UNCHANGED replies
    <3> HIDE DEF words, next
    <3>1. conn' \in ConnRecord /\ conn'.todo = Tail(words)
      BY <2>1, <2>2, <2>3, Zenon DEF ConnRecord
    <3> QED BY <1>1, <1>5, <2>1, <2>3, <3>1, RespTypes, Zenon DEF RespRead
  <2>4. CASE /\ Verdict(words) \in {"reply", "error"}
             /\ conn' = next
             /\ replies' = Append(replies, [id |-> next.id, kind |-> Verdict(words), n |-> 0])
    <3> HIDE DEF words, next
    <3>1. [id |-> next.id, kind |-> Verdict(words), n |-> 0] \in ReplyRecord
      BY <2>2, <2>4, Zenon DEF ReplyRecord
    <3>2. replies' \in Seq(ReplyRecord)
      BY <1>1, <2>4, <3>1
    <3> QED BY <1>1, <1>5, <2>2, <2>4, <3>2, RespTypes, Zenon DEF RespRead
  <2> QED BY <1>5, <2>3, <2>4, Zenon DEF RespRead
<1>6. CASE RespPut
  BY <1>1, <1>6, RespWritesType, RespReplyType, RespTypes, Zenon DEF RespPut
<1>7. CASE RespDelGet
  <2>1. Tail(conn.todo) \in Seq(STRING)
    BY <1>2, <1>7, TailType, Zenon DEF RespDelGet
  <2>2. conn' \in ConnRecord /\ (conn'.pc \in {"put", "delete"} => conn'.todo = conn.todo)
    BY <1>1, <1>2, <1>7, <2>1, Zenon DEF RespDelGet, ConnRecord
  <2> QED BY <1>1, <1>7, <2>2, RespTypes, Zenon DEF RespDelGet
<1>8. CASE RespDelete
  <2>1. CASE "engine" \in open
    <3>1. conn.todo # <<>>
      BY <1>8, Zenon DEF RespDelete, TypeInv
    <3>2. Tail(conn.todo) \in Seq(STRING)
      BY <1>2, <3>1, TailType, Zenon
    <3>3. conn' \in ConnRecord /\ conn'.pc = "del"
      <4>1. PICK n \in Nat, todo \in Seq(STRING) : n = conn.n + 1 /\ todo = Tail(conn.todo)
        <5>1. conn.n + 1 \in Nat
          BY <1>2
        <5> QED BY <3>2, <5>1, Zenon
      <4>2. PICK k \in ConnRecord : k = conn
        BY <1>1, Zenon
      <4>3. conn' = [k EXCEPT !.pc = "del", !.todo = todo, !.n = n]
        BY <1>8, <2>1, <4>1, <4>2, Zenon DEF RespDelete
      <4>4. /\ [k EXCEPT !.pc = "del", !.todo = todo, !.n = n] \in ConnRecord
            /\ [k EXCEPT !.pc = "del", !.todo = todo, !.n = n].pc = "del"
        BY Zenon DEF ConnRecord
      <4> QED BY <4>3, <4>4, Zenon
    <3> QED BY <1>1, <1>8, <2>1, <3>3, RespWritesType, RespTypes, Zenon DEF RespDelete
  <2>2. CASE "engine" \notin open
    BY <1>1, <1>8, <2>2, RespReplyType, RespTypes, Zenon DEF RespDelete
  <2> QED BY <2>1, <2>2, Zenon
<1>9. CASE RespDelDone
  BY <1>1, <1>2, <1>9, RespReplyType, RespTypes, Zenon DEF RespDelDone
<1>10. CASE RespPanic
  <2>1. conn.id + 1 \in Nat
    BY <1>2
  <2> QED BY <1>10, <2>1, PanicTypes, Zenon DEF RespPanic
<1> QED BY <1>3, <1>4, <1>5, <1>6, <1>7, <1>8, <1>9, <1>10, Zenon DEF Redis

LEMMA TypeStep == TypeInv /\ [Next]_vars => TypeInv'
<1> SUFFICES ASSUME TypeInv, [Next]_vars PROVE TypeInv'
  OBVIOUS
<1>1. CASE Main
  BY <1>1, MainTypes, Zenon
<1>2. CASE Signal \/ ShutdownHTTP \/ GracefulStop \/ \E busy \in BOOLEAN : Scrape(busy)
  BY <1>2, SignalTypes, Zenon
<1>3. ASSUME NEW c \in Callers, CtlInvoke(c) \/ BenchExecute(c) \/ AppCall(c)
      PROVE  TypeInv'
  BY <1>3, ClientTypes, StartsTypes, Zenon
<1>4. ASSUME NEW c \in Callers, ConnectError(c) \/ GiveUp(c) \/ WatcherLeaves(c)
      PROVE  TypeInv'
  BY <1>4, LeavesTypes, Zenon
<1>5. ASSUME NEW c \in Callers, Arrive(c) \/ Handler(c)
      PROVE  TypeInv'
  BY <1>5, ArriveTypes, HandlerTypes, Zenon
<1>6. CASE ApplyLate
  <2>1. PICK r \in raftq : log' = LogAfter(r.req, r.id, TRUE) /\ raftq' = raftq \ {r}
    BY <1>6, Zenon DEF ApplyLate
  <2>2. r.req \in Request /\ r.id \in Nat /\ raftq' \subseteq CallRecord
    BY <2>1, Zenon DEF TypeInv, TypeOK, CallRecord
  <2>3. log' \in Seq(LogRecord)
    BY <2>1, <2>2, LogAfterType, Zenon
  <2> QED BY <1>6, <2>2, <2>3, Zenon DEF ApplyLate, TypeInv, TypeOK, procVars, meterVars, histVars
<1>7. CASE Redis
  BY <1>7, RedisTypes, Zenon
<1>8. CASE UNCHANGED vars
  BY <1>8, Zenon DEF vars, procVars, storeVars, meterVars, callVars, histVars, TypeInv, TypeOK
<1> QED BY <1>1, <1>2, <1>3, <1>4, <1>5, <1>6, <1>7, <1>8, Zenon DEF Next

(* A node is type-correct, whatever is asked of it: the command lines of uddpctl
   become requests, and the frames the Redis listener reads become commands, that are
   in order. *)
THEOREM TypeCorrect == Spec => []TypeOK
<1>1. TypeInv => TypeOK
  BY Zenon DEF TypeInv
<1> QED BY <1>1, TypeInit, TypeStep, PTL DEF Spec

-----------------------------------------------------------------------------
(* The panic in Fetch. *)

LEMMA FetchStep == TypeInv /\ FetchInRange /\ [Next]_vars => FetchInRange'
<1> SUFFICES ASSUME TypeInv, FetchInRange, [Next]_vars PROVE FetchInRange'
  BY Zenon
<1>1. CASE panicked' = panicked
  BY <1>1, Zenon DEF FetchInRange
<1>2. CASE RespPanic
  BY <1>2 DEF RespPanic, Panic, FetchInRange
<1>3. CASE panicked' # panicked /\ ~RespPanic
  <2>1. PICK c \in Callers : Fetch(c) /\ Panic("grpc", call[c].req.from)
                             /\ ~BeyondLog(call[c].req.from) /\ ~(call[c].req.from <= Len(log))
    BY <1>3, ZenonT(40) DEF Next, Main, CheckConfig, OpenEngine, OpenOffsets, OpenRaft, Listen,
       LoadCredentials, StartServing, ServeReturns, Unwind, Exit, Run, Signal, ShutdownHTTP,
       GracefulStop, Signalled, Scrape, CtlInvoke, BenchExecute, AppCall, Starts, ConnectError,
       GiveUp, WatcherLeaves, Leaves, Arrive, Serves, Handler, Read, Fetch, CommitOffset,
       NotLeader, Propose, MutateDirectly, LeadershipLost, Apply, SetGauge, Count, Reply,
       ReplyError, Answers, ApplyLate, Redis, RespConnect, RespClose, RespRead, RespPut,
       RespDelGet, RespDelete, RespDelDone, RespStep, vars, histVars
  <2>2. PICK from \in Nat : from = call[c].req.from
    BY <2>1, Zenon DEF Fetch, InHandler, TypeInv, TypeOK, CallRecord, Request
  <2>3. Len(log) \in Nat
    BY DEF TypeInv, TypeOK
  <2>4. from > 2^(Width - 1)
    BY <2>1, <2>2, <2>3, ConstantsAssumption DEF BeyondLog, ToInt
  <2>5. panicked' = panicked \cup {[via |-> "grpc", n |-> from]}
    BY <2>1, <2>2, Zenon DEF Panic
  <2>6. ASSUME NEW p \in panicked', p.via = "grpc" PROVE p.n > 2^(Width - 1)
    <3>1. CASE p = [via |-> "grpc", n |-> from]
      BY <2>4, <3>1, Zenon
    <3>2. CASE p \in panicked
      BY <2>6, <3>2, Zenon DEF FetchInRange
    <3> QED BY <2>5, <3>1, <3>2, Zenon
  <2> QED BY <2>6, Zenon DEF FetchInRange
<1> QED BY <1>1, <1>2, <1>3, Zenon

(* Only an offset in the upper half of uint64 takes Fetch past its check and out
   of byteOffsets, however long the log is and whoever appends meanwhile. *)
THEOREM OnlyNegativeOffsetsPanic == Spec => []FetchInRange
<1>1. Init => FetchInRange
  BY Zenon DEF Init, FetchInRange
<1> QED BY <1>1, TypeInit, TypeStep, FetchStep, PTL DEF Spec
=============================================================================
