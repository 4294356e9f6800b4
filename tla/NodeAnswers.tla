----------------------------- MODULE NodeAnswers -----------------------------
(***************************************************************************)
(* Proofs about what Node answers: over gRPC, and on the Redis connection. *)
(***************************************************************************)
EXTENDS NodeProofs

-----------------------------------------------------------------------------
(* Answers and the log. *)

Untouched(id) == RecordsBy(ByCall(id)) = {}

(* Raft still may apply the command of this call. *)
Owed(id) == \E r \in raftq : r.id = id

(* The answer is known, true, and will stay so. *)
Settled(t) ==
    /\ t.code # "none"
    /\ MatchesLog(t)
    /\ t.code # "Unavailable" => ~Owed(t.id)

Told == \A t \in told : t.id <= calls /\ Settled(t)

Queued ==
    /\ \A r \in raftq : r.id <= calls /\ Untouched(r.id)
    /\ \A r, q \in raftq : r.id = q.id => r = q

(* What has happened for a call is in keeping with how far the server is. *)
Progress(c) ==
    /\ srv[c] \in {"none", "handler"} => Untouched(call[c].id) /\ ~Owed(call[c].id)
    /\ srv[c] = "raft" => call[c] \in raftq
    /\ srv[c] \in {"gauge", "count", "reply", "error"} => Settled(call[c])

Identified(c) ==
    /\ call[c].id <= calls
    /\ \A t \in told : t.id # call[c].id
    /\ \A d \in Callers \ {c} : call[d] # NoCall => call[d].id # call[c].id

Underway == \A c \in Callers : call[c] # NoCall => Identified(c) /\ Progress(c)

(* Only calls have idempotency keys, and with the "durable" profile calls go
   through raft. *)
Proper(rec) ==
    /\ rec.by.via = "grpc" =>
          rec.by.id <= calls /\ (setting.profile = "durable" => rec.applied)
    /\ rec.idem # NoIdem => rec.by.via = "grpc"

Records == \A p \in 1..Len(log) : Proper(log[p])

Staged ==
    setting.profile = "durable" /\ phase \in Phases \ {"config", "unwind", "exit"} => Replicated

AnswerInv == Told /\ Queued /\ Underway /\ Records /\ Staged

LEMMA AnswerInit == Init => AnswerInv
<1> SUFFICES ASSUME Init PROVE AnswerInv
  BY Zenon
<1>1. Len(log) = 0
  BY Zenon DEF Init
<1>2. 1..Len(log) = {}
  BY <1>1
<1> QED BY <1>2, Zenon DEF Init, AnswerInv, Told, Queued, Underway, Records, Staged

LEMMA StagedStep == TypeInv /\ Staged /\ [Next]_vars => Staged'
<1> SUFFICES ASSUME TypeInv, Staged, [Next]_vars PROVE Staged'
  BY Zenon
<1>1. setting' = setting
  BY Remembering, Zenon
<1>2. CASE phase' = phase
  BY <1>1, <1>2, Zenon DEF Staged, Replicated
<1>3. CASE phase' # phase
  <2>1. CASE phase' \in {"unwind", "exit"}
    BY <2>1, Zenon DEF Staged
  <2>2. CASE phase' \notin {"unwind", "exit"}
    <3>1. Main /\ ~Exit
      BY <1>3, <2>2, ZenonT(40) DEF Next, Main, CheckConfig, OpenEngine, OpenOffsets, OpenRaft,
         Listen, LoadCredentials, StartServing, ServeReturns, Unwind, Exit, Die, Run, Signal,
         ShutdownHTTP, GracefulStop, Signalled, Scrape, CtlInvoke, BenchExecute, AppCall, Starts,
         ConnectError, GiveUp, WatcherLeaves, Leaves, Arrive, Serves, Handler, Read, Fetch,
         CommitOffset, NotLeader, Propose, MutateDirectly, LeadershipLost, Apply, SetGauge,
         Count, Reply, ReplyError, Answers, ApplyLate, Redis, RespConnect, RespClose, RespRead,
         RespPut, RespDelGet, RespDelete, RespDelDone, RespPanic, Panic, RespStep, vars, procVars
    <3>2. CASE CheckConfig
      BY <1>1, <2>2, <3>2, Zenon DEF CheckConfig, Run, ConfigAccepted, NamespaceAccepted, Staged,
         Replicated
    <3>3. CASE ~CheckConfig
      <4>1. phase \in Phases \ {"config", "unwind", "exit"}
        BY <1>3, <2>2, <3>1, <3>3, Zenon DEF Main, OpenEngine, OpenOffsets, OpenRaft, Listen,
           LoadCredentials, StartServing, ServeReturns, Unwind, Run, Phases
      <4> QED BY <1>1, <4>1, Zenon DEF Staged, Replicated
    <3> QED BY <3>2, <3>3
  <2> QED BY <2>1, <2>2, Zenon
<1> QED BY <1>2, <1>3, Zenon

LEMMA Appending ==
  ASSUME log \in Seq(LogRecord), NEW rec \in LogRecord, log' = Append(log, rec)
  PROVE  /\ Len(log) \in Nat /\ Len(log') = Len(log) + 1
         /\ \A p \in 1..Len(log) : log'[p] = log[p]
         /\ log'[Len(log) + 1] = rec
         /\ \A by : by # rec.by => RecordsBy(by)' = RecordsBy(by)
         /\ RecordsBy(rec.by)' = RecordsBy(rec.by) \cup {Len(log) + 1}
<1>1. /\ Len(log) \in Nat /\ Len(log') = Len(log) + 1
      /\ \A p \in 1..Len(log) : log'[p] = log[p]
      /\ log'[Len(log) + 1] = rec
  OBVIOUS
<1>2. 1..Len(log') = (1..Len(log)) \cup {Len(log) + 1} /\ Len(log) + 1 \notin 1..Len(log)
  BY <1>1
<1>3. ASSUME NEW by, by # rec.by PROVE RecordsBy(by)' = RecordsBy(by)
  BY <1>1, <1>2, <1>3, Zenon DEF RecordsBy
<1>4. RecordsBy(rec.by)' = RecordsBy(rec.by) \cup {Len(log) + 1}
  BY <1>1, <1>2, Zenon DEF RecordsBy
<1> QED BY <1>1, <1>3, <1>4, Zenon

(* A step writes at most one record, for call i or for the Redis connection. *)
Writes(i) ==
    \/ log' = log
    \/ \E rec \in LogRecord :
          log' = Append(log, rec) /\ rec.by \in {ByCall(i)} \cup {ByConn(n) : n \in Nat}

(* Such a step leaves the other calls alone. *)
LEMMA OthersKept ==
  ASSUME TypeInv, setting' = setting, NEW i \in Nat, Writes(i),
         \A r \in raftq' : r.id = i \/ r \in raftq
  PROVE  /\ \A j \in Nat \ {i} : Untouched(j) => Untouched(j)'
         /\ \A j \in Nat \ {i} : ~Owed(j) => ~Owed(j)'
         /\ \A t \in CallRecord : t.id # i /\ Settled(t) => Settled(t)'
<1>1. \A j \in Nat \ {i} : ~Owed(j) => ~Owed(j)'
  BY Zenon DEF Owed
<1>2. /\ \A j \in Nat \ {i} : RecordsBy(ByCall(j))' = RecordsBy(ByCall(j))
      /\ \A p \in 1..Len(log) : p \in 1..Len(log') /\ log'[p] = log[p]
  <2>1. CASE log' = log
    BY <2>1, Zenon DEF RecordsBy
  <2>2. CASE log' # log
    <3>1. PICK rec \in LogRecord : /\ log' = Append(log, rec)
                                   /\ rec.by \in {ByCall(i)} \cup {ByConn(n) : n \in Nat}
      BY <2>2, Zenon DEF Writes
    <3>2. \A j \in Nat \ {i} : ByCall(j) # rec.by
      BY <3>1 DEF ByCall, ByConn
    <3>3. log \in Seq(LogRecord)
      BY Zenon DEF TypeInv, TypeOK
    <3> QED BY <3>1, <3>2, <3>3, Appending
  <2> QED BY <2>1, <2>2, Zenon
<1>3. ASSUME NEW t \in CallRecord, t.id # i, Settled(t) PROVE Settled(t)'
  <2>1. t.id \in Nat \ {i}
    BY <1>3, Zenon DEF CallRecord
  <2>2. RecordsBy(ByCall(t.id))' = RecordsBy(ByCall(t.id))
    BY <1>2, <2>1, Zenon
  <2>3. MatchesLog(t)'
    BY <1>2, <1>3, <2>2, Zenon DEF Settled, MatchesLog
  <2> QED BY <1>1, <1>3, <2>1, <2>3, Zenon DEF Settled
<1> QED BY <1>1, <1>2, <1>3, Zenon DEF Untouched

LEMMA RecordsKept ==
  ASSUME TypeInv, Records, setting' = setting, calls' \in Nat, calls' >= calls,
         \/ log' = log
         \/ \E rec \in LogRecord : log' = Append(log, rec) /\ Proper(rec)
  PROVE  Records'
<1>1. \A rec \in LogRecord : Proper(rec) => Proper(rec)'
  <2> SUFFICES ASSUME NEW rec \in LogRecord, Proper(rec) PROVE Proper(rec)'
    BY Zenon
  <2>1. rec.by.id \in Nat /\ calls \in Nat
    BY Zenon DEF LogRecord, TypeInv, TypeOK
  <2> QED BY <2>1 DEF Proper
<1>2. log \in Seq(LogRecord)
  BY Zenon DEF TypeInv, TypeOK
<1>3. \A p \in 1..Len(log) : log[p] \in LogRecord
  BY <1>2
<1>4. CASE log' = log
  <2> SUFFICES ASSUME NEW p \in 1..Len(log) PROVE Proper(log[p])'
    BY <1>4, Zenon DEF Records
  <2>1. PICK rec \in LogRecord : rec = log[p]
    BY <1>3, Zenon
  <2>2. Proper(rec)'
    BY <1>1, <2>1, Zenon DEF Records
  <2> QED BY <1>4, <2>1, <2>2, Zenon DEF Proper
<1>5. CASE log' # log
  <2>1. PICK new \in LogRecord : log' = Append(log, new) /\ Proper(new)
    BY <1>5, Zenon
  <2>2. /\ Len(log) \in Nat /\ Len(log') = Len(log) + 1
        /\ \A p \in 1..Len(log) : log'[p] = log[p]
        /\ log'[Len(log) + 1] = new
    BY <1>2, <2>1, Appending, Zenon
  <2> SUFFICES ASSUME NEW p \in 1..Len(log') PROVE Proper(log[p])'
    BY Zenon DEF Records
  <2>3. PICK rec \in LogRecord : rec = log'[p] /\ Proper(rec)
    BY <1>3, <2>1, <2>2 DEF Records
  <2>4. Proper(rec)'
    BY <1>1, <2>3, Zenon
  <2> QED BY <2>3, <2>4, Zenon DEF Proper
<1> QED BY <1>4, <1>5, Zenon

(* The server goes on with call c: what is left to show is that the records are
   proper and that the call's progress is. *)
LEMMA ServedAnswers ==
  ASSUME TypeInv, TypeInv', AnswerInv, Staged', Records', NEW c \in Callers, call[c] # NoCall,
         setting' = setting, told' = told, calls' = calls,
         call'[c].id = call[c].id, \A d \in Callers \ {c} : call'[d] = call[d] /\ srv'[d] = srv[d],
         Writes(call[c].id),
         \A r \in raftq' : r \in raftq \/ (r = call[c] /\ ~Owed(call[c].id)),
         raftq \subseteq raftq' \cup {call[c]},
         \A r \in raftq' : r.id = call[c].id => log' = log /\ Untouched(call[c].id),
         Progress(c)'
  PROVE  AnswerInv'
<1>1. PICK i \in Nat : i = call[c].id
  BY DEF TypeInv, TypeOK, CallRecord
<1>2. Identified(c) /\ i <= calls
  BY <1>1, ZenonT(40) DEF AnswerInv, Underway, Identified
<1>3. \A r \in raftq' : r.id = i \/ r \in raftq
  BY <1>1, ZenonT(40)
<1>4. /\ \A j \in Nat \ {i} : Untouched(j) => Untouched(j)'
      /\ \A j \in Nat \ {i} : ~Owed(j) => ~Owed(j)'
      /\ \A t \in CallRecord : t.id # i /\ Settled(t) => Settled(t)'
  BY <1>1, <1>3, OthersKept, Zenon
<1>5. Told'
  <2> SUFFICES ASSUME NEW t \in told PROVE t.id <= calls /\ Settled(t)'
    BY Zenon DEF Told
  <2>1. t \in CallRecord /\ t.id # i /\ t.id <= calls /\ Settled(t)
    BY <1>1, <1>2, ZenonT(40) DEF TypeInv, TypeOK, AnswerInv, Told, Identified
  <2> QED BY <1>4, <2>1, Zenon
<1>6. Queued'
  <2>1. ASSUME NEW r \in raftq' PROVE r.id <= calls /\ Untouched(r.id)'
    <3>1. r \in CallRecord /\ r.id \in Nat
      BY ZenonT(40) DEF TypeInv, TypeOK, CallRecord
    <3>2. CASE r.id = i
      BY <1>1, <1>2, <3>2, ZenonT(40) DEF Untouched, RecordsBy
    <3>3. CASE r.id # i
      BY <1>3, <1>4, <3>1, <3>3, ZenonT(40) DEF AnswerInv, Queued
    <3> QED BY <3>2, <3>3, Zenon
  <2>2. ASSUME NEW r \in raftq', NEW q \in raftq', r.id = q.id PROVE r = q
    BY <2>2, ZenonT(40) DEF AnswerInv, Queued, Owed
  <2> QED BY <2>1, <2>2, ZenonT(40) DEF Queued
<1>7. Underway'
  <2> SUFFICES ASSUME NEW d \in Callers, call'[d] # NoCall PROVE Identified(d)' /\ Progress(d)'
    BY Zenon DEF Underway
  <2>1. CASE d = c
    <3>1. Identified(c)'
      BY <1>1, <1>2, Zenon DEF Identified
    <3> QED BY <2>1, <3>1, Zenon
  <2>2. CASE d # c
    <3>1. call'[d] = call[d] /\ srv'[d] = srv[d] /\ call[d] # NoCall
      BY <2>2, ZenonT(40)
    <3>2. PICK t \in CallRecord : t = call[d]
      BY <3>1, ZenonT(40) DEF TypeInv, TypeOK
    <3>3. t.id \in Nat /\ t.id # i /\ Identified(d) /\ Progress(d)
      BY <1>1, <1>2, <2>2, <3>1, <3>2, ZenonT(40) DEF AnswerInv, Underway, Identified, CallRecord
    <3>4. Identified(d)'
      <4>1. call[d].id # call[c].id
        BY <1>1, <3>2, <3>3, Zenon
      <4> QED BY <3>1, <3>3, <4>1, ZenonT(40) DEF Identified
    <3>5. srv[d] \in {"none", "handler"} => Untouched(t.id)' /\ ~Owed(t.id)'
      BY <1>4, <3>2, <3>3, ZenonT(40) DEF Progress
    <3>6. srv[d] = "raft" => t \in raftq'
      BY <1>1, <3>2, <3>3, Zenon DEF Progress
    <3>7. srv[d] \in {"gauge", "count", "reply", "error"} => Settled(t)'
      BY <1>4, <3>2, <3>3, Zenon DEF Progress
    <3> QED BY <3>1, <3>2, <3>4, <3>5, <3>6, <3>7, ZenonT(40) DEF Progress, Untouched, Owed,
       Settled, MatchesLog
  <2> QED BY <2>1, <2>2, ZenonT(40)
<1> QED BY <1>5, <1>6, <1>7, Zenon DEF AnswerInv

LEMMA ArriveAnswers ==
  ASSUME TypeInv, TypeInv', AnswerInv, Staged', Records', NEW c \in Callers, Arrive(c)
  PROVE  AnswerInv'
<1>1. /\ client[c] # "idle" /\ srv[c] = "none" /\ call[c] # NoCall /\ call[c] \in CallRecord
      /\ UNCHANGED <<setting, told, calls, log, raftq>>
      /\ \A d \in Callers \ {c} : srv'[d] = srv[d]
  BY ZenonT(40) DEF Arrive, Serves, storeVars, TypeInv, TypeOK
<1>2. Untouched(call[c].id) /\ ~Owed(call[c].id)
  BY <1>1, Zenon DEF AnswerInv, Underway, Progress
<1>3. PICK code : code = Code(call[c].req)
  BY Zenon
<1>4. code \in RefusalCodes \cup {"OK"} /\ "none" \notin RefusalCodes /\ "OK" \notin RefusalCodes
  BY <1>3, ZenonT(40) DEF Code, Refusal, RefusalCodes
<1>5. CASE code = "OK"
  <2>1. call' = call /\ srv'[c] = "handler"
    BY <1>3, <1>5, Zenon DEF Arrive, Serves, TypeInv, TypeOK
  <2>2. Progress(c)'
    BY <1>1, <1>2, <2>1, ZenonT(40) DEF Progress, Untouched, Owed, RecordsBy
  <2> QED BY <1>1, <1>2, <2>1, <2>2, ServedAnswers, Zenon DEF Writes
<1>6. CASE code # "OK"
  <2>1. srv'[c] \in {"count", "error"} /\ Result(c, code, 0)
    BY <1>3, <1>6, Zenon DEF Arrive, Serves, TypeInv, TypeOK
  <2>2. code \in Codes
    BY <1>4, Zenon DEF Codes
  <2>3. /\ call'[c].id = call[c].id /\ call'[c].code = code
        /\ \A d \in Callers \ {c} : call'[d] = call[d]
    BY <1>1, <2>1, <2>2, ResultEffect, ZenonT(40)
  <2>4. Settled(call[c])'
    BY <1>1, <1>2, <1>4, <1>6, <2>3, ZenonT(40) DEF Settled, MatchesLog, Untouched, Owed, RecordsBy
  <2>5. Progress(c)'
    BY <2>1, <2>4, Zenon DEF Progress
  <2> QED BY <1>1, <1>2, <2>3, <2>5, ServedAnswers, Zenon DEF Writes
<1> QED BY <1>5, <1>6, Zenon

(* Handlers that answer without a record. *)
LEMMA AnswersWithout ==
  ASSUME TypeInv, TypeInv', AnswerInv, Staged', Records', NEW c \in Callers,
         srv[c] = "handler", Serves(c, "handler", "count"), UNCHANGED <<log, raftq>>,
         NEW code \in {"OK", "FailedPrecondition", "Unavailable"}, Result(c, code, 0),
         code = "OK" => call[c].req.rpc \notin Mutations
  PROVE  AnswerInv'
<1>1. /\ client[c] # "idle" /\ call[c] # NoCall /\ call[c] \in CallRecord
      /\ UNCHANGED <<setting, told, calls>> /\ srv'[c] = "count"
      /\ \A d \in Callers \ {c} : srv'[d] = srv[d]
  BY ZenonT(40) DEF Serves, TypeInv, TypeOK
<1>2. Untouched(call[c].id) /\ ~Owed(call[c].id)
  BY <1>1, ZenonT(40) DEF AnswerInv, Underway, Progress
<1>3. code \in Codes
  BY ZenonT(40) DEF Codes, RefusalCodes
<1>4. /\ call'[c].id = call[c].id /\ call'[c].code = code /\ call'[c].req = call[c].req
      /\ \A d \in Callers \ {c} : call'[d] = call[d]
  BY <1>1, <1>3, ResultEffect, ZenonT(40)
<1>5. Settled(call[c])'
  BY <1>1, <1>2, <1>4, ZenonT(40) DEF Settled, MatchesLog, Untouched, Owed, RecordsBy
<1>6. Progress(c)'
  BY <1>1, <1>5, Zenon DEF Progress
<1> QED BY <1>1, <1>2, <1>4, <1>6, ServedAnswers, ZenonT(40) DEF Writes

(* A mutation whose call has no record yet, and which raft does not know any more
   after the step. *)
LEMMA MutateAnswers ==
  ASSUME TypeInv, TypeInv', AnswerInv, Staged', NEW c \in Callers, NEW from,
  NEW applied \in BOOLEAN,
         srv[c] # "none", Serves(c, from, AfterMutation(c)), Mutate(c, applied),
         Untouched(call[c].id), raftq' \subseteq raftq, raftq \subseteq raftq' \cup {call[c]},
         \A r \in raftq' : r.id # call[c].id,
         setting.profile = "durable" => applied
  PROVE  AnswerInv'
<1>1. /\ client[c] # "idle" /\ call[c] # NoCall /\ call[c] \in CallRecord
      /\ UNCHANGED <<setting, told, calls>> /\ srv'[c] = AfterMutation(c)
      /\ \A d \in Callers \ {c} : srv'[d] = srv[d]
      /\ log \in Seq(LogRecord) /\ calls \in Nat
  BY ZenonT(40) DEF Serves, TypeInv, TypeOK
<1>2. PICK i \in Nat : i = call[c].id /\ i <= calls
  BY <1>1, ZenonT(40) DEF CallRecord, AnswerInv, Underway, Identified
<1>3. PICK req \in Request : req = call[c].req
  BY <1>1, ZenonT(40) DEF CallRecord
<1>4. PICK code \in {"OK", "FailedPrecondition"}, pos \in Nat :
         /\ Result(c, code, pos)
         /\ \/ code = "OK" /\ pos \in Remembered(req.idem)
            \/ code = "FailedPrecondition" /\ Mismatch(req)
            \/ code = "OK" /\ pos = Len(log) + 1 /\ Commits(req)
  BY <1>1, <1>3, OutcomeEffect, ZenonT(40) DEF Mutate
<1>5. code \in Codes
  BY Zenon DEF Codes, RefusalCodes
<1>6. /\ call'[c].id = i /\ call'[c].code = code /\ call'[c].req = req /\ call'[c].pos = pos
      /\ \A d \in Callers \ {c} : call'[d] = call[d]
  BY <1>1, <1>2, <1>3, <1>4, <1>5, ResultEffect, ZenonT(40)
<1> DEFINE kind == IF req.rpc = "Delete" THEN "delete" ELSE "put"
           rec == [kind |-> kind, key |-> Key, by |-> ByCall(i), idem |-> req.idem,
                   applied |-> applied]
<1>7. log' = IF Commits(req) THEN Append(log, rec) ELSE log
  BY <1>2, <1>3, Zenon DEF Mutate, LogAfter
<1>8. rec \in LogRecord /\ rec.by = ByCall(i) /\ rec.idem = req.idem /\ rec.applied = applied
  BY Zenon DEF Request, LogRecord, ByCall, Key
<1> HIDE DEF rec, kind
<1>9. Proper(rec)
  BY <1>2, <1>8 DEF Proper, ByCall
<1>10. Records'
  BY <1>1, <1>7, <1>8, <1>9, RecordsKept DEF AnswerInv
<1>11. Writes(call[c].id)
  BY <1>2, <1>7, <1>8, ZenonT(40) DEF Writes
<1>12. MatchesLog(call[c])'
  <2>1. CASE Commits(req)
    <3>1. /\ Len(log) \in Nat /\ Len(log') = Len(log) + 1 /\ log'[Len(log) + 1] = rec
          /\ RecordsBy(ByCall(i))' = RecordsBy(ByCall(i)) \cup {Len(log) + 1}
      BY <1>1, <1>7, <1>8, <2>1, Appending, Zenon
    <3>2. RecordsBy(ByCall(i))' = {Len(log) + 1}
      BY <1>2, <3>1, Zenon DEF Untouched
    <3>3. code = "OK" /\ pos = Len(log) + 1
      BY <1>4, <2>1, Zenon DEF Commits
    <3>4. pos \in 1..Len(log') /\ log'[pos].applied = applied
      BY <1>8, <3>1, <3>3
    <3> QED BY <1>1, <1>6, <3>2, <3>3, <3>4, ZenonT(40) DEF MatchesLog, RefusalCodes
  <2>2. CASE ~Commits(req)
    <3>1. log' = log /\ RecordsBy(ByCall(i))' = {}
      BY <1>2, <1>7, <2>2, Zenon DEF Untouched, RecordsBy
    <3>2. CASE code = "FailedPrecondition"
      BY <1>6, <3>1, <3>2, ZenonT(40) DEF MatchesLog
    <3>3. CASE code = "OK"
      <4>1. pos \in 1..Len(log) /\ log[pos].idem = req.idem /\ req.idem # NoIdem
        BY <1>4, <2>2, <3>3, ZenonT(40) DEF Remembered
      <4>2. log[pos] \in LogRecord /\ Proper(log[pos])
        BY <1>1, <4>1 DEF AnswerInv, Records
      <4>3. setting.profile = "durable" => log[pos].applied
        BY <4>1, <4>2, Zenon DEF Proper
      <4> QED BY <1>1, <1>6, <3>1, <3>3, <4>1, <4>3, ZenonT(40) DEF MatchesLog, RefusalCodes
    <3> QED BY <3>2, <3>3, Zenon
  <2> QED BY <2>1, <2>2, ZenonT(40)
<1>13. Settled(call[c])'
  BY <1>2, <1>6, <1>12, ZenonT(40) DEF Settled, Owed
<1>14. Progress(c)'
  BY <1>1, <1>13, Zenon DEF Progress, AfterMutation
<1> QED BY <1>1, <1>2, <1>6, <1>10, <1>11, <1>14, ServedAnswers, ZenonT(40)

(* What the Redis connection may write. *)
LEMMA RedisWrites ==
  ASSUME TypeInv, Redis
  PROVE  \/ log' = log
         \/ \E rec \in LogRecord : /\ log' = Append(log, rec) /\ rec.idem = NoIdem
                                  /\ rec.by = ByConn(conn.id) /\ conn.id \in Nat
                                  /\ \/ RespPut /\ rec.kind = "put"
                                     \/ RespDelete /\ rec.kind = "delete"
<1>1. CASE log' = log
  BY <1>1, Zenon
<1>2. ASSUME NEW kind \in {"put", "delete"}, conn.pc \in {"put", "delete"}, RespWrites(kind)
      PROVE  \E rec \in LogRecord : /\ log' = Append(log, rec) /\ rec.idem = NoIdem
                                   /\ rec.by = ByConn(conn.id) /\ conn.id \in Nat
                                   /\ rec.kind = kind
  <2> DEFINE rec == [kind |-> kind, key |-> Head(conn.todo), by |-> ByConn(conn.id), idem |-> NoIdem,
                     applied |-> FALSE]
  <2>1. rec \in LogRecord /\ conn.id \in Nat
    BY <1>2, RespWritesType, ZenonT(40)
  <2> QED BY <1>2, <2>1, Zenon DEF RespWrites
<1>3. CASE log' # log
  BY <1>2, <1>3, Zenon DEF Redis, RespConnect, RespClose, RespRead, RespPut, RespDelGet,
     RespDelete, RespDelDone, RespPanic, Panic, Die, storeVars
<1> QED BY <1>1, <1>3, Zenon

LEMMA HandlerAnswers ==
  ASSUME TypeInv, TypeInv', Serving, AnswerInv, Staged', NEW c \in Callers, Handler(c),
         ~Die, ~Reply(c), ~ReplyError(c)
  PROVE  AnswerInv'
<1>1. srv[c] # "none"
  BY ZenonT(40) DEF Handler, Read, Fetch, Panic, CommitOffset, MutateDirectly, Propose,
     NotLeader, LeadershipLost, Apply, SetGauge, Count, InHandler, Serves
<1>2. call[c] # NoCall /\ call[c] \in CallRecord /\ client[c] # "idle"
  BY <1>1, ZenonT(40) DEF TypeInv, TypeOK
<1>3. Progress(c) /\ Identified(c)
  BY <1>2, Zenon DEF AnswerInv, Underway
<1>4. setting' = setting /\ calls' = calls /\ calls \in Nat /\ told' = told
  BY Zenon DEF Handler, Read, Fetch, Panic, CommitOffset, MutateDirectly, Propose, NotLeader,
     LeadershipLost, Apply, SetGauge, Count, Serves, TypeInv, TypeOK
<1>5. log' = log => Records'
  BY <1>4, RecordsKept DEF AnswerInv
<1>6. \A rpc \in {"Get", "FetchOffset", "ListNodes", "ExportNamespace", "GetUsage", "Check",
                  "Fetch", "CommitOffset"} : rpc \notin Mutations
  BY Zenon DEF Mutations
<1>7. CASE Read(c)
  BY <1>5, <1>6, <1>7, AnswersWithout, ZenonT(40) DEF Read, InHandler, storeVars
<1>8. CASE Fetch(c)
  BY <1>5, <1>6, <1>8, AnswersWithout, ZenonT(40) DEF Fetch, Panic, InHandler, storeVars
<1>9. CASE CommitOffset(c)
  BY <1>5, <1>6, <1>9, AnswersWithout, Zenon DEF CommitOffset, InHandler
<1>10. CASE NotLeader(c)
  BY <1>5, <1>10, AnswersWithout, Zenon DEF NotLeader, InHandler, storeVars
<1>11. CASE MutateDirectly(c)
  <2>1. srv[c] = "handler" /\ raftq' = raftq /\ Untouched(call[c].id) /\ ~Owed(call[c].id)
    BY <1>3, <1>11, ZenonT(40) DEF MutateDirectly, InHandler, Progress
  <2>2. setting.profile # "durable"
    BY <1>11, <2>1, Zenon DEF MutateDirectly, AnswerInv, Staged, Serving, Phases
  <2> QED BY <1>11, <2>1, <2>2, MutateAnswers, ZenonT(40) DEF MutateDirectly, Owed
<1>12. CASE Apply(c)
  <2>1. srv[c] = "raft" /\ call[c] \in raftq /\ raftq' = raftq \ {call[c]}
    BY <1>12, Zenon DEF Apply, Serves
  <2>2. Untouched(call[c].id) /\ \A r \in raftq' : r.id # call[c].id
    BY <2>1, Zenon DEF AnswerInv, Queued
  <2> QED BY <1>12, <2>1, <2>2, MutateAnswers, ZenonT(40) DEF Apply
<1>13. CASE Propose(c)
  <2>1. /\ srv[c] = "handler" /\ srv'[c] = "raft" /\ raftq' = raftq \cup {call[c]}
        /\ log' = log /\ call' = call /\ \A d \in Callers \ {c} : srv'[d] = srv[d]
    BY <1>13, ZenonT(40) DEF Propose, InHandler, Serves, storeVars, TypeInv, TypeOK
  <2>2. Untouched(call[c].id) /\ ~Owed(call[c].id)
    BY <1>3, <2>1, ZenonT(40) DEF Progress
  <2>3. Progress(c)'
    BY <2>1, ZenonT(40) DEF Progress
  <2> QED BY <1>2, <1>4, <1>5, <2>1, <2>2, <2>3, ServedAnswers, ZenonT(40) DEF Writes
<1>14. CASE LeadershipLost(c)
  <2>1. /\ srv[c] = "raft" /\ srv'[c] = "count" /\ log' = log /\ raftq' \in {raftq, raftq \ {call[c]}}
        /\ Result(c, "Unavailable", 0) /\ \A d \in Callers \ {c} : srv'[d] = srv[d]
    BY <1>14, Zenon DEF LeadershipLost, Serves, storeVars, TypeInv, TypeOK
  <2>2. "Unavailable" \in Codes /\ "Unavailable" \notin RefusalCodes
    BY Zenon DEF Codes, RefusalCodes
  <2>3. /\ call'[c].id = call[c].id /\ call'[c].code = "Unavailable"
        /\ \A d \in Callers \ {c} : call'[d] = call[d]
    BY <1>2, <2>1, <2>2, ResultEffect, ZenonT(40)
  <2>4. Settled(call[c])'
    BY <2>2, <2>3, Zenon DEF Settled, MatchesLog
  <2>5. Progress(c)'
    BY <2>1, <2>4, Zenon DEF Progress
  <2>6. Untouched(call[c].id)
    BY <1>3, <2>1, ZenonT(40) DEF Progress, AnswerInv, Queued
  <2> QED BY <1>2, <1>4, <1>5, <2>1, <2>3, <2>5, <2>6, ServedAnswers, ZenonT(40) DEF Writes
<1>15. CASE SetGauge(c) \/ Count(c)
  <2>1. /\ srv[c] \in {"gauge", "count"} /\ srv'[c] \in {"count", "reply"}
        /\ log' = log /\ call' = call /\ raftq' = raftq
        /\ \A d \in Callers \ {c} : srv'[d] = srv[d]
    BY <1>15, ZenonT(40) DEF SetGauge, Count, Serves, storeVars, TypeInv, TypeOK
  <2>2. Settled(call[c])
    BY <1>3, <2>1, Zenon DEF Progress
  <2>3. Settled(call[c])'
    BY <1>4, <2>1, <2>2, ZenonT(40) DEF Settled, MatchesLog, Owed, RecordsBy
  <2>4. Progress(c)'
    BY <2>1, <2>3, ZenonT(40) DEF Progress
  <2>5. \A r \in raftq' : r.id = call[c].id => Untouched(call[c].id)
    BY <2>1, ZenonT(40) DEF AnswerInv, Queued
  <2> QED BY <1>2, <1>4, <1>5, <2>1, <2>4, <2>5, ServedAnswers, ZenonT(40) DEF Writes
<1> QED BY <1>7, <1>8, <1>9, <1>10, <1>11, <1>12, <1>13, <1>14, <1>15, Zenon DEF Handler

(* The calls under way become fewer, and what was settled may be told.  Raft may
   apply the command i, if nobody waits for it any more. *)
LEMMA FewerCalls ==
  ASSUME TypeInv, TypeInv', AnswerInv, Staged', Records', setting' = setting, calls' = calls,
         NEW i \in Nat, Writes(i), raftq' \subseteq raftq, \A r \in raftq' : r.id # i,
         \A t \in told : t.id = i => t.code = "Unavailable",
         \A t \in told' \ told : /\ t.id <= calls /\ t.id # i /\ Settled(t)
                                /\ \A d \in Callers : call'[d] # NoCall => call'[d].id # t.id,
         \A d \in Callers : call'[d] # NoCall =>
            /\ call'[d] = call[d] /\ srv'[d] = srv[d]
            /\ srv[d] = "raft" => call[d] \in raftq'
            /\ call[d].id = i => /\ srv[d] \in {"gauge", "count", "reply", "error"}
                                /\ call[d].code = "Unavailable"
  PROVE  AnswerInv'
<1>1. /\ \A j \in Nat \ {i} : Untouched(j) => Untouched(j)'
      /\ \A j \in Nat \ {i} : ~Owed(j) => ~Owed(j)'
      /\ \A t \in CallRecord : t.id # i /\ Settled(t) => Settled(t)'
  BY OthersKept, Zenon
<1>2. \A t \in CallRecord : t.code = "Unavailable" => Settled(t)'
  BY ZenonT(40) DEF Settled, MatchesLog, RefusalCodes
<1>3. Told'
  <2> SUFFICES ASSUME NEW t \in told' PROVE t.id <= calls /\ Settled(t)'
    BY Zenon DEF Told
  <2>1. t \in CallRecord /\ t.id <= calls /\ Settled(t)
    BY ZenonT(40) DEF TypeInv, TypeOK, AnswerInv, Told
  <2> QED BY <1>1, <1>2, <2>1, Zenon
<1>4. Queued'
  <2>1. ASSUME NEW r \in raftq' PROVE r.id <= calls /\ Untouched(r.id)'
    <3>1. r.id \in Nat \ {i} /\ r.id <= calls /\ Untouched(r.id)
      BY ZenonT(40) DEF TypeInv, TypeOK, CallRecord, AnswerInv, Queued
    <3> QED BY <1>1, <3>1, ZenonT(40)
  <2> QED BY <2>1, Zenon DEF AnswerInv, Queued
<1>5. Underway'
  <2> SUFFICES ASSUME NEW d \in Callers, call'[d] # NoCall PROVE Identified(d)' /\ Progress(d)'
    BY ZenonT(40) DEF Underway
  <2>1. PICK t \in CallRecord : t = call[d] /\ t = call'[d]
    BY DEF TypeInv, TypeOK
  <2>2. t.id \in Nat /\ Identified(d) /\ Progress(d) /\ srv'[d] = srv[d]
    BY <2>1, Zenon DEF AnswerInv, Underway, CallRecord
  <2>3. Identified(d)'
    <3>1. \A u \in told' : u.id # t.id
      BY <2>1, <2>2 DEF Identified
    <3>2. \A e \in Callers \ {d} : call'[e] # NoCall => call'[e].id # t.id
      BY <2>1, <2>2, Zenon DEF Identified
    <3> QED BY <2>1, <2>2, <3>1, <3>2, ZenonT(40) DEF Identified
  <2>4. srv[d] \in {"none", "handler"} => Untouched(t.id)' /\ ~Owed(t.id)'
    BY <1>1, <2>1, <2>2, ZenonT(40) DEF Progress
  <2>5. srv[d] = "raft" => t \in raftq'
    BY <2>1, ZenonT(40)
  <2>6. srv[d] \in {"gauge", "count", "reply", "error"} => Settled(t)'
    BY <1>1, <1>2, <2>1, <2>2, ZenonT(40) DEF Progress
  <2> QED BY <2>1, <2>2, <2>3, <2>4, <2>5, <2>6, ZenonT(40) DEF Progress, Untouched, Owed,
     Settled, MatchesLog
<1> QED BY <1>3, <1>4, <1>5, ZenonT(40) DEF AnswerInv

(* The same where raft applies nothing. *)
LEMMA QuietAnswers ==
  ASSUME TypeInv, TypeInv', AnswerInv, Staged', setting' = setting, calls' = calls,
         \/ log' = log
         \/ \E rec \in LogRecord : /\ log' = Append(log, rec) /\ rec.idem = NoIdem
                                  /\ \E n \in Nat : rec.by = ByConn(n),
         raftq' \subseteq raftq,
         \A t \in told' \ told : /\ t.id <= calls /\ Settled(t)
                                /\ \A d \in Callers : call'[d] # NoCall => call'[d].id # t.id,
         \A d \in Callers : call'[d] # NoCall =>
            /\ call'[d] = call[d] /\ srv'[d] = srv[d]
            /\ srv[d] = "raft" => call[d] \in raftq'
  PROVE  AnswerInv'
<1>1. PICK i \in Nat : i = calls + 1 /\ calls \in Nat
  BY DEF TypeInv, TypeOK
<1>2. \A j \in Nat : j <= calls => j # i
  BY <1>1
<1>3. Writes(i)
  BY Zenon DEF Writes
<1>4. \A n \in Nat : ByConn(n).via # "grpc"
  BY Zenon DEF ByConn
<1>5. Records'
  BY <1>1, <1>4, RecordsKept DEF AnswerInv, Proper
<1>6. /\ \A t \in told \cup told' : t.id \in Nat /\ t.id # i
      /\ \A r \in raftq' : r.id # i
  BY <1>2, ZenonT(40) DEF TypeInv, TypeOK, CallRecord, AnswerInv, Told, Queued
<1>7. \A d \in Callers : call[d] # NoCall => call[d].id # i
  BY <1>2, Zenon DEF TypeInv, TypeOK, CallRecord, AnswerInv, Underway, Identified
<1> QED BY <1>3, <1>5, <1>6, <1>7, FewerCalls, Zenon

(* A new call has a number nobody has had. *)
LEMMA StartsAnswers ==
  ASSUME TypeInv, TypeInv', AnswerInv, Staged', NEW c \in Callers, NEW req, NEW transport,
         Starts(c, req, transport)
  PROVE  AnswerInv'
<1>1. /\ call[c] = NoCall /\ srv[c] = "none" /\ calls \in Nat /\ calls' = calls + 1
      /\ call'[c].id = calls' /\ \A d \in Callers \ {c} : call'[d] = call[d]
      /\ UNCHANGED <<setting, log, told, raftq, srv>>
  BY ZenonT(40) DEF Starts, TypeInv, TypeOK, storeVars, histVars
<1>2. PICK i \in Nat : i = calls + 1
  BY <1>1
<1>3. \A j \in Nat : j <= calls => j <= calls' /\ j # i
  BY <1>1, <1>2
<1>4. Records'
  BY <1>1, RecordsKept DEF AnswerInv
<1>5. /\ \A j : Untouched(j) => Untouched(j)'
      /\ \A j : ~Owed(j) => ~Owed(j)'
      /\ \A t : Settled(t) => Settled(t)'
  BY <1>1, ZenonT(40) DEF Untouched, RecordsBy, Owed, Settled, MatchesLog
<1>6. \A t \in told \cup raftq : t.id \in Nat /\ t.id <= calls
  BY ZenonT(40) DEF TypeInv, TypeOK, CallRecord, AnswerInv, Told, Queued
<1>7. Told' /\ Queued'
  BY <1>1, <1>3, <1>5, <1>6, ZenonT(40) DEF AnswerInv, Told, Queued
<1>8. Untouched(i) /\ ~Owed(i)
  <2>1. ~Owed(i)
    BY <1>3, <1>6, Zenon DEF Owed
  <2>2. ASSUME NEW p \in RecordsBy(ByCall(i)) PROVE FALSE
    BY <1>1, <1>2 DEF RecordsBy, ByCall, AnswerInv, Records, Proper
  <2> QED BY <2>1, <2>2, Zenon DEF Untouched
<1>9. \A d \in Callers \ {c} : call[d] # NoCall =>
         call[d].id \in Nat /\ call[d].id <= calls /\ Identified(d) /\ Progress(d)
  BY ZenonT(40) DEF TypeInv, TypeOK, CallRecord, AnswerInv, Underway, Identified
<1>10. Identified(c)' /\ Progress(c)'
  <2>1. call'[c].id = i /\ srv'[c] = "none"
    BY <1>1, <1>2, Zenon
  <2>2. Identified(c)'
    <3>1. i <= calls'
      BY <1>1, <1>2
    <3>2. \A t \in told' : t.id # i
      BY <1>1, <1>3, <1>6, Zenon
    <3>3. \A d \in Callers \ {c} : call'[d] # NoCall => call'[d].id # i
      BY <1>1, <1>3, <1>9, Zenon
    <3> QED BY <2>1, <3>1, <3>2, <3>3, Zenon DEF Identified
  <2>3. Untouched(i)' /\ ~Owed(i)'
    BY <1>5, <1>8, Zenon
  <2> QED BY <2>1, <2>2, <2>3, ZenonT(40) DEF Progress, Untouched, Owed, RecordsBy
<1>11. ASSUME NEW d \in Callers \ {c}, call'[d] # NoCall PROVE Identified(d)' /\ Progress(d)'
  <2>1. Identified(d)'
    BY <1>1, <1>2, <1>3, <1>9, <1>11, ZenonT(40) DEF Identified
  <2>2. Progress(d)'
    <3>1. PICK t : t = call[d]
      BY Zenon
    <3>2. call'[d] = t /\ srv'[d] = srv[d] /\ raftq' = raftq
      BY <1>1, <3>1, ZenonT(40)
    <3>3. /\ srv[d] \in {"none", "handler"} => Untouched(t.id)' /\ ~Owed(t.id)'
          /\ srv[d] = "raft" => t \in raftq
          /\ srv[d] \in {"gauge", "count", "reply", "error"} => Settled(t)'
      BY <1>1, <1>5, <1>9, <1>11, <3>1, ZenonT(40) DEF Progress
    <3>4. srv'[d] \in {"none", "handler"} => Untouched(call[d].id)' /\ ~Owed(call[d].id)'
      BY <3>2, <3>3, ZenonT(40) DEF Untouched, Owed, RecordsBy
    <3>5. srv'[d] \in {"gauge", "count", "reply", "error"} => Settled(call[d])'
      BY <3>2, <3>3, ZenonT(40) DEF Settled, MatchesLog, Owed, RecordsBy
    <3> QED BY <3>2, <3>3, <3>4, <3>5, Zenon DEF Progress
  <2> QED BY <2>1, <2>2, Zenon
<1>12. Underway'
  BY <1>10, <1>11, Zenon DEF Underway
<1> QED BY <1>4, <1>7, <1>12, Zenon DEF AnswerInv

LEMMA AnswerStep ==
  TypeInv /\ Serving /\ AnswerInv /\ [Next]_vars => AnswerInv'
<1> SUFFICES ASSUME TypeInv, Serving, AnswerInv, [Next]_vars PROVE AnswerInv'
  BY Zenon
<1>0. TypeInv' /\ Staged' /\ setting' = setting
  BY TypeStep, StagedStep, Remembering, Zenon DEF AnswerInv
<1>a. \A d \in Callers : srv[d] = "raft" /\ call[d] # NoCall => call[d] \in raftq
  BY Zenon DEF AnswerInv, Underway, Progress
<1>1. ASSUME UNCHANGED <<log, raftq, calls, call, srv, told>> PROVE AnswerInv'
  BY <1>0, <1>a, <1>1, QuietAnswers, Zenon
<1>2. ASSUME Die PROVE AnswerInv'
  BY <1>0, <1>2, QuietAnswers, Zenon DEF Die, storeVars
<1>3. CASE Main
  <2>1. CASE Exit
    BY <1>2, <2>1, Zenon DEF Exit
  <2>2. CASE ~Exit
    BY <1>1, <1>3, <2>2, ZenonT(40) DEF Main, CheckConfig, OpenEngine, OpenOffsets, OpenRaft,
       Listen, LoadCredentials, StartServing, ServeReturns, Unwind, Run, storeVars, callVars,
       histVars
  <2> QED BY <2>1, <2>2, Zenon
<1>4. CASE Signal \/ ShutdownHTTP \/ GracefulStop \/ \E busy \in BOOLEAN : Scrape(busy)
  BY <1>1, <1>4, Zenon DEF Signal, ShutdownHTTP, GracefulStop, Signalled, Scrape, storeVars,
     callVars, histVars
<1>5. ASSUME NEW c \in Callers, CtlInvoke(c) \/ BenchExecute(c) \/ AppCall(c)
      PROVE  AnswerInv'
  BY <1>0, <1>5, ClientTypes, StartsAnswers, Zenon
<1>6. ASSUME NEW c \in Callers, ConnectError(c) \/ GiveUp(c) \/ WatcherLeaves(c)
      PROVE  AnswerInv'
  <2>1. /\ UNCHANGED <<log, raftq, calls, told>>
        /\ \A d \in Callers : call'[d] # NoCall => call'[d] = call[d] /\ srv'[d] = srv[d]
    BY <1>6, Zenon DEF ConnectError, GiveUp, WatcherLeaves, Leaves, storeVars, histVars, TypeInv,
       TypeOK
  <2> QED BY <1>0, <1>a, <2>1, QuietAnswers, Zenon
<1>7. ASSUME NEW c \in Callers, Arrive(c) PROVE AnswerInv'
  <2>1. UNCHANGED <<log, calls>> /\ calls \in Nat
    BY <1>7, Zenon DEF Arrive, Serves, storeVars, TypeInv, TypeOK
  <2>2. Records'
    BY <1>0, <2>1, RecordsKept DEF AnswerInv
  <2> QED BY <1>0, <1>7, <2>2, ArriveAnswers, Zenon
<1>8. ASSUME NEW c \in Callers, Handler(c) PROVE AnswerInv'
  <2>1. CASE Reply(c) \/ ReplyError(c)
    <3>1. /\ UNCHANGED <<log, raftq, calls>> /\ told' \subseteq told \cup {call[c]}
          /\ call[c] # NoCall /\ srv[c] \in {"reply", "error"} /\ call'[c] = NoCall
          /\ \A d \in Callers \ {c} : call'[d] = call[d] /\ srv'[d] = srv[d]
      BY <2>1, ZenonT(40) DEF Reply, ReplyError, Answers, storeVars, TypeInv, TypeOK
    <3>2. Identified(c) /\ Settled(call[c])
      BY <3>1, Zenon DEF AnswerInv, Underway, Progress
    <3> QED BY <1>0, <1>a, <3>1, <3>2, QuietAnswers, Zenon DEF Identified
  <2>2. CASE ~Reply(c) /\ ~ReplyError(c) /\ ~Die
    BY <1>0, <1>8, <2>2, HandlerAnswers, Zenon
  <2> QED BY <1>2, <2>1, <2>2, Zenon
<1>9. CASE ApplyLate
  <2>1. PICK r \in raftq : /\ \A c \in Callers : srv[c] = "raft" => call[c] # r
                           /\ log' = LogAfter(r.req, r.id, TRUE)
                           /\ raftq' = raftq \ {r}
    BY <1>9, ZenonT(40) DEF ApplyLate
  <2>2. UNCHANGED <<calls, call, srv, told>> /\ calls \in Nat
    BY <1>9, Zenon DEF ApplyLate, histVars, TypeInv, TypeOK
  <2>3. PICK i \in Nat : i = r.id
    BY Zenon DEF TypeInv, TypeOK, CallRecord
  <2>4. r.req \in Request /\ Owed(i) /\ i <= calls /\ \A q \in raftq' : q.id # i
    BY <2>1, <2>3, Zenon DEF TypeInv, TypeOK, CallRecord, Owed, AnswerInv, Queued
  <2>5. \A t \in told : t.id = i => t.code = "Unavailable"
    BY <2>4, Zenon DEF AnswerInv, Told, Settled
  <2>6. \A d \in Callers : call[d] # NoCall =>
           /\ srv[d] = "raft" => call[d] \in raftq'
           /\ call[d].id = i => /\ srv[d] \in {"gauge", "count", "reply", "error"}
                                /\ call[d].code = "Unavailable"
    <3> SUFFICES ASSUME NEW d \in Callers, call[d] # NoCall
                 PROVE  /\ srv[d] = "raft" => call[d] \in raftq'
                        /\ call[d].id = i => /\ srv[d] \in {"gauge", "count", "reply", "error"}
                                             /\ call[d].code = "Unavailable"
      BY Zenon
    <3>1. Progress(d) /\ srv[d] \in ServerSteps
      BY Zenon DEF AnswerInv, Underway, TypeInv, TypeOK
    <3>2. srv[d] = "raft" => call[d] \in raftq'
      BY <2>1, <3>1, Zenon DEF Progress
    <3>3. call[d].id = i => srv[d] \in {"gauge", "count", "reply", "error"}
      BY <2>4, <3>1, <3>2, Zenon DEF Progress, ServerSteps
    <3> QED BY <2>4, <3>1, <3>2, <3>3, Zenon DEF Progress, Settled
  <2> DEFINE kind == IF r.req.rpc = "Delete" THEN "delete" ELSE "put"
             rec == [kind |-> kind, key |-> Key, by |-> ByCall(i), idem |-> r.req.idem,
                     applied |-> TRUE]
  <2>7. log' = IF Commits(r.req) THEN Append(log, rec) ELSE log
    BY <2>1, <2>3, Zenon DEF LogAfter
  <2>8. rec \in LogRecord /\ rec.by = ByCall(i) /\ rec.applied
    BY <2>4, Zenon DEF Request, LogRecord, ByCall, Key
  <2> HIDE DEF rec, kind
  <2>9. Proper(rec)
    BY <2>4, <2>8 DEF Proper, ByCall
  <2>10. Records'
    BY <1>0, <2>2, <2>7, <2>8, <2>9, RecordsKept DEF AnswerInv
  <2>11. Writes(i)
    BY <2>7, <2>8, Zenon DEF Writes
  <2> QED BY <1>0, <2>1, <2>2, <2>4, <2>5, <2>6, <2>10, <2>11, FewerCalls
<1>10. CASE Redis /\ ~RespPanic
  <2>1. UNCHANGED <<raftq, calls, call, srv, told>>
    BY <1>10, Zenon DEF Redis, RespConnect, RespClose, RespRead, RespPut, RespDelGet, RespDelete,
       RespDelDone, RespStep, callVars
  <2>2. \/ log' = log
        \/ \E rec \in LogRecord : /\ log' = Append(log, rec) /\ rec.idem = NoIdem
                                 /\ \E n \in Nat : rec.by = ByConn(n)
    BY <1>10, RedisWrites, Zenon
  <2> QED BY <1>0, <1>a, <2>1, <2>2, QuietAnswers, Zenon
<1>12. CASE RespPanic
  BY <1>2, <1>12, Zenon DEF RespPanic, Panic
<1>11. CASE UNCHANGED vars
  BY <1>1, <1>11, Zenon DEF vars, storeVars, callVars, histVars
<1> QED BY <1>3, <1>4, <1>5, <1>6, <1>7, <1>8, <1>9, <1>10, <1>11, <1>12 DEF Next

(* What a caller is told agrees with the log for any number of calls, whichever
   give up, are refused, are retried with their idempotency key or lose their
   leader half way. *)
THEOREM AnswersAreTrue == Spec => []AnswersMatchLog
<1>1. AnswerInv => AnswersMatchLog
  BY Zenon DEF AnswerInv, Told, Settled, AnswersMatchLog
<1>2. Init => Serving
  BY CloseInit, Zenon DEF CloseInv
<1> QED BY <1>1, <1>2, AnswerInit, TypeInit, TypeStep, ServingStep, AnswerStep, PTL DEF Spec

-----------------------------------------------------------------------------
(* Replies on the Redis connection and the log. *)

Mine(id) == RecordsBy(ByConn(id))

(* Replies are numbered like commands, and a command that is under way has written
   what it will reply. *)
Pipelined ==
    /\ conn.pc = "none" => conn.id = 0 /\ Len(replies) = 0
    /\ conn.pc = "read" => conn.id = Len(replies) /\ conn.n = 0
    /\ conn.pc \in {"put", "del", "delete"} => conn.id = Len(replies) + 1
    /\ conn.pc # "closed" => \A n \in Nat : n > conn.id => Mine(n) = {}
    /\ conn.pc = "put" => Mine(conn.id) = {}
    /\ conn.pc \in {"del", "delete"} =>
          /\ Cardinality(Mine(conn.id)) = conn.n
          /\ \A p \in Mine(conn.id) : log[p].kind = "delete"

ReplyInv == RepliesMatchLog /\ Pipelined

LEMMA MineFinite ==
  ASSUME log \in Seq(LogRecord), NEW n
  PROVE  Mine(n) \subseteq 1..Len(log) /\ IsFiniteSet(Mine(n)) /\ Cardinality({}) = 0
<1>1. Len(log) \in Nat /\ Mine(n) \subseteq 1..Len(log)
  BY DEF Mine, RecordsBy
<1>2. IsFiniteSet(1..Len(log))
  BY <1>1, FS_Interval
<1> QED BY <1>1, <1>2, FS_Subset, FS_EmptySet, Zenon

LEMMA ReplyInit == Init => ReplyInv
<1> SUFFICES ASSUME Init PROVE ReplyInv
  OBVIOUS
<1>1. Len(log) = 0 /\ Len(replies) = 0 /\ conn = NoConn
  BY Zenon DEF Init
<1>2. 1..Len(log) = {} /\ 1..Len(replies) = {}
  BY <1>1
<1>3. \A n \in Nat : Mine(n) = {}
  BY <1>2, Zenon DEF Mine, RecordsBy
<1>4. conn.pc = "none" /\ conn.id = 0
  BY <1>1, Zenon DEF NoConn
<1> QED BY <1>1, <1>2, <1>3, <1>4, Zenon DEF ReplyInv, RepliesMatchLog, Pipelined

(* A step leaves the records of other commands, and so the replies to them. *)
LEMMA OthersMine ==
  ASSUME TypeInv, NEW S,
         \/ log' = log
         \/ \E rec \in LogRecord : log' = Append(log, rec) /\ \A n \in S : rec.by # ByConn(n)
  PROVE  /\ \A n \in S : Mine(n)' = Mine(n) /\ \A p \in Mine(n) : log'[p] = log[p]
         /\ \A r \in ReplyRecord : r.id \in S /\ ReplyMatchesLog(r) => ReplyMatchesLog(r)'
<1>0. log \in Seq(LogRecord)
  BY Zenon DEF TypeInv, TypeOK
<1>1. \A n \in S : Mine(n)' = Mine(n) /\ \A p \in Mine(n) : log'[p] = log[p]
  <2>1. CASE log' = log
    BY <2>1, Zenon DEF Mine, RecordsBy
  <2>2. CASE log' # log
    <3>1. PICK rec \in LogRecord : log' = Append(log, rec) /\ \A n \in S : rec.by # ByConn(n)
      BY <2>2, Zenon
    <3>2. /\ \A p \in 1..Len(log) : log'[p] = log[p]
          /\ \A by : by # rec.by => RecordsBy(by)' = RecordsBy(by)
      BY <1>0, <3>1, Appending, Zenon
    <3>3. \A n \in S : RecordsBy(ByConn(n))' = RecordsBy(ByConn(n))
      BY <3>1, <3>2, Zenon
    <3> QED BY <1>0, <3>2, <3>3, MineFinite, Zenon DEF Mine
  <2> QED BY <2>1, <2>2, Zenon
<1>2. ASSUME NEW r \in ReplyRecord, r.id \in S, ReplyMatchesLog(r) PROVE ReplyMatchesLog(r)'
  <2>1. Mine(r.id)' = Mine(r.id) /\ \A p \in Mine(r.id) : log'[p] = log[p]
    BY <1>1, <1>2, Zenon
  <2> QED BY <1>2, <2>1, Zenon DEF ReplyMatchesLog, Mine
<1> QED BY <1>1, <1>2, Zenon

(* No reply is sent. *)
LEMMA RepliesKept ==
  ASSUME TypeInv, RepliesMatchLog, replies' = replies,
         \/ log' = log
         \/ \E rec \in LogRecord : /\ log' = Append(log, rec)
                                   /\ \A n \in 1..Len(replies) : rec.by # ByConn(n)
  PROVE  RepliesMatchLog'
<1> SUFFICES ASSUME NEW i \in 1..Len(replies) PROVE replies[i].id = i /\ ReplyMatchesLog(replies[i])'
  BY Zenon DEF RepliesMatchLog
<1>1. PICK r \in ReplyRecord : r = replies[i]
  BY DEF TypeInv, TypeOK
<1>2. r.id = i /\ ReplyMatchesLog(r)
  BY <1>1, Zenon DEF RepliesMatchLog
<1>3. ReplyMatchesLog(r)'
  BY <1>2, OthersMine, ZenonT(40)
<1> QED BY <1>1, <1>2, <1>3, Zenon DEF ReplyMatchesLog

(* One reply is sent, to the command after the last one that was answered. *)
LEMMA RepliesSent ==
  ASSUME TypeInv, RepliesMatchLog, NEW new \in ReplyRecord, replies' = Append(replies, new),
         new.id = Len(replies) + 1, ReplyMatchesLog(new)',
         \/ log' = log
         \/ \E rec \in LogRecord : /\ log' = Append(log, rec)
                                   /\ \A n \in 1..Len(replies) : rec.by # ByConn(n)
  PROVE  RepliesMatchLog'
<1>1. replies \in Seq(ReplyRecord)
  BY Zenon DEF TypeInv, TypeOK
<1>2. /\ Len(replies) \in Nat /\ Len(replies') = Len(replies) + 1
      /\ \A i \in 1..Len(replies) : replies'[i] = replies[i]
      /\ replies'[Len(replies) + 1] = new
  BY <1>1
<1> SUFFICES ASSUME NEW i \in 1..Len(replies')
             PROVE  replies'[i].id = i /\ ReplyMatchesLog(replies[i])'
  BY Zenon DEF RepliesMatchLog
<1>3. PICK r \in ReplyRecord : r = replies'[i] /\ r.id = i /\ ReplyMatchesLog(r)'
  <2>1. CASE i = Len(replies) + 1
    BY <1>2, <2>1, Zenon
  <2>2. CASE i # Len(replies) + 1
    <3>1. i \in 1..Len(replies) /\ replies'[i] = replies[i] /\ replies[i] \in ReplyRecord
      BY <1>1, <1>2, <2>2
    <3>2. PICK r \in ReplyRecord : r = replies[i] /\ r.id = i /\ ReplyMatchesLog(r)
      BY <3>1, Zenon DEF RepliesMatchLog
    <3>3. ReplyMatchesLog(r)'
      BY <3>1, <3>2, OthersMine, ZenonT(40)
    <3> QED BY <3>1, <3>2, <3>3, Zenon
  <2> QED BY <2>1, <2>2, Zenon
<1> QED BY <1>3, Zenon DEF ReplyMatchesLog

(* gRPC calls and raft do not write for the connection. *)
LEMMA CallsWrite ==
  ASSUME TypeInv, [Next]_vars, ~Redis
  PROVE  /\ \/ log' = log
            \/ \E rec \in LogRecord : log' = Append(log, rec) /\ \A n : rec.by # ByConn(n)
         /\ replies' = replies
         /\ conn' = conn \/ conn' = [NoConn EXCEPT !.pc = "closed"]
<1>1. ASSUME NEW req \in Request, NEW id \in Nat, NEW applied \in BOOLEAN
      PROVE  \/ LogAfter(req, id, applied) = log
             \/ \E rec \in LogRecord : /\ LogAfter(req, id, applied) = Append(log, rec)
                                       /\ \A n : rec.by # ByConn(n)
  <2> DEFINE kind == IF req.rpc = "Delete" THEN "delete" ELSE "put"
             rec == [kind |-> kind, key |-> Key, by |-> ByCall(id), idem |-> req.idem,
                     applied |-> applied]
  <2>1. rec \in LogRecord /\ rec.by = ByCall(id)
    BY Zenon DEF Request, LogRecord, ByCall, Key
  <2>2. \A n : ByCall(id) # ByConn(n)
    BY Zenon DEF ByCall, ByConn
  <2>3. LogAfter(req, id, applied) = IF Commits(req) THEN Append(log, rec) ELSE log
    BY Zenon DEF LogAfter
  <2> HIDE DEF rec, kind
  <2> QED BY <2>1, <2>2, <2>3, Zenon
<1>2. \A r \in CallRecord : r.req \in Request /\ r.id \in Nat
  BY Zenon DEF CallRecord
<1>3. ASSUME NEW c \in Callers, MutateDirectly(c) \/ Apply(c)
      PROVE  \E r \in CallRecord, applied \in BOOLEAN : log' = LogAfter(r.req, r.id, applied)
  <2>1. call[c] \in CallRecord
    BY <1>3, Zenon DEF MutateDirectly, Apply, InHandler, Serves, TypeInv, TypeOK
  <2> QED BY <1>3, <2>1, Zenon DEF MutateDirectly, Apply, Mutate
<1>4. CASE \E c \in Callers : Handler(c)
  <2>1. PICK c \in Callers : Handler(c)
    BY <1>4, Zenon
  <2>2. CASE MutateDirectly(c) \/ Apply(c)
    <3>1. PICK r \in CallRecord, applied \in BOOLEAN : log' = LogAfter(r.req, r.id, applied)
      BY <1>3, <2>2, Zenon
    <3>2. PICK req \in Request, id \in Nat : req = r.req /\ id = r.id
      BY <1>2, Zenon
    <3>3. \/ log' = log
          \/ \E rec \in LogRecord : log' = Append(log, rec) /\ \A n : rec.by # ByConn(n)
      BY <1>1, <3>1, <3>2, Zenon
    <3>4. replies' = replies /\ conn' = conn
      BY <2>2, Zenon DEF MutateDirectly, Apply, Serves
    <3> QED BY <3>3, <3>4, Zenon
  <2>3. CASE ~MutateDirectly(c) /\ ~Apply(c)
    BY <2>1, <2>3, Zenon DEF Handler, Read, Fetch, Panic, Die, CommitOffset, Propose, NotLeader,
       LeadershipLost, SetGauge, Count, Reply, ReplyError, Answers, Serves, storeVars
  <2> QED BY <2>2, <2>3, Zenon
<1>5. CASE ApplyLate
  <2>1. PICK r \in CallRecord : log' = LogAfter(r.req, r.id, TRUE)
    BY <1>5, Zenon DEF ApplyLate, TypeInv, TypeOK
  <2> QED BY <1>1, <1>2, <1>5, <2>1, ZenonT(40) DEF ApplyLate, histVars
<1>6. CASE Main
  BY <1>6, Zenon DEF Main, CheckConfig, OpenEngine, OpenOffsets, OpenRaft, Listen,
     LoadCredentials, StartServing, ServeReturns, Unwind, Exit, Die, Run, storeVars, histVars
<1>7. CASE Signal \/ ShutdownHTTP \/ GracefulStop \/ \E busy \in BOOLEAN : Scrape(busy)
  BY <1>7, Zenon DEF Signal, ShutdownHTTP, GracefulStop, Signalled, Scrape, storeVars, histVars
<1>8. ASSUME NEW c \in Callers, CtlInvoke(c) \/ BenchExecute(c) \/ AppCall(c) \/ ConnectError(c)
                                  \/ GiveUp(c) \/ WatcherLeaves(c) \/ Arrive(c)
      PROVE  log' = log /\ replies' = replies /\ conn' = conn
  BY <1>8, Zenon DEF CtlInvoke, BenchExecute, AppCall, Starts, ConnectError, GiveUp,
     WatcherLeaves, Leaves, Arrive, Serves, storeVars, histVars
<1>9. CASE UNCHANGED vars
  BY <1>9, Zenon DEF vars, storeVars, histVars
<1> QED BY <1>4, <1>5, <1>6, <1>7, <1>8, <1>9 DEF Next

LEMMA CallsReply ==
  ASSUME TypeInv, ReplyInv, [Next]_vars, ~Redis
  PROVE  ReplyInv'
<1>1. /\ \/ log' = log
         \/ \E rec \in LogRecord : log' = Append(log, rec) /\ \A n : rec.by # ByConn(n)
      /\ replies' = replies
      /\ conn' = conn \/ conn' = [NoConn EXCEPT !.pc = "closed"]
  BY CallsWrite, Zenon
<1>2. RepliesMatchLog'
  BY <1>1, RepliesKept, Zenon DEF ReplyInv
<1>3. CASE conn' = conn
  <2>1. conn.id \in Nat
    BY Zenon DEF TypeInv, TypeOK, ConnRecord
  <2>2. \A n \in Nat : Mine(n)' = Mine(n) /\ \A p \in Mine(n) : log'[p] = log[p]
    BY <1>1, OthersMine, Zenon
  <2>3. PICK n \in Nat : n = conn.id
    BY <2>1, Zenon
  <2>4. Mine(n)' = Mine(n) /\ \A p \in Mine(n) : log'[p] = log[p]
    BY <2>2, Zenon
  <2>5. Pipelined'
    BY <1>1, <1>3, <2>2, <2>3, <2>4 DEF ReplyInv, Pipelined, Mine
  <2> QED BY <1>2, <2>5, Zenon DEF ReplyInv
<1>4. CASE conn' = [NoConn EXCEPT !.pc = "closed"]
  <2>1. conn'.pc = "closed"
    BY <1>4, Zenon DEF NoConn
  <2> QED BY <1>2, <2>1, Zenon DEF ReplyInv, Pipelined
<1> QED BY <1>1, <1>3, <1>4, Zenon

(* A command is answered, after which the connection reads on. *)
LEMMA RespReplies ==
  ASSUME TypeInv, ReplyInv, conn.pc \in {"put", "del", "delete"},
         NEW kind \in {"ok", "failed", "integer"}, NEW n \in Nat, RespReply(kind, n),
         \/ log' = log
         \/ \E rec \in LogRecord : log' = Append(log, rec) /\ rec.by = ByConn(conn.id),
         kind = "ok" => Cardinality(Mine(conn.id)') = 1,
         kind = "integer" => Cardinality(Mine(conn.id)') = n,
         kind \in {"integer", "failed"} => \A p \in Mine(conn.id)' : log'[p].kind = "delete",
         conn'.id = conn.id
  PROVE  ReplyInv'
<1>1. PICK i \in Nat : i = conn.id /\ i = Len(replies) + 1
  BY ZenonT(40) DEF TypeInv, TypeOK, ConnRecord, ReplyInv, Pipelined
<1>2. PICK new \in ReplyRecord : new = [id |-> i, kind |-> kind, n |-> n]
  BY Zenon DEF ReplyRecord
<1>3. /\ conn'.pc = "read" /\ conn'.id = i /\ conn'.n = 0
      /\ replies' = Append(replies, new) /\ Len(replies') = i
      /\ replies \in Seq(ReplyRecord) /\ Len(replies) \in Nat
  BY <1>1, <1>2, RespReplyType DEF TypeInv, TypeOK
<1>4. Mine(conn.id)' = Mine(i)'
  BY <1>1, Zenon DEF Mine
<1>5. ReplyMatchesLog(new)'
  BY <1>1, <1>2, <1>4, ZenonT(40) DEF ReplyMatchesLog, Mine
<1>6. \A m \in Nat : m # i => ByConn(i) # ByConn(m)
  BY ZenonT(40) DEF ByConn
<1>7. RepliesMatchLog'
  <2>1. \A m \in 1..Len(replies) : m # i
    BY <1>1, <1>3
  <2> QED BY <1>1, <1>2, <1>3, <1>5, <1>6, <2>1, RepliesSent DEF ReplyInv
<1>8. \A m \in Nat \ {i} : Mine(m)' = Mine(m)
  BY <1>1, <1>6, OthersMine, ZenonT(40)
<1>9. Pipelined'
  BY <1>1, <1>3, <1>8 DEF ReplyInv, Pipelined
<1> QED BY <1>7, <1>9, ZenonT(40) DEF ReplyInv

LEMMA RedisReply ==
  ASSUME TypeInv, ReplyInv, Redis
  PROVE  ReplyInv'
<1>1. /\ conn \in ConnRecord /\ log \in Seq(LogRecord) /\ replies \in Seq(ReplyRecord)
      /\ Len(replies) \in Nat
  BY DEF TypeInv, TypeOK
<1>2. PICK i \in Nat : i = conn.id
  BY <1>1, Zenon DEF ConnRecord
<1>3. conn.in \in Seq(Line) /\ conn.todo \in Seq(STRING) /\ conn.n \in Nat
  BY <1>1, Zenon DEF ConnRecord
<1>4. \A n \in Nat : IsFiniteSet(Mine(n)) /\ Mine(n) \subseteq 1..Len(log) /\ Cardinality({}) = 0
  BY <1>1, MineFinite, Zenon
<1>5. log' = log => \A n : Mine(n)' = Mine(n)
  BY Zenon DEF Mine, RecordsBy
<1>6. log' = log /\ replies' = replies => RepliesMatchLog'
  BY RepliesKept, Zenon DEF ReplyInv
<1>7. ASSUME NEW rec \in LogRecord, log' = Append(log, rec), rec.by = ByConn(i)
      PROVE  /\ Len(log) \in Nat /\ Mine(i)' = Mine(i) \cup {Len(log) + 1}
             /\ Cardinality(Mine(i)') = Cardinality(Mine(i)) + 1
             /\ log'[Len(log) + 1] = rec /\ \A p \in Mine(i) : log'[p] = log[p]
             /\ \A n \in Nat \ {i} : Mine(n)' = Mine(n)
  <2>1. /\ Len(log) \in Nat /\ Mine(i)' = Mine(i) \cup {Len(log) + 1}
        /\ log'[Len(log) + 1] = rec /\ \A p \in 1..Len(log) : log'[p] = log[p]
    BY <1>1, <1>7, Appending, Zenon DEF Mine
  <2>2. Len(log) + 1 \notin Mine(i)
    BY <1>4, <2>1
  <2>3. Cardinality(Mine(i)') = Cardinality(Mine(i)) + 1
    BY <1>4, <2>1, <2>2, FS_AddElement, ZenonT(40)
  <2>4. \A n \in Nat \ {i} : ByConn(n) # rec.by
    BY <1>7 DEF ByConn
  <2>5. \A n \in Nat \ {i} : Mine(n)' = Mine(n)
    BY <1>1, <1>7, <2>4, Appending, Zenon DEF Mine
  <2> QED BY <1>4, <2>1, <2>3, <2>5, Zenon
<1>8. CASE RespConnect
  <2>1. conn.pc = "none" /\ conn'.pc = "read" /\ conn'.id = 0 /\ conn'.n = 0
        /\ log' = log /\ replies' = replies
    BY <1>8, Zenon DEF RespConnect, NoConn
  <2> QED BY <1>5, <1>6, <2>1, ZenonT(40) DEF ReplyInv, Pipelined
<1>9. CASE RespClose
  <2>1. conn'.pc = "closed" /\ log' = log /\ replies' = replies
    BY <1>9, Zenon DEF RespClose, NoConn
  <2> QED BY <1>6, <2>1, Zenon DEF ReplyInv, Pipelined
<1>10. CASE RespRead
  <2> DEFINE words == Words(conn.in)
             next == [conn EXCEPT !.in = Rest(conn.in), !.id = @ + 1]
  <2>1. /\ conn.pc = "read" /\ i = Len(replies) /\ conn.n = 0 /\ log' = log
        /\ Mine(i + 1) = {}
    BY <1>2, <1>10 DEF RespRead, ReplyInv, Pipelined
  <2>2. PICK k \in Nat : k = i + 1 /\ k = Len(replies) + 1
    BY <2>1
  <2>3. next.pc = "read" /\ next.id = k /\ next.n = 0
    BY <1>1, <1>2, <2>1, <2>2, Zenon DEF ConnRecord
  <2>4. Mine(k)' = {} /\ \A n \in Nat : n > k => Mine(n)' = {}
    BY <1>2, <1>5, <2>1, <2>2 DEF ReplyInv, Pipelined
  <2>5. CASE /\ Verdict(words) \in {"put", "del"}
             /\ conn' = [next EXCEPT !.pc = Verdict(words), !.todo = Tail(words)]
             /\ UNCHANGED replies
    <3>1. conn'.pc \in {"put", "del"} /\ conn'.id = k /\ conn'.n = 0
      <4>1. DOMAIN next = {"pc", "in", "id", "todo", "n"}
        BY <1>1, Zenon DEF ConnRecord
      <4> HIDE DEF next, words
      <4> QED BY <2>3, <2>5, <4>1, Zenon
    <3>2. Mine(conn.id)' = {}
      BY <2>4, <3>1, Zenon DEF Mine
    <3>3. Pipelined'
      BY <1>4, <2>1, <2>2, <2>4, <2>5, <3>1, <3>2, SMTT(30) DEF Pipelined
    <3> QED BY <1>6, <2>1, <2>5, <3>3, Zenon DEF ReplyInv
  <2>6. CASE /\ Verdict(words) \in {"reply", "error"}
             /\ conn' = next
             /\ replies' = Append(replies, [id |-> next.id, kind |-> Verdict(words), n |-> 0])
    <3> HIDE DEF next, words
    <3>1. PICK kind \in {"reply", "error"} : kind = Verdict(words)
      BY <2>6, Zenon
    <3>2. PICK new \in ReplyRecord : new = [id |-> k, kind |-> kind, n |-> 0]
      BY ZenonT(40) DEF ReplyRecord
    <3>3. replies' = Append(replies, new) /\ new.id = k /\ Len(replies') = k
      BY <1>1, <2>2, <2>3, <2>6, <3>1, <3>2
    <3>4. ReplyMatchesLog(new)'
      BY <2>4, <3>2, Zenon DEF ReplyMatchesLog, Mine
    <3>5. RepliesMatchLog'
      BY <2>1, <2>2, <3>3, <3>4, RepliesSent DEF ReplyInv
    <3>6. Pipelined'
      BY <2>3, <2>4, <2>6, <3>3, Zenon DEF Pipelined
    <3> QED BY <3>5, <3>6, Zenon DEF ReplyInv
  <2> QED BY <1>10, <2>5, <2>6, Zenon DEF RespRead
<1>11. ASSUME NEW kind \in {"ok", "failed", "integer"}, NEW n \in Nat, RespReply(kind, n)
       PROVE  conn'.id = conn.id /\ Mine(conn.id)' = Mine(i)'
  BY <1>2, <1>11, RespReplyType, ZenonT(40) DEF Mine
<1>12. CASE RespPut
  <2>1. conn.pc = "put" /\ Mine(i) = {}
    BY <1>2, <1>12, Zenon DEF RespPut, ReplyInv, Pipelined
  <2>2. CASE log' = log
    <3>1. Mine(i)' = {}
      BY <1>5, <2>1, <2>2, Zenon
    <3>2. CASE RespReply("failed", 0)
      BY <1>11, <2>1, <2>2, <3>1, <3>2, RespReplies, ZenonT(40)
    <3>3. CASE ~RespReply("failed", 0)
      <4>1. RespWrites("put")
        BY <1>12, <3>3, Zenon DEF RespPut
      <4>2. Len(log') = Len(log) + 1 /\ Len(log) \in Nat
        BY <1>1, <2>1, <4>1, RespWritesType DEF RespWrites
      <4> QED BY <2>2, <4>2
    <3> QED BY <3>2, <3>3, Zenon
  <2>3. CASE log' # log
    <3>1. PICK rec \in LogRecord : log' = Append(log, rec) /\ rec.by = ByConn(i)
      BY <1>2, <2>3, RedisWrites, Zenon
    <3>2. Cardinality(Mine(i)') = 1
      BY <1>4, <1>7, <2>1, <3>1
    <3>3. RespReply("ok", 0)
      BY <1>12, <2>3, Zenon DEF RespPut
    <3> QED BY <1>2, <1>11, <2>1, <3>1, <3>2, <3>3, RespReplies, ZenonT(40)
  <2> QED BY <2>2, <2>3, Zenon
<1>13. CASE RespDelGet
  <2>1. /\ conn.pc = "del" /\ conn'.pc \in {"del", "delete"} /\ conn'.id = i /\ conn'.n = conn.n
        /\ log' = log /\ replies' = replies
    BY <1>1, <1>2, <1>13, Zenon DEF RespDelGet, ConnRecord
  <2>2. Mine(conn.id)' = Mine(conn.id)
    BY <1>2, <2>1, Zenon DEF Mine, RecordsBy
  <2> QED BY <1>2, <1>5, <1>6, <2>1, <2>2, Zenon DEF ReplyInv, Pipelined
<1>14. CASE RespDelete
  <2>1. /\ conn.pc = "delete" /\ Cardinality(Mine(i)) = conn.n /\ i = Len(replies) + 1
        /\ \A p \in Mine(i) : log[p].kind = "delete"
        /\ \A n \in Nat : n > i => Mine(n) = {}
    BY <1>2, <1>14, Zenon DEF RespDelete, ReplyInv, Pipelined
  <2>2. CASE "engine" \in open
    <3>1. /\ conn'.pc = "del" /\ conn'.id = i /\ conn'.n = conn.n + 1
          /\ replies' = replies
      BY <1>1, <1>2, <1>14, <2>2, ZenonT(40) DEF RespDelete, ConnRecord
    <3>2. PICK rec \in LogRecord : /\ log' = Append(log, rec) /\ rec.by = ByConn(i)
                                   /\ rec.kind = "delete"
      <4> DEFINE rec == [kind |-> "delete", key |-> Head(conn.todo), by |-> ByConn(conn.id),
                         idem |-> NoIdem, applied |-> FALSE]
      <4>1. rec \in LogRecord
        BY <2>1, RespWritesType, Zenon
      <4> QED BY <1>2, <1>14, <2>2, <4>1, Zenon DEF RespDelete, RespWrites
    <3>3. /\ Cardinality(Mine(i)') = conn.n + 1
          /\ \A p \in Mine(i)' : log'[p].kind = "delete"
          /\ \A n \in Nat \ {i} : Mine(n)' = Mine(n)
      BY <1>7, <2>1, <3>2, ZenonT(40)
    <3>4. Mine(conn.id)' = Mine(i)'
      BY <3>1, Zenon DEF Mine
    <3>5. Pipelined'
      BY <2>1, <3>1, <3>3, <3>4 DEF Pipelined
    <3>6. \A n \in 1..Len(replies) : rec.by # ByConn(n)
      BY <1>1, <2>1, <3>2 DEF ByConn
    <3>7. RepliesMatchLog'
      BY <3>1, <3>2, <3>6, RepliesKept, Zenon DEF ReplyInv
    <3> QED BY <3>5, <3>7, Zenon DEF ReplyInv
  <2>3. CASE "engine" \notin open
    <3>1. log' = log /\ RespReply("failed", 0)
      BY <1>14, <2>3, Zenon DEF RespDelete
    <3>2. \A p \in Mine(i)' : log'[p].kind = "delete"
      BY <1>5, <2>1, <3>1, Zenon
    <3> QED BY <1>11, <2>1, <3>1, <3>2, RespReplies, ZenonT(40)
  <2> QED BY <2>2, <2>3, Zenon
<1>15. CASE RespDelDone
  <2>1. /\ conn.pc = "del" /\ Cardinality(Mine(i)) = conn.n
        /\ \A p \in Mine(i) : log[p].kind = "delete"
        /\ log' = log /\ RespReply("integer", conn.n)
    BY <1>2, <1>15, Zenon DEF RespDelDone, ReplyInv, Pipelined
  <2>2. /\ Cardinality(Mine(i)') = conn.n
        /\ \A p \in Mine(i)' : log'[p].kind = "delete"
    BY <1>5, <2>1, Zenon
  <2>3. PICK n \in Nat : n = conn.n
    BY <1>3, Zenon
  <2> QED BY <1>11, <2>1, <2>2, <2>3, RespReplies, Zenon
<1>16. CASE RespPanic
  <2>1. log' = log /\ replies' = replies /\ conn'.pc = "closed"
    BY <1>16, Zenon DEF RespPanic, Panic, Die, storeVars, NoConn
  <2> QED BY <1>6, <2>1, Zenon DEF ReplyInv, Pipelined
<1> QED BY <1>8, <1>9, <1>10, <1>12, <1>13, <1>14, <1>15, <1>16, ZenonT(40) DEF Redis

(* A Redis client learns from the reply what its command did, however calls,
   raft and the shutdown are interleaved with it. *)
THEOREM RepliesAreTrue == Spec => []RepliesMatchLog
<1>1. ReplyInv => RepliesMatchLog
  BY Zenon DEF ReplyInv
<1>2. TypeInv /\ ReplyInv /\ [Next]_vars => ReplyInv'
  BY CallsReply, RedisReply, Zenon
<1> QED BY <1>1, <1>2, ReplyInit, TypeInit, TypeStep, PTL DEF Spec
=============================================================================
