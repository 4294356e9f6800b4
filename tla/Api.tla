-------------------------------- MODULE Api --------------------------------
(***************************************************************************)
(* What happens to a request before it has any effect: how uddpctl and     *)
(* uddp-bench build it, and which requests the interceptors and the        *)
(* handlers of internal/api refuse.  Keys, paths, groups and namespaces    *)
(* are only "given", "empty" or another one than this node's.              *)
(***************************************************************************)
EXTENDS Integers

StateRpcs == {"Get", "Put", "Delete", "CompareAndSet"}
StreamRpcs == {"Fetch", "CommitOffset", "FetchOffset"}
MemberRpcs == {"AddNode", "RemoveNode", "ListNodes"}
DataRpcs == {"CreateBackup", "RestoreBackup", "ExportNamespace", "DeleteNamespace",
             "GetUsage"}
HealthRpcs == {"Check", "Watch"}
Rpcs == StateRpcs \cup StreamRpcs \cup MemberRpcs \cup DataRpcs \cup HealthRpcs

(* Those that change state. *)
Mutations == {"Put", "Delete", "CompareAndSet"}

(* rpc: the method, "unknown" if no service has it; auth: what the authorization
   metadata holds; arg: the key, group, path or id, or for DeleteNamespace the
   confirmation, "garbled" if the message cannot be decoded; from: the offset of
   Fetch and CommitOffset; expected: whether CompareAndSet expects the current
   version; idem: the idempotency key. *)
NoIdem == "none"

Request == [rpc : Rpcs \cup {"unknown"}, auth : {"none", "bearer", "bare", "wrong"},
            ns : {"ours", "other"}, arg : {"given", "empty", "garbled"}, from : Nat,
            expected : BOOLEAN, idem : {NoIdem, "i"}]

Call(rpc) == [rpc |-> rpc, auth |-> "bearer", ns |-> "ours", arg |-> "given",
              from |-> 1, expected |-> TRUE, idem |-> NoIdem]

-----------------------------------------------------------------------------
(* Clients. *)

(* A command line of uddpctl, as far as the node can tell: the call its command
   stands for; whether command, number of arguments, numbers and CA file are in
   order; the offset; the token of the flag or of UDDP_TOKEN; and whether one of the
   three TLS flags is given.  A line that is not in order ends in exit code 1
   without a call. *)
CommandLine == [rpc : Rpcs \ (HealthRpcs \cup {"CompareAndSet"}), inOrder : BOOLEAN,
                from : Nat, token : {"none", "bearer", "wrong"}, tls : BOOLEAN]

Transport(line) == IF line.tls THEN "tls" ELSE "plaintext"

(* uddpctl sends no idempotency key. *)
CtlRequest(line) == [Call(line.rpc) EXCEPT !.auth = line.token, !.from = line.from]

(* grpcExecutor.Execute. *)
BenchRequest(op, token) ==
    [Call(IF op = "OpGet" THEN "Get" ELSE "Put") EXCEPT
        !.auth = IF token THEN "bearer" ELSE "none"]

-----------------------------------------------------------------------------
(* The server's side. *)

(* NewNamespaceSpec: "durable" is only for a node with replicas. *)
NamespaceAccepted(namespace, profile, replicated) ==
    /\ namespace # "empty"
    /\ profile = "cache" \/ (profile = "durable" /\ replicated)

(* gRPC itself answers a call to a method no service has, and the generated code
   one it cannot decode, before any interceptor. *)
Dispatched(req) == req.rpc # "unknown" /\ req.arg # "garbled"

(* The token interceptor.  A token without the prefix will do; health checks
   need none, and Watch, a stream, does not pass this way. *)
Authorized(req, token) ==
    \/ ~token
    \/ req.rpc \in HealthRpcs
    \/ req.auth \in {"bearer", "bare"}

(* The first check of a handler that fails, "OK" if none does. *)
NeedsArgument ==
    Rpcs \ (HealthRpcs \cup {"Fetch", "ListNodes", "ExportNamespace", "GetUsage"})

Refusal(req, replicated) ==
    IF req.rpc \in StateRpcs \cup StreamRpcs /\ req.ns # "ours" THEN "NotFound"
    ELSE IF req.rpc \in MemberRpcs /\ ~replicated THEN "FailedPrecondition"
    ELSE IF req.rpc = "Fetch" /\ req.from = 0 THEN "InvalidArgument"
    ELSE IF req.rpc \in NeedsArgument /\ req.arg = "empty" THEN "InvalidArgument"
    ELSE "OK"

RefusalCodes == {"Unimplemented", "Internal", "Unauthenticated", "NotFound",
                 "FailedPrecondition", "InvalidArgument"}
=============================================================================
