------------------------------- MODULE MCNode -------------------------------
(* Node for TLC: the configurations of start-up one by one, and a few kinds of
   traffic. *)
EXTENDS Node

Plain == [peers |-> "none", raftIds |-> FALSE, bootstrap |-> FALSE, token |-> FALSE,
          redis |-> FALSE, signals |-> TRUE, scrapes |-> FALSE,
          maxCalls |-> 2, namespace |-> "default", profile |-> "cache",
          raftTls |-> {}, tls |-> {}, fails |-> {}, lines |-> {}, bench |-> {},
          requests |-> {}, inputs |-> {}]

Clustered == [Plain EXCEPT !.peers = "good", !.raftIds = TRUE, !.bootstrap = TRUE,
                           !.profile = "durable", !.raftTls = {"cert", "key", "ca"}]

(* Every step that can fail, alone or with a second one, with and without raft. *)
Failures == {"dir", "engine", "offsets", "raftDir", "logStore", "snapshotStore",
             "raftKeypair", "peerCA", "raftAddr", "newRaft", "bootstrap", "listen",
             "keypair", "http", "resp"}

Startups ==
    {[s EXCEPT !.fails = {f, g}, !.tls = {"cert", "key"}, !.redis = TRUE] :
        s \in {Plain, Clustered}, f \in Failures, g \in {"listen", "http"}}
    \cup {[s EXCEPT !.peers = p, !.raftIds = i, !.profile = f, !.namespace = n] :
        s \in {Plain, Clustered}, p \in {"none", "good", "bad"}, i \in BOOLEAN,
        f \in {"cache", "durable", "strong"}, n \in {"empty", "default"}}
    \cup {[Clustered EXCEPT !.raftTls = r, !.tls = t] :
        r \in SUBSET {"cert", "key", "ca"}, t \in SUBSET {"cert", "key"}}

(* Command lines: in order, with a wrong token, offset 0, not in order, TLS
   towards a plaintext server. *)
Typed(rpc) == [rpc |-> rpc, inOrder |-> TRUE, from |-> 1, token |-> "bearer", tls |-> FALSE]

Lines == {Typed("Put"), [Typed("Delete") EXCEPT !.token = "wrong"],
          [Typed("Fetch") EXCEPT !.from = 0], Typed("AddNode"),
          [Typed("Get") EXCEPT !.inOrder = FALSE], [Typed("FetchOffset") EXCEPT !.tls = TRUE]}

Operated == [Plain EXCEPT !.token = TRUE, !.lines = Lines,
                          !.requests = {[Call("Put") EXCEPT !.idem = "i", !.auth = "bare"],
                                        [Call("CompareAndSet") EXCEPT !.ns = "other"],
                                        [Call("Get") EXCEPT !.rpc = "unknown", !.auth = "none"],
                                        [Call("Put") EXCEPT !.arg = "garbled"]}]

(* Keyed puts, a put without a key, an accepted and a rejected CompareAndSet. *)
Mutating == {[Call("Put") EXCEPT !.idem = "i"], Call("Delete"),
             [Call("CompareAndSet") EXCEPT !.expected = FALSE]}

Single == [Plain EXCEPT !.requests = Mutating, !.maxCalls = 3]
Proposing == [Clustered EXCEPT !.requests = Mutating]

(* Offsets on both sides of the end of the log and of the sign bit. *)
Streaming == [Plain EXCEPT !.requests = {[Call("Fetch") EXCEPT !.from = f] : f \in 1..7}
                 \cup {[Call("CommitOffset") EXCEPT !.from = f] : f \in 1..2}
                 \cup {Call("Put")}]

Watching == [Plain EXCEPT !.requests = {Call("Watch"), Call("Check")},
                          !.scrapes = TRUE]

(* Pipelines: a DEL of a key twice and of another one, the forms of SET, a broken
   frame behind a good one, an array that is longer than announced, a null key, and
   lengths that cannot be allocated. *)
Pipelines ==
    {Frame(<<"SET", "a", "v">>) \o Frame(<<"SET", "b", "v">>) \o Frame(<<"DEL", "a", "b", "a">>),
     Frame(<<"SET", "a", "v", "EX", "5", "NX">>) \o Frame(<<"SET", "a", "v", "NX">>)
        \o Frame(<<"SET", "a", "v", "EX", "0">>) \o Frame(<<"DEL">>),
     Frame(<<"PING">>) \o <<Array(2), Bulk("GET"), Junk>> \o Frame(<<"DEL", "a">>),
     Frame(<<"INCR", "a">>) \o Frame(<<"GET", "a">>) \o <<Array(1), Bulk("DEL"), Bulk("a")>>,
     <<Array(3), Bulk("SET"), Null, Bulk("v")>> \o <<Array(3), Bulk("DEL"), Null, Bulk("a")>>
        \o <<Array(1), Null>>,
     Frame(<<"SET", "a", "v">>) \o <<Array(MaxLength + 1)>> \o Frame(<<"DEL", "a">>),
     <<Array(2), Bulk("DEL"), Announced(MaxLength + 1)>>}

Redis1 == [Plain EXCEPT !.redis = TRUE, !.inputs = Pipelines, !.bench = {"OpPut", "OpGet"},
                        !.requests = {Call("Delete")}, !.maxCalls = 1]

MCSettings == Startups \cup {Operated, Single, Proposing, Streaming, Watching, Redis1}

(* Two mutations, and a retry of the first. *)
Unordered == {[Single EXCEPT !.signals = FALSE]}
=============================================================================
