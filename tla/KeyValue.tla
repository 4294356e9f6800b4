------------------------------ MODULE KeyValue ------------------------------
(***************************************************************************)
(* What one partition promises its callers, without log, lock, fsync or    *)
(* replay: a map from keys to versioned entries, with the outcomes of the  *)
(* idempotency keys, on which every request takes effect at one instant    *)
(* between its call and its return.  Module Engine implements it with its  *)
(* index and its dedup map.                                                *)
(***************************************************************************)
EXTENDS EngineState

CONSTANTS
    Clients,
    NoRequest

VARIABLES
    now,            \* the clock, which the store only reads
    req,            \* per client: its request, or NoRequest
    last,           \* the highest commit position
    entries,        \* the entry of each key
    outcomes,       \* the position remembered for each idempotency key
    acks            \* the outcomes callers got

store == <<last, entries, outcomes>>
vars == <<req, store, acks>>

Init ==
    /\ req = [c \in Clients |-> NoRequest]
    /\ last = 0 /\ entries = EmptyIndex /\ outcomes = EmptyDedup
    /\ acks = {}

Call(c) ==
    /\ req[c] = NoRequest
    /\ \E r \in {req'[c]} : req' = [req EXCEPT ![c] = r]
    /\ UNCHANGED <<store, acks>>

Return(c) ==
    /\ req[c] # NoRequest
    /\ req' = [req EXCEPT ![c] = NoRequest]

(* The version a conditional write expects, where 0 is no live entry.  An entry
   that was live when its version was compared may expire before the write. *)
Expected(r) ==
    LET e == entries[r.rec.key]
    IN r.op = "cas" => IF r.expected > 0 THEN e.version = r.expected
                       ELSE e.version = 0 \/ Expired(e, now)

(* Request r takes the next position, once for its idempotency key. *)
Effect(r) ==
    /\ ~Deduplicated(outcomes, r.rec.idem)
    /\ Expected(r)
    /\ last' = last + 1
    /\ entries' = [entries EXCEPT ![r.rec.key] =
                     IF r.rec.kind = "delete" THEN Absent
                     ELSE [val |-> r.rec.val, version |-> last', exp |-> r.rec.exp]]
    /\ outcomes' = IF r.rec.idem = NoIdem THEN outcomes
                   ELSE [outcomes EXCEPT ![r.rec.idem] = last']

Perform(c) ==
    /\ Return(c)
    /\ Effect(req[c])
    /\ acks' = acks \cup {[pos |-> last', idem |-> req[c].rec.idem]}

(* A retry gets the outcome of the request that took effect. *)
Answer(c) ==
    /\ Return(c)
    /\ Deduplicated(outcomes, req[c].rec.idem)
    /\ acks' = acks \cup {[pos |-> outcomes[req[c].rec.idem], idem |-> req[c].rec.idem]}
    /\ UNCHANGED store

(* A version mismatch or an error: no effect, now or later. *)
Refuse(c) ==
    /\ Return(c)
    /\ UNCHANGED <<store, acks>>

(* No caller hears more, and at most one request took effect unheard. *)
Crash ==
    /\ req' = [c \in Clients |-> NoRequest]
    /\ acks' = acks
    /\ \/ UNCHANGED store
       \/ \E c \in Clients : req[c] # NoRequest /\ Effect(req[c])

Reset ==
    /\ last' = 0 /\ entries' = EmptyIndex /\ outcomes' = EmptyDedup
    /\ acks' = {}
    /\ UNCHANGED req

Next ==
    \/ \E c \in Clients : Call(c) \/ Perform(c) \/ Answer(c) \/ Refuse(c)
    \/ Crash \/ Reset

Spec == Init /\ [][Next]_vars
=============================================================================
