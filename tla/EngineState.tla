---------------------------- MODULE EngineState ----------------------------
(***************************************************************************)
(* The data of internal/engine and how one log record changes it.  Shared  *)
(* by the single-node engine and by the replicas that apply raft commands. *)
(***************************************************************************)
EXTENDS Integers

CONSTANTS
    Keys,
    Values,
    IdemKeys,       \* idempotency keys clients use
    NoIdem,         \* the empty idempotency key
    NoValue         \* in the value field of a tombstone

ASSUME NoIdemAssumption == NoIdem \notin IdemKeys

(* A wal.Record as the engine writes it; exp = 0 is "no expiry". *)
LogRecord == [idem : IdemKeys \cup {NoIdem}, kind : {"put", "delete"}, key : Keys,
              val : Values \cup {NoValue}, exp : Nat]

(* index[k], with version 0 where the map has no entry for k. *)
Entry == [val : Values \cup {NoValue}, version : Nat, exp : Nat]
Absent == [val |-> NoValue, version |-> 0, exp |-> 0]

EmptyIndex == [k \in Keys |-> Absent]

(* dedup[i] is the commit position remembered for i, 0 if there is none. *)
EmptyDedup == [i \in IdemKeys |-> 0]

(* Expiry is exclusive: at the expiry instant an entry is still live. *)
ExpiredInclusive(ent, now) == ent.exp > 0 /\ now >= ent.exp

Expired(ent, now) == ent.exp > 0 /\ now > ent.exp

LiveVersion(index, key, now) ==
    IF Expired(index[key], now) THEN 0 ELSE index[key].version

Deduplicated(dedup, idem) == idem # NoIdem /\ dedup[idem] # 0

(* What committing, or replaying, record r at position pos does. *)
ReplayIndexKeepsDeleted(index, pos, r) ==
    IF r.kind = "delete" THEN index
    ELSE [index EXCEPT ![r.key] = [val |-> r.val, version |-> pos, exp |-> r.exp]]

ReplayIndex(index, pos, r) ==
    [index EXCEPT ![r.key] =
        IF r.kind = "put" THEN [val |-> r.val, version |-> pos, exp |-> r.exp]
        ELSE Absent]

ReplayDedup(dedup, pos, r) ==
    IF r.idem = NoIdem THEN dedup ELSE [dedup EXCEPT ![r.idem] = pos]
=============================================================================
