----------------------------- MODULE DurableLog -----------------------------
(***************************************************************************)
(* What internal/wal promises its callers, without threads, buffers or     *)
(* fsync: a log of densely numbered records that grows at its end, in      *)
(* which a crash may cut off a tail, but never a record whose Append has   *)
(* returned successfully.                                                  *)
(***************************************************************************)
EXTENDS Naturals, Sequences

CONSTANT Values     \* what a caller can ask to be logged

VARIABLES
    log,            \* the records, log[p] the one with commit position p
    acked           \* the records whose Append has reported success

vars == <<log, acked>>

Record == [pos : Nat \ {0}, val : Values]

Init ==
    /\ log = <<>>
    /\ acked = {}

(* Append takes the next commit position. *)
Accept ==
    /\ \E v \in Values :
          log' = Append(log, [pos |-> Len(log) + 1, val |-> v])
    /\ UNCHANGED acked

(* Append reports success for a record of the log. *)
Acknowledge ==
    /\ \E p \in 1..Len(log) : acked' = acked \cup {log[p]}
    /\ UNCHANGED log

(* A crash cuts the log behind some point no acknowledged record is past. *)
Lose ==
    /\ \E k \in 0..Len(log) :
          /\ \A r \in acked : r.pos <= k
          /\ log' = SubSeq(log, 1, k)
    /\ UNCHANGED acked

Next == Accept \/ Acknowledge \/ Lose

Spec == Init /\ [][Next]_vars
=============================================================================
