--------------------------- MODULE MCReplication ---------------------------
(* Replication for TLC, in the settings its properties tell apart.  Nodes are
   interchangeable. *)
EXTENDS Replication, TLC

CONSTANTS v1, v2, i1, i2

Symmetry == Permutations(Nodes)

(* Clients retry after lost answers, with and without an idempotency key. *)
Retries ==
    [ops |-> {"put", "delete", "cas"}, vals |-> {v1}, idems |-> {i1, NoIdem},
     ttls |-> {0}, commands |-> 3, faults |-> {}]

(* Nodes restart while operators wipe the namespace ... *)
Restarts ==
    [ops |-> {"put", "delete", "wipe"}, vals |-> {v1}, idems |-> {i1, i2},
     ttls |-> {0}, commands |-> 3, faults |-> {"restart"}]

(* ... or restore backups of entries that expire. *)
Restores ==
    [ops |-> {"put", "load"}, vals |-> {v1}, idems |-> {i1, i2},
     ttls |-> {1}, commands |-> 3, faults |-> {"restart", "clock"}]

(* A replica misses commands until it restarts. *)
Misses ==
    [ops |-> {"put", "delete", "wipe"}, vals |-> {v1}, idems |-> {i1, i2},
     ttls |-> {0}, commands |-> 3, faults |-> {"restart", "write", "reset"}]

(* Clients write past raft, and disks fail in every way. *)
Divergence ==
    [ops |-> {"put"}, vals |-> {v1}, idems |-> {i1}, ttls |-> {0}, commands |-> 2,
     faults |-> {"restart", "resp", "write", "sync"}]

(* Restores fail half way, from a backup or from a raft snapshot. *)
Failures ==
    [ops |-> {"put", "load"}, vals |-> {v1}, idems |-> {NoIdem}, ttls |-> {0}, commands |-> 2,
     faults |-> {"write", "sync", "reset", "snapshot"}]

(* Nodes join, leave and join again. *)
Members ==
    [ops |-> {"put"}, vals |-> {v1}, idems |-> {i1, i2}, ttls |-> {0}, commands |-> 2,
     faults |-> {"member", "restart"}]

(* raft compacts its log, which may hold entries that expire. *)
Compaction ==
    [ops |-> {"put", "delete"}, vals |-> {v1, v2}, idems |-> {NoIdem}, ttls |-> {0, 1},
     commands |-> 3, faults |-> {"snapshot", "clock"}]

MCSettings == {Retries, Restarts, Restores, Misses, Divergence, Failures, Members, Compaction}

(* Clients that send no idempotency key to nodes that restart. *)
Unkeyed ==
    {[ops |-> {"put"}, vals |-> {v1, v2}, idems |-> {NoIdem}, ttls |-> {0},
      commands |-> 2, faults |-> {"restart"}]}
=============================================================================
