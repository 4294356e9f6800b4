-------------------------------- MODULE Resp --------------------------------
(***************************************************************************)
(* The Redis adapter (internal/resp): the framing of RESP2 requests, and   *)
(* what each command of the declared subset asks of the engine.  The input *)
(* of a connection is a sequence of lines: an array header, a bulk string  *)
(* (its header and its data), or something that is neither.                *)
(***************************************************************************)
EXTENDS Integers, Sequences

CONSTANT MaxLength      \* the longest slice that can be allocated

ASSUME LengthAssumption == MaxLength \in Nat

(* n is the length the header announces, of the array or of the data. *)
Line == [line : {"array", "bulk", "junk"}, n : Int, data : STRING]

(* The empty word. *)
Empty == "empty"

Array(n) == [line |-> "array", n |-> n, data |-> Empty]
Bulk(data) == [line |-> "bulk", n |-> 1, data |-> data]
Announced(n) == [line |-> "bulk", n |-> n, data |-> Empty]
Junk == [line |-> "junk", n |-> 0, data |-> Empty]

(* The null bulk string is a header alone, and is read as the empty word. *)
Null == Announced(-1)

(* A request the way clients send one. *)
Frame(words) == <<Array(Len(words))>> \o [i \in 1..Len(words) |-> Bulk(words[i])]

Smaller(a, b) == IF a <= b THEN a ELSE b

(* ReadCommand gives up at the first line it does not expect... *)
Malformed(in) ==
    /\ in # <<>>
    /\ \/ in[1].line # "array" \/ in[1].n < 1
       \/ \E i \in 2..Smaller(Len(in), in[1].n + 1) : in[i].line # "bulk"

(* ...at a header it does expect it makes a slice of the announced length, which
   panics if it is too long, before it reads what the header announces... *)
Allocates(in, i) ==
    i \in 1..Smaller(Len(in), in[1].n + 1) /\ ~Malformed(SubSeq(in, 1, i))

Panics(in) == in # <<>> /\ \E i \in 1..Len(in) : Allocates(in, i) /\ in[i].n > MaxLength

(* ...and otherwise it waits until the whole array is there. *)
Complete(in) == in # <<>> /\ ~Malformed(in) /\ ~Panics(in) /\ Len(in) > in[1].n

Words(in) == [i \in 1..in[1].n |-> in[i + 1].data]
Rest(in) == SubSeq(in, in[1].n + 2, Len(in))

-----------------------------------------------------------------------------
(* dispatch.  What a command comes to: an immediate reply without effect, an
   error, or a "put" or "del" at the engine. *)

(* ParseInt of an expiry, 0 for what is no number or not positive. *)
Seconds(word) == IF word = "5" THEN 5 ELSE 0

(* SET: EX is looked for in its place; what follows its number is not looked at. *)
SetVerdict(args) ==
    IF Len(args) < 2 THEN "error"
    ELSE IF Len(args) >= 4 /\ args[3] = "EX"
         THEN IF Seconds(args[4]) > 0 THEN "put" ELSE "error"
    ELSE IF Len(args) > 2 THEN "error"
    ELSE "put"

Verdict(words) ==
    LET args == Tail(words) IN
    CASE words[1] = "PING" -> "reply"
      [] words[1] = "GET"  -> IF Len(args) = 1 THEN "reply" ELSE "error"
      [] words[1] = "SET"  -> SetVerdict(args)
      [] words[1] = "DEL"  -> IF Len(args) >= 1 THEN "del" ELSE "error"
      [] OTHER             -> "error"
=============================================================================
