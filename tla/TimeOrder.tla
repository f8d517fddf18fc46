------------------------------- MODULE TimeOrder -------------------------------
(***************************************************************************)
(* What a merge of per-CPU event streams promises: it puts out, one after  *)
(* the other, an event no other stream has an earlier one than, and takes  *)
(* the events of a stream in their order.                                  *)
(*                                                                         *)
(* An event is a record with a time; nothing else matters here.            *)
(***************************************************************************)
EXTENDS Integers, Sequences

CONSTANTS
  Cpus,      (* a stream for each                                             *)
  Event      (* the events                                                    *)

VARIABLES
  left,      (* the events of each stream that are not out                    *)
  out        (* the events put out                                            *)

vars == <<left, out>>

Init == left \in [Cpus -> Seq(Event)] /\ out = <<>>

Earliest(c) ==
  \A d \in Cpus : left[d] # <<>> => Head(left[c]).time <= Head(left[d]).time

PutOut(c) ==
  /\ left[c] # <<>>
  /\ Earliest(c)
  /\ out' = Append(out, Head(left[c]))
  /\ left' = [left EXCEPT ![c] = Tail(@)]

Next == \E c \in Cpus : PutOut(c)

Spec == Init /\ [][Next]_vars
=============================================================================
