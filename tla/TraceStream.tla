----------------------------- MODULE TraceStream -----------------------------
(***************************************************************************)
(* What the way from a relay buffer to the client promises, whatever is    *)
(* between them, for every device and CPU.  valtio_server sends the events *)
(* of that stream in their order, each whole, none twice and none left out *)
(* except those about sector 0.  server-proto sends an event as soon as    *)
(* its struct is there and once more for every look at it: in order, none  *)
(* left out, but one may follow itself.                                    *)
(*                                                                         *)
(* A stream is the sequence 1, 2, 3, ... of pieces; event e consists of    *)
(* the pieces 2e-1 (struct blk_io_trace) and 2e (its pdu), and a read may  *)
(* end between the two.                                                    *)
(***************************************************************************)
EXTENDS Integers, SequencesExt

CONSTANTS
  Heads,       (* one tracer_devpath_head per device and CPU                  *)
  MaxPieces,   (* bound: pieces the kernel stores per stream                  *)
  ZeroSector   (* the events whose sector is 0                                *)

VARIABLES
  valtio,      (* whether it is valtio_server that sends                      *)
  got,         (* pieces read from each relay buffer                          *)
  sent         (* events sent for each stream                                 *)

vars == <<valtio, got, sent>>

(* The events up to e that are meant for the client, in order.              *)
Wanted(e) == FlattenSeq([i \in 1..e |-> IF i \in ZeroSector THEN <<>> ELSE <<i>>])

Init ==
  /\ valtio \in BOOLEAN
  /\ got = [h \in Heads |-> 0]
  /\ sent = [h \in Heads |-> <<>>]

Read(h) ==
  /\ \E n \in (got[h] + 1)..MaxPieces : got' = [got EXCEPT ![h] = n]
  /\ UNCHANGED <<valtio, sent>>

SendWhole(h) ==
  /\ valtio
  /\ \E e \in 1..(got[h] \div 2) :
       /\ IsStrictPrefix(sent[h], Wanted(e))
       /\ sent' = [sent EXCEPT ![h] = Wanted(e)]
  /\ UNCHANGED <<valtio, got>>

(* The number of the last event sent, and n events from the one after e.    *)
LastOf(events) == IF events = <<>> THEN 0 ELSE events[Len(events)]
Following(e, n) == [k \in 1..n |-> e + k]

SendBegun(h) ==
  /\ ~valtio
  /\ \E e \in 0..MaxPieces, n \in 1..MaxPieces :
       /\ e \in {LastOf(sent[h]) - 1, LastOf(sent[h])}
       /\ e + n <= (got[h] + 1) \div 2
       /\ sent' = [sent EXCEPT ![h] = @ \o Following(e, n)]
  /\ UNCHANGED <<valtio, got>>

Next == \E h \in Heads : Read(h) \/ SendWhole(h) \/ SendBegun(h)

Spec == Init /\ [][Next]_vars
=============================================================================
