------------------------------- MODULE TraceFile -------------------------------
(***************************************************************************)
(* A file of traces as its readers find it: records one after the other,   *)
(* each a header and the data its pdu_len names, the end perhaps missing.  *)
(* Lengths are counted in units of which a header has HEADER.              *)
(***************************************************************************)
EXTENDS Integers, SequencesExt, FiniteSetsExt

CONSTANT HEADER

ASSUME HeaderAssumption == HEADER \in Nat \ {0}

Notices == {"process", "timestamp", "message", "fio"}   (* fio: a message of fio    *)
Actions == {"Q", "D", "C"} \cup Notices

IsRecord(r) ==
  /\ {r.seq, r.time, r.sec, r.bytes, r.cpu, r.pdu} \subseteq Nat
  /\ {r.magic, r.version} \subseteq BOOLEAN
  /\ r.act \in Actions

Notify(r) == r.act \in Notices

Size(r) == HEADER + r.pdu
Start(f, i) ==
  LET at[n \in 0..Len(f.recs)] == IF n = 0 THEN 0 ELSE at[n - 1] + Size(f.recs[n])
  IN at[i - 1]
Total(f) == Start(f, Len(f.recs) + 1) - f.cut

HeaderThere(f, i) == Start(f, i) + HEADER <= Total(f)
Whole(f, i) == Start(f, i + 1) <= Total(f)
===============================================================================
