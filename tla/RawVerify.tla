------------------------------- MODULE RawVerify -------------------------------
(***************************************************************************)
(* blkrawverify: the records of one CPU's file are compared with the last  *)
(* good one (blkrawverify.c).  What has no magic number is a header long   *)
(* here: the data of such a record is not skipped and would be read as the *)
(* next headers.                                                           *)
(***************************************************************************)
EXTENDS TraceFile

(* good: the records found good, of which save_sequence, save_time and       *)
(* save_device are those of the last.                                       *)
Nothing == [good |-> <<>>, nbad |-> 0, nbad_cpu |-> 0, nbad_seq |-> 0, nbad_time |-> 0,
            nbad_dev |-> 0, reading |-> TRUE]

Bad(v) == [v EXCEPT !.nbad = @ + 1]
Stop(v) == [v EXCEPT !.reading = FALSE]

(* As if an equal sequence number went forward.                              *)
EqualGoes(v, r) ==
  IF v.good = <<>> \/ Last(v.good).seq <= r.seq THEN [v EXCEPT !.good = Append(@, r)] ELSE Bad(v)
Compared(v, r) ==
  LET save == Last(v.good)
  IN IF v.good = <<>> THEN [v EXCEPT !.good = Append(@, r)]
     ELSE IF r.seq <= save.seq THEN [Bad(v) EXCEPT !.nbad_seq = @ + 1]
     ELSE IF r.time <= save.time THEN [Bad(v) EXCEPT !.nbad_time = @ + 1]
     ELSE IF r.dev # save.dev THEN [Bad(v) EXCEPT !.nbad_dev = @ + 1]
     ELSE [v EXCEPT !.good = Append(@, r)]
Verified(v, f, i, cpu) ==
  LET r == f.recs[i]
  IN IF ~v.reading \/ ~HeaderThere(f, i) THEN Stop(v)
     ELSE IF ~r.magic THEN Bad(v)
     ELSE IF ~r.version THEN Stop(v)
     ELSE IF ~Whole(f, i) THEN [Stop(Bad(v)) EXCEPT !.nbad_seq = @ + 1]
     ELSE IF r.cpu # cpu THEN [Bad(v) EXCEPT !.nbad_cpu = @ + 1]
     ELSE IF Notify(r) THEN v
     ELSE Compared(v, r)

process(f, cpu) ==
  LET after[n \in 0..Len(f.recs)] ==
        IF n = 0 THEN Nothing ELSE Verified(after[n - 1], f, n, cpu)
  IN after[Len(f.recs)]
===============================================================================
