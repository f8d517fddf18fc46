------------------------------- MODULE MCReaders -------------------------------
(* Small instances of Readers: all files of a few records out of a set, and  *)
(* one that is longer.                                                      *)
EXTENDS Readers

CONSTANTS sda, sdb, Longest, Cuts

R(seq, time, dev, act, sec, bytes, pdu) ==
  [seq |-> seq, time |-> time, dev |-> dev, act |-> act, sec |-> sec, bytes |-> bytes,
   pdu |-> pdu, cpu |-> 0, magic |-> TRUE, version |-> TRUE]

Queued == R(1, 2, sda, "Q", 3, 512, 1)
Further == R(2, 3, sdb, "Q", 2, 1024, 0)
Done == R(3, 5, sda, "C", 6, 512, 0)
Note == R(0, 4, sda, "message", 0, 0, 2)
OtherCpu == [R(0, 3, sda, "process", 0, 0, 2) EXCEPT !.cpu = 1]
NoMagic == [R(2, 3, sda, "D", 2, 512, 0) EXCEPT !.magic = FALSE]
Foreign == [R(2, 4, sda, "D", 2, 512, 0) EXCEPT !.version = FALSE]
Again == R(1, 3, sda, "Q", 5, 1024, 0)
Flush == R(2, 3, sda, "Q", 0, 0, 0)

Records == {Queued, Further, Done, Note, OtherCpu, NoMagic, Foreign, Again, Flush}

Of1(recs, cut) == [recs |-> recs, cut |-> cut]
Short == {Of1(recs, cut) : recs \in SeqOf(Records, Longest), cut \in Cuts}
Possible(f) == \/ f.cut = 0
               \/ f.recs # <<>> /\ f.cut < Size(Last(f.recs))

(* One I/O far from twenty-two of the same place, one of which is long.      *)
Crowd == [i \in 1..23 |-> CASE i < 22 -> R(i, 2, sda, "Q", 2, 512, 0)
                            [] i = 22 -> R(i, 4, sda, "Q", 90, 512, 0)
                            [] i = 23 -> R(i, 4, sda, "Q", 2, 80 * 512, 0)]

(* Two I/Os that begin in different places and end in the same slot, the     *)
(* first that the axis shows, in which no I/O begins.                       *)
Tail2 == [i \in 1..42 |-> IF i <= 40 THEN R(i, 2, sda, "Q", 90, 512, 0)
                          ELSE R(i, 4, sda, "Q", 12 * (i - 41), 512 * (30 - 12 * (i - 41)), 0)]

MCFiles == {<<f>> : f \in {g \in Short : Possible(g)}}
             \cup {<<Of1(<<Queued>>, 0), Of1(<<OtherCpu, Note>>, 0)>>, <<Of1(Crowd, 0)>>}

FailingFiles ==
  {<<Of1(recs, 0)>> : recs \in {<<Flush>>, <<Done>>, Tail2, <<Queued, OtherCpu>>}}
    \cup {<<Of1(<<Queued, NoMagic>>, 1)>>, <<Of1(<<Queued, Foreign>>, 0)>>}
===============================================================================
