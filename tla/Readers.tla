-------------------------------- MODULE Readers --------------------------------
(***************************************************************************)
(* The programs that read a file of traces from its beginning: blkrawverify, *)
(* btt and iowatcher, each on the same file.                               *)
(***************************************************************************)
EXTENDS RawVerify, BttFile, Plots

CONSTANT Files       (* lists of files, one per CPU                            *)

VARIABLES
  files,
  verified,          (* what blkrawverify says of each CPU                      *)
  rval,
  tool               (* the program that runs                                  *)

vars == <<files, verified, rval, tool, btt, plots, movie>>

Init ==
  /\ files \in Files
  /\ verified = <<>> /\ rval = 0 /\ tool = "blkrawverify"
  /\ BttInit /\ PlotsInit /\ MovieInit

file == files[1]

VerifyCpu ==
  /\ tool = "blkrawverify" /\ Len(verified) < Len(files)
  /\ LET v == process(files[Len(verified) + 1], Len(verified))
     IN /\ verified' = Append(verified, v)
        /\ rval' = IF v.nbad > 0 THEN 1 ELSE rval
  /\ UNCHANGED <<files, tool, btt, plots, movie>>

(* There is no file of the next CPU.                                        *)
VerifyDone ==
  /\ tool = "blkrawverify" /\ Len(verified) = Len(files)
  /\ tool' = "btt"
  /\ UNCHANGED <<files, verified, rval, btt, plots, movie>>

ReadFile ==
  /\ tool = "btt"
  /\ setup_ifile(file) \/ next_trace(file)
  /\ UNCHANGED <<files, verified, rval, tool, plots, movie>>

(* iowatcher is given what blkparse wrote: whole records in order of time.   *)
IsDump(f) ==
  /\ f.cut = 0
  /\ \A i \in DOMAIN f.recs : f.recs[i].magic /\ f.recs[i].version
  /\ \A i, j \in DOMAIN f.recs : i < j => f.recs[i].time <= f.recs[j].time

Exits(f) == Len(Devices(f)) > MAX_DEVICES_PER_TRACE

ReadTraces ==
  /\ tool = "btt" /\ bpc \in {"done", "dead"}
  /\ tool' = CASE ~IsDump(file)                   -> "end"
               [] IsDump(file) /\ Exits(file)     -> "exit"
               [] OTHER                           -> "iowatcher"
  /\ UNCHANGED <<files, verified, rval, btt, plots, movie>>

FindAxis ==
  /\ tool = "iowatcher"
  /\ find_extreme_offsets(file) \/ CountSlots(file) \/ Zoom
  /\ UNCHANGED <<files, verified, rval, tool, btt, movie>>

DivisionByZero ==
  /\ tool = "iowatcher" /\ step = "outliers" /\ ~Divides(file)
  /\ tool' = "dead"
  /\ UNCHANGED <<files, verified, rval, btt, plots, movie>>

Movie ==
  /\ tool = "iowatcher" /\ step = "drawn"
  /\ PlotFrame \/ NextTrace
  /\ UNCHANGED <<files, verified, rval, tool, btt, plots>>

Ended == /\ tool \in {"end", "exit", "dead"} \/ frame.trace > Traces
         /\ UNCHANGED vars

Next == VerifyCpu \/ VerifyDone \/ ReadFile \/ ReadTraces \/ FindAxis \/ DivisionByZero \/ Movie \/ Ended

Spec == Init /\ [][Next]_vars
-----------------------------------------------------------------------------
TypeOK ==
  /\ \A k \in DOMAIN files : \A i \in DOMAIN files[k].recs : IsRecord(files[k].recs[i])
  /\ rval \in {0, 1} /\ Len(verified) <= Len(files)
  /\ cur \in Nat /\ cur_min <= cur_max /\ ToSet(got) \subseteq 0..Len(file.recs)
  /\ bpc \in {"setup", "reading", "done", "dead"}
  /\ num_histories \in 0..HISTORY

(* The records a verifier can read: up to the end or a foreign version.      *)
Readable(f) == {i \in DOMAIN f.recs :
                  /\ HeaderThere(f, i)
                  /\ \A j \in 1..i : ~f.recs[j].magic \/ f.recs[j].version}

Forward(s, indices) ==
  \A i, j \in indices :
    i < j => s[i].seq < s[j].seq /\ s[i].time < s[j].time /\ s[i].dev = s[j].dev

(* blkrawverify: "forward progressing sequence numbers and time stamps".  A  *)
(* file has no bad record exactly if each record read is one of that CPU and *)
(* all but the notices go forward, on one device; every such record is       *)
(* counted once; what is good goes forward however bad the file is.         *)
VerdictExact ==
  \A k \in DOMAIN verified :
    LET f == files[k]
        v == verified[k]
        Fits(i) == f.recs[i].magic /\ Whole(f, i) /\ f.recs[i].cpu = k - 1
        read == SubSeq(f.recs, 1, Cardinality(Readable(f)))
    IN /\ v.nbad = 0 <=> /\ \A i \in DOMAIN read : Fits(i)
                         /\ Forward(read, {i \in DOMAIN read : ~Notify(read[i])})
       /\ Forward(v.good, DOMAIN v.good)
       /\ Len(v.good) + v.nbad = Cardinality({i \in DOMAIN read : ~(Fits(i) /\ Notify(read[i]))})
       /\ v.nbad > 0 => rval = 1

(* btt reads every record of a file of whole records, each once, and nothing *)
(* outside its window, wherever the window's ends fall; of a file that ends  *)
(* within a record it still reads all the whole ones.                       *)
EveryRecordRead ==
  /\ \A k \in DOMAIN got : got[k] # 0 => \A i \in 1..k : got[i] = i
  /\ bpc \in {"done", "dead"} => \A i \in DOMAIN file.recs : Whole(file, i) => i \in ToSet(got)
  /\ file.cut = 0 => bpc # "dead" /\ 0 \notin ToSet(got)

To(i) == from[i] + file.recs[i].bytes

(* On the axis of offsets the devices do not overlap, a device's own order   *)
(* is kept, and every I/O is between the ends of the axis.                  *)
OffsetsApart ==
  step = "outliers" =>
    \A i, j \in IO(file) :
      LET r == file.recs[i]
          s == file.recs[j]
      IN /\ min_offset <= from[i] /\ To(i) <= max_offset
         /\ r.dev # s.dev => To(i) <= from[j] \/ To(j) <= from[i]
         /\ r.dev = s.dev /\ r.sec < s.sec => from[i] < from[j]

(* The axis of offsets is as OffsetsApart says; no I/O queued is beyond its  *)
(* last slot, so that each is counted at both its ends; one that is left out *)
(* of the graph is far from the crowd at one of them; and the dots of those  *)
(* shown are within the graph, on the rows of their bytes.                  *)
DotsInside ==
  /\ OffsetsApart
  /\ step = "zoom" => MapThenSumSet(LAMBDA slot : hits[slot], 0..10) = 2 * Cardinality(Events(file, "Q"))
  /\ step = "drawn" /\ frame.col = 0 =>
       /\ \A i \in Events(file, "Q") :
            \/ ymin <= from[i] /\ To(i) <= ymax
            \/ \E slot \in 0..10 : 20 * hits[slot] < fat_count /\ i \in Starts(file, slot) \cup Stops(file, slot)
       /\ \A i \in Events(file, io_event(file)) :
            Shown(file, i) /\ file.recs[i].bytes > 0 =>
              /\ <<Row(from[i]), Column(file, i)>> \in set_gdd_bit(file, i)
              /\ \A dot \in set_gdd_bit(file, i) :
                   /\ dot \in (0..(graph_height - 1)) \X (0..(graph_width - 1))
                   /\ dot[1] \in Row(from[i])..Row(To(i) - 1)

(* A frame of the movie shows the columns it is about and those of the       *)
(* frames before it, HISTORY in all, of the same trace.                     *)
FramesShow ==
  tool = "iowatcher" /\ frame.trace <= Traces =>
    /\ Len(shown) = Min({HISTORY, (frame.col + Batch - 1) \div Batch})
    /\ \A i \in DOMAIN shown :
         /\ shown[i].trace = frame.trace
         /\ shown[i].to = IF i = Len(shown) THEN frame.col ELSE shown[i + 1].from
-----------------------------------------------------------------------------
(* What does not hold.                                                      *)

(* A file that is accepted was read to its end.                              *)
AcceptedIsWhole ==
  \A k \in DOMAIN verified :
    verified[k].nbad = 0 => \A i \in DOMAIN files[k].recs : i \in Readable(files[k])

(* btt does not die of a file whose end is missing.                         *)
CutFileRead == bpc # "dead" /\ 0 \notin ToSet(got)

(* iowatcher draws whatever was traced, and all of it within its axis.       *)
AllDrawn ==
  /\ tool # "dead"
  /\ step = "drawn" => \A i \in Events(file, io_event(file)) : Shown(file, i)
===============================================================================
