--------------------------------- MODULE Merge ---------------------------------
(***************************************************************************)
(* blkparse.c on trace files (do_file): each file of a CPU is a stream     *)
(* (struct ms_stream) of which a batch of events is in memory; the streams *)
(* are linked in the order of their first events' times.  The first event  *)
(* of the first stream is shown, its stream refilled from the file if need *)
(* be and moved to its new place.                                          *)
(*                                                                         *)
(* A record of a file is an event, a notification, which is handled while  *)
(* reading, an event that claims another CPU, or garbage.                  *)
(***************************************************************************)
EXTENDS Integers, SequencesExt

CONSTANTS
  NCpus,          (* trace files 0, 1, ... as far as they exist               *)
  rb_batch,
  MaxRecords,     (* bound: records of a file                                 *)
  MaxTime,        (* bound: times of events                                     *)
  Kinds,          (* the kinds of records there are                           *)
  StopwatchEnd,   (* the end of the interval of interest, from genesis        *)
  MaySignal       (* may SIGINT come?                                         *)

ASSUME MergeAssumption ==
  /\ {NCpus, rb_batch} \subseteq Nat \ {0}
  /\ {MaxRecords, MaxTime, StopwatchEnd} \subseteq Nat
  /\ Kinds \subseteq {"event", "notify", "wrong_cpu", "garbage"}
  /\ MaySignal \in BOOLEAN

Cpus == 0..NCpus - 1

VARIABLES
  pc,        (* "setup", "run", "end"                                         *)
  cpu,       (* do_file's loop variable while it sets the files up            *)
  file,      (* the records of each file that were not read                   *)
  open,      (* pci->fd >= 0                                                  *)
  loaded,    (* msp->first ... msp->last                                      *)
  list,      (* the streams from ms_head on                                   *)
  genesis,   (* genesis_time                                                  *)
  out,       (* the events handled                                            *)
  done

vars == <<pc, cpu, file, open, loaded, list, genesis, out, done>>

(* Nobody looks at the time of a record that is no event, nor at what is     *)
(* behind garbage.                                                          *)
Event == [time : 0..MaxTime, kind : {"event"} \cap Kinds]
Record == Event \cup [time : {0}, kind : Kinds \ {"event"}]

(* The files blktrace writes: a CPU's events, in the order of their times.   *)
Files ==
  {f \in UNION {[1..n -> Record] : n \in 0..MaxRecords} :
     \A i, j \in DOMAIN f : i < j =>
       /\ f[i].kind # "garbage"
       /\ {f[i], f[j]} \subseteq Event => f[i].time <= f[j].time}

Init ==
  /\ pc = "setup"
  /\ cpu = 0
  /\ file \in [Cpus -> Files]
  /\ open = [c \in Cpus |-> FALSE]
  /\ loaded = [c \in Cpus |-> <<>>]
  /\ list = <<>>
  /\ genesis = 0
  /\ out = <<>>
  /\ done = FALSE
-----------------------------------------------------------------------------
Events(records) ==
  LET shown[n \in 0..Len(records)] ==
        IF n = 0 THEN <<>>
        ELSE IF records[n].kind = "event" THEN Append(shown[n - 1], records[n])
        ELSE shown[n - 1]
  IN  shown[Len(records)]
Counted(records) == Cardinality({i \in DOMAIN records : records[i].kind # "notify"})
Clean(records) == \A i \in DOMAIN records : records[i].kind # "garbage"

(* How many records ms_prime reads from f: notifications do not count        *)
(* towards the batch, other CPUs' events do; the end of the file or garbage *)
(* end the reading and close the file.                                      *)
Reads(f) ==
  Max({0} \cup {k \in 1..Len(f) : Counted(SubSeq(f, 1, k - 1)) < rb_batch
                                  /\ Clean(SubSeq(f, 1, k))})
Closes(f) == Counted(SubSeq(f, 1, Reads(f))) < rb_batch
Primed(f) == Events(SubSeq(f, 1, Reads(f)))

(* ms_prime's effect on the file of stream c, which must be open.           *)
Prime(c) ==
  /\ file' = [file EXCEPT ![c] = SubSeq(@, Reads(@) + 1, Len(@))]
  /\ open' = [open EXCEPT ![c] = ~Closes(file[c])]

(* ms_sort: the place of a stream whose first event is at time t in streams  *)
(* l, whose first events' times `first` gives.                              *)
Behind(l, t, first) ==
  IF t < first[Head(l)] THEN 0
  ELSE Min({k \in DOMAIN l : k = Len(l) \/ first[l[k + 1]] >= t})
AtTheEnd(l, c, first) == Append(l, c)
ms_sort(l, c, first) ==
  IF l = <<>> THEN <<c>> ELSE InsertAt(l, Behind(l, first[c], first) + 1, c)

(* ms_resort: the first stream moves only if the second is earlier.         *)
ms_resort(l, first) ==
  IF Len(l) > 1 /\ first[l[1]] > first[l[2]] THEN ms_sort(Tail(l), l[1], first) ELSE l

Firsts(m) == [c \in Cpus |-> IF m[c] = <<>> THEN -1 ELSE Head(m[c]).time]
-----------------------------------------------------------------------------
(* setup_file with ms_alloc: an empty file is passed over.                  *)
SetupFile ==
  /\ pc = "setup" /\ cpu < NCpus
  /\ cpu' = cpu + 1
  /\ IF file[cpu] = <<>>
     THEN UNCHANGED <<file, open, loaded, list>>
     ELSE LET batch == IF done THEN <<>> ELSE Primed(file[cpu]) IN
          /\ IF done THEN open' = [open EXCEPT ![cpu] = TRUE] /\ UNCHANGED file
                     ELSE Prime(cpu)
          /\ loaded' = [loaded EXCEPT ![cpu] = batch]
          /\ list' = IF batch = <<>> THEN list ELSE ms_sort(list, cpu, Firsts(loaded'))
  /\ UNCHANGED <<pc, genesis, out, done>>

(* The initial time stamp, and the loop.                                    *)
StartRun ==
  /\ pc = "setup" /\ cpu = NCpus
  /\ genesis' = IF list = <<>> THEN 0 ELSE Head(loaded[Head(list)]).time
  /\ pc' = "run"
  /\ UNCHANGED <<cpu, file, open, loaded, list, out, done>>

Before(e) == e.time - genesis < StopwatchEnd
InTime(e) == e.time - genesis <= StopwatchEnd

(* handle with ms_deq.                                                      *)
Handle ==
  /\ pc = "run" /\ ~done
  /\ list # <<>>
  /\ LET c    == Head(list)
         e    == Head(loaded[c])
         rest == Tail(loaded[c])
         more == IF rest = <<>> /\ open[c] THEN Primed(file[c]) ELSE rest
     IN  /\ InTime(e)
         /\ out' = Append(out, e)
         /\ loaded' = [loaded EXCEPT ![c] = more]
         /\ IF rest = <<>> /\ open[c] THEN Prime(c) ELSE UNCHANGED <<file, open>>
         /\ list' = IF more = <<>> THEN Tail(list) ELSE ms_resort(list, Firsts(loaded'))
  /\ UNCHANGED <<pc, cpu, genesis, done>>

(* The loop ends with a signal, without a stream or past the interval.      *)
EndRun ==
  /\ pc = "run"
  /\ \/ done
     \/ list = <<>>
     \/ list # <<>> /\ ~InTime(Head(loaded[Head(list)]))
  /\ pc' = "end"
  /\ UNCHANGED <<cpu, file, open, loaded, list, genesis, out, done>>

Signal ==
  /\ MaySignal /\ pc # "end" /\ ~done
  /\ done' = TRUE
  /\ UNCHANGED <<pc, cpu, file, open, loaded, list, genesis, out>>

Terminated == pc = "end" /\ UNCHANGED vars

Next == SetupFile \/ StartRun \/ Handle \/ EndRun \/ Signal \/ Terminated

Spec == Init /\ [][Next]_vars
-----------------------------------------------------------------------------
TypeOK ==
  /\ pc \in {"setup", "run", "end"}
  /\ cpu \in 0..NCpus
  /\ \A c \in Cpus : /\ file[c] \in Seq(Record)
                     /\ loaded[c] \in Seq(Event)
                     /\ open[c] \in BOOLEAN
  /\ list \in Seq(Cpus)
  /\ genesis \in 0..MaxTime
  /\ out \in Seq(Event)
  /\ done \in BOOLEAN

(* What is still to come of a stream: nothing is behind garbage.             *)
Left(c) == loaded[c] \o Events(file[c])

(* The merge keeps TimeOrder's promise.                                     *)
Order == INSTANCE TimeOrder WITH left <- [c \in Cpus |-> Left(c)]
InTimeOrder == Order!Spec

(* do_file: "Keep processing traces while any are left": without a signal    *)
(* the end comes only when every event was handled, but for those past the  *)
(* interval.                                                                *)
AllHandled ==
  (pc = "end" /\ ~done) =>
    \A c \in Cpus : \A i \in DOMAIN Left(c) :
      Left(c)[i].time - genesis > StopwatchEnd
=============================================================================
