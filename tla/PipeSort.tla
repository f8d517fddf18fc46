------------------------------- MODULE PipeSort -------------------------------
(***************************************************************************)
(* blkparse.c on a pipe from a running blktrace (do_pipe): batches of      *)
(* events are read and sorted by time, and from the front of what is       *)
(* sorted events are shown as long as each is the next of its CPU; one     *)
(* that is not waits for the events in between.  When the input has ended  *)
(* all are shown and the gaps are noted as skips.                          *)
(*                                                                         *)
(* One device; no messages, and no stopwatch, so that no event is dropped  *)
(* for its time.  smallest_seq_read starts at 0 and cpu_map is not kept    *)
(* for pipes: what check_sequence asks them has one answer each, which is  *)
(* written in here.                                                        *)
(***************************************************************************)
EXTENDS Integers, SequencesExt

CONSTANTS
  PipeCpus,
  pipe_batch,     (* rb_batch                                                 *)
  MaxSeq,         (* bound: sequence numbers                                  *)
  MaxPipeTime,    (* bound: times                                             *)
  Monotone,       (* do the times of a CPU follow its sequence numbers?       *)
  BeforeGenesis   (* may an event be older than all of the first batch?       *)

ASSUME PipeAssumption ==
  /\ {pipe_batch, MaxSeq, MaxPipeTime} \subseteq Nat \ {0}
  /\ {Monotone, BeforeGenesis} \subseteq BOOLEAN

VARIABLES
  pipe_pc,   (* "read", "show", "flush", "end"                                *)
  newest,    (* the last event of each CPU in the pipe so far                 *)
  nread,     (* events read                                                   *)
  trace_list,   (* the batch                                                  *)
  rb_sort,   (* rb_sort_root                                                  *)
  genesis_time,
  last_sequence,   (* of each CPU                                             *)
  skips,     (* of each CPU, from skips_head to skips_tail                    *)
  shown

pipe_vars == <<pipe_pc, newest, nread, trace_list, rb_sort, genesis_time,
               last_sequence, skips, shown>>

PipeEvent == [cpu : PipeCpus, seq : 1..MaxSeq, time : 0..MaxPipeTime]
None == -1

PipeInit ==
  /\ pipe_pc = "read"
  /\ newest = [c \in PipeCpus |-> [seq |-> 0, time |-> 0]]
  /\ nread = 0
  /\ trace_list = {} /\ rb_sort = {}
  /\ genesis_time = 0
  /\ last_sequence = [c \in PipeCpus |-> None]
  /\ skips = [c \in PipeCpus |-> <<>>]
  /\ shown = <<>>
-----------------------------------------------------------------------------
(* read_events: one more event of the pipe, where a CPU's events follow one  *)
(* another but some may have been lost.                                     *)
ReadEvent(c) ==
  /\ pipe_pc = "read"
  /\ Cardinality(trace_list) < pipe_batch
  /\ \E s \in newest[c].seq + 1 .. MaxSeq, t \in 1..MaxPipeTime :
       /\ Monotone => t >= newest[c].time
       /\ BeforeGenesis \/ t >= genesis_time
       /\ trace_list' = trace_list \cup {[cpu |-> c, seq |-> s, time |-> t]}
       /\ newest' = [newest EXCEPT ![c] = [seq |-> s, time |-> t]]
  /\ nread' = nread + 1
  /\ UNCHANGED <<pipe_pc, rb_sort, genesis_time, last_sequence, skips, shown>>

(* sort_entries.  Times become relative to genesis_time, as unsigned         *)
(* numbers: Wrap stands for 2^64, beyond all times.                         *)
Wrap == MaxPipeTime + 1
find_genesis == Min({e.time : e \in trace_list})
JustBatch(b) == b
Inserted(b) == rb_sort \cup b
SortEntries ==
  /\ pipe_pc = "read"
  /\ trace_list # {}
  /\ LET g == IF genesis_time = 0 THEN find_genesis ELSE genesis_time IN
     /\ genesis_time' = g
     /\ rb_sort' = Inserted({[e EXCEPT !.time = (@ - g) % Wrap] : e \in trace_list})
  /\ trace_list' = {}
  /\ pipe_pc' = "show"
  /\ UNCHANGED <<newest, nread, last_sequence, skips, shown>>

(* A batch of no events: the input has ended, or SIGINT has come.           *)
EndOfInput ==
  /\ pipe_pc = "read"
  /\ trace_list = {}
  /\ pipe_pc' = "flush"
  /\ UNCHANGED <<newest, nread, trace_list, rb_sort, genesis_time, last_sequence,
                 skips, shown>>
-----------------------------------------------------------------------------
(* insert_skip: from the tail on, the first range that start..end extends.   *)
insert_skip(l, start, end) ==
  LET touching == {i \in DOMAIN l : end = l[i].start - 1 \/ start = l[i].end + 1}
      i == Max(touching)
  IN  IF touching = {} THEN Append(l, [start |-> start, end |-> end])
      ELSE IF end = l[i].start - 1 THEN [l EXCEPT ![i].start = start]
      ELSE [l EXCEPT ![i].end = end]

(* check_current_skips: taking seq out of range i of l.  A range is split    *)
(* with its end already moved.                                              *)
TakenOut(l, i, seq) ==
  IF l[i].start = seq
  THEN IF l[i].end = seq THEN RemoveAt(l, i) ELSE [l EXCEPT ![i].start = @ + 1]
  ELSE IF l[i].end = seq THEN [l EXCEPT ![i].end = @ - 1]
  ELSE insert_skip([l EXCEPT ![i].end = seq - 1], seq + 1, seq - 1)

Holding(l, seq) == {i \in DOMAIN l : l[i].start <= seq /\ seq <= l[i].end}

(* check_sequence's answers: whether t waits, and the skips if it does not.  *)
First(t) == last_sequence[t.cpu] = None
Expected(t) == last_sequence[t.cpu] + 1
NoWait(t) == FALSE
Waits(t) == ~First(t) /\ t.seq # Expected(t)
SkipThrough(t) == t.seq
SkipTo(t) == t.seq - 1
SkipsAfter(t) ==
  LET l == skips[t.cpu] IN
  IF First(t) \/ t.seq = Expected(t) THEN l
  ELSE IF Holding(l, t.seq) # {} THEN TakenOut(l, Max(Holding(l, t.seq)), t.seq)
  ELSE IF Expected(t) < t.seq THEN insert_skip(l, Expected(t), SkipTo(t))
  ELSE l

(* The order of rb_sort_root; of equal elements either may come first.      *)
SortsBefore(a, b) == a.time < b.time \/ (a.time = b.time /\ a.seq < b.seq)

(* One turn of show_entries_rb, with force once the input has ended.        *)
ShowEntry ==
  /\ pipe_pc \in {"show", "flush"}
  /\ \E t \in rb_sort :
       /\ \A u \in rb_sort : ~SortsBefore(u, t)
       /\ pipe_pc = "flush" \/ ~Waits(t)
       /\ skips' = [skips EXCEPT ![t.cpu] = SkipsAfter(t)]
       /\ last_sequence' = [last_sequence EXCEPT ![t.cpu] = t.seq]
       /\ shown' = Append(shown, t)
       /\ rb_sort' = rb_sort \ {t}
  /\ UNCHANGED <<pipe_pc, newest, nread, trace_list, genesis_time>>

ShowEnds ==
  /\ pipe_pc \in {"show", "flush"}
  /\ \/ rb_sort = {}
     \/ /\ pipe_pc = "show"
        /\ \E t \in rb_sort : Waits(t) /\ \A u \in rb_sort : ~SortsBefore(u, t)
  /\ pipe_pc' = IF pipe_pc = "show" THEN "read" ELSE "end"
  /\ UNCHANGED <<newest, nread, trace_list, rb_sort, genesis_time, last_sequence,
                 skips, shown>>

PipeTerminated == pipe_pc = "end" /\ UNCHANGED pipe_vars

PipeNext ==
  \/ \E c \in PipeCpus : ReadEvent(c)
  \/ SortEntries \/ EndOfInput \/ ShowEntry \/ ShowEnds \/ PipeTerminated

PipeSpec == PipeInit /\ [][PipeNext]_pipe_vars
-----------------------------------------------------------------------------
SkipRange == [start : 1..MaxSeq, end : 1..MaxSeq]
PipeTypeOK ==
  /\ pipe_pc \in {"read", "show", "flush", "end"}
  /\ newest \in [PipeCpus -> [seq : 0..MaxSeq, time : 0..MaxPipeTime]]
  /\ nread \in Nat
  /\ trace_list \subseteq PipeEvent /\ rb_sort \subseteq PipeEvent
  /\ genesis_time \in 0..MaxPipeTime
  /\ last_sequence \in [PipeCpus -> 1..MaxSeq \cup {None}]
  /\ skips \in [PipeCpus -> Seq(SkipRange)]
  /\ shown \in Seq(PipeEvent)

(* Every event read is in the batch, sorted or shown, once, and all are      *)
(* shown in the end (the lists and trees an event goes through in do_pipe). *)
EveryEventOnce ==
  /\ Cardinality(trace_list) + Cardinality(rb_sort) + Len(shown) = nread
  /\ pipe_pc = "end" => Len(shown) = nread
  /\ IsInjective([i \in DOMAIN shown |-> <<shown[i].cpu, shown[i].seq>>])

(* The j-th event shown is the next of its CPU after the i-th.               *)
Follows(i, j) ==
  /\ i < j /\ shown[i].cpu = shown[j].cpu
  /\ \A k \in i + 1 .. j - 1 : shown[k].cpu # shown[i].cpu

(* A CPU's events are shown in sequence (check_sequence: "we may not have    *)
(* seen that sequence yet. if we are not doing the final run, break and     *)
(* wait for more entries"), and until the input has ended without a gap.    *)
InSequence ==
  \A i, j \in DOMAIN shown : Follows(i, j) =>
    /\ shown[i].seq < shown[j].seq
    /\ pipe_pc \in {"read", "show"} => shown[j].seq = shown[i].seq + 1

(* The skips, which collect_pdi_skips counts and prints as                   *)
(* "skipping %lu -> %lu", are the sequence numbers passed over; and no range *)
(* is empty or overlaps another, so that their lengths add up to the count.  *)
Skipped(c) == UNION {skips[c][i].start .. skips[c][i].end : i \in DOMAIN skips[c]}
SeqsOf(c) == {shown[i].seq : i \in {k \in DOMAIN shown : shown[k].cpu = c}}
SkipsExact ==
  \A c \in PipeCpus :
    /\ Skipped(c) = IF SeqsOf(c) = {} THEN {} ELSE (Min(SeqsOf(c)) .. Max(SeqsOf(c))) \ SeqsOf(c)
    /\ \A i, j \in DOMAIN skips[c] :
         /\ skips[c][i].start <= skips[c][i].end
         /\ i < j => skips[c][i].end < skips[c][j].start \/ skips[c][j].end < skips[c][i].start
=============================================================================
