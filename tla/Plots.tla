--------------------------------- MODULE Plots ---------------------------------
(***************************************************************************)
(* What iowatcher finds in a dump before it draws: the last time, where    *)
(* each device is on the axis of offsets, the part of the axis worth       *)
(* showing and the dots of each I/O (iowatcher/blkparse.c, main.c, plot.c), *)
(* and the frames of its movies.                                           *)
(***************************************************************************)
EXTENDS TraceFile

CONSTANTS
  SECOND,
  SECTOR,                     (* bytes of a sector: offsets are sector << 9      *)
  MAX_DEVICES_PER_TRACE,
  graph_height, graph_width,  (* rows and columns of the graph of I/Os           *)
  Wide,                       (* 2^64: offsets are unsigned                     *)
  Traces, HISTORY, Batch      (* of a movie: files, how many frames are shown    *)
                              (* again, columns of a frame                      *)

ASSUME MovieAssumption == {graph_width, HISTORY, Batch} \subseteq Nat \ {0} /\ Traces \in Nat

U64(n) == n % Wide
IO(f) == {i \in DOMAIN f.recs : ~Notify(f.recs[i])}
Events(f, act) == {i \in IO(f) : f.recs[i].act = act}

(* Backwards from the end for the last record, or else through all of them.  *)
is_io_event(r) == ~Notify(r) \/ r.act = "fio"
find_last_time(f) ==
  IF f.recs # <<>> /\ is_io_event(Last(f.recs)) THEN Last(f.recs).time
  ELSE FoldLeft(LAMBDA found, r : IF is_io_event(r) THEN r.time ELSE found, 0, f.recs)
-----------------------------------------------------------------------------
(* Devices in the order in which they are found.                            *)
lookup_dev(devices, r) ==
  IF Notify(r) \/ r.dev \in ToSet(devices) THEN devices ELSE Append(devices, r.dev)
Devices(f) == FoldLeft(lookup_dev, <<>>, f.recs)

Offset(r) == r.sec * SECTOR
Of(f, dev) == {f.recs[i] : i \in {j \in IO(f) : f.recs[j].dev = dev}}
DevMin(f, dev) == Min({0} \cup {Offset(r) : r \in Of(f, dev)})
DevMax(f, dev) == Max({0} \cup {Offset(r) + r.bytes : r \in Of(f, dev)})

(* Each device starts where the one found before it ends.                    *)
map(f, dev) ==
  LET all == Devices(f)
  IN FoldLeft(LAMBDA s, d : s + DevMax(f, d) - DevMin(f, d), 0,
              SubSeq(all, 1, SelectInSeq(all, LAMBDA d : d = dev) - 1))

map_io(f, r) == map(f, r.dev) + Offset(r) - DevMin(f, r.dev)
-----------------------------------------------------------------------------
VARIABLES
  from,                    (* of each I/O, where it begins on the axis           *)
  min_offset, max_offset,  (* where the first begins and the last ends          *)
  hits, min_per_bucket, max_per_bucket,   (* of each tenth of it                *)
  ymin, ymax,              (* the part of the axis that is drawn                *)
  step                     (* of reading a dump                                 *)

plots == <<from, min_offset, max_offset, hits, min_per_bucket, max_per_bucket, ymin, ymax, step>>

NoSlots == [slot \in 0..10 |-> 0]
PlotsInit ==
  /\ from = <<>> /\ min_offset = 0 /\ max_offset = 0
  /\ hits = NoSlots /\ min_per_bucket = NoSlots /\ max_per_bucket = NoSlots
  /\ ymin = 0 /\ ymax = 0
  /\ step = "devices"

find_extreme_offsets(f) ==
  /\ step = "devices" /\ step' = "outliers"
  /\ from' = [i \in IO(f) |-> map_io(f, f.recs[i])]
  /\ min_offset' = Min({Wide - 1} \cup {from'[i] : i \in IO(f)})
  /\ max_offset' = Max({0} \cup {from'[i] + f.recs[i].bytes : i \in IO(f)})
  /\ UNCHANGED <<hits, min_per_bucket, max_per_bucket, ymin, ymax>>

(* filter_outliers: where the I/Os queued begin and end, in tenths of the    *)
(* axis.  Nothing can be divided by a tenth of nothing.                     *)
bytes_per_bucket == U64(max_offset - min_offset + 1) \div 10
Divides(f) == bytes_per_bucket > 0 \/ Events(f, "Q") = {}

First(i) == from[i] - min_offset
Beyond(f, i) == First(i) + f.recs[i].bytes
Starts(f, slot) == {i \in Events(f, "Q") : First(i) \div bytes_per_bucket = slot}
Stops(f, slot) == {i \in Events(f, "Q") : Beyond(f, i) \div bytes_per_bucket = slot}

CountSlots(f) ==
  /\ step = "outliers" /\ step' = "zoom" /\ Divides(f)
  /\ hits' = [slot \in 0..10 |-> Cardinality(Starts(f, slot)) + Cardinality(Stops(f, slot))]
  /\ min_per_bucket' = [slot \in 0..10 |-> Min({Wide - 1} \cup {First(i) : i \in Starts(f, slot)})]
  /\ max_per_bucket' = [slot \in 0..10 |-> Max({0} \cup {Beyond(f, i) : i \in Stops(f, slot)})]
  /\ UNCHANGED <<from, min_offset, max_offset, ymin, ymax>>

(* An end of the axis in which less than a twentieth of the fullest tenth    *)
(* happens is not shown.                                                    *)
fat_count == Max({hits[slot] : slot \in 0..10})
Counts(slot) == 20 * hits[slot] >= fat_count

Zoom ==
  /\ step = "zoom" /\ step' = "drawn"
  /\ ymax' = U64(max_per_bucket[Max({slot \in 0..10 : Counts(slot)})] + min_offset)
  /\ LET slots == {slot \in 0..9 : Counts(slot)}
     IN ymin' = IF slots = {} THEN min_offset
                      ELSE U64(min_per_bucket[Min(slots)] + min_offset)
  /\ UNCHANGED <<from, min_offset, max_offset, hits, min_per_bucket, max_per_bucket>>
-----------------------------------------------------------------------------
io_event(f) == CASE Events(f, "Q") # {} -> "Q"
                 [] Events(f, "Q") = {} /\ Events(f, "D") # {} -> "D"
                 [] OTHER -> "C"

max_seconds(f) == find_last_time(f) \div SECOND + 1
Axis == U64(ymax - ymin + 1)

Shown(f, i) == /\ ymin <= from[i] /\ from[i] <= ymax
               /\ f.recs[i].time <= max_seconds(f) * SECOND

(* set_gdd_bit: <<row, column>> of each dot of an I/O.  The offset moves by  *)
(* whole bytes, the bytes left by the exact height of a row.                *)
Row(off) == ((off - ymin) * graph_height) \div Axis
Unclipped(f, i) ==
  LET high == f.recs[i].bytes * graph_height
  IN {Row(from[i] + k * (Axis \div graph_height)) : k \in {n \in 0..(high \div Axis) : n * Axis < high}}
Rows(f, i) ==
  LET high == f.recs[i].bytes * graph_height
      to(k) == from[i] + k * (Axis \div graph_height)
  IN {Row(to(k)) : k \in {n \in 0..(high \div Axis) : n * Axis < high /\ to(n) <= ymax}}
Column(f, i) == (f.recs[i].time * graph_width) \div (max_seconds(f) * SECOND)
set_gdd_bit(f, i) == IF Shown(f, i) THEN {<<row, Column(f, i)>> : row \in Rows(f, i)} ELSE {}
-----------------------------------------------------------------------------
VARIABLES
  frame,       (* the trace, the first column and how many come before it       *)
  movie_history, num_histories,
  shown        (* the histories the last frame shows                           *)

movie == <<frame, movie_history, num_histories, shown>>

MovieInit == /\ frame = [trace |-> 1, col |-> 0]
             /\ movie_history = <<>> /\ num_histories = 0 /\ shown = <<>>

KeepOneMore(list) == IF num_histories + 1 > HISTORY + 1 THEN Tail(list) ELSE list
KeepLast(list) == IF num_histories + 1 > HISTORY THEN Tail(list) ELSE list

(* A frame of plot_io_movie: the dots of its columns, then those of the      *)
(* frames before it.                                                        *)
PlotFrame ==
  /\ frame.trace <= Traces /\ frame.col < graph_width
  /\ LET to == Min({graph_width, frame.col + Batch})
         list == KeepLast(Append(movie_history, [trace |-> frame.trace, from |-> frame.col, to |-> to]))
     IN /\ movie_history' = list /\ shown' = list
        /\ num_histories' = Min({num_histories + 1, HISTORY})
        /\ frame' = [frame EXCEPT !.col = to]

(* free_all_plot_history, and the next trace.                                *)
NextTrace ==
  /\ frame.trace <= Traces /\ frame.col = graph_width
  /\ frame' = [trace |-> frame.trace + 1, col |-> 0]
  /\ movie_history' = <<>> /\ shown' = <<>>
  /\ UNCHANGED num_histories
===============================================================================
