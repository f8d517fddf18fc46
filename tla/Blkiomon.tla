-------------------------------- MODULE Blkiomon --------------------------------
(***************************************************************************)
(* blkiomon: the thread that reads the traces of several CPUs from a pipe, *)
(* pairs issues with completions and adds them to the statistics of their  *)
(* device, and the thread that takes the statistics of each interval,      *)
(* prints them and gives them back.  dstat_mutex guards the lists, but not *)
(* the statistics (blkiomon.c).                                            *)
(***************************************************************************)
EXTENDS BlkiomonStats, Sequences, SequencesExt

CONSTANTS
  Cpus, Stream,        (* what each CPU traces: sequences of events             *)
  Devices,
  TRACE_HASH_SIZE, VacantMax,
  Micro,               (* nanoseconds in a microsecond                          *)
  Intervals, Losses    (* bounds: intervals, events that are lost               *)

(* dir: r, w, both or neither; act: D, C, drv (data of a driver) or other.   *)
Event == [dev : Devices, sec : Nat, dir : SUBSET {"r", "w"}, time : Nat,
          act : {"D", "C", "drv", "Q"}]

(* No two events are the same: a sequence number, which nothing here needs   *)
(* otherwise, tells them apart.                                             *)
ASSUME BlkiomonAssumption ==
  /\ {TRACE_HASH_SIZE, Micro} \subseteq Nat \ {0} /\ VacantMax \in Nat
  /\ Stream \in [Cpus -> Seq(Event)]
  /\ \A c, d \in Cpus : \A i \in DOMAIN Stream[c], j \in DOMAIN Stream[d] :
       Stream[c][i] = Stream[d][j] => c = d /\ i = j

VARIABLES
  next,      (* of each CPU, how many of its events came                       *)
  left,      (* how many more may be lost                                      *)
  up,
  gpc,       (* where the gatherer is                                          *)
  bit,       (* the pair it accounts, <<older, younger>>, or <<>>              *)
  p,         (* the dstat it accounts it to                                    *)
  thash, vacant_traces, traces,   (* traces stored, vacant and allocated       *)
  dstats,    (* all dstats allocated                                           *)
  vacant_dstats_list, dstat_list, dstat_tree, dstat_curr,
  ipc,       (* where the interval thread is                                   *)
  finished, head, row,   (* what it took, and the dstat it is about            *)
  interval,
  matched, shown   (* history: pairs accounted, rows printed                  *)

input == <<next, left, up>>
gatherer == <<gpc, bit, p, thash, vacant_traces, traces, matched>>
lists == <<vacant_dstats_list, dstat_list, dstat_tree, dstat_curr>>
thread == <<ipc, finished, head, row, interval, shown>>
vars == <<input, gatherer, dstats, lists, thread>>

Init ==
  /\ next = [c \in Cpus |-> 0] /\ left = Losses /\ up = TRUE
  /\ gpc = "loop" /\ bit = <<>> /\ p = 0
  /\ thash = [i \in 0..(TRACE_HASH_SIZE - 1) |-> <<>>]
  /\ vacant_traces = 0 /\ traces = 1
  /\ dstats = <<>>
  /\ vacant_dstats_list = <<>>
  /\ dstat_list = [i \in 0..1 |-> <<>>] /\ dstat_tree = [i \in 0..1 |-> {}]
  /\ dstat_curr = 0
  /\ ipc = "sleep" /\ finished = 0 /\ head = <<>> /\ row = 1 /\ interval = 0
  /\ matched = {} /\ shown = {}
-----------------------------------------------------------------------------
(* The gatherer.                                                            *)

Bucket(e) == e.sec % TRACE_HASH_SIZE
Same(e, f) == e.dev = f.dev /\ e.sec = f.sec /\ e.dir = f.dir

(* Index of the stored trace that fits, 0 if there is none.                  *)
blkiomon_fetch_trace(e) == SelectInSeq(thash[Bucket(e)], LAMBDA f : Same(f, e))
blkiomon_store_trace(h, e) == [h EXCEPT ![Bucket(e)] = <<e>> \o @]

blkiomon_alloc_trace ==
  IF vacant_traces > 0 THEN vacant_traces' = vacant_traces - 1 /\ UNCHANGED traces
                       ELSE traces' = traces + 1 /\ UNCHANGED vacant_traces
LeakMany == IF vacant_traces < VacantMax THEN vacant_traces' = vacant_traces + 1 /\ UNCHANGED traces
                                         ELSE UNCHANGED <<vacant_traces, traces>>
blkiomon_free_trace ==
  IF vacant_traces < VacantMax THEN vacant_traces' = vacant_traces + 1 /\ UNCHANGED traces
                               ELSE traces' = traces - 1 /\ UNCHANGED vacant_traces

OlderFirst(s, e) == IF s.time < e.time THEN <<s, e>> ELSE <<e, s>>

StillStored(e, i) == thash
Removed(e, i) == [thash EXCEPT ![Bucket(e)] = RemoveAt(@, i)]

blkiomon_do_trace(e) ==
  LET i == blkiomon_fetch_trace(e)
      h == Removed(e, i)
      pair == OlderFirst(thash[Bucket(e)][i], e)
  IN IF i = 0
     THEN /\ thash' = blkiomon_store_trace(thash, e)
          /\ blkiomon_alloc_trace
          /\ gpc' = "loop" /\ UNCHANGED bit
     ELSE IF pair[1].act = "D" /\ pair[2].act = "C"
     THEN /\ thash' = h /\ bit' = pair /\ gpc' = "get"
          /\ UNCHANGED <<vacant_traces, traces>>
     ELSE /\ thash' = blkiomon_store_trace(h, pair[2])
          /\ gpc' = "loop" /\ UNCHANGED <<bit, vacant_traces, traces>>

Comes(c) == Stream[c][next[c] + 1]
CpusLeft == {c \in Cpus : next[c] < Len(Stream[c])}

(* A signal is noticed here only, so that one more event may be read.        *)
Loop ==
  /\ gpc = "loop"
  /\ \/ up /\ gpc' = "read" /\ UNCHANGED <<vacant_traces, traces>>
     \/ ~up /\ gpc' = "done" /\ blkiomon_free_trace
  /\ UNCHANGED <<input, bit, p, thash, dstats, lists, thread, matched>>

(* An event is read; data of a driver is passed on, which may fail.          *)
Read(c) ==
  /\ gpc = "read" /\ c \in CpusLeft
  /\ next' = [next EXCEPT ![c] = @ + 1]
  /\ \/ Comes(c).act \in {"D", "C"} /\ blkiomon_do_trace(Comes(c))
     \/ Comes(c).act \notin {"D", "C"} /\ gpc' = "loop" /\ UNCHANGED <<bit, thash, vacant_traces, traces>>
     \/ /\ Comes(c).act = "drv" /\ gpc' = "done" /\ blkiomon_free_trace
        /\ UNCHANGED <<bit, thash>>
  /\ UNCHANGED <<left, up, p, dstats, lists, thread, matched>>

Lose(c) ==
  /\ c \in CpusLeft /\ left > 0
  /\ next' = [next EXCEPT ![c] = @ + 1]
  /\ left' = left - 1
  /\ UNCHANGED <<up, gatherer, dstats, lists, thread>>

Signal == up /\ up' = FALSE /\ UNCHANGED <<next, left, gatherer, dstats, lists, thread>>

EndFifo ==
  /\ gpc = "read" /\ CpusLeft = {}
  /\ gpc' = "done" /\ blkiomon_free_trace
  /\ UNCHANGED <<input, bit, p, thash, dstats, lists, thread, matched>>

d2c == (bit[2].time - bit[1].time) \div Micro

InTree(device) == {i \in dstat_tree[dstat_curr] : dstats[i].device = device}

Listed(i) ==
  /\ dstat_list' = [dstat_list EXCEPT ![dstat_curr] = <<i>> \o @]
  /\ dstat_tree' = [dstat_tree EXCEPT ![dstat_curr] = @ \cup {i}]
  /\ p' = i

(* blkiomon_account up to the return of blkiomon_get_dstat.  The division by *)
(* a time below a microsecond is undefined: it may end the program.         *)
GetDstat ==
  /\ gpc = "get"
  /\ LET found == InTree(bit[1].dev)
         new == blkiomon_stat_init(bit[1].dev)
     IN \/ d2c = 0 /\ gpc' = "dead" /\ UNCHANGED <<p, dstats, lists>>
        \/ /\ gpc' = "minmax"
           /\ \/ \E i \in found : p' = i /\ UNCHANGED <<dstats, lists>>
              \/ /\ found = {} /\ vacant_dstats_list # <<>>
                 /\ Listed(Head(vacant_dstats_list))
                 /\ vacant_dstats_list' = Tail(vacant_dstats_list)
                 /\ dstats' = [dstats EXCEPT ![Head(vacant_dstats_list)] = new]
                 /\ UNCHANGED dstat_curr
              \/ /\ found = {} /\ vacant_dstats_list = <<>>
                 /\ dstats' = Append(dstats, new)
                 /\ Listed(Len(dstats) + 1)
                 /\ UNCHANGED <<vacant_dstats_list, dstat_curr>>
  /\ UNCHANGED <<input, bit, thash, vacant_traces, traces, thread, matched>>

AccountMinmax ==
  /\ gpc = "minmax" /\ gpc' = "hist"
  /\ dstats' = [dstats EXCEPT ![p] = Accounted(@, bit[2].dir, d2c)]
  /\ UNCHANGED <<input, bit, p, thash, vacant_traces, traces, lists, thread, matched>>

AccountHist ==
  /\ gpc = "hist" /\ gpc' = "loop"
  /\ dstats' = [dstats EXCEPT ![p] = histlog2_account(@, d2c)]
  /\ matched' = matched \cup {bit}
  /\ bit' = <<>>
  /\ blkiomon_free_trace
  /\ UNCHANGED <<input, p, thash, lists, thread>>
-----------------------------------------------------------------------------
(* The interval thread.                                                     *)

Alive == gpc \notin {"dead", "done"}    (* main's return ends it, too          *)
Goto(pc) == ipc' = pc

(* "grab tree and make data gatherer build up another tree"                 *)
Grab ==
  /\ Alive /\ ipc = "sleep" /\ interval < Intervals
  /\ finished' = dstat_curr /\ dstat_curr' = 1 - dstat_curr
  /\ interval' = interval + 1
  /\ Goto("take")
  /\ UNCHANGED <<input, gatherer, dstats, vacant_dstats_list, dstat_list, dstat_tree, head, row, shown>>

Take ==
  /\ Alive /\ ipc = "take"
  /\ IF dstat_list[finished] = <<>>
     THEN Goto("sleep") /\ UNCHANGED <<head, row, dstat_list, dstat_tree>>
     ELSE /\ head' = dstat_list[finished] /\ row' = 1
          /\ dstat_list' = [dstat_list EXCEPT ![finished] = <<>>]
          /\ dstat_tree' = [dstat_tree EXCEPT ![finished] = {}]
          /\ Goto("print")
  /\ UNCHANGED <<input, gatherer, dstats, vacant_dstats_list, dstat_curr, finished, interval, shown>>

PrintRow ==
  /\ Alive /\ ipc = "print"
  /\ shown' = shown \cup {[interval |-> interval, stat |-> dstats[head[row]]]}
  /\ Goto("convert")
  /\ UNCHANGED <<input, gatherer, dstats, lists, finished, head, row, interval>>

(* The conversion, after which the row is written and the next one is taken.  *)
Convert ==
  /\ Alive /\ ipc = "convert"
  /\ dstats' = [dstats EXCEPT ![head[row]].be = TRUE]
  /\ row' = row + 1
  /\ Goto(IF row = Len(head) THEN "recycle" ELSE "print")
  /\ UNCHANGED <<input, gatherer, lists, finished, head, interval, shown>>

Recycle ==
  /\ Alive /\ ipc = "recycle"
  /\ vacant_dstats_list' = head \o vacant_dstats_list
  /\ head' = <<>>
  /\ Goto("sleep")
  /\ UNCHANGED <<input, gatherer, dstats, dstat_list, dstat_tree, dstat_curr, finished, row, interval, shown>>
-----------------------------------------------------------------------------
Ended == ~Alive /\ UNCHANGED vars

Next ==
  \/ \E c \in Cpus : Read(c) \/ Lose(c)
  \/ Signal \/ Loop \/ EndFifo \/ GetDstat \/ AccountMinmax \/ AccountHist
  \/ Grab \/ Take \/ PrintRow \/ Convert \/ Recycle
  \/ Ended

Spec == Init /\ [][Next]_vars
-----------------------------------------------------------------------------
Stored == UNION {{<<i, j>> : j \in DOMAIN thash[i]} : i \in DOMAIN thash}
At(x) == thash[x[1]][x[2]]

TypeOK ==
  /\ gpc \in {"loop", "read", "get", "minmax", "hist", "done", "dead"}
  /\ ipc \in {"sleep", "take", "print", "convert", "recycle"}
  /\ \A x \in Stored : At(x) \in Event
  /\ p \in 0..Len(dstats) /\ dstat_curr \in 0..1 /\ finished \in 0..1

(* However the traces of the CPUs are mixed and whatever is lost: what is    *)
(* accounted is an issue and a later completion of the same sector, no event *)
(* is in two pairs, and no two traces are stored that would match.          *)
PairsMatch ==
  /\ \A m \in matched : /\ m[1].act = "D" /\ m[2].act = "C"
                        /\ Same(m[1], m[2]) /\ m[1].time <= m[2].time
  /\ \A m, n \in matched : m[1] = n[1] \/ m[2] = n[2] => m = n
  /\ \A x, y \in Stored : Same(At(x), At(y)) => x = y

TracesKept ==
  traces = Cardinality(Stored) + vacant_traces
             + (IF gpc = "done" THEN 0 ELSE 1) + (IF bit = <<>> THEN 0 ELSE 1)

(* No trace is leaked or freed twice: each one allocated is stored, vacant,  *)
(* the buffer of the reader, or the other one of the pair it accounts.  And  *)
(* each dstat is in one list only: one of the two intervals', the one that   *)
(* is printed, or the vacant ones; a list has a device once, as its tree     *)
(* does; and so a device has one row in an interval.                        *)
NothingLeaked ==
  /\ TracesKept
  /\ LET all == dstat_list[0] \o dstat_list[1] \o head \o vacant_dstats_list
     IN IsInjective(all) /\ ToSet(all) = DOMAIN dstats
  /\ \A i \in 0..1 :
       /\ dstat_tree[i] = ToSet(dstat_list[i])
       /\ \A x, y \in dstat_tree[i] : dstats[x].device = dstats[y].device => x = y
  /\ \A r, s \in shown :
       r.interval = s.interval /\ r.stat.device = s.stat.device => r = s

(* The statistics not printed yet.                                          *)
Pending ==
  ToSet(dstat_list[0]) \cup ToSet(dstat_list[1])
    \cup {head[i] : i \in {j \in DOMAIN head : IF ipc = "print" THEN j >= row ELSE ipc = "convert" /\ j > row}}
PrintedIOs == UNION {{r} \X Filled(r.stat) : r \in shown}
PendingIOs == UNION {{i} \X Filled(dstats[i]) : i \in Pending}
Found == Cardinality(PrintedIOs) + Cardinality(PendingIOs)

(* The gatherer may still add to what the other thread has taken: but an     *)
(* interval costs one pair at most, and no pair is counted twice.           *)
MissingBounded ==
  /\ Found <= Cardinality(matched)
  /\ Cardinality(matched) - Found <= interval
-----------------------------------------------------------------------------
(* What does not hold.                                                      *)

(* blkiomon.c: "grab tree and make data gatherer build up another tree" --   *)
(* no pair is missing from both trees.                                      *)
NothingMissing == Found = Cardinality(matched)

(* The numbers of a row and its histogram are about the same I/Os.           *)
RowsWhole == \A r \in shown : Number(r.stat) = InHist(r.stat) /\ ~r.stat.torn

(* The program does not die of what it reads.                                *)
GathererLives == gpc # "dead"
===============================================================================
