------------------------------ MODULE Iowatcher ------------------------------
(***************************************************************************)
(* What iowatcher derives from the events of a dump (iowatcher/blkparse.c): *)
(* the I/Os it waits for, keyed by sector and device, how many are in      *)
(* flight, and the sums its graphs of a second show.                       *)
(***************************************************************************)
EXTENDS BlockIO

CONSTANTS
  Found,         (* of Q, D and C, the events the trace holds (check_io_types)  *)
  PerProcess     (* io_per_process                                              *)

VARIABLES
  pending,       (* io_hash_table: <<sector, device>> -> pid and dispatch_time  *)
  ios_in_flight,
  latency, queue_depth, iops, tput,  (* of each second, sum and count           *)
  names,         (* process_hash_table: pid -> name and index of its plot       *)
  io_plots       (* how many plots there are                                    *)

iowatcher == <<pending, ios_in_flight, latency, queue_depth, iops, tput, names, io_plots>>

Unnamed == "[pid]"
NoLine == [s \in {} |-> [sum |-> 0, count |-> 0]]

IowatcherInit ==
  /\ pending = [k \in {} |-> [pid |-> NoPid, dispatch |-> 0]]
  /\ ios_in_flight = 0
  /\ latency = NoLine /\ queue_depth = NoLine /\ iops = NoLine /\ tput = NoLine
  /\ names = [p \in {} |-> [name |-> Unnamed, index |-> 0]]
  /\ io_plots = 0
-----------------------------------------------------------------------------
At(line, time) == LET s == Seconds(time)
                  IN IF s \in DOMAIN line THEN line[s] ELSE [sum |-> 0, count |-> 0]
Put(line, time, pair) == Replaced(line, Seconds(time), pair)
Plus(line, time, n) == LET p == At(line, time)
                       IN Put(line, time, [sum |-> p.sum + n, count |-> p.count + 1])
(* Sums of which the graph shows no average.                                *)
Total(line, time, n) == Put(line, time, [sum |-> At(line, time).sum + n, count |-> 1])

Key(e) == <<e.sec, e.dev>>
Without(h, k) == [x \in DOMAIN h \ {k} |-> h[x]]

(* An I/O that is there already stays as it is.                              *)
hash_queued_io(h, e) == Entered(h, Key(e), [pid |-> e.pid, dispatch |-> 0])
OnlyIfNew(h, e) == Entered(h, Key(e), [pid |-> e.pid, dispatch |-> e.time])
hash_dispatched_io(h, e) == [hash_queued_io(h, e) EXCEPT ![Key(e)].dispatch = e.time]

Lower1(n) == IF n > 0 THEN n - 1 ELSE 0

(* add_pending_io and add_completed_io: a queued I/O is waited for if it     *)
(* can be found again; a completion of what is not waited for is ignored.    *)
Queue(e) ==
  /\ e.act = "Q"
  /\ pending' = IF Found \cap {"D", "C"} # {} THEN hash_queued_io(pending, e) ELSE pending
  /\ UNCHANGED <<ios_in_flight, latency, queue_depth>>

Requeued(e) ==
  /\ e.act = "R"
  /\ ios_in_flight' = Lower1(ios_in_flight)
  /\ UNCHANGED <<pending, latency, queue_depth>>

Dispatch(e) ==
  /\ e.act = "D"
  /\ pending' = IF "C" \in Found THEN hash_dispatched_io(pending, e) ELSE Without(pending, Key(e))
  /\ ios_in_flight' = ios_in_flight + 1
  /\ queue_depth' = Plus(queue_depth, e.time, ios_in_flight + 1)
  /\ UNCHANGED latency

Completed(e) ==
  /\ e.act = "C"
  /\ IF Key(e) \in DOMAIN pending
     THEN /\ ios_in_flight' = Lower1(ios_in_flight)
          /\ latency' = IF e.time >= pending[Key(e)].dispatch
                        THEN Plus(latency, e.time, e.time - pending[Key(e)].dispatch) ELSE latency
          /\ pending' = Without(pending, Key(e))
     ELSE UNCHANGED <<ios_in_flight, latency, pending>>
  /\ UNCHANGED queue_depth

Other(e) ==
  /\ e.act \notin {"Q", "R", "D", "C"}
  /\ UNCHANGED <<pending, ios_in_flight, latency, queue_depth>>
-----------------------------------------------------------------------------
First(acts) == LET i == SelectInSeq(acts, LAMBDA a : a \in Found)
               IN IF i = 0 THEN "C" ELSE acts[i]
tput_event == First(<<"C", "D", "Q">>)
io_event == First(<<"Q", "D", "C">>)

(* add_tput and add_iop.                                                    *)
Rates(e) ==
  IF e.act = tput_event
  THEN iops' = Total(iops, e.time, 1) /\ tput' = Total(tput, e.time, e.len)
  ELSE UNCHANGED <<iops, tput>>

(* process_hash_insert: a later name replaces the earlier one, the plot is   *)
(* kept; a process that is not known yet is named for its pid.               *)
process_hash_insert(h, pid, name) ==
  Replaced(h, pid, [name |-> name, index |-> IF pid \in DOMAIN h THEN h[pid].index ELSE 0])

(* handle_notify, and get_pid_map of add_io.  Index 0 means no plot yet: the *)
(* process of the plot 0 is given another one with each of its I/Os.         *)
Processes(e) ==
  IF e.act = "name"
  THEN /\ names' = IF PerProcess THEN process_hash_insert(names, e.pid, e.name) ELSE names
       /\ UNCHANGED io_plots
  ELSE IF e.act # io_event
  THEN UNCHANGED <<names, io_plots>>
  ELSE IF ~PerProcess
  THEN io_plots' = (IF io_plots = 0 THEN 1 ELSE io_plots) /\ UNCHANGED names
  ELSE LET h == IF e.pid \in DOMAIN names THEN names
                ELSE process_hash_insert(names, e.pid, Unnamed)
           new == h[e.pid].index = 0
       IN /\ names' = IF new THEN [h EXCEPT ![e.pid].index = io_plots] ELSE h
          /\ io_plots' = IF new THEN io_plots + 1 ELSE io_plots

IowatcherStep(e) ==
  /\ Queue(e) \/ Requeued(e) \/ Dispatch(e) \/ Completed(e) \/ Other(e)
  /\ Rates(e) /\ Processes(e)
=============================================================================
