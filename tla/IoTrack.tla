------------------------------- MODULE IoTrack -------------------------------
(***************************************************************************)
(* What blkparse derives from the sorted events (blkparse.c): the tree of  *)
(* tracked I/Os of each device and the waits printed with -t, the counts   *)
(* of a CPU and of each process with -s, and the depth of the device.      *)
(*                                                                         *)
(* An io_track is malloced and not cleared: a time not set yet is Junk.    *)
(***************************************************************************)
EXTENDS BlockIO

CONSTANTS
  HashByPid,     (* ppi_hash_by_pid: processes are told apart by pid, not name *)
  Wide           (* counters are unsigned: their values are below Wide         *)

VARIABLES
  tracks,     (* of each device, rb_track: sector -> io_track                 *)
  ppm,        (* process_pid_map: pid -> name                                 *)
  ppis,       (* the per_process_infos, newest first                          *)
  iostats,    (* of each device and CPU, io_stats                             *)
  depths,     (* of each device: cur_depth and max_depth                      *)
  reported,   (* of each device: events, first and last reported time         *)
  shown       (* the elapsed time printed with the last event                 *)

iotrack == <<tracks, ppm, ppis, iostats, depths, reported, shown>>

NoTime == -1    (* what the log functions return when there is no time         *)
Junk == -2
Unknown == "unknown"

NoStats == [c \in {"q", "qkb", "i", "ikb", "c", "ckb", "m", "mkb", "rq",
                   "ipc", "ikbpc", "rqpc", "cpc", "unplugs", "timeouts"} |-> 0]
NoTracks == [s \in {} |-> 0]

(* Completions are traced on the CPU of the interrupt.                      *)
CPUs == {"submits", "interrupted"}
cpu(e) == IF e.act = "C" THEN "interrupted" ELSE "submits"

IoTrackInit ==
  /\ tracks = [d \in Devices |-> NoTracks]
  /\ ppm = [p \in {} |-> Unknown]
  /\ ppis = <<>>
  /\ iostats = [d \in Devices |-> [c \in CPUs |-> NoStats]]
  /\ depths = [d \in Devices |-> [cur |-> 0, max |-> 0]]
  /\ reported = [d \in Devices |-> [events |-> 0, first |-> 0, last |-> 0]]
  /\ shown = NoTime
-----------------------------------------------------------------------------
(* The map of pids and the list of processes.                               *)

add_ppm_hash(map, pid, name) == Entered(map, pid, name)

(* The newest process with the pid, or with the name the pid has; 0 if none. *)
find_ppi(list, map, pid) ==
  SelectInSeq(list, LAMBDA p :
    IF HashByPid THEN p.pid = pid
                 ELSE pid \in DOMAIN map /\ map[p.pid] = map[pid])

(* Looking a process up by name notes that several pids share it.            *)
Marked(list, i, pid) ==
  IF i = 0 \/ HashByPid \/ list[i].pid = pid THEN list ELSE [list EXCEPT ![i].more = TRUE]

(* The longest wait of the process that the io_track was made for.           *)
Waited(list, map, pid, kind, elapsed) ==
  LET i == find_ppi(list, map, pid)
  IN IF i = 0 THEN list
     ELSE [Marked(list, i, pid) EXCEPT ![i].waits[kind] =
             IF elapsed = Junk \/ elapsed > @ THEN elapsed ELSE @]
-----------------------------------------------------------------------------
(* The counters.                                                            *)

(* Unsigned: a requeue of what was never counted wraps.                      *)
Minus(x, y) == (x - y) % Wide
Add(x, y) == (x + y) % Wide

account_pc(s, e) ==
  CASE e.act = "D" -> [s EXCEPT !.ipc = @ + 1, !.ikbpc = Add(@, e.len)]
    [] e.act = "R" -> [s EXCEPT !.rqpc = @ + 1, !.ikbpc = Minus(@, e.len)]
    [] e.act = "C" -> [s EXCEPT !.cpc = @ + 1]
    [] OTHER -> s

account_fs(s, e) ==
  CASE e.act = "Q" -> [s EXCEPT !.q = @ + 1, !.qkb = @ + e.len]
    [] e.act \in {"M", "F"} -> [s EXCEPT !.m = @ + 1, !.mkb = @ + e.len]
    [] e.act = "D" -> [s EXCEPT !.i = @ + 1, !.ikb = Add(@, e.len)]
    [] e.act = "R" -> [s EXCEPT !.rq = @ + 1, !.ikb = Minus(@, e.len)]
    [] e.act = "C" -> [s EXCEPT !.c = @ + 1, !.ckb = @ + e.len]
    [] e.act = "U" -> [s EXCEPT !.unplugs = @ + 1]
    [] e.act = "T" -> [s EXCEPT !.timeouts = @ + 1]
    [] OTHER -> s

account(s, e) == IF e.pc THEN account_pc(s, e) ELSE account_fs(s, e)
NotRequeues(e) == e.act \in {"D", "C"} \/ (~e.pc /\ e.act \in {"Q", "M", "F", "U", "T"})
Accounts(e) == e.act \in {"D", "R", "C"} \/ (~e.pc /\ e.act \in {"Q", "M", "F", "U", "T"})

(* find_process_io_stats, and the update of what it finds.                   *)
Accounted(list, map, e) ==
  LET i == find_ppi(list, map, e.pid)
      new == [pid |-> e.pid, stats |-> account(NoStats, e), more |-> FALSE,
              waits |-> [alloc |-> 0, dispatch |-> 0, completion |-> 0]]
  IN IF i = 0 THEN <<new>> \o list
              ELSE [Marked(list, i, e.pid) EXCEPT ![i].stats = account(@, e)]

(* The line "Total" of a device.                                             *)
show_device_and_cpu_stats(d) ==
  [c \in DOMAIN NoStats |-> MapThenSumSet(LAMBDA p : iostats[d][p][c], CPUs) % Wide]

NotRequeued(d, e) ==
  CASE e.act = "D" -> [cur |-> d.cur + 1, max |-> IF d.cur + 1 > d.max THEN d.cur + 1 ELSE d.max]
    [] e.act = "C" -> [d EXCEPT !.cur = IF @ > 0 THEN @ - 1 ELSE 0]
    [] OTHER -> d

(* "can happen if we miss traces, don't let it go below zero"               *)
Depth(d, e) ==
  CASE e.act = "D" -> [cur |-> d.cur + 1, max |-> IF d.cur + 1 > d.max THEN d.cur + 1 ELSE d.max]
    [] e.act \in {"R", "C"} -> [d EXCEPT !.cur = IF @ > 0 THEN @ - 1 ELSE 0]
    [] OTHER -> d
-----------------------------------------------------------------------------
(* The tracked I/Os.                                                        *)

is_remapper(dev) == dev = Mapped

Drop(t, s) == [x \in DOMAIN t \ {s} |-> t[x]]

(* The tree with the fields of the I/O at the sector set, which is added     *)
(* for the process if it is not there.                                      *)
find_track(t, e) ==
  Entered(t, e.sec, [pid |-> e.pid, alloc |-> Junk, queue |-> Junk, dispatch |-> Junk])

NotMoved(t, e) == t

(* Its start moves; if the tree has the new sector, the I/O is lost to it    *)
(* ("sector alias").                                                        *)
log_track_frontmerge(t, e) ==
  IF e.sec + e.len \notin DOMAIN t THEN t
  ELSE LET rest == Drop(t, e.sec + e.len)
       IN Entered(rest, e.sec, t[e.sec + e.len])

Elapsed(from, to) == IF from = Junk THEN Junk ELSE to - from

(* The tree after the event.                                                *)
Tracked(t, e) ==
  IF e.pc THEN t
  ELSE CASE e.act = "Q" /\ is_remapper(e.dev) -> [find_track(t, e) EXCEPT ![e.sec].dispatch = e.time]
         [] e.act = "G" -> [find_track(t, e) EXCEPT ![e.sec].alloc = e.time]
         [] e.act = "I" -> [find_track(t, e) EXCEPT ![e.sec].queue = e.time]
         [] e.act = "F" -> log_track_frontmerge(t, e)
         [] e.act = "D" /\ e.sec \in DOMAIN t -> [t EXCEPT ![e.sec].dispatch = e.time]
         [] e.act = "C" -> Drop(t, e.sec)
         [] OTHER -> t

(* What is printed with it.  allocation_time is tested against 0: a value    *)
(* nobody set may pass the test.                                            *)
Times(t, e) ==
  LET alloc == find_track(t, e)[e.sec].alloc
  IN IF e.pc \/ e.act \notin {"I", "D", "C"} \/ (e.act # "I" /\ e.sec \notin DOMAIN t) THEN {NoTime}
     ELSE CASE e.act = "I" -> IF alloc = Junk THEN {Junk, NoTime} ELSE {e.time - alloc}
            [] e.act = "D" -> {Elapsed(t[e.sec].queue, e.time)}
            [] e.act = "C" -> {Elapsed(t[e.sec].dispatch, e.time)}

Wait(act) == CASE act = "I" -> "alloc" [] act = "D" -> "dispatch" [] act = "C" -> "completion"
-----------------------------------------------------------------------------
(* dump_trace of an event, and show_entries_rb around it: a process that     *)
(* announces itself is only noted.                                          *)
handle_notify(e) ==
  /\ e.act = "name"
  /\ ppm' = add_ppm_hash(ppm, e.pid, e.name)
  /\ UNCHANGED <<tracks, ppis, iostats, depths, reported, shown>>

dump_trace(e) ==
  LET t == tracks[e.dev]
      first == reported[e.dev].events = 0
      adds == Accounts(e) \/ (~e.pc /\ e.act \in {"G", "I"})
      map == IF adds THEN add_ppm_hash(ppm, e.pid, Unknown) ELSE ppm
      list == IF Accounts(e) THEN Accounted(ppis, map, e) ELSE ppis
  IN /\ e.act # "name"
     /\ tracks' = [tracks EXCEPT ![e.dev] = Tracked(t, e)]
     /\ \E elapsed \in Times(t, e) :
          /\ shown' = elapsed
          /\ ppis' = IF elapsed = NoTime THEN list
                     ELSE Waited(list, map, find_track(t, e)[e.sec].pid, Wait(e.act), elapsed)
     /\ ppm' = map
     /\ iostats' = IF Accounts(e) THEN [iostats EXCEPT ![e.dev][cpu(e)] = account(@, e)]
                                  ELSE iostats
     /\ depths' = [depths EXCEPT ![e.dev] = Depth(@, e)]
     /\ reported' = [reported EXCEPT ![e.dev] =
                       [events |-> @.events + 1, last |-> e.time,
                        first |-> IF first THEN e.time ELSE @.first]]

IoTrackStep(e) == handle_notify(e) \/ dump_trace(e)
=============================================================================
