--------------------------------- MODULE Btt ---------------------------------
(***************************************************************************)
(* btt: what it keeps of each device and process while it reads the events *)
(* (btt/trace*.c, devs.c, dip_rb.c, proc.c).                               *)
(*                                                                         *)
(* The queued I/Os of a device are a search tree by start sector; as the   *)
(* I/Os in flight do not overlap but where they start alike, the tree is   *)
(* the set of them.                                                        *)
(***************************************************************************)
EXTENDS BlockIO, BttStats

CONSTANTS
  ignore_remaps,
  Interval,          (* iostat_interval                                         *)
  t_astart, t_aend   (* what is before or after is left out                     *)

ASSUME SpanAssumption == {t_astart, t_aend} \subseteq Nat

VARIABLES
  dips,     (* all_devs: device -> d_info                                      *)
  procs,    (* root_pid: pid -> the name of its p_info                          *)
  pips,     (* root_name: name -> p_info                                        *)
  avgs,     (* all_avgs, and the avgs of the devices and processes              *)
  system,   (* all_regions, p_live_root, rstats and histograms of the system    *)
  interval  (* last_start, and the time of the last interval shown              *)

btt == <<dips, procs, pips, avgs, system, interval>>

remapper_dev(dev) == dev = Mapped
NoRegions == [q |-> <<>>, c |-> <<>>]

NoDip(time) ==
  [culling |-> TRUE, start |-> time, end |-> 0, qs |-> {}, last_q |-> None,
   n_qs |-> 0, n_ds |-> 0, n_act_q |-> 0, t_act_q |-> 0, na |-> 0,
   plugged |-> FALSE, last_plug |-> 0, plugged_time |-> 0,
   nplugs |-> 0, nplugs_t |-> 0, nios_up |-> 0, nios_upt |-> 0, up_hist |-> NoHist,
   regions |-> NoRegions, lives |-> {}, q2q |-> NoSeeks, d2d |-> NoSeeks,
   q2d |-> NoPlat, d2c |-> NoPlat, q2c |-> NoPlat, q2d_hist |-> NoHist,
   rate |-> NoRate, stats |-> NoStats0, all_stats |-> NoStats0]

BttInit ==
  /\ dips = [d \in {} |-> NoDip(0)]
  /\ procs = [p \in {} |-> NoName]
  /\ pips = [n \in {} |-> NoName]
  /\ avgs = [k \in {} |-> NoAvg]
  /\ system = [regions |-> NoRegions, lives |-> {}, rate |-> NoRate, last_q |-> None,
               q_histo |-> NoHist, d_histo |-> NoHist]
  /\ interval = None
-----------------------------------------------------------------------------
(* Processes.                                                               *)

Crafted(pid) == <<pid>>      (* "pid%09u"                                       *)

(* process_alloc: a pid that is known keeps its process; the process of a    *)
(* name that is known is shared.                                            *)
ProcAlloc(p, pid, name) == Entered(p, pid, name)
PipAlloc(p, pid, name) ==
  Entered(p, name, [pid |-> pid, last_q |-> None, regions |-> NoRegions])

process_alloc(e, name) ==
  /\ procs' = ProcAlloc(procs, e.pid, name)
  /\ pips' = IF e.pid \in DOMAIN procs THEN pips ELSE PipAlloc(pips, e.pid, name)

NameOf(pid) == IF pid \in DOMAIN procs THEN procs[pid] ELSE Crafted(pid)
-----------------------------------------------------------------------------
(* iostat_check_time, for each event: at the end of an interval the          *)
(* statistics of all devices are shown.                                     *)
Ends(e) == interval # None /\ e.time - interval >= Interval
Checked(e) ==
  [d \in DOMAIN dips |->
     IF ~Ends(e) THEN dips[d]
     ELSE [dips[d] EXCEPT !.stats = dump_stats(@, e.time),
             !.all_stats = update_tot_qusz(update_idle_time(@, e.time, TRUE), e.time)]]
iostat_check_time(e) == interval' = IF interval = None \/ Ends(e) THEN e.time ELSE interval

(* The device of the event, added with its first one; all is left out until  *)
(* an I/O is queued or remapped there.                                      *)
DipOf(e) == IF e.dev \in DOMAIN dips THEN Checked(e)[e.dev] ELSE NoDip(e.time)
Culled(e) == DipOf(e).culling /\ e.act \notin {"Q", "A"}
Opened(e) ==
  [DipOf(e) EXCEPT !.culling = Culled(e), !.end = IF Culled(e) THEN @ ELSE e.time]
WithDip(e, dip) == Replaced(Checked(e), e.dev, dip)

(* Another queued I/O that starts there keeps its place.                     *)
Linked(e) ==
  ~Culled(e) /\ (e.act = "Q" => \A q \in DipOf(e).qs : q.sec # e.sec)

(* io_setup fails: only the device is changed.                               *)
NotSetUp(e) ==
  /\ ~Linked(e)
  /\ dips' = WithDip(e, Opened(e))
  /\ UNCHANGED <<procs, pips, avgs, system>>

(* io_setup succeeds: the device is updated, and the process is there.       *)
PipsOf(e) == PipAlloc(pips, e.pid, NameOf(e.pid))
SetUp(e, dip) ==
  /\ Linked(e)
  /\ dips' = WithDip(e, dip)
  /\ procs' = ProcAlloc(procs, e.pid, Crafted(e.pid))

(* The I/O the event is about: the one whose sectors hold its first.         *)
dip_find_sec(dip, sec) == {q \in dip.qs : q.sec <= sec /\ sec < q.sec + q.len}
(* The I/Os that lie in its sectors.                                        *)
dip_foreach(dip, e) == {q \in dip.qs : e.sec <= q.sec /\ q.sec + q.len <= e.sec + e.len}

Noted(dip, e, field) ==
  LET qs == dip_find_sec(dip, e.sec)
  IN [dip EXCEPT !.qs = (@ \ qs) \cup {[q EXCEPT ![field] = e.time] : q \in qs}]

Owners(avg, dev, pip) == {<<avg, "all", "all">>, <<avg, "dev", dev>>, <<avg, "pip", pip>>}
(* The average updated for each of the I/Os by the time since `step`.        *)
Each(a, avg, qs, dev, step, time) ==
  FoldSet(LAMBDA q, b : Averaged(b, Owners(avg, dev, q.pip), tdelta(q[step], time)), a, qs)
DM(avg, dm, dev) == IF remapper_dev(dev) THEN dm ELSE avg

(* What iostat shows, for the interval and for all the time: a completion    *)
(* counts once for each I/O of the request.                                 *)
Stats(dip, e, qs) ==
  LET stat(s) == CASE e.act = "G" -> iostat_getrq(s, e.time)
                   [] e.act = "D" -> iostat_issue(s, e.time, e.len)
                   [] e.act = "C" -> FoldSet(LAMBDA q, t : iostat_complete(t, q, e.time), s, qs)
                   [] OTHER -> iostat_merge(s)
  IN [dip EXCEPT !.stats = stat(@), !.all_stats = stat(@)]
Lowered(n) == IF n > 0 THEN n - 1 ELSE 0
-----------------------------------------------------------------------------
(* An I/O is queued: the times between two such events are those of the      *)
(* system, of the device and of the process.                                *)
handle_queue(e) ==
  LET d == Opened(e)
      name == NameOf(e.pid)
      q == [sec |-> e.sec, len |-> e.len, time |-> e.time, pip |-> name,
            g |-> None, s |-> None, i |-> None, m |-> None, d |-> None]
      lasts == [all |-> system.last_q, dev |-> d.last_q, pip |-> PipsOf(e)[name].last_q]
      key == [all |-> "all", dev |-> e.dev, pip |-> name]
      avg == DM("q2q", "q2q_dm", e.dev)
  IN /\ SetUp(e, [d EXCEPT !.qs = @ \cup {q}, !.last_q = e.time, !.n_qs = @ + 1,
                           !.t_act_q = @ + d.n_act_q, !.n_act_q = @ + 1,
                           !.q2q = seeki_add(@, e.sec, e.sec + e.len),
                           !.regions.q = update_range(@, e.time)])
     /\ pips' = [PipsOf(e) EXCEPT ![name].last_q = e.time,
                                  ![name].regions.q = update_range(@, e.time)]
     /\ avgs' = FoldSet(LAMBDA o, a : Averaged(a, {<<avg, o, key[o]>>}, tdelta(lasts[o], e.time)),
                        avgs, {o \in DOMAIN lasts : lasts[o] # None})
     /\ system' = [system EXCEPT !.regions.q = update_range(@, e.time), !.last_q = e.time,
                     !.q_histo = IF remapper_dev(e.dev) THEN @ ELSE Hit(@, e.len)]

trace_queue(e) == e.act = "Q" /\ (NotSetUp(e) \/ handle_queue(e))

(* An event that only tells the I/O its time.                                *)
Timed(e, act, dip, new) ==
  /\ e.act \in act
  /\ \/ NotSetUp(e)
     \/ SetUp(e, dip) /\ avgs' = new /\ pips' = PipsOf(e) /\ UNCHANGED system

trace_getrq(e) ==
  LET d == Opened(e)
      qs == dip_find_sec(d, e.sec)
  IN Timed(e, {"G"}, Stats(Noted(d, e, "g"), e, qs),
           Each(Each(avgs, "q2g", qs, e.dev, "time", e.time),
                "s2g", {q \in qs : q.s # None}, e.dev, "s", e.time))

trace_sleeprq(e) == Timed(e, {"S"}, Noted(Opened(e), e, "s"), avgs)

trace_insert(e) ==
  LET qs == dip_find_sec(Opened(e), e.sec)
  IN Timed(e, {"I"}, Noted(Opened(e), e, "i"),
           Each(avgs, "g2i", {q \in qs : q.g # None}, e.dev, "g", e.time))

trace_merge(e) ==
  LET d == Opened(e)
  IN Timed(e, {"M", "F"}, Stats([Noted(d, e, "m") EXCEPT !.n_act_q = Lowered(@)], e, {}),
           Each(avgs, "q2m", dip_find_sec(d, e.sec), e.dev, "time", e.time))

trace_requeue(e) ==
  Timed(e, {"R"}, [Opened(e) EXCEPT !.n_qs = @ + 1, !.t_act_q = @ + Opened(e).n_act_q,
                                    !.n_act_q = @ + 1], avgs)

(* The I/O is looked for on the device it came from.                         *)
trace_remap(e) ==
  /\ e.act = "A"
  /\ IF ignore_remaps THEN dips' = Checked(e) /\ UNCHANGED <<procs, pips, avgs, system>>
     ELSE Timed(e, {"A"}, Opened(e),
                IF Mapped \notin DOMAIN dips THEN avgs
                ELSE Each(avgs, "q2a_dm", dip_find_sec(dips[Mapped], e.from), Mapped,
                          "time", e.time))

trace_issue(e) ==
  LET d == Opened(e)
      qs == dip_foreach(d, e)
      i == {q \in qs : q.i # None}
      m == {q \in qs \ i : q.m # None}
      new == [d EXCEPT
        !.qs = (@ \ qs) \cup {[q EXCEPT !.d = e.time] : q \in qs},
        !.n_act_q = Lowered(@), !.n_ds = @ + 1, !.na = @ + 1,
        !.d2d = seeki_add(@, e.sec, e.sec + e.len),
        !.q2d_hist = FoldSet(LAMBDA q, h : Hit(h, q2d_histo(e.time - q.time)), @, qs),
        !.q2d = FoldSet(LAMBDA q, p : plat_x2c(p, e.time, e.time - q.time), @, qs)]
  IN /\ e.act = "D"
     /\ \/ NotSetUp(e)
        \/ /\ SetUp(e, Stats(new, e, qs))
           /\ avgs' = Each(Each(avgs, "i2d", i, e.dev, "i", e.time),
                           "m2d", m, e.dev, "m", e.time)
           /\ pips' = PipsOf(e)
           /\ system' = [system EXCEPT !.d_histo =
                           IF remapper_dev(e.dev) THEN @ ELSE Hit(@, e.len)]

(* The periods of the I/Os of a request end together, so that all of them    *)
(* become one with the one that began first.                                *)
trace_complete(e) ==
  LET d == Opened(e)
      qs == dip_foreach(d, e)
      sent == {q \in qs : q.d # None}
      name == NameOf(e.pid)
      Lives(lives) == IF sent = {} THEN lives
                      ELSE p_live_add(lives, Min({q.d : q \in sent}), e.time)
      new == [d EXCEPT
        !.qs = @ \ qs, !.na = Lowered(@), !.lives = Lives(@),
        !.regions.c = update_range(@, e.time),
        !.rate = rstat_add(@, e.time, e.len),
        !.q2c = FoldSet(LAMBDA q, p : plat_x2c(p, q.time, tdelta(q.time, e.time)), @, qs),
        !.d2c = FoldSet(LAMBDA q, p : plat_x2c(p, e.time, tdelta(q.d, e.time)), @, sent)]
  IN /\ e.act = "C"
     /\ \/ NotSetUp(e)
        \/ /\ SetUp(e, Stats(new, e, sent))
           /\ avgs' = Each(Each(Averaged(avgs, Owners("blks", e.dev, name), e.len),
                                DM("q2c", "q2c_dm", e.dev), qs, e.dev, "time", e.time),
                           "d2c", sent, e.dev, "d", e.time)
           /\ pips' = [PipsOf(e) EXCEPT ![name].regions.c = update_range(@, e.time)]
           /\ system' = [system EXCEPT !.regions.c = update_range(@, e.time),
                           !.lives = Lives(@), !.rate = rstat_add(@, e.time, e.len)]
-----------------------------------------------------------------------------
(* Plugging.  These do not make the device known.                            *)
Replugged(e, dip) ==
  /\ dips' = IF e.dev \in DOMAIN dips THEN [Checked(e) EXCEPT ![e.dev] = dip] ELSE dips
  /\ UNCHANGED <<procs, pips, avgs, system>>

trace_plug(e) ==
  /\ e.act = "P"
  /\ Replugged(e, IF DipOf(e).plugged THEN DipOf(e)
                  ELSE [DipOf(e) EXCEPT !.plugged = TRUE, !.last_plug = e.time])

unplug(dip, e) == [dip EXCEPT !.plugged = FALSE, !.plugged_time = @ + (e.time - dip.last_plug)]

trace_unplug_io(e) ==
  LET d == [DipOf(e) EXCEPT !.up_hist = Hit(@, unplug_hist(e.n))]
  IN /\ e.act = "U"
     /\ Replugged(e, IF ~d.plugged THEN d
                     ELSE unplug([d EXCEPT !.nplugs = @ + 1, !.nios_up = @ + e.n], e))

trace_unplug_timer(e) ==
  LET d == DipOf(e)
  IN /\ e.act = "T"
     /\ Replugged(e, IF ~d.plugged THEN d
                     ELSE unplug([d EXCEPT !.nplugs_t = @ + 1, !.nios_upt = @ + e.n], e))
-----------------------------------------------------------------------------
(* add_trace: of processes the name is noted; packet commands and what is    *)
(* out of the time asked for are left out.                                  *)
__add_trace(e) ==
  /\ iostat_check_time(e)
  /\ \/ trace_queue(e) \/ trace_getrq(e) \/ trace_sleeprq(e) \/ trace_insert(e)
     \/ trace_merge(e) \/ trace_requeue(e) \/ trace_remap(e) \/ trace_issue(e)
     \/ trace_complete(e) \/ trace_plug(e) \/ trace_unplug_io(e) \/ trace_unplug_timer(e)

LeftOut(e) == e.pc \/ e.time < t_astart \/ e.time > t_aend

add_trace(e) ==
  IF e.act = "name" THEN process_alloc(e, e.name) /\ UNCHANGED <<dips, avgs, system, interval>>
  ELSE IF LeftOut(e) THEN UNCHANGED btt
  ELSE __add_trace(e)
=============================================================================
