------------------------------ MODULE BttStats -------------------------------
(***************************************************************************)
(* The statistics btt keeps, as functions of their old value and of what   *)
(* is added (btt/inlines.h and one small file of btt/ each).               *)
(***************************************************************************)
EXTENDS Clock, Sequences, FiniteSetsExt, Functions

CONSTANT RangeDelta    (* range_delta: a shorter pause does not end a range       *)

None == -1      (* (__u64)-1: never                                            *)
-----------------------------------------------------------------------------
(* Averages.                                                                *)

NoAvg == [n |-> 0, min |-> 0, max |-> 0, total |-> 0]
avg_update(a, t) ==
  IF a.n = 0 THEN [n |-> 1, min |-> t, max |-> t, total |-> t]
  ELSE [n |-> a.n + 1, min |-> IF t < a.min THEN t ELSE a.min,
        max |-> IF t > a.max THEN t ELSE a.max, total |-> a.total + t]

tdelta(from, to) == IF from < to THEN to - from ELSE 1

(* The averages, by what they are about, with t added to some.               *)
Averaged(avgs, keys, t) ==
  [k \in DOMAIN avgs \cup keys |->
     LET a == IF k \in DOMAIN avgs THEN avgs[k] ELSE NoAvg
     IN IF k \in keys THEN avg_update(a, t) ELSE a]
-----------------------------------------------------------------------------
(* The ranges of time in which something happened, one after the other.     *)

update_range(ranges, time) ==
  LET last == ranges[Len(ranges)]
  IN IF ranges # <<>> /\ time < last.end THEN ranges
     ELSE IF ranges # <<>> /\ time - last.end < RangeDelta
     THEN [ranges EXCEPT ![Len(ranges)].end = time]
     ELSE Append(ranges, [start |-> time, end |-> time])
-----------------------------------------------------------------------------
(* The periods in which a device had work, from an issue to a completion.   *)

EndsInside(p, dt, ct) == (p.dt <= dt /\ dt <= p.ct) \/ (p.dt <= ct /\ ct <= p.ct)
inside(p, dt, ct) ==
  \/ p.dt <= dt /\ dt <= p.ct
  \/ p.dt <= ct /\ ct <= p.ct
  \/ dt < p.dt /\ p.ct < ct

(* What the new period touches becomes one with it.                         *)
p_live_add(lives, dt, ct) ==
  LET touched == {p \in lives : inside(p, dt, ct)}
  IN (lives \ touched) \cup {[dt |-> Min({dt} \cup {p.dt : p \in touched}),
                              ct |-> Max({ct} \cup {p.ct : p \in touched})]}

(* No two periods touch.                                                    *)
Apart(lives) == \A p, q \in lives : p # q => p.ct < q.dt \/ q.ct < p.dt
-----------------------------------------------------------------------------
(* Seeks.                                                                   *)

NoSeeks == [start |-> 0, end |-> 0, n |-> 0, total |-> 0, dists |-> [d \in {} |-> 0]]

seek_dist(s, start, end) ==
  IF \/ s.start <= start /\ start <= s.end
     \/ s.start <= end /\ end <= s.end
  THEN 0
  ELSE IF start > s.end THEN start - s.end ELSE start - s.start

Abs(n) == IF n < 0 THEN -n ELSE n

seeki_add(s, start, end) ==
  LET d == Abs(seek_dist(s, start, end))
  IN [start |-> start, end |-> end, n |-> s.n + 1, total |-> s.total + d,
      dists |-> [x \in DOMAIN s.dists \cup {d} |->
                   (IF x \in DOMAIN s.dists THEN s.dists[x] ELSE 0) + (IF x = d THEN 1 ELSE 0)]]
-----------------------------------------------------------------------------
(* I/Os and blocks of a second: what was emitted so far is the pair of a     *)
(* second and its count.                                                    *)

NoRate == [base |-> None, ios |-> 0, blks |-> 0, out |-> <<>>]
rstat_add(r, time, n) ==
  LET s == Seconds(time)
      new == r.base # None /\ s - r.base >= 1
  IN [base |-> IF r.base = None \/ new THEN s ELSE r.base,
      ios |-> IF new THEN 1 ELSE r.ios + 1,
      blks |-> IF new THEN n ELSE r.blks + n,
      out |-> IF new THEN Append(r.out, [sec |-> r.base, ios |-> r.ios]) ELSE r.out]

(* Latencies of a period of plat_freq, and the averages emitted.             *)
NoPlat == [first |-> None, last |-> None, n |-> 0, total |-> 0, out |-> 0]
plat_x2c(p, time, lat) ==
  IF p.first = None THEN [p EXCEPT !.first = time, !.last = time, !.n = 1, !.total = lat]
  ELSE IF time - p.first >= Second
  THEN [first |-> time, last |-> time, n |-> 1, total |-> lat, out |-> p.out + p.n]
  ELSE [p EXCEPT !.last = time, !.n = @ + 1, !.total = @ + lat]

(* Histograms: of Q to D, in parts of a second, and of requests unplugged.   *)
q2d_histo(lat) ==
  LET msec == (lat * 1000) \div Second
  IN Cardinality({b \in {5, 10, 25, 50, 75, 100, 250, 500, 1000} : msec >= b})
unplug_hist(n) == IF n \div 5 > 20 THEN 20 ELSE n \div 5

Hit(hist, idx) ==
  [i \in DOMAIN hist \cup {idx} |->
     (IF i \in DOMAIN hist THEN hist[i] ELSE 0) + (IF i = idx THEN 1 ELSE 0)]
NoHist == [i \in {} |-> 0]
-----------------------------------------------------------------------------
(* What iostat shows of a device, for an interval or for all the time.       *)

NoStats0 == [rqm |-> 0, ios |-> 0, sec |-> 0, wait |-> 0, svctm |-> 0, tot |-> 0,
             idle |-> 0, qusz |-> 0, dev |-> 0, qu_change |-> 0, dev_change |-> 0]

update_tot_qusz(s, now) == [s EXCEPT !.tot = @ + (now - s.qu_change) * s.qusz, !.qu_change = now]
update_idle_time(s, now, force) ==
  [s EXCEPT !.idle = IF s.dev = 0 \/ force THEN @ + (now - s.dev_change) ELSE @,
            !.dev_change = now]

iostat_getrq(s, now) == [update_tot_qusz(s, now) EXCEPT !.qusz = @ + 1]
iostat_merge(s) == [s EXCEPT !.rqm = @ + 1]
iostat_issue(s, now, n) ==
  [update_idle_time(s, now, FALSE) EXCEPT !.ios = @ + 1, !.sec = @ + n, !.dev = @ + 1]

(* Once for each I/O of the request, while the request was issued once.      *)
iostat_complete(s, q, now) ==
  LET wait == IF q.i # None THEN tdelta(q.i, now) ELSE IF q.m # None THEN tdelta(q.m, now) ELSE 0
      t == update_idle_time(update_tot_qusz(s, now), now, FALSE)
  IN [t EXCEPT !.wait = @ + wait, !.qusz = @ - 1, !.dev = @ - 1,
               !.svctm = @ + tdelta(q.time, now)]

(* __dump_stats of an interval: what is shown is counted anew.               *)
dump_stats(s, now) ==
  [update_tot_qusz(update_idle_time(s, now, TRUE), now)
     EXCEPT !.rqm = 0, !.ios = 0, !.sec = 0, !.wait = 0, !.svctm = 0, !.tot = 0, !.idle = 0]
=============================================================================
