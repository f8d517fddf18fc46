------------------------------- MODULE Analysers -------------------------------
(***************************************************************************)
(* The programs that read traces of the same block I/O: blkparse, btt and  *)
(* iowatcher.  Each event of the kernel reaches all of them, or, when the  *)
(* kernel's buffers were full, none.  What they derive must agree with     *)
(* what happened, and with each other.                                     *)
(***************************************************************************)
EXTENDS IoTrack, Iowatcher, Btt

VARIABLE lost    (* how many events were lost                                   *)

analysers == <<kernel, iotrack, iowatcher, btt, lost>>

Init == KernelInit /\ IoTrackInit /\ IowatcherInit /\ BttInit /\ lost = 0

Traced ==
  /\ KernelStep
  /\ IoTrackStep(event') /\ IowatcherStep(event') /\ add_trace(event')
  /\ UNCHANGED lost

Lose ==
  /\ lost < scene.losses
  /\ KernelStep
  /\ lost' = lost + 1
  /\ UNCHANGED <<iotrack, iowatcher, btt>>

Ended == Idle /\ UNCHANGED analysers

Next == Traced \/ Lose \/ Ended
Spec == Init /\ [][Next]_analysers
-----------------------------------------------------------------------------
TypeOK ==
  /\ KernelTypeOK
  /\ shown \in Nat \cup {NoTime, Junk}
  /\ ios_in_flight \in Nat
  /\ DOMAIN dips \subseteq Devices
  /\ \A d \in Devices : depths[d].cur <= depths[d].max

Plain == \A b \in Bios : ~bio(b).mapped
NoPackets == \A b \in Bios : ~bio(b).pc
Fs(bios) == {b \in bios : ~bio(b).pc}
Places(places) == {l \in Bios : at[l] \in places}
Near(n, m, d) == n - m <= d /\ m - n <= d
Dip(d) == IF d \in DOMAIN dips THEN dips[d] ELSE NoDip(0)

(* The number of requests at the driver that blkparse prints and iowatcher   *)
(* draws is the real one, and wrong by no more than the events lost.  From a *)
(* trace without losses btt knows how many I/Os wait for the driver, and how *)
(* many are there but that it counts each requeue once too often.           *)
DepthsFollow ==
  /\ Near(depths[Lower].cur, Cardinality(In("issued")), lost)
  /\ Plain => Near(ios_in_flight, Cardinality(In("issued")), lost)
  /\ lost = 0 /\ NoPackets =>
    /\ Dip(Lower).n_act_q = Cardinality(Places({"queued", "asleep", "allocated", "waiting"}))
    /\ Dip(Lower).na = Cardinality(In("issued")) + (scene.requeues - left.requeues)

(* Without losses, what is tracked is what is in flight: in the tree of      *)
(* blkparse the requests, by the sector where they start now, and in the    *)
(* tree of btt the I/Os; and no time is printed that nobody measured.       *)
TrackedIsInFlight ==
  lost = 0 =>
    /\ DOMAIN tracks[Lower] = {StartOf(l) : l \in Fs(Places({"allocated", "waiting", "issued"}))}
    /\ {q.sec : q \in Dip(Mapped).qs} =
         {bio(b).sec : b \in {c \in Bios : bio(c).mapped /\ at[c] \notin {"new", "done"}}}
    /\ \A q \in Dip(Lower).qs : \E b \in Bios : q.sec = bio(b).sec /\ at[b] \notin {"new", "done"}
    /\ shown # Junk

AddUp(S, f(_)) == MapThenSumSet(f, S)
Total2(key) == IF key \in DOMAIN avgs THEN avgs[key].total ELSE 0
Served == {f \in finished : f.dev = Lower /\ Fs(f.bios) # {}}

(* Without losses, the times from issue to completion that iowatcher and btt *)
(* add up are those of the requests: iowatcher adds up one for each, btt     *)
(* one for each I/O of it.                                                  *)
LatenciesAgree ==
  lost = 0 =>
    /\ Plain /\ NoPackets =>
         AddUp(DOMAIN latency, LAMBDA s : latency[s].sum)
           = AddUp(Served, LAMBDA f : f.end - f.issue)
    /\ Total2(<<"d2c", "dev", Lower>>)
         = AddUp(Served, LAMBDA f : (f.end - f.issue) * Cardinality(f.bios))

(* The periods in which btt says the system had work are apart, and are      *)
(* those in which a request was at the driver, of the requests completed.   *)
LivesExact ==
  /\ Apart(system.lives)
  /\ lost = 0 => \A t \in 0..clock :
       (\E p \in system.lives : p.dt <= t /\ t <= p.ct)
       <=> \E f \in Served : f.issue <= t /\ t <= f.end

(* What blkparse counts, it counts for one process, whatever is lost: the    *)
(* table of the processes adds up to the totals of the devices.  Without     *)
(* losses, when all is done, requests issued less requeues are those         *)
(* completed, and the throughput of iowatcher is that of blkparse.           *)
TotalsAgree ==
  /\ \A c \in DOMAIN NoStats :
       AddUp(DOMAIN ppis, LAMBDA i : ppis[i].stats[c]) % Wide
         = AddUp(Devices, LAMBDA d : show_device_and_cpu_stats(d)[c]) % Wide
  /\ lost = 0 /\ Idle /\ Plain =>
       LET total == show_device_and_cpu_stats(Lower)
       IN /\ total.i - total.rq = total.c /\ total.ikb = total.ckb
          /\ total.qkb = total.ckb /\ total.q - total.m = total.c
          /\ AddUp(DOMAIN tput, LAMBDA t : tput[t].sum) = total.ckb + (IF NoPackets THEN 0 ELSE 1)
-----------------------------------------------------------------------------
(* What does not hold.                                                      *)

(* iostat.c: "nios should be the same as number of inserts and we add in     *)
(* nrqm (number of merges), which should give us the total number of IOs    *)
(* sent to the block IO layer" -- a requeued request is counted twice.      *)
IosAddUp ==
  lost = 0 /\ Idle /\ Plain /\ NoPackets =>
    Dip(Lower).all_stats.ios + Dip(Lower).all_stats.rqm = Len(scene.bios)

(* The number of requests at the driver, by which iostat tells busy from     *)
(* idle, is never negative -- with merges it is lowered once for each I/O.  *)
DriverNotNegative == lost = 0 => Dip(Lower).all_stats.dev >= 0

(* iowatcher gives each process one plot -- that of the plot 0 gets more.    *)
OnePlotEach == io_plots <= Cardinality(DOMAIN names)

(* The requests at the driver, as iowatcher counts them, with devices        *)
(* mapped, too -- the completion above lowers what no issue raised.         *)
InFlightMapped == lost = 0 => ios_in_flight = Cardinality(In("issued"))

(* No time is shown that nobody measured -- with an event lost, it is.       *)
NoJunkShown == shown # Junk
===============================================================================
