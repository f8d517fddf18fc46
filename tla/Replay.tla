-------------------------------- MODULE Replay --------------------------------
(***************************************************************************)
(* btreplay.c: the replay of recorded I/O.  For every input file one       *)
(* thread (replay_sub) submits the file's bunches as asynchronous I/Os and *)
(* another (replay_rec) reclaims the completed ones; they share a pool of  *)
(* naios control blocks, a mutex and one condition variable.  Main starts  *)
(* the iterations and waits for their ends, with counters under condition  *)
(* variables of their own; a signal asks everybody to quit.                *)
(*                                                                         *)
(* The data of a bunch is abstracted to the number of its packets, and the *)
(* stalls between bunches to arbitrary delays.  A wait whose condition is  *)
(* only changed together with a wake-up of its one kind of waiter is a     *)
(* guard; the waits on tip->cond, where a wake-up depends on send_wait and *)
(* reap_wait, are modelled as they are, spurious wake-ups included.  The   *)
(* Makefile defines NDEBUG: an assertion is a property, not a step.        *)
(***************************************************************************)
EXTENDS Integers, FiniteSets

CONSTANTS
  Files,          (* input_files                                              *)
  NAios,          (* naios: control blocks per file                           *)
  Iterations,     (* def_iterations                                           *)
  NBunches,       (* bunches in each file                                     *)
  MaxBunch,       (* bound: packets in a bunch                                *)
  MaySignal       (* may SIGINT or SIGTERM come?                              *)

ASSUME ReplayAssumption ==
  /\ IsFiniteSet(Files)
  /\ NAios \in Nat \ {0}
  /\ MaxBunch \in Nat \ {0}
  /\ Iterations \in Nat
  /\ NBunches \in Nat
  /\ MaySignal \in BOOLEAN

nfiles == Cardinality(Files)

VARIABLES
  main,            (* what main is about to do                                *)
  iter,            (* main's loop variable                                    *)
  sub,             (* what each submitting thread is about to do              *)
  rec,             (* what each reclaiming thread is about to do              *)
  iterations,      (* tip->iterations                                         *)
  bunch,           (* bunches read from the file in this iteration            *)
  todo,            (* packets of the bunch not submitted yet                  *)
  ntodo,           (* packets of the submission in hand                       *)
  naios_free, naios_out, send_wait, reap_wait, send_done, reap_done,
  inflight,        (* the kernel's part: submitted and not delivered          *)
  asked,           (* reclaim_ios' naios_out                                  *)
  ndone,           (* events taken from the kernel, not reclaimed yet         *)
  n_replays_ready, n_iters_done, n_replays_done, n_reclaims_done, iter_start,
  signal_done

pool == <<naios_free, naios_out, send_wait, reap_wait>>
counts == <<n_replays_ready, n_iters_done, n_replays_done, n_reclaims_done,
            iter_start>>
progress == <<iterations, bunch, todo, ntodo>>
events == <<inflight, asked, ndone>>
vars == <<main, iter, sub, rec, progress, pool, send_done, reap_done, events,
          counts, signal_done>>

Init ==
  /\ main = "ready"
  /\ iter = 0
  /\ sub = [f \in Files |-> "open"]
  /\ rec = [f \in Files |-> "check"]
  /\ iterations = [f \in Files |-> Iterations]
  /\ bunch = [f \in Files |-> 0]
  /\ todo = [f \in Files |-> 0]
  /\ ntodo = [f \in Files |-> 0]
  /\ naios_free = [f \in Files |-> NAios]
  /\ naios_out = [f \in Files |-> 0]
  /\ send_wait = [f \in Files |-> FALSE]
  /\ reap_wait = [f \in Files |-> FALSE]
  /\ send_done = [f \in Files |-> FALSE]
  /\ reap_done = [f \in Files |-> FALSE]
  /\ inflight = [f \in Files |-> 0]
  /\ asked = [f \in Files |-> 0]
  /\ ndone = [f \in Files |-> 0]
  /\ n_replays_ready = 0
  /\ n_iters_done = 0
  /\ n_replays_done = 0
  /\ n_reclaims_done = 0
  /\ iter_start = 0
  /\ signal_done = FALSE

is_send_done(f) == signal_done \/ send_done[f]

ReapSentAll(f)  == send_done[f]
is_reap_done(f) == send_done[f] /\ naios_out[f] = 0

SubAt(f, label)   == sub[f] = label
SubGoto(f, label) == sub' = [sub EXCEPT ![f] = label]
RecGoto(f, label) == rec' = [rec EXCEPT ![f] = label]
Minimum(a, b) == IF a < b THEN a ELSE b

-----------------------------------------------------------------------------
(* replay_sub                                                               *)

(* The device is open: set_replay_ready.                                    *)
SetReplayReady(f) ==
  /\ SubAt(f, "open")
  /\ n_replays_ready' = n_replays_ready + 1
  /\ SubGoto(f, "loop")
  /\ UNCHANGED <<main, iter, rec, progress, pool, send_done, reap_done, events,
                 n_iters_done, n_replays_done, n_reclaims_done, iter_start,
                 signal_done>>

(* The outer loop's condition, which counts the iterations down.            *)
NextIteration(f) ==
  /\ SubAt(f, "loop")
  /\ IF is_send_done(f)
     THEN SubGoto(f, "finish") /\ UNCHANGED iterations
     ELSE IF iterations[f] = 0
     THEN SubGoto(f, "finish") /\ iterations' = [iterations EXCEPT ![f] = -1]
     ELSE SubGoto(f, "iter_start") /\ iterations' = [iterations EXCEPT ![f] = @ - 1]
  /\ UNCHANGED <<main, iter, rec, bunch, todo, ntodo, pool, send_done, reap_done,
                 events, counts, signal_done>>

(* wait_iter_start takes one of the nfiles tokens of start_iter.            *)
WaitIterStart(f) ==
  /\ SubAt(f, "iter_start")
  /\ iter_start # 0
  /\ iter_start' = iter_start - 1
  /\ SubGoto(f, "bunch")
  /\ UNCHANGED <<main, iter, rec, progress, pool, send_done, reap_done, events,
                 n_replays_ready, n_iters_done, n_replays_done, n_reclaims_done,
                 signal_done>>

(* next_bunch, or the end of the file.                                      *)
NextBunch(f) ==
  /\ SubAt(f, "bunch")
  /\ IF is_send_done(f) \/ bunch[f] = NBunches
     THEN SubGoto(f, "iter_done") /\ UNCHANGED <<bunch, todo>>
     ELSE /\ \E n \in 1..MaxBunch : todo' = [todo EXCEPT ![f] = n]
          /\ bunch' = [bunch EXCEPT ![f] = @ + 1]
          /\ SubGoto(f, "process")
  /\ UNCHANGED <<main, iter, rec, iterations, ntodo, pool, send_done, reap_done,
                 events, counts, signal_done>>

(* process_bunch's loop condition.                                          *)
ProcessBunch(f) ==
  /\ SubAt(f, "process")
  /\ SubGoto(f, IF is_send_done(f) \/ todo[f] = 0 THEN "bunch" ELSE "nfree")
  /\ UNCHANGED <<main, iter, rec, progress, pool, send_done, reap_done, events,
                 counts, signal_done>>

(* What process_bunch submits next.                                         *)
Batch(f)     == Minimum(naios_free[f], todo[f])

(* nfree_current: wait for a free block, or give up with 0 when it is time  *)
(* to quit.                                                                 *)
NfreeCurrent(f) ==
  /\ SubAt(f, "nfree")
  /\ IF ~is_send_done(f) /\ naios_free[f] = 0
     THEN /\ send_wait' = [send_wait EXCEPT ![f] = TRUE]
          /\ SubGoto(f, "nfree_wait")
          /\ UNCHANGED ntodo
     ELSE /\ ntodo' = [ntodo EXCEPT ![f] = IF is_send_done(f) THEN 0
                                                                 ELSE Batch(f)]
          /\ SubGoto(f, "map")
          /\ UNCHANGED send_wait
  /\ UNCHANGED <<main, iter, rec, iterations, bunch, todo, naios_free, naios_out,
                 reap_wait, send_done, reap_done, events, counts, signal_done>>

(* iocbs_map moves the blocks from free_iocbs to used_iocbs.                *)
MapBunch(f) == todo[f]
MapBatch(f) == ntodo[f]

IocbsMap(f) ==
  /\ SubAt(f, "map")
  /\ naios_free' = [naios_free EXCEPT ![f] = @ - MapBatch(f)]
  /\ SubGoto(f, "submit")
  /\ UNCHANGED <<main, iter, rec, progress, naios_out, send_wait, reap_wait,
                 send_done, reap_done, events, counts, signal_done>>

(* io_submit: from here on the kernel may complete the I/Os, although       *)
(* naios_out does not count them yet.                                       *)
IoSubmit(f) ==
  /\ SubAt(f, "submit")
  /\ inflight' = [inflight EXCEPT ![f] = @ + ntodo[f]]
  /\ SubGoto(f, IF ntodo[f] = 0 THEN "process" ELSE "count")
  /\ UNCHANGED <<main, iter, rec, progress, pool, send_done, reap_done, asked,
                 ndone, counts, signal_done>>

(* The submission is counted, and a reclaimer that waits for it is woken.   *)
ForgetWaiter(f)  == UNCHANGED <<reap_wait, rec>>
WakeReclaimer(f) ==
  /\ reap_wait' = [reap_wait EXCEPT ![f] = FALSE]
  /\ IF reap_wait[f] /\ rec[f] = "waiting" THEN RecGoto(f, "lock")
                                           ELSE UNCHANGED rec

CountOut(f) ==
  /\ SubAt(f, "count")
  /\ naios_out' = [naios_out EXCEPT ![f] = @ + ntodo[f]]
  /\ WakeReclaimer(f)
  /\ todo' = [todo EXCEPT ![f] = @ - ntodo[f]]
  /\ SubGoto(f, "process")
  /\ UNCHANGED <<main, iter, iterations, bunch, ntodo, naios_free, send_wait,
                 send_done, reap_done, events, counts, signal_done>>

(* set_iter_done, then reset_input_file.                                    *)
SetIterDone(f) ==
  /\ SubAt(f, "iter_done")
  /\ n_iters_done' = n_iters_done + 1
  /\ bunch' = [bunch EXCEPT ![f] = 0]
  /\ SubGoto(f, "loop")
  /\ UNCHANGED <<main, iter, rec, iterations, todo, ntodo, pool, send_done,
                 reap_done, events, n_replays_ready, n_replays_done,
                 n_reclaims_done, iter_start, signal_done>>

(* send_done = 1: nobody is woken.                                          *)
SendDone(f) ==
  /\ SubAt(f, "finish")
  /\ send_done' = [send_done EXCEPT ![f] = TRUE]
  /\ SubGoto(f, "replay_done")
  /\ UNCHANGED <<main, iter, rec, progress, pool, reap_done, events, counts,
                 signal_done>>

SetReplayDone(f) ==
  /\ SubAt(f, "replay_done")
  /\ n_replays_done' = n_replays_done + 1
  /\ SubGoto(f, "end")
  /\ UNCHANGED <<main, iter, rec, progress, pool, send_done, reap_done, events,
                 n_replays_ready, n_iters_done, n_reclaims_done, iter_start,
                 signal_done>>

SpuriousWakeSub(f) ==
  /\ SubAt(f, "nfree_wait")
  /\ SubGoto(f, "nfree")
  /\ UNCHANGED <<main, iter, rec, progress, pool, send_done, reap_done, events,
                 counts, signal_done>>

Submit(f) == \/ SetReplayReady(f) \/ NextIteration(f) \/ WaitIterStart(f)
             \/ NextBunch(f) \/ ProcessBunch(f) \/ NfreeCurrent(f) \/ IocbsMap(f)
             \/ IoSubmit(f) \/ CountOut(f) \/ SetIterDone(f) \/ SendDone(f)
             \/ SetReplayDone(f)

-----------------------------------------------------------------------------
(* replay_rec                                                               *)

RecAt(f, label) == rec[f] = label

(* reap_wait_aios: is_reap_done, read without the mutex.                    *)
ReapDone(f) ==
  /\ RecAt(f, "check")
  /\ RecGoto(f, IF is_reap_done(f) THEN "finish" ELSE "lock")
  /\ UNCHANGED <<main, iter, sub, progress, pool, send_done, reap_done, events,
                 counts, signal_done>>

(* ... and its wait for outstanding I/Os, which looks at naios_out alone.   *)
ReapWait(f) ==
  /\ RecAt(f, "lock")
  /\ IF naios_out[f] = 0
     THEN /\ reap_wait' = [reap_wait EXCEPT ![f] = TRUE]
          /\ RecGoto(f, "waiting")
          /\ UNCHANGED asked
     ELSE /\ asked' = [asked EXCEPT ![f] = naios_out[f]]
          /\ RecGoto(f, "events")
          /\ UNCHANGED reap_wait
  /\ UNCHANGED <<main, iter, sub, progress, naios_free, naios_out, send_wait,
                 send_done, reap_done, inflight, ndone, counts, signal_done>>

SpuriousWakeRec(f) ==
  /\ RecAt(f, "waiting")
  /\ RecGoto(f, "lock")
  /\ UNCHANGED <<main, iter, sub, progress, pool, send_done, reap_done, events,
                 counts, signal_done>>

(* io_getevents: at least one and at most naios_out events.                 *)
GetEvents(f) ==
  /\ RecAt(f, "events")
  /\ \E n \in 1..Minimum(inflight[f], asked[f]) :
       /\ ndone' = [ndone EXCEPT ![f] = n]
       /\ inflight' = [inflight EXCEPT ![f] = @ - n]
  /\ RecGoto(f, "reclaim")
  /\ UNCHANGED <<main, iter, sub, progress, pool, send_done, reap_done, asked,
                 counts, signal_done>>

(* The blocks return to free_iocbs; a submitter that waits is woken.        *)
StillOut(f) == Minimum(asked[f], naios_out[f] - ndone[f])

WakeNobody(f)    == UNCHANGED <<send_wait, sub>>
WakeSubmitter(f) ==
  /\ send_wait' = [send_wait EXCEPT ![f] = FALSE]
  /\ IF send_wait[f] /\ SubAt(f, "nfree_wait") THEN SubGoto(f, "nfree")
                                              ELSE UNCHANGED sub

Reclaim(f) ==
  /\ RecAt(f, "reclaim")
  /\ naios_free' = [naios_free EXCEPT ![f] = @ + ndone[f]]
  /\ naios_out' = [naios_out EXCEPT ![f] = @ - ndone[f]]
  /\ asked' = [asked EXCEPT ![f] = StillOut(f)]
  /\ ndone' = [ndone EXCEPT ![f] = 0]
  /\ WakeSubmitter(f)
  /\ RecGoto(f, IF asked'[f] # 0 THEN "events" ELSE "check")
  /\ UNCHANGED <<main, iter, progress, reap_wait, send_done, reap_done, inflight,
                 counts, signal_done>>

SetReclaimDone(f) ==
  /\ RecAt(f, "finish")
  /\ reap_done' = [reap_done EXCEPT ![f] = TRUE]
  /\ n_reclaims_done' = n_reclaims_done + 1
  /\ RecGoto(f, "end")
  /\ UNCHANGED <<main, iter, sub, progress, pool, send_done, events,
                 n_replays_ready, n_iters_done, n_replays_done, iter_start,
                 signal_done>>

Reap(f) == \/ ReapDone(f) \/ ReapWait(f) \/ GetEvents(f) \/ Reclaim(f)
           \/ SetReclaimDone(f)

-----------------------------------------------------------------------------
(* main                                                                     *)

WaitReplaysReady ==
  /\ main = "ready"
  /\ n_replays_ready >= nfiles
  /\ n_replays_ready' = 0
  /\ main' = "loop"
  /\ UNCHANGED <<iter, sub, rec, progress, pool, send_done, reap_done, events,
                 n_iters_done, n_replays_done, n_reclaims_done, iter_start,
                 signal_done>>

(* start_iter hands out one token for each file.                            *)
StartIter ==
  /\ main = "loop"
  /\ IF iter < Iterations
     THEN /\ iter_start' = nfiles
          /\ main' = "iters"
     ELSE /\ main' = "replays"
          /\ UNCHANGED iter_start
  /\ UNCHANGED <<iter, sub, rec, progress, pool, send_done, reap_done, events,
                 n_replays_ready, n_iters_done, n_replays_done, n_reclaims_done,
                 signal_done>>

SomeIterDone == n_iters_done > 0
ItersDone    == n_iters_done >= nfiles

WaitItersDone ==
  /\ main = "iters"
  /\ ItersDone
  /\ n_iters_done' = 0
  /\ iter' = iter + 1
  /\ main' = "loop"
  /\ UNCHANGED <<sub, rec, progress, pool, send_done, reap_done, events,
                 n_replays_ready, n_replays_done, n_reclaims_done, iter_start,
                 signal_done>>

WaitReplaysDone ==
  /\ main = "replays"
  /\ n_replays_done >= nfiles
  /\ n_replays_done' = 0
  /\ main' = "reclaims"
  /\ UNCHANGED <<iter, sub, rec, progress, pool, send_done, reap_done, events,
                 n_replays_ready, n_iters_done, n_reclaims_done, iter_start,
                 signal_done>>

WaitReclaimsDone ==
  /\ main = "reclaims"
  /\ n_reclaims_done >= nfiles
  /\ n_reclaims_done' = 0
  /\ main' = "release"
  /\ UNCHANGED <<iter, sub, rec, progress, pool, send_done, reap_done, events,
                 n_replays_ready, n_iters_done, n_replays_done, iter_start,
                 signal_done>>

(* tip_release, after the joins.                                            *)
Releasable(f) == send_done[f] /\ reap_done[f] /\ naios_free[f] = NAios

TipRelease ==
  /\ main = "release"
  /\ \A f \in Files : SubAt(f, "end") /\ RecAt(f, "end")
  /\ main' = "exit"
  /\ UNCHANGED <<iter, sub, rec, progress, pool, send_done, reap_done, events,
                 counts, signal_done>>

MainStep == \/ WaitReplaysReady \/ StartIter \/ WaitItersDone
            \/ WaitReplaysDone \/ WaitReclaimsDone \/ TipRelease

(* SIGINT or SIGTERM: set_signal_done.                                      *)
SetSignalDone ==
  /\ MaySignal /\ ~signal_done /\ main # "exit"
  /\ signal_done' = TRUE
  /\ UNCHANGED <<main, iter, sub, rec, progress, pool, send_done, reap_done,
                 events, counts>>

Terminated == main = "exit" /\ UNCHANGED vars

Next == \/ \E f \in Files : \/ Submit(f) \/ SpuriousWakeSub(f)
                            \/ Reap(f) \/ SpuriousWakeRec(f)
        \/ MainStep \/ SetSignalDone \/ Terminated

Spec == Init /\ [][Next]_vars

(* Every thread runs, and the kernel completes what it was given.           *)
Fairness ==
  /\ WF_vars(MainStep)
  /\ \A f \in Files : /\ WF_vars(Submit(f))
                      /\ WF_vars(Reap(f))

FairSpec == Spec /\ Fairness

-----------------------------------------------------------------------------
InIteration == {"bunch", "process", "nfree", "nfree_wait", "map", "submit",
                "count", "iter_done"}

TypeOK ==
  /\ main \in {"ready", "loop", "iters", "replays", "reclaims", "release", "exit"}
  /\ iter \in 0..Iterations
  /\ sub \in [Files -> InIteration \cup {"open", "loop", "iter_start", "finish",
                                         "replay_done", "end"}]
  /\ rec \in [Files -> {"check", "lock", "waiting", "events", "reclaim",
                        "finish", "end"}]
  /\ iterations \in [Files -> -1..Iterations]
  /\ bunch \in [Files -> 0..NBunches]
  /\ todo \in [Files -> 0..MaxBunch]
  /\ ntodo \in [Files -> 0..NAios]
  /\ naios_free \in [Files -> 0..NAios]
  /\ naios_out \in [Files -> 0..NAios]
  /\ inflight \in [Files -> 0..NAios]
  /\ asked \in [Files -> 0..NAios]
  /\ ndone \in [Files -> 0..NAios]
  /\ send_wait \in [Files -> BOOLEAN]
  /\ reap_wait \in [Files -> BOOLEAN]
  /\ send_done \in [Files -> BOOLEAN]
  /\ reap_done \in [Files -> BOOLEAN]
  /\ n_replays_ready \in Nat /\ n_replays_done \in Nat /\ n_reclaims_done \in Nat
  /\ n_iters_done \in Nat /\ iter_start \in Nat
  /\ signal_done \in BOOLEAN

(* Every control block is on the free list, counted as outstanding, or in  *)
(* the hands of a submission that is not counted yet; and every I/O the    *)
(* kernel holds or has delivered is outstanding or about to be counted.    *)
Uncounted(f) == IF sub[f] \in {"submit", "count"} THEN ntodo[f] ELSE 0
Submitted(f) == IF sub[f] = "count" THEN ntodo[f] ELSE 0

Conserved(f) ==
  /\ naios_free[f] + naios_out[f] + Uncounted(f) = NAios
  /\ inflight[f] + ndone[f] = naios_out[f] + Submitted(f)

AiosConserved == \A f \in Files : Conserved(f)

(* The two threads of a file never wait for each other on tip->cond.       *)
NeverBothWait == \A f \in Files : ~(sub[f] = "nfree_wait" /\ rec[f] = "waiting")

(* reclaim_ios goes to io_getevents, which blocks, only while the kernel   *)
(* has at least one I/O of this context: the short cut is right.           *)
EventsExist == \A f \in Files : rec[f] = "events" => inflight[f] > 0

(* The tokens of an iteration: those not taken, the threads that hold one  *)
(* and those that gave it back add up to nfiles until main moves on, so    *)
(* start_iter's assertion and the bounds in __set_cv hold.                 *)
TokensConserved ==
  iter_start + n_iters_done + Cardinality({f \in Files : sub[f] \in InIteration})
    = IF main = "iters" THEN nfiles ELSE 0

(* rem_input_files runs after the threads: tip_release's assertions hold.  *)
ReleaseSafe == main = "release" => \A f \in Files : Releasable(f)

(* What the proofs need beside: for each file, what its two threads' places *)
(* say of the pool, of the kernel's part and of the flags.                 *)
SubInv(f) ==
  /\ sub[f] \in {"submit", "count"} => ntodo[f] <= todo[f]
  /\ sub[f] = "map" => ntodo[f] <= todo[f] /\ ntodo[f] <= naios_free[f]
  /\ sub[f] = "nfree_wait" => send_wait[f] /\ naios_free[f] = 0
  /\ sub[f] \notin {"finish", "replay_done", "end"} => iterations[f] >= 0
  /\ send_done[f] => sub[f] \in {"replay_done", "end"}

RecInv(f) ==
  /\ rec[f] # "reclaim" => ndone[f] = 0
  /\ rec[f] = "reclaim" => ndone[f] \in 1..asked[f]
  /\ rec[f] \in {"events", "reclaim"} => asked[f] \in 1..naios_out[f]
  /\ rec[f] = "waiting" => reap_wait[f] /\ naios_out[f] = 0
  /\ rec[f] \in {"finish", "end"} => send_done[f] /\ naios_out[f] = 0
  /\ reap_done[f] <=> rec[f] = "end"

FileInv ==
  /\ main = "iters" => iter < Iterations
  /\ \A f \in Files : SubInv(f) /\ RecInv(f)

(* The reclaimers that ended and the counter main waits on.                *)
ReclaimsInv ==
  IF main \in {"release", "exit"}
  THEN \A f \in Files : rec[f] = "end"
  ELSE n_reclaims_done = Cardinality({f \in Files : rec[f] = "end"})

(* A submitter that waits for a free block gets one.                       *)
NotStarved ==
  \A f \in Files : sub[f] = "nfree_wait" ~> sub[f] = "map"

(* btreplay.c on reap_wait_aios: "Will return 0 if we are done": once the  *)
(* sender is done and nothing is out, the reclaimer ends.                  *)
ReclaimerEnds == \A f \in Files : is_reap_done(f) ~> rec[f] = "end"

(* btreplay.c on n_iters_done: "Counts number of replay threads done one   *)
(* iteration": while main waits for one iteration no thread is in a later. *)
IterationsInStep ==
  main = "iters" =>
    \A f \in Files : sub[f] \in InIteration => Iterations - iterations[f] = iter + 1

(* process_bunch: assert(0 < ntodo && ntodo <= naios).                     *)
SomethingToDo == \A f \in Files : sub[f] = "map" => ntodo[f] \in 1..NAios

(* btreplay.c on signal_done: "Signal'ed, need to quit": main does not go  *)
(* on with the iterations.                                                 *)
SignalQuits == signal_done ~> main \notin {"loop", "iters"}
=============================================================================
