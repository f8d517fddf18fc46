------------------------------- MODULE Tracers -------------------------------
(***************************************************************************)
(* The life cycle of the tracing threads of blktrace.c: the main thread    *)
(* (run_tracers) starts one tracer per CPU, waits until all are ready,     *)
(* releases them, switches the kernel's tracing on, and later stops, joins *)
(* and frees them; a signal handler asks for the stop.  Main and tracers   *)
(* synchronise with mt_mutex, mt_cond and three counters.                  *)
(*                                                                         *)
(* Two programs share this code.  In server-proto/ the handler sets `done` *)
(* and calls stop_tracers, and main tears down; in valtio_server/ the      *)
(* handler itself runs the whole of exit_tracing and calls exit, so that   *)
(* main never resumes.  `use` says which of them runs, and how.            *)
(*                                                                         *)
(* The trace data is abstracted to the number of unread sub-buffers in    *)
(* each CPU's relay buffer; its way to the output is module TraceQueue.    *)
(***************************************************************************)
EXTENDS Integers, FiniteSets

CONSTANTS
  NCpus,            (* ncpus: tracers are started for CPUs 1..NCpus           *)
  MaxRelay,         (* buf_nr: a CPU's relay buffer, in sub-buffers           *)
  MaxSignals,       (* bound: signals delivered in a behaviour                *)
  Uses              (* the ways in which the programs are used                *)

(* A use: whether buffers go through main (use_tracer_devpaths()), whether   *)
(* it is valtio_server, whose handler tears down, whether a signal may come *)
(* before tracing was switched on, and whether pthread_create or a tracer's *)
(* open_ios may fail.                                                       *)
Use == [piped : BOOLEAN, tears_down : BOOLEAN, early : BOOLEAN, fails : BOOLEAN]

ASSUME TracersAssumption ==
  /\ NCpus \in Nat \ {0}
  /\ MaxRelay \in Nat \ {0}
  /\ MaxSignals \in Nat
  /\ Uses \subseteq Use

Cpus     == 1..NCpus
Contexts == {"main", "handler"}   (* main's stack, and the handler's above it *)
Nobody   == 0
Owner(c) == IF c = "main" THEN -1 ELSE -2

VARIABLES
  use,              (* fixed by the options, the program and its environment  *)
  mpc,              (* what each context is about to do                       *)
  tpc,              (* what each tracer is about to do                        *)
  cpu,              (* start_tracers' loop variable                           *)
  todo,             (* stop_tracers: tracers a context has yet to flag        *)
  tracers,          (* the tracers list                                       *)
  freed,            (* struct tracers released by del_tracers                 *)
  is_done,          (* tp->is_done                                            *)
  done,
  tracers_run,
  nthreads_running,
  nthreads_leaving,
  nthreads_error,
  mt_mutex,         (* who holds it: Nobody, a context or a CPU               *)
  buts,             (* the kernel traces: between BLKTRACESTART and -STOP     *)
  relay,            (* unread sub-buffers in each CPU's relay buffer          *)
  signals           (* signals delivered so far                               *)

counters == <<nthreads_running, nthreads_leaving, nthreads_error>>
vars == <<use, mpc, tpc, cpu, todo, tracers, freed, is_done, done, tracers_run,
          counters, mt_mutex, buts, relay, signals>>

(* A tracer's stages.  Between tracer_signal_ready(Th_running) and the end  *)
(* it is one of Running; the two Ended ones have returned from thread_main. *)
Waiting == {"unblock", "towait", "blocked"}
Running == Waiting \cup {"poll", "drain", "leaving", "left"}
Ended   == {"left", "failed"}

Exited == "exit" \in {mpc[c] : c \in Contexts}

(* A context runs when it is on top of the stack: main is suspended for as  *)
(* long as the handler has not returned.                                    *)
Runs(c) == ~Exited /\ (c = "main" => mpc["handler"] = "idle")

At(c, label)   == Runs(c) /\ mpc[c] = label
Goto(c, label) == mpc' = [mpc EXCEPT ![c] = label]
TGoto(t, label) == tpc' = [tpc EXCEPT ![t] = label]

Init ==
  /\ use \in Uses
  /\ mpc = [c \in Contexts |-> IF c = "main" THEN "create" ELSE "idle"]
  /\ tpc = [t \in Cpus |-> "none"]
  /\ cpu = 1
  /\ todo = [c \in Contexts |-> {}]
  /\ tracers = {}
  /\ freed = {}
  /\ is_done = [t \in Cpus |-> FALSE]
  /\ done = FALSE
  /\ tracers_run = FALSE
  /\ nthreads_running = 0
  /\ nthreads_leaving = 0
  /\ nthreads_error = 0
  /\ mt_mutex = Nobody
  /\ buts = FALSE
  /\ relay = [t \in Cpus |-> 0]
  /\ signals = 0

-----------------------------------------------------------------------------
(* The condition variable.  Main waits on mt_cond with a timeout, tracers   *)
(* without one.  A signal wakes one waiter, whichever; main re-reads the    *)
(* counters after 50 ms whether it was woken or not, so that only the       *)
(* tracers' waits are part of the state.                                    *)

Blocked == {t \in Cpus : tpc[t] = "blocked"}

MainMayWait == \E c \in Contexts : mpc[c] \in {"ready", "departure"}

(* tpc after thread t, at the end of its critical section, goes to `label`  *)
(* and signals mt_cond.                                                     *)
SignalCond(t, label) ==
  \E woken \in SUBSET Blocked :
    /\ Cardinality(woken) <= 1
    /\ woken = {} => (Blocked = {} \/ MainMayWait)
    /\ tpc' = [u \in Cpus |-> IF u = t THEN label
                              ELSE IF u \in woken THEN "unblock" ELSE tpc[u]]

BroadcastCond ==
  tpc' = [u \in Cpus |-> IF u \in Blocked THEN "unblock" ELSE tpc[u]]

-----------------------------------------------------------------------------
(* The tracers: thread_main.                                                *)

(* lock_on_cpu and open_ios, either of which may fail.                      *)
Open(t) ==
  /\ tpc[t] = "open"
  /\ \/ TGoto(t, "ready")
     \/ use.fails /\ TGoto(t, "error")
  /\ UNCHANGED <<use, mpc, cpu, todo, tracers, freed, is_done, done,
                 tracers_run, counters, mt_mutex, buts, relay, signals>>

(* tracer_signal_ready(tp, Th_running, 0).                                  *)
SignalRunning(t) ==
  /\ tpc[t] = "ready"
  /\ mt_mutex = Nobody
  /\ nthreads_running' = nthreads_running + 1
  /\ SignalCond(t, "unblock")
  /\ UNCHANGED <<use, mpc, cpu, todo, tracers, freed, is_done, done,
                 tracers_run, nthreads_leaving, nthreads_error, mt_mutex, buts,
                 relay, signals>>

(* tracer_signal_ready(tp, Th_error, ret).                                  *)
SignalError(t) ==
  /\ tpc[t] = "error"
  /\ mt_mutex = Nobody
  /\ nthreads_error' = nthreads_error + 1
  /\ SignalCond(t, "failed")
  /\ UNCHANGED <<use, mpc, cpu, todo, tracers, freed, is_done, done,
                 tracers_run, nthreads_running, nthreads_leaving, mt_mutex,
                 buts, relay, signals>>

(* tracer_wait_unblock, up to and including the evaluation of the loop's    *)
(* condition: a tracer that has to wait keeps the mutex until it waits.     *)
WaitUnblock(t) ==
  /\ tpc[t] = "unblock"
  /\ mt_mutex = Nobody
  /\ IF is_done[t] \/ tracers_run
     THEN TGoto(t, "poll") /\ UNCHANGED mt_mutex
     ELSE TGoto(t, "towait") /\ mt_mutex' = t
  /\ UNCHANGED <<use, mpc, cpu, todo, tracers, freed, is_done, done,
                 tracers_run, counters, buts, relay, signals>>

(* pthread_cond_wait gives the mutex up and sleeps in one step.             *)
CondWait(t) ==
  /\ tpc[t] = "towait"
  /\ TGoto(t, "blocked")
  /\ mt_mutex' = Nobody
  /\ UNCHANGED <<use, mpc, cpu, todo, tracers, freed, is_done, done,
                 tracers_run, counters, buts, relay, signals>>

(* handle_pfds: one read takes one sub-buffer, if the relay holds any.      *)
Read(t) == relay' = [relay EXCEPT ![t] = IF @ > 0 THEN @ - 1 ELSE 0]

(* One turn of the poll loop, left when the tracer sees is_done.            *)
Poll(t) ==
  /\ tpc[t] = "poll"
  /\ IF is_done[t]
     THEN TGoto(t, "drain") /\ UNCHANGED relay
     ELSE Read(t) /\ UNCHANGED tpc
  /\ UNCHANGED <<use, mpc, cpu, todo, tracers, freed, is_done, done,
                 tracers_run, counters, mt_mutex, buts, signals>>

(* "pull data until we get a short read", then close_ios.                   *)
AfterDrain(t) == IF relay[t] > 0 THEN "drain" ELSE "leaving"
Drain(t) ==
  /\ tpc[t] = "drain"
  /\ Read(t)
  /\ TGoto(t, AfterDrain(t))
  /\ UNCHANGED <<use, mpc, cpu, todo, tracers, freed, is_done, done,
                 tracers_run, counters, mt_mutex, buts, signals>>

(* tracer_signal_ready(tp, Th_leaving, 0), the thread's last step.          *)
SignalLeaving(t) ==
  /\ tpc[t] = "leaving"
  /\ mt_mutex = Nobody
  /\ nthreads_leaving' = nthreads_leaving + 1
  /\ SignalCond(t, "left")
  /\ UNCHANGED <<use, mpc, cpu, todo, tracers, freed, is_done, done,
                 tracers_run, nthreads_running, nthreads_error, mt_mutex, buts,
                 relay, signals>>

-----------------------------------------------------------------------------
(* The kernel, external: it fills sub-buffers while tracing is on, and      *)
(* drops (and counts) what it cannot store.                                 *)
Produce(t) ==
  /\ buts
  /\ relay[t] < MaxRelay
  /\ relay' = [relay EXCEPT ![t] = @ + 1]
  /\ UNCHANGED <<use, mpc, tpc, cpu, todo, tracers, freed, is_done, done,
                 tracers_run, counters, mt_mutex, buts, signals>>

-----------------------------------------------------------------------------
(* Main, and the handler where it runs the same functions.                  *)

(* start_tracer: pthread_create, which may fail and ends the loop.          *)
MoreCpus == cpu <= NCpus
CreateThread ==
  /\ At("main", "create")
  /\ \/ /\ MoreCpus
        /\ TGoto(cpu, "open")
        /\ Goto("main", "list")
     \/ /\ ~MoreCpus \/ use.fails
        /\ Goto("main", "ready")
        /\ UNCHANGED tpc
  /\ UNCHANGED <<use, cpu, todo, tracers, freed, is_done, done, tracers_run,
                 counters, mt_mutex, buts, relay, signals>>

(* list_add_tail(&tp->head, &tracers), after the thread was created.        *)
ListTracer ==
  /\ At("main", "list")
  /\ tracers' = tracers \cup {cpu}
  /\ cpu' = cpu + 1
  /\ Goto("main", "create")
  /\ UNCHANGED <<use, tpc, todo, freed, is_done, done, tracers_run, counters,
                 mt_mutex, buts, relay, signals>>

(* The lock of a critical section; mpc says which section it opens.         *)
Section == [ready |-> "ready_locked", run |-> "run_locked",
            departure |-> "departure_locked"]

Lock(c) ==
  /\ Runs(c)
  /\ mpc[c] \in DOMAIN Section
  /\ mt_mutex = Nobody
  /\ mt_mutex' = Owner(c)
  /\ Goto(c, Section[mpc[c]])
  /\ UNCHANGED <<use, tpc, cpu, todo, tracers, freed, is_done, done,
                 tracers_run, counters, buts, relay, signals>>

(* wait_tracers_ready(cpu), where cpu - 1 tracers were started here; then   *)
(* run_tracers' decision.  A timed wait goes back to the lock.              *)
AllStarted == nthreads_running + nthreads_error >= cpu - 1
CanTraceDespiteErrors == nthreads_running + nthreads_error = NCpus
CanTrace == nthreads_running = NCpus
WaitReady ==
  /\ At("main", "ready_locked")
  /\ mt_mutex' = Nobody
  /\ Goto("main", IF ~AllStarted THEN "ready"
                  ELSE IF CanTrace THEN "run" ELSE "stop")
  /\ UNCHANGED <<use, tpc, cpu, todo, tracers, freed, is_done, done,
                 tracers_run, counters, buts, relay, signals>>

UnblockTracers ==
  /\ At("main", "run_locked")
  /\ tracers_run' = TRUE
  /\ BroadcastCond
  /\ mt_mutex' = Nobody
  /\ Goto("main", "start")
  /\ UNCHANGED <<use, cpu, todo, tracers, freed, is_done, done, counters, buts,
                 relay, signals>>

(* start_buts: BLKTRACESTART on every device; then the alarm is set.        *)
StartButs ==
  /\ At("main", "start")
  /\ buts' = TRUE
  /\ Goto("main", "process")
  /\ UNCHANGED <<use, tpc, cpu, todo, tracers, freed, is_done, done,
                 tracers_run, counters, mt_mutex, relay, signals>>

(* stop_tracers, in three parts: BLKTRACESTOP on every device, then is_done *)
(* of each tracer on the list, then a broadcast - none of it under mt_mutex.*)
FlagFirst(c) ==
  /\ At(c, "stop")
  /\ todo' = [todo EXCEPT ![c] = tracers]
  /\ Goto(c, "flag")
  /\ UNCHANGED <<use, tpc, cpu, tracers, freed, is_done, done, tracers_run,
                 counters, mt_mutex, buts, relay, signals>>

StopTracing(c) ==
  /\ At(c, "stop")
  /\ buts' = FALSE
  /\ todo' = [todo EXCEPT ![c] = tracers]
  /\ Goto(c, "flag")
  /\ UNCHANGED <<use, tpc, cpu, tracers, freed, is_done, done, tracers_run,
                 counters, mt_mutex, relay, signals>>

FlagTracer(c) ==
  /\ At(c, "flag")
  /\ \E t \in todo[c] :
       /\ is_done' = [is_done EXCEPT ![t] = TRUE]
       /\ todo' = [todo EXCEPT ![c] = @ \ {t}]
  /\ UNCHANGED <<use, mpc, tpc, cpu, tracers, freed, done, tracers_run,
                 counters, mt_mutex, buts, relay, signals>>

(* Whoever called stop_tracers goes on: main and exit_tracing to            *)
(* wait_tracers, handle_sigint back to what it interrupted.                 *)
AfterStop(c) ==
  IF c = "handler" /\ ~use.tears_down THEN "idle" ELSE "process"

WakeTracers(c) ==
  /\ At(c, "flag")
  /\ todo[c] = {}
  /\ BroadcastCond
  /\ Goto(c, AfterStop(c))
  /\ UNCHANGED <<use, cpu, todo, tracers, freed, is_done, done, tracers_run,
                 counters, mt_mutex, buts, relay, signals>>

(* wait_tracers: process_trace_bufs returns once `done` is set (piped       *)
(* output and network only).                                                *)
ProcessTraceBufs(c) ==
  /\ At(c, "process")
  /\ done \/ ~use.piped
  /\ Goto(c, "departure")
  /\ UNCHANGED <<use, tpc, cpu, todo, tracers, freed, is_done, done,
                 tracers_run, counters, mt_mutex, buts, relay, signals>>

(* ... then wait_tracers_leaving ...                                        *)
OneMoreLeft == nthreads_leaving > nthreads_running
AllLeft == nthreads_leaving >= nthreads_running
WaitLeaving(c) ==
  /\ At(c, "departure_locked")
  /\ mt_mutex' = Nobody
  /\ Goto(c, IF AllLeft THEN "join" ELSE "departure")
  /\ UNCHANGED <<use, tpc, cpu, todo, tracers, freed, is_done, done,
                 tracers_run, counters, buts, relay, signals>>

(* ... then pthread_join of every tracer on the list.                       *)
JoinNone == TRUE
Joined == \A t \in tracers : tpc[t] \in Ended
JoinTracers(c) ==
  /\ At(c, "join")
  /\ Joined
  /\ Goto(c, "delete")
  /\ UNCHANGED <<use, tpc, cpu, todo, tracers, freed, is_done, done,
                 tracers_run, counters, mt_mutex, buts, relay, signals>>

(* del_tracers, and rel_devpaths, which also tears the kernel trace down.   *)
DelTracers(c) ==
  /\ At(c, "delete")
  /\ freed' = freed \cup tracers
  /\ tracers' = {}
  /\ buts' = FALSE
  /\ Goto(c, "return")
  /\ UNCHANGED <<use, tpc, cpu, todo, is_done, done, tracers_run, counters,
                 mt_mutex, relay, signals>>

(* exit runs exit_tracing again (atexit): with no tracer left only its      *)
(* process_trace_bufs can hold it up.                                       *)
Exit(c) ==
  /\ At(c, "return")
  /\ done \/ ~use.piped
  /\ Goto(c, "exit")
  /\ UNCHANGED <<use, tpc, cpu, todo, tracers, freed, is_done, done,
                 tracers_run, counters, mt_mutex, buts, relay, signals>>

(* SIGINT, SIGHUP, SIGTERM or SIGALRM runs the handler on top of main.      *)
(* Unless it may come early it is the alarm, set when tracing was switched on.  *)
Armed == mpc["main"] \in {"process", "departure", "departure_locked"}

DoneAfter(sig) == TRUE
Signal ==
  /\ Runs("main")
  /\ mpc["main"] # "return"
  /\ signals < MaxSignals
  /\ use.early \/ Armed
  /\ signals' = signals + 1
  /\ done' = DoneAfter(signals)
  /\ Goto("handler", "stop")
  /\ UNCHANGED <<use, tpc, cpu, todo, tracers, freed, is_done, tracers_run,
                 counters, mt_mutex, buts, relay>>

Terminated == Exited /\ UNCHANGED vars

-----------------------------------------------------------------------------
Tracer(t) ==
  /\ ~Exited
  /\ \/ Open(t) \/ SignalRunning(t) \/ SignalError(t) \/ WaitUnblock(t)
     \/ CondWait(t) \/ Poll(t) \/ Drain(t) \/ SignalLeaving(t)

Stop(c) == StopTracing(c) \/ FlagTracer(c) \/ WakeTracers(c)

Wait(c) ==
  \/ ProcessTraceBufs(c) \/ Lock(c) \/ WaitLeaving(c) \/ JoinTracers(c)
  \/ DelTracers(c) \/ Exit(c)

Start == CreateThread \/ ListTracer \/ WaitReady \/ UnblockTracers \/ StartButs

Next ==
  \/ \E t \in Cpus : Tracer(t)
  \/ Start
  \/ \E c \in Contexts : Stop(c) \/ Wait(c)
  \/ \E t \in Cpus : ~Exited /\ Produce(t)
  \/ Signal
  \/ Terminated

Spec == Init /\ [][Next]_vars

(* Every thread that can go on does, and a thread that asks for mt_mutex    *)
(* gets it: the holders keep it for a few instructions, and main leaves it  *)
(* free for 50 ms in each turn of its waits.  No signal need ever come.     *)
Fairness ==
  /\ \A t \in Cpus : SF_vars(Tracer(t))
  /\ WF_vars(Start)
  /\ \A c \in Contexts : WF_vars(Stop(c)) /\ SF_vars(Wait(c))

FairSpec == Spec /\ Fairness
-----------------------------------------------------------------------------
(* Type invariant.                                                          *)
MainLabels ==
  {"create", "list", "ready", "ready_locked", "run", "run_locked", "start",
   "stop", "flag", "process", "departure", "departure_locked", "join",
   "delete", "return", "exit"}
HandlerLabels ==
  {"idle", "stop", "flag", "process", "departure", "departure_locked", "join",
   "delete", "return", "exit"}

TypeOK ==
  /\ use \in Uses
  /\ mpc \in [Contexts -> MainLabels \cup HandlerLabels]
  /\ mpc["main"] \in MainLabels
  /\ mpc["handler"] \in HandlerLabels
  /\ tpc \in [Cpus -> {"none", "open", "ready", "error", "failed"} \cup Running]
  /\ cpu \in 1..(NCpus + 1)
  /\ mpc["main"] = "list" => cpu \in Cpus
  /\ todo \in [Contexts -> SUBSET Cpus]
  /\ tracers \in SUBSET Cpus
  /\ freed \in SUBSET Cpus
  /\ is_done \in [Cpus -> BOOLEAN]
  /\ done \in BOOLEAN
  /\ tracers_run \in BOOLEAN
  /\ nthreads_running \in Nat
  /\ nthreads_leaving \in Nat
  /\ nthreads_error \in Nat
  /\ mt_mutex \in Cpus \cup {Nobody, Owner("main"), Owner("handler")}
  /\ buts \in BOOLEAN
  /\ relay \in [Cpus -> 0..MaxRelay]
  /\ signals \in 0..MaxSignals

(* A stop is final unless main goes on with its start after it: in           *)
(* server-proto the handler of an early signal returns to run_tracers.      *)
StopIsFinal == use.tears_down \/ ~use.early

(* While the kernel traces every CPU has a tracer that reads its relay file  *)
(* or is about to: none failed, none sleeps on after the release, none was  *)
(* told to leave (run_tracers, tracer_wait_unblock, stop_tracers).          *)
ReadWhileTraced ==
  buts => tracers_run /\ \A t \in Cpus : tpc[t] \in {"unblock", "poll"}
EveryCpuHasReader == StopIsFinal => ReadWhileTraced

(* A tracer that has left has left nothing behind: stop_tracers switches    *)
(* the kernel off before it sets is_done, and the tracer drains its buffer  *)
(* after it saw is_done.                                                    *)
NothingLeftBehind ==
  StopIsFinal => \A t \in Cpus : tpc[t] = "left" => relay[t] = 0

(* del_tracers frees no struct tracer that a thread still uses.             *)
NoUseAfterFree == \A t \in freed : tpc[t] \in Ended

(* What makes the three properties above inductive.                         *)
RunningTracers == {t \in Cpus : tpc[t] \in Running}

(* A CPU whose tracer was not created yet has none, and the counter main    *)
(* reads is exact: a tracer that signalled stays counted until it ends.     *)
NotYetCreated ==
  \A t \in Cpus : (t > cpu \/ (t = cpu /\ mpc["main"] # "list")) => tpc[t] = "none"
RunningCounted == nthreads_running = Cardinality(RunningTracers)
ReleasedAll ==
  /\ mpc["main"] \in {"run", "run_locked", "start"} => RunningTracers = Cpus
  /\ mpc["main"] = "start" => tracers_run
  /\ buts => RunningTracers = Cpus /\ tracers_run

(* Who is at a label inside a critical section holds the mutex, so that no   *)
(* tracer is between its test of tracers_run and its sleep when main sets it.*)
Holding ==
  /\ \A c \in Contexts :
       mpc[c] \in {"ready_locked", "run_locked", "departure_locked"} => mt_mutex = Owner(c)
  /\ \A t \in Cpus : tpc[t] = "towait" => mt_mutex = t
  /\ tracers_run => \A t \in Cpus : tpc[t] \notin {"towait", "blocked"}

(* del_tracers comes after the join, and nobody starts a tracer after it.   *)
JoinedBeforeDelete ==
  \A c \in Contexts : mpc[c] = "delete" => \A t \in tracers : tpc[t] \in Ended
FreedAtTheEnd ==
  freed # {} => \E c \in Contexts : mpc[c] \in {"return", "exit"}

(* Without early signals the handler runs on top of a main that waits, and   *)
(* in valtio main never resumes: a tracer is told to quit only when nobody  *)
(* will switch the tracing on any more, and what is in its buffer then is   *)
(* all that it has to drain.                                                *)
Starting == {"create", "list", "ready", "ready_locked", "run", "run_locked", "start"}
HandlerOnTop == ~use.early /\ mpc["handler"] # "idle" => Armed
OffForGood ==
  ~buts /\ (mpc["main"] \notin Starting \/ (use.tears_down /\ mpc["handler"] # "idle"))
FlaggedWhenOff ==
  /\ \A c \in Contexts : mpc[c] = "flag" => ~buts
  /\ \A t \in Cpus : is_done[t] => OffForGood
DrainedAfterFlag ==
  \A t \in Cpus : /\ tpc[t] \in {"drain", "leaving", "left"} => is_done[t]
                  /\ tpc[t] \in {"leaving", "left"} => relay[t] = 0

DrainInv == StopIsFinal => HandlerOnTop /\ FlaggedWhenOff /\ DrainedAfterFlag
ReaderInv == NotYetCreated /\ RunningCounted /\ ReleasedAll /\ Holding
FreeInv == JoinedBeforeDelete /\ FreedAtTheEnd /\ NoUseAfterFree

(* A stop that was asked for is carried out: the process ends, if all        *)
(* tracers run and the signal did not come while they were being started.   *)
SignalStops == (signals > 0 /\ ~use.early /\ ~use.fails) ~> Exited

(* blktrace.8: "run forever until explicitly killed by the user (via a      *)
(* control-C, ...)": a signal during the start ends the program as well.    *)
EarlySignalStops == signals > 0 ~> Exited

(* The timed waits of main end ("Add a timer to ensure wait ends"): once    *)
(* every tracer was told to quit, main's wait for them to leave ends.       *)
DepartureEnds ==
  (mpc["main"] = "departure" /\ \A t \in tracers : is_done[t])
    ~> (mpc["main"] = "join" \/ Exited)
=============================================================================
