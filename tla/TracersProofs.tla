---------------------------- MODULE TracersProofs ----------------------------
(* Theorems about Tracers, for any number of CPUs, any buffer size, any      *)
(* number of signals, either handler and any failures; and about the         *)
(* sessions in which the valtio server runs them (ValtioServer).            *)
EXTENDS Tracers, ValtioServer, SequenceTheorems, FiniteSetTheorems, TLAPS

(* Type correctness of the tracers' life cycle.                              *)
THEOREM TypeCorrect == Spec => []TypeOK
<1>1. Init => TypeOK
  <2> SUFFICES ASSUME Init PROVE TypeOK
    OBVIOUS
  <2> USE TracersAssumption DEF TracersAssumption, Init, Cpus
  <2>1. mpc \in [Contexts -> MainLabels \cup HandlerLabels]
    BY DEF Contexts, MainLabels, HandlerLabels
  <2>2. mpc["main"] \in MainLabels /\ mpc["handler"] \in HandlerLabels
    BY DEF Contexts, MainLabels, HandlerLabels
  <2>3. todo \in [Contexts -> SUBSET Cpus]
    OBVIOUS
  <2>4. cpu \in 1..(NCpus + 1) /\ signals \in 0..MaxSignals
    OBVIOUS
  <2>5. is_done \in [Cpus -> BOOLEAN] /\ relay \in [Cpus -> 0..MaxRelay]
    OBVIOUS
  <2> QED BY <2>1, <2>2, <2>3, <2>4, <2>5 DEF TypeOK, Nobody, Contexts
<1>2. TypeOK /\ [Next]_vars => TypeOK'
  <2> SUFFICES ASSUME TypeOK, [Next]_vars PROVE TypeOK'
    OBVIOUS
  <2> USE TracersAssumption DEF TracersAssumption, TypeOK, Cpus, Contexts,
      MainLabels, HandlerLabels, Goto, TGoto, At, Runs, Owner, Nobody
  <2>1. CASE Start
    <3>1. CASE CreateThread
      <4>1. /\ tpc' \in [Cpus -> {"none", "open", "ready", "error", "failed"} \cup Running]
            /\ mpc' \in [Contexts -> MainLabels \cup HandlerLabels]
            /\ mpc'["main"] \in MainLabels /\ mpc'["handler"] \in HandlerLabels
        BY <3>1 DEF CreateThread, MoreCpus
      <4> QED BY <3>1, <4>1 DEF CreateThread, MoreCpus, counters
    <3>2. CASE ListTracer
      BY <3>2 DEF ListTracer, counters
    <3>3. CASE WaitReady
      BY <3>3 DEF WaitReady, counters
    <3>4. CASE UnblockTracers
      BY <3>4 DEF UnblockTracers, BroadcastCond, Blocked, Running, Waiting, counters
    <3>5. CASE StartButs
      BY <3>5 DEF StartButs, counters
    <3> QED BY <2>1, <3>1, <3>2, <3>3, <3>4, <3>5 DEF Start
  <2>2. ASSUME NEW c \in Contexts, Stop(c) PROVE TypeOK'
    <3>1. CASE StopTracing(c)
      BY <3>1 DEF StopTracing, counters
    <3>2. CASE FlagTracer(c)
      BY <3>2 DEF FlagTracer, counters
    <3>3. CASE WakeTracers(c)
      BY <3>3 DEF WakeTracers, BroadcastCond, Blocked, Running, Waiting,
         AfterStop, counters
    <3> QED BY <2>2, <3>1, <3>2, <3>3 DEF Stop
  <2>3. ASSUME NEW c \in Contexts, Wait(c) PROVE TypeOK'
    <3>1. CASE ProcessTraceBufs(c)
      BY <3>1 DEF ProcessTraceBufs, counters
    <3>2. CASE Lock(c)
      BY <3>2 DEF Lock, Section, counters
    <3>3. CASE WaitLeaving(c)
      BY <3>3 DEF WaitLeaving, counters
    <3>4. CASE JoinTracers(c)
      BY <3>4 DEF JoinTracers, counters
    <3>5. CASE DelTracers(c)
      BY <3>5 DEF DelTracers, counters
    <3>6. CASE Exit(c)
      BY <3>6 DEF Exit, counters
    <3> QED BY <2>3, <3>1, <3>2, <3>3, <3>4, <3>5, <3>6 DEF Wait
  <2>4. ASSUME NEW t \in Cpus, Tracer(t) PROVE TypeOK'
    <3> USE DEF Running, Waiting
    <3>1. CASE Open(t)
      BY <3>1 DEF Open, counters
    <3>2. CASE SignalRunning(t)
      BY <3>2 DEF SignalRunning, SignalCond, Blocked
    <3>3. CASE SignalError(t)
      BY <3>3 DEF SignalError, SignalCond, Blocked
    <3>4. CASE WaitUnblock(t)
      BY <3>4 DEF WaitUnblock, counters
    <3>5. CASE CondWait(t)
      BY <3>5 DEF CondWait, counters
    <3>6. CASE Poll(t)
      <4>1. CASE is_done[t]
        BY <3>6, <4>1 DEF Poll, counters
      <4>2. CASE ~is_done[t]
        <5>1. relay' \in [Cpus -> 0..MaxRelay]
          BY <3>6, <4>2 DEF Poll, Read
        <5> QED BY <3>6, <4>2, <5>1 DEF Poll, counters
      <4> QED BY <4>1, <4>2
    <3>7. CASE Drain(t)
      BY <3>7 DEF Drain, Read, AfterDrain, counters
    <3>8. CASE SignalLeaving(t)
      BY <3>8 DEF SignalLeaving, SignalCond, Blocked
    <3> QED BY <2>4, <3>1, <3>2, <3>3, <3>4, <3>5, <3>6, <3>7, <3>8 DEF Tracer
  <2>5. ASSUME NEW t \in Cpus, Produce(t) PROVE TypeOK'
    BY <2>5 DEF Produce, counters
  <2>6. CASE Signal
    BY <2>6 DEF Signal, DoneAfter, counters
  <2>7. CASE UNCHANGED vars
    BY <2>7 DEF vars, counters
  <2> QED BY <2>1, <2>2, <2>3, <2>4, <2>5, <2>6, <2>7 DEF Next, Terminated
<1> QED BY <1>1, <1>2, PTL DEF Spec
-----------------------------------------------------------------------------
(* No tracer's memory is freed while its thread may still use it.            *)
THEOREM TracerMemorySafe == Spec => []NoUseAfterFree
<1>1. Init => FreeInv
  BY DEF Init, FreeInv, JoinedBeforeDelete, FreedAtTheEnd, NoUseAfterFree
<1>2. TypeOK /\ FreeInv /\ [Next]_vars => FreeInv'
  <2> SUFFICES ASSUME TypeOK, FreeInv, [Next]_vars PROVE FreeInv'
    OBVIOUS
  <2> USE DEF TypeOK, FreeInv, JoinedBeforeDelete, FreedAtTheEnd, NoUseAfterFree,
      Goto, TGoto, At, Runs, Exited, Contexts
  <2>1. CASE Start
    <3>1. CASE CreateThread
      <4>1. freed = {}
        BY <3>1 DEF CreateThread, MoreCpus
      <4> QED BY <3>1, <4>1 DEF CreateThread, MoreCpus
    <3>2. CASE ListTracer
      BY <3>2 DEF ListTracer
    <3>3. CASE WaitReady
      BY <3>3 DEF WaitReady
    <3>4. CASE UnblockTracers
      BY <3>4 DEF UnblockTracers, BroadcastCond, Blocked, Ended
    <3>5. CASE StartButs
      BY <3>5 DEF StartButs
    <3> QED BY <2>1, <3>1, <3>2, <3>3, <3>4, <3>5 DEF Start
  <2>2. ASSUME NEW c \in Contexts, Stop(c) PROVE FreeInv'
    <3>1. CASE StopTracing(c)
      BY <3>1 DEF StopTracing
    <3>2. CASE FlagTracer(c)
      BY <3>2 DEF FlagTracer
    <3>3. CASE WakeTracers(c)
      BY <3>3 DEF WakeTracers, BroadcastCond, Blocked, AfterStop, Ended
    <3> QED BY <2>2, <3>1, <3>2, <3>3 DEF Stop
  <2>3. ASSUME NEW c \in Contexts, Wait(c) PROVE FreeInv'
    <3>1. CASE ProcessTraceBufs(c)
      BY <3>1 DEF ProcessTraceBufs
    <3>2. CASE Lock(c)
      BY <3>2 DEF Lock, Section
    <3>3. CASE WaitLeaving(c)
      BY <3>3 DEF WaitLeaving
    <3>4. CASE JoinTracers(c)
      BY <3>4 DEF JoinTracers, Joined
    <3>5. CASE DelTracers(c)
      BY <3>5 DEF DelTracers
    <3>6. CASE Exit(c)
      BY <3>6 DEF Exit
    <3> QED BY <2>3, <3>1, <3>2, <3>3, <3>4, <3>5, <3>6 DEF Wait
  <2>4. ASSUME NEW t \in Cpus, Tracer(t) PROVE FreeInv'
    <3>1. tpc[t] \notin Ended
      BY <2>4 DEF Tracer, Open, SignalRunning, SignalError, WaitUnblock, CondWait,
         Poll, Drain, SignalLeaving, Ended
    <3>2. \A u \in Cpus : tpc[u] \in Ended => tpc'[u] \in Ended
      BY <2>4, <3>1 DEF Tracer, Open, SignalRunning, SignalError, WaitUnblock,
         CondWait, Poll, Drain, SignalLeaving, SignalCond, Blocked, Ended
    <3>3. UNCHANGED <<mpc, tracers, freed>>
      BY <2>4 DEF Tracer, Open, SignalRunning, SignalError, WaitUnblock, CondWait,
         Poll, Drain, SignalLeaving
    <3> QED BY <3>2, <3>3
  <2>5. ASSUME NEW t \in Cpus, Produce(t) PROVE FreeInv'
    BY <2>5 DEF Produce
  <2>6. CASE Signal
    BY <2>6 DEF Signal
  <2>7. CASE UNCHANGED vars
    BY <2>7 DEF vars
  <2> QED BY <2>1, <2>2, <2>3, <2>4, <2>5, <2>6, <2>7 DEF Next, Terminated
<1>3. FreeInv => NoUseAfterFree
  BY DEF FreeInv
<1> QED BY <1>1, <1>2, <1>3, TypeCorrect, PTL DEF Spec
-----------------------------------------------------------------------------
(* A set of CPUs is finite, and the only one with NCpus members is Cpus.     *)
LEMMA CpuSets ==
  ASSUME NEW S \in SUBSET Cpus
  PROVE  /\ IsFiniteSet(S)
         /\ Cardinality(S) \in Nat
         /\ Cardinality(S) = NCpus => S = Cpus
<1>1. IsFiniteSet(Cpus) /\ Cardinality(Cpus) = NCpus
  BY FS_Interval, TracersAssumption DEF Cpus, TracersAssumption
<1> QED BY <1>1, FS_Subset, FS_CardinalityType

(* How the steps of one tracer change who runs and who is still to be        *)
(* created: only tracer_signal_ready(Th_running) adds a running tracer.      *)
LEMMA TracerStep ==
  ASSUME TypeOK, NEW t \in Cpus, Tracer(t)
  PROVE  /\ UNCHANGED <<mpc, cpu, tracers_run, buts>>
         /\ tpc[t] # "none"
         /\ \A u \in Cpus : tpc[u] = "none" => tpc'[u] = "none" \/ u = t
         /\ IF SignalRunning(t)
            THEN /\ t \notin RunningTracers
                 /\ RunningTracers' = RunningTracers \cup {t}
                 /\ nthreads_running' = nthreads_running + 1
            ELSE UNCHANGED <<RunningTracers, nthreads_running>>
<1> USE DEF TypeOK, RunningTracers, Running, Waiting, TGoto
<1>1. CASE Open(t)
  BY <1>1 DEF Open, SignalRunning, counters
<1>2. CASE SignalRunning(t)
  BY <1>2 DEF SignalRunning, SignalCond, Blocked
<1>3. CASE SignalError(t)
  BY <1>3 DEF SignalError, SignalRunning, SignalCond, Blocked
<1>4. CASE WaitUnblock(t)
  BY <1>4 DEF WaitUnblock, SignalRunning, counters
<1>5. CASE CondWait(t)
  BY <1>5 DEF CondWait, SignalRunning, counters
<1>6. CASE Poll(t)
  BY <1>6 DEF Poll, SignalRunning, counters
<1>7. CASE Drain(t)
  BY <1>7 DEF Drain, AfterDrain, SignalRunning, counters
<1>8. CASE SignalLeaving(t)
  BY <1>8 DEF SignalLeaving, SignalRunning, SignalCond, Blocked
<1> QED BY <1>1, <1>2, <1>3, <1>4, <1>5, <1>6, <1>7, <1>8 DEF Tracer

(* Nobody, the contexts and the tracers are different owners of mt_mutex.    *)
LEMMA Owners ==
  /\ Owner("main") # Owner("handler") /\ \A c \in Contexts : Owner(c) # Nobody
  /\ \A t \in Cpus : t # Nobody /\ \A c \in Contexts : t # Owner(c)
BY TracersAssumption DEF Owner, Nobody, Contexts, Cpus, TracersAssumption

(* The mutex from the test of tracers_run to the sleep.                      *)
LEMMA HoldingStep == TypeOK /\ Holding /\ [Next]_vars => Holding'
<1> SUFFICES ASSUME TypeOK, Holding, [Next]_vars PROVE Holding'
  OBVIOUS
<1>0. /\ mpc \in [Contexts -> MainLabels \cup HandlerLabels] /\ cpu \in 1..(NCpus + 1)
      /\ tpc \in [Cpus -> {"none", "open", "ready", "error", "failed"} \cup Running]
  BY DEF TypeOK
<1> USE Owners, <1>0 DEF Holding, Goto, TGoto, At
<1>1. CASE Start
  <2>1. CASE CreateThread \/ ListTracer \/ StartButs
    BY <2>1 DEF CreateThread, ListTracer, StartButs, Contexts
  <2>2. CASE WaitReady
    BY <2>2 DEF WaitReady, Contexts
  <2>3. CASE UnblockTracers
    BY <2>3 DEF UnblockTracers, BroadcastCond, Blocked, Contexts
  <2> QED BY <1>1, <2>1, <2>2, <2>3 DEF Start
<1>2. ASSUME NEW c \in Contexts, Stop(c) PROVE Holding'
  <2>1. CASE StopTracing(c) \/ FlagTracer(c)
    BY <2>1 DEF StopTracing, FlagTracer
  <2>2. CASE WakeTracers(c)
    BY <2>2 DEF WakeTracers, AfterStop, BroadcastCond, Blocked
  <2> QED BY <1>2, <2>1, <2>2 DEF Stop
<1>3. ASSUME NEW c \in Contexts, Wait(c) PROVE Holding'
  <2>1. CASE ProcessTraceBufs(c) \/ JoinTracers(c) \/ DelTracers(c) \/ Exit(c)
    BY <2>1 DEF ProcessTraceBufs, JoinTracers, DelTracers, Exit
  <2>2. CASE Lock(c)
    BY <2>2 DEF Lock, Section
  <2>3. CASE WaitLeaving(c)
    BY <2>3 DEF WaitLeaving, Contexts
  <2> QED BY <1>3, <2>1, <2>2, <2>3 DEF Wait
<1>4. ASSUME NEW t \in Cpus, Tracer(t) PROVE Holding'
  <2>1. CASE Open(t) \/ Poll(t) \/ Drain(t)
    BY <2>1 DEF Open, Poll, Drain, AfterDrain
  <2>2. CASE SignalRunning(t) \/ SignalError(t) \/ SignalLeaving(t)
    <3>1. UNCHANGED <<mpc, mt_mutex, tracers_run>>
      BY <2>2 DEF SignalRunning, SignalError, SignalLeaving
    <3>2. \A u \in Cpus : tpc'[u] \in {tpc[u], "unblock", "failed", "left"}
      BY <2>2 DEF SignalRunning, SignalError, SignalLeaving, SignalCond
    <3> QED BY <3>1, <3>2
  <2>3. CASE WaitUnblock(t)
    <3>1. mt_mutex = Nobody /\ UNCHANGED <<mpc, tracers_run>>
      BY <2>3 DEF WaitUnblock
    <3>2. \A u \in Cpus : tpc[u] # "towait"
      BY <3>1
    <3>3. \A c \in Contexts : mpc'[c] \notin {"ready_locked", "run_locked", "departure_locked"}
      BY <3>1
    <3> QED BY <2>3, <3>1, <3>2, <3>3 DEF WaitUnblock
  <2>4. CASE CondWait(t)
    <3>1. tpc[t] = "towait" /\ mt_mutex = t /\ ~tracers_run /\ UNCHANGED <<mpc, tracers_run>>
      BY <2>4 DEF CondWait
    <3>2. \A u \in Cpus : u # t => tpc[u] # "towait"
      BY <3>1
    <3>3. \A c \in Contexts : mpc'[c] \notin {"ready_locked", "run_locked", "departure_locked"}
      BY <3>1
    <3> QED BY <2>4, <3>1, <3>2, <3>3 DEF CondWait
  <2> QED BY <1>4, <2>1, <2>2, <2>3, <2>4 DEF Tracer
<1>5. ASSUME NEW t \in Cpus, Produce(t) PROVE Holding'
  BY <1>5 DEF Produce
<1>6. CASE Signal
  BY <1>6 DEF Signal, Contexts
<1>7. CASE UNCHANGED vars
  BY <1>7 DEF vars
<1> QED BY <1>1, <1>2, <1>3, <1>4, <1>5, <1>6, <1>7 DEF Next, Terminated

(* Who was released: nobody fails, and nobody is asleep, when tracing starts. *)
THEOREM TracersReleased == Spec => []ReaderInv
<1>1. Init => ReaderInv
  <2> SUFFICES ASSUME Init PROVE ReaderInv
    OBVIOUS
  <2>1. RunningTracers = {}
    BY DEF Init, RunningTracers, Running, Waiting
  <2> QED BY <2>1, FS_EmptySet DEF Init, ReaderInv, NotYetCreated, RunningCounted,
          ReleasedAll, Holding, Contexts
<1>2. TypeOK /\ ReaderInv /\ [Next]_vars => ReaderInv'
  <2> SUFFICES ASSUME TypeOK, ReaderInv, [Next]_vars PROVE ReaderInv'
    OBVIOUS
  <2>0. Holding'
    BY HoldingStep DEF ReaderInv
  <2> USE <2>0 DEF ReaderInv
  <2>1. RunningTracers \in SUBSET Cpus
    BY DEF RunningTracers
  <2>2. ASSUME UNCHANGED <<RunningTracers, nthreads_running>> PROVE RunningCounted'
    BY <2>2 DEF RunningCounted
  <2>3. CASE Start
    <3> USE DEF TypeOK, Goto, TGoto, At, Contexts
    <3>1. CASE CreateThread
      <4>1. \A t \in Cpus : (tpc'[t] \in Running <=> tpc[t] \in Running)
        BY <3>1 DEF CreateThread, MoreCpus, NotYetCreated, Running, Waiting, Cpus
      <4>2. UNCHANGED RunningTracers
        BY <4>1 DEF RunningTracers
      <4>3. NotYetCreated'
        BY <3>1 DEF CreateThread, MoreCpus, NotYetCreated
      <4>4. ReleasedAll'
        BY <3>1, <4>2 DEF CreateThread, ReleasedAll
      <4> QED BY <3>1, <4>2, <4>3, <4>4, <2>2 DEF CreateThread, MoreCpus, counters
    <3>2. CASE ListTracer
      <4>1. NotYetCreated'
        BY <3>2 DEF ListTracer, NotYetCreated, Cpus
      <4> QED BY <3>2, <4>1, <2>2 DEF ListTracer, ReleasedAll,
              RunningTracers, counters
    <3>3. CASE WaitReady
      <4>1. UNCHANGED RunningTracers
        BY <3>3 DEF WaitReady, RunningTracers
      <4>2. mpc'["main"] = "run" => RunningTracers = Cpus
        BY <3>3, <2>1, CpuSets DEF WaitReady, CanTrace, RunningCounted
      <4>3. mpc'["main"] \notin {"run_locked", "start", "list"}
        BY <3>3 DEF WaitReady
      <4>4. NotYetCreated'
        BY <3>3 DEF WaitReady, NotYetCreated
      <4> QED BY <3>3, <4>1, <4>2, <4>3, <4>4, <2>2
              DEF WaitReady, ReleasedAll, counters
    <3>4. CASE UnblockTracers
      <4>1. \A t \in Cpus : /\ tpc'[t] \in Running <=> tpc[t] \in Running
                            /\ tpc[t] = "none" => tpc'[t] = "none"
        BY <3>4 DEF UnblockTracers, BroadcastCond, Blocked, Running, Waiting
      <4>2. UNCHANGED RunningTracers
        BY <4>1 DEF RunningTracers
      <4> QED BY <3>4, <4>1, <4>2, <2>2 DEF UnblockTracers, NotYetCreated,
              ReleasedAll, counters
    <3>5. CASE StartButs
      <4>1. UNCHANGED RunningTracers
        BY <3>5 DEF StartButs, RunningTracers
      <4> QED BY <3>5, <4>1, <2>2 DEF StartButs, NotYetCreated, ReleasedAll, RunningTracers, counters
    <3> QED BY <2>3, <3>1, <3>2, <3>3, <3>4, <3>5 DEF Start
  <2>4. ASSUME NEW c \in Contexts, Stop(c) PROVE ReaderInv'
    <3> USE DEF TypeOK, Goto, At, Contexts
    <3>1. \A t \in Cpus : /\ tpc'[t] \in Running <=> tpc[t] \in Running
                          /\ tpc[t] = "none" => tpc'[t] = "none"
      BY <2>4 DEF Stop, StopTracing, FlagTracer, WakeTracers, BroadcastCond,
         Blocked, Running, Waiting
    <3>2. UNCHANGED RunningTracers
      BY <3>1 DEF RunningTracers
    <3>3. /\ UNCHANGED <<cpu, tracers_run, nthreads_running>>
          /\ buts' => buts
      BY <2>4 DEF Stop, StopTracing, FlagTracer, WakeTracers, counters
    <3>4. /\ mpc'["main"] = "list" <=> mpc["main"] = "list"
          /\ mpc'["main"] \in {"run", "run_locked", "start"} => mpc'["main"] = mpc["main"]
      BY <2>4 DEF Stop, StopTracing, FlagTracer, WakeTracers, AfterStop
    <3> QED BY <3>1, <3>2, <3>3, <3>4, <2>2 DEF NotYetCreated, ReleasedAll
  <2>5. ASSUME NEW c \in Contexts, Wait(c) PROVE ReaderInv'
    <3> USE DEF TypeOK, Goto, At, Contexts
    <3>1. /\ UNCHANGED <<tpc, cpu, tracers_run, nthreads_running>>
          /\ buts' => buts
      BY <2>5 DEF Wait, ProcessTraceBufs, Lock, WaitLeaving, JoinTracers, DelTracers,
         Exit, counters
    <3>2. /\ mpc'["main"] = "list" <=> mpc["main"] = "list"
          /\ mpc'["main"] \in {"run", "start"} => mpc'["main"] = mpc["main"]
          /\ mpc'["main"] = "run_locked" => mpc["main"] \in {"run", "run_locked"}
      BY <2>5 DEF Wait, ProcessTraceBufs, Lock, Section, WaitLeaving, JoinTracers,
         DelTracers, Exit
    <3>3. UNCHANGED RunningTracers
      BY <3>1 DEF RunningTracers
    <3> QED BY <3>1, <3>2, <3>3, <2>2 DEF NotYetCreated, ReleasedAll
  <2>6. ASSUME NEW t \in Cpus, Tracer(t) PROVE ReaderInv'
    <3>1. RunningCounted'
      <4>1. CASE SignalRunning(t)
        BY <4>1, <2>6, <2>1, TracerStep, CpuSets, FS_AddElement DEF RunningCounted
      <4>2. CASE ~SignalRunning(t)
        BY <4>2, <2>6, <2>2, TracerStep
      <4> QED BY <4>1, <4>2
    <3>2. RunningTracers \subseteq RunningTracers' /\ RunningTracers' \subseteq Cpus
      BY <2>6, TracerStep DEF RunningTracers
    <3>3. NotYetCreated'
      BY <2>6, TracerStep DEF NotYetCreated
    <3>4. ReleasedAll'
      BY <2>6, <3>2, TracerStep DEF ReleasedAll
    <3> QED BY <3>1, <3>3, <3>4
  <2>7. ASSUME NEW t \in Cpus, Produce(t) PROVE ReaderInv'
    BY <2>7 DEF Produce, NotYetCreated, RunningCounted, ReleasedAll, RunningTracers, counters
  <2>8. CASE Signal
    <3>1. UNCHANGED <<tpc, cpu, tracers_run, nthreads_running, buts>>
      BY <2>8 DEF Signal, counters
    <3>2. mpc'["main"] = mpc["main"]
      BY <2>8 DEF Signal, Goto, TypeOK, Contexts
    <3> QED BY <3>1, <3>2 DEF NotYetCreated, RunningCounted, ReleasedAll, RunningTracers
  <2>9. CASE UNCHANGED vars
    BY <2>9 DEF vars, counters, NotYetCreated, RunningCounted, ReleasedAll, RunningTracers
  <2> QED BY <2>3, <2>4, <2>5, <2>6, <2>7, <2>8, <2>9 DEF Next, Terminated
<1> QED BY <1>1, <1>2, TypeCorrect, PTL DEF Spec
-----------------------------------------------------------------------------
(* A tracer drains only when it was told to leave, and that only after the   *)
(* tracing was switched off for good.                                        *)
THEOREM TracersStopInOrder == Spec => []DrainInv
<1>1. Init => DrainInv
  BY DEF Init, DrainInv, HandlerOnTop, FlaggedWhenOff, OffForGood, DrainedAfterFlag,
     Contexts, StopIsFinal
<1>2. TypeOK /\ DrainInv /\ [Next]_vars => DrainInv'
  <2> SUFFICES ASSUME TypeOK, DrainInv, [Next]_vars PROVE DrainInv'
    OBVIOUS
  <2>0. UNCHANGED use
    <3>1. ASSUME NEW t \in Cpus, Tracer(t) PROVE UNCHANGED use
      BY <3>1 DEF Tracer, Open, SignalRunning, SignalError, WaitUnblock, CondWait, Poll,
         Drain, SignalLeaving
    <3>2. CASE Start
      BY <3>2 DEF Start, CreateThread, ListTracer, WaitReady, UnblockTracers, StartButs
    <3>3. ASSUME NEW c \in Contexts, Stop(c) \/ Wait(c) PROVE UNCHANGED use
      BY <3>3 DEF Stop, StopTracing, FlagTracer, WakeTracers, Wait, ProcessTraceBufs,
         Lock, WaitLeaving, JoinTracers, DelTracers, Exit
    <3>4. ASSUME NEW t \in Cpus, Produce(t) PROVE UNCHANGED use
      BY <3>4 DEF Produce
    <3>5. CASE Signal \/ UNCHANGED vars
      BY <3>5 DEF Signal, vars
    <3> QED BY <3>1, <3>2, <3>3, <3>4, <3>5 DEF Next, Terminated
  <2> SUFFICES ASSUME StopIsFinal PROVE HandlerOnTop' /\ FlaggedWhenOff' /\ DrainedAfterFlag'
    BY <2>0 DEF DrainInv, StopIsFinal
  <2> USE <2>0 DEF TypeOK, DrainInv, Contexts, StopIsFinal
  <2>1. ASSUME UNCHANGED <<tpc, is_done, relay>> PROVE DrainedAfterFlag'
    BY <2>1 DEF DrainedAfterFlag
  <2>2. CASE Start
    <3> USE DEF At, Runs, Goto, TGoto, Starting
    <3>1. mpc["handler"] = "idle" /\ mpc'["handler"] = "idle"
      BY <2>2 DEF Start, CreateThread, ListTracer, WaitReady, UnblockTracers, StartButs
    <3>2. \A t \in Cpus : ~is_done[t] /\ ~is_done'[t]
      BY <2>2 DEF Start, CreateThread, ListTracer, WaitReady, UnblockTracers, StartButs,
         FlaggedWhenOff, OffForGood
    <3>3. mpc'["main"] # "flag"
      BY <2>2 DEF Start, CreateThread, ListTracer, WaitReady, UnblockTracers, StartButs
    <3>4. \A t \in Cpus : tpc'[t] \in {"drain", "leaving", "left"} => tpc'[t] = tpc[t]
      BY <2>2 DEF Start, CreateThread, MoreCpus, ListTracer, WaitReady, UnblockTracers,
         BroadcastCond, StartButs
    <3> QED BY <3>1, <3>2, <3>3, <3>4 DEF HandlerOnTop, FlaggedWhenOff, DrainedAfterFlag
  <2>3. ASSUME NEW c \in Contexts, Stop(c) PROVE HandlerOnTop' /\ FlaggedWhenOff' /\ DrainedAfterFlag'
    <3> USE DEF At, Runs, Goto, HandlerOnTop, Armed, Starting
    <3>1. CASE StopTracing(c)
      BY <2>1, <3>1 DEF StopTracing, FlaggedWhenOff, OffForGood
    <3>2. CASE FlagTracer(c)
      <4>1. OffForGood
        BY <3>2 DEF FlagTracer, FlaggedWhenOff, OffForGood
      <4>2. UNCHANGED <<mpc, tpc, buts, relay>>
        BY <3>2 DEF FlagTracer
      <4>3. \A t \in Cpus : is_done[t] => is_done'[t]
        BY <3>2 DEF FlagTracer
      <4> QED BY <4>1, <4>2, <4>3 DEF FlaggedWhenOff, OffForGood, DrainedAfterFlag
    <3>3. CASE WakeTracers(c)
      <4>1. HandlerOnTop' /\ FlaggedWhenOff'
        BY <3>3 DEF WakeTracers, AfterStop, FlaggedWhenOff, OffForGood
      <4>2. \A t \in Cpus : tpc'[t] \in {"drain", "leaving", "left"} => tpc'[t] = tpc[t]
        BY <3>3 DEF WakeTracers, BroadcastCond
      <4>3. UNCHANGED <<is_done, relay>>
        BY <3>3 DEF WakeTracers
      <4> QED BY <4>1, <4>2, <4>3 DEF DrainedAfterFlag
    <3> QED BY <2>3, <3>1, <3>2, <3>3 DEF Stop
  <2>4. ASSUME NEW c \in Contexts, Wait(c) PROVE HandlerOnTop' /\ FlaggedWhenOff' /\ DrainedAfterFlag'
    <3> USE DEF Wait, ProcessTraceBufs, Lock, Section, WaitLeaving, JoinTracers, DelTracers,
        Exit, At, Runs, Goto
    <3>1. UNCHANGED <<tpc, is_done, relay>> /\ (buts' => buts)
      BY <2>4
    <3>2. HandlerOnTop'
      BY <2>4 DEF HandlerOnTop, Armed
    <3>3. \A d \in Contexts : mpc'[d] = "flag" => mpc[d] = "flag"
      BY <2>4
    <3>4. /\ mpc'["main"] \in Starting => mpc["main"] \in Starting
          /\ mpc'["handler"] = "idle" => mpc["handler"] = "idle"
      BY <2>4 DEF Starting
    <3>5. \A t \in Cpus : is_done'[t] => OffForGood'
      BY <3>1, <3>4 DEF FlaggedWhenOff, OffForGood
    <3>6. FlaggedWhenOff'
      BY <3>1, <3>3, <3>5 DEF FlaggedWhenOff
    <3> QED BY <2>1, <3>1, <3>2, <3>6
  <2>5. ASSUME NEW t \in Cpus, Tracer(t) PROVE HandlerOnTop' /\ FlaggedWhenOff' /\ DrainedAfterFlag'
    <3>1. UNCHANGED <<mpc, is_done, buts>>
      BY <2>5 DEF Tracer, Open, SignalRunning, SignalError, WaitUnblock, CondWait, Poll,
         Drain, SignalLeaving
    <3>2. DrainedAfterFlag'
      <4> USE DEF DrainedAfterFlag, TGoto
      <4>1. CASE Poll(t) \/ Drain(t)
        BY <3>1, <4>1 DEF Poll, Drain, AfterDrain, Read
      <4>2. CASE SignalLeaving(t)
        BY <3>1, <4>2 DEF SignalLeaving, SignalCond
      <4>3. CASE Open(t) \/ WaitUnblock(t) \/ CondWait(t)
        BY <3>1, <4>3 DEF Open, WaitUnblock, CondWait
      <4>4. CASE SignalRunning(t) \/ SignalError(t)
        BY <3>1, <4>4 DEF SignalRunning, SignalError, SignalCond
      <4> QED BY <2>5, <4>1, <4>2, <4>3, <4>4 DEF Tracer
    <3> QED BY <3>1, <3>2 DEF HandlerOnTop, Armed, FlaggedWhenOff, OffForGood
  <2>6. ASSUME NEW t \in Cpus, Produce(t) PROVE HandlerOnTop' /\ FlaggedWhenOff' /\ DrainedAfterFlag'
    <3>1. \A u \in Cpus : ~is_done[u]
      BY <2>6 DEF Produce, FlaggedWhenOff, OffForGood
    <3> QED BY <2>6, <3>1 DEF Produce, HandlerOnTop, Armed, FlaggedWhenOff, OffForGood,
            DrainedAfterFlag
  <2>7. CASE Signal
    <3>1. HandlerOnTop' /\ FlaggedWhenOff'
      BY <2>7 DEF Signal, Goto, HandlerOnTop, Armed, FlaggedWhenOff, OffForGood
    <3> QED BY <2>1, <2>7, <3>1 DEF Signal
  <2>8. CASE UNCHANGED vars
    BY <2>8 DEF vars, HandlerOnTop, Armed, FlaggedWhenOff, OffForGood, DrainedAfterFlag
  <2> QED BY <2>2, <2>3, <2>4, <2>5, <2>6, <2>7, <2>8 DEF Next, Terminated
<1> QED BY <1>1, <1>2, TypeCorrect, PTL DEF Spec

(* A tracer that has left has left nothing behind, unless main goes on with  *)
(* its start after the stop.                                                 *)
THEOREM TracersDrain == Spec => []NothingLeftBehind
<1>1. DrainInv => NothingLeftBehind
  BY DEF DrainInv, DrainedAfterFlag, NothingLeftBehind
<1> QED BY <1>1, TracersStopInOrder, PTL

(* The kernel traces only while every CPU has a tracer that reads or is      *)
(* about to, unless main goes on with its start after the stop.              *)
THEOREM TracedCpusAreRead == Spec => []EveryCpuHasReader
<1>1. ReaderInv /\ DrainInv => EveryCpuHasReader
  <2> SUFFICES ASSUME ReaderInv, DrainInv, StopIsFinal, buts, NEW t \in Cpus
               PROVE  tracers_run /\ tpc[t] \in {"unblock", "poll"}
    BY DEF EveryCpuHasReader, ReadWhileTraced, ReaderInv, ReleasedAll
  <2>1. tracers_run /\ tpc[t] \in Running
    BY DEF ReaderInv, ReleasedAll, RunningTracers
  <2>2. tpc[t] \notin {"towait", "blocked"}
    BY <2>1 DEF ReaderInv, Holding
  <2>3. tpc[t] \notin {"drain", "leaving", "left"}
    BY DEF DrainInv, FlaggedWhenOff, DrainedAfterFlag, OffForGood
  <2> QED BY <2>1, <2>2, <2>3 DEF Running, Waiting
<1> QED BY <1>1, TracersReleased, TracersStopInOrder, PTL

-----------------------------------------------------------------------------
(* Sessions of the valtio server that runs the tracers: theorems about       *)
(* ValtioServer, for any number of tries and pieces, any backlog and any     *)
(* stop times.                                                              *)

LEMMA Parameters ==
  /\ Tries \in Nat /\ Tries > 0
  /\ Pieces \in Nat /\ Pieces > 0
  /\ Backlog \in Nat /\ Backlog > 0
  /\ Second \in Nat /\ Second > 0
  /\ \A t \in StopTimes : t \in Nat /\ t > 0
BY ValtioAssumption DEF ValtioAssumption

(* The daemon starts one valtio at a time, a valtio that has no client yet   *)
(* has read nothing of its settings, and only a tracing one has an alarm.    *)
OneValtio == daemon # "drain" => pc = "none"
NothingReadYet == pc \in {"none", "open", "accept"} => got = 0

AlarmOfTrace == alarm > 0 => pc = "trace"

SessionInv == SessionTypeOK /\ OneValtio /\ NothingReadYet /\ AlarmOfTrace

(* What the sessions' states are made of, in every reachable state.          *)
THEOREM SessionTypes == SessionSpec => []SessionInv
<1> USE Parameters
<1>1. SessionInit => SessionInv
  BY DEF SessionInit, SessionInv, SessionTypeOK, OneValtio, NothingReadYet, AlarmOfTrace, Stages
<1>2. SessionInv /\ [SessionNext]_session => SessionInv'
  <2> SUFFICES ASSUME SessionInv, [SessionNext]_session PROVE SessionInv'
    OBVIOUS
  <2> USE DEF SessionInv, SessionTypeOK, OneValtio, NothingReadYet, AlarmOfTrace, Stages, Connection, NoConn, server, tracing
  <2>1. CASE ExitSession /\ pc # "none"
    <3>1. <<>> \in Seq(Connection) /\ Len(<<>>) = 0
      OBVIOUS
    <3>2. backlog' \in Seq(Connection) /\ Len(backlog') = 0
      BY <2>1, <3>1 DEF ExitSession
    <3>3. conn' \in Connection \cup {NoConn}
      BY <2>1 DEF ExitSession
    <3> HIDE DEF Connection, NoConn
    <3> QED BY <2>1, <3>2, <3>3 DEF ExitSession
  <2>2. CASE Popen \/ Drained \/ Slept
    BY <2>2 DEF Popen, Drained, Slept
  <2>3. CASE Listen
    BY <2>1, <2>3 DEF Listen
  <2>4. CASE Accept
    <3>1. CASE pc' = "settings" /\ ~ExitSession
      <4>1. backlog # <<>> /\ conn' = Head(backlog) /\ backlog' = Tail(backlog)
        BY <2>4, <3>1 DEF Accept
      <4>2. conn' \in Connection /\ backlog' \in Seq(Connection) /\ Len(backlog') < Len(backlog)
        <5>1. Len(backlog) > 0
          BY <4>1, EmptySeq
        <5>2. backlog \in Seq(Connection) /\ backlog # <<>>
          BY <4>1
        <5> HIDE DEF Connection
        <5>3. /\ Head(backlog) \in Connection
              /\ Tail(backlog) \in Seq(Connection)
              /\ Len(Tail(backlog)) = Len(backlog) - 1
          BY <5>2, HeadTailProperties
        <5> QED BY <4>1, <5>1, <5>3
      <4>3. tries' = Tries /\ got = 0 /\ UNCHANGED <<daemon, got, tracing>>
        BY <2>4, <3>1 DEF Accept
      <4>4. conn' \in Connection \cup {NoConn} /\ Len(backlog') <= Backlog
        BY <4>2
      <4> HIDE DEF Connection, NoConn
      <4> QED BY <2>4, <3>1, <4>2, <4>3, <4>4 DEF Accept
    <3> QED BY <2>1, <2>4, <3>1 DEF Accept
  <2>5. CASE ReadSettings
    BY <2>5 DEF ReadSettings, Complete, TriesLeft
  <2>6. CASE ReadGone
    BY <2>1, <2>6 DEF ReadGone, TriesLeft
  <2>7. CASE StartTracing \/ StartFails
    BY <2>1, <2>7 DEF StartTracing, StartFails, Watch
  <2>8. CASE BufferComes
    BY <2>8 DEF BufferComes
  <2>9. CASE HandleBuffer
    BY <2>9 DEF HandleBuffer, Rearm
  <2>10. CASE Tick
    BY <2>10 DEF Tick
  <2>11. CASE SignalSession \/ StopSession
    BY <2>1, <2>11 DEF SignalSession, StopSession
  <2>12. CASE Connect
    <3>1. FreshConn \in Connection
      BY DEF FreshConn
    <3>2. backlog' \in Seq(Connection) /\ Len(backlog') = Len(backlog) + 1
      BY <2>12, <3>1 DEF Connect
    <3>3. Len(backlog') <= Backlog
      BY <2>12, <3>2 DEF Connect
    <3> QED BY <2>12, <3>2, <3>3 DEF Connect
  <2>13. CASE ClientSends \/ ClientLeaves
    <3>1. \A k \in Connection : /\ Leaves(k) \in Connection
                                /\ k.sent < Pieces => Sends(k) \in Connection
      <4> SUFFICES ASSUME NEW k \in Connection
                   PROVE  /\ Leaves(k) \in Connection
                          /\ k.sent < Pieces => Sends(k) \in Connection
        OBVIOUS
      <4>1. k.sent < Pieces => k.sent + 1 \in 0..Pieces
        OBVIOUS
      <4> QED BY <4>1 DEF Leaves, Sends
    <3>2. conn.here => conn \in Connection
      OBVIOUS
    <3>3. conn' \in Connection \cup {NoConn}
      BY <2>13, <3>1, <3>2 DEF ClientSends, ClientLeaves
    <3>4. backlog' \in Seq(Connection) /\ Len(backlog') = Len(backlog)
      <4>1. ASSUME NEW i \in DOMAIN backlog, NEW k \in Connection,
                   backlog' = [backlog EXCEPT ![i] = k]
            PROVE  backlog' \in Seq(Connection) /\ Len(backlog') = Len(backlog)
        <5>1. i \in 1..Len(backlog)
          OBVIOUS
        <5>2. backlog \in Seq(Connection)
          OBVIOUS
        <5> HIDE DEF Connection
        <5>3. /\ [backlog EXCEPT ![i] = k] \in Seq(Connection)
              /\ Len([backlog EXCEPT ![i] = k]) = Len(backlog)
          BY <4>1, <5>1, <5>2, ExceptSeq
        <5> QED BY <4>1, <5>3
      <4>2. \A i \in DOMAIN backlog : backlog[i] \in Connection
        <5>1. backlog \in Seq(Connection)
          OBVIOUS
        <5> HIDE DEF Connection
        <5> QED BY <5>1
      <4> QED BY <2>13, <3>1, <4>1, <4>2 DEF ClientSends, ClientLeaves
    <3> QED BY <2>13, <3>3, <3>4 DEF ClientSends, ClientLeaves
  <2>14. CASE UNCHANGED session
    BY <2>14 DEF session
  <2> QED BY <2>2, <2>3, <2>4, <2>5, <2>6, <2>7, <2>8, <2>9, <2>10, <2>11, <2>12, <2>13, <2>14
          DEF SessionNext
<1> QED BY <1>1, <1>2, PTL DEF SessionSpec

(* A session that traces has an alarm due.                                   *)
THEOREM TracingEndsByAlarm == SessionSpec => []AlarmArmed
<1> USE Parameters
<1>1. SessionInit => AlarmArmed
  BY DEF SessionInit, AlarmArmed
<1>2. SessionInv /\ AlarmArmed /\ [SessionNext]_session => AlarmArmed'
  <2> SUFFICES ASSUME SessionInv, AlarmArmed, [SessionNext]_session, pc' = "trace" PROVE alarm' > 0
    BY DEF AlarmArmed
  <2> USE DEF SessionInv, SessionTypeOK, AlarmArmed, ExitSession, server, tracing
  <2>1. CASE StartTracing
    BY <2>1 DEF StartTracing, Watch
  <2>2. CASE HandleBuffer
    BY <2>2 DEF HandleBuffer, Rearm
  <2>3. CASE Tick
    BY <2>3 DEF Tick
  <2>4. CASE ~(StartTracing \/ HandleBuffer \/ Tick)
    <3>1. pc = "trace" /\ UNCHANGED alarm
      BY <2>4 DEF SessionNext, session, Popen, Drained, Slept, Listen, Accept, ReadSettings, ReadGone,
         StartFails, BufferComes, SignalSession, StopSession, Connect, ClientSends, ClientLeaves
    <3> QED BY <3>1
  <2> QED BY <2>1, <2>2, <2>3, <2>4
<1> QED BY <1>1, <1>2, SessionTypes, PTL DEF SessionSpec
=============================================================================
