----------------------------- MODULE ValtioServer -----------------------------
(***************************************************************************)
(* The trace server as a process: daemon.c starts valtio again and again,  *)
(* valtio.c serves one client and exits, socket_comm.c is its connection.  *)
(* Tracing itself is in Tracers and TraceQueue; here it is a stage that    *)
(* buffers of events arrive in and that an alarm ends.                     *)
(*                                                                         *)
(* Time passes in ticks, of which a second has more than one: a write may  *)
(* fail several times within the second that alarm(1) grants.              *)
(*                                                                         *)
(* Its definitions have names of their own (SessionSpec, SessionInit, ...),*)
(* so that a module can extend this one and Tracers.                       *)
(***************************************************************************)
EXTENDS Integers, SequencesExt

CONSTANTS
  Tries,          (* reads of the settings before giving up (10)              *)
  Pieces,         (* packets a client's settings come in, the newline last    *)
  Backlog,        (* connections that may wait to be accepted (5)             *)
  Second,         (* ticks in a second                                        *)
  StopTimes,      (* the stop times clients ask for, in ticks                 *)
  TracersMayFail  (* may a tracer fail to open its file?                      *)

ASSUME ValtioAssumption ==
  /\ {Tries, Pieces, Backlog, Second} \subseteq Nat \ {0}
  /\ StopTimes \subseteq Nat \ {0}
  /\ TracersMayFail \in BOOLEAN

VARIABLES
  daemon,    (* "popen", "drain", "sleep"                                     *)
  pc,        (* where valtio is; "none" while it does not run                 *)
  backlog,   (* connections the kernel made and valtio did not accept         *)
  conn,      (* connfd                                                        *)
  got,       (* pieces of the settings read                                   *)
  tries,     (* reads left                                                    *)
  alarm,     (* ticks until SIGALRM, 0 if none is due                         *)
  buffers    (* event buffers waiting for the main thread                     *)

server == <<pc, backlog, conn, got, tries>>
tracing == <<alarm, buffers>>
session == <<daemon, server, tracing>>

(* A connection as the kernel holds it: what the client sent and whether it  *)
(* is still there.                                                          *)
Connection == [here : BOOLEAN, sent : 0..Pieces]
NoConn == [here |-> FALSE, sent |-> -1]
FreshConn == [here |-> TRUE, sent |-> 0]

SessionInit ==
  /\ daemon = "popen"
  /\ pc = "none"
  /\ backlog = <<>>
  /\ conn = NoConn
  /\ got = 0 /\ tries = 0
  /\ alarm = 0 /\ buffers = 0
-----------------------------------------------------------------------------
(* daemon.c: popen, fgets until valtio has closed its end, pclose, sleep(3). *)
Popen ==
  /\ daemon = "popen"
  /\ daemon' = "drain"
  /\ pc' = "open"
  /\ UNCHANGED <<backlog, conn, got, tries, tracing>>
Drained ==
  /\ daemon = "drain" /\ pc = "none"
  /\ daemon' = "sleep"
  /\ UNCHANGED <<server, tracing>>
Slept ==
  /\ daemon = "sleep"
  /\ daemon' = "popen"
  /\ UNCHANGED <<server, tracing>>

(* The process ends: the kernel closes connfd and listenfd, which nobody     *)
(* closed before, and drops the connections that waited.                    *)
ExitSession ==
  /\ pc' = "none"
  /\ backlog' = <<>>
  /\ conn' = NoConn
  /\ got' = 0 /\ tries' = 0
  /\ alarm' = 0 /\ buffers' = 0
  /\ UNCHANGED daemon

(* openConnection, up to listen; then accept and the look-up of the name.    *)
Listen ==
  /\ pc = "open"
  /\ \/ pc' = "accept" /\ UNCHANGED <<daemon, backlog, conn, got, tries, tracing>>
     \/ ExitSession
Accept ==
  /\ pc = "accept" /\ backlog # <<>>
  /\ \/ /\ conn' = Head(backlog)
        /\ backlog' = Tail(backlog)
        /\ pc' = "settings"
        /\ tries' = Tries
        /\ UNCHANGED <<daemon, got, tracing>>
     \/ ExitSession

(* getSettingFromClient: read returns pieces that have come, or nothing if   *)
(* the client is gone; otherwise it blocks.                                 *)
SameTries == tries
TriesLeft == tries - 1
Complete(n) == n = Pieces
ReadSettings ==
  /\ pc = "settings"
  /\ conn.sent > got \/ ~conn.here
  /\ \E n \in IF conn.sent > got THEN got + 1 .. conn.sent ELSE {got} :
       /\ got' = n
       /\ tries' = TriesLeft
       /\ pc' = IF Complete(n) \/ TriesLeft = 0 THEN "start" ELSE "settings"
  /\ UNCHANGED <<daemon, backlog, conn, tracing>>

(* With the client gone read may also fail; and with nothing read at all     *)
(* the test for the newline looks before the buffer, where it may find one. *)
ReadGone ==
  /\ pc = "settings" /\ ~conn.here
  /\ \/ ExitSession
     \/ /\ got = 0 /\ conn.sent = 0
        /\ pc' = "start"
        /\ tries' = TriesLeft
        /\ UNCHANGED <<daemon, backlog, conn, got, tracing>>

(* startBlktrace.  Incomplete settings leave device or stopTime unset: the   *)
(* program crashes, fails on the arguments or traces for some time.  With   *)
(* a tracer that failed run_tracers sets no alarm, and waits.               *)
NoAlarm(t) == 0
Watch(t) == t
StartTracing ==
  /\ pc = "start"
  /\ \/ \E t \in StopTimes : alarm' = Watch(t) /\ pc' = "trace"
     \/ TracersMayFail /\ pc' = "stuck" /\ UNCHANGED alarm
  /\ UNCHANGED <<daemon, backlog, conn, got, tries, buffers>>
StartFails == pc = "start" /\ ExitSession

(* A tracer hands a buffer to the main thread; on a busy device there is     *)
(* always another.                                                          *)
BufferComes ==
  /\ pc = "trace"
  /\ buffers = 0
  /\ buffers' = 1
  /\ UNCHANGED <<daemon, server, alarm>>

(* handle_list_file with sendTraceToClient: writes go well while the client  *)
(* is there and may still go well when it has left; the first that fails    *)
(* ends the buffer and arms the alarm anew.  The main thread's own copy of  *)
(* socketError stays 0, so later buffers are tried all the same.            *)
WriteFails == ~conn.here
Rearm == Second
HandleBuffer ==
  /\ pc = "trace"
  /\ buffers > 0
  /\ buffers' = buffers - 1
  /\ \/ UNCHANGED alarm
     \/ WriteFails /\ alarm' = Rearm
  /\ UNCHANGED <<daemon, server>>

(* A tick, and SIGALRM with the last one.                                   *)
Tick ==
  /\ alarm > 0
  /\ alarm' = alarm - 1
  /\ pc' = IF alarm = 1 THEN "stop" ELSE pc
  /\ UNCHANGED <<daemon, backlog, conn, got, tries, buffers>>

(* SIGINT, SIGHUP, SIGTERM: handled by stop from just before startBlktrace   *)
(* on, deadly before, ignored within stop.                                  *)
SignalSession ==
  \/ /\ pc \in {"start", "trace", "stuck"}
     /\ pc' = "stop"
     /\ alarm' = 0
     /\ UNCHANGED <<daemon, backlog, conn, got, tries, buffers>>
  \/ pc \in {"open", "accept", "settings"} /\ ExitSession

(* stop: stopBlktrace, closeConnection, exit.                               *)
StopSession == pc = "stop" /\ ExitSession
-----------------------------------------------------------------------------
(* The clients: the kernel completes their connections while a socket        *)
(* listens, also during another client's session.                           *)
Connect ==
  /\ pc \notin {"none", "open"}
  /\ Len(backlog) < Backlog
  /\ backlog' = Append(backlog, FreshConn)
  /\ UNCHANGED <<daemon, pc, conn, got, tries, tracing>>

Sends(k) == [k EXCEPT !.sent = @ + 1]
Leaves(k) == [k EXCEPT !.here = FALSE]

ClientSends ==
  /\ \/ /\ conn.here /\ conn.sent < Pieces
        /\ conn' = Sends(conn) /\ UNCHANGED backlog
     \/ /\ \E i \in DOMAIN backlog :
             /\ backlog[i].here /\ backlog[i].sent < Pieces
             /\ backlog' = [backlog EXCEPT ![i] = Sends(@)]
        /\ UNCHANGED conn
  /\ UNCHANGED <<daemon, pc, got, tries, tracing>>

ClientLeaves ==
  /\ \/ conn.here /\ conn' = Leaves(conn) /\ UNCHANGED backlog
     \/ /\ \E i \in DOMAIN backlog :
             backlog[i].here /\ backlog' = [backlog EXCEPT ![i] = Leaves(@)]
        /\ UNCHANGED conn
  /\ UNCHANGED <<daemon, pc, got, tries, tracing>>

SessionNext ==
  \/ Popen \/ Drained \/ Slept
  \/ Listen \/ Accept \/ ReadSettings \/ ReadGone \/ StartTracing \/ StartFails
  \/ BufferComes \/ HandleBuffer \/ Tick \/ SignalSession \/ StopSession
  \/ Connect \/ ClientSends \/ ClientLeaves

SessionSpec == SessionInit /\ [][SessionNext]_session

(* The processes run and time passes; clients, signals and events need not   *)
(* come.  That stop ends is TraceQueue's concern and assumed here.          *)
FairSessionSpec ==
  /\ SessionSpec
  /\ WF_session(Popen) /\ WF_session(Drained) /\ WF_session(Slept)
  /\ WF_session(Listen) /\ WF_session(Accept) /\ WF_session(ReadSettings)
  /\ WF_session(StartTracing \/ StartFails)
  /\ WF_session(HandleBuffer) /\ WF_session(Tick) /\ WF_session(StopSession)
-----------------------------------------------------------------------------
Stages == {"none", "open", "accept", "settings", "start", "trace", "stuck", "stop"}
SessionTypeOK ==
  /\ daemon \in {"popen", "drain", "sleep"}
  /\ pc \in Stages
  /\ backlog \in Seq(Connection) /\ Len(backlog) <= Backlog
  /\ conn \in Connection \cup {NoConn}
  /\ got \in IF pc = "settings" THEN 0..Pieces - 1 ELSE 0..Pieces
  /\ tries \in IF pc = "settings" THEN 1..Tries ELSE 0..Tries
  /\ alarm \in Nat
  /\ buffers \in 0..1

(* No session without an end in sight: while valtio traces, SIGALRM is due   *)
(* (alarm(stop_watch) in run_tracers, alarm(1) in sendTraceToClient).       *)
AlarmArmed == pc = "trace" => alarm > 0

(* A session ends by itself (the loop of getSettingFromClient, the alarms,   *)
(* stop), but for three cases: a tracer failed, when run_tracers sets no    *)
(* alarm; the client stays and does not complete its settings; or it has    *)
(* left and events keep coming, when each failed write may put the alarm    *)
(* off (issue.txt's second item).                                           *)
ServerFreed ==
  [](conn # NoConn =>
       \/ <>(conn = NoConn)
       \/ <>[](pc = "stuck")
       \/ <>[](pc = "settings" /\ conn.here)
       \/ []<>(pc = "trace" /\ ~conn.here /\ buffers > 0))

(* blktrace.c's usage: "-w Stop after defined time, in seconds".            *)
TracingStops == pc \in {"trace", "stuck"} ~> pc \notin {"trace", "stuck"}
=============================================================================
