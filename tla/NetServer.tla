------------------------------ MODULE NetServer ------------------------------
(***************************************************************************)
(* blktrace.c over the network: clients (blktrace -h) send what their      *)
(* tracers read to a server (blktrace -l), which keeps a host entry        *)
(* (struct cl_host) for each client machine with the connections and the   *)
(* devices of it, and a file for each CPU and device.  A client announces  *)
(* each CPU's part of a device with an open header and ends it with a      *)
(* close header; the server answers both, counts them in cl_opens, and     *)
(* ends the session of the host when the count comes back to 0.            *)
(*                                                                         *)
(* There are two ways to send.  With sendfile() each tracer has a          *)
(* connection for each device, and opens, fills and closes it alone; with  *)
(* -s there is a connection for each CPU, the tracers only announce their  *)
(* devices, and main sends what they queued and the closes in the end.     *)
(*                                                                         *)
(* The contents of the data are left out, its lengths are kept; the queue  *)
(* between tracers and main is module TraceQueue, the rest of the life of  *)
(* a tracer Tracers.                                                       *)
(***************************************************************************)
EXTENDS MmapFile, SequencesExt

CONSTANTS
  Hosts,
  NCpus, NDevs,     (* at most so many CPUs and devices has a host             *)
  MaxData,          (* bound: what one CPU's part of a device may amount to    *)
  Ways              (* the ways in which client and server are used            *)

(* A way: sending with sendfile or with send; the hosts in use, their CPUs,  *)
(* devices and runs one after the other, and the bytes of a CPU's part of a  *)
(* device; whether a run may be stopped before it traces, whether opening    *)
(* may fail, and which hosts' clients may be killed.                         *)
Way == [use : {"sendfile", "send"}, hosts : SUBSET Hosts, cpus : 1..NCpus,
        devs : 1..NDevs, runs : Nat, data : 1..MaxData,
        early : BOOLEAN, fails : BOOLEAN, dies : SUBSET Hosts]

ASSUME NetAssumption ==
  /\ {NCpus, NDevs, MaxData} \subseteq Nat \ {0}
  /\ \A w \in Ways : w \in Way

VARIABLES
  how,
  run,        (* cl_id: the runs of each client are numbered                   *)
  main,       (* what each client's main is about to do                       *)
  done,       (* each client's `done`                                         *)
  tpc, ios,   (* what each thread is about to do, and with which io_info       *)
  failed,     (* nthreads_error, as a set                                     *)
  conn,       (* the connections: what is under way in them, and their ends   *)
  backlog,    (* connected, not yet accepted                                  *)
  ch,         (* ns->ch_list                                                  *)
  exited,     (* the server has given up                                      *)
  sent, filed,   (* history: bytes sent and filed of each run                  *)
  ended       (* history: runs whose session the server ended                 *)

client == <<run, main, done, tpc, ios, failed, sent>>
server == <<ch, exited, filed, ended>>
vars == <<how, client, conn, backlog, server>>

Send == how.use = "send"
Cpus == 1..NCpus
Devs == 1..NDevs
CpusUsed == 1..how.cpus
Lens == 1..MaxLen

(* Thread 0 is main.                                                         *)
Threads == 0..NCpus
(* f with an entry for x, if it has none.                                    *)
Added(f, x, new) == [y \in DOMAIN f \cup {x} |-> IF y \in DOMAIN f THEN f[y] ELSE new]

ConnOf(h, cpu, d) == <<h, run[h], cpu, IF Send THEN 0 ELSE d>>
ConnsOf(h) == {c \in DOMAIN conn : c[1] = h}

Init ==
  /\ how \in Ways
  /\ run = [h \in Hosts |-> 0]
  /\ main = [h \in Hosts |-> "off"]
  /\ done = [h \in Hosts |-> FALSE]
  /\ tpc = [h \in Hosts |-> [t \in Threads |-> "none"]]
  /\ ios = [h \in Hosts |-> [t \in Threads |-> 0]]
  /\ failed = [h \in Hosts |-> {}]
  /\ conn = <<>>
  /\ backlog = <<>>
  /\ ch = <<>>
  /\ exited = FALSE
  /\ sent = <<>>
  /\ filed = <<>>
  /\ ended = {}
-----------------------------------------------------------------------------
(* The sockets.  A connection the server has closed is not in conn.          *)

Header(type, d, len) == [type |-> type, dev |-> d, len |-> len]

(* A piece of data with its header: len of the told bytes arrive.             *)
Piece(d, told, len) == [type |-> "data", dev |-> d, told |-> told, len |-> len]

NewConn(messages) == [up |-> messages, acks |-> 0, client |-> "here", accepted |-> FALSE]

(* conn after the message was sent over c; nothing is sent if c is gone.     *)
Sent(c, message) ==
  IF c \in DOMAIN conn THEN [conn EXCEPT ![c].up = Append(@, message)] ELSE conn

(* A receive ends with the answer, or when the connection is gone.           *)
AlwaysAnswered(c) == TRUE
Answered(c) == c \in DOMAIN conn => conn[c].acks > 0
TakeAnswer(c) == IF c \in DOMAIN conn THEN [conn EXCEPT ![c].acks = @ - 1] ELSE conn

(* The clients' ends of the connections cs are closed, or lost with a client *)
(* that is killed.                                                           *)
Shut(cs, f) ==
  [c \in DOMAIN f |-> IF c \in cs THEN [f[c] EXCEPT !.client = "closed"] ELSE f[c]]
Killed(cs, f) ==
  [c \in DOMAIN f |-> IF c \in cs /\ f[c].client = "here"
                     THEN [f[c] EXCEPT !.client = "killed"] ELSE f[c]]
-----------------------------------------------------------------------------
(* The client.                                                               *)

Goto(h, label) == main' = [main EXCEPT ![h] = label]
TGoto(h, t, label) == tpc' = [tpc EXCEPT ![h][t] = label]

StartRun(h) ==
  /\ h \in how.hosts /\ main[h] = "off" /\ run[h] < how.runs
  /\ run' = [run EXCEPT ![h] = @ + 1]
  /\ done' = [done EXCEPT ![h] = FALSE]
  /\ Goto(h, IF Send THEN "connect" ELSE "tracers")
  /\ tpc' = [tpc EXCEPT ![h] = [t \in Threads |-> IF t \in CpusUsed THEN "open" ELSE "none"]]
  /\ ios' = [ios EXCEPT ![h] = [t \in Threads |-> IF t \in CpusUsed THEN 1 ELSE 0]]
  /\ failed' = [failed EXCEPT ![h] = {}]
  /\ UNCHANGED <<how, sent, conn, backlog, server>>

(* The process is gone; f are the connections then.                          *)
Gone(h, f) ==
  /\ Goto(h, "off")
  /\ tpc' = [tpc EXCEPT ![h] = [t \in Threads |-> "none"]]
  /\ ios' = [ios EXCEPT ![h] = [t \in Threads |-> 0]]
  /\ conn' = f
  /\ UNCHANGED <<how, run, done, failed, sent, backlog, server>>

(* open_client_connections: one connection after the other.                  *)
Unconnected(h) == {cpu \in CpusUsed : <<h, run[h], cpu, 0>> \notin DOMAIN conn}
OpenClientConnection(h) ==
  /\ main[h] = "connect" /\ ~exited
  /\ LET c == <<h, run[h], Min(Unconnected(h)), 0>> IN
     /\ conn' = Added(conn, c, NewConn(<<>>))
     /\ backlog' = Append(backlog, c)
  /\ Goto(h, IF Cardinality(Unconnected(h)) = 1 THEN "tracers" ELSE "connect")
  /\ UNCHANGED <<how, run, done, tpc, ios, failed, sent, server>>

ConnectFails(h) ==
  (how.fails \/ exited) /\ main[h] = "connect" /\ Gone(h, Shut(ConnsOf(h), conn))

(* open_ios, for the device ios[h][t].  net_send_open does not wait for the   *)
(* answer when done is set.                                                  *)
Opening(h, t) == main[h] \in {"tracers", "stopped"} /\ t # 0 /\ tpc[h][t] = "open"
Opened(h, t) ==
  IF ios[h][t] < how.devs
  THEN /\ TGoto(h, t, "open")
       /\ ios' = [ios EXCEPT ![h][t] = @ + 1]
  ELSE /\ TGoto(h, t, "ready")
       /\ UNCHANGED ios
OpenIo(h, t) ==
  /\ Opening(h, t)
  /\ LET d == ios[h][t]
         c == ConnOf(h, t, d)
     IN IF Send
        THEN conn' = Sent(c, Header("open", d, 0)) /\ UNCHANGED backlog
        ELSE /\ ~exited
             /\ conn' = Added(conn, c, NewConn(<<Header("open", d, 0)>>))
             /\ backlog' = Append(backlog, c)
  /\ IF done[h] THEN Opened(h, t) ELSE TGoto(h, t, "answer") /\ UNCHANGED ios
  /\ UNCHANGED <<how, run, main, done, failed, sent, server>>

OpenAnswered(h, t) ==
  /\ tpc[h][t] = "answer"
  /\ Answered(ConnOf(h, t, ios[h][t]))
  /\ conn' = TakeAnswer(ConnOf(h, t, ios[h][t]))
  /\ Opened(h, t)
  /\ UNCHANGED <<how, run, main, done, failed, sent, backlog, server>>

(* The trace file cannot be opened: open_ios returns at once.                *)
TraceFileFails(h, t) ==
  /\ how.fails /\ Opening(h, t)
  /\ failed' = [failed EXCEPT ![h] = @ \cup {t}]
  /\ TGoto(h, t, "left")
  /\ UNCHANGED <<how, run, main, done, ios, sent, conn, backlog, server>>

(* The server cannot be reached: what was opened so far is closed.           *)
SetupClientFails(h, t) ==
  /\ (how.fails \/ exited) /\ Opening(h, t) /\ ~Send
  /\ failed' = [failed EXCEPT ![h] = @ \cup {t}]
  /\ ios' = [ios EXCEPT ![h][t] = @ - 1]
  /\ TGoto(h, t, "close")
  /\ UNCHANGED <<how, run, main, done, sent, conn, backlog, server>>

(* start_tracers has seen all of them ready or failed.                       *)
SomeReady(h) == \E t \in CpusUsed : tpc[h][t] = "ready"
AllReady(h) == \A t \in CpusUsed : tpc[h][t] \in {"ready", "left"}
Unblock(h) ==
  /\ main[h] \in {"tracers", "stopped"}
  /\ AllReady(h)
  /\ Goto(h, IF main[h] = "tracers" /\ failed[h] = {} THEN "run" ELSE "stop")
  /\ tpc' = [tpc EXCEPT ![h] = [t \in Threads |-> IF @[t] = "ready" THEN "run" ELSE @[t]]]
  /\ UNCHANGED <<how, run, done, ios, failed, sent, conn, backlog, server>>

(* handle_pfds_netclient, with sendfile in a tracer, or handle_list_net in   *)
(* main, with send.                                                          *)
MaySend(h, t) ==
  /\ failed[h] = {}
  /\ IF Send THEN main[h] \in {"run", "stop"} ELSE tpc[h][t] = "run"
Bytes(f, h, r, t, d) == IF <<h, r, t, d>> \in DOMAIN f THEN f[<<h, r, t, d>>] ELSE 0
Counted(f, h, r, t, d, len) ==
  LET k == <<h, r, t, d>>
  IN  [x \in DOMAIN f \cup {k} |-> IF x = k THEN Bytes(f, h, r, t, d) + len ELSE f[x]]
SendData(h, t, d, len) ==
  /\ MaySend(h, t) /\ d <= how.devs
  /\ Bytes(sent, h, run[h], t, d) + len <= how.data
  /\ ConnOf(h, t, d) \in DOMAIN conn
  /\ conn' = Sent(ConnOf(h, t, d), Piece(d, len, len))
  /\ sent' = Counted(sent, h, run[h], t, d, len)
  /\ UNCHANGED <<how, run, main, done, tpc, ios, failed, backlog, server>>

(* A signal, or the end of the time: handle_sigint.                          *)
Stop(h) ==
  /\ \/ main[h] = "run" /\ Goto(h, "stop")
     \/ main[h] = "tracers" /\ how.early /\ Goto(h, "stopped")
  /\ done' = [done EXCEPT ![h] = TRUE]
  /\ UNCHANGED <<how, run, tpc, ios, failed, sent, conn, backlog, server>>

(* A tracer has read everything and leaves, with sendfile by close_ios.      *)
Leave(h, t) ==
  /\ tpc[h][t] = "run" /\ main[h] = "stop"
  /\ TGoto(h, t, IF Send THEN "left" ELSE "close")
  /\ UNCHANGED <<how, run, main, done, ios, failed, sent, conn, backlog, server>>

AllLeft(h) == main[h] = "stop" /\ \A t \in CpusUsed : tpc[h][t] = "left"

(* close_client_connections, by main.                                        *)
CloseClientConnections(h) ==
  /\ AllLeft(h) /\ Send
  /\ Goto(h, "close")
  /\ TGoto(h, 0, "close")
  /\ ios' = [ios EXCEPT ![h][0] = how.cpus * how.devs]
  /\ UNCHANGED <<how, run, done, failed, sent, conn, backlog, server>>

(* What thread t closes next: a tracer its last io_info, main the devices of *)
(* the first connection, and so on.                                          *)
ClosingDev(h, t) ==
  IF t = 0 THEN how.devs - ((ios[h][0] - 1) % how.devs) ELSE ios[h][t]
ClosingConn(h, t) ==
  ConnOf(h, IF t = 0 THEN how.cpus - ((ios[h][0] - 1) \div how.devs) ELSE t,
         ClosingDev(h, t))

(* net_send_close clears `done`, so that the answer can be read ...          *)
SendClose(h, t) ==
  /\ tpc[h][t] = "close" /\ ios[h][t] > 0
  /\ conn' = Sent(ClosingConn(h, t), Header("close", ClosingDev(h, t), 1))
  /\ done' = [done EXCEPT ![h] = FALSE]
  /\ TGoto(h, t, "check")
  /\ UNCHANGED <<how, run, main, ios, failed, sent, backlog, server>>

(* ... and sets it again; then the connection is closed after its last one.  *)
Closed(h, t, f) ==
  /\ done' = [done EXCEPT ![h] = TRUE]
  /\ conn' = IF t = 0 /\ ClosingDev(h, t) < how.devs THEN f ELSE Shut({ClosingConn(h, t)}, f)
  /\ ios' = [ios EXCEPT ![h][t] = @ - 1]
  /\ TGoto(h, t, "close")
  /\ UNCHANGED <<how, run, main, failed, sent, backlog, server>>

(* __net_recv_data's loop looks at `done` once, and blocks.                   *)
WaitAnswer(h, t) ==
  /\ tpc[h][t] = "check" /\ ~done[h]
  /\ TGoto(h, t, "closing")
  /\ UNCHANGED <<how, run, main, done, ios, failed, sent, conn, backlog, server>>
NoAnswer(h, t) == tpc[h][t] = "check" /\ done[h] /\ Closed(h, t, conn)
CloseAnswered(h, t) ==
  /\ tpc[h][t] = "closing" /\ Answered(ClosingConn(h, t))
  /\ Closed(h, t, TakeAnswer(ClosingConn(h, t)))

AllClosed(h, t) ==
  /\ tpc[h][t] = "close" /\ ios[h][t] = 0
  /\ TGoto(h, t, "left")
  /\ UNCHANGED <<how, run, main, done, ios, failed, sent, conn, backlog, server>>

Exit(h) ==
  /\ IF Send THEN main[h] = "close" /\ tpc[h][0] = "left" ELSE AllLeft(h)
  /\ Gone(h, Shut(ConnsOf(h), conn))

Die(h) == h \in how.dies /\ main[h] # "off" /\ Gone(h, Killed(ConnsOf(h), conn))

(* What a killed client had sent, or was sending, need not arrive: its        *)
(* connections may end anywhere, in the middle of a message, too.            *)
Shortened(m) ==
  IF m.type = "data" THEN {Piece(m.dev, m.told, n) : n \in 0..m.len - 1} ELSE {}
Lose(c) ==
  /\ conn[c].client = "killed" /\ conn[c].up # <<>>
  /\ LET u == conn[c].up
         m == u[Len(u)]
     IN \/ conn' = [conn EXCEPT ![c].up = Front(u)]
        \/ \E cut \in Shortened(m) \cup {Header("cut", m.dev, 0)} :
             conn' = [conn EXCEPT ![c].up = Append(Front(u), cut)]
  /\ UNCHANGED <<how, client, backlog, server>>
-----------------------------------------------------------------------------
(* The server.  A connection whose client is gone stays as it is: reading 0  *)
(* bytes changes nothing (net_client_data).                                  *)

NewHost == [cl_opens |-> 0, devs |-> <<>>]

(* net_add_connection with ch_add_connection.                                *)
AddConnection ==
  /\ backlog # <<>>
  /\ LET c == Head(backlog) IN
     /\ conn' = [conn EXCEPT ![c].accepted = TRUE]
     /\ ch' = Added(ch, c[1], NewHost)
  /\ backlog' = Tail(backlog)
  /\ UNCHANGED <<how, client, exited, filed, ended>>

(* nc_add_dpp and iop_open: the device's files, one for each CPU.            *)
NewDev(id) == [id |-> id, ios |-> [t \in Cpus |-> init_mmap_info], runs |-> {}]

(* nc_find_dpp, by name: devs with d, added if need be.                       *)
FindDpp(devs, d, id) == Added(devs, d, NewDev(id))

NextMessage(c) == conn[c].up[1]
Received(c, type) ==
  /\ conn[c].accepted /\ conn[c].up # <<>>
  /\ NextMessage(c).type = type
Taken(c, acks) ==
  [conn EXCEPT ![c] = [up |-> Tail(@.up), acks |-> @.acks + acks,
                       client |-> @.client, accepted |-> @.accepted]]

(* The device of a message is looked up, and cl_opens changed by opens.      *)
Counting(c, opens) ==
  ch' = [ch EXCEPT ![c[1]] = [devs |-> FindDpp(@.devs, NextMessage(c).dev, c[2]),
                              cl_opens |-> @.cl_opens + opens]]

ClientOpens(c) ==
  /\ Received(c, "open")
  /\ conn' = Taken(c, 1)
  /\ Counting(c, 1)
  /\ UNCHANGED <<how, client, backlog, exited, filed, ended>>

(* net_client_read_data: there is room made for what the header told, and    *)
(* what came is put, which is less when the client was killed.               *)
Filled(dpp, c, told, len) ==
  [id |-> dpp.id, ios |-> [dpp.ios EXCEPT ![c[3]] = Put(@, told, len)],
   runs |-> IF len > 0 THEN dpp.runs \cup {c[2]} ELSE dpp.runs]
ReadData(c) ==
  /\ Received(c, "data")
  /\ LET d    == NextMessage(c).dev
         told == NextMessage(c).told
         len  == NextMessage(c).len
         devs == FindDpp(ch[c[1]].devs, d, c[2])
     IN /\ ch' = [ch EXCEPT ![c[1]].devs = [devs EXCEPT ![d] = Filled(@, c, told, len)]]
        /\ filed' = Counted(filed, c[1], c[2], c[3], d, len)
  /\ conn' = Taken(c, 0)
  /\ UNCHANGED <<how, client, backlog, exited, ended>>

(* net_get_header has a part of a header only: the server exits, and all the *)
(* connections and hosts with it.                                            *)
ServerExits(c) ==
  /\ Received(c, "cut")
  /\ exited' = TRUE
  /\ conn' = <<>>
  /\ backlog' = <<>>
  /\ ch' = <<>>
  /\ UNCHANGED <<how, client, filed, ended>>

(* The last close: show_stats and net_ch_remove.                             *)
AnyClose(h) == TRUE
CountedBefore(h) == ch[h].cl_opens = 0
LastClose(h) == ch[h].cl_opens = 1
ClientCloses(c) ==
  /\ Received(c, "close")
  /\ LET h == c[1] IN
     IF LastClose(h)
     THEN /\ ch' = [g \in DOMAIN ch \ {h} |-> ch[g]]
          /\ conn' = [x \in {y \in DOMAIN conn : y[1] # h \/ ~conn[y].accepted} |-> conn[x]]
          /\ ended' = ended \cup {<<h, ch[h].devs[d].id>> : d \in DOMAIN ch[h].devs}
     ELSE /\ Counting(c, -1)
          /\ conn' = Taken(c, 1)
          /\ UNCHANGED ended
  /\ UNCHANGED <<how, client, backlog, exited, filed>>
-----------------------------------------------------------------------------
Tracer(h, t) ==
  \/ OpenIo(h, t) \/ OpenAnswered(h, t)
  \/ TraceFileFails(h, t) \/ SetupClientFails(h, t)
  \/ Leave(h, t)
  \/ SendClose(h, t) \/ WaitAnswer(h, t) \/ NoAnswer(h, t) \/ CloseAnswered(h, t)
  \/ AllClosed(h, t)

Main(h) ==
  \/ OpenClientConnection(h) \/ ConnectFails(h)
  \/ Unblock(h) \/ CloseClientConnections(h) \/ Exit(h)

Handle(c) == ClientOpens(c) \/ ReadData(c) \/ ClientCloses(c) \/ ServerExits(c)

Next ==
  \/ \E h \in Hosts : StartRun(h) \/ Main(h) \/ Stop(h) \/ Die(h)
  \/ \E h \in Hosts, t \in Threads : Tracer(h, t)
  \/ \E h \in Hosts, t \in Cpus, d \in Devs, len \in Lens : SendData(h, t, d, len)
  \/ AddConnection
  \/ \E c \in DOMAIN conn : Handle(c) \/ Lose(c)

(* The server's loop goes round while something is readable, and the threads *)
(* of a client run; whether a run is begun, and data found, is open.          *)
Fairness ==
  /\ WF_vars(AddConnection)
  /\ WF_vars(\E c \in DOMAIN conn : Handle(c))
  /\ \A h \in Hosts : WF_vars(Main(h)) /\ WF_vars(\E t \in Threads : Tracer(h, t))

Spec == Init /\ [][Next]_vars /\ Fairness
-----------------------------------------------------------------------------
Labels == {"none", "open", "answer", "ready", "run", "close", "check", "closing", "left"}

Message ==
  [type : {"open", "close", "cut"}, dev : Int, len : {0, 1}] \cup
  {m \in [type : {"data"}, dev : Devs, told : Lens, len : Nat] : m.len <= m.told}
Connection == [up : Seq(Message), acks : Nat, client : {"here", "closed", "killed"},
               accepted : BOOLEAN]
Device == [id : Nat, ios : [Cpus -> Mip], runs : SUBSET Nat]

TypeOK ==
  /\ how \in Ways
  /\ run \in [Hosts -> Nat]
  /\ main \in [Hosts -> {"off", "connect", "tracers", "stopped", "run", "stop", "close"}]
  /\ done \in [Hosts -> BOOLEAN]
  /\ tpc \in [Hosts -> [Threads -> Labels]]
  /\ ios \in [Hosts -> [Threads -> 0..NCpus * NDevs]]
  /\ failed \in [Hosts -> SUBSET Cpus]
  /\ \A c \in DOMAIN conn : conn[c] \in Connection
  /\ \A i \in DOMAIN backlog : backlog[i] \in DOMAIN conn
  /\ exited \in BOOLEAN
  /\ \A h \in DOMAIN ch : /\ ch[h].cl_opens \in Int
                          /\ \A d \in DOMAIN ch[h].devs : ch[h].devs[d] \in Device

(* "len == 1 means that the other end signalled end-of-run": when the server  *)
(* ends a session, all that the run had sent, over any of its connections,   *)
(* is in the files.                                                          *)
EndOfRunComplete ==
  \A f \in DOMAIN sent :
    <<f[1], f[2]>> \in ended => sent[f] = Bytes(filed, f[1], f[2], f[3], f[4])

(* open_ios: "This ensures that the server knows about all connections &     *)
(* devices before _any_ closes": a client that sends a close has every       *)
(* connection accepted and every part announced.                             *)
KnownBeforeCloses ==
  [][\A c \in DOMAIN conn :
       ClientCloses(c) /\ failed[c[1]] = {} /\ c[1] \notin how.dies =>
         \A t \in CpusUsed, d \in 1..how.devs :
           LET o == <<c[1], c[2], t, IF Send THEN 0 ELSE d>> IN
           /\ o \in DOMAIN conn
           /\ conn[o].accepted
           /\ ~\E i \in DOMAIN conn[o].up : conn[o].up[i].type = "open"]_vars

(* The files, which MmapFile describes: what arrives fits into the window    *)
(* and goes behind what is there, where PiecesFit.                           *)
FilesSound ==
  \A h \in DOMAIN ch : \A d \in DOMAIN ch[h].devs : \A t \in Cpus :
    WindowSound(ch[h].devs[d].ios[t]) /\ PieceFits(ch[h].devs[d].ios[t])

(* No file holds data of two runs.  It takes a run that ended its session    *)
(* before the next began: see CloseAcknowledged.                             *)
OneRunPerFile ==
  \A h \in DOMAIN ch : \A d \in DOMAIN ch[h].devs : ch[h].devs[d].runs \subseteq {ch[h].devs[d].id}

(* An orderly client's session ends: it is not kept by the server once the   *)
(* process has gone.                                                         *)
SessionEnds ==
  \A h \in Hosts :
    main[h] = "stop" /\ failed[h] = {} /\ h \notin how.dies ~> h \notin DOMAIN ch

(* The server outlives the clients that are killed.                          *)
ServerStays == ~exited

(* net_send_close: "Need to clear/set done around call - done=1 [...] stops  *)
(* reads from happening": the answer to a close has been read when the       *)
(* connection is closed.                                                     *)
CloseAcknowledged ==
  [][\A h \in Hosts, t \in Threads : NoAnswer(h, t) => Answered(ClosingConn(h, t))]_vars
=============================================================================
