------------------------------ MODULE TraceQueue ------------------------------
(***************************************************************************)
(* The piped output of blktrace.c.  Each tracer reads the relay buffers of *)
(* its CPU and appends what it read, one trace_buf per device, to the list *)
(* of that device and CPU; dp_entries counts the buffers handed over.      *)
(* Main takes the lists, cuts the buffers into events, sends these to the  *)
(* client and keeps what is left of the last buffer for the next pass.     *)
(* server-proto sends an event before it sees that its pdu is cut off, and *)
(* sends it again when the rest is there.                                  *)
(* A signal ends the collection.  In valtio_server its handler runs the    *)
(* last passes itself, on top of whatever main was doing.                  *)
(*                                                                         *)
(* Pieces of a stream are numbered as in TraceStream.                      *)
(***************************************************************************)
EXTENDS Integers, FiniteSets, SequencesExt

CONSTANTS
  NDevs, NCpus,     (* ndevs and ncpus                                        *)
  ReadSize,         (* buf_size: the most pieces one read returns             *)
  MaxPieces,        (* bound: pieces the kernel stores, all streams together  *)
  ZeroSector,       (* events about sector 0                                  *)
  Uses              (* the ways in which the programs are used                *)

(* A use: whether it is valtio_server, whose handler tears down; whether    *)
(* the client may close its end (server-proto then exits); and whether the  *)
(* signal may come at any time, or only while main waits for buffers.       *)
Use == [tears_down : BOOLEAN, may_close : BOOLEAN, anywhere : BOOLEAN]

ASSUME TraceQueueAssumption ==
  /\ {NDevs, NCpus, ReadSize, MaxPieces} \subseteq Nat \ {0}
  /\ ZeroSector \subseteq Nat
  /\ Uses \subseteq {u \in Use : u.may_close => u.tears_down}

Cpus     == 1..NCpus
Devs     == 1..NDevs
Heads    == Devs \X Cpus
Contexts == {"main", "handler"}   (* main's stack, and the handler's above it *)

(* The order of __process_trace_bufs: device by device, CPU by CPU.         *)
AllButLast == NDevs * NCpus - 1
NHeads    == NDevs * NCpus
HeadAt(i) == <<((i - 1) \div NCpus) + 1, ((i - 1) % NCpus) + 1>>

VARIABLES
  use,        (* fixed by the program and its environment                     *)
  got,        (* pieces read from each relay buffer                           *)
  queue,      (* hd->head: the trace_bufs waiting, each a sequence of pieces  *)
  prev,       (* hd->prev: the incomplete rest of the last pass               *)
  sent,       (* events sent to the client                                    *)
  conn,       (* "up" until a write to the client fails                       *)
  dp_entries,
  done,       (* the stop was asked for: done, and is_done of every tracer    *)
  tpc,        (* what each tracer is about to do                              *)
  dev,        (* handle_pfds_entries' loop variable                           *)
  nentries,   (* buffers added since the last incr_entries                    *)
  cpc,        (* what each context is about to do                             *)
  pass        (* the local variables of its __process_trace_bufs              *)

tracerVars == <<got, tpc, dev, nentries>>
vars == <<use, queue, prev, sent, conn, dp_entries, done, tracerVars, cpc, pass>>

(* The locals: the head looked at, the list taken from it and the leftover  *)
(* carried along it, the buffers handled, and who called.                   *)
NoPass(caller) ==
  [i |-> 1, list |-> <<>>, prev |-> <<>>, handled |-> 0, caller |-> caller]

Init ==
  /\ use \in Uses
  /\ got = [h \in Heads |-> 0]
  /\ queue = [h \in Heads |-> <<>>]
  /\ prev = [h \in Heads |-> <<>>]
  /\ sent = [h \in Heads |-> <<>>]
  /\ conn = "up"
  /\ dp_entries = 0
  /\ done = FALSE
  /\ tpc = [c \in Cpus |-> "poll"]
  /\ dev = [c \in Cpus |-> 1]
  /\ nentries = [c \in Cpus |-> 0]
  /\ cpc = [x \in Contexts |-> IF x = "main" THEN "wait" ELSE "idle"]
  /\ pass = [x \in Contexts |-> NoPass("wait")]

Finished == \E x \in Contexts : cpc[x] = "finished"

Runs(x) == ~Finished /\ (x = "main" => cpc["handler"] = "idle")
At(x, label) == Runs(x) /\ cpc[x] = label
Goto(x, label) == cpc' = [cpc EXCEPT ![x] = label]

(* A context holds a mutex while it is at a label inside the section; a     *)
(* suspended one goes on holding it.                                        *)
DpMutexFree == \A x \in Contexts : cpc[x] \notin {"wait_locked", "decr_locked"}
HeadMutexFree(h) ==
  \A x \in Contexts : ~(cpc[x] = "take_locked" /\ HeadAt(pass[x].i) = h)

(* How many there are altogether, if there are f[x] of each x.               *)
Units(f) == UNION {{x} \X (1..f[x]) : x \in DOMAIN f}
Total(f) == Cardinality(Units(f))

-----------------------------------------------------------------------------
(* The tracers: thread_main's loops around handle_pfds_entries.             *)

(* One device's turn: read returns up to ReadSize pieces, or nothing, and   *)
(* add_trace_buf appends them under hd->mutex.                              *)
ReadDevice(c) ==
  /\ tpc[c] \in {"poll", "drain"}
  /\ dev[c] <= NDevs
  /\ LET h == <<dev[c], c>> IN
     \E n \in 0..ReadSize :
       IF n = 0
       THEN UNCHANGED <<got, queue, nentries>>
       ELSE /\ Total(got) + n <= MaxPieces
            /\ HeadMutexFree(h)
            /\ queue' = [queue EXCEPT ![h] =
                           Append(@, [i \in 1..n |-> got[h] + i])]
            /\ got' = [got EXCEPT ![h] = @ + n]
            /\ nentries' = [nentries EXCEPT ![c] = @ + 1]
  /\ dev' = [dev EXCEPT ![c] = @ + 1]
  /\ UNCHANGED <<use, prev, sent, conn, dp_entries, done, tpc, cpc, pass>>

(* The end of a pass over the devices: incr_entries if anything was read.   *)
(* A tracer that saw is_done drains until a pass reads nothing.             *)
AfterPass(c) ==
  IF tpc[c] = "drain" THEN (IF nentries[c] > 0 THEN "drain" ELSE "left")
  ELSE IF done THEN "drain" ELSE "poll"

IncrEach(c) == dp_entries + 1
Incr(c) == dp_entries + nentries[c]
NewEntries(c) == 0
EndPass(c) ==
  /\ tpc[c] \in {"poll", "drain"}
  /\ dev[c] > NDevs
  /\ nentries[c] > 0 => DpMutexFree
  /\ dp_entries' = IF nentries[c] > 0 THEN Incr(c) ELSE dp_entries
  /\ nentries' = [nentries EXCEPT ![c] = NewEntries(c)]
  /\ dev' = [dev EXCEPT ![c] = 1]
  /\ tpc' = [tpc EXCEPT ![c] = AfterPass(c)]
  /\ UNCHANGED <<use, got, queue, prev, sent, conn, done, cpc, pass>>

Tracer(c) == ~Finished /\ (ReadDevice(c) \/ EndPass(c))

-----------------------------------------------------------------------------
(* wait_empty_entries, with the timed wait as a return to the lock.         *)
LockEntries(x) ==
  /\ At(x, "wait")
  /\ DpMutexFree
  /\ Goto(x, "wait_locked")
  /\ UNCHANGED <<use, queue, prev, sent, conn, dp_entries, done, tracerVars, pass>>

WaitEntries(x) ==
  /\ At(x, "wait_locked")
  /\ IF done
     THEN Goto(x, "departure") /\ UNCHANGED pass
     ELSE IF dp_entries = 0
     THEN Goto(x, "wait") /\ UNCHANGED pass
     ELSE /\ Goto(x, "scan")
          /\ pass' = [pass EXCEPT ![x] = NoPass("wait")]
  /\ UNCHANGED <<use, queue, prev, sent, conn, dp_entries, done, tracerVars>>

(* wait_tracers_leaving and the joins.                                      *)
JoinTracers(x) ==
  /\ At(x, "departure")
  /\ \A c \in Cpus : tpc[c] = "left"
  /\ Goto(x, "clean")
  /\ UNCHANGED <<use, queue, prev, sent, conn, dp_entries, done, tracerVars, pass>>

(* clean_trace_bufs: passes until dp_entries is 0.                          *)
CleanTraceBufs(x) ==
  /\ At(x, "clean")
  /\ IF dp_entries = 0
     THEN Goto(x, "finished") /\ UNCHANGED pass
     ELSE /\ Goto(x, "scan")
          /\ pass' = [pass EXCEPT ![x] = NoPass("clean")]
  /\ UNCHANGED <<use, queue, prev, sent, conn, dp_entries, done, tracerVars>>

-----------------------------------------------------------------------------
(* __process_trace_bufs.                                                    *)

LockHead(x) ==
  /\ At(x, "scan")
  /\ pass[x].i <= NHeads
  /\ HeadMutexFree(HeadAt(pass[x].i))
  /\ Goto(x, "take_locked")
  /\ UNCHANGED <<use, queue, prev, sent, conn, dp_entries, done, tracerVars, pass>>

(* list_replace_init takes the whole list; handle_list_file starts.         *)
TakeList(x) ==
  /\ At(x, "take_locked")
  /\ LET h == HeadAt(pass[x].i) IN
     IF queue[h] = <<>>
     THEN /\ Goto(x, "scan")
          /\ pass' = [pass EXCEPT ![x].i = @ + 1]
          /\ UNCHANGED queue
     ELSE /\ Goto(x, "handle")
          /\ pass' = [pass EXCEPT ![x].list = queue[h], ![x].prev = prev[h]]
          /\ queue' = [queue EXCEPT ![h] = <<>>]
  /\ UNCHANGED <<use, prev, sent, conn, dp_entries, done, tracerVars>>

(* The events cut from a buffer, as the loop finds them: two pieces at a    *)
(* time from the front, whatever they are.                                  *)
Cut(buf) ==
  [e \in 1..(Len(buf) \div 2) |-> <<buf[2 * e - 1], buf[2 * e]>>]

(* An event is well formed if its pieces belong together; its name is e.    *)
Garbled == 0
EventOf(pieces) ==
  IF pieces[1] % 2 = 1 /\ pieces[2] = pieces[1] + 1
  THEN (pieces[1] + 1) \div 2 ELSE Garbled

(* The loop stops at the first event that write refuses.  It fails for      *)
(* good once it has failed; valtio never writes an event about sector 0.    *)
Accepted(events, n) ==
  /\ n < Len(events) => events[n + 1] \notin ZeroSector
                        /\ (conn = "up" => use.may_close)
  /\ conn = "down" => \A i \in 1..n : events[i] \in ZeroSector

(* What write puts on the connection of these whole events, one after the   *)
(* other: server-proto puts there all of them.                              *)
Written(events) ==
  IF use.tears_down
  THEN FlattenSeq([i \in DOMAIN events |->
                     IF events[i] \in ZeroSector THEN <<>> ELSE <<events[i]>>])
  ELSE events

(* server-proto writes an event when its struct is in the buffer, and looks *)
(* after that whether its pdu is there too.                                 *)
Early(buf) ==
  IF use.tears_down \/ Len(buf) % 2 = 0 THEN <<>>
  ELSE <<EventOf(<<buf[Len(buf)], buf[Len(buf)] + 1>>)>>

KeepAll(buf, n) == buf
Rest(buf, n) == SubSeq(buf, 2 * n + 1, Len(buf))
Combine(x) == pass[x].prev \o Head(pass[x].list)
HandleBuffer(x) ==
  /\ At(x, "handle")
  /\ pass[x].list # <<>>
  /\ LET buf    == Combine(x)
         cut    == Cut(buf)
         events == [e \in DOMAIN cut |-> EventOf(cut[e])]
         h      == HeadAt(pass[x].i)
     IN \E n \in 0..Len(events) :
          /\ Accepted(events, n)
          /\ sent' = [sent EXCEPT ![h] = @ \o Written(SubSeq(events, 1, n)) \o Early(buf)]
          /\ conn' = IF n < Len(events) THEN "down" ELSE conn
          /\ pass' = [pass EXCEPT ![x].list = Tail(@), ![x].prev = Rest(buf, n),
                                  ![x].handled = @ + 1]
  /\ UNCHANGED <<use, queue, prev, dp_entries, done, tracerVars, cpc>>

(* hd->prev = prev, and on to the next head.                                *)
DropPrev(x) ==
  /\ At(x, "handle")
  /\ pass[x].list = <<>>
  /\ pass' = [pass EXCEPT ![x].i = @ + 1, ![x].prev = <<>>]
  /\ Goto(x, "scan")
  /\ UNCHANGED <<use, queue, prev, sent, conn, dp_entries, done, tracerVars>>

StorePrev(x) ==
  /\ At(x, "handle")
  /\ pass[x].list = <<>>
  /\ prev' = [prev EXCEPT ![HeadAt(pass[x].i)] = pass[x].prev]
  /\ pass' = [pass EXCEPT ![x].i = @ + 1, ![x].prev = <<>>]
  /\ Goto(x, "scan")
  /\ UNCHANGED <<use, queue, sent, conn, dp_entries, done, tracerVars>>

EndScan(x) ==
  /\ At(x, "scan")
  /\ pass[x].i > NHeads
  /\ IF pass[x].handled = 0
     THEN Goto(x, pass[x].caller)
     ELSE DpMutexFree /\ Goto(x, "decr_locked")
  /\ UNCHANGED <<use, queue, prev, sent, conn, dp_entries, done, tracerVars, pass>>

Decr(x)    == dp_entries - pass[x].handled
DecrEntries(x) ==
  /\ At(x, "decr_locked")
  /\ dp_entries' = Decr(x)
  /\ pass' = [pass EXCEPT ![x].handled = 0]
  /\ Goto(x, pass[x].caller)
  /\ UNCHANGED <<use, queue, prev, sent, conn, done, tracerVars>>

Context(x) ==
  \/ LockEntries(x) \/ WaitEntries(x) \/ JoinTracers(x) \/ CleanTraceBufs(x)
  \/ LockHead(x) \/ TakeList(x) \/ HandleBuffer(x) \/ StorePrev(x) \/ EndScan(x)
  \/ DecrEntries(x)

-----------------------------------------------------------------------------
(* The signal.  The handler sets `done` and tells the tracers; in           *)
(* server-proto it returns, in valtio_server it goes on with wait_tracers   *)
(* and main never resumes.                                                  *)
Signal ==
  /\ Runs("main")
  /\ ~done
  /\ use.anywhere \/ cpc["main"] = "wait"
  /\ done' = TRUE
  /\ IF use.tears_down THEN Goto("handler", "wait") ELSE UNCHANGED cpc
  /\ UNCHANGED <<use, queue, prev, sent, conn, dp_entries, tracerVars, pass>>

Terminated == Finished /\ UNCHANGED vars

Next ==
  \/ \E c \in Cpus : Tracer(c)
  \/ \E x \in Contexts : Context(x)
  \/ Signal
  \/ Terminated

Spec == Init /\ [][Next]_vars

(* Every thread that can go on does.  Asking for a mutex is strongly fair:  *)
(* it is held for a few instructions, and released for 50 ms by a wait.     *)
Fairness ==
  /\ \A c \in Cpus : SF_vars(Tracer(c))
  /\ \A x \in Contexts : SF_vars(Context(x))

FairSpec == Spec /\ Fairness
-----------------------------------------------------------------------------
(* Type invariant.                                                          *)
Labels == {"wait", "wait_locked", "scan", "take_locked", "handle", "decr_locked",
           "departure", "clean", "finished"}

TypeOK ==
  /\ use \in Uses
  /\ got \in [Heads -> 0..MaxPieces]
  /\ queue \in [Heads -> Seq(Seq(1..MaxPieces))]
  /\ prev \in [Heads -> Seq(1..MaxPieces)]
  /\ sent \in [Heads -> Seq(Nat)]
  /\ conn \in {"up", "down"}
  /\ dp_entries \in Int
  /\ done \in BOOLEAN
  /\ tpc \in [Cpus -> {"poll", "drain", "left"}]
  /\ dev \in [Cpus -> 1..(NDevs + 1)]
  /\ nentries \in [Cpus -> 0..NDevs]
  /\ cpc \in [Contexts -> Labels \cup {"idle"}]
  /\ pass \in [Contexts -> [i : 1..(NHeads + 1), list : Seq(Seq(1..MaxPieces)),
                            prev : Seq(1..MaxPieces), handled : Nat,
                            caller : {"wait", "clean"}]]

(* dp_entries counts exactly the buffers on the lists and those a pass took *)
(* and has not subtracted yet, less those a tracer added and has not        *)
(* counted yet (add_trace_buf comes before incr_entries, so that it may be  *)
(* negative for a while, but never off in the end).                         *)
EntriesConserved ==
  dp_entries = Total([h \in Heads |-> Len(queue[h])])
             + Total([x \in Contexts |-> Len(pass[x].list) + pass[x].handled])
             - Total(nentries)

(* The pieces of a stream on their way: the leftover of the last buffer     *)
(* handled, the rest of the list it was on, and the list of the tracer.     *)
Busy(h) == {x \in Contexts : cpc[x] = "handle" /\ HeadAt(pass[x].i) = h}
Leftover(h) ==
  IF Busy(h) = {} THEN prev[h] ELSE pass[CHOOSE x \in Busy(h) : TRUE].prev
OnTheWay(h) ==
  LET list == IF Busy(h) = {} THEN <<>> ELSE pass[CHOOSE x \in Busy(h) : TRUE].list
  IN  Leftover(h) \o FlattenSeq(list) \o FlattenSeq(queue[h])

(* The way from the relay buffers to the client keeps TraceStream's promise: *)
(* each stream reaches the client in order and without a gap, from valtio    *)
(* each event whole and once, from server-proto the last one maybe again.    *)
Stream == INSTANCE TraceStream WITH valtio <- use.tears_down
StreamKept == Stream!Spec

(* They are the last pieces read, in order, and what went before them are   *)
(* whole events.  valtio sent or passed over exactly these; the last that   *)
(* server-proto sent is the last whose struct was in a buffer it handled.   *)
(* When the program ends every buffer was handled, and at most the struct   *)
(* of an event is left of a stream whose client is still there.             *)
PiecesConserved ==
  \A h \in Heads :
    LET way == OnTheWay(h)
        gone == got[h] - Len(way)
    IN  /\ way = [k \in 1..Len(way) |-> gone + k]
        /\ gone % 2 = 0
        /\ IF use.tears_down
           THEN Len(sent[h]) = Cardinality((1..(gone \div 2)) \ ZeroSector)
           ELSE Stream!LastOf(sent[h]) = (gone + Len(Leftover(h)) + 1) \div 2
        /\ Finished => queue[h] = <<>> /\ (conn = "up" => Len(way) <= 1)

(* A stop that was asked for is carried out.                                *)
StopEnds == done ~> Finished
=============================================================================
