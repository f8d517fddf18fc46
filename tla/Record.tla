-------------------------------- MODULE Record --------------------------------
(***************************************************************************)
(* btrecord.c turns the queue events of one trace file into bunches and    *)
(* writes them to a replay file, whose header it writes twice: empty when  *)
(* the file is opened, filled in when it is closed.  btreplay.c reads the  *)
(* header to decide whether the file is worth replaying, and then the      *)
(* bunches.  Both halves are here, since what matters is their agreement.  *)
(*                                                                         *)
(* An I/O is its number in the input; its only datum is its time.          *)
(***************************************************************************)
EXTENDS Integers, SequencesExt

CONSTANTS
  MaxPkts,     (* max_pkts_per_bunch                                          *)
  Window,      (* max_bunch_tm                                                *)
  LastTime,    (* bound: time stamps                                          *)
  MaxIos       (* bound: queue events in the input                            *)

ASSUME RecordAssumption == {MaxPkts, Window, LastTime} \subseteq Nat \ {0} /\ MaxIos \in Nat

VARIABLES
  pc,          (* "open", "read", "closed", "fatal"; then the replay's stages *)
  times,       (* times of the queue events read so far                       *)
  genesis,     (* iip->genesis                                                *)
  cur,         (* stream->cur                                                 *)
  bunches,     (* stream->bunches                                             *)
  hdr, body,   (* the replay file: its header and the bunches behind it       *)
  offset,      (* of tip->ifd: how many bunches of the body were read         *)
  replayed     (* the I/Os btreplay has read back                             *)

replay == <<offset, replayed>>
recordVars == <<pc, times, genesis, cur, bunches, hdr, body, replay>>

NoBunch == [time_stamp |-> 0, pkts |-> <<>>]
Header(g, n) == [genesis |-> g, nbunches |-> n]

RecordInit ==
  /\ pc = "open"
  /\ times = <<>>
  /\ genesis = 0
  /\ cur = NoBunch
  /\ bunches = 0
  /\ hdr = Header(0, 0)
  /\ body = <<>>
  /\ offset = 0
  /\ replayed = <<>>

(* stream_open writes an empty header, to make room for the one that counts.*)
StreamOpen ==
  /\ pc = "open"
  /\ hdr' = Header(0, 0)
  /\ pc' = "read"
  /\ UNCHANGED <<times, genesis, cur, bunches, body, replay>>

(* bunch_done, for an I/O at time t.  The difference is unsigned: a time     *)
(* before the bunch's start is far too late as well.                        *)
LateOnly(t) == t - cur.time_stamp > Window \/ t < cur.time_stamp
Full == Len(cur.pkts) >= MaxPkts
bunch_done(t) == Full \/ LateOnly(t)

(* stream_flush appends the bunch; a bunch that exists is never empty.      *)
DropFlush(b) == UNCHANGED body
Flush(b) == body' = Append(body, b)

(* iip->genesis: the first time of the file.                                *)
Genesis(t) == IF genesis = 0 THEN t ELSE genesis

(* next_io finds a queue event, and stream_add_io puts it into the current  *)
(* bunch or, that one done, into a new one.                                 *)
StreamAddIo(t) ==
  /\ pc = "read"
  /\ Len(times) < MaxIos
  /\ t >= Genesis(t)
  /\ genesis' = Genesis(t)
  /\ times' = Append(times, t)
  /\ LET io == Len(times) + 1
         fresh == [time_stamp |-> t, pkts |-> <<io>>]
     IN  IF cur = NoBunch
         THEN cur' = fresh /\ UNCHANGED <<body, bunches>>
         ELSE IF bunch_done(t)
         THEN Flush(cur) /\ bunches' = bunches + 1 /\ cur' = fresh
         ELSE cur' = [cur EXCEPT !.pkts = Append(@, io)] /\ UNCHANGED <<body, bunches>>
  /\ UNCHANGED <<pc, hdr, replay>>

(* next_io gives up on a time before the first: the file keeps its empty     *)
(* header.                                                                  *)
TimeInversion(t) ==
  /\ pc = "read"
  /\ Len(times) < MaxIos
  /\ t < Genesis(t)
  /\ pc' = "fatal"
  /\ UNCHANGED <<times, genesis, cur, bunches, hdr, body, replay>>

(* stream_close takes the numbers for the header before it flushes.         *)
StreamClose ==
  /\ pc = "read"
  /\ hdr' = Header(genesis, bunches)
  /\ IF cur = NoBunch THEN UNCHANGED <<body, bunches>>
                      ELSE Flush(cur) /\ bunches' = bunches + 1
  /\ cur' = NoBunch
  /\ pc' = "closed"
  /\ UNCHANGED <<times, genesis, replay>>

(* btreplay's add_input_file.                                               *)
AddInputFile ==
  /\ pc = "closed"
  /\ pc' = IF hdr.nbunches = 0 THEN "skipped" ELSE "replay"
  /\ UNCHANGED <<times, genesis, cur, bunches, hdr, body, replay>>

(* next_bunch, until the file ends: the header's count is not consulted.    *)
ReadBunch ==
  /\ pc = "replay"
  /\ offset < Len(body)
  /\ offset' = offset + 1
  /\ replayed' = replayed \o body[offset + 1].pkts
  /\ UNCHANGED <<pc, times, genesis, cur, bunches, hdr, body>>

RecordEnded ==
  /\ \/ pc \in {"fatal", "skipped"}
     \/ pc = "replay" /\ offset = Len(body)
  /\ UNCHANGED recordVars

RecordNext ==
  \/ StreamOpen
  \/ \E t \in 1..LastTime : StreamAddIo(t) \/ TimeInversion(t)
  \/ StreamClose \/ AddInputFile \/ ReadBunch \/ RecordEnded

RecordSpec == RecordInit /\ [][RecordNext]_recordVars
-----------------------------------------------------------------------------
Bunch == [time_stamp : 0..LastTime, pkts : Seq(1..MaxIos)]

RecordTypeOK ==
  /\ pc \in {"open", "read", "fatal", "closed", "skipped", "replay"}
  /\ times \in Seq(1..LastTime)
  /\ genesis \in 0..LastTime
  /\ cur \in Bunch
  /\ bunches \in 0..MaxIos
  /\ hdr \in [genesis : 0..LastTime, nbunches : 0..MaxIos]
  /\ body \in Seq(Bunch \ {NoBunch})
  /\ offset \in Nat
  /\ replayed \in Seq(1..MaxIos)

(* A bunch holds one to max_pkts_per_bunch I/Os, none earlier than its time *)
(* stamp and none later than max_bunch_tm after it (btrecord.8 on           *)
(* --max-bunch-time and --max-pkts); and the stall before it, its time stamp  *)
(* less the genesis of the header, is never negative: btreplay computes it   *)
(* with unsigned numbers.                                                   *)
WellFormed(b) ==
  /\ Len(b.pkts) \in 1..MaxPkts
  /\ \A i \in DOMAIN b.pkts : times[b.pkts[i]] - b.time_stamp \in 0..Window
BunchesBounded ==
  /\ cur # NoBunch => WellFormed(cur)
  /\ \A i \in DOMAIN body :
       /\ WellFormed(body[i])
       /\ pc \in {"closed", "replay"} => body[i].time_stamp >= hdr.genesis

(* What btreplay submits is what was recorded, all of it if the file is     *)
(* replayed at all.                                                         *)
ReplaysTheRecording ==
  /\ replayed = [k \in 1..Len(replayed) |-> k]
  /\ (pc = "replay" /\ offset = Len(body)) => Len(replayed) = Len(times)

(* btrecord.h: "@nbunches: Number of bunches put into the file".            *)
HeaderCounts == pc = "closed" => hdr.nbunches = Len(body)
=============================================================================
