-------------------------- MODULE RecordReplayProofs --------------------------
(***************************************************************************)
(* Theorems about Record, for any limits, any number of I/Os and any       *)
(* times, and about Replay, for any number of files, control blocks,       *)
(* iterations and bunches, with or without a signal.                       *)
(***************************************************************************)
EXTENDS Record, Replay, FiniteSetTheorems, SequenceTheorems, TLAPS

(* Record.                                                                   *)

(* A bunch whose I/Os were read, which is within the limits and does not     *)
(* start before the first I/O of the file.                                   *)
Written == [time_stamp : Nat, pkts : Seq(Nat)]
Placed(b) ==
  /\ b \in Written
  /\ \A i \in DOMAIN b.pkts : b.pkts[i] \in DOMAIN times
  /\ WellFormed(b)
  /\ b.time_stamp >= genesis

(* The genesis is set with the first I/O, before there is any bunch, and the *)
(* header that counts is written from it.                                    *)
Recording ==
  /\ times \in Seq(1..LastTime)
  /\ genesis \in Nat
  /\ cur = NoBunch \/ Placed(cur)
  /\ body \in Seq(Written)
  /\ \A i \in DOMAIN body : Placed(body[i])
  /\ genesis = 0 => cur = NoBunch /\ body = <<>>
  /\ pc \in {"closed", "replay"} => hdr.genesis = genesis

LEMMA Limits ==
  /\ MaxPkts \in Nat /\ MaxPkts > 0
  /\ Window \in Nat
  /\ LastTime \in Nat /\ LastTime > 0
BY RecordAssumption DEF RecordAssumption

(* A bunch stays as it should be while further I/Os are read.                *)
LEMMA PlacedStays ==
  ASSUME NEW b, Placed(b), genesis' = genesis, times \in Seq(1..LastTime),
         NEW t \in 1..LastTime, times' = Append(times, t)
  PROVE  Placed(b)'
<1>1. /\ DOMAIN times \subseteq DOMAIN times'
      /\ \A k \in DOMAIN times : times'[k] = times[k]
  BY AppendProperties
<1> QED BY <1>1 DEF Placed, WellFormed

(* The bunch of one I/O, the one just read.                                  *)
LEMMA FreshPlaced ==
  ASSUME times \in Seq(1..LastTime), NEW t \in 1..LastTime, times' = Append(times, t),
         genesis' \in Nat, genesis' <= t,
         NEW b, b = [time_stamp |-> t, pkts |-> <<Len(times) + 1>>]
  PROVE  Placed(b)'
<1>1. Len(times) \in Nat /\ Len(times) + 1 \in DOMAIN times' /\ times'[Len(times) + 1] = t
  BY AppendProperties
<1>2. b \in Written
  BY <1>1 DEF Written
<1>3. Len(b.pkts) = 1 /\ DOMAIN b.pkts = {1} /\ b.pkts[1] = Len(times) + 1 /\ b.time_stamp = t
  BY <1>1
<1>4. t - t \in 0..Window /\ 1 \in 1..MaxPkts
  BY Limits
<1> QED BY <1>1, <1>2, <1>3, <1>4 DEF Placed, WellFormed

(* The I/O just read goes into the bunch that is not done.                   *)
LEMMA AddedPlaced ==
  ASSUME times \in Seq(1..LastTime), NEW t \in 1..LastTime, times' = Append(times, t),
         Placed(cur), genesis' = genesis, ~bunch_done(t),
         cur' = [cur EXCEPT !.pkts = Append(@, Len(times) + 1)]
  PROVE  Placed(cur)'
<1> DEFINE io == Len(times) + 1
           p == Append(cur.pkts, io)
<1>1. cur \in Written /\ cur.pkts \in Seq(Nat) /\ cur.time_stamp \in Nat
  BY DEF Placed, Written
<1>2. io \in Nat /\ DOMAIN times' = 1..io /\ DOMAIN times = 1..Len(times) /\ times'[io] = t
      /\ \A k \in DOMAIN times : times'[k] = times[k]
  BY AppendProperties
<1>3. p \in Seq(Nat) /\ Len(p) = Len(cur.pkts) + 1 /\ p[Len(cur.pkts) + 1] = io
      /\ \A i \in 1..Len(cur.pkts) : p[i] = cur.pkts[i]
  BY <1>1, <1>2, AppendProperties
<1>4. cur'.pkts = p /\ cur'.time_stamp = cur.time_stamp /\ cur' \in Written
  BY <1>1, <1>3 DEF Written
<1>5. Len(p) \in 1..MaxPkts
  BY <1>1, <1>3, Limits DEF bunch_done, Full
<1>6. t - cur.time_stamp \in 0..Window
  BY <1>1, Limits DEF bunch_done, LateOnly
<1>7. \A i \in 1..Len(cur.pkts) :
        cur.pkts[i] \in DOMAIN times /\ times[cur.pkts[i]] - cur.time_stamp \in 0..Window
  BY <1>1 DEF Placed, WellFormed
<1>8. \A i \in DOMAIN p : p[i] \in DOMAIN times' /\ times'[p[i]] - cur.time_stamp \in 0..Window
  <2> SUFFICES ASSUME NEW i \in DOMAIN p
               PROVE  p[i] \in DOMAIN times' /\ times'[p[i]] - cur.time_stamp \in 0..Window
    OBVIOUS
  <2>1. DOMAIN p = 1..(Len(cur.pkts) + 1) /\ Len(cur.pkts) \in Nat
    BY <1>1, <1>3
  <2>2. CASE i \in 1..Len(cur.pkts)
    BY <2>2, <1>2, <1>3, <1>7
  <2>3. CASE i = Len(cur.pkts) + 1
    BY <2>3, <1>2, <1>3, <1>6
  <2> QED BY <2>1, <2>2, <2>3
<1>9. cur.time_stamp >= genesis
  BY DEF Placed
<1> HIDE DEF p
<1> QED BY <1>4, <1>5, <1>8, <1>9 DEF Placed, WellFormed

(* Writing a bunch out behind the others.                                    *)
LEMMA FlushPlaced ==
  ASSUME body \in Seq(Written), NEW b \in Written, body' = Append(body, b), Placed(b)',
         \A c : (\E i \in DOMAIN body : c = body[i]) => Placed(c)'
  PROVE  body' \in Seq(Written) /\ (\A i \in DOMAIN body : Placed(body[i]))'
<1>1. /\ body' \in Seq(Written) /\ Len(body) \in Nat
      /\ DOMAIN body' = 1..(Len(body) + 1) /\ DOMAIN body = 1..Len(body)
      /\ \A i \in DOMAIN body : body'[i] = body[i]
      /\ body'[Len(body) + 1] = b
  BY AppendProperties
<1>2. ASSUME NEW i \in DOMAIN body', NEW c, c = body'[i] PROVE Placed(c)'
  <2>1. i \in DOMAIN body \/ i = Len(body) + 1
    BY <1>1
  <2>2. CASE i \in DOMAIN body
    BY <1>1, <1>2, <2>2
  <2>3. CASE i = Len(body) + 1
    <3>1. c = b
      BY <1>1, <1>2, <2>3
    <3> QED BY <3>1
  <2> QED BY <2>1, <2>2, <2>3
<1> QED BY <1>1, <1>2

(* Bunches keep their limits, and none starts before the recording.          *)
THEOREM RecordingSound == RecordSpec => []BunchesBounded
<1>1. RecordInit => Recording
  BY DEF RecordInit, Recording, Header
<1>2. Recording /\ [RecordNext]_recordVars => Recording'
  <2> SUFFICES ASSUME Recording, [RecordNext]_recordVars PROVE Recording'
    OBVIOUS
  <2>1. ASSUME UNCHANGED <<times, genesis>> PROVE \A c : Placed(c) => Placed(c)'
    BY <2>1 DEF Placed, WellFormed
  <2>2. cur # NoBunch => cur \in Written
    BY DEF Recording, Placed
  <2>3. ASSUME UNCHANGED <<times, genesis, cur, body>>, pc' \in {"closed", "replay"} => hdr'.genesis = genesis
        PROVE  Recording'
    <3>1. cur' = NoBunch \/ Placed(cur)'
      BY <2>3 DEF Recording, Placed, WellFormed
    <3>2. (\A i \in DOMAIN body : Placed(body[i]))'
      BY <2>3 DEF Recording, Placed, WellFormed
    <3> QED BY <2>3, <3>1, <3>2 DEF Recording
  <2>4. CASE StreamOpen
    BY <2>3, <2>4 DEF StreamOpen
  <2>5. ASSUME NEW t \in 1..LastTime, StreamAddIo(t) PROVE Recording'
    <3> DEFINE fresh == [time_stamp |-> t, pkts |-> <<Len(times) + 1>>]
    <3>1. times' = Append(times, t) /\ times' \in Seq(1..LastTime) /\ times \in Seq(1..LastTime)
      BY <2>5, AppendProperties DEF StreamAddIo, Recording
    <3>2. genesis' \in Nat /\ genesis' <= t /\ genesis' # 0
          /\ (genesis # 0 => genesis' = genesis)
      BY <2>5, Limits DEF StreamAddIo, Genesis, Recording
    <3>3. pc' \notin {"closed", "replay"}
      BY <2>5 DEF StreamAddIo
    <3>4. cur # NoBunch \/ body # <<>> => genesis' = genesis
      BY <3>2 DEF Recording
    <3>5. ASSUME NEW c, Placed(c), genesis' = genesis PROVE Placed(c)'
      BY <3>1, <3>5, PlacedStays
    <3>6. \A c : (\E i \in DOMAIN body : c = body[i]) => Placed(c)'
      <4> SUFFICES ASSUME NEW c, NEW i \in DOMAIN body, c = body[i] PROVE Placed(c)'
        OBVIOUS
      <4>1. body # <<>> /\ Placed(c)
        BY DEF Recording
      <4> QED BY <3>4, <3>5, <4>1
    <3>7. ASSUME cur' = fresh PROVE Placed(cur)'
      <4>1. PICK b : b = fresh
        OBVIOUS
      <4>2. Placed(b)'
        BY <3>1, <3>2, <4>1, FreshPlaced
      <4>3. cur' = b
        BY <3>7, <4>1
      <4> QED BY <4>2, <4>3 DEF Placed, WellFormed
    <3>8. ASSUME UNCHANGED body PROVE (\A i \in DOMAIN body : Placed(body[i]))'
      <4> SUFFICES ASSUME NEW i \in DOMAIN body' PROVE Placed(body[i])'
        OBVIOUS
      <4>1. PICK c : c = body[i]
        OBVIOUS
      <4>2. Placed(c)'
        BY <3>6, <3>8, <4>1
      <4> QED BY <3>8, <4>1, <4>2 DEF Placed, WellFormed
    <3>9. CASE cur = NoBunch
      <4>1. cur' = fresh /\ UNCHANGED body
        BY <2>5, <3>9 DEF StreamAddIo
      <4> QED BY <3>1, <3>2, <3>3, <3>7, <3>8, <4>1 DEF Recording
    <3>10. CASE cur # NoBunch /\ bunch_done(t)
      <4>1. cur' = fresh /\ body' = Append(body, cur)
        BY <2>5, <3>10 DEF StreamAddIo, Flush
      <4>2. PICK b : b = cur
        OBVIOUS
      <4>3. b \in Written /\ Placed(b)'
        BY <2>2, <3>4, <3>5, <3>10, <4>2 DEF Recording
      <4>4. body' \in Seq(Written) /\ (\A i \in DOMAIN body : Placed(body[i]))'
        BY <3>6, <4>1, <4>2, <4>3, FlushPlaced DEF Recording
      <4> QED BY <3>1, <3>2, <3>3, <3>7, <4>1, <4>4 DEF Recording
    <3>11. CASE cur # NoBunch /\ ~bunch_done(t)
      <4>1. cur' = [cur EXCEPT !.pkts = Append(@, Len(times) + 1)] /\ UNCHANGED body
        BY <2>5, <3>11 DEF StreamAddIo
      <4>2. Placed(cur)'
        BY <3>1, <3>4, <3>11, <4>1, AddedPlaced DEF Recording
      <4> QED BY <3>1, <3>2, <3>3, <3>8, <4>1, <4>2 DEF Recording
    <3> QED BY <3>9, <3>10, <3>11
  <2>6. ASSUME NEW t \in 1..LastTime, TimeInversion(t) PROVE Recording'
    BY <2>3, <2>6 DEF TimeInversion
  <2>7. CASE StreamClose
    <3>1. UNCHANGED <<times, genesis>> /\ hdr'.genesis = genesis /\ cur' = NoBunch
      BY <2>7 DEF StreamClose, Header
    <3>2. body' \in Seq(Written) /\ (\A i \in DOMAIN body : Placed(body[i]))'
      <4>1. CASE cur = NoBunch
        BY <2>7, <3>1, <4>1 DEF StreamClose, Recording, Placed, WellFormed
      <4>2. CASE cur # NoBunch
        <5>1. PICK b : b = cur
          OBVIOUS
        <5>2. b \in Written /\ Placed(b)' /\ body' = Append(body, b)
          BY <2>1, <2>2, <2>7, <3>1, <4>2, <5>1 DEF StreamClose, Flush, Recording
        <5>3. \A c : (\E i \in DOMAIN body : c = body[i]) => Placed(c)'
          BY <2>1, <3>1 DEF Recording
        <5> QED BY <5>2, <5>3, FlushPlaced DEF Recording
      <4> QED BY <4>1, <4>2
    <3>3. genesis = 0 => body' = <<>>
      BY <2>7 DEF StreamClose, Recording
    <3> QED BY <3>1, <3>2, <3>3 DEF Recording
  <2>8. CASE AddInputFile
    BY <2>3, <2>8 DEF AddInputFile, Recording
  <2>9. CASE ReadBunch
    BY <2>3, <2>9 DEF ReadBunch, Recording
  <2>10. CASE UNCHANGED recordVars
    BY <2>3, <2>10 DEF recordVars, Recording
  <2> QED BY <2>4, <2>5, <2>6, <2>7, <2>8, <2>9, <2>10 DEF RecordNext, RecordEnded
<1>3. Recording => BunchesBounded
  BY DEF Recording, Placed, BunchesBounded
<1> QED BY <1>1, <1>2, <1>3, PTL DEF RecordSpec
-----------------------------------------------------------------------------
(* The number of the last I/O in the first i bunches of the file.            *)
Upto(s, i) == IF i = 0 THEN 0 ELSE Last(s[i].pkts)

(* A bunch of the I/Os that come after the k-th, one by one.                 *)
Continues(b, k) ==
  /\ b.pkts \in Seq(Nat) /\ b.pkts # <<>>
  /\ b.pkts = [j \in 1..Len(b.pkts) |-> k + j]

(* Each bunch of the file continues the one before it, the current bunch     *)
(* continues the file up to the last I/O that was read, and btreplay has     *)
(* read all I/Os of the bunches before its offset.                           *)
ReplayInv ==
  /\ body \in Seq(Written)
  /\ \A i \in DOMAIN body : Continues(body[i], Upto(body, i - 1))
  /\ cur # NoBunch => cur \in Written /\ Continues(cur, Upto(body, Len(body)))
  /\ times \in Seq(1..LastTime)
  /\ Len(times) = IF cur = NoBunch THEN Upto(body, Len(body)) ELSE Last(cur.pkts)
  /\ pc \in {"closed", "replay", "skipped"} => cur = NoBunch
  /\ pc # "replay" => offset = 0
  /\ offset \in 0..Len(body)
  /\ replayed = [k \in 1..Upto(body, offset) |-> k]

LEMMA ContinuesUpto ==
  ASSUME NEW b, NEW k \in Nat, Continues(b, k)
  PROVE  Len(b.pkts) \in Nat \ {0} /\ Last(b.pkts) = k + Len(b.pkts)
BY DEF Continues, Last

LEMMA UptoNat ==
  ASSUME ReplayInv, NEW i \in 0..Len(body)
  PROVE  Upto(body, i) \in Nat
<1>1. CASE i = 0
  BY <1>1 DEF Upto
<1>2. CASE i # 0
  <2>1. i \in DOMAIN body
    BY <1>2 DEF ReplayInv
  <2>2. PICK w \in Seq(Nat) : w = body[i].pkts /\ w # <<>>
    BY <2>1 DEF ReplayInv, Continues
  <2>3. Len(w) \in DOMAIN w
    BY <2>2
  <2>4. Last(w) \in Nat
    BY <2>3 DEF Last
  <2> QED BY <2>2, <2>4, <1>2 DEF Upto
<1> QED BY <1>1, <1>2

(* The file with one more bunch.                                             *)
LEMMA FlushContinues ==
  ASSUME ReplayInv, cur # NoBunch, Flush(cur)
  PROVE  /\ body' \in Seq(Written)
         /\ Len(body') = Len(body) + 1 /\ Len(body) \in Nat
         /\ \A i \in DOMAIN body' : Continues(body'[i], Upto(body', i - 1))
         /\ Upto(body', Len(body')) = Last(cur.pkts)
         /\ \A i \in 0..Len(body) : Upto(body', i) = Upto(body, i)
<1>1. /\ body' \in Seq(Written) /\ Len(body) \in Nat /\ Len(body') = Len(body) + 1
      /\ \A i \in DOMAIN body : body'[i] = body[i]
      /\ body'[Len(body) + 1] = cur
      /\ DOMAIN body = 1..Len(body) /\ DOMAIN body' = 1..(Len(body) + 1)
  BY AppendProperties DEF ReplayInv, Flush
<1>2. \A i \in 0..Len(body) : Upto(body', i) = Upto(body, i)
  BY <1>1 DEF Upto
<1>3. Upto(body', Len(body')) = Last(cur.pkts)
  BY <1>1 DEF Upto
<1>4. ASSUME NEW i \in DOMAIN body' PROVE Continues(body'[i], Upto(body', i - 1))
  <2>1. CASE i \in DOMAIN body
    <3>1. Upto(body', i - 1) = Upto(body, i - 1) /\ body'[i] = body[i]
      BY <1>1, <1>2, <2>1
    <3> QED BY <3>1, <2>1 DEF ReplayInv
  <2>2. CASE i = Len(body) + 1
    <3>1. Upto(body', i - 1) = Upto(body, Len(body)) /\ body'[i] = cur
      BY <1>1, <1>2, <2>2
    <3> QED BY <3>1 DEF ReplayInv
  <2> QED BY <1>1, <2>1, <2>2
<1> QED BY <1>1, <1>2, <1>3, <1>4

(* An I/O goes to the end of the current bunch or begins one.                *)
LEMMA AddContinues ==
  ASSUME NEW b, NEW k \in Nat, NEW io, Continues(b, k), io = Last(b.pkts) + 1,
         NEW c, c.pkts = Append(b.pkts, io)
  PROVE  Continues(c, k) /\ Last(c.pkts) = io
<1>1. PICK w \in Seq(Nat) : w = b.pkts /\ w # <<>> /\ w = [j \in 1..Len(w) |-> k + j]
  BY DEF Continues
<1>2. PICK v : v = c.pkts
  OBVIOUS
<1>3. Len(w) \in Nat /\ io = k + Len(w) + 1 /\ io \in Nat
  BY <1>1, ContinuesUpto
<1>4. \A j \in 1..Len(w) : w[j] = k + j
  BY <1>1
<1>5. /\ v \in Seq(Nat) /\ Len(v) = Len(w) + 1 /\ v[Len(w) + 1] = io
      /\ \A j \in 1..Len(w) : v[j] = w[j]
  <2>1. v = Append(w, io)
    BY <1>1, <1>2
  <2> QED BY <2>1, <1>3, AppendProperties
<1>6. \A j \in 1..Len(v) : v[j] = k + j
  <2> SUFFICES ASSUME NEW j \in 1..Len(v) PROVE v[j] = k + j
    OBVIOUS
  <2>1. CASE j \in 1..Len(w)
    BY <2>1, <1>4, <1>5
  <2>2. CASE j = Len(w) + 1
    BY <2>2, <1>3, <1>5
  <2> QED BY <2>1, <2>2, <1>3, <1>5
<1>7. v = [j \in 1..Len(v) |-> v[j]] /\ v # <<>> /\ Last(v) = io
  BY <1>3, <1>5 DEF Last
<1>8. v = [j \in 1..Len(v) |-> k + j]
  BY <1>6, <1>7
<1> QED BY <1>2, <1>5, <1>7, <1>8 DEF Continues

LEMMA ReplayStep == ReplayInv /\ [RecordNext]_recordVars => ReplayInv'
<1> SUFFICES ASSUME ReplayInv, [RecordNext]_recordVars PROVE ReplayInv'
  OBVIOUS
<1>1. ASSUME UNCHANGED <<times, cur, body, replay>>,
             pc' \in {"closed", "replay", "skipped"} => cur = NoBunch,
             pc' # "replay" => offset = 0
      PROVE  ReplayInv'
  BY <1>1 DEF ReplayInv, replay
<1>2. CASE StreamOpen
  BY <1>1, <1>2 DEF StreamOpen, ReplayInv
<1>3. ASSUME NEW t \in 1..LastTime, StreamAddIo(t) PROVE ReplayInv'
  <2> DEFINE fresh == [time_stamp |-> t, pkts |-> <<Len(times) + 1>>]
  <2>1. /\ times' \in Seq(1..LastTime) /\ Len(times') = Len(times) + 1 /\ Len(times) \in Nat
        /\ pc = "read" /\ pc' = pc /\ UNCHANGED replay /\ offset = 0
    BY <1>3, AppendProperties DEF StreamAddIo, ReplayInv
  <2>2. fresh \in Written /\ fresh # NoBunch
        /\ Continues(fresh, Len(times)) /\ Last(fresh.pkts) = Len(times) + 1
    <3>1. fresh.pkts = <<Len(times) + 1>> /\ fresh \in Written
      BY <2>1, Limits DEF Written
    <3>2. Len(fresh.pkts) = 1 /\ fresh.pkts # <<>> /\ fresh.pkts \in Seq(Nat)
      BY <2>1, <3>1
    <3>3. fresh.pkts = [j \in 1..1 |-> Len(times) + j]
      BY <2>1, <3>1
    <3>4. fresh # NoBunch
      BY <3>2 DEF NoBunch
    <3> HIDE DEF fresh
    <3> QED BY <2>1, <3>1, <3>2, <3>3, <3>4 DEF Continues, Last
  <2> HIDE DEF fresh
  <2>3. CASE cur = NoBunch
    <3>1. cur' = fresh /\ UNCHANGED body
      BY <1>3, <2>3 DEF StreamAddIo, fresh
    <3>2. Len(times) = Upto(body, Len(body))
      BY <2>3 DEF ReplayInv
    <3> QED BY <2>1, <2>2, <3>1, <3>2 DEF ReplayInv, replay
  <2>4. CASE cur # NoBunch /\ bunch_done(t)
    <3>1. cur' = fresh /\ Flush(cur)
      BY <1>3, <2>4 DEF StreamAddIo, fresh
    <3>2. Len(times) = Last(cur.pkts)
      BY <2>4 DEF ReplayInv
    <3>3. /\ body' \in Seq(Written) /\ Len(body') = Len(body) + 1 /\ Len(body) \in Nat
          /\ \A i \in DOMAIN body' : Continues(body'[i], Upto(body', i - 1))
          /\ Upto(body', Len(body')) = Last(cur.pkts)
          /\ Upto(body', 0) = Upto(body, 0)
      BY <2>4, <3>1, FlushContinues
    <3>4. offset' = 0 /\ replayed' = [k \in 1..Upto(body', offset') |-> k]
      BY <2>1, <3>3 DEF ReplayInv, replay
    <3> QED BY <2>1, <2>2, <3>1, <3>2, <3>3, <3>4 DEF ReplayInv
  <2>5. CASE cur # NoBunch /\ ~bunch_done(t)
    <3>1. cur' = [cur EXCEPT !.pkts = Append(@, Len(times) + 1)] /\ UNCHANGED body
      BY <1>3, <2>5 DEF StreamAddIo
    <3>2. /\ Len(times) = Last(cur.pkts) /\ cur \in Written
          /\ Continues(cur, Upto(body, Len(body))) /\ Upto(body, Len(body)) \in Nat
      BY <2>5, UptoNat DEF ReplayInv
    <3>3. cur'.pkts = Append(cur.pkts, Len(times) + 1) /\ cur' \in Written /\ cur'.pkts \in Seq(Nat)
      <4>1. cur.pkts \in Seq(Nat) /\ Len(times) + 1 \in Nat
        BY <2>1, <3>2 DEF Written
      <4>2. PICK w : w = Append(cur.pkts, Len(times) + 1)
        OBVIOUS
      <4>3. w \in Seq(Nat)
        BY <4>1, <4>2, AppendProperties
      <4>4. cur' = [cur EXCEPT !.pkts = w]
        BY <3>1, <4>2
      <4> QED BY <3>2, <4>2, <4>3, <4>4 DEF Written
    <3>4. Continues(cur', Upto(body, Len(body))) /\ Last(cur'.pkts) = Len(times) + 1
      BY <3>2, <3>3, AddContinues
    <3>5. cur' # NoBunch
      BY <3>4 DEF NoBunch, Continues
    <3> QED BY <2>1, <3>1, <3>3, <3>4, <3>5 DEF ReplayInv, replay
  <2> QED BY <2>3, <2>4, <2>5
<1>4. ASSUME NEW t \in 1..LastTime, TimeInversion(t) PROVE ReplayInv'
  BY <1>1, <1>4 DEF TimeInversion, ReplayInv
<1>5. CASE StreamClose
  <2>1. CASE cur = NoBunch
    <3>1. UNCHANGED <<times, cur, body, replay>> /\ pc = "read"
      BY <1>5, <2>1 DEF StreamClose
    <3> QED BY <1>1, <1>5, <2>1, <3>1 DEF StreamClose, ReplayInv
  <2>2. CASE cur # NoBunch
    <3>1. UNCHANGED <<times, replay>> /\ cur' = NoBunch /\ Flush(cur) /\ pc' = "closed" /\ offset = 0
      BY <1>5, <2>2 DEF StreamClose, ReplayInv
    <3>2. Len(times) = Last(cur.pkts)
      BY <2>2 DEF ReplayInv
    <3>3. /\ body' \in Seq(Written) /\ Len(body') = Len(body) + 1 /\ Len(body) \in Nat
          /\ \A i \in DOMAIN body' : Continues(body'[i], Upto(body', i - 1))
          /\ Upto(body', Len(body')) = Last(cur.pkts)
          /\ Upto(body', 0) = Upto(body, 0)
      BY <2>2, <3>1, FlushContinues
    <3>4. offset' = 0 /\ replayed' = [k \in 1..Upto(body', offset') |-> k]
      BY <3>1, <3>3 DEF ReplayInv, replay
    <3> QED BY <3>1, <3>2, <3>3, <3>4 DEF ReplayInv
  <2> QED BY <2>1, <2>2
<1>6. CASE AddInputFile
  BY <1>1, <1>6 DEF AddInputFile, ReplayInv
<1>7. CASE ReadBunch
  <2> DEFINE b == body[offset + 1]
             u == Upto(body, offset)
  <2>1. /\ offset \in Nat /\ Len(body) \in Nat /\ offset + 1 \in DOMAIN body
        /\ offset' = offset + 1 /\ offset' \in 0..Len(body)
        /\ replayed' = replayed \o b.pkts /\ pc' = pc /\ pc = "replay"
        /\ UNCHANGED <<times, cur, body>>
    BY <1>7 DEF ReadBunch, ReplayInv
  <2>2. u \in Nat /\ Continues(b, u) /\ replayed = [k \in 1..u |-> k]
    BY <2>1, UptoNat DEF ReplayInv
  <2>3. Upto(body, offset + 1) = u + Len(b.pkts) /\ Len(b.pkts) \in Nat
    BY <2>1, <2>2, ContinuesUpto DEF Upto
  <2> HIDE DEF u
  <2>4. PICK w : w = b.pkts
    OBVIOUS
  <2> HIDE DEF b
  <2>5. w \in Seq(Nat) /\ \A j \in 1..Len(w) : w[j] = u + j
    BY <2>2, <2>4 DEF Continues
  <2>6. replayed \in Seq(Nat) /\ Len(replayed) = u
    BY <2>2
  <2>7. /\ Len(replayed \o w) = u + Len(w) /\ replayed \o w \in Seq(Nat)
        /\ \A k \in 1..(u + Len(w)) : (replayed \o w)[k] = k
    <3>1. PICK r \in Seq(Nat) : r = replayed
      BY <2>6
    <3>2. Len(r) = u /\ \A k \in 1..u : r[k] = k
      BY <2>2, <2>6, <3>1
    <3>3. \A k \in 1..(u + Len(w)) : (r \o w)[k] = k
      <4> SUFFICES ASSUME NEW k \in 1..(u + Len(w)) PROVE (r \o w)[k] = k
        OBVIOUS
      <4>1. CASE k <= u
        BY <2>2, <2>5, <3>1, <3>2, <4>1
      <4>2. CASE ~(k <= u)
        <5>1. (r \o w)[k] = w[k - u] /\ k - u \in 1..Len(w)
          BY <2>2, <2>5, <3>1, <3>2, <4>2
        <5>2. w[k - u] = u + (k - u)
          BY <2>5, <5>1
        <5>3. k \in Nat
          BY <2>2, <2>5
        <5> QED BY <2>2, <5>1, <5>2, <5>3
      <4>3. k \in Nat /\ u \in Nat
        BY <2>2, <2>5
      <4> QED BY <4>1, <4>2, <4>3
    <3>4. Len(r \o w) = u + Len(w) /\ r \o w \in Seq(Nat)
      BY <2>5, <3>1, <3>2
    <3> QED BY <3>1, <3>3, <3>4
  <2>8. replayed \o w = [k \in 1..(u + Len(w)) |-> (replayed \o w)[k]]
    <3>1. PICK x \in Seq(Nat) : x = replayed \o w
      BY <2>7
    <3>2. x = [k \in 1..Len(x) |-> x[k]]
      OBVIOUS
    <3> QED BY <2>7, <3>1, <3>2
  <2>9. [k \in 1..(u + Len(w)) |-> (replayed \o w)[k]] = [k \in 1..(u + Len(w)) |-> k]
    BY <2>7
  <2>10. (replayed = [k \in 1..Upto(body, offset) |-> k])'
    BY <2>1, <2>3, <2>4, <2>8, <2>9
  <2> QED BY <2>1, <2>10 DEF ReplayInv
<1>8. CASE UNCHANGED recordVars
  BY <1>1, <1>8 DEF recordVars, ReplayInv
<1> QED BY <1>2, <1>3, <1>4, <1>5, <1>6, <1>7, <1>8 DEF RecordNext, RecordEnded

(* What btreplay submits is what was recorded, in order, and all of it when  *)
(* it has read its file: no I/O is lost between bunches or is in two, for    *)
(* any limits of bunches and any input.                                      *)
THEOREM RecordingReplayed == RecordSpec => []ReplaysTheRecording
<1>1. RecordInit => ReplayInv
  BY Limits DEF RecordInit, ReplayInv, Upto
<1>2. ReplayInv => ReplaysTheRecording
  <2> SUFFICES ASSUME ReplayInv PROVE ReplaysTheRecording
    OBVIOUS
  <2>1. PICK u \in Nat : u = Upto(body, offset)
    BY UptoNat DEF ReplayInv
  <2>2. replayed = [k \in 1..u |-> k] /\ Len(replayed) = u
    BY <2>1 DEF ReplayInv
  <2>3. pc = "replay" /\ offset = Len(body) => Len(times) = u
    BY <2>1 DEF ReplayInv
  <2> QED BY <2>2, <2>3 DEF ReplaysTheRecording
<1> QED BY <1>1, <1>2, ReplayStep, PTL DEF RecordSpec
-----------------------------------------------------------------------------
(* Replay.                                                                   *)

(* What holds of one file, its two threads and its pool.                    *)
Local(f) == SubInv(f) /\ RecInv(f) /\ Conserved(f)

PoolInv == TypeOK /\ FileInv /\ AiosConserved

SubPlaces == [Files -> InIteration \cup {"open", "loop", "iter_start", "finish",
                                        "replay_done", "end"}]
RecPlaces == [Files -> {"check", "lock", "waiting", "events", "reclaim", "finish",
                        "end"}]

(* The steps of the submitting thread keep the pool's invariant.            *)
LEMMA SubmitPool ==
  ASSUME PoolInv, NEW f \in Files, Submit(f) \/ SpuriousWakeSub(f)
  PROVE  PoolInv'
<1> USE ReplayAssumption DEF ReplayAssumption, PoolInv, TypeOK, FileInv,
    AiosConserved, Local, SubPlaces, RecPlaces, SubInv, RecInv, Conserved,
    Uncounted, Submitted, InIteration, pool, counts, progress, events, SubAt,
    SubGoto, RecAt, RecGoto
<1>s. /\ sub[f] \notin {"replay_done", "end"} => ~send_done[f]
      /\ rec[f] # "end" <=> ~reap_done[f]
  OBVIOUS
<1>1. CASE SetReplayReady(f)
  BY <1>1 DEF SetReplayReady
<1>2. CASE NextIteration(f)
  <2> USE DEF NextIteration
  <2>1. CASE is_send_done(f)
    <3>1. TypeOK'
      <4>1. /\ sub' \in SubPlaces
            /\ rec' \in RecPlaces
        BY <1>2, <2>1
      <4>2. iterations' \in [Files -> -1..Iterations]
        BY <1>2, <2>1
      <4>3. ntodo' \in [Files -> 0..NAios]
        BY <1>2, <2>1
      <4>4. asked' \in [Files -> 0..NAios]
        BY <1>2, <2>1
      <4>5. send_wait' \in [Files -> BOOLEAN] /\ reap_wait' \in [Files -> BOOLEAN]
        BY <1>2, <2>1
      <4> QED BY <1>2, <4>1, <4>2, <4>3, <4>4, <4>5
    <3>2. main' = main /\ iter' = iter
      BY <1>2
    <3>3. SubInv(f)'
      BY <1>2, <1>s, <2>1
    <3>6. Conserved(f)'
      BY <1>2, <1>s, <2>1
    <3>5. RecInv(f)'
      BY <1>2, <1>s, <2>1
    <3>4. ASSUME NEW g \in Files, g # f PROVE Local(g)'
      BY <1>2, <2>1, <3>4
    <3> QED BY <3>1, <3>2, <3>3, <3>4, <3>5, <3>6
  <2>2. CASE ~is_send_done(f) /\ iterations[f] = 0
    <3>1. TypeOK'
      <4>1. /\ sub' \in SubPlaces
            /\ rec' \in RecPlaces
        BY <1>2, <2>2
      <4>2. iterations' \in [Files -> -1..Iterations]
        BY <1>2, <2>2
      <4>3. ntodo' \in [Files -> 0..NAios]
        BY <1>2, <2>2
      <4>4. asked' \in [Files -> 0..NAios]
        BY <1>2, <2>2
      <4>5. send_wait' \in [Files -> BOOLEAN] /\ reap_wait' \in [Files -> BOOLEAN]
        BY <1>2, <2>2
      <4> QED BY <1>2, <4>1, <4>2, <4>3, <4>4, <4>5
    <3>2. main' = main /\ iter' = iter
      BY <1>2
    <3>3. SubInv(f)'
      BY <1>2, <1>s, <2>2
    <3>6. Conserved(f)'
      BY <1>2, <1>s, <2>2
    <3>5. RecInv(f)'
      BY <1>2, <1>s, <2>2
    <3>4. ASSUME NEW g \in Files, g # f PROVE Local(g)'
      BY <1>2, <2>2, <3>4
    <3> QED BY <3>1, <3>2, <3>3, <3>4, <3>5, <3>6
  <2>3. CASE ~is_send_done(f) /\ iterations[f] # 0
    <3>1. TypeOK'
      <4>1. /\ sub' \in SubPlaces
            /\ rec' \in RecPlaces
        BY <1>2, <2>3
      <4>2. iterations' \in [Files -> -1..Iterations]
        BY <1>2, <2>3
      <4>3. ntodo' \in [Files -> 0..NAios]
        BY <1>2, <2>3
      <4>4. asked' \in [Files -> 0..NAios]
        BY <1>2, <2>3
      <4>5. send_wait' \in [Files -> BOOLEAN] /\ reap_wait' \in [Files -> BOOLEAN]
        BY <1>2, <2>3
      <4> QED BY <1>2, <4>1, <4>2, <4>3, <4>4, <4>5
    <3>2. main' = main /\ iter' = iter
      BY <1>2
    <3>3. SubInv(f)'
      BY <1>2, <1>s, <2>3, SMTT(20)
    <3>6. Conserved(f)'
      BY <1>2, <1>s, <2>3
    <3>5. RecInv(f)'
      BY <1>2, <1>s, <2>3
    <3>4. ASSUME NEW g \in Files, g # f PROVE Local(g)'
      BY <1>2, <2>3, <3>4
    <3> QED BY <3>1, <3>2, <3>3, <3>4, <3>5, <3>6
  <2> QED BY <2>1, <2>2, <2>3
<1>3. CASE WaitIterStart(f)
  BY <1>3 DEF WaitIterStart
<1>4. CASE NextBunch(f)
  <2> USE DEF NextBunch
  <2>1. todo' \in [Files -> 0..MaxBunch]
    <3>1. CASE is_send_done(f) \/ bunch[f] = NBunches
      BY <1>4, <3>1
    <3>2. CASE ~(is_send_done(f) \/ bunch[f] = NBunches)
      <4>1. PICK n \in 1..MaxBunch : todo' = [todo EXCEPT ![f] = n]
        BY <1>4, <3>2
      <4> QED BY <4>1
    <3> QED BY <3>1, <3>2
  <2>2. sub' = [sub EXCEPT ![f] = IF is_send_done(f) \/ bunch[f] = NBunches
                                  THEN "iter_done" ELSE "process"]
    BY <1>4
  <2>3. TypeOK'
    <3>1. sub' \in SubPlaces
      BY <2>2
    <3>2. bunch' \in [Files -> 0..NBunches]
      BY <1>4
    <3> QED BY <1>4, <2>1, <3>1, <3>2
  <2>4. Local(f)'
    BY <1>4, <1>s, <2>2
  <2>5. ASSUME NEW g \in Files, g # f PROVE Local(g)'
    BY <1>4, <2>2, <2>5
  <2> QED BY <1>4, <2>3, <2>4, <2>5
<1>5. CASE ProcessBunch(f)
  BY <1>5 DEF ProcessBunch
<1>6. CASE NfreeCurrent(f)
  <2> USE DEF NfreeCurrent
  <2>b. Batch(f) \in 0..NAios /\ Batch(f) <= todo[f] /\ Batch(f) <= naios_free[f]
    BY DEF Batch, Minimum
  <2>1. CASE ~is_send_done(f) /\ naios_free[f] = 0
    <3>1. TypeOK'
      <4>1. /\ sub' \in SubPlaces
            /\ rec' \in RecPlaces
        BY <1>6, <2>1
      <4>2. iterations' \in [Files -> -1..Iterations]
        BY <1>6, <2>1
      <4>3. ntodo' \in [Files -> 0..NAios]
        BY <1>6, <2>1
      <4>4. asked' \in [Files -> 0..NAios]
        BY <1>6, <2>1
      <4>5. send_wait' \in [Files -> BOOLEAN] /\ reap_wait' \in [Files -> BOOLEAN]
        BY <1>6, <2>1
      <4> QED BY <1>6, <4>1, <4>2, <4>3, <4>4, <4>5
    <3>2. main' = main /\ iter' = iter
      BY <1>6
    <3>3. SubInv(f)'
      <4>1. sub'[f] = "nfree_wait" /\ naios_free'[f] = 0
        BY <1>6, <2>1
      <4>2. send_wait' = [send_wait EXCEPT ![f] = TRUE]
        BY <1>6, <2>1
      <4>3. send_wait'[f]
        BY <4>2
      <4>4. ~send_done'[f]
        BY <1>6, <1>s
      <4>5. iterations'[f] >= 0
        BY <1>6
      <4> QED BY <4>1, <4>3, <4>4, <4>5
    <3>6. Conserved(f)'
      BY <1>6, <1>s, <2>1
    <3>5. RecInv(f)'
      BY <1>6, <1>s, <2>1
    <3>4. ASSUME NEW g \in Files, g # f PROVE Local(g)'
      BY <1>6, <2>1, <3>4
    <3> QED BY <3>1, <3>2, <3>3, <3>4, <3>5, <3>6
  <2>2. CASE is_send_done(f) \/ naios_free[f] # 0
    <3>1. TypeOK'
      <4>1. /\ sub' \in SubPlaces
            /\ rec' \in RecPlaces
        BY <1>6, <2>b, <2>2
      <4>2. iterations' \in [Files -> -1..Iterations]
        BY <1>6, <2>b, <2>2
      <4>3. ntodo' \in [Files -> 0..NAios]
        BY <1>6, <2>b, <2>2
      <4>4. asked' \in [Files -> 0..NAios]
        BY <1>6, <2>b, <2>2
      <4>5. send_wait' \in [Files -> BOOLEAN] /\ reap_wait' \in [Files -> BOOLEAN]
        BY <1>6, <2>b, <2>2
      <4> QED BY <1>6, <4>1, <4>2, <4>3, <4>4, <4>5
    <3>2. main' = main /\ iter' = iter
      BY <1>6
    <3>3. SubInv(f)'
      BY <1>6, <1>s, <2>b, <2>2
    <3>6. Conserved(f)'
      BY <1>6, <1>s, <2>b, <2>2
    <3>5. RecInv(f)'
      BY <1>6, <1>s, <2>b, <2>2
    <3>4. ASSUME NEW g \in Files, g # f PROVE Local(g)'
      BY <1>6, <2>b, <2>2, <3>4
    <3> QED BY <3>1, <3>2, <3>3, <3>4, <3>5, <3>6
  <2> QED BY <2>1, <2>b, <2>2
<1>7. CASE IocbsMap(f)
  <2> USE DEF IocbsMap, MapBatch
  <2>1. TypeOK'
    BY <1>7
  <2>2. main' = main /\ iter' = iter
    BY <1>7
  <2>3. Local(f)'
    <3>1. SubInv(f)'
      BY <1>7, <1>s
    <3>2. RecInv(f)'
      BY <1>7, <1>s
    <3>3. Conserved(f)'
      BY <1>7
    <3> QED BY <3>1, <3>2, <3>3
  <2>4. ASSUME NEW g \in Files, g # f PROVE Local(g)'
    BY <1>7, <2>4
  <2> QED BY <2>1, <2>2, <2>3, <2>4
<1>8. CASE IoSubmit(f)
  <2> USE DEF IoSubmit
  <2>1. TypeOK'
    BY <1>8
  <2>2. main' = main /\ iter' = iter
    BY <1>8
  <2>3. Local(f)'
    <3>1. SubInv(f)'
      BY <1>8, <1>s
    <3>2. RecInv(f)'
      BY <1>8, <1>s
    <3>3. Conserved(f)'
      BY <1>8
    <3> QED BY <3>1, <3>2, <3>3
  <2>4. ASSUME NEW g \in Files, g # f PROVE Local(g)'
    BY <1>8, <2>4
  <2> QED BY <2>1, <2>2, <2>3, <2>4
<1>9. CASE CountOut(f)
  <2> USE DEF CountOut, WakeReclaimer
  <2>1. TypeOK'
    BY <1>9
  <2>2. main' = main /\ iter' = iter
    BY <1>9
  <2>3. Local(f)'
    <3>1. SubInv(f)'
      BY <1>9, <1>s
    <3>2. RecInv(f)'
      BY <1>9, <1>s
    <3>3. Conserved(f)'
      BY <1>9
    <3> QED BY <3>1, <3>2, <3>3
  <2>4. ASSUME NEW g \in Files, g # f PROVE Local(g)'
    BY <1>9, <2>4
  <2> QED BY <2>1, <2>2, <2>3, <2>4
<1>10. CASE SetIterDone(f)
  BY <1>10 DEF SetIterDone
<1>11. CASE SendDone(f)
  BY <1>11 DEF SendDone
<1>12. CASE SetReplayDone(f)
  BY <1>12 DEF SetReplayDone
<1>13. CASE SpuriousWakeSub(f)
  BY <1>13 DEF SpuriousWakeSub
<1> QED BY <1>1, <1>2, <1>3, <1>4, <1>5, <1>6, <1>7, <1>8, <1>9, <1>10, <1>11, <1>12, <1>13 DEF Submit

(* So do those of the reclaiming thread.                                    *)
LEMMA ReapPool ==
  ASSUME PoolInv, NEW f \in Files, Reap(f) \/ SpuriousWakeRec(f)
  PROVE  PoolInv'
<1> USE ReplayAssumption DEF ReplayAssumption, PoolInv, TypeOK, FileInv,
    AiosConserved, Local, SubPlaces, RecPlaces, SubInv, RecInv, Conserved,
    Uncounted, Submitted, InIteration, pool, counts, progress, events, SubAt,
    SubGoto, RecAt, RecGoto
<1>s. /\ sub[f] \notin {"replay_done", "end"} => ~send_done[f]
      /\ rec[f] # "end" <=> ~reap_done[f]
  OBVIOUS
<1>1. CASE ReapDone(f)
  BY <1>1 DEF ReapDone, is_reap_done
<1>2. CASE ReapWait(f)
  <2> USE DEF ReapWait
  <2>1. CASE naios_out[f] = 0
    <3>1. TypeOK'
      <4>1. /\ sub' \in SubPlaces
            /\ rec' \in RecPlaces
        BY <1>2, <2>1, ZenonT(40)
      <4>2. iterations' \in [Files -> -1..Iterations]
        BY <1>2, <2>1
      <4>3. ntodo' \in [Files -> 0..NAios]
        BY <1>2, <2>1
      <4>4. asked' \in [Files -> 0..NAios]
        BY <1>2, <2>1
      <4>5. send_wait' \in [Files -> BOOLEAN] /\ reap_wait' \in [Files -> BOOLEAN]
        BY <1>2, <2>1
      <4> QED BY <1>2, <4>1, <4>2, <4>3, <4>4, <4>5
    <3>2. main' = main /\ iter' = iter
      BY <1>2
    <3>3. SubInv(f)'
      BY <1>2, <1>s, <2>1
    <3>6. Conserved(f)'
      BY <1>2, <1>s, <2>1
    <3>5. RecInv(f)'
      BY <1>2, <1>s, <2>1
    <3>4. ASSUME NEW g \in Files, g # f PROVE Local(g)'
      BY <1>2, <2>1, <3>4
    <3> QED BY <3>1, <3>2, <3>3, <3>4, <3>5, <3>6
  <2>2. CASE naios_out[f] # 0
    <3>1. TypeOK'
      <4>1. /\ sub' \in SubPlaces
            /\ rec' \in RecPlaces
        BY <1>2, <2>2
      <4>2. iterations' \in [Files -> -1..Iterations]
        BY <1>2, <2>2
      <4>3. ntodo' \in [Files -> 0..NAios]
        BY <1>2, <2>2
      <4>4. asked' \in [Files -> 0..NAios]
        BY <1>2, <2>2
      <4>5. send_wait' \in [Files -> BOOLEAN] /\ reap_wait' \in [Files -> BOOLEAN]
        BY <1>2, <2>2
      <4> QED BY <1>2, <4>1, <4>2, <4>3, <4>4, <4>5
    <3>2. main' = main /\ iter' = iter
      BY <1>2
    <3>3. SubInv(f)'
      BY <1>2, <1>s, <2>2
    <3>6. Conserved(f)'
      BY <1>2, <1>s, <2>2
    <3>5. RecInv(f)'
      BY <1>2, <1>s, <2>2
    <3>4. ASSUME NEW g \in Files, g # f PROVE Local(g)'
      BY <1>2, <2>2, <3>4
    <3> QED BY <3>1, <3>2, <3>3, <3>4, <3>5, <3>6
  <2> QED BY <2>1, <2>2
<1>3. CASE GetEvents(f)
  <2> USE DEF GetEvents
  <2>1. PICK n \in 1..Minimum(inflight[f], asked[f]) :
               /\ ndone' = [ndone EXCEPT ![f] = n]
               /\ inflight' = [inflight EXCEPT ![f] = inflight[f] - n]
    BY <1>3
  <2>2. n \in 1..asked[f] /\ n <= inflight[f]
    BY <2>1 DEF Minimum
  <2>3. rec' = [rec EXCEPT ![f] = "reclaim"] /\ rec[f] = "events"
    BY <1>3
  <2>4. TypeOK'
    <3>1. ndone' \in [Files -> 0..NAios] /\ inflight' \in [Files -> 0..NAios]
      BY <2>1, <2>2
    <3> QED BY <1>3, <2>3, <3>1
  <2>5. Local(f)'
    BY <1>3, <1>s, <2>1, <2>2, <2>3
  <2>6. ASSUME NEW g \in Files, g # f PROVE Local(g)'
    BY <1>3, <2>1, <2>3, <2>6
  <2> QED BY <1>3, <2>4, <2>5, <2>6
<1>4. CASE Reclaim(f)
  <2> USE DEF Reclaim, WakeSubmitter
  <2>1. StillOut(f) \in 0..NAios /\ StillOut(f) <= naios_out[f] - ndone[f]
    BY <1>4 DEF StillOut, Minimum
  <2>2. TypeOK'
    <3>1. rec' \in RecPlaces
      BY <1>4
    <3>2. sub' \in SubPlaces
      BY <1>4
    <3>3. naios_free' \in [Files -> 0..NAios]
      BY <1>4
    <3>4. naios_out' \in [Files -> 0..NAios]
      BY <1>4
    <3>5. asked' \in [Files -> 0..NAios] /\ ndone' \in [Files -> 0..NAios]
      BY <1>4, <2>1
    <3>6. send_wait' \in [Files -> BOOLEAN]
      BY <1>4
    <3> QED BY <1>4, <3>1, <3>2, <3>3, <3>4, <3>5, <3>6
  <2>3. main' = main /\ iter' = iter /\ asked'[f] = StillOut(f)
    BY <1>4
  <2>4. SubInv(f)'
    BY <1>4, <1>s
  <2>5. Conserved(f)'
    BY <1>4
  <2>6. RecInv(f)'
    <3>1. CASE StillOut(f) = 0
      BY <1>4, <1>s, <2>1, <2>3, <3>1
    <3>2. CASE StillOut(f) # 0
      BY <1>4, <1>s, <2>1, <2>3, <3>2
    <3> QED BY <3>1, <3>2
  <2>7. ASSUME NEW g \in Files, g # f PROVE Local(g)'
    BY <1>4, <2>7
  <2> QED BY <2>2, <2>3, <2>4, <2>5, <2>6, <2>7
<1>5. CASE SetReclaimDone(f)
  BY <1>5 DEF SetReclaimDone
<1>6. CASE SpuriousWakeRec(f)
  BY <1>6 DEF SpuriousWakeRec
<1> QED BY <1>1, <1>2, <1>3, <1>4, <1>5, <1>6 DEF Reap

(* Main and the signal do not touch the pools.                              *)
LEMMA MainPool ==
  ASSUME PoolInv, MainStep \/ SetSignalDone \/ UNCHANGED vars
  PROVE  PoolInv'
<1> USE ReplayAssumption DEF ReplayAssumption, PoolInv, FileInv, AiosConserved,
    pool, counts, progress, events
<1>1. UNCHANGED <<sub, rec, progress, pool, send_done, reap_done, events>>
  BY DEF MainStep, WaitReplaysReady, StartIter, WaitItersDone, WaitReplaysDone,
         WaitReclaimsDone, TipRelease, SetSignalDone, vars
<1>2. \A f \in Files : SubInv(f)' /\ RecInv(f)' /\ Conserved(f)'
  BY <1>1 DEF SubInv, RecInv, Conserved, Uncounted, Submitted
<1>3. TypeOK' /\ (main' = "iters" => iter' < Iterations)
  <2> USE <1>1 DEF TypeOK, nfiles
  <2>1. nfiles \in Nat
    BY FS_CardinalityType
  <2>2. CASE WaitReplaysReady
    BY <2>2 DEF WaitReplaysReady
  <2>3. CASE StartIter
    BY <2>1, <2>3 DEF StartIter
  <2>4. CASE WaitItersDone
    BY <2>4 DEF WaitItersDone
  <2>5. CASE WaitReplaysDone
    BY <2>5 DEF WaitReplaysDone
  <2>6. CASE WaitReclaimsDone
    BY <2>6 DEF WaitReclaimsDone
  <2>7. CASE TipRelease
    BY <2>7 DEF TipRelease
  <2>8. CASE SetSignalDone
    BY <2>8 DEF SetSignalDone
  <2>9. CASE UNCHANGED vars
    BY <2>9 DEF vars
  <2> QED BY <2>2, <2>3, <2>4, <2>5, <2>6, <2>7, <2>8, <2>9 DEF MainStep
<1> QED BY <1>2, <1>3

(* The pool's invariant holds in every reachable state.                     *)
LEMMA PoolInvariant == Spec => []PoolInv
<1>1. Init => PoolInv
  <2> SUFFICES ASSUME Init PROVE PoolInv
    OBVIOUS
  <2> USE ReplayAssumption DEF ReplayAssumption, Init
  <2>1. TypeOK
    <3>1. sub \in SubPlaces /\ rec \in RecPlaces
      BY DEF SubPlaces, RecPlaces
    <3>2. iterations \in [Files -> -1..Iterations] /\ iter \in 0..Iterations
      OBVIOUS
    <3>3. bunch \in [Files -> 0..NBunches] /\ todo \in [Files -> 0..MaxBunch]
      OBVIOUS
    <3>4. /\ ntodo \in [Files -> 0..NAios] /\ naios_free \in [Files -> 0..NAios]
          /\ naios_out \in [Files -> 0..NAios] /\ inflight \in [Files -> 0..NAios]
          /\ asked \in [Files -> 0..NAios] /\ ndone \in [Files -> 0..NAios]
      OBVIOUS
    <3>5. /\ send_wait \in [Files -> BOOLEAN] /\ reap_wait \in [Files -> BOOLEAN]
          /\ send_done \in [Files -> BOOLEAN] /\ reap_done \in [Files -> BOOLEAN]
      OBVIOUS
    <3> QED BY <3>1, <3>2, <3>3, <3>4, <3>5 DEF TypeOK, SubPlaces, RecPlaces
  <2>2. ASSUME NEW f \in Files PROVE SubInv(f) /\ RecInv(f) /\ Conserved(f)
    <3>1. ~send_done[f] /\ ~reap_done[f] /\ sub[f] = "open" /\ rec[f] = "check"
      OBVIOUS
    <3> QED BY <3>1 DEF SubInv, RecInv, Conserved, Uncounted, Submitted
  <2> QED BY <2>1, <2>2 DEF PoolInv, FileInv, AiosConserved
<1>2. PoolInv /\ [Next]_vars => PoolInv'
  <2> SUFFICES ASSUME PoolInv, [Next]_vars PROVE PoolInv'
    OBVIOUS
  <2>1. ASSUME NEW f \in Files, Submit(f) \/ SpuriousWakeSub(f) PROVE PoolInv'
    BY <2>1, SubmitPool
  <2>2. ASSUME NEW f \in Files, Reap(f) \/ SpuriousWakeRec(f) PROVE PoolInv'
    BY <2>2, ReapPool
  <2>3. CASE MainStep \/ SetSignalDone \/ UNCHANGED vars
    BY <2>3, MainPool
  <2> QED BY <2>1, <2>2, <2>3 DEF Next, Terminated
<1> QED BY <1>1, <1>2, PTL DEF Spec

(* Type correctness of the replay.                                          *)
THEOREM TypeCorrect == Spec => []TypeOK
<1>1. PoolInv => TypeOK
  BY DEF PoolInv
<1> QED BY <1>1, PoolInvariant, PTL

(* No control block is lost or doubled between the free list, the           *)
(* submission in hand and the I/Os that are out, whatever order the two      *)
(* threads and the kernel take.                                             *)
THEOREM PoolConserved == Spec => []AiosConserved
<1>1. PoolInv => AiosConserved
  BY DEF PoolInv
<1> QED BY <1>1, PoolInvariant, PTL

(* The submitter and the reclaimer of a file never sleep together: with no   *)
(* free block all of them are out, and then the reclaimer does not wait.     *)
THEOREM NoMutualWait == Spec => []NeverBothWait
<1>1. PoolInv => NeverBothWait
  <2> SUFFICES ASSUME PoolInv, NEW f \in Files, sub[f] = "nfree_wait",
                      rec[f] = "waiting"
               PROVE  FALSE
    BY DEF NeverBothWait
  <2>1. naios_free[f] = 0 /\ naios_out[f] = 0 /\ Uncounted(f) = 0
    BY DEF PoolInv, FileInv, SubInv, RecInv, Uncounted
  <2> QED BY <2>1, ReplayAssumption
          DEF PoolInv, AiosConserved, Conserved, ReplayAssumption
<1> QED BY <1>1, PoolInvariant, PTL

(* reclaim_ios never blocks in io_getevents with no I/O to come.             *)
THEOREM NoIdleGetevents == Spec => []EventsExist
<1>1. PoolInv => EventsExist
  <2> SUFFICES ASSUME PoolInv, NEW f \in Files, rec[f] = "events"
               PROVE  inflight[f] > 0
    BY DEF EventsExist
  <2>1. ndone[f] = 0 /\ asked[f] \in 1..naios_out[f]
    BY DEF PoolInv, FileInv, RecInv
  <2>2. inflight[f] = naios_out[f] + Submitted(f)
    BY <2>1, ReplayAssumption
       DEF PoolInv, AiosConserved, Conserved, TypeOK, ReplayAssumption, Submitted
  <2>3. naios_out[f] \in Nat /\ Submitted(f) \in Nat
    BY ReplayAssumption DEF PoolInv, TypeOK, Submitted, ReplayAssumption
  <2> QED BY <2>1, <2>2, <2>3
<1> QED BY <1>1, PoolInvariant, PTL

(* Sets of files and their sizes.                                           *)
LEMMA FileSets ==
  ASSUME NEW S \in SUBSET Files
  PROVE  /\ IsFiniteSet(S)
         /\ Cardinality(S) \in Nat /\ nfiles \in Nat
         /\ Cardinality(S) <= nfiles
         /\ Cardinality(S) = nfiles => S = Files
BY FS_Subset, FS_CardinalityType, ReplayAssumption DEF ReplayAssumption, nfiles

Holders == {f \in Files : sub[f] \in InIteration}

(* The tokens of an iteration are conserved, so start_iter finds none left   *)
(* and set_iter_done never counts beyond nfiles.                            *)
THEOREM IterationTokens == Spec => []TokensConserved
<1> USE DEF InIteration
<1>1. Init => TokensConserved
  <2> SUFFICES ASSUME Init PROVE TokensConserved
    OBVIOUS
  <2>1. {f \in Files : sub[f] \in InIteration} = {}
    BY DEF Init
  <2> QED BY <2>1, FS_EmptySet DEF Init, TokensConserved
<1>2. PoolInv /\ TokensConserved /\ [Next]_vars => TokensConserved'
  <2> SUFFICES ASSUME PoolInv, TokensConserved, [Next]_vars PROVE TokensConserved'
    OBVIOUS
  <2>a. iter_start + n_iters_done + Cardinality(Holders)
          = IF main = "iters" THEN nfiles ELSE 0
    BY DEF TokensConserved, Holders
  <2>t. /\ IsFiniteSet(Holders) /\ Cardinality(Holders) \in Nat /\ nfiles \in Nat
        /\ iter_start \in Nat /\ n_iters_done \in Nat
    BY FileSets DEF Holders, PoolInv, TypeOK
  <2>k. ASSUME UNCHANGED <<Holders, main, iter_start, n_iters_done>>
        PROVE  TokensConserved'
    BY <2>k, <2>a DEF TokensConserved, Holders
  <2>1. ASSUME NEW f \in Files, Submit(f) PROVE TokensConserved'
    <3> USE DEF SubAt, SubGoto, counts
    <3>1. CASE WaitIterStart(f)
      <4>1. f \notin Holders /\ Holders' = Holders \cup {f}
        BY <3>1 DEF WaitIterStart, Holders, PoolInv, TypeOK
      <4>2. Cardinality(Holders') = Cardinality(Holders) + 1
        BY <4>1, <2>t, FS_AddElement
      <4>3. /\ iter_start' = iter_start - 1 /\ n_iters_done' = n_iters_done
            /\ main' = main
        BY <3>1 DEF WaitIterStart
      <4> QED BY <4>2, <4>3, <2>a, <2>t DEF TokensConserved, Holders
    <3>2. CASE SetIterDone(f)
      <4>1. f \in Holders /\ Holders' = Holders \ {f}
        BY <3>2 DEF SetIterDone, Holders, PoolInv, TypeOK
      <4>2. Cardinality(Holders') = Cardinality(Holders) - 1
        BY <4>1, <2>t, FS_RemoveElement
      <4>3. /\ n_iters_done' = n_iters_done + 1 /\ iter_start' = iter_start
            /\ main' = main
        BY <3>2 DEF SetIterDone
      <4> QED BY <4>2, <4>3, <2>a, <2>t DEF TokensConserved, Holders
    <3>3. CASE ~WaitIterStart(f) /\ ~SetIterDone(f)
      <4>1. UNCHANGED <<main, iter_start, n_iters_done>>
        BY <2>1, <3>3 DEF Submit, SetReplayReady, NextIteration, NextBunch,
           ProcessBunch, NfreeCurrent, IocbsMap, IoSubmit, CountOut, SendDone,
           SetReplayDone
      <4>2. /\ \A g \in Files : g # f => sub'[g] = sub[g]
            /\ sub'[f] \in InIteration <=> sub[f] \in InIteration
        BY <2>1, <3>3 DEF Submit, SetReplayReady, NextIteration, NextBunch,
           ProcessBunch, NfreeCurrent, IocbsMap, IoSubmit, CountOut, SendDone,
           SetReplayDone, PoolInv, TypeOK
      <4> QED BY <4>1, <4>2, <2>k DEF Holders
    <3> QED BY <3>1, <3>2, <3>3
  <2>2. ASSUME NEW f \in Files, Reap(f) \/ SpuriousWakeRec(f) \/ SpuriousWakeSub(f)
        PROVE  TokensConserved'
    <3>1. UNCHANGED <<main, iter_start, n_iters_done>>
      BY <2>2 DEF Reap, ReapDone, ReapWait, GetEvents, Reclaim, SetReclaimDone,
         SpuriousWakeRec, SpuriousWakeSub, counts
    <3>2. sub' = sub \/ (sub[f] = "nfree_wait" /\ sub' = [sub EXCEPT ![f] = "nfree"])
      BY <2>2 DEF Reap, ReapDone, ReapWait, GetEvents, Reclaim, SetReclaimDone,
         SpuriousWakeRec, SpuriousWakeSub, WakeSubmitter, SubAt, SubGoto
    <3>3. Holders' = Holders
      BY <3>2 DEF Holders, PoolInv, TypeOK
    <3> QED BY <3>1, <3>3, <2>k
  <2>3. CASE MainStep
    <3>1. Holders' = Holders
      BY <2>3 DEF Holders, MainStep, WaitReplaysReady, StartIter, WaitItersDone,
         WaitReplaysDone, WaitReclaimsDone, TipRelease
    <3>2. CASE WaitItersDone
      BY <3>1, <3>2, <2>a, <2>t DEF WaitItersDone, ItersDone, TokensConserved, Holders
    <3>3. CASE StartIter
      BY <3>1, <3>3, <2>a, <2>t DEF StartIter, TokensConserved, Holders
    <3>4. CASE WaitReplaysReady \/ WaitReplaysDone \/ WaitReclaimsDone \/ TipRelease
      BY <3>1, <3>4, <2>a, <2>t DEF WaitReplaysReady, WaitReplaysDone,
         WaitReclaimsDone, TipRelease, TokensConserved, Holders, counts
    <3> QED BY <2>3, <3>2, <3>3, <3>4 DEF MainStep
  <2>4. CASE SetSignalDone \/ UNCHANGED vars
    BY <2>4, <2>k DEF SetSignalDone, vars, counts, Holders
  <2> QED BY <2>1, <2>2, <2>3, <2>4 DEF Next, Terminated
<1> QED BY <1>1, <1>2, PoolInvariant, PTL DEF Spec

Ended == {f \in Files : rec[f] = "end"}

(* Main releases the files only when both threads of each are through and    *)
(* every control block is back: tip_release's assertions hold.              *)
THEOREM ReleasedClean == Spec => []ReleaseSafe
<1>1. Init => ReclaimsInv
  <2> SUFFICES ASSUME Init PROVE ReclaimsInv
    OBVIOUS
  <2>1. {f \in Files : rec[f] = "end"} = {}
    BY DEF Init
  <2> QED BY <2>1, FS_EmptySet DEF Init, ReclaimsInv
<1>2. PoolInv /\ ReclaimsInv /\ [Next]_vars => ReclaimsInv'
  <2> SUFFICES ASSUME PoolInv, ReclaimsInv, [Next]_vars PROVE ReclaimsInv'
    OBVIOUS
  <2>t. IsFiniteSet(Ended) /\ Cardinality(Ended) \in Nat
    BY FileSets DEF Ended
  <2>k. ASSUME UNCHANGED <<Ended, main, n_reclaims_done>> PROVE ReclaimsInv'
    BY <2>k DEF ReclaimsInv, Ended
  <2>1. ASSUME NEW f \in Files, Submit(f) \/ SpuriousWakeSub(f) PROVE ReclaimsInv'
    <3>1. UNCHANGED <<main, n_reclaims_done>>
      BY <2>1 DEF Submit, SetReplayReady, NextIteration, WaitIterStart, NextBunch,
         ProcessBunch, NfreeCurrent, IocbsMap, IoSubmit, CountOut, SetIterDone,
         SendDone, SetReplayDone, SpuriousWakeSub, counts
    <3>2. rec' = rec \/ (rec[f] = "waiting" /\ rec' = [rec EXCEPT ![f] = "lock"])
      BY <2>1 DEF Submit, SetReplayReady, NextIteration, WaitIterStart, NextBunch,
         ProcessBunch, NfreeCurrent, IocbsMap, IoSubmit, CountOut, SetIterDone,
         SendDone, SetReplayDone, SpuriousWakeSub, WakeReclaimer, RecGoto
    <3>3. Ended' = Ended
      BY <3>2 DEF Ended, PoolInv, TypeOK
    <3> QED BY <3>1, <3>3, <2>k
  <2>2. ASSUME NEW f \in Files, Reap(f) \/ SpuriousWakeRec(f) PROVE ReclaimsInv'
    <3>1. CASE SetReclaimDone(f)
      <4>1. f \notin Ended /\ Ended' = Ended \cup {f}
        BY <3>1 DEF SetReclaimDone, RecAt, RecGoto, Ended, PoolInv, TypeOK
      <4>2. Cardinality(Ended') = Cardinality(Ended) + 1
        BY <4>1, <2>t, FS_AddElement
      <4>3. n_reclaims_done' = n_reclaims_done + 1 /\ main' = main
        BY <3>1 DEF SetReclaimDone
      <4>4. main \notin {"release", "exit"}
        BY <4>1 DEF ReclaimsInv, Ended
      <4> QED BY <4>2, <4>3, <4>4 DEF ReclaimsInv, Ended
    <3>2. CASE ~SetReclaimDone(f)
      <4>1. /\ UNCHANGED <<main, n_reclaims_done>>
            /\ \A g \in Files : g # f => rec'[g] = rec[g]
            /\ rec[f] # "end" /\ rec'[f] # "end"
        BY <2>2, <3>2 DEF Reap, ReapDone, ReapWait, GetEvents, Reclaim,
           SpuriousWakeRec, RecAt, RecGoto, counts, PoolInv, TypeOK
      <4> QED BY <4>1, <2>k DEF Ended
    <3> QED BY <3>1, <3>2
  <2>3. CASE MainStep
    <3>1. rec' = rec
      BY <2>3 DEF MainStep, WaitReplaysReady, StartIter, WaitItersDone,
         WaitReplaysDone, WaitReclaimsDone, TipRelease
    <3>2. CASE WaitReclaimsDone
      <4>1. Cardinality(Ended) >= nfiles
        BY <3>2 DEF WaitReclaimsDone, ReclaimsInv, Ended
      <4>2. Ended = Files
        BY <4>1, FileSets DEF Ended
      <4> QED BY <3>1, <3>2, <4>2 DEF WaitReclaimsDone, ReclaimsInv, Ended
    <3>3. CASE TipRelease
      BY <3>1, <3>3 DEF TipRelease, ReclaimsInv
    <3>4. CASE WaitReplaysReady \/ StartIter \/ WaitItersDone \/ WaitReplaysDone
      BY <3>1, <3>4 DEF WaitReplaysReady, StartIter, WaitItersDone, WaitReplaysDone,
         ReclaimsInv
    <3> QED BY <2>3, <3>2, <3>3, <3>4 DEF MainStep
  <2>4. CASE SetSignalDone \/ UNCHANGED vars
    BY <2>4, <2>k DEF SetSignalDone, vars, counts, Ended
  <2> QED BY <2>1, <2>2, <2>3, <2>4 DEF Next, Terminated
<1>3. PoolInv /\ ReclaimsInv => ReleaseSafe
  <2> SUFFICES ASSUME PoolInv, ReclaimsInv, main = "release", NEW f \in Files
               PROVE  Releasable(f)
    BY DEF ReleaseSafe
  <2>1. rec[f] = "end"
    BY DEF ReclaimsInv
  <2>2. send_done[f] /\ naios_out[f] = 0 /\ reap_done[f]
    BY <2>1 DEF PoolInv, FileInv, RecInv
  <2>3. sub[f] \in {"replay_done", "end"}
    BY <2>2 DEF PoolInv, FileInv, SubInv
  <2>4. naios_free[f] = NAios
    BY <2>2, <2>3, ReplayAssumption DEF PoolInv, AiosConserved, Conserved,
       Uncounted, TypeOK, ReplayAssumption
  <2> QED BY <2>2, <2>4 DEF Releasable
<1> QED BY <1>1, <1>2, <1>3, PoolInvariant, PTL DEF Spec
=============================================================================
