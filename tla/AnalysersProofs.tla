---------------------------- MODULE AnalysersProofs ----------------------------
(***************************************************************************)
(* What blkparse, btt and iowatcher derive of the I/Os in flight, of their *)
(* number and of the times with work is what happened: for any workload    *)
(* whose I/Os in flight do not overlap, as they are known by their sector. *)
(***************************************************************************)
EXTENDS Analysers, FiniteSetTheorems, WellFoundedInduction, TLAPS

Live(b) == at[b] \notin {"new", "done"}

(* No two I/Os in flight overlap.                                            *)
Separate == \A b, c \in Bios : b # c /\ Live(b) /\ Live(c) =>
              EndOf(b) <= bio(c).sec \/ EndOf(c) <= bio(b).sec

(* And btt is not asked for less than the whole trace.                       *)
Usual == Separate /\ t_astart <= 1 /\ clock <= t_aend
-----------------------------------------------------------------------------
(* The kernel: what is true of a bio or request where it is.                 *)

Stations == {"new", "above", "remapped", "queued", "asleep", "allocated", "waiting",
             "merged", "issued", "below", "done"}
Requests == Places({"allocated", "waiting", "issued"})

AtStation(b) ==
  /\ at[b] \in {"new", "above", "remapped", "queued", "asleep", "allocated"} => rq[b] = {b}
  /\ at[b] \in {"above", "remapped", "below"} => bio(b).mapped
  /\ bio(b).pc => at[b] \in {"new", "allocated", "waiting", "issued", "done"}

(* The bios of a request from its first to its last, without a gap.          *)
Spans(l, first, last) ==
  /\ first \in rq[l] /\ last \in rq[l]
  /\ \A b \in rq[l] : bio(first).sec <= bio(b).sec /\ EndOf(b) <= EndOf(last)
  /\ \A x \in bio(first).sec..EndOf(last) - 1 : \E b \in rq[l] : bio(b).sec <= x /\ x < EndOf(b)

IsRequest(l) ==
  /\ l \in rq[l]
  /\ \A b \in rq[l] : bio(b).pc = bio(l).pc /\ (b # l => at[b] = "merged")
  /\ \E first, last \in Bios : Spans(l, first, last)

KernelTypes ==
  /\ scene \in Scenes
  /\ at \in [Bios -> Stations] /\ rq \in [Bios -> SUBSET Bios]
  /\ clock \in Nat /\ issued \in [Bios -> Nat] /\ \A b \in Bios : issued[b] <= clock
  /\ left \in [requeues : 0..scene.requeues, plugs : Nat]

Placed ==
  /\ \A b \in Bios : AtStation(b)
  /\ \A l \in Requests : IsRequest(l)
  /\ \A l, m \in Requests : l # m => rq[l] \cap rq[m] = {}

KernelInv == KernelTypes /\ Placed

DepthInv ==
  /\ lost \in Nat
  /\ depths \in [Devices -> [cur : Nat, max : Nat]]
  /\ Near(depths[Lower].cur, Cardinality(In("issued")), lost)

(* The requests at the driver that iowatcher does not wait for.              *)
Unseen == {l \in In("issued") : <<StartOf(l), Lower>> \notin DOMAIN pending}

Follows(ios, n, unseen, k) == n - ios <= k /\ ios - n + unseen <= k

FlightInv ==
  /\ lost \in Nat /\ ios_in_flight \in Nat
  /\ Plain => Follows(ios_in_flight, Cardinality(In("issued")), Cardinality(Unseen), lost)
-----------------------------------------------------------------------------
(* blkparse without losses.                                                 *)
Measured(n) == n \in 1..clock

IoFields == {"pid", "alloc", "queue", "dispatch"}

Noticed(l, io) ==
  /\ Measured(io.alloc)
  /\ at[l] \in {"waiting", "issued"} => Measured(io.queue)
  /\ at[l] = "issued" => Measured(io.dispatch)

Tree ==
  /\ DOMAIN tracks[Lower] = {StartOf(l) : l \in Fs(Requests)}
  /\ \A s \in DOMAIN tracks[Lower] : DOMAIN tracks[Lower][s] = IoFields
  /\ \A l \in Fs(Requests) : Noticed(l, tracks[Lower][StartOf(l)])

MappedTree ==
  \A s \in DOMAIN tracks[Mapped] :
    DOMAIN tracks[Mapped][s] = IoFields /\ Measured(tracks[Mapped][s].dispatch)

Tracking == Tree /\ MappedTree /\ shown # Junk

TrackInv == lost \in Nat /\ DOMAIN tracks = Devices /\ (lost = 0 => Tracking)
-----------------------------------------------------------------------------
(* btt without losses.                                                      *)
OnDisk == {b \in Bios : ~bio(b).pc /\ at[b] \in {"queued", "asleep", "allocated", "waiting", "merged", "issued"}}
OnMapped == {b \in Bios : bio(b).mapped /\ Live(b)}
Waiting == Places({"queued", "asleep", "allocated", "waiting"})
About(q, b) == q.sec = bio(b).sec /\ q.len = bio(b).len

DipFields == DOMAIN NoDip(0)
QFields == {"sec", "len", "time", "pip", "g", "s", "i", "m", "d"}

Matches(qs, bios) == /\ \A b \in bios : \E q \in qs : About(q, b)
                     /\ \A q \in qs : \E b \in bios : About(q, b)
Holds(dev, bios) == (bios # {} => ~Dip(dev).culling) /\ Matches(Dip(dev).qs, bios)

Timely(qs, now) == \A q \in qs : DOMAIN q = QFields /\ (q.d = None \/ q.d \in 1..now)
QTypes(qs) == Timely(qs, clock)

DipTypes ==
  /\ DOMAIN dips \subseteq Devices
  /\ \A d \in DOMAIN dips : DOMAIN dips[d] = DipFields /\ QTypes(dips[d].qs)

IssuedAt(qs, l, time) == \A b \in rq[l] : \A q \in qs : About(q, b) => q.d = time

Counts ==
  /\ Dip(Lower).n_act_q = Cardinality(Waiting)
  /\ Dip(Lower).na = Cardinality(In("issued")) + (scene.requeues - left.requeues)

DiskQueue ==
  /\ Holds(Lower, OnDisk)
  /\ \A l \in Fs(In("issued")) : IssuedAt(Dip(Lower).qs, l, issued[l])
  /\ NoPackets => Counts

MappedQueue == Holds(Mapped, OnMapped) /\ \A q \in Dip(Mapped).qs : q.d = None

QueueInv == lost \in Nat /\ (lost = 0 => DiskQueue /\ MappedQueue)

Covered(lives, t) == \E p \in lives : p.dt <= t /\ t <= p.ct
AtDriver(t) == \E f \in Served : f.issue <= t /\ t <= f.end
Periods(lives, now) ==
  Apart(lives) /\ \A p \in lives : p.dt \in Nat /\ p.ct \in Nat /\ p.dt <= p.ct /\ p.ct <= now

LivesInv ==
  /\ "lives" \in DOMAIN system /\ Periods(system.lives, clock)
  /\ \A f \in finished : f.issue \in Nat /\ f.end \in Nat /\ f.end <= clock
  /\ lost \in Nat
  /\ lost = 0 => \A t \in 0..clock : Covered(system.lives, t) <=> AtDriver(t)

-----------------------------------------------------------------------------
(* The kernel.                                                              *)

LEMMA SceneTypes ==
  ASSUME KernelTypes
  PROVE  /\ Len(scene.bios) \in Nat /\ scene.bios \in Seq(Bio) /\ Bios = DOMAIN scene.bios
         /\ scene.requeues \in Nat /\ scene.plugs \in Nat
         /\ \A b \in Bios : ~(bio(b).mapped /\ bio(b).pc)
<1>1. scene \in Scene /\ \A b \in DOMAIN scene.bios : ~(scene.bios[b].mapped /\ scene.bios[b].pc)
  BY ScenesAssumption DEF KernelTypes
<1>2. scene.bios \in Seq(Bio) /\ scene.requeues \in Nat /\ scene.plugs \in Nat
  BY <1>1 DEF Scene
<1> QED BY <1>1, <1>2 DEF Bios, bio

LEMMA BioTypes ==
  ASSUME KernelTypes, NEW b \in Bios
  PROVE  /\ bio(b).sec \in Nat /\ bio(b).len \in Nat /\ bio(b).len > 0
         /\ EndOf(b) \in Nat /\ EndOf(b) > bio(b).sec
         /\ bio(b).pc \in BOOLEAN /\ bio(b).mapped \in BOOLEAN
<1>1. bio(b) \in Bio
  BY SceneTypes DEF bio
<1>2. bio(b).sec \in Nat /\ bio(b).len \in Nat \ {0} /\ bio(b).pc \in BOOLEAN /\ bio(b).mapped \in BOOLEAN
  BY <1>1 DEF Bio
<1> QED BY <1>2 DEF EndOf

LEMMA BiosFinite ==
  ASSUME KernelTypes
  PROVE  IsFiniteSet(Bios) /\ \A S \in SUBSET Bios : IsFiniteSet(S) /\ Cardinality(S) \in Nat
<1>1. IsFiniteSet(Bios)
  BY SceneTypes, FS_Interval DEF Bios
<1> QED BY <1>1, FS_Subset, FS_CardinalityType

(* A bio that passes from one station to the next.                           *)
LEMMA PassKeeps ==
  ASSUME KernelInv, NEW b \in Bios, NEW place \in Stations, Move(b, place),
         UNCHANGED <<scene, rq>>, at[b] # "merged", AtStation(b)',
         place \in {"allocated", "waiting", "issued"} => at[b] \notin {"below", "done"}
  PROVE  at' \in [Bios -> Stations] /\ Placed'
<1>1. /\ KernelTypes /\ Placed /\ at \in [Bios -> Stations] /\ rq \in [Bios -> SUBSET Bios]
      /\ Bios' = Bios /\ \A c \in Bios : bio(c)' = bio(c) /\ EndOf(c)' = EndOf(c)
  BY DEF KernelInv, KernelTypes, Bios, bio, EndOf
<1>2. at' = [at EXCEPT ![b] = place] /\ at' \in [Bios -> Stations] /\ rq' = rq
  BY <1>1 DEF Move
<1>3. \A c \in Bios : AtStation(c)'
  BY <1>1, <1>2 DEF Placed, AtStation
<1>4. \A l \in Requests : b \in rq[l] => l = b
  BY <1>1 DEF Placed, IsRequest
<1>5. \A l \in Requests' : l \in Bios /\ (l # b => l \in Requests)
  BY <1>1, <1>2 DEF Requests, Places
<1>6. \A l \in Requests' : (l = b /\ l \notin Requests) => rq[l] = {l}
  <2> SUFFICES ASSUME b \in Requests', b \notin Requests PROVE rq[b] = {b}
    OBVIOUS
  <2>1. at[b] \in {"new", "above", "remapped", "queued", "asleep"}
    BY <1>1, <1>2 DEF Requests, Places, Stations
  <2> QED BY <1>1, <2>1 DEF Placed, AtStation
<1>7. \A l \in Requests' : IsRequest(l)'
  <2> SUFFICES ASSUME NEW l \in Requests' PROVE IsRequest(l)'
    OBVIOUS
  <2>1. CASE l \in Requests
    <3>1. IsRequest(l) /\ \A c \in rq[l] : c # l => c # b
      BY <1>1, <1>4, <2>1 DEF Placed
    <3>2. rq[l] \subseteq Bios
      BY <1>1, <1>5
    <3>3. PICK first \in Bios, last \in Bios : Spans(l, first, last)
      BY <3>1 DEF IsRequest
    <3>4. Spans(l, first, last)'
      BY <1>1, <1>2, <3>2, <3>3 DEF Spans
    <3>5. \A c \in rq[l] : c # l => at'[c] = at[c]
      BY <1>1, <1>2, <3>1, <3>2
    <3> QED BY <1>1, <1>2, <1>5, <3>1, <3>2, <3>4, <3>5 DEF IsRequest
  <2>2. CASE l \notin Requests
    <3>1. l = b /\ rq[l] = {l}
      BY <1>5, <1>6, <2>2
    <3>2. bio(l).sec \in Nat /\ EndOf(l) \in Nat
      BY <1>1, BioTypes, <3>1
    <3>3. Spans(l, l, l)'
      BY <1>1, <1>2, <3>1, <3>2 DEF Spans
    <3> QED BY <1>1, <1>2, <3>1, <3>3 DEF IsRequest
  <2> QED BY <2>1, <2>2
<1>8. \A l, m \in Requests' : l # m => (rq[l] \cap rq[m] = {})'
  <2> SUFFICES ASSUME NEW l \in Requests', NEW m \in Requests', l # m PROVE rq[l] \cap rq[m] = {}
    BY <1>2
  <2>1. CASE l \in Requests /\ m \in Requests
    BY <1>1, <2>1 DEF Placed
  <2>2. CASE l \notin Requests
    BY <1>4, <1>5, <1>6, <2>2
  <2>3. CASE m \notin Requests
    BY <1>4, <1>5, <1>6, <2>3
  <2> QED BY <2>1, <2>2, <2>3
<1> QED BY <1>1, <1>2, <1>3, <1>7, <1>8 DEF Placed

LEMMA StartIs ==
  ASSUME KernelTypes, NEW l \in Bios, NEW first \in Bios, NEW last \in Bios, Spans(l, first, last)
  PROVE  StartOf(l) = bio(first).sec /\ StopOf(l) = EndOf(last)
<1>1. rq[l] \subseteq Bios
  BY DEF KernelTypes
<1>2. \A b \in rq[l] : bio(b).sec \in Nat /\ EndOf(b) \in Nat
  BY <1>1, BioTypes
<1>3. StartOf(l) = bio(first).sec
  <2>1. PICK c : c = CHOOSE b \in rq[l] : \A d \in rq[l] : bio(b).sec <= bio(d).sec
    OBVIOUS
  <2>2. c \in rq[l] /\ \A d \in rq[l] : bio(c).sec <= bio(d).sec
    BY <2>1 DEF Spans
  <2>3. bio(c).sec = bio(first).sec
    <3>1. bio(c).sec <= bio(first).sec /\ bio(first).sec <= bio(c).sec
      BY <2>2 DEF Spans
    <3> QED BY <1>2, <2>2, <3>1 DEF Spans
  <2> QED BY <2>1, <2>3 DEF StartOf
<1>4. StopOf(l) = EndOf(last)
  <2>1. PICK c : c = CHOOSE b \in rq[l] : \A d \in rq[l] : EndOf(d) <= EndOf(b)
    OBVIOUS
  <2>2. c \in rq[l] /\ \A d \in rq[l] : EndOf(d) <= EndOf(c)
    BY <2>1 DEF Spans
  <2>3. EndOf(c) = EndOf(last)
    <3>1. EndOf(c) <= EndOf(last) /\ EndOf(last) <= EndOf(c)
      BY <2>2 DEF Spans
    <3> QED BY <1>2, <2>2, <3>1 DEF Spans
  <2> QED BY <2>1, <2>3 DEF StopOf
<1> QED BY <1>3, <1>4

LEMMA RequestSpan ==
  ASSUME KernelInv, NEW l \in Requests
  PROVE  /\ l \in Bios /\ l \in rq[l] /\ rq[l] \subseteq Bios
         /\ StartOf(l) \in Nat /\ StopOf(l) \in Nat /\ SizeOf(l) \in Nat
         /\ StartOf(l) + SizeOf(l) = StopOf(l)
         /\ \E first, last \in rq[l] : /\ Spans(l, first, last)
                                       /\ StartOf(l) = bio(first).sec /\ StopOf(l) = EndOf(last)
         /\ \A b \in rq[l] : StartOf(l) <= bio(b).sec /\ EndOf(b) <= StopOf(l)
         /\ \A x \in StartOf(l)..StopOf(l) - 1 : \E b \in rq[l] : bio(b).sec <= x /\ x < EndOf(b)
<1>1. l \in Bios /\ l \in rq[l] /\ rq[l] \subseteq Bios /\ KernelTypes
  BY DEF KernelInv, KernelTypes, Placed, IsRequest, Requests, Places
<1>2. PICK first \in Bios, last \in Bios : Spans(l, first, last)
  BY DEF KernelInv, Placed, IsRequest
<1>3. first \in rq[l] /\ last \in rq[l]
  BY <1>2 DEF Spans
<1>4. StartOf(l) = bio(first).sec /\ StopOf(l) = EndOf(last)
  BY <1>1, <1>2, StartIs
<1>5. bio(first).sec \in Nat /\ EndOf(last) \in Nat /\ bio(first).sec <= bio(last).sec /\ bio(last).sec < EndOf(last)
      /\ bio(last).sec \in Nat
  BY <1>1, <1>2, <1>3, BioTypes DEF Spans
<1>6. SizeOf(l) \in Nat /\ StartOf(l) + SizeOf(l) = StopOf(l)
  <2>1. SizeOf(l) = EndOf(last) - bio(first).sec
    BY <1>4 DEF SizeOf
  <2> QED BY <1>4, <1>5, <2>1
<1>7. /\ \A b \in rq[l] : StartOf(l) <= bio(b).sec /\ EndOf(b) <= StopOf(l)
      /\ \A x \in StartOf(l)..StopOf(l) - 1 : \E b \in rq[l] : bio(b).sec <= x /\ x < EndOf(b)
  BY <1>2, <1>4 DEF Spans
<1> QED BY <1>1, <1>2, <1>3, <1>4, <1>5, <1>6, <1>7

(* A bio is merged at one of the ends of a request.                          *)
LEMMA MergeKeeps ==
  ASSUME KernelInv, NEW b \in Bios, NEW l \in Bios, Merge(b, l)
  PROVE  /\ at' \in [Bios -> Stations] /\ rq' \in [Bios -> SUBSET Bios] /\ Placed'
         /\ l \in Requests /\ b \notin rq[l] /\ at' = [at EXCEPT ![b] = "merged"]
         /\ rq' = [rq EXCEPT ![l] = @ \cup {b}] /\ Requests' = Requests
<1>1. /\ KernelTypes /\ Placed /\ at \in [Bios -> Stations] /\ rq \in [Bios -> SUBSET Bios]
      /\ Bios' = Bios /\ \A c \in Bios : bio(c)' = bio(c) /\ EndOf(c)' = EndOf(c)
  BY DEF KernelInv, KernelTypes, Bios, bio, EndOf, Merge
<1>2. /\ at' = [at EXCEPT ![b] = "merged"] /\ at' \in [Bios -> Stations]
      /\ rq' = [rq EXCEPT ![l] = @ \cup {b}] /\ rq' \in [Bios -> SUBSET Bios]
      /\ at[b] = "queued" /\ at[l] = "waiting" /\ b # l /\ ~bio(l).pc
      /\ (StartOf(l) + SizeOf(l) = bio(b).sec \/ EndOf(b) = StartOf(l))
  BY <1>1 DEF Merge, Move, Stations
<1>3. Requests' = Requests /\ l \in Requests /\ b \notin Requests
  BY <1>1, <1>2 DEF Requests, Places
<1>4. \A m \in Requests : b \notin rq[m]
  BY <1>1, <1>2, <1>3 DEF Placed, IsRequest
<1>5. \A c \in Bios : AtStation(c)'
  <2>1. ~bio(b).pc
    BY <1>1, <1>2 DEF Placed, AtStation
  <2> QED BY <1>1, <1>2, <2>1 DEF Placed, AtStation
<1>6. ASSUME NEW m \in Requests, m # l PROVE IsRequest(m)'
  <2>1. IsRequest(m) /\ rq'[m] = rq[m] /\ rq[m] \subseteq Bios /\ b \notin rq[m] /\ m \in Bios
    BY <1>1, <1>2, <1>3, <1>4, <1>6 DEF Placed, Requests, Places
  <2>2. PICK first \in Bios, last \in Bios : Spans(m, first, last)
    BY <2>1 DEF IsRequest
  <2>3. Spans(m, first, last)'
    BY <1>1, <2>1, <2>2 DEF Spans
  <2> QED BY <1>1, <1>2, <2>1, <2>3 DEF IsRequest
<1>7. IsRequest(l)'
  <2>1. PICK first \in rq[l], last \in rq[l] :
          Spans(l, first, last) /\ StartOf(l) = bio(first).sec /\ StopOf(l) = EndOf(last)
    BY <1>3, RequestSpan
  <2>2. /\ rq[l] \subseteq Bios /\ rq'[l] = rq[l] \cup {b} /\ StartOf(l) + SizeOf(l) = StopOf(l)
        /\ \A c \in Bios : bio(c).sec \in Nat /\ EndOf(c) \in Nat /\ bio(c).sec < EndOf(c)
    BY <1>1, <1>2, <1>3, RequestSpan, BioTypes
  <2>3. \E f, t \in Bios : Spans(l, f, t)'
    <3>1. CASE bio(b).sec = EndOf(last)
      <4>1. Spans(l, first, b)'
        <5>1. \A c \in rq[l] \cup {b} : bio(first).sec <= bio(c).sec /\ EndOf(c) <= EndOf(b)
          BY <2>1, <2>2, <3>1 DEF Spans
        <5>2. ASSUME NEW x \in bio(first).sec..EndOf(b) - 1
              PROVE  \E c \in rq[l] \cup {b} : bio(c).sec <= x /\ x < EndOf(c)
          <6>1. CASE x < EndOf(last)
            BY <2>1, <2>2, <6>1 DEF Spans
          <6>2. CASE x >= EndOf(last)
            BY <2>2, <3>1, <6>2
          <6> QED BY <2>2, <6>1, <6>2
        <5> QED BY <1>1, <2>2, <5>1, <5>2 DEF Spans
      <4> QED BY <1>1, <2>2, <4>1
    <3>2. CASE EndOf(b) = bio(first).sec
      <4>1. Spans(l, b, last)'
        <5>1. \A c \in rq[l] \cup {b} : bio(b).sec <= bio(c).sec /\ EndOf(c) <= EndOf(last)
          BY <2>1, <2>2, <3>2 DEF Spans
        <5>2. ASSUME NEW x \in bio(b).sec..EndOf(last) - 1
              PROVE  \E c \in rq[l] \cup {b} : bio(c).sec <= x /\ x < EndOf(c)
          <6>1. CASE x >= bio(first).sec
            BY <2>1, <2>2, <6>1 DEF Spans
          <6>2. CASE x < bio(first).sec
            BY <2>2, <3>2, <6>2
          <6> QED BY <2>2, <6>1, <6>2
        <5> QED BY <1>1, <2>2, <5>1, <5>2 DEF Spans
      <4> QED BY <1>1, <2>2, <4>1
    <3> QED BY <1>2, <2>1, <2>2, <3>1, <3>2
  <2>4. \A c \in rq[l] \cup {b} : bio(c).pc = bio(l).pc /\ (c # l => at'[c] = "merged")
    <3>1. bio(b).pc = bio(l).pc
      BY <1>1, <1>2, BioTypes DEF Placed, AtStation
    <3> QED BY <1>1, <1>2, <1>3, <2>2, <3>1 DEF Placed, IsRequest
  <2> QED BY <1>1, <1>3, <2>2, <2>3, <2>4 DEF Placed, IsRequest
<1>8. ASSUME NEW m \in Requests, NEW n \in Requests, m # n PROVE rq'[m] \cap rq'[n] = {}
  <2>1. rq[m] \cap rq[n] = {} /\ b \notin rq[m] /\ b \notin rq[n]
    BY <1>1, <1>4, <1>8 DEF Placed
  <2>2. rq'[m] = (IF m = l THEN rq[m] \cup {b} ELSE rq[m]) /\ rq'[n] = (IF n = l THEN rq[n] \cup {b} ELSE rq[n])
    BY <1>1, <1>2, <1>8 DEF Requests, Places
  <2> QED BY <1>8, <2>1, <2>2
<1> QED BY <1>1, <1>2, <1>3, <1>4, <1>5, <1>6, <1>7, <1>8 DEF Placed

(* A completion ends one request.                                            *)
LEMMA CompleteKeeps ==
  ASSUME KernelInv, NEW l \in Bios, Complete(l)
  PROVE  /\ at' \in [Bios -> Stations] /\ Placed' /\ l \in Requests
         /\ Requests' = Requests \ {l}
         /\ \A b \in Bios : b \notin rq[l] => at'[b] = at[b]
         /\ \A b \in rq[l] : at'[b] = IF bio(b).mapped THEN "below" ELSE "done"
<1>1. /\ KernelTypes /\ Placed /\ at \in [Bios -> Stations] /\ rq \in [Bios -> SUBSET Bios]
      /\ Bios' = Bios /\ rq' = rq /\ \A c \in Bios : bio(c)' = bio(c) /\ EndOf(c)' = EndOf(c)
  BY DEF KernelInv, KernelTypes, Bios, bio, EndOf, Complete
<1>2. /\ at' = [b \in Bios |-> IF b \notin rq[l] THEN at[b] ELSE IF bio(b).mapped THEN "below" ELSE "done"]
      /\ at[l] = "issued" /\ at' \in [Bios -> Stations]
  BY <1>1 DEF Complete, Stations
<1>3. l \in Requests /\ IsRequest(l) /\ rq[l] \subseteq Bios
  BY <1>1, <1>2 DEF Requests, Places, Placed
<1>4. /\ \A b \in Bios : b \notin rq[l] => at'[b] = at[b]
      /\ \A b \in rq[l] : at'[b] = IF bio(b).mapped THEN "below" ELSE "done"
  BY <1>2, <1>3
<1>5. Requests' = Requests \ {l}
  <2>1. \A b \in rq[l] : b # l => b \notin Requests
    BY <1>3 DEF IsRequest, Requests, Places
  <2>2. \A b \in rq[l] : b \notin Requests'
    BY <1>4 DEF Requests, Places
  <2>3. \A b \in Bios : b \notin rq[l] => (b \in Requests' <=> b \in Requests)
    BY <1>1, <1>4 DEF Requests, Places
  <2>4. Requests' \subseteq Bios /\ Requests \subseteq Bios /\ l \in rq[l]
    BY <1>1, <1>3 DEF Requests, Places, IsRequest
  <2> QED BY <1>3, <2>1, <2>2, <2>3, <2>4
<1>6. ASSUME NEW b \in Bios PROVE AtStation(b)'
  <2>1. CASE b \in rq[l]
    <3>1. ~(bio(b).mapped /\ bio(b).pc)
      BY <1>1, SceneTypes
    <3> QED BY <1>1, <1>4, <2>1, <3>1 DEF AtStation
  <2>2. CASE b \notin rq[l]
    BY <1>1, <1>4, <2>2 DEF AtStation, Placed
  <2> QED BY <2>1, <2>2
<1>7. ASSUME NEW m \in Requests, m # l PROVE IsRequest(m)'
  <2>1. IsRequest(m) /\ rq[m] \cap rq[l] = {} /\ rq[m] \subseteq Bios /\ m \in Bios
    BY <1>1, <1>3, <1>7 DEF Placed, Requests, Places
  <2>2. PICK first \in Bios, last \in Bios : Spans(m, first, last)
    BY <2>1 DEF IsRequest
  <2>3. Spans(m, first, last)'
    BY <1>1, <2>1, <2>2 DEF Spans
  <2>4. \A b \in rq[m] : at'[b] = at[b]
    BY <1>4, <2>1
  <2> QED BY <1>1, <2>1, <2>3, <2>4 DEF IsRequest
<1>8. \A m, n \in Requests : m # n => rq[m] \cap rq[n] = {}
  BY <1>1 DEF Placed
<1> QED BY <1>1, <1>2, <1>3, <1>4, <1>5, <1>6, <1>7, <1>8 DEF Placed

(* Every step is an event, a tick later than the last.                       *)
LEMMA StepTicks ==
  ASSUME KernelTypes, KernelStep
  PROVE  /\ scene' = scene /\ clock' = clock + 1 /\ event'.time = clock + 1
         /\ issued' \in [Bios -> Nat] /\ \A b \in Bios : issued'[b] <= clock + 1
         /\ left' \in [requeues : 0..scene.requeues, plugs : Nat]
<1>0. clock \in Nat /\ issued \in [Bios -> Nat] /\ \A b \in Bios : issued[b] <= clock
  BY DEF KernelTypes
<1> DEFINE Ticks ==
      /\ scene' = scene /\ clock' = clock + 1 /\ event'.time = clock + 1
      /\ (issued' = issued \/ \E l \in Bios : issued' = [issued EXCEPT ![l] = clock + 1])
      /\ \/ left' = left
         \/ left.requeues > 0 /\ left' = [left EXCEPT !.requeues = @ - 1]
         \/ left.plugs > 0 /\ left' = [left EXCEPT !.plugs = @ - 1]
<1>1. Ticks
  <2>1. ASSUME NEW p \in Pids, NEW n \in Names, Announce(p, n) PROVE Ticks
    BY <2>1 DEF Announce, NoEvent
  <2>2. ASSUME NEW b \in Bios, Submit(b) PROVE Ticks
    BY <2>2 DEF Submit, EmitBio, Emit, NoEvent
  <2>3. ASSUME NEW b \in Bios, Remap(b) PROVE Ticks
    BY <2>3 DEF Remap, NoEvent
  <2>4. ASSUME NEW b \in Bios, SubmitBelow(b) \/ Sleep(b) \/ Allocate(b) \/ Insert(b) PROVE Ticks
    BY <2>4 DEF SubmitBelow, Sleep, Allocate, Insert, Pass, EmitBio, Emit, NoEvent
  <2>5. ASSUME NEW b \in Bios, Issue(b) PROVE Ticks
    BY <2>5 DEF Issue, EmitRequest, Emit, NoEvent
  <2>6. ASSUME NEW b \in Bios, Requeue(b) PROVE Ticks
    BY <2>6 DEF Requeue, EmitRequest, Emit, NoEvent
  <2>7. ASSUME NEW b \in Bios, Complete(b) PROVE Ticks
    BY <2>7 DEF Complete, EmitRequest, Emit, NoEvent
  <2>8. ASSUME NEW b \in Bios, CompleteAbove(b) PROVE Ticks
    BY <2>8 DEF CompleteAbove, Emit, NoEvent
  <2>9. ASSUME NEW b \in Bios, NEW l \in Bios, Merge(b, l) PROVE Ticks
    BY <2>9 DEF Merge, EmitBio, Emit, NoEvent
  <2>10. CASE Plug
    BY <2>10 DEF Plug, Emit, NoEvent
  <2>11. CASE Unplug
    BY <2>11 DEF Unplug, NoEvent
  <2> QED BY <2>1, <2>2, <2>3, <2>4, <2>5, <2>6, <2>7, <2>8, <2>9, <2>10, <2>11 DEF KernelStep
<1>2. issued' \in [Bios -> Nat] /\ \A b \in Bios : issued'[b] <= clock + 1
  <2>1. clock + 1 \in Nat /\ \A b \in Bios : issued[b] <= clock + 1
    BY <1>0
  <2> QED BY <1>0, <1>1, <2>1
<1>3. left' \in [requeues : 0..scene.requeues, plugs : Nat]
  <2>1. left \in [requeues : 0..scene.requeues, plugs : Nat] /\ scene.requeues \in Nat
    BY SceneTypes DEF KernelTypes
  <2>2. left.requeues \in 0..scene.requeues /\ left.plugs \in Nat
    BY <2>1
  <2>3. left.requeues > 0 => left.requeues - 1 \in 0..scene.requeues
    BY <2>1, <2>2
  <2>4. left.plugs > 0 => left.plugs - 1 \in Nat
    BY <2>2
  <2> QED BY <1>1, <2>1, <2>3, <2>4
<1> QED BY <1>1, <1>2, <1>3

(* Every bio is where its request is, each request is a range of sectors     *)
(* without a gap, and what the kernel counts is what there is.              *)
THEOREM KernelSound == Spec => []KernelInv
<1>1. Init => KernelInv
  <2> SUFFICES ASSUME Init PROVE KernelInv
    OBVIOUS
  <2>1. KernelTypes
    <3>1. scene \in Scene
      BY ScenesAssumption DEF Init, KernelInit
    <3>2. scene.requeues \in Nat /\ scene.plugs \in Nat
      BY <3>1 DEF Scene
    <3> QED BY <3>2 DEF Init, KernelInit, KernelTypes, Stations
  <2>2. \A b \in Bios : at[b] = "new" /\ rq[b] = {b}
    BY DEF Init, KernelInit
  <2>3. \A b \in Bios : AtStation(b)
    BY <2>2 DEF AtStation
  <2>4. Requests = {}
    BY <2>2 DEF Requests, Places
  <2> QED BY <2>1, <2>3, <2>4 DEF KernelInv, Placed
<1>2. KernelInv /\ [Next]_analysers => KernelInv'
  <2> SUFFICES ASSUME KernelInv, [Next]_analysers PROVE KernelInv'
    OBVIOUS
  <2>0. KernelTypes /\ Placed /\ at \in [Bios -> Stations] /\ rq \in [Bios -> SUBSET Bios]
    BY DEF KernelInv, KernelTypes
  <2>1. CASE UNCHANGED kernel
    BY <2>0, <2>1 DEF kernel, KernelInv, KernelTypes, Placed, AtStation, IsRequest, Spans, Requests, Places,
       Bios, bio, EndOf
  <2>2. CASE KernelStep
    <3>0. /\ at' \in [Bios -> Stations] /\ rq' \in [Bios -> SUBSET Bios] /\ Placed'
      <4>1. ASSUME UNCHANGED <<scene, at, rq>> PROVE Placed'
        <5>1. /\ Bios' = Bios /\ Requests' = Requests
              /\ (\A b : bio(b)' = bio(b)) /\ \A b : EndOf(b)' = EndOf(b)
          BY <4>1 DEF Requests, Places, Bios, bio, EndOf
        <5>2. \A b \in Bios : AtStation(b)'
          BY <2>0, <4>1, <5>1 DEF Placed, AtStation
        <5>3. \A l, f, t : Spans(l, f, t)' <=> Spans(l, f, t)
          BY <4>1, <5>1 DEF Spans
        <5>4. \A l \in Requests : IsRequest(l)'
          BY <2>0, <4>1, <5>1, <5>3 DEF Placed, IsRequest
        <5> QED BY <2>0, <4>1, <5>1, <5>2, <5>4 DEF Placed
      <4>2. ASSUME NEW p \in Pids, NEW n \in Names, Announce(p, n) PROVE UNCHANGED <<scene, at, rq>>
        BY <4>2 DEF Announce
      <4>3. ASSUME NEW b \in Bios, Submit(b) PROVE at' \in [Bios -> Stations] /\ rq' = rq /\ Placed'
        <5> DEFINE place == IF bio(b).mapped THEN "above" ELSE "queued"
        <5>1. /\ at[b] = "new" /\ Move(b, place) /\ UNCHANGED <<scene, rq>> /\ ~bio(b).pc
              /\ place \in {"above", "queued"}
          BY <4>3 DEF Submit
        <5>2. AtStation(b)'
          BY <2>0, <5>1 DEF AtStation, Placed, Move, bio
        <5>3. place \in Stations /\ place \notin {"allocated", "waiting", "issued"}
          BY <5>1 DEF Stations
        <5> HIDE DEF place
        <5> QED BY <5>1, <5>2, <5>3, PassKeeps
      <4>4. ASSUME NEW b \in Bios, Remap(b) PROVE at' \in [Bios -> Stations] /\ rq' = rq /\ Placed'
        <5>1. at[b] = "above" /\ Move(b, "remapped") /\ UNCHANGED <<scene, rq>>
          BY <4>4 DEF Remap
        <5>2. AtStation(b)'
          BY <2>0, <5>1 DEF AtStation, Placed, Move, bio
        <5> QED BY <5>1, <5>2, PassKeeps DEF Stations
      <4>5. ASSUME NEW b \in Bios, SubmitBelow(b) \/ Sleep(b) \/ Allocate(b) \/ Insert(b)
            PROVE at' \in [Bios -> Stations] /\ rq' = rq /\ Placed'
        <5>1. PICK from \in Stations, to \in Stations :
                /\ at[b] = from /\ Move(b, to) /\ UNCHANGED <<scene, rq>>
                /\ \/ from = "remapped" /\ to = "queued"
                   \/ from = "queued" /\ to = "asleep"
                   \/ from = (IF bio(b).pc THEN "new" ELSE "queued") /\ to = "allocated"
                   \/ from = "asleep" /\ to = "allocated"
                   \/ from = "allocated" /\ to = "waiting"
          BY <4>5 DEF SubmitBelow, Sleep, Allocate, Insert, Pass, Stations
        <5>2. AtStation(b)'
          BY <2>0, <5>1 DEF AtStation, Placed, Move, bio
        <5>3. at[b] \notin {"merged", "below", "done"}
          BY <5>1
        <5> QED BY <5>1, <5>2, <5>3, PassKeeps
      <4>6. ASSUME NEW b \in Bios, Issue(b) \/ Requeue(b)
            PROVE at' \in [Bios -> Stations] /\ rq' = rq /\ Placed'
        <5>1. PICK to \in {"issued", "waiting"} :
                at[b] \in {"waiting", "issued"} /\ Move(b, to) /\ UNCHANGED <<scene, rq>>
          BY <4>6 DEF Issue, Requeue
        <5>2. AtStation(b)'
          BY <2>0, <5>1 DEF AtStation, Placed, Move, bio
        <5>3. to \in Stations /\ at[b] \notin {"merged", "below", "done"}
          BY <5>1 DEF Stations
        <5> QED BY <5>1, <5>2, <5>3, PassKeeps
      <4>7. ASSUME NEW b \in Bios, Complete(b) PROVE at' \in [Bios -> Stations] /\ rq' = rq /\ Placed'
        BY <4>7, CompleteKeeps DEF Complete
      <4>8. ASSUME NEW b \in Bios, CompleteAbove(b) PROVE at' \in [Bios -> Stations] /\ rq' = rq /\ Placed'
        <5>1. at[b] = "below" /\ Move(b, "done") /\ UNCHANGED <<scene, rq>>
          BY <4>8 DEF CompleteAbove
        <5>2. AtStation(b)'
          BY <2>0, <5>1 DEF AtStation, Placed, Move, bio
        <5> QED BY <5>1, <5>2, PassKeeps DEF Stations
      <4>9. ASSUME NEW b \in Bios, NEW l \in Bios, Merge(b, l)
            PROVE at' \in [Bios -> Stations] /\ rq' \in [Bios -> SUBSET Bios] /\ Placed'
        BY <4>9, MergeKeeps
      <4>10. ASSUME Plug \/ Unplug PROVE UNCHANGED <<scene, at, rq>>
        BY <4>10 DEF Plug, Unplug
      <4> QED BY <2>0, <2>2, <4>1, <4>2, <4>3, <4>4, <4>5, <4>6, <4>7, <4>8, <4>9, <4>10 DEF KernelStep
    <3>1. KernelTypes'
      <4>1. Bios' = Bios
        BY <2>0, <2>2, StepTicks DEF Bios
      <4> QED BY <2>0, <2>2, <3>0, <4>1, StepTicks DEF KernelTypes
    <3> QED BY <3>0, <3>1 DEF KernelInv
  <2> QED BY <2>1, <2>2 DEF Next, Traced, Lose, Ended, analysers, kernel
<1> QED BY <1>1, <1>2, PTL DEF Spec

(* The event of each step.                                                   *)
LEMMA Events ==
  ASSUME KernelTypes
  PROVE  /\ \A p \in Pids, n \in Names : Announce(p, n) => event'.act = "name" /\ event'.dev = Lower
         /\ \A b \in Bios :
              /\ Submit(b) => /\ event'.act = "Q" /\ event'.dev = (IF bio(b).mapped THEN Mapped ELSE Lower)
                              /\ event'.sec = bio(b).sec /\ event'.len = bio(b).len /\ event'.pc = bio(b).pc
              /\ Remap(b) => event'.act = "A" /\ event'.dev = Lower /\ event'.pc = FALSE
              /\ SubmitBelow(b) => /\ event'.act = "Q" /\ event'.dev = Lower /\ event'.pc = bio(b).pc
                                   /\ event'.sec = bio(b).sec /\ event'.len = bio(b).len
              /\ Sleep(b) => event'.act = "S" /\ event'.dev = Lower /\ event'.pc = bio(b).pc
              /\ Allocate(b) => /\ event'.act = "G" /\ event'.dev = Lower /\ event'.pc = bio(b).pc
                                /\ event'.sec = bio(b).sec /\ event'.len = bio(b).len
              /\ Insert(b) => /\ event'.act = "I" /\ event'.dev = Lower /\ event'.pc = bio(b).pc
                              /\ event'.sec = bio(b).sec /\ event'.len = bio(b).len
              /\ Issue(b) => /\ event'.act = "D" /\ event'.dev = Lower /\ event'.pc = bio(b).pc
                             /\ event'.sec = StartOf(b) /\ event'.len = SizeOf(b)
              /\ Requeue(b) => /\ event'.act = "R" /\ event'.dev = Lower /\ event'.pc = bio(b).pc
                               /\ event'.sec = StartOf(b) /\ event'.len = SizeOf(b)
              /\ Complete(b) => /\ event'.act = "C" /\ event'.dev = Lower /\ event'.pc = bio(b).pc
                                /\ event'.sec = StartOf(b) /\ event'.len = SizeOf(b)
              /\ CompleteAbove(b) => /\ event'.act = "C" /\ event'.dev = Mapped /\ event'.pc = FALSE
                                     /\ event'.sec = bio(b).sec /\ event'.len = bio(b).len
         /\ \A b, l \in Bios : Merge(b, l) =>
              /\ event'.dev = Lower /\ event'.pc = bio(b).pc
              /\ event'.sec = bio(b).sec /\ event'.len = bio(b).len
              /\ \/ event'.act = "M" /\ StartOf(l) + SizeOf(l) = bio(b).sec
                 \/ event'.act = "F" /\ EndOf(b) = StartOf(l)
         /\ Plug => event'.act = "P" /\ event'.dev = Lower
         /\ Unplug => event'.act \in {"U", "T"} /\ event'.dev = Lower
<1>1. \A p \in Pids, n \in Names : Announce(p, n) => event'.act = "name" /\ event'.dev = Lower
  BY DEF Announce, NoEvent
<1>2. ASSUME NEW b \in Bios
      PROVE  /\ Submit(b) => /\ event'.act = "Q" /\ event'.dev = (IF bio(b).mapped THEN Mapped ELSE Lower)
                             /\ event'.sec = bio(b).sec /\ event'.len = bio(b).len /\ event'.pc = bio(b).pc
             /\ Remap(b) => event'.act = "A" /\ event'.dev = Lower /\ event'.pc = FALSE
  BY DEF Submit, Remap, EmitBio, Emit, NoEvent
<1>3. ASSUME NEW b \in Bios
      PROVE  /\ SubmitBelow(b) => /\ event'.act = "Q" /\ event'.dev = Lower /\ event'.pc = bio(b).pc
                                  /\ event'.sec = bio(b).sec /\ event'.len = bio(b).len
             /\ Sleep(b) => event'.act = "S" /\ event'.dev = Lower /\ event'.pc = bio(b).pc
             /\ Allocate(b) => /\ event'.act = "G" /\ event'.dev = Lower /\ event'.pc = bio(b).pc
                               /\ event'.sec = bio(b).sec /\ event'.len = bio(b).len
             /\ Insert(b) => /\ event'.act = "I" /\ event'.dev = Lower /\ event'.pc = bio(b).pc
                             /\ event'.sec = bio(b).sec /\ event'.len = bio(b).len
  <2>1. ASSUME NEW from, NEW act, NEW to, Pass(b, from, act, to)
        PROVE  /\ event'.act = act /\ event'.dev = Lower /\ event'.pc = bio(b).pc
               /\ event'.sec = bio(b).sec /\ event'.len = bio(b).len
    BY <2>1 DEF Pass, EmitBio, Emit, NoEvent
  <2>2. Allocate(b) => \E from : Pass(b, from, "G", "allocated")
    BY DEF Allocate
  <2> QED BY <2>1, <2>2 DEF SubmitBelow, Sleep, Insert
<1>4. ASSUME NEW b \in Bios
      PROVE  /\ Issue(b) => /\ event'.act = "D" /\ event'.dev = Lower /\ event'.pc = bio(b).pc
                            /\ event'.sec = StartOf(b) /\ event'.len = SizeOf(b)
             /\ Requeue(b) => /\ event'.act = "R" /\ event'.dev = Lower /\ event'.pc = bio(b).pc
                              /\ event'.sec = StartOf(b) /\ event'.len = SizeOf(b)
             /\ Complete(b) => /\ event'.act = "C" /\ event'.dev = Lower /\ event'.pc = bio(b).pc
                               /\ event'.sec = StartOf(b) /\ event'.len = SizeOf(b)
             /\ CompleteAbove(b) => /\ event'.act = "C" /\ event'.dev = Mapped /\ event'.pc = FALSE
                                    /\ event'.sec = bio(b).sec /\ event'.len = bio(b).len
  <2>1. ASSUME NEW act, NEW p, EmitRequest(act, b, p)
        PROVE  /\ event'.act = act /\ event'.dev = Lower /\ event'.pc = bio(b).pc
               /\ event'.sec = StartOf(b) /\ event'.len = SizeOf(b)
    BY <2>1 DEF EmitRequest, Emit, NoEvent
  <2>2. Issue(b) => EmitRequest("D", b, bio(b).pid)
    BY DEF Issue
  <2>3. Requeue(b) => EmitRequest("R", b, bio(b).pid)
    BY DEF Requeue
  <2>4. Complete(b) => EmitRequest("C", b, NoPid)
    BY DEF Complete
  <2>5. CompleteAbove(b) => /\ event'.act = "C" /\ event'.dev = Mapped /\ event'.pc = FALSE
                            /\ event'.sec = bio(b).sec /\ event'.len = bio(b).len
    BY DEF CompleteAbove, Emit, NoEvent
  <2> QED BY <2>1, <2>2, <2>3, <2>4, <2>5
<1>5. ASSUME NEW b \in Bios, NEW l \in Bios, Merge(b, l)
      PROVE  /\ event'.dev = Lower /\ event'.pc = bio(b).pc
             /\ event'.sec = bio(b).sec /\ event'.len = bio(b).len
             /\ \/ event'.act = "M" /\ StartOf(l) + SizeOf(l) = bio(b).sec
                \/ event'.act = "F" /\ EndOf(b) = StartOf(l)
  BY <1>5 DEF Merge, EmitBio, Emit, NoEvent
<1>6. /\ Plug => event'.act = "P" /\ event'.dev = Lower
      /\ Unplug => event'.act \in {"U", "T"} /\ event'.dev = Lower
  BY DEF Plug, Unplug, Emit, NoEvent
<1> QED BY <1>1, <1>2, <1>3, <1>4, <1>5, <1>6

(* Which requests are at the driver.                                         *)
LEMMA DriverSteps ==
  ASSUME KernelInv, KernelStep
  PROVE  \/ \E l \in Bios : Issue(l) /\ l \notin In("issued") /\ In("issued")' = In("issued") \cup {l}
         \/ \E l \in Bios : (Requeue(l) \/ Complete(l)) /\ l \in In("issued") /\ In("issued")' = In("issued") \ {l}
         \/ /\ In("issued")' = In("issued")
            /\ event'.act \in {"D", "R", "C"} => event'.act = "C" /\ event'.dev = Mapped
<1> DEFINE Same == /\ In("issued")' = In("issued")
                   /\ event'.act \in {"D", "R", "C"} => event'.act = "C" /\ event'.dev = Mapped
<1>1. /\ KernelTypes /\ at \in [Bios -> Stations] /\ Bios' = Bios
  BY StepTicks DEF KernelInv, KernelTypes, Bios
<1>2. ASSUME at' = at PROVE In("issued")' = In("issued")
  BY <1>1, <1>2 DEF In
<1>3. ASSUME NEW b \in Bios, NEW place \in Stations \ {"issued"}, Move(b, place), at[b] # "issued"
      PROVE  In("issued")' = In("issued")
  BY <1>1, <1>3 DEF In, Move
<1>4. ASSUME NEW p \in Pids, NEW n \in Names, Announce(p, n) PROVE Same
  <2>1. at' = at
    BY <1>4 DEF Announce
  <2> QED BY <1>1, <1>2, <1>4, <2>1, Events
<1>5. ASSUME NEW b \in Bios, Submit(b) \/ Remap(b) \/ SubmitBelow(b) \/ Sleep(b) \/ Allocate(b) \/ Insert(b) PROVE Same
  <2>1. at[b] # "issued" /\ \E place \in Stations \ {"issued"} : Move(b, place)
    BY <1>5 DEF Submit, Remap, SubmitBelow, Sleep, Allocate, Insert, Pass, Stations
  <2>2. event'.act \in {"Q", "A", "S", "G", "I"}
    BY <1>1, <1>5, Events
  <2> QED BY <1>3, <2>1, <2>2
<1>6. ASSUME NEW b \in Bios, CompleteAbove(b) PROVE Same
  <2>1. at[b] = "below" /\ Move(b, "done")
    BY <1>6 DEF CompleteAbove
  <2>2. event'.act = "C" /\ event'.dev = Mapped
    BY <1>1, <1>6, Events
  <2> QED BY <1>3, <2>1, <2>2 DEF Stations
<1>7. ASSUME NEW b \in Bios, NEW l \in Bios, Merge(b, l) PROVE Same
  <2>1. at[b] = "queued" /\ Move(b, "merged")
    BY <1>7 DEF Merge
  <2>2. event'.act \in {"M", "F"}
    BY <1>1, <1>7, Events
  <2> QED BY <1>3, <2>1, <2>2 DEF Stations
<1>8. ASSUME Plug \/ Unplug PROVE Same
  <2>1. at' = at
    BY <1>8 DEF Plug, Unplug
  <2>2. event'.act \in {"P", "U", "T"}
    BY <1>1, <1>8, Events
  <2> QED BY <1>2, <2>1, <2>2
<1>9. ASSUME NEW l \in Bios, Issue(l) PROVE l \notin In("issued") /\ In("issued")' = In("issued") \cup {l}
  BY <1>1, <1>9 DEF Issue, Move, In
<1>10. ASSUME NEW l \in Bios, Requeue(l) PROVE l \in In("issued") /\ In("issued")' = In("issued") \ {l}
  BY <1>1, <1>10 DEF Requeue, Move, In
<1>11. ASSUME NEW l \in Bios, Complete(l) PROVE l \in In("issued") /\ In("issued")' = In("issued") \ {l}
  <2>1. /\ Requests' = Requests \ {l} /\ l \in Requests
        /\ \A b \in Bios : b \notin rq[l] => at'[b] = at[b]
        /\ \A b \in rq[l] : at'[b] = IF bio(b).mapped THEN "below" ELSE "done"
        /\ at[l] = "issued"
    BY <1>11, CompleteKeeps DEF Complete
  <2>2. \A b \in rq[l] : b # l => at[b] = "merged"
    BY <2>1 DEF KernelInv, Placed, IsRequest
  <2>3. l \in rq[l]
    BY <2>1, RequestSpan
  <2> QED BY <1>1, <2>1, <2>2, <2>3 DEF In
<1> HIDE DEF Same
<1>12. Same \/ (\E l \in Bios : Issue(l)) \/ (\E l \in Bios : Requeue(l) \/ Complete(l))
  BY <1>4, <1>5, <1>6, <1>7, <1>8 DEF KernelStep
<1> QED BY <1>9, <1>10, <1>11, <1>12 DEF Same

(* How many requests are at the driver.                                      *)
LEMMA DriverCounts ==
  ASSUME KernelInv, KernelStep
  PROVE  /\ Cardinality(In("issued")) \in Nat /\ Cardinality(In("issued")') \in Nat
         /\ \/ /\ \E l \in Bios : Issue(l)
               /\ Cardinality(In("issued")') = Cardinality(In("issued")) + 1
            \/ /\ \E l \in Bios : Requeue(l) \/ Complete(l)
               /\ Cardinality(In("issued")) > 0
               /\ Cardinality(In("issued")') = Cardinality(In("issued")) - 1
            \/ /\ In("issued")' = In("issued")
               /\ event'.act \in {"D", "R", "C"} => event'.act = "C" /\ event'.dev = Mapped
<1>1. IsFiniteSet(In("issued")) /\ Cardinality(In("issued")) \in Nat
  BY BiosFinite DEF KernelInv, In
<1>2. CASE \E l \in Bios : Issue(l) /\ l \notin In("issued") /\ In("issued")' = In("issued") \cup {l}
  <2>1. PICK l \in Bios : Issue(l) /\ l \notin In("issued") /\ In("issued")' = In("issued") \cup {l}
    BY <1>2
  <2>2. Cardinality(In("issued")') = Cardinality(In("issued")) + 1
    BY <1>1, <2>1, FS_AddElement
  <2> QED BY <1>1, <2>1, <2>2
<1>3. CASE \E l \in Bios : (Requeue(l) \/ Complete(l)) /\ l \in In("issued") /\ In("issued")' = In("issued") \ {l}
  <2>1. PICK l \in Bios : (Requeue(l) \/ Complete(l)) /\ l \in In("issued") /\ In("issued")' = In("issued") \ {l}
    BY <1>3
  <2>2. Cardinality(In("issued")') = Cardinality(In("issued")) - 1
    BY <1>1, <2>1, FS_RemoveElement
  <2>3. Cardinality(In("issued")) # 0
    BY <1>1, <2>1, FS_EmptySet
  <2> QED BY <1>1, <2>1, <2>2, <2>3
<1> QED BY <1>1, <1>2, <1>3, DriverSteps

LEMMA EventDevice ==
  ASSUME KernelTypes, KernelStep
  PROVE  event'.dev \in {Lower, Mapped} /\ event'.dev \in Devices
<1>1. event'.dev \in {Lower, Mapped}
  BY Events DEF KernelStep
<1> QED BY <1>1, DevicesAssumption

LEMMA NearKept ==
  ASSUME NEW n \in Nat, NEW m \in Nat, NEW k \in Nat, Near(n, m, k)
  PROVE  /\ Near(n + 1, m + 1, k) /\ Near(n, m, k + 1) /\ Near(n, m + 1, k + 1)
         /\ m > 0 => /\ Near(n, m - 1, k + 1)
                     /\ Near(IF n > 0 THEN n - 1 ELSE 0, m - 1, k)
BY DEF Near

(* The depth blkparse keeps of the disk is the number of requests at the     *)
(* driver, but for as many as events were lost.                             *)
THEOREM DepthsSound == Spec => []DepthInv
<1>1. Init => DepthInv
  <2> SUFFICES ASSUME Init PROVE DepthInv
    OBVIOUS
  <2>1. In("issued") = {}
    BY DEF Init, KernelInit, In
  <2>2. lost = 0 /\ depths = [d \in Devices |-> [cur |-> 0, max |-> 0]] /\ Cardinality(In("issued")) = 0
    BY <2>1, FS_EmptySet DEF Init, IoTrackInit
  <2> QED BY <2>2, DevicesAssumption DEF DepthInv, Near
<1>2. KernelInv /\ DepthInv /\ [Next]_analysers => DepthInv'
  <2> SUFFICES ASSUME KernelInv, DepthInv, [Next]_analysers PROVE DepthInv'
    OBVIOUS
  <2> DEFINE n == Cardinality(In("issued"))
             cur == depths[Lower].cur
  <2>0. /\ lost \in Nat /\ depths \in [Devices -> [cur : Nat, max : Nat]] /\ Near(cur, n, lost)
        /\ cur \in Nat /\ Lower # Mapped /\ Lower \in Devices
    BY DevicesAssumption DEF DepthInv
  <2>1. CASE UNCHANGED analysers
    BY <2>1 DEF analysers, kernel, iotrack, DepthInv, In, Bios
  <2>2. CASE Traced
    <3>0. KernelStep /\ IoTrackStep(event') /\ lost' = lost /\ KernelTypes
      BY <2>2 DEF Traced, KernelInv
    <3>1. event'.dev \in {Lower, Mapped} /\ event'.dev \in Devices /\ n \in Nat /\ n' \in Nat
      BY <3>0, EventDevice, DriverCounts
    <3>2. depths' = IF event'.act = "name" THEN depths
                    ELSE [depths EXCEPT ![event'.dev] = Depth(@, event')]
      BY <3>0 DEF IoTrackStep, handle_notify, dump_trace
    <3>3. ASSUME NEW d \in [cur : Nat, max : Nat]
          PROVE  /\ Depth(d, event') \in [cur : Nat, max : Nat]
                 /\ Depth(d, event').cur = IF event'.act = "D" THEN d.cur + 1
                                           ELSE IF event'.act \in {"R", "C"} THEN IF d.cur > 0 THEN d.cur - 1 ELSE 0
                                           ELSE d.cur
      BY DEF Depth
    <3>4. depths' \in [Devices -> [cur : Nat, max : Nat]]
      BY <2>0, <3>1, <3>2, <3>3
    <3>5. cur' = IF event'.act = "name" \/ event'.dev # Lower THEN cur ELSE Depth(depths[Lower], event').cur
      BY <2>0, <3>2
    <3>6. CASE (\E l \in Bios : Issue(l)) /\ n' = n + 1
      <4>1. event'.act = "D" /\ event'.dev = Lower
        BY <3>0, <3>6, Events
      <4>2. cur' = cur + 1
        BY <2>0, <3>3, <3>5, <4>1
      <4> QED BY <2>0, <3>0, <3>1, <3>4, <3>6, <4>2, NearKept DEF DepthInv
    <3>7. CASE (\E l \in Bios : Requeue(l) \/ Complete(l)) /\ n > 0 /\ n' = n - 1
      <4>1. event'.act \in {"R", "C"} /\ event'.dev = Lower
        BY <3>0, <3>7, Events
      <4>2. cur' = IF cur > 0 THEN cur - 1 ELSE 0
        BY <2>0, <3>3, <3>5, <4>1
      <4> QED BY <2>0, <3>0, <3>1, <3>4, <3>7, <4>2, NearKept DEF DepthInv
    <3>8. CASE /\ In("issued")' = In("issued")
               /\ event'.act \in {"D", "R", "C"} => event'.act = "C" /\ event'.dev = Mapped
      <4>1. cur' = cur
        BY <2>0, <3>3, <3>5, <3>8
      <4> QED BY <2>0, <3>0, <3>4, <3>8, <4>1 DEF DepthInv
    <3> QED BY <3>0, <3>6, <3>7, <3>8, DriverCounts
  <2>3. CASE Lose
    <3>0. KernelStep /\ lost' = lost + 1 /\ depths' = depths /\ n \in Nat /\ n' \in Nat
      BY <2>3, DriverCounts DEF Lose, iotrack
    <3>1. n' = n \/ n' = n + 1 \/ (n > 0 /\ n' = n - 1)
      BY <3>0, DriverCounts
    <3>2. Near(cur, n', lost + 1)
      BY <2>0, <3>0, <3>1, NearKept
    <3> QED BY <2>0, <3>0, <3>2 DEF DepthInv
  <2>4. CASE Ended
    BY <2>1, <2>4 DEF Ended
  <2> QED BY <2>1, <2>2, <2>3, <2>4 DEF Next
<1> QED BY <1>1, <1>2, KernelSound, PTL DEF Spec

(* Where requests are.                                                       *)
LEMMA RequestsStay ==
  ASSUME KernelInv, KernelStep, NEW l \in Bios
  PROVE  \/ rq'[l] = rq[l] /\ StartOf(l)' = StartOf(l) /\ StopOf(l)' = StopOf(l)
         \/ at[l] = "waiting" /\ \E b \in Bios : Merge(b, l)
<1>1. /\ KernelTypes /\ scene' = scene /\ rq \in [Bios -> SUBSET Bios]
      /\ Bios' = Bios /\ \A c \in Bios : bio(c)' = bio(c) /\ EndOf(c)' = EndOf(c)
  BY StepTicks DEF KernelInv, KernelTypes, Bios, bio, EndOf
<1>2. rq'[l] = rq[l] => StartOf(l)' = StartOf(l) /\ StopOf(l)' = StopOf(l)
  BY <1>1 DEF StartOf, StopOf, EndOf, bio
<1>3. rq' = rq \/ \E b, m \in Bios : Merge(b, m)
  BY DEF KernelStep, Announce, Submit, Remap, SubmitBelow, Sleep, Allocate, Insert, Pass,
         Issue, Requeue, Complete, CompleteAbove, Plug, Unplug
<1>4. ASSUME NEW b \in Bios, NEW m \in Bios, Merge(b, m), m # l PROVE rq'[l] = rq[l]
  BY <1>1, <1>4 DEF Merge
<1>5. ASSUME NEW b \in Bios, Merge(b, l) PROVE at[l] = "waiting"
  BY <1>5 DEF Merge
<1> QED BY <1>2, <1>3, <1>4, <1>5

(* No bio in flight begins within a request of others.                       *)
LEMMA Outside ==
  ASSUME KernelInv, Separate, NEW l \in Requests, NEW b \in Bios, Live(b), b \notin rq[l]
  PROVE  ~(StartOf(l) <= bio(b).sec /\ bio(b).sec < StopOf(l))
<1> SUFFICES ASSUME StartOf(l) <= bio(b).sec, bio(b).sec < StopOf(l) PROVE FALSE
  OBVIOUS
<1>1. KernelTypes /\ StartOf(l) \in Nat /\ StopOf(l) \in Nat /\ bio(b).sec \in Nat
  BY RequestSpan, BioTypes DEF KernelInv
<1>2. bio(b).sec \in StartOf(l)..StopOf(l) - 1
  BY <1>1
<1>3. PICK c \in rq[l] : bio(c).sec <= bio(b).sec /\ bio(b).sec < EndOf(c)
  BY <1>2, RequestSpan
<1>4. c \in Bios /\ Live(c) /\ b # c
  BY <1>3, RequestSpan DEF KernelInv, Placed, IsRequest, Requests, Places, Live
<1>5. EndOf(b) <= bio(c).sec \/ EndOf(c) <= bio(b).sec
  BY <1>4 DEF Separate
<1> QED BY <1>1, <1>3, <1>4, <1>5, BioTypes

LEMMA StartsApart ==
  ASSUME KernelInv, Separate, NEW l \in Requests, NEW m \in Requests, l # m
  PROVE  StartOf(l) # StartOf(m)
<1>1. PICK b \in rq[m] : StartOf(m) = bio(b).sec
  BY RequestSpan
<1>2. b \in Bios /\ b \notin rq[l] /\ Live(b)
  BY <1>1, RequestSpan DEF KernelInv, Placed, IsRequest, Requests, Places, Live
<1>3. StartOf(l) < StopOf(l)
  <2>1. l \in rq[l] /\ StartOf(l) <= bio(l).sec /\ EndOf(l) <= StopOf(l) /\ l \in Bios
        /\ StartOf(l) \in Nat /\ StopOf(l) \in Nat
    BY RequestSpan
  <2> QED BY <2>1, BioTypes DEF KernelInv
<1>4. StartOf(l) \in Nat
  BY RequestSpan
<1> QED BY <1>1, <1>2, <1>3, <1>4, Outside
-----------------------------------------------------------------------------
(* iowatcher.                                                               *)

(* What an event does to the I/Os waited for and to the number in flight.    *)
LEMMA PendingAfter ==
  ASSUME NEW e, IowatcherStep(e), "C" \in Found
  PROVE  /\ e.act = "D" => ios_in_flight' = ios_in_flight + 1 /\ DOMAIN pending' = DOMAIN pending \cup {Key(e)}
         /\ e.act = "R" => ios_in_flight' = Lower1(ios_in_flight) /\ pending' = pending
         /\ e.act = "C" => IF Key(e) \in DOMAIN pending
                           THEN ios_in_flight' = Lower1(ios_in_flight) /\ DOMAIN pending' = DOMAIN pending \ {Key(e)}
                           ELSE ios_in_flight' = ios_in_flight /\ pending' = pending
         /\ e.act \notin {"D", "R", "C"} => ios_in_flight' = ios_in_flight /\ DOMAIN pending \subseteq DOMAIN pending'
<1>1. ASSUME NEW h PROVE DOMAIN hash_queued_io(h, e) = DOMAIN h \cup {Key(e)}
  BY DEF hash_queued_io, Entered
<1>2. DOMAIN hash_dispatched_io(pending, e) = DOMAIN pending \cup {Key(e)}
  BY <1>1 DEF hash_dispatched_io
<1>3. DOMAIN Without(pending, Key(e)) = DOMAIN pending \ {Key(e)}
  BY DEF Without
<1> QED BY <1>1, <1>2, <1>3 DEF IowatcherStep, Queue, Requeued, Dispatch, Completed, Other

(* The requests at the driver that stay there keep their place.              *)
LEMMA UnseenSteps ==
  ASSUME KernelInv, KernelStep
  PROVE  /\ \A m \in In("issued") : m \in In("issued")' => StartOf(m)' = StartOf(m)
         /\ IsFiniteSet(Unseen) /\ IsFiniteSet(Unseen')
         /\ Cardinality(Unseen) \in Nat /\ Cardinality(Unseen') \in Nat
         /\ Cardinality(Unseen') <= Cardinality(In("issued")')
         /\ Cardinality(Unseen) <= Cardinality(In("issued"))
<1>1. \A m \in In("issued") : StartOf(m)' = StartOf(m)
  BY RequestsStay DEF In
<1>2. IsFiniteSet(In("issued")) /\ IsFiniteSet(In("issued")')
  <2>1. Bios' = Bios
    BY StepTicks DEF KernelInv, Bios
  <2> QED BY <2>1, BiosFinite DEF KernelInv, In
<1>3. Unseen \subseteq In("issued") /\ Unseen' \subseteq In("issued")'
  BY DEF Unseen
<1> QED BY <1>1, <1>2, <1>3, FS_Subset, FS_CardinalityType

LEMMA UnseenCounts ==
  ASSUME KernelInv, KernelStep
  PROVE  /\ Unseen' \subseteq Unseen => Cardinality(Unseen') <= Cardinality(Unseen)
         /\ \A l \in Unseen : Unseen' \subseteq Unseen \ {l} => Cardinality(Unseen') <= Cardinality(Unseen) - 1
         /\ \A l : Unseen' \subseteq Unseen \cup {l} => Cardinality(Unseen') <= Cardinality(Unseen) + 1
<1>1. IsFiniteSet(Unseen) /\ Cardinality(Unseen) \in Nat /\ Cardinality(Unseen') \in Nat
  BY UnseenSteps
<1>2. ASSUME NEW S, IsFiniteSet(S), Unseen' \subseteq S PROVE Cardinality(Unseen') <= Cardinality(S)
  BY <1>2, FS_Subset
<1>3. \A l \in Unseen : IsFiniteSet(Unseen \ {l}) /\ Cardinality(Unseen \ {l}) = Cardinality(Unseen) - 1
  BY <1>1, FS_RemoveElement
<1>4. ASSUME NEW l
      PROVE  /\ IsFiniteSet(Unseen \cup {l})
             /\ \/ Cardinality(Unseen \cup {l}) = Cardinality(Unseen)
                \/ Cardinality(Unseen \cup {l}) = Cardinality(Unseen) + 1
  BY <1>1, FS_AddElement
<1>5. ASSUME NEW l, Unseen' \subseteq Unseen \cup {l} PROVE Cardinality(Unseen') <= Cardinality(Unseen) + 1
  <2>1. Cardinality(Unseen') <= Cardinality(Unseen \cup {l})
    BY <1>2, <1>4, <1>5
  <2>2. CASE Cardinality(Unseen \cup {l}) = Cardinality(Unseen)
    BY <1>1, <2>1, <2>2
  <2> QED BY <1>4, <2>1, <2>2
<1>6. ASSUME NEW l \in Unseen, Unseen' \subseteq Unseen \ {l} PROVE Cardinality(Unseen') <= Cardinality(Unseen) - 1
  <2>1. Cardinality(Unseen') <= Cardinality(Unseen \ {l})
    BY <1>2, <1>3, <1>6
  <2> QED BY <1>3, <2>1
<1>7. Unseen' \subseteq Unseen => Cardinality(Unseen') <= Cardinality(Unseen)
  BY <1>1, <1>2
<1> QED BY <1>5, <1>6, <1>7

LEMMA FollowsKept ==
  ASSUME NEW ios \in Nat, NEW n \in Nat, NEW u \in Nat, NEW u2 \in Nat, NEW k \in Nat, Follows(ios, n, u, k)
  PROVE  /\ u2 <= u => /\ Follows(ios + 1, n + 1, u2, k) /\ Follows(ios, n, u2, k) /\ Follows(ios, n, u2, k + 1)
                       /\ n > 0 => Follows(ios, n - 1, u2, k + 1)
                       /\ n > 0 /\ u2 <= n - 1 => Follows(Lower1(ios), n - 1, u2, k)
         /\ u2 <= u - 1 /\ n > 0 => Follows(ios, n - 1, u2, k)
         /\ u2 <= u + 1 => Follows(ios, n + 1, u2, k + 1)
BY DEF Follows, Lower1

(* What iowatcher counts as in flight on a disk nothing is mapped to is that *)
(* number, on the same terms.  Without completions in the trace it counts    *)
(* only upwards.                                                            *)
THEOREM FlightSound ==
  ASSUME "C" \in Found
  PROVE  Spec /\ []Separate => []FlightInv
<1>1. Init => FlightInv
  <2> SUFFICES ASSUME Init PROVE FlightInv
    OBVIOUS
  <2>1. In("issued") = {} /\ Unseen = {}
    BY DEF Init, KernelInit, In, Unseen
  <2>2. lost = 0 /\ ios_in_flight = 0 /\ Cardinality(In("issued")) = 0 /\ Cardinality(Unseen) = 0
    BY <2>1, FS_EmptySet DEF Init, IowatcherInit
  <2> QED BY <2>2 DEF FlightInv, Follows
<1>2. KernelInv /\ Separate /\ FlightInv /\ [Next]_analysers => FlightInv'
  <2> SUFFICES ASSUME KernelInv, Separate, FlightInv, [Next]_analysers PROVE FlightInv'
    OBVIOUS
  <2> DEFINE n == Cardinality(In("issued"))
             u == Cardinality(Unseen)
             ios == ios_in_flight
  <2>0. lost \in Nat /\ ios \in Nat /\ (Plain => Follows(ios, n, u, lost))
    BY DEF FlightInv
  <2>1. CASE UNCHANGED analysers
    BY <2>1 DEF analysers, kernel, iowatcher, FlightInv, Follows, Plain, Unseen, In, Bios, bio, StartOf
  <2>2. ASSUME KernelStep
        PROVE  /\ n \in Nat /\ u \in Nat /\ n' \in Nat /\ u' \in Nat /\ u <= n /\ u' <= n'
               /\ Plain' = Plain /\ KernelTypes
    <3>1. Plain' = Plain
      BY <2>2, StepTicks DEF KernelInv, Plain, Bios, bio
    <3> QED BY <2>2, <3>1, DriverCounts, UnseenSteps DEF KernelInv
  <2>3. ASSUME KernelStep, Plain
        PROVE  \/ \E l \in Bios : Issue(l) /\ l \in Bios /\ n' = n + 1 /\ In("issued")' = In("issued") \cup {l}
               \/ \E l \in In("issued") : /\ Requeue(l) \/ Complete(l)
                                          /\ n > 0 /\ n' = n - 1 /\ In("issued")' = In("issued") \ {l}
               \/ n' = n /\ In("issued")' = In("issued") /\ event'.act \notin {"D", "R", "C"}
    <3>1. \A b \in Bios : ~CompleteAbove(b)
      BY <2>3 DEF Plain, CompleteAbove, KernelInv, Placed, AtStation
    <3>2. event'.act = "C" => \E l \in Bios : Complete(l)
      BY <2>2, <2>3, <3>1, Events DEF KernelStep
    <3>3. ASSUME In("issued")' = In("issued") PROVE event'.act \notin {"D", "R", "C"}
      <4>1. ASSUME NEW l \in Bios, Complete(l) PROVE FALSE
        <5>1. l \in In("issued")
          BY <4>1 DEF Complete, In
        <5>2. at'[l] \in {"done", "below"}
          BY <4>1, CompleteKeeps, <5>1, RequestSpan
        <5> QED BY <3>3, <5>1, <5>2 DEF In
      <4>2. ASSUME NEW l \in Bios, Issue(l) \/ Requeue(l) PROVE FALSE
        <5>1. at \in [Bios -> Stations] /\ Bios' = Bios
          BY <2>3, StepTicks DEF KernelInv, KernelTypes, Bios
        <5> QED BY <3>3, <4>2, <5>1 DEF Issue, Requeue, Move, In
      <4> QED BY <2>2, <2>3, <3>2, <4>1, <4>2, DriverSteps, Events
    <3>6. IsFiniteSet(In("issued")) /\ n \in Nat
      BY <2>2, <2>3, BiosFinite DEF In
    <3>4. CASE \E l \in Bios : Issue(l) /\ l \notin In("issued") /\ In("issued")' = In("issued") \cup {l}
      <4>1. PICK l \in Bios : Issue(l) /\ l \notin In("issued") /\ In("issued")' = In("issued") \cup {l}
        BY <3>4
      <4>2. n' = n + 1
        BY <3>6, <4>1, FS_AddElement
      <4> QED BY <4>1, <4>2
    <3>5. CASE \E l \in Bios : (Requeue(l) \/ Complete(l)) /\ l \in In("issued") /\ In("issued")' = In("issued") \ {l}
      <4>1. PICK l \in Bios : (Requeue(l) \/ Complete(l)) /\ l \in In("issued") /\ In("issued")' = In("issued") \ {l}
        BY <3>5
      <4>2. n' = n - 1 /\ n # 0
        BY <3>6, <4>1, FS_RemoveElement, FS_EmptySet
      <4> QED BY <3>6, <4>1, <4>2
    <3> QED BY <2>3, <3>3, <3>4, <3>5, DriverSteps
  <2>7. ASSUME KernelStep
        PROVE  /\ Unseen' \subseteq Unseen => u' <= u
               /\ \A l \in Unseen : Unseen' \subseteq Unseen \ {l} => u' <= u - 1
               /\ \A l : Unseen' \subseteq Unseen \cup {l} => u' <= u + 1
    BY <2>7, UnseenCounts
  <2>8. FlightInv' <=> /\ lost' \in Nat /\ ios' \in Nat
                       /\ Plain' => Follows(ios', n', u', lost')
    BY DEF FlightInv
  <2> HIDE DEF n, u
  <2>4. CASE Traced
    <3>0. KernelStep /\ IowatcherStep(event') /\ lost' = lost
      BY <2>4 DEF Traced
    <3> DEFINE e == event'
    <3>1. ios' \in Nat
      <4>1. ios' \in {ios, ios + 1, Lower1(ios)}
        BY <3>0, PendingAfter
      <4> QED BY <2>0, <4>1 DEF Lower1
    <3>2. ASSUME Plain PROVE Follows(ios', n', u', lost)
      <4>0. n \in Nat /\ u \in Nat /\ n' \in Nat /\ u' \in Nat /\ u <= n /\ u' <= n' /\ KernelTypes
            /\ Follows(ios, n, u, lost)
        BY <2>0, <2>2, <3>0, <3>2
      <4>1. ASSUME NEW l \in Bios, Issue(l), n' = n + 1, In("issued")' = In("issued") \cup {l}
            PROVE  Follows(ios', n', u', lost)
        <5>1. e.act = "D" /\ Key(e) = <<StartOf(l), Lower>> /\ StartOf(l)' = StartOf(l)
          <6>1. StartOf(l)' = StartOf(l)
            BY <4>1 DEF Issue, StartOf, bio
          <6> QED BY <4>0, <4>1, <6>1, Events DEF Key
        <5>2. ios' = ios + 1 /\ DOMAIN pending' = DOMAIN pending \cup {<<StartOf(l), Lower>>}
          BY <3>0, <5>1, PendingAfter
        <5>3. Unseen' \subseteq Unseen
          BY <3>0, <4>1, <5>1, <5>2, UnseenSteps DEF Unseen
        <5>4. u' <= u
          BY <3>0, <5>3, <2>7
        <5> QED BY <2>0, <4>0, <4>1, <5>2, <5>4, FollowsKept
      <4>2. ASSUME NEW l \in In("issued"), Requeue(l), n > 0, n' = n - 1, In("issued")' = In("issued") \ {l}
            PROVE  Follows(ios', n', u', lost)
        <5>1. e.act = "R" /\ l \in Bios
          BY <4>0, <4>2, Events DEF In
        <5>2. ios' = Lower1(ios) /\ pending' = pending
          BY <3>0, <5>1, PendingAfter
        <5>3. Unseen' \subseteq Unseen
          BY <3>0, <4>2, <5>2, UnseenSteps DEF Unseen
        <5>4. u' <= u
          BY <3>0, <5>3, <2>7
        <5> QED BY <2>0, <4>0, <4>2, <5>2, <5>4, FollowsKept
      <4>3. ASSUME NEW l \in In("issued"), Complete(l), n > 0, n' = n - 1, In("issued")' = In("issued") \ {l}
            PROVE  Follows(ios', n', u', lost)
        <5>1. e.act = "C" /\ l \in Bios /\ Key(e) = <<StartOf(l), Lower>>
          BY <4>0, <4>3, Events DEF In, Key
        <5>2. \A m \in In("issued") \ {l} : <<StartOf(m), Lower>> # Key(e)
          BY <5>1, StartsApart DEF In, Requests, Places
        <5>3. CASE Key(e) \in DOMAIN pending
          <6>1. ios' = Lower1(ios) /\ DOMAIN pending' = DOMAIN pending \ {Key(e)}
            BY <3>0, <5>1, <5>3, PendingAfter
          <6>2. Unseen' \subseteq Unseen
            BY <3>0, <4>3, <5>2, <6>1, UnseenSteps DEF Unseen
          <6>3. u' <= u
            BY <3>0, <6>2, <2>7
          <6> QED BY <2>0, <4>0, <4>3, <6>1, <6>3, FollowsKept
        <5>4. CASE Key(e) \notin DOMAIN pending
          <6>1. ios' = ios /\ pending' = pending
            BY <3>0, <5>1, <5>4, PendingAfter
          <6>2. Unseen' \subseteq Unseen \ {l} /\ l \in Unseen
            BY <3>0, <4>3, <5>1, <5>4, <6>1, UnseenSteps DEF Unseen
          <6>3. u' <= u - 1
            BY <3>0, <6>2, <2>7
          <6> QED BY <2>0, <4>0, <4>3, <6>1, <6>3, FollowsKept
        <5> QED BY <5>3, <5>4
      <4>4. ASSUME n' = n, In("issued")' = In("issued"), e.act \notin {"D", "R", "C"}
            PROVE  Follows(ios', n', u', lost)
        <5>1. ios' = ios /\ DOMAIN pending \subseteq DOMAIN pending'
          BY <3>0, <4>4, PendingAfter
        <5>2. Unseen' \subseteq Unseen
          BY <3>0, <4>4, <5>1, UnseenSteps DEF Unseen
        <5>3. u' <= u
          BY <3>0, <5>2, <2>7
        <5> QED BY <2>0, <4>0, <4>4, <5>1, <5>3, FollowsKept
      <4> QED BY <2>3, <3>0, <3>2, <4>1, <4>2, <4>3, <4>4
    <3> QED BY <2>0, <2>2, <3>0, <3>1, <3>2, <2>8
  <2>5. CASE Lose
    <3>0. KernelStep /\ lost' = lost + 1 /\ ios' = ios /\ pending' = pending
      BY <2>5 DEF Lose, iowatcher
    <3>1. ASSUME Plain PROVE Follows(ios', n', u', lost + 1)
      <4>0. n \in Nat /\ u \in Nat /\ n' \in Nat /\ u' \in Nat /\ Follows(ios, n, u, lost)
        BY <2>0, <2>2, <3>0, <3>1
      <4>1. CASE \E l \in Bios : n' = n + 1 /\ In("issued")' = In("issued") \cup {l}
        <5>1. PICK l \in Bios : n' = n + 1 /\ In("issued")' = In("issued") \cup {l}
          BY <4>1
        <5>2. Unseen' \subseteq Unseen \cup {l}
          BY <3>0, <5>1, UnseenSteps DEF Unseen
        <5>3. u' <= u + 1
          BY <3>0, <5>2, <2>7
        <5> QED BY <2>0, <3>0, <4>0, <5>1, <5>3, FollowsKept
      <4>2. CASE ((n > 0 /\ n' = n - 1) \/ n' = n) /\ In("issued")' \subseteq In("issued")
        <5>1. Unseen' \subseteq Unseen
          BY <3>0, <4>2, UnseenSteps DEF Unseen
        <5>2. u' <= u
          BY <3>0, <5>1, <2>7
        <5>3. CASE n > 0 /\ n' = n - 1
          BY <2>0, <3>0, <4>0, <5>2, <5>3, FollowsKept
        <5>4. CASE n' = n
          BY <2>0, <3>0, <4>0, <5>2, <5>4, FollowsKept
        <5> QED BY <4>2, <5>3, <5>4
      <4> QED BY <2>3, <3>0, <3>1, <4>1, <4>2
    <3> QED BY <2>0, <2>2, <3>0, <3>1, <2>8
  <2>6. CASE Ended
    BY <2>1, <2>6 DEF Ended
  <2> QED BY <2>1, <2>4, <2>5, <2>6 DEF Next
<1> QED BY <1>1, <1>2, KernelSound, PTL DEF Spec

-----------------------------------------------------------------------------
(* blkparse.                                                                *)

(* The first bio of some.                                                    *)
LEMMA LeastIs ==
  ASSUME KernelTypes, NEW S \in SUBSET Bios, NEW first \in S, \A b \in S : bio(first).sec <= bio(b).sec
  PROVE  bio(CHOOSE b \in S : \A c \in S : bio(b).sec <= bio(c).sec).sec = bio(first).sec
<1>1. PICK c : c = CHOOSE b \in S : \A d \in S : bio(b).sec <= bio(d).sec
  OBVIOUS
<1>2. c \in S /\ \A d \in S : bio(c).sec <= bio(d).sec
  BY <1>1
<1>3. bio(c).sec = bio(first).sec
  <2>1. bio(c).sec <= bio(first).sec /\ bio(first).sec <= bio(c).sec
    BY <1>2
  <2> QED BY <1>2, <2>1, BioTypes
<1> QED BY <1>1, <1>3

(* A request starts where it did, or where the bio merged at its front does. *)
LEMMA MergeStart ==
  ASSUME KernelInv, NEW b \in Bios, NEW l \in Bios, Merge(b, l)
  PROVE  /\ StartOf(l) + SizeOf(l) = bio(b).sec => StartOf(l)' = StartOf(l)
         /\ EndOf(b) = StartOf(l) => StartOf(l)' = bio(b).sec
<1>0. KernelTypes /\ scene' = scene /\ rq \in [Bios -> SUBSET Bios]
  BY DEF KernelInv, KernelTypes, Merge
<1>1. /\ KernelTypes /\ l \in Requests /\ rq'[l] = rq[l] \cup {b} /\ scene' = scene
      /\ rq[l] \subseteq Bios /\ rq \in [Bios -> SUBSET Bios]
  <2>1. l \in Requests /\ rq' = [rq EXCEPT ![l] = @ \cup {b}]
    BY MergeKeeps
  <2>2. rq[l] \subseteq Bios
    BY <2>1, RequestSpan
  <2> QED BY <1>0, <2>1, <2>2
<1>2. StartOf(l)' = bio(CHOOSE c \in rq[l] \cup {b} : \A d \in rq[l] \cup {b} : bio(c).sec <= bio(d).sec).sec
  BY <1>1 DEF StartOf, bio
<1>3. PICK first \in rq[l], last \in rq[l] : /\ Spans(l, first, last)
                                             /\ StartOf(l) = bio(first).sec /\ StopOf(l) = EndOf(last)
  BY <1>1, RequestSpan
<1>4. \A c \in Bios : bio(c).sec \in Nat /\ EndOf(c) \in Nat /\ bio(c).sec < EndOf(c)
  BY <1>1, BioTypes
<1>5. \A c \in rq[l] : bio(first).sec <= bio(c).sec
  BY <1>3 DEF Spans
<1>6. ASSUME StartOf(l) + SizeOf(l) = bio(b).sec PROVE StartOf(l)' = StartOf(l)
  <2>1. bio(first).sec < EndOf(last) /\ EndOf(last) = bio(b).sec
    <3>1. bio(first).sec <= bio(last).sec /\ bio(last).sec < EndOf(last)
      BY <1>1, <1>3, <1>4, <1>5
    <3> QED BY <1>1, <1>3, <1>4, <1>6, <3>1, RequestSpan
  <2>2. bio(first).sec <= bio(b).sec
    BY <1>1, <1>3, <1>4, <2>1
  <2>3. \A c \in rq[l] \cup {b} : bio(first).sec <= bio(c).sec
    BY <1>5, <2>2
  <2>4. rq[l] \cup {b} \in SUBSET Bios /\ first \in rq[l] \cup {b}
    BY <1>1
  <2> QED BY <1>1, <1>2, <1>3, <2>3, <2>4, LeastIs
<1>7. ASSUME EndOf(b) = StartOf(l) PROVE StartOf(l)' = bio(b).sec
  <2>1. \A c \in rq[l] \cup {b} : bio(b).sec <= bio(c).sec
    BY <1>1, <1>3, <1>4, <1>5, <1>7
  <2>2. rq[l] \cup {b} \in SUBSET Bios /\ b \in rq[l] \cup {b}
    BY <1>1
  <2> QED BY <1>1, <1>2, <2>1, <2>2, LeastIs
<1> QED BY <1>6, <1>7

(* What a step does to the requests.                                         *)
LEMMA RequestMoves ==
  ASSUME KernelInv, KernelStep
  PROVE  \/ \E b \in Bios : /\ Allocate(b) /\ b \notin Requests /\ Requests' = Requests \cup {b}
                            /\ StartOf(b)' = bio(b).sec /\ Move(b, "allocated")
                            /\ \A l \in Requests : b \notin rq[l]
                            /\ Live(b) \/ bio(b).pc
         \/ \E b \in Requests : /\ Insert(b) \/ Issue(b) \/ Requeue(b)
                                /\ Requests' = Requests
                                /\ Insert(b) => StartOf(b) = bio(b).sec
         \/ \E b \in Bios, l \in Requests : /\ Merge(b, l) /\ Requests' = Requests /\ ~bio(b).pc /\ ~bio(l).pc
                                           /\ \A m \in Requests : b \notin rq[m] /\ at'[m] = at[m]
         \/ \E l \in Requests : /\ Complete(l) /\ Requests' = Requests \ {l}
                                /\ \A m \in Requests' : at'[m] = at[m]
         \/ /\ Requests' = Requests /\ \A l \in Requests : at'[l] = at[l]
            /\ event'.act \notin {"G", "I", "M", "F", "D", "R", "C"} \/ (event'.act = "C" /\ event'.dev = Mapped)
<1> DEFINE Same == /\ Requests' = Requests /\ \A l \in Requests : at'[l] = at[l]
                   /\ event'.act \notin {"G", "I", "M", "F", "D", "R", "C"} \/ (event'.act = "C" /\ event'.dev = Mapped)
<1>1. /\ KernelTypes /\ at \in [Bios -> Stations] /\ Bios' = Bios /\ scene' = scene
  BY StepTicks DEF KernelInv, KernelTypes, Bios
<1>2. ASSUME at' = at PROVE Requests' = Requests /\ \A l \in Requests : at'[l] = at[l]
  BY <1>1, <1>2 DEF Requests, Places
<1>3. ASSUME NEW b \in Bios, NEW place \in Stations \ {"allocated", "waiting", "issued"}, Move(b, place),
             at[b] \notin {"allocated", "waiting", "issued"}
      PROVE  Requests' = Requests /\ \A l \in Requests : at'[l] = at[l]
  BY <1>1, <1>3 DEF Requests, Places, Move
<1>4. ASSUME NEW p \in Pids, NEW n \in Names, Announce(p, n) PROVE Same
  <2>1. at' = at
    BY <1>4 DEF Announce
  <2>2. event'.act = "name"
    BY <1>1, <1>4, Events
  <2> QED BY <1>2, <2>1, <2>2
<1>5. ASSUME NEW b \in Bios, Submit(b) \/ Remap(b) \/ SubmitBelow(b) \/ Sleep(b) PROVE Same
  <2>1. /\ at[b] \notin {"allocated", "waiting", "issued"}
        /\ \E place \in Stations \ {"allocated", "waiting", "issued"} : Move(b, place)
    BY <1>5 DEF Submit, Remap, SubmitBelow, Sleep, Pass, Stations
  <2>2. event'.act \in {"Q", "A", "S"}
    BY <1>1, <1>5, Events
  <2>3. Requests' = Requests /\ \A l \in Requests : at'[l] = at[l]
    BY <1>3, <2>1
  <2> QED BY <2>2, <2>3
<1>6. ASSUME NEW b \in Bios, CompleteAbove(b) PROVE Same
  <2>1. at[b] = "below" /\ Move(b, "done")
    BY <1>6 DEF CompleteAbove
  <2>2. event'.act = "C" /\ event'.dev = Mapped
    BY <1>1, <1>6, Events
  <2> QED BY <1>3, <2>1, <2>2 DEF Stations
<1>7. ASSUME Plug \/ Unplug PROVE Same
  <2>1. at' = at
    BY <1>7 DEF Plug, Unplug
  <2>2. event'.act \in {"P", "U", "T"}
    BY <1>1, <1>7, Events
  <2> QED BY <1>2, <2>1, <2>2
<1>8. ASSUME NEW b \in Bios, Allocate(b)
      PROVE  /\ b \notin Requests /\ Requests' = Requests \cup {b}
             /\ StartOf(b)' = bio(b).sec /\ Move(b, "allocated")
             /\ \A l \in Requests : b \notin rq[l]
             /\ Live(b) \/ bio(b).pc
  <2>1. at[b] \in {"new", "queued", "asleep"} /\ Move(b, "allocated") /\ rq' = rq /\ (at[b] = "new" => bio(b).pc)
    BY <1>8 DEF Allocate, Pass
  <2>2. rq[b] = {b}
    BY <2>1 DEF KernelInv, Placed, AtStation
  <2>3. StartOf(b)' = bio(b).sec
    <3>1. StartOf(b)' = bio(CHOOSE c \in {b} : \A d \in {b} : bio(c).sec <= bio(d).sec).sec
      BY <1>1, <2>1, <2>2 DEF StartOf, bio
    <3> QED BY <1>1, <3>1, LeastIs, BioTypes
  <2>4. b \notin Requests /\ Requests' = Requests \cup {b}
    BY <1>1, <2>1 DEF Requests, Places, Move
  <2>5. \A l \in Requests : b \notin rq[l]
    BY <2>1, <2>4 DEF KernelInv, Placed, IsRequest
  <2> QED BY <2>1, <2>3, <2>4, <2>5 DEF Live
<1>9. ASSUME NEW b \in Bios, Insert(b) \/ Issue(b) \/ Requeue(b)
      PROVE  b \in Requests /\ Requests' = Requests /\ (Insert(b) => StartOf(b) = bio(b).sec)
  <2>1. at[b] \in {"allocated", "waiting", "issued"} /\ \E place \in {"waiting", "issued"} : Move(b, place)
    BY <1>9 DEF Insert, Pass, Issue, Requeue
  <2>2. b \in Requests /\ Requests' = Requests
    BY <1>1, <2>1 DEF Requests, Places, Move
  <2>3. ASSUME Insert(b) PROVE StartOf(b) = bio(b).sec
    <3>1. rq[b] = {b}
      BY <2>3 DEF Insert, Pass, KernelInv, Placed, AtStation
    <3>2. StartOf(b) = bio(CHOOSE c \in {b} : \A d \in {b} : bio(c).sec <= bio(d).sec).sec
      BY <3>1 DEF StartOf
    <3> QED BY <1>1, <3>2, LeastIs, BioTypes
  <2> QED BY <2>2, <2>3
<1>10. ASSUME NEW b \in Bios, NEW l \in Bios, Merge(b, l)
       PROVE  /\ l \in Requests /\ Requests' = Requests /\ ~bio(b).pc /\ ~bio(l).pc
              /\ \A m \in Requests : b \notin rq[m] /\ at'[m] = at[m]
  <2>1. /\ l \in Requests /\ Requests' = Requests /\ at' = [at EXCEPT ![b] = "merged"]
        /\ at[b] = "queued" /\ ~bio(l).pc
    BY <1>10, MergeKeeps DEF Merge
  <2>2. b \notin Requests /\ ~bio(b).pc
    BY <2>1 DEF Requests, Places, KernelInv, Placed, AtStation
  <2>3. \A m \in Requests : b \notin rq[m]
    BY <2>1, <2>2 DEF KernelInv, Placed, IsRequest
  <2>4. \A m \in Requests : at'[m] = at[m]
    BY <1>1, <2>1, <2>2 DEF Requests, Places
  <2> QED BY <2>1, <2>2, <2>3, <2>4
<1>11. ASSUME NEW l \in Bios, Complete(l)
       PROVE  l \in Requests /\ Requests' = Requests \ {l} /\ \A m \in Requests' : at'[m] = at[m]
  <2>1. /\ l \in Requests /\ Requests' = Requests \ {l}
        /\ \A b \in Bios : b \notin rq[l] => at'[b] = at[b]
    BY <1>11, CompleteKeeps
  <2>2. \A m \in Requests : m # l => m \in rq[m] /\ rq[m] \cap rq[l] = {} /\ m \in Bios
    BY <2>1, RequestSpan DEF KernelInv, Placed
  <2> QED BY <2>1, <2>2
<1> HIDE DEF Same
<1>12. \/ Same \/ (\E b \in Bios : Allocate(b)) \/ (\E b \in Bios : Insert(b) \/ Issue(b) \/ Requeue(b))
       \/ (\E b, l \in Bios : Merge(b, l)) \/ (\E l \in Bios : Complete(l))
  BY <1>4, <1>5, <1>6, <1>7 DEF KernelStep
<1>13. ASSUME Same PROVE /\ Requests' = Requests /\ \A l \in Requests : at'[l] = at[l]
                         /\ event'.act \notin {"G", "I", "M", "F", "D", "R", "C"} \/ (event'.act = "C" /\ event'.dev = Mapped)
  BY <1>13 DEF Same
<1>14. CASE Same
  BY <1>13, <1>14
<1>15. CASE \E b \in Bios : Allocate(b)
  BY <1>8, <1>15
<1>16. CASE \E b \in Bios : Insert(b) \/ Issue(b) \/ Requeue(b)
  BY <1>9, <1>16
<1>17. CASE \E b, l \in Bios : Merge(b, l)
  BY <1>10, <1>17
<1>18. CASE \E l \in Bios : Complete(l)
  BY <1>11, <1>18
<1> QED BY <1>12, <1>14, <1>15, <1>16, <1>17, <1>18

LEMMA StartOutside ==
  ASSUME KernelInv, Separate, NEW l \in Requests, NEW b \in Bios, Live(b), b \notin rq[l]
  PROVE  bio(b).sec # StartOf(l)
<1>1. l \in rq[l] /\ StartOf(l) <= bio(l).sec /\ EndOf(l) <= StopOf(l) /\ l \in Bios
      /\ StartOf(l) \in Nat /\ StopOf(l) \in Nat
  BY RequestSpan
<1>2. StartOf(l) < StopOf(l)
  BY <1>1, BioTypes DEF KernelInv
<1> QED BY <1>1, <1>2, Outside

(* What an event does to the tree of its device, and what it prints.         *)
LEMMA TrackStep ==
  ASSUME NEW e, IoTrackStep(e), e.dev \in Devices, DOMAIN tracks = Devices
  PROVE  /\ DOMAIN tracks' = Devices
         /\ \A d \in Devices \ {e.dev} : tracks'[d] = tracks[d]
         /\ e.act = "name" => tracks' = tracks /\ shown' = shown
         /\ e.act # "name" => tracks'[e.dev] = Tracked(tracks[e.dev], e) /\ shown' \in Times(tracks[e.dev], e)
BY DEF IoTrackStep, handle_notify, dump_trace

TrackedAs(t, e) ==
  /\ \A s \in DOMAIN find_track(t, e) : DOMAIN find_track(t, e)[s] = IoFields
  /\ e.pc => Tracked(t, e) = t
  /\ e.act \notin {"Q", "G", "I", "F", "D", "C"} => Tracked(t, e) = t
  /\ e.act = "Q" /\ ~is_remapper(e.dev) => Tracked(t, e) = t
  /\ e.act = "Q" /\ is_remapper(e.dev) /\ ~e.pc =>
       Tracked(t, e) = [find_track(t, e) EXCEPT ![e.sec].dispatch = e.time]
  /\ e.act = "G" /\ ~e.pc => Tracked(t, e) = [find_track(t, e) EXCEPT ![e.sec].alloc = e.time]
  /\ e.act = "I" /\ ~e.pc => Tracked(t, e) = [find_track(t, e) EXCEPT ![e.sec].queue = e.time]
  /\ e.act = "F" /\ ~e.pc => Tracked(t, e) = log_track_frontmerge(t, e)
  /\ e.act = "D" /\ ~e.pc /\ e.sec \in DOMAIN t => Tracked(t, e) = [t EXCEPT ![e.sec].dispatch = e.time]
  /\ e.act = "C" /\ ~e.pc => Tracked(t, e) = Drop(t, e.sec)

LEMMA TrackedIs ==
  ASSUME NEW t, NEW e, e.pc \in BOOLEAN, \A s \in DOMAIN t : DOMAIN t[s] = IoFields
  PROVE  TrackedAs(t, e)
<1>1. \A s \in DOMAIN find_track(t, e) : DOMAIN find_track(t, e)[s] = IoFields
  BY DEF find_track, Entered, IoFields
<1>2. e.pc => Tracked(t, e) = t
  BY DEF Tracked
<1>3. e.act \notin {"Q", "G", "I", "F", "D", "C"} => Tracked(t, e) = t
  BY <1>2 DEF Tracked
<1>4. e.act = "Q" /\ ~is_remapper(e.dev) => Tracked(t, e) = t
  BY <1>2 DEF Tracked
<1>5. e.act = "Q" /\ is_remapper(e.dev) /\ ~e.pc =>
              Tracked(t, e) = [find_track(t, e) EXCEPT ![e.sec].dispatch = e.time]
  BY DEF Tracked
<1>6. e.act = "G" /\ ~e.pc => Tracked(t, e) = [find_track(t, e) EXCEPT ![e.sec].alloc = e.time]
  BY DEF Tracked
<1>7. e.act = "I" /\ ~e.pc => Tracked(t, e) = [find_track(t, e) EXCEPT ![e.sec].queue = e.time]
  BY DEF Tracked
<1>8. e.act = "F" /\ ~e.pc => Tracked(t, e) = log_track_frontmerge(t, e)
  BY DEF Tracked
<1>9. e.act = "D" /\ ~e.pc /\ e.sec \in DOMAIN t => Tracked(t, e) = [t EXCEPT ![e.sec].dispatch = e.time]
  BY DEF Tracked
<1>10. e.act = "C" /\ ~e.pc => Tracked(t, e) = Drop(t, e.sec)
  BY DEF Tracked
<1> QED BY <1>1, <1>2, <1>3, <1>4, <1>5, <1>6, <1>7, <1>8, <1>9, <1>10 DEF TrackedAs

(* The tree with one field of one I/O set.                                   *)
LEMMA FieldSet ==
  ASSUME NEW t, NEW s \in DOMAIN t, NEW f \in IoFields, NEW x, \A r \in DOMAIN t : DOMAIN t[r] = IoFields
  PROVE  LET u == [t EXCEPT ![s] = [@ EXCEPT ![f] = x]]
         IN /\ DOMAIN u = DOMAIN t /\ \A r \in DOMAIN t : DOMAIN u[r] = IoFields
            /\ \A r \in DOMAIN t : r # s => u[r] = t[r]
            /\ u[s][f] = x /\ \A g \in IoFields : g # f => u[s][g] = t[s][g]
OBVIOUS

LEMMA TimesAre ==
  ASSUME NEW t, NEW e, e.pc \in BOOLEAN
  PROVE  /\ e.pc \/ e.act \notin {"I", "D", "C"} => Times(t, e) = {NoTime}
         /\ e.act \in {"D", "C"} /\ e.sec \notin DOMAIN t => Times(t, e) = {NoTime}
         /\ e.act = "I" /\ ~e.pc /\ e.sec \in DOMAIN t /\ t[e.sec].alloc # Junk => Times(t, e) = {e.time - t[e.sec].alloc}
         /\ e.act = "D" /\ ~e.pc /\ e.sec \in DOMAIN t /\ t[e.sec].queue # Junk => Times(t, e) = {e.time - t[e.sec].queue}
         /\ e.act = "C" /\ ~e.pc /\ e.sec \in DOMAIN t /\ t[e.sec].dispatch # Junk => Times(t, e) = {e.time - t[e.sec].dispatch}
<1>1. (e.pc \/ e.act \notin {"I", "D", "C"}) => Times(t, e) = {NoTime}
  BY DEF Times
<1>2. e.act \in {"D", "C"} /\ e.sec \notin DOMAIN t => Times(t, e) = {NoTime}
  BY DEF Times
<1>3. e.sec \in DOMAIN t => find_track(t, e)[e.sec] = t[e.sec]
  BY DEF find_track, Entered
<1>4. e.act = "I" /\ ~e.pc /\ e.sec \in DOMAIN t /\ t[e.sec].alloc # Junk => Times(t, e) = {e.time - t[e.sec].alloc}
  BY <1>3 DEF Times
<1>5. e.act = "D" /\ ~e.pc /\ e.sec \in DOMAIN t /\ t[e.sec].queue # Junk => Times(t, e) = {e.time - t[e.sec].queue}
  BY DEF Times, Elapsed
<1>6. e.act = "C" /\ ~e.pc /\ e.sec \in DOMAIN t /\ t[e.sec].dispatch # Junk => Times(t, e) = {e.time - t[e.sec].dispatch}
  BY DEF Times, Elapsed
<1> QED BY <1>1, <1>2, <1>4, <1>5, <1>6

(* The times measured stay measured, and the time of the event is one.       *)
LEMMA MeasuredKept ==
  ASSUME KernelTypes, KernelStep
  PROVE  /\ \A n : Measured(n) => n \in 1..clock' /\ n \in Nat /\ n # Junk /\ event'.time - n # Junk
         /\ event'.time \in 1..clock'
<1>1. clock \in Nat /\ clock' = clock + 1 /\ event'.time = clock + 1
  BY StepTicks DEF KernelTypes
<1>2. ASSUME NEW n, Measured(n) PROVE n \in 1..clock' /\ n \in Nat /\ n # Junk /\ event'.time - n # Junk
  <2>1. n \in Int /\ n >= 1 /\ n <= clock
    BY <1>1, <1>2 DEF Measured
  <2>2. n \in 1..clock + 1 /\ event'.time - n >= 0 /\ event'.time - n \in Int
    BY <1>1, <2>1
  <2> QED BY <1>1, <2>1, <2>2 DEF Measured, Junk
<1>3. event'.time \in 1..clock'
  BY <1>1 DEF Measured
<1> QED BY <1>2, <1>3

(* An event on the disk that leaves the requests where they are.             *)
LEMMA TreeStays ==
  ASSUME KernelInv, Tree, KernelStep, Fs(Requests)' = Fs(Requests), tracks'[Lower] = tracks[Lower],
         \A l \in Fs(Requests) : StartOf(l)' = StartOf(l),
         \A l \in Fs(Requests) : at'[l] = at[l] \/ (at[l] = "issued" /\ at'[l] = "waiting")
  PROVE  Tree'
<1>1. KernelTypes
  BY DEF KernelInv
<1>2. DOMAIN tracks[Lower] = {StartOf(l) : l \in Fs(Requests)}
  BY DEF Tree
<1>3. ASSUME NEW l \in Fs(Requests) PROVE Noticed(l, tracks[Lower][StartOf(l)])'
  <2>1. tracks'[Lower][StartOf(l)'] = tracks[Lower][StartOf(l)] /\ Noticed(l, tracks[Lower][StartOf(l)])
    BY DEF Tree
  <2> QED BY <1>1, <2>1, MeasuredKept DEF Noticed, Measured
<1>4. \A s \in DOMAIN tracks'[Lower] : DOMAIN tracks'[Lower][s] = IoFields
  BY DEF Tree
<1> QED BY <1>2, <1>3, <1>4 DEF Tree

(* An event on the disk that sets a time of one I/O.                         *)
LEMMA TreeSet ==
  ASSUME KernelInv, Separate, Tree, KernelStep, Requests' = Requests, NEW b \in Fs(Requests), NEW f \in IoFields,
         NEW old, DOMAIN old = DOMAIN tracks[Lower], \A s \in DOMAIN old : old[s] = tracks[Lower][s],
         tracks'[Lower] = [old EXCEPT ![StartOf(b)] = [@ EXCEPT ![f] = event'.time]],
         \A l \in Requests : StartOf(l)' = StartOf(l),
         \A l \in Requests : l # b => at'[l] = at[l],
         \/ f = "queue" /\ at[b] = "allocated" /\ at'[b] = "waiting"
         \/ f = "dispatch" /\ at[b] = "waiting" /\ at'[b] = "issued"
  PROVE  Tree'
<1>1. Fs(Requests)' = Fs(Requests) /\ Fs(Requests) \subseteq Requests
  BY StepTicks DEF KernelInv, Fs, bio
<1>2. KernelTypes
  BY DEF KernelInv
<1>3. DOMAIN tracks[Lower] = {StartOf(l) : l \in Fs(Requests)} /\ \A s \in DOMAIN tracks[Lower] : DOMAIN tracks[Lower][s] = IoFields
  BY DEF Tree
<1> DEFINE u == tracks'[Lower]
           t == tracks[Lower]
<1>4. StartOf(b) \in DOMAIN t
  BY <1>3
<1>5. /\ DOMAIN u = DOMAIN t /\ \A r \in DOMAIN t : DOMAIN u[r] = IoFields
      /\ \A r \in DOMAIN t : r # StartOf(b) => u[r] = t[r]
      /\ u[StartOf(b)][f] = event'.time /\ \A g \in IoFields : g # f => u[StartOf(b)][g] = t[StartOf(b)][g]
  BY <1>3, <1>4, FieldSet
<1>6. ASSUME NEW l \in Fs(Requests) PROVE Noticed(l, tracks[Lower][StartOf(l)])'
  <2>1. Noticed(l, t[StartOf(l)]) /\ l \in Requests /\ StartOf(l)' = StartOf(l) /\ StartOf(l) \in DOMAIN t
    BY <1>1, <1>3 DEF Tree
  <2>2. CASE l # b
    <3>1. u[StartOf(l)] = t[StartOf(l)]
      BY <1>1, <1>5, <2>1, <2>2, StartsApart
    <3> QED BY <1>2, <2>1, <2>2, <3>1, MeasuredKept DEF Noticed, Measured
  <2>3. CASE l = b
    <3>1. /\ u[StartOf(b)][f] = event'.time
          /\ \A g \in IoFields : g # f => u[StartOf(b)][g] = t[StartOf(b)][g]
          /\ event'.time \in 1..clock'
      BY <1>2, <1>5, MeasuredKept
    <3>2. CASE f = "queue" /\ at[b] = "allocated" /\ at'[b] = "waiting"
      <4>1. u[StartOf(b)].queue = event'.time /\ u[StartOf(b)].alloc = t[StartOf(b)].alloc
        BY <3>1, <3>2 DEF IoFields
      <4> QED BY <1>2, <2>1, <2>3, <3>1, <3>2, <4>1, MeasuredKept DEF Noticed, Measured
    <3>3. CASE f = "dispatch" /\ at[b] = "waiting" /\ at'[b] = "issued"
      <4>1. /\ u[StartOf(b)].dispatch = event'.time
            /\ u[StartOf(b)].alloc = t[StartOf(b)].alloc /\ u[StartOf(b)].queue = t[StartOf(b)].queue
        BY <3>1, <3>3 DEF IoFields
      <4>2. t[StartOf(b)].alloc \in 1..clock' /\ t[StartOf(b)].queue \in 1..clock'
        BY <1>2, <2>1, <2>3, <3>3, MeasuredKept DEF Noticed, Measured
      <4> QED BY <2>1, <2>3, <3>1, <4>1, <4>2 DEF Noticed, Measured
    <3> QED BY <3>2, <3>3
  <2> QED BY <2>2, <2>3
<1> QED BY <1>1, <1>3, <1>5, <1>6 DEF Tree

(* A request is new.                                                         *)
LEMMA TreeGrows ==
  ASSUME KernelInv, Separate, Tree, KernelStep, NEW b \in Bios, ~bio(b).pc, Live(b),
         b \notin Requests, Requests' = Requests \cup {b}, StartOf(b)' = bio(b).sec, at'[b] = "allocated",
         \A l \in Requests : b \notin rq[l] /\ StartOf(l)' = StartOf(l) /\ at'[l] = at[l],
         NEW e, e.sec = bio(b).sec, e.time = event'.time,
         tracks'[Lower] = [find_track(tracks[Lower], e) EXCEPT ![e.sec].alloc = e.time]
  PROVE  Tree'
<1> DEFINE t == tracks[Lower]
           f == find_track(t, e)
           u == tracks'[Lower]
<1>1. KernelTypes /\ Fs(Requests)' = Fs(Requests) \cup {b} /\ Fs(Requests) \subseteq Requests
  BY StepTicks DEF KernelInv, Fs, bio
<1>2. DOMAIN t = {StartOf(l) : l \in Fs(Requests)} /\ \A s \in DOMAIN t : DOMAIN t[s] = IoFields
  BY DEF Tree
<1>3. e.sec \notin DOMAIN t
  BY <1>1, <1>2, StartOutside
<1>4. /\ DOMAIN f = DOMAIN t \cup {e.sec} /\ \A s \in DOMAIN t : f[s] = t[s]
      /\ DOMAIN f[e.sec] = IoFields
  BY <1>2, <1>3 DEF find_track, Entered, IoFields
<1>5. /\ DOMAIN u = DOMAIN t \cup {e.sec} /\ \A s \in DOMAIN t : u[s] = t[s]
      /\ DOMAIN u[e.sec] = IoFields /\ u[e.sec].alloc = e.time
  BY <1>2, <1>3, <1>4 DEF IoFields
<1>6. Noticed(b, tracks[Lower][StartOf(b)])'
  <2>1. u[StartOf(b)'].alloc \in 1..clock'
    BY <1>1, <1>5, MeasuredKept
  <2> QED BY <2>1 DEF Noticed, Measured
<1>7. ASSUME NEW l \in Fs(Requests) PROVE Noticed(l, tracks[Lower][StartOf(l)])'
  <2>1. u[StartOf(l)'] = t[StartOf(l)] /\ Noticed(l, t[StartOf(l)]) /\ at'[l] = at[l]
    BY <1>1, <1>2, <1>5 DEF Tree
  <2> QED BY <1>1, <2>1, MeasuredKept DEF Noticed, Measured
<1>8. DOMAIN u = {StartOf(l)' : l \in Fs(Requests)'}
  <2>0. \A l \in Fs(Requests) : StartOf(l)' = StartOf(l) /\ StartOf(l) \in DOMAIN t
    BY <1>1, <1>2
  <2>1. ASSUME NEW s \in DOMAIN u PROVE \E l \in Fs(Requests) \cup {b} : s = StartOf(l)'
    <3>1. CASE s = e.sec
      BY <1>1, <3>1
    <3>2. CASE s \in DOMAIN t
      <4>1. PICK l \in Fs(Requests) : s = StartOf(l)
        BY <1>2, <3>2
      <4> QED BY <1>1, <4>1
    <3> QED BY <1>5, <2>1, <3>1, <3>2
  <2>2. ASSUME NEW l \in Fs(Requests) \cup {b} PROVE StartOf(l)' \in DOMAIN u
    <3>1. CASE l = b
      BY <1>5, <3>1
    <3>2. CASE l # b
      BY <1>5, <2>0, <3>2
    <3> QED BY <3>1, <3>2
  <2>3. DOMAIN u = {StartOf(l)' : l \in Fs(Requests) \cup {b}}
    BY <2>1, <2>2
  <2> QED BY <1>1, <2>3
<1>9. \A s \in DOMAIN u : DOMAIN u[s] = IoFields
  BY <1>2, <1>5
<1> QED BY <1>1, <1>6, <1>7, <1>8, <1>9 DEF Tree

(* A request has a new start.                                                *)
LEMMA TreeMoves ==
  ASSUME KernelInv, Separate, Tree, KernelStep, NEW b \in Bios, NEW l \in Fs(Requests), Live(b),
         Requests' = Requests, EndOf(b) = StartOf(l), StartOf(l)' = bio(b).sec,
         \A m \in Requests : b \notin rq[m] /\ at'[m] = at[m] /\ (m # l => StartOf(m)' = StartOf(m)),
         NEW e, e.sec = bio(b).sec, e.len = bio(b).len,
         tracks'[Lower] = log_track_frontmerge(tracks[Lower], e)
  PROVE  Tree'
<1> DEFINE t == tracks[Lower]
           u == tracks'[Lower]
<1>1. KernelTypes /\ Fs(Requests)' = Fs(Requests) /\ Fs(Requests) \subseteq Requests
  BY StepTicks DEF KernelInv, Fs, bio
<1>2. DOMAIN t = {StartOf(m) : m \in Fs(Requests)} /\ \A s \in DOMAIN t : DOMAIN t[s] = IoFields
  BY DEF Tree
<1>3. e.sec + e.len = StartOf(l) /\ StartOf(l) \in DOMAIN t
  BY <1>2 DEF EndOf
<1>4. e.sec \notin DOMAIN t
  BY <1>1, <1>2, StartOutside
<1>5. u = [s \in (DOMAIN t \ {StartOf(l)}) \cup {e.sec} |-> IF s \in DOMAIN t \ {StartOf(l)} THEN t[s] ELSE t[StartOf(l)]]
  <2>1. Drop(t, StartOf(l)) = [s \in DOMAIN t \ {StartOf(l)} |-> t[s]]
    BY DEF Drop
  <2> QED BY <1>3, <2>1 DEF log_track_frontmerge, Entered
<1>6. /\ DOMAIN u = (DOMAIN t \ {StartOf(l)}) \cup {e.sec}
      /\ u[e.sec] = t[StartOf(l)] /\ \A s \in DOMAIN t \ {StartOf(l)} : u[s] = t[s]
  BY <1>4, <1>5
<1>7. \A m \in Fs(Requests) : m # l => StartOf(m) # StartOf(l)
  BY <1>1, StartsApart
<1>8. ASSUME NEW m \in Fs(Requests) PROVE Noticed(m, tracks[Lower][StartOf(m)])'
  <2>1. u[StartOf(m)'] = t[StartOf(m)]
    BY <1>1, <1>2, <1>6, <1>7
  <2>2. Noticed(m, t[StartOf(m)]) /\ at'[m] = at[m]
    BY <1>1 DEF Tree
  <2> QED BY <1>1, <2>1, <2>2, MeasuredKept DEF Noticed, Measured
<1>9. DOMAIN u = {StartOf(m)' : m \in Fs(Requests)'}
  <2>1. ASSUME NEW s \in DOMAIN u PROVE \E m \in Fs(Requests) : s = StartOf(m)'
    <3>1. CASE s = e.sec
      BY <3>1
    <3>2. CASE s \in DOMAIN t \ {StartOf(l)}
      <4>1. PICK m \in Fs(Requests) : s = StartOf(m)
        BY <1>2, <3>2
      <4> QED BY <1>1, <3>2, <4>1
    <3> QED BY <1>6, <2>1, <3>1, <3>2
  <2>2. ASSUME NEW m \in Fs(Requests) PROVE StartOf(m)' \in DOMAIN u
    <3>1. CASE m = l
      BY <1>6, <3>1
    <3>2. CASE m # l
      BY <1>1, <1>2, <1>6, <1>7, <3>2
    <3> QED BY <3>1, <3>2
  <2> QED BY <1>1, <2>1, <2>2
<1>10. \A s \in DOMAIN u : DOMAIN u[s] = IoFields
  BY <1>2, <1>3, <1>6
<1> QED BY <1>1, <1>8, <1>9, <1>10 DEF Tree

(* A request is complete.                                                    *)
LEMMA TreeDrops ==
  ASSUME KernelInv, Separate, Tree, KernelStep, NEW l \in Fs(Requests), Requests' = Requests \ {l},
         \A m \in Requests' : at'[m] = at[m] /\ StartOf(m)' = StartOf(m),
         tracks'[Lower] = Drop(tracks[Lower], StartOf(l))
  PROVE  Tree'
<1> DEFINE t == tracks[Lower]
           u == tracks'[Lower]
<1>1. KernelTypes /\ Fs(Requests)' = Fs(Requests) \ {l} /\ Fs(Requests) \subseteq Requests
  BY StepTicks DEF KernelInv, Fs, bio
<1>2. DOMAIN t = {StartOf(m) : m \in Fs(Requests)} /\ \A s \in DOMAIN t : DOMAIN t[s] = IoFields
  BY DEF Tree
<1>3. DOMAIN u = DOMAIN t \ {StartOf(l)} /\ \A s \in DOMAIN u : u[s] = t[s]
  BY DEF Drop
<1>4. \A m \in Fs(Requests) : m # l => StartOf(m) # StartOf(l)
  BY <1>1, StartsApart
<1>5. ASSUME NEW m \in Fs(Requests), m # l PROVE Noticed(m, tracks[Lower][StartOf(m)])'
  <2>1. u[StartOf(m)'] = t[StartOf(m)] /\ Noticed(m, t[StartOf(m)]) /\ at'[m] = at[m]
    BY <1>1, <1>2, <1>3, <1>4, <1>5 DEF Tree
  <2> QED BY <1>1, <2>1, MeasuredKept DEF Noticed, Measured
<1>6. \A m \in Fs(Requests)' : StartOf(m)' = StartOf(m)
  BY <1>1
<1>7. DOMAIN u = {StartOf(m)' : m \in Fs(Requests)'}
  <2>1. ASSUME NEW s \in DOMAIN u PROVE \E m \in Fs(Requests)' : s = StartOf(m)'
    <3>1. PICK m \in Fs(Requests) : s = StartOf(m) /\ m # l
      BY <1>2, <1>3
    <3> QED BY <1>1, <1>6, <3>1
  <2>2. ASSUME NEW m \in Fs(Requests)' PROVE StartOf(m)' \in DOMAIN u
    BY <1>1, <1>2, <1>3, <1>4, <1>6
  <2> QED BY <2>1, <2>2
<1> QED BY <1>1, <1>2, <1>3, <1>5, <1>7 DEF Tree

(* Of the mapped device come only what is queued and completed there.        *)
LEMMA PacketEvents ==
  ASSUME KernelInv, KernelStep
  PROVE  /\ event'.pc \in BOOLEAN
         /\ event'.dev = Mapped => event'.pc = FALSE /\ event'.act \in {"Q", "C"}
         /\ event'.act = "C" /\ event'.dev = Lower => \E l \in Bios : Complete(l)
         /\ event'.act \notin {"G", "I", "M", "F", "D", "R", "C"} /\ event'.dev = Lower =>
              event'.act \in {"name", "Q", "A", "S", "P", "U", "T"}
<1> DEFINE P == /\ event'.pc \in BOOLEAN
                /\ event'.dev = Mapped => event'.pc = FALSE /\ event'.act \in {"Q", "C"}
                /\ event'.act = "C" /\ event'.dev = Lower => \E l \in Bios : Complete(l)
                /\ event'.act \notin {"G", "I", "M", "F", "D", "R", "C"} /\ event'.dev = Lower =>
                     event'.act \in {"name", "Q", "A", "S", "P", "U", "T"}
<1>1. KernelTypes /\ Lower # Mapped /\ \A b \in Bios : bio(b).pc \in BOOLEAN /\ bio(b).mapped \in BOOLEAN
  BY BioTypes, DevicesAssumption DEF KernelInv
<1>2. ASSUME NEW p \in Pids, NEW n \in Names, Announce(p, n) PROVE P
  <2>1. event'.act = "name" /\ event'.dev = Lower
    BY <1>1, <1>2, Events
  <2>2. event'.pc = FALSE
    BY <1>2 DEF Announce, NoEvent
  <2> QED BY <1>1, <2>1, <2>2
<1>3. ASSUME NEW b \in Bios, Submit(b) PROVE P
  <2>1. bio(b).pc = FALSE
    BY <1>1, <1>3 DEF Submit
  <2> QED BY <1>1, <1>3, <2>1, Events
<1>4. ASSUME NEW b \in Bios, Remap(b) \/ SubmitBelow(b) \/ Sleep(b) PROVE P
  <2>1. event'.act \in {"A", "Q", "S"} /\ event'.dev = Lower /\ event'.pc \in BOOLEAN
    BY <1>1, <1>4, Events
  <2> QED BY <1>1, <2>1
<1>5. ASSUME NEW b \in Bios, Allocate(b) \/ Insert(b) \/ Issue(b) \/ Requeue(b) PROVE P
  <2>1. event'.act \in {"G", "I", "D", "R"} /\ event'.dev = Lower /\ event'.pc \in BOOLEAN
    BY <1>1, <1>5, Events
  <2> QED BY <1>1, <2>1
<1>6. ASSUME NEW b \in Bios, Complete(b) PROVE P
  <2>1. event'.act = "C" /\ event'.dev = Lower /\ event'.pc \in BOOLEAN
    BY <1>1, <1>6, Events
  <2> QED BY <1>1, <1>6, <2>1
<1>7. ASSUME NEW b \in Bios, CompleteAbove(b) PROVE P
  <2>1. event'.act = "C" /\ event'.dev = Mapped /\ event'.pc = FALSE
    BY <1>1, <1>7, Events
  <2> QED BY <1>1, <2>1
<1>8. ASSUME NEW b \in Bios, NEW l \in Bios, Merge(b, l) PROVE P
  <2>1. event'.act \in {"M", "F"} /\ event'.dev = Lower /\ event'.pc \in BOOLEAN
    BY <1>1, <1>8, Events
  <2> QED BY <1>1, <2>1
<1>9. ASSUME Plug \/ Unplug PROVE P
  <2>1. event'.act \in {"P", "U", "T"} /\ event'.dev = Lower
    BY <1>1, <1>9, Events
  <2>2. event'.pc = FALSE
    BY <1>9 DEF Plug, Unplug, Emit, NoEvent
  <2> QED BY <1>1, <2>1, <2>2
<1> HIDE DEF P
<1>10. P
  BY <1>2, <1>3, <1>4, <1>5, <1>6, <1>7, <1>8, <1>9 DEF KernelStep
<1> QED BY <1>10 DEF P

LEMMA TreeKept ==
  ASSUME KernelInv, Separate, Tree, DOMAIN tracks = Devices, KernelStep, IoTrackStep(event'), event'.dev = Lower
  PROVE  Tree' /\ (shown # Junk => shown' # Junk)
<1> DEFINE e == event'
           t == tracks[Lower]
           u == tracks'[Lower]
           Result == Tree' /\ (shown # Junk => shown' # Junk)
<1>1. /\ KernelTypes /\ e.pc \in BOOLEAN /\ Lower \in Devices /\ scene' = scene
      /\ \A b \in Bios : bio(b).pc \in BOOLEAN
      /\ e.time \in Nat
  <2>1. KernelTypes /\ clock \in Nat
    BY DEF KernelInv, KernelTypes
  <2> QED BY <2>1, StepTicks, PacketEvents, BioTypes, DevicesAssumption
<1>2. TrackedAs(t, e)
  BY <1>1, TrackedIs DEF Tree
<1>3. /\ e.act = "name" => u = t /\ shown' = shown
      /\ e.act # "name" => u = Tracked(t, e) /\ shown' \in Times(t, e)
  BY <1>1, TrackStep
<1>4. /\ \A l \in Fs(Requests) : StartOf(l) \in DOMAIN t /\ Noticed(l, t[StartOf(l)])
      /\ Fs(Requests) = {l \in Requests : ~bio(l).pc} /\ Requests \subseteq Bios
      /\ Fs(Requests)' = {l \in Requests' : ~bio(l).pc}
  <2>1. Fs(Requests) = {l \in Requests : ~bio(l).pc} /\ Requests \subseteq Bios
    BY DEF Fs, Requests, Places
  <2>2. Fs(Requests)' = {l \in Requests' : ~bio(l).pc}
    BY <1>1 DEF Fs, bio
  <2> QED BY <2>1, <2>2 DEF Tree
<1>5. ASSUME e.act \notin {"I", "D", "C"} \/ e.pc PROVE shown # Junk => shown' # Junk
  BY <1>1, <1>3, <1>5, TimesAre DEF NoTime, Junk
<1>6. \A n : Measured(n) => n \in 1..clock' /\ n # Junk /\ e.time - n # Junk
  BY <1>1, MeasuredKept
<1>7. ASSUME ~\E b, l \in Bios : Merge(b, l) PROVE \A l \in Requests : StartOf(l)' = StartOf(l)
  BY <1>4, <1>7, RequestsStay
<1>8. ASSUME NEW b \in Bios, Allocate(b), b \notin Requests, Requests' = Requests \cup {b},
             StartOf(b)' = bio(b).sec, Move(b, "allocated"), \A l \in Requests : b \notin rq[l],
             Live(b) \/ bio(b).pc
      PROVE  Result
  <2>1. e.act = "G" /\ e.sec = bio(b).sec /\ e.pc = bio(b).pc
    BY <1>1, <1>8, Events
  <2>2. \A l \in Requests : StartOf(l)' = StartOf(l) /\ at'[l] = at[l]
    <3>1. rq' = rq
      BY <1>8 DEF Allocate, Pass
    <3>2. \A l \in Requests : StartOf(l)' = StartOf(l)
      BY <1>1, <3>1, StepTicks DEF StartOf, bio
    <3> QED BY <1>1, <1>4, <1>8, <3>2 DEF Move, KernelTypes
  <2>3. CASE bio(b).pc
    <3>1. Fs(Requests)' = Fs(Requests)
      BY <1>1, <1>4, <1>8, <2>3
    <3>2. u = t
      BY <1>1, <1>2, <1>3, <2>1, <2>3 DEF TrackedAs
    <3>3. Tree'
      BY <1>4, <2>2, <3>1, <3>2, TreeStays
    <3> QED BY <1>5, <2>1, <3>3
  <2>4. CASE ~bio(b).pc
    <3>1. u = [find_track(t, e) EXCEPT ![e.sec].alloc = e.time]
      BY <1>1, <1>2, <1>3, <2>1, <2>4 DEF TrackedAs
    <3>2. at'[b] = "allocated" /\ Live(b)
      BY <1>1, <1>8, <2>4 DEF Move, KernelTypes
    <3>3. Tree'
      BY <1>8, <2>1, <2>2, <2>4, <3>1, <3>2, TreeGrows
    <3> QED BY <1>5, <2>1, <3>3
  <2> QED BY <2>3, <2>4
<1>9. ASSUME NEW b \in Requests, Insert(b) \/ Issue(b) \/ Requeue(b), Requests' = Requests,
             Insert(b) => StartOf(b) = bio(b).sec
      PROVE  Result
  <2>1. /\ rq' = rq /\ e.sec = StartOf(b) /\ e.pc = bio(b).pc
        /\ \/ Insert(b) /\ e.act = "I" /\ at[b] = "allocated" /\ at' = [at EXCEPT ![b] = "waiting"]
           \/ Issue(b) /\ e.act = "D" /\ at[b] = "waiting" /\ at' = [at EXCEPT ![b] = "issued"]
           \/ Requeue(b) /\ e.act = "R" /\ at[b] = "issued" /\ at' = [at EXCEPT ![b] = "waiting"]
    BY <1>1, <1>4, <1>9, Events DEF Insert, Issue, Requeue, Pass, Move
  <2>2. /\ \A l \in Requests : StartOf(l)' = StartOf(l) /\ (l # b => at'[l] = at[l])
        /\ at \in [Bios -> Stations]
    <3>1. \A l \in Requests : StartOf(l)' = StartOf(l)
      BY <1>1, <2>1, StepTicks DEF StartOf, bio
    <3> QED BY <1>1, <1>4, <2>1, <3>1 DEF KernelTypes
  <2>3. Fs(Requests)' = Fs(Requests)
    BY <1>4, <1>9
  <2>4. CASE bio(b).pc
    <3>1. u = t
      BY <1>1, <1>2, <1>3, <2>1, <2>4 DEF TrackedAs
    <3>2. \A l \in Fs(Requests) : l # b
      BY <1>4, <2>4
    <3>3. Tree'
      BY <1>4, <2>2, <2>3, <3>1, <3>2, TreeStays
    <3> QED BY <1>5, <2>1, <2>4, <3>3
  <2>5. CASE ~bio(b).pc /\ Requeue(b)
    <3>0. e.act = "R" /\ at[b] = "issued" /\ at' = [at EXCEPT ![b] = "waiting"]
      BY <1>1, <1>4, <2>1, <2>5, Events
    <3>1. u = t
      BY <1>1, <1>2, <1>3, <3>0 DEF TrackedAs
    <3>2. at'[b] = "waiting"
      BY <1>4, <2>2, <3>0
    <3>3. Tree'
      BY <1>4, <2>2, <2>3, <3>0, <3>1, <3>2, TreeStays
    <3> QED BY <1>5, <3>0, <3>3
  <2>6. CASE ~bio(b).pc /\ Insert(b)
    <3>0. e.act = "I" /\ at[b] = "allocated" /\ at' = [at EXCEPT ![b] = "waiting"]
      BY <1>1, <1>4, <2>1, <2>6, Events
    <3>1. b \in Fs(Requests) /\ e.sec \in DOMAIN t /\ Measured(t[e.sec].alloc)
      BY <1>4, <2>1, <2>6 DEF Noticed
    <3>2. DOMAIN find_track(t, e) = DOMAIN t /\ \A s \in DOMAIN t : find_track(t, e)[s] = t[s]
      BY <3>1 DEF find_track, Entered
    <3>3. u = [find_track(t, e) EXCEPT ![e.sec].queue = e.time]
      BY <1>1, <1>2, <1>3, <2>1, <2>6, <3>0, <3>2 DEF TrackedAs
    <3>4. at'[b] = "waiting"
      BY <1>4, <2>2, <3>0
    <3>5. Tree'
      <4>1. u = [find_track(t, e) EXCEPT ![StartOf(b)] = [@ EXCEPT !["queue"] = event'.time]]
        BY <2>1, <3>3
      <4> QED BY <1>9, <2>2, <3>0, <3>1, <3>2, <3>4, <4>1, TreeSet DEF IoFields
    <3>6. shown' # Junk
      BY <1>1, <1>3, <1>6, <2>1, <2>6, <3>0, <3>1, TimesAre
    <3> QED BY <3>5, <3>6
  <2>7. CASE ~bio(b).pc /\ Issue(b)
    <3>0. e.act = "D" /\ at[b] = "waiting" /\ at' = [at EXCEPT ![b] = "issued"]
      BY <1>1, <1>4, <2>1, <2>7, Events
    <3>1. b \in Fs(Requests) /\ e.sec \in DOMAIN t /\ Measured(t[e.sec].queue)
      BY <1>4, <2>1, <2>7, <3>0 DEF Noticed
    <3>3. u = [t EXCEPT ![e.sec].dispatch = e.time]
      BY <1>1, <1>2, <1>3, <2>1, <2>7, <3>0, <3>1 DEF TrackedAs
    <3>4. at'[b] = "issued"
      BY <1>4, <2>2, <3>0
    <3>5. Tree'
      <4>1. u = [t EXCEPT ![StartOf(b)] = [@ EXCEPT !["dispatch"] = event'.time]]
        BY <2>1, <3>3
      <4> QED BY <1>9, <2>2, <3>0, <3>1, <3>4, <4>1, TreeSet DEF IoFields
    <3>6. shown' # Junk
      BY <1>1, <1>3, <1>6, <2>1, <2>7, <3>0, <3>1, TimesAre
    <3> QED BY <3>5, <3>6
  <2> QED BY <1>1, <1>4, <1>9, <2>4, <2>5, <2>6, <2>7
<1>10. ASSUME NEW b \in Bios, NEW l \in Requests, Merge(b, l), Requests' = Requests, ~bio(b).pc, ~bio(l).pc,
              \A m \in Requests : b \notin rq[m] /\ at'[m] = at[m]
       PROVE  Result
  <2>1. /\ e.sec = bio(b).sec /\ e.len = bio(b).len /\ e.pc = bio(b).pc
        /\ \/ e.act = "M" /\ StartOf(l) + SizeOf(l) = bio(b).sec
           \/ e.act = "F" /\ EndOf(b) = StartOf(l)
    BY <1>1, <1>4, <1>10, Events
  <2>2. \A m \in Requests : m # l => StartOf(m)' = StartOf(m)
    <3>1. \A m \in Requests : m # l => rq'[m] = rq[m]
      BY <1>4, <1>10 DEF Merge
    <3> QED BY <1>1, <3>1, StepTicks DEF StartOf, bio
  <2>3. Fs(Requests)' = Fs(Requests) /\ l \in Fs(Requests)
    BY <1>4, <1>10
  <2>4. CASE e.act = "M" /\ StartOf(l) + SizeOf(l) = bio(b).sec
    <3>1. StartOf(l)' = StartOf(l)
      BY <1>4, <1>10, <2>4, MergeStart
    <3>2. u = t
      BY <1>1, <1>2, <1>3, <2>4 DEF TrackedAs
    <3>3. Tree'
      BY <1>4, <1>10, <2>2, <2>3, <3>1, <3>2, TreeStays
    <3> QED BY <1>5, <2>4, <3>3
  <2>5. CASE e.act = "F" /\ EndOf(b) = StartOf(l)
    <3>1. StartOf(l)' = bio(b).sec
      BY <1>4, <1>10, <2>5, MergeStart
    <3>2. u = log_track_frontmerge(t, e)
      BY <1>1, <1>2, <1>3, <1>10, <2>1, <2>5 DEF TrackedAs
    <3>3. Live(b)
      BY <1>10 DEF Merge, Live
    <3>4. Tree'
      BY <1>10, <2>1, <2>2, <2>3, <2>5, <3>1, <3>2, <3>3, TreeMoves
    <3> QED BY <1>5, <2>5, <3>4
  <2> QED BY <2>1, <2>4, <2>5
<1>11. ASSUME NEW l \in Requests, Complete(l), Requests' = Requests \ {l}, \A m \in Requests' : at'[m] = at[m]
       PROVE  Result
  <2>1. e.sec = StartOf(l) /\ e.pc = bio(l).pc /\ e.act = "C" /\ at[l] = "issued"
    BY <1>1, <1>4, <1>11, Events DEF Complete
  <2>2. \A m \in Requests : StartOf(m)' = StartOf(m)
    <3>1. rq' = rq
      BY <1>11 DEF Complete
    <3> QED BY <1>1, <3>1, StepTicks DEF StartOf, bio
  <2>3. CASE bio(l).pc
    <3>1. Fs(Requests)' = Fs(Requests)
      BY <1>4, <1>11, <2>3
    <3>2. u = t
      BY <1>1, <1>2, <1>3, <2>1, <2>3 DEF TrackedAs
    <3>3. \A m \in Fs(Requests) : m \in Requests'
      BY <1>4, <3>1
    <3>4. Tree'
      BY <1>4, <1>11, <2>2, <3>1, <3>2, <3>3, TreeStays
    <3> QED BY <1>5, <2>1, <2>3, <3>4
  <2>4. CASE ~bio(l).pc
    <3>1. l \in Fs(Requests) /\ e.sec \in DOMAIN t /\ Measured(t[e.sec].dispatch)
      BY <1>4, <2>1, <2>4 DEF Noticed
    <3>2. u = Drop(t, StartOf(l))
      BY <1>1, <1>2, <1>3, <2>1, <2>4 DEF TrackedAs
    <3>3. Tree'
      BY <1>11, <2>2, <3>1, <3>2, TreeDrops
    <3>4. shown' # Junk
      BY <1>1, <1>3, <1>6, <2>1, <2>4, <3>1, TimesAre
    <3> QED BY <3>3, <3>4
  <2> QED BY <2>3, <2>4
<1>12. ASSUME Requests' = Requests, \A l \in Requests : at'[l] = at[l],
              \/ event'.act \notin {"G", "I", "M", "F", "D", "R", "C"}
              \/ event'.act = "C" /\ event'.dev = Mapped
       PROVE  Result
  <2>1. e.act \in {"name", "Q", "A", "S", "P", "U", "T"}
    BY <1>12, PacketEvents, DevicesAssumption
  <2>2. u = t
    <3>1. ~is_remapper(e.dev)
      BY DevicesAssumption DEF is_remapper
    <3> QED BY <1>1, <1>2, <1>3, <2>1, <3>1 DEF TrackedAs
  <2>3. ~\E b, l \in Bios : Merge(b, l)
    BY <1>1, <2>1, Events
  <2>4. Fs(Requests)' = Fs(Requests)
    BY <1>4, <1>12
  <2>5. Tree'
    BY <1>4, <1>7, <1>12, <2>2, <2>3, <2>4, TreeStays
  <2> QED BY <1>5, <2>1, <2>5
<1> HIDE DEF Result
<1>13. Result
  BY <1>8, <1>9, <1>10, <1>11, <1>12, RequestMoves
<1> QED BY <1>13 DEF Result

LEMMA MappedTreeKept ==
  ASSUME KernelInv, MappedTree, DOMAIN tracks = Devices, KernelStep, IoTrackStep(event'), event'.dev = Mapped
  PROVE  MappedTree' /\ (shown # Junk => shown' # Junk)
<1> DEFINE e == event'
           t == tracks[Mapped]
           u == tracks'[Mapped]
<1>1. /\ KernelTypes /\ e.pc = FALSE /\ e.pc \in BOOLEAN /\ Mapped \in Devices /\ e.act \in {"Q", "C"}
      /\ u = Tracked(t, e) /\ shown' \in Times(t, e)
  <2>1. KernelTypes /\ e.pc = FALSE /\ e.pc \in BOOLEAN /\ Mapped \in Devices /\ e.act \in {"Q", "C"}
    BY PacketEvents, DevicesAssumption DEF KernelInv
  <2> QED BY <2>1, TrackStep
<1>2. TrackedAs(t, e)
  BY <1>1, TrackedIs DEF MappedTree
<1>3. \A n : Measured(n) => n \in 1..clock' /\ n # Junk /\ e.time - n # Junk
  BY <1>1, MeasuredKept
<1>4. e.time \in 1..clock'
  BY <1>1, MeasuredKept
<1>5. CASE e.act = "Q"
  <2>1. u = [find_track(t, e) EXCEPT ![e.sec].dispatch = e.time]
    BY <1>1, <1>2, <1>5 DEF TrackedAs, is_remapper
  <2>2. /\ DOMAIN find_track(t, e) = DOMAIN t \cup {e.sec}
        /\ \A s \in DOMAIN t : find_track(t, e)[s] = t[s]
        /\ DOMAIN find_track(t, e)[e.sec] = IoFields
    BY DEF find_track, Entered, MappedTree, IoFields
  <2>3. /\ DOMAIN u = DOMAIN t \cup {e.sec} /\ \A s \in DOMAIN t \ {e.sec} : u[s] = t[s]
        /\ DOMAIN u[e.sec] = IoFields /\ u[e.sec].dispatch = e.time
    BY <2>1, <2>2 DEF IoFields
  <2>4. \A s \in DOMAIN u : DOMAIN u[s] = IoFields /\ u[s].dispatch \in 1..clock'
    BY <1>3, <1>4, <2>3 DEF MappedTree
  <2>5. shown' # Junk
    BY <1>1, <1>5, TimesAre DEF NoTime, Junk
  <2> QED BY <2>4, <2>5 DEF MappedTree, Measured
<1>6. CASE e.act = "C"
  <2>1. u = Drop(t, e.sec)
    BY <1>1, <1>2, <1>6 DEF TrackedAs
  <2>2. \A s \in DOMAIN u : s \in DOMAIN t /\ u[s] = t[s]
    BY <2>1 DEF Drop
  <2>3. \A s \in DOMAIN u : DOMAIN u[s] = IoFields /\ u[s].dispatch \in 1..clock'
    BY <1>3, <2>2 DEF MappedTree
  <2>4. shown' # Junk
    <3>1. CASE e.sec \in DOMAIN t
      <4>1. Measured(t[e.sec].dispatch)
        BY <3>1 DEF MappedTree
      <4> QED BY <1>1, <1>3, <1>6, <3>1, <4>1, TimesAre
    <3>2. CASE e.sec \notin DOMAIN t
      BY <1>1, <1>6, <3>2, TimesAre DEF NoTime, Junk
    <3> QED BY <3>1, <3>2
  <2> QED BY <2>3, <2>4 DEF MappedTree, Measured
<1> QED BY <1>1, <1>5, <1>6

(* From a trace without losses, the tree blkparse keeps of a device has an   *)
(* entry for each request in flight, at the sector where it starts now.     *)
THEOREM TrackSound == Spec /\ []Separate => []TrackInv
<1>1. Init => TrackInv
  <2> SUFFICES ASSUME Init PROVE TrackInv
    OBVIOUS
  <2>1. Requests = {}
    BY DEF Init, KernelInit, Requests, Places
  <2>2. lost = 0 /\ shown = NoTime /\ tracks = [d \in Devices |-> NoTracks]
    BY DEF Init, IoTrackInit
  <2>3. DOMAIN tracks[Lower] = {} /\ DOMAIN tracks[Mapped] = {}
    BY <2>2, DevicesAssumption DEF NoTracks
  <2> QED BY <2>1, <2>2, <2>3 DEF TrackInv, Tracking, Tree, MappedTree, Fs, NoTime, Junk
<1>2. KernelInv /\ Separate /\ TrackInv /\ [Next]_analysers => TrackInv'
  <2> SUFFICES ASSUME KernelInv, Separate, TrackInv, [Next]_analysers PROVE TrackInv'
    OBVIOUS
  <2>0. lost \in Nat /\ DOMAIN tracks = Devices /\ (lost = 0 => Tracking)
    BY DEF TrackInv
  <2>1. CASE UNCHANGED analysers
    <3>1. UNCHANGED <<scene, at, rq, clock, tracks, shown, lost>>
      BY <2>1 DEF analysers, kernel, iotrack
    <3>2. Fs(Requests)' = Fs(Requests)
      BY <3>1 DEF Fs, Requests, Places, Bios, bio
    <3>3. \A l : StartOf(l)' = StartOf(l)
      BY <3>1 DEF StartOf, bio
    <3>4. Tree' = Tree
      BY <3>1, <3>2, <3>3 DEF Tree, Noticed, Measured
    <3>5. MappedTree' = MappedTree
      BY <3>1 DEF MappedTree, Measured
    <3> QED BY <2>0, <3>1, <3>4, <3>5 DEF TrackInv, Tracking
  <2>2. CASE Traced
    <3>0. KernelStep /\ IoTrackStep(event') /\ lost' = lost /\ KernelTypes
      BY <2>2 DEF Traced, KernelInv
    <3>1. event'.dev \in {Lower, Mapped} /\ event'.dev \in Devices /\ Lower # Mapped /\ {Lower, Mapped} \subseteq Devices
      BY <3>0, EventDevice, DevicesAssumption
    <3>2. DOMAIN tracks' = Devices /\ \A d \in Devices \ {event'.dev} : tracks'[d] = tracks[d]
      BY <2>0, <3>0, <3>1, TrackStep
    <3>3. ASSUME lost = 0 PROVE Tracking'
      <4>0. Tree /\ MappedTree /\ shown # Junk
        BY <2>0, <3>3 DEF Tracking
      <4>1. CASE event'.dev = Lower
        <5>1. Tree' /\ shown' # Junk
          BY <2>0, <3>0, <4>0, <4>1, TreeKept
        <5>2. tracks'[Mapped] = tracks[Mapped]
          BY <3>1, <3>2, <4>1
        <5>3. MappedTree'
          BY <3>0, <4>0, <5>2, MeasuredKept DEF MappedTree, Measured
        <5> QED BY <5>1, <5>3 DEF Tracking
      <4>2. CASE event'.dev = Mapped
        <5>1. MappedTree' /\ shown' # Junk
          BY <2>0, <3>0, <4>0, <4>2, MappedTreeKept
        <5>2. tracks'[Lower] = tracks[Lower]
          BY <3>1, <3>2, <4>2
        <5>3. Requests' = Requests /\ \A l \in Requests : at'[l] = at[l]
          <6>1. event'.act \in {"Q", "C"}
            BY <3>0, <4>2, PacketEvents
          <6>2. ~\E b \in Bios : Allocate(b) \/ Insert(b) \/ Issue(b) \/ Requeue(b) \/ Complete(b)
            BY <3>0, <3>1, <4>2, Events
          <6>3. ~\E b, l \in Bios : Merge(b, l)
            BY <3>0, <3>1, <4>2, Events
          <6>4. Requests \subseteq Bios
            BY DEF Requests, Places
          <6> QED BY <3>0, <6>2, <6>3, <6>4, RequestMoves
        <5>4. Fs(Requests)' = Fs(Requests) /\ Fs(Requests) \subseteq Requests
          BY <3>0, <5>3, StepTicks DEF Fs, bio
        <5>5. \A l \in Requests : StartOf(l)' = StartOf(l)
          <6>1. ~\E b, l \in Bios : Merge(b, l)
            BY <3>0, <3>1, <4>2, Events
          <6> QED BY <3>0, <6>1, RequestsStay DEF Requests, Places
        <5>6. Tree'
          BY <3>0, <4>0, <5>2, <5>3, <5>4, <5>5, TreeStays
        <5> QED BY <5>1, <5>6 DEF Tracking
      <4> QED BY <3>1, <4>1, <4>2
    <3> QED BY <2>0, <3>0, <3>2, <3>3 DEF TrackInv
  <2>3. CASE Lose
    BY <2>0, <2>3 DEF Lose, iotrack, TrackInv
  <2>4. CASE Ended
    BY <2>1, <2>4 DEF Ended
  <2> QED BY <2>1, <2>2, <2>3, <2>4 DEF Next
<1> QED BY <1>1, <1>2, KernelSound, PTL DEF Spec

-----------------------------------------------------------------------------
(* btt: what an event does to its device.                                   *)

Counted == {"culling", "qs", "n_act_q", "na"}
Shaped(dip) == DOMAIN dip = DipFields
(* Two devices alike in what is counted.                                     *)
SameCounts(dip, old) == \A f \in Counted : dip[f] = old[f]

LEMMA FieldNames ==
  /\ Counted \subseteq DipFields /\ {"stats", "all_stats", "end", "lives"} \subseteq DipFields
  /\ \A time : Shaped(NoDip(time)) /\ SameCounts(NoDip(time), NoDip(0))
  /\ NoDip(0).qs = {} /\ NoDip(0).n_act_q = 0 /\ NoDip(0).na = 0 /\ NoDip(0).culling = TRUE
BY DEF Counted, DipFields, Shaped, SameCounts, NoDip

LEMMA CheckedSame ==
  ASSUME DipTypes, NEW e
  PROVE  /\ DOMAIN Checked(e) = DOMAIN dips
         /\ \A d \in DOMAIN dips : Shaped(Checked(e)[d]) /\ SameCounts(Checked(e)[d], dips[d])
<1>1. DOMAIN Checked(e) = DOMAIN dips
  BY DEF Checked
<1>2. ASSUME NEW d \in DOMAIN dips PROVE Shaped(Checked(e)[d]) /\ SameCounts(Checked(e)[d], dips[d])
  <2>1. DOMAIN dips[d] = DipFields
    BY DEF DipTypes
  <2>2. \E x, y : Checked(e)[d] = [dips[d] EXCEPT !.stats = x, !.all_stats = y] \/ Checked(e)[d] = dips[d]
    BY DEF Checked
  <2>3. PICK x, y : Checked(e)[d] = [dips[d] EXCEPT !.stats = x, !.all_stats = y] \/ Checked(e)[d] = dips[d]
    BY <2>2
  <2> QED BY <2>1, <2>3, FieldNames DEF Shaped, SameCounts, Counted
<1> QED BY <1>1, <1>2

LEMMA OpenedSame ==
  ASSUME DipTypes, NEW e
  PROVE  /\ Shaped(DipOf(e)) /\ SameCounts(DipOf(e), Dip(e.dev))
         /\ Culled(e) <=> Dip(e.dev).culling /\ e.act \notin {"Q", "A"}
         /\ Shaped(Opened(e)) /\ Opened(e).culling = Culled(e)
         /\ Opened(e).qs = Dip(e.dev).qs /\ Opened(e).n_act_q = Dip(e.dev).n_act_q /\ Opened(e).na = Dip(e.dev).na
<1>1. Shaped(DipOf(e)) /\ SameCounts(DipOf(e), Dip(e.dev))
  BY CheckedSame, FieldNames DEF DipOf, Dip
<1>2. Culled(e) <=> Dip(e.dev).culling /\ e.act \notin {"Q", "A"}
  BY <1>1 DEF Culled, SameCounts, Counted
<1>3. Shaped(Opened(e)) /\ Opened(e).culling = Culled(e)
      /\ \A f \in Counted \ {"culling"} : Opened(e)[f] = DipOf(e)[f]
  BY <1>1, FieldNames DEF Opened, Shaped, Counted
<1> QED BY <1>1, <1>2, <1>3 DEF SameCounts, Counted

(* The device has what it is given; the others are counted as before.        *)
LEMMA DipGiven ==
  ASSUME DipTypes, NEW e, NEW dip, dips' = WithDip(e, dip)
  PROVE  /\ DOMAIN dips' = DOMAIN dips \cup {e.dev} /\ dips'[e.dev] = dip
         /\ \A d \in DOMAIN dips \ {e.dev} : Shaped(dips'[d]) /\ SameCounts(dips'[d], dips[d])
BY CheckedSame DEF WithDip, Replaced

Alike(q, p) == q.sec = p.sec /\ q.len = p.len /\ q.d = p.d
Retold(qs, old) == /\ \A q \in qs : DOMAIN q = QFields /\ \E p \in old : Alike(q, p)
                   /\ \A p \in old : \E q \in qs : Alike(q, p)

LEMMA NotedIs ==
  ASSUME NEW dip, Shaped(dip), NEW e, NEW f \in {"g", "s", "i", "m"}, \A q \in dip.qs : DOMAIN q = QFields
  PROVE  /\ Shaped(Noted(dip, e, f)) /\ Retold(Noted(dip, e, f).qs, dip.qs)
         /\ \A c \in Counted \ {"qs"} : Noted(dip, e, f)[c] = dip[c]
<1> DEFINE found == dip_find_sec(dip, e.sec)
           qs == (dip.qs \ found) \cup {[q EXCEPT ![f] = e.time] : q \in found}
<1>1. Noted(dip, e, f) = [dip EXCEPT !.qs = qs]
  BY DEF Noted
<1>2. found \subseteq dip.qs
  BY DEF dip_find_sec
<1>3. \A q \in dip.qs : Alike([q EXCEPT ![f] = e.time], q) /\ DOMAIN [q EXCEPT ![f] = e.time] = QFields /\ Alike(q, q)
  BY DEF Alike, QFields
<1>4. Retold(qs, dip.qs)
  <2>1. ASSUME NEW q \in qs PROVE DOMAIN q = QFields /\ \E p \in dip.qs : Alike(q, p)
    BY <1>2, <1>3
  <2>2. ASSUME NEW p \in dip.qs PROVE \E q \in qs : Alike(q, p)
    BY <1>2, <1>3
  <2> QED BY <2>1, <2>2 DEF Retold
<1> HIDE DEF qs
<1> QED BY <1>1, <1>4, FieldNames DEF Shaped, Counted

LEMMA StatsAre ==
  ASSUME NEW dip, Shaped(dip), NEW e, NEW qs
  PROVE  Shaped(Stats(dip, e, qs)) /\ SameCounts(Stats(dip, e, qs), dip)
<1>1. PICK x, y : Stats(dip, e, qs) = [dip EXCEPT !.stats = x, !.all_stats = y]
  BY DEF Stats
<1> QED BY <1>1, FieldNames DEF Shaped, SameCounts, Counted

(* What is known of a device, and counted, stays.                            *)
Kept(d) == (d \in DOMAIN dips' <=> d \in DOMAIN dips) /\ SameCounts(Dip(d)', Dip(d))
Becomes(d, qs, n, na) == Dip(d)'.qs = qs /\ Dip(d)'.n_act_q = n /\ Dip(d)'.na = na
DipsShaped == DOMAIN dips \subseteq Devices /\ \A d \in DOMAIN dips : Shaped(dips[d])

LEMMA GivenIs ==
  ASSUME DipTypes, NEW e, e.dev \in Devices, NEW dip, dips' = WithDip(e, dip), Shaped(dip)
  PROVE  /\ DipsShaped' /\ \A d \in Devices \ {e.dev} : Kept(d)
         /\ e.dev \in DOMAIN dips' /\ dips'[e.dev] = dip
<1>1. /\ DOMAIN dips' = DOMAIN dips \cup {e.dev} /\ dips'[e.dev] = dip
      /\ \A d \in DOMAIN dips \ {e.dev} : Shaped(dips'[d]) /\ SameCounts(dips'[d], dips[d])
  BY DipGiven
<1>2. DipsShaped'
  BY <1>1 DEF DipsShaped, DipTypes
<1>3. \A d \in Devices \ {e.dev} : Kept(d)
  BY <1>1 DEF Kept, Dip, SameCounts
<1> QED BY <1>1, <1>2, <1>3

Plugging == {"P", "U", "T"}
(* What happens to the queue and the counts of the device of an event that   *)
(* is not left out.                                                         *)
Told(d, e) ==
  LET old == Dip(d)
      found == dip_foreach(old, e)
  IN /\ e.act = "Q" => \E q : /\ DOMAIN q = QFields /\ q.sec = e.sec /\ q.len = e.len /\ q.d = None
                              /\ Becomes(d, old.qs \cup {q}, old.n_act_q + 1, old.na)
     /\ e.act \in {"G", "S", "I"} => \E qs : Retold(qs, old.qs) /\ Becomes(d, qs, old.n_act_q, old.na)
     /\ e.act \in {"M", "F"} => \E qs : Retold(qs, old.qs) /\ Becomes(d, qs, Lowered(old.n_act_q), old.na)
     /\ e.act = "R" => Becomes(d, old.qs, old.n_act_q + 1, old.na)
     /\ e.act = "D" => Becomes(d, (old.qs \ found) \cup {[q EXCEPT !.d = e.time] : q \in found},
                               Lowered(old.n_act_q), old.na + 1)
     /\ e.act = "C" => Becomes(d, old.qs \ found, old.n_act_q, Lowered(old.na))

Handled(d, e) ==
  /\ DipsShaped' /\ \A x \in Devices \ {d} : Kept(x)
  /\ e.act \in Plugging => Kept(d)
  /\ e.act = "A" => Becomes(d, Dip(d).qs, Dip(d).n_act_q, Dip(d).na) /\ (Kept(d) \/ (d \in DOMAIN dips' /\ ~Dip(d)'.culling))
  /\ e.act \notin Plugging \cup {"A"} =>
       /\ d \in DOMAIN dips' /\ Dip(d)'.culling = Culled(e)
       /\ ~Linked(e) => Becomes(d, Dip(d).qs, Dip(d).n_act_q, Dip(d).na)
       /\ Linked(e) => Told(d, e)

LEMMA HandledSo ==
  ASSUME DipTypes, NEW d \in Devices, NEW e, e.dev = d, __add_trace(e)
  PROVE  Handled(d, e)
<1> DEFINE old == Dip(d)
           o == Opened(e)
<1>1. /\ Shaped(o) /\ o.culling = Culled(e) /\ o.qs = old.qs /\ o.n_act_q = old.n_act_q /\ o.na = old.na
      /\ Shaped(DipOf(e)) /\ SameCounts(DipOf(e), old)
      /\ Culled(e) <=> old.culling /\ e.act \notin {"Q", "A"}
      /\ \A q \in old.qs : DOMAIN q = QFields
  BY OpenedSame, FieldNames DEF DipTypes, QTypes, Timely, Dip
<1>2. ASSUME NEW dip, dips' = WithDip(e, dip), Shaped(dip)
      PROVE  /\ DipsShaped' /\ \A x \in Devices \ {d} : Kept(x)
             /\ d \in DOMAIN dips' /\ Dip(d)' = dip
  BY <1>2, GivenIs DEF Dip
<1>3. NotSetUp(e) => /\ ~Linked(e) /\ DipsShaped' /\ \A x \in Devices \ {d} : Kept(x)
                     /\ d \in DOMAIN dips' /\ Dip(d)'.culling = Culled(e)
                     /\ Becomes(d, old.qs, old.n_act_q, old.na)
  BY <1>1, <1>2 DEF NotSetUp, Becomes
<1>4. ASSUME NEW dip, SetUp(e, dip), Shaped(dip), dip.culling = Culled(e), NEW qs, NEW n, NEW na,
             dip.qs = qs, dip.n_act_q = n, dip.na = na
      PROVE  /\ Linked(e) /\ DipsShaped' /\ \A x \in Devices \ {d} : Kept(x)
             /\ d \in DOMAIN dips' /\ Dip(d)'.culling = Culled(e)
             /\ Becomes(d, qs, n, na)
  BY <1>2, <1>4 DEF SetUp, Becomes
<1>5. dip_foreach(o, e) = dip_foreach(old, e)
  BY <1>1 DEF dip_foreach
<1>6. ASSUME NotSetUp(e), e.act \notin Plugging PROVE Handled(d, e)
  BY <1>1, <1>3, <1>6 DEF Handled
<1>7. CASE trace_queue(e)
  <2>1. CASE handle_queue(e)
    <3> DEFINE q == [sec |-> e.sec, len |-> e.len, time |-> e.time, pip |-> NameOf(e.pid),
                     g |-> None, s |-> None, i |-> None, m |-> None, d |-> None]
               dip == [o EXCEPT !.qs = @ \cup {q}, !.last_q = e.time, !.n_qs = @ + 1,
                                !.t_act_q = @ + o.n_act_q, !.n_act_q = @ + 1,
                                !.q2q = seeki_add(@, e.sec, e.sec + e.len),
                                !.regions.q = update_range(@, e.time)]
    <3>1. SetUp(e, dip)
      BY <2>1 DEF handle_queue
    <3>2. DOMAIN q = QFields /\ q.sec = e.sec /\ q.len = e.len /\ q.d = None
      BY DEF QFields
    <3> HIDE DEF q
    <3>3. /\ Shaped(dip) /\ dip.culling = Culled(e)
          /\ dip.qs = old.qs \cup {q} /\ dip.n_act_q = old.n_act_q + 1 /\ dip.na = old.na
      BY <1>1, FieldNames DEF Shaped, Counted
    <3> HIDE DEF dip
    <3>4. /\ Linked(e) /\ DipsShaped' /\ \A x \in Devices \ {d} : Kept(x)
          /\ d \in DOMAIN dips' /\ Dip(d)'.culling = Culled(e)
          /\ Becomes(d, old.qs \cup {q}, old.n_act_q + 1, old.na)
      BY <1>4, <3>1, <3>3
    <3>5. Told(d, e)
      BY <1>7, <3>2, <3>4 DEF Told, trace_queue
    <3> QED BY <1>7, <3>4, <3>5 DEF Handled, trace_queue, Plugging
  <2>2. CASE NotSetUp(e)
    BY <1>6, <1>7, <2>2 DEF trace_queue, Plugging
  <2> QED BY <1>7, <2>1, <2>2 DEF trace_queue
<1>8. ASSUME NEW f \in {"g", "s", "i", "m"}
      PROVE  /\ Shaped(Noted(o, e, f)) /\ Noted(o, e, f).culling = Culled(e) /\ Retold(Noted(o, e, f).qs, old.qs)
             /\ Noted(o, e, f).n_act_q = old.n_act_q /\ Noted(o, e, f).na = old.na
  <2>1. Shaped(o) /\ \A q \in o.qs : DOMAIN q = QFields
    BY <1>1
  <2> QED BY <1>1, <2>1, NotedIs DEF Counted
<1>10. ASSUME NEW dip, Shaped(dip), NEW qs
       PROVE  /\ Shaped(Stats(dip, e, qs)) /\ Stats(dip, e, qs).culling = dip.culling /\ Stats(dip, e, qs).qs = dip.qs
              /\ Stats(dip, e, qs).n_act_q = dip.n_act_q /\ Stats(dip, e, qs).na = dip.na
  BY <1>10, StatsAre DEF SameCounts, Counted
<1>11. ASSUME e.act \in {"G", "S", "I"}, NEW dip, SetUp(e, dip) \/ NotSetUp(e), Shaped(dip), dip.culling = Culled(e),
              Retold(dip.qs, old.qs), dip.n_act_q = old.n_act_q, dip.na = old.na
       PROVE  Handled(d, e)
  <2>1. CASE SetUp(e, dip)
    <3>1. /\ Linked(e) /\ DipsShaped' /\ \A x \in Devices \ {d} : Kept(x)
          /\ d \in DOMAIN dips' /\ Dip(d)'.culling = Culled(e)
          /\ Becomes(d, dip.qs, old.n_act_q, old.na)
      BY <1>4, <1>11, <2>1
    <3>2. Told(d, e)
      BY <1>11, <3>1 DEF Told
    <3> QED BY <1>11, <3>1, <3>2 DEF Handled, Plugging
  <2> QED BY <1>6, <1>11, <2>1 DEF Plugging
<1>12. CASE trace_getrq(e)
  <2> DEFINE dip == Stats(Noted(o, e, "g"), e, dip_find_sec(o, e.sec))
  <2>1. e.act = "G" /\ (SetUp(e, dip) \/ NotSetUp(e))
    BY <1>12 DEF trace_getrq, Timed
  <2>2. /\ Shaped(dip) /\ dip.culling = Culled(e) /\ Retold(dip.qs, old.qs)
        /\ dip.n_act_q = old.n_act_q /\ dip.na = old.na
    BY <1>8, <1>10
  <2> HIDE DEF dip
  <2> QED BY <1>11, <2>1, <2>2
<1>13. CASE trace_sleeprq(e)
  <2>1. e.act = "S" /\ (SetUp(e, Noted(o, e, "s")) \/ NotSetUp(e))
    BY <1>13 DEF trace_sleeprq, Timed
  <2> QED BY <1>8, <1>11, <2>1
<1>14. CASE trace_insert(e)
  <2>1. e.act = "I" /\ (SetUp(e, Noted(o, e, "i")) \/ NotSetUp(e))
    BY <1>14 DEF trace_insert, Timed
  <2> QED BY <1>8, <1>11, <2>1
<1>15. CASE trace_merge(e)
  <2> DEFINE merged == [Noted(o, e, "m") EXCEPT !.n_act_q = Lowered(@)]
             dip == Stats(merged, e, {})
  <2>1. e.act \in {"M", "F"} /\ (SetUp(e, dip) \/ NotSetUp(e))
    BY <1>15 DEF trace_merge, Timed
  <2>2. /\ Shaped(merged) /\ merged.culling = Culled(e) /\ Retold(merged.qs, old.qs)
        /\ merged.n_act_q = Lowered(old.n_act_q) /\ merged.na = old.na
    BY <1>8, FieldNames DEF Shaped, Counted
  <2> HIDE DEF merged
  <2>3. /\ Shaped(dip) /\ dip.culling = Culled(e) /\ Retold(dip.qs, old.qs)
        /\ dip.n_act_q = Lowered(old.n_act_q) /\ dip.na = old.na
    BY <1>10, <2>2
  <2> HIDE DEF dip
  <2>4. CASE SetUp(e, dip)
    <3>1. /\ Linked(e) /\ DipsShaped' /\ \A x \in Devices \ {d} : Kept(x)
          /\ d \in DOMAIN dips' /\ Dip(d)'.culling = Culled(e)
          /\ Becomes(d, dip.qs, Lowered(old.n_act_q), old.na)
      BY <1>4, <2>3, <2>4
    <3>2. Told(d, e)
      BY <2>1, <2>3, <3>1 DEF Told
    <3> QED BY <2>1, <3>1, <3>2 DEF Handled, Plugging
  <2> QED BY <1>6, <2>1, <2>4 DEF Plugging
<1>16. CASE trace_requeue(e)
  <2> DEFINE dip == [o EXCEPT !.n_qs = @ + 1, !.t_act_q = @ + o.n_act_q, !.n_act_q = @ + 1]
  <2>1. e.act = "R" /\ (SetUp(e, dip) \/ NotSetUp(e))
    BY <1>16 DEF trace_requeue, Timed
  <2>2. /\ Shaped(dip) /\ dip.culling = Culled(e) /\ dip.qs = old.qs
        /\ dip.n_act_q = old.n_act_q + 1 /\ dip.na = old.na
    BY <1>1, FieldNames DEF Shaped, Counted
  <2> HIDE DEF dip
  <2>3. CASE SetUp(e, dip)
    <3>1. /\ Linked(e) /\ DipsShaped' /\ \A x \in Devices \ {d} : Kept(x)
          /\ d \in DOMAIN dips' /\ Dip(d)'.culling = Culled(e)
          /\ Becomes(d, old.qs, old.n_act_q + 1, old.na)
      BY <1>4, <2>2, <2>3
    <3>2. Told(d, e)
      BY <2>1, <3>1 DEF Told
    <3> QED BY <2>1, <3>1, <3>2 DEF Handled, Plugging
  <2> QED BY <1>6, <2>1, <2>3 DEF Plugging
<1>17. CASE trace_remap(e)
  <2>1. e.act = "A"
    BY <1>17 DEF trace_remap
  <2>2. CASE dips' = Checked(e)
    <3>1. /\ DOMAIN dips' = DOMAIN dips
          /\ \A x \in DOMAIN dips : Shaped(dips'[x]) /\ SameCounts(dips'[x], dips[x])
      BY <2>2, CheckedSame
    <3>2. DipsShaped' /\ \A x \in Devices : Kept(x)
      BY <3>1 DEF DipsShaped, DipTypes, Kept, Dip, SameCounts
    <3>3. Becomes(d, old.qs, old.n_act_q, old.na)
      BY <3>2 DEF Kept, SameCounts, Counted, Becomes
    <3> QED BY <2>1, <3>2, <3>3 DEF Handled, Plugging
  <2>3. CASE NotSetUp(e)
    BY <1>6, <2>1, <2>3 DEF Plugging
  <2>4. CASE SetUp(e, o)
    <3>1. /\ Linked(e) /\ DipsShaped' /\ \A x \in Devices \ {d} : Kept(x)
          /\ d \in DOMAIN dips' /\ Dip(d)'.culling = Culled(e)
          /\ Becomes(d, old.qs, old.n_act_q, old.na)
      BY <1>1, <1>4, <2>4
    <3> QED BY <1>1, <2>1, <3>1 DEF Handled, Plugging
  <2> QED BY <1>17, <2>2, <2>3, <2>4 DEF trace_remap, Timed
<1>18. CASE trace_issue(e)
  <2> DEFINE found == dip_foreach(o, e)
             qs == (o.qs \ found) \cup {[q EXCEPT !.d = e.time] : q \in found}
             new == [o EXCEPT
               !.qs = (@ \ found) \cup {[q EXCEPT !.d = e.time] : q \in found},
               !.n_act_q = Lowered(@), !.n_ds = @ + 1, !.na = @ + 1,
               !.d2d = seeki_add(@, e.sec, e.sec + e.len),
               !.q2d_hist = FoldSet(LAMBDA q, h : Hit(h, q2d_histo(e.time - q.time)), @, found),
               !.q2d = FoldSet(LAMBDA q, p : plat_x2c(p, e.time, e.time - q.time), @, found)]
             dip == Stats(new, e, found)
  <2>1. e.act = "D" /\ (SetUp(e, dip) \/ NotSetUp(e))
    BY <1>18 DEF trace_issue
  <2>2. /\ Shaped(new) /\ new.culling = Culled(e) /\ new.qs = qs
        /\ new.n_act_q = Lowered(old.n_act_q) /\ new.na = old.na + 1
    <3> HIDE DEF found
    <3> QED BY <1>1, FieldNames DEF Shaped, Counted
  <2> HIDE DEF new
  <2>3. /\ Shaped(dip) /\ dip.culling = Culled(e) /\ dip.qs = qs
        /\ dip.n_act_q = Lowered(old.n_act_q) /\ dip.na = old.na + 1
    BY <1>10, <2>2
  <2> HIDE DEF dip
  <2>4. CASE SetUp(e, dip)
    <3>1. /\ Linked(e) /\ DipsShaped' /\ \A x \in Devices \ {d} : Kept(x)
          /\ d \in DOMAIN dips' /\ Dip(d)'.culling = Culled(e)
          /\ Becomes(d, qs, Lowered(old.n_act_q), old.na + 1)
      BY <1>4, <2>3, <2>4
    <3>2. Told(d, e)
      BY <1>1, <1>5, <2>1, <3>1 DEF Told
    <3> QED BY <2>1, <3>1, <3>2 DEF Handled, Plugging
  <2> QED BY <1>6, <2>1, <2>4 DEF Plugging
<1>19. CASE trace_complete(e)
  <2> DEFINE found == dip_foreach(o, e)
             sent == {q \in found : q.d # None}
             lives(l) == IF sent = {} THEN l ELSE p_live_add(l, Min({q.d : q \in sent}), e.time)
             new == [o EXCEPT
               !.qs = @ \ found, !.na = Lowered(@), !.lives = lives(@),
               !.regions.c = update_range(@, e.time),
               !.rate = rstat_add(@, e.time, e.len),
               !.q2c = FoldSet(LAMBDA q, p : plat_x2c(p, q.time, tdelta(q.time, e.time)), @, found),
               !.d2c = FoldSet(LAMBDA q, p : plat_x2c(p, e.time, tdelta(q.d, e.time)), @, sent)]
             dip == Stats(new, e, sent)
  <2>1. e.act = "C" /\ (SetUp(e, dip) \/ NotSetUp(e))
    BY <1>19 DEF trace_complete
  <2>2. /\ Shaped(new) /\ new.culling = Culled(e) /\ new.qs = o.qs \ found
        /\ new.n_act_q = old.n_act_q /\ new.na = Lowered(old.na)
    <3> HIDE DEF found, sent, lives
    <3> QED BY <1>1, FieldNames DEF Shaped, Counted
  <2> HIDE DEF new
  <2>3. /\ Shaped(dip) /\ dip.culling = Culled(e) /\ dip.qs = o.qs \ found
        /\ dip.n_act_q = old.n_act_q /\ dip.na = Lowered(old.na)
    BY <1>10, <2>2
  <2> HIDE DEF dip
  <2>4. CASE SetUp(e, dip)
    <3>1. /\ Linked(e) /\ DipsShaped' /\ \A x \in Devices \ {d} : Kept(x)
          /\ d \in DOMAIN dips' /\ Dip(d)'.culling = Culled(e)
          /\ Becomes(d, o.qs \ found, old.n_act_q, Lowered(old.na))
      BY <1>4, <2>3, <2>4
    <3>2. Told(d, e)
      BY <1>1, <1>5, <2>1, <3>1 DEF Told
    <3> QED BY <2>1, <3>1, <3>2 DEF Handled, Plugging
  <2> QED BY <1>6, <2>1, <2>4 DEF Plugging
<1>20. CASE trace_plug(e) \/ trace_unplug_io(e) \/ trace_unplug_timer(e)
  <2>1. e.act \in Plugging
    BY <1>20 DEF trace_plug, trace_unplug_io, trace_unplug_timer, Plugging
  <2>2. \E dip : Shaped(dip) /\ SameCounts(dip, DipOf(e)) /\ Replugged(e, dip)
    <3>1. CASE trace_plug(e)
      BY <1>1, <3>1, FieldNames DEF trace_plug, SameCounts, Shaped, Counted
    <3>2. CASE trace_unplug_io(e)
      BY <1>1, <3>2, FieldNames DEF trace_unplug_io, unplug, SameCounts, Shaped, Counted
    <3>3. CASE trace_unplug_timer(e)
      BY <1>1, <3>3, FieldNames DEF trace_unplug_timer, unplug, SameCounts, Shaped, Counted
    <3> QED BY <1>20, <3>1, <3>2, <3>3
  <2>3. PICK dip : Shaped(dip) /\ SameCounts(dip, DipOf(e)) /\ Replugged(e, dip)
    BY <2>2
  <2>4. DipsShaped' /\ \A x \in Devices : Kept(x)
    <3>1. CASE d \notin DOMAIN dips
      <4>1. dips' = dips
        BY <2>3, <3>1 DEF Replugged
      <4> QED BY <4>1 DEF DipsShaped, DipTypes, Shaped, Kept, Dip, SameCounts
    <3>2. CASE d \in DOMAIN dips
      <4>1. dips' = [Checked(e) EXCEPT ![d] = dip]
        BY <2>3, <3>2 DEF Replugged
      <4>2. /\ DOMAIN dips' = DOMAIN dips /\ dips'[d] = dip
            /\ \A x \in DOMAIN dips \ {d} : Shaped(dips'[x]) /\ SameCounts(dips'[x], dips[x])
        BY <3>2, <4>1, CheckedSame
      <4>3. SameCounts(dip, dips[d])
        BY <1>1, <2>3, <3>2 DEF SameCounts, Dip
      <4> QED BY <2>3, <4>2, <4>3 DEF DipsShaped, DipTypes, Kept, Dip, SameCounts
    <3> QED BY <3>1, <3>2
  <2> QED BY <2>1, <2>4 DEF Handled, Plugging
<1> QED BY <1>7, <1>12, <1>13, <1>14, <1>15, <1>16, <1>17, <1>18, <1>19, <1>20 DEF __add_trace

(* The devices are well-formed whatever is lost.                             *)
LEMMA HandledEvent ==
  ASSUME KernelInv, KernelStep, DipTypes, NEW e, e = event', NEW d \in Devices, e.dev = d, add_trace(e)
  PROVE  /\ dips' = dips \/ (e.act # "name" /\ ~e.pc /\ Handled(d, e))
         /\ e.act = "name" \/ e.pc => dips' = dips
         /\ Usual' /\ e.act # "name" /\ ~e.pc => Handled(d, e)
<1>1. e.act = "name" => dips' = dips
  BY DEF add_trace
<1>2. e.act # "name" /\ LeftOut(e) => dips' = dips
  BY DEF add_trace, btt
<1>3. e.act # "name" /\ ~LeftOut(e) => Handled(d, e)
  BY HandledSo DEF add_trace
<1>4. LeftOut(e) => e.pc \/ e.time < t_astart \/ e.time > t_aend
  BY DEF LeftOut
<1>5. e.pc => LeftOut(e)
  BY DEF LeftOut
<1>6. Usual' => (LeftOut(e) => e.pc)
  <2>1. clock \in Nat /\ e.time = clock + 1 /\ clock' = clock + 1 /\ t_astart \in Nat /\ t_aend \in Nat
    BY StepTicks, SpanAssumption DEF KernelInv, KernelTypes
  <2> QED BY <1>4, <2>1 DEF Usual
<1> QED BY <1>1, <1>2, <1>3, <1>5, <1>6

LEMMA DipTypesKept ==
  ASSUME KernelInv, KernelStep, DipTypes, NEW e, e = event', NEW d \in Devices, e.dev = d, add_trace(e)
  PROVE  DipTypes'
<1>0. clock \in Nat /\ clock' = clock + 1 /\ e.time = clock + 1
  BY StepTicks DEF KernelInv, KernelTypes
<1>1. \A qs : Timely(qs, clock) => Timely(qs, clock')
  BY <1>0 DEF Timely
<1>2. \A x \in Devices : Timely(Dip(x).qs, clock)
  BY FieldNames DEF DipTypes, QTypes, Dip, Timely
<1>3. CASE dips' = dips
  BY <1>1, <1>3 DEF DipTypes, QTypes
<1>4. CASE Handled(d, e)
  <2> DEFINE old == Dip(d).qs
             found == dip_foreach(Dip(d), e)
  <2>1. Timely(old, clock')
    BY <1>0, <1>1, <1>2
  <2>2. ASSUME NEW qs, Retold(qs, old) PROVE Timely(qs, clock')
    BY <2>1, <2>2 DEF Retold, Alike, Timely
  <2>3. ASSUME NEW q, DOMAIN q = QFields, q.d = None PROVE Timely(old \cup {q}, clock')
    BY <2>1, <2>3 DEF Timely
  <2>4. Timely((old \ found) \cup {[q EXCEPT !.d = e.time] : q \in found}, clock')
    <3>1. e.time \in 1..clock' /\ found \subseteq old
      BY <1>0 DEF dip_foreach
    <3>2. ASSUME NEW q \in found
          PROVE  DOMAIN [q EXCEPT !.d = e.time] = QFields /\ [q EXCEPT !.d = e.time].d = e.time
      BY <2>1, <3>1 DEF Timely, QFields
    <3> HIDE DEF found
    <3> QED BY <2>1, <3>1, <3>2 DEF Timely
  <2>5. Timely(old \ found, clock')
    BY <2>1 DEF Timely
  <2>6. ASSUME Told(d, e), e.act \in {"Q", "G", "S", "I", "M", "F", "R", "D", "C"}
        PROVE  Timely(Dip(d)'.qs, clock')
    <3>1. CASE e.act = "Q"
      BY <2>3, <2>6, <3>1 DEF Told, Becomes
    <3>2. CASE e.act \in {"G", "S", "I"}
      BY <2>2, <2>6, <3>2 DEF Told, Becomes
    <3>3. CASE e.act \in {"M", "F"}
      BY <2>2, <2>6, <3>3 DEF Told, Becomes
    <3>4. CASE e.act = "R"
      BY <2>1, <2>6, <3>4 DEF Told, Becomes
    <3>5. CASE e.act = "D"
      BY <2>4, <2>6, <3>5 DEF Told, Becomes
    <3>6. CASE e.act = "C"
      BY <2>5, <2>6, <3>6 DEF Told, Becomes
    <3> QED BY <2>6, <3>1, <3>2, <3>3, <3>4, <3>5, <3>6
  <2>7. /\ e.act \in {"name", "A"} \cup Plugging \/ e.act \in {"Q", "G", "S", "I", "M", "F", "R", "D", "C"}
        /\ e.dev \in {Lower, Mapped}
    BY PacketEvents, EventDevice DEF KernelInv, Plugging
  <2>8. Dip(d)'.qs = old => Timely(Dip(d)'.qs, clock')
    BY <2>1
  <2>9. ASSUME e.act # "name" PROVE Timely(Dip(d)'.qs, clock')
    <3>1. CASE e.act \in Plugging
      BY <1>4, <2>8, <3>1 DEF Handled, Kept, SameCounts, Counted
    <3>2. CASE e.act = "A"
      BY <1>4, <2>8, <3>2 DEF Handled, Becomes
    <3>3. CASE e.act \notin Plugging \cup {"A"}
      <4>1. CASE Linked(e)
        BY <1>4, <2>6, <2>7, <2>9, <3>3, <4>1 DEF Handled
      <4>2. CASE ~Linked(e)
        BY <1>4, <2>8, <3>3, <4>2 DEF Handled, Becomes
      <4> QED BY <4>1, <4>2
    <3> QED BY <3>1, <3>2, <3>3
  <2>10. ASSUME NEW x \in Devices, x # d PROVE Timely(Dip(x)'.qs, clock')
    <3>1. Dip(x)'.qs = Dip(x).qs
      BY <1>4, <2>10 DEF Handled, Kept, SameCounts, Counted
    <3> QED BY <1>1, <1>2, <3>1
  <2>11. CASE e.act = "name"
    BY <1>3, <2>11, HandledEvent
  <2>12. CASE e.act # "name"
    <3>1. \A x \in Devices : Timely(Dip(x)'.qs, clock')
      <4> QED BY <2>9, <2>10, <2>12
    <3>2. DipsShaped'
      BY <1>4 DEF Handled
    <3> QED BY <3>1, <3>2 DEF DipTypes, DipsShaped, Shaped, QTypes, Dip
  <2> QED BY <2>11, <2>12
<1> QED BY <1>3, <1>4, HandledEvent

-----------------------------------------------------------------------------
(* What the kernel does to the I/Os that btt has queued.                     *)

DiskSame == UNCHANGED <<OnDisk, Waiting, In("issued"), left.requeues>>
Arrives(b) == /\ b \notin OnDisk /\ Live(b)' /\ OnDisk' = OnDisk \cup {b}
              /\ b \notin Waiting /\ Waiting' = Waiting \cup {b}
              /\ UNCHANGED <<In("issued"), left.requeues>>
Joins(b) == /\ b \in OnDisk /\ OnDisk' = OnDisk
            /\ b \in Waiting /\ Waiting' = Waiting \ {b}
            /\ UNCHANGED <<In("issued"), left.requeues>>
Leaves(l) == /\ l \in OnDisk /\ OnDisk' = OnDisk /\ l \in Fs(Requests)
             /\ l \in Waiting /\ Waiting' = Waiting \ {l}
             /\ l \notin In("issued") /\ In("issued")' = In("issued") \cup {l}
             /\ rq'[l] = rq[l] /\ issued'[l] = clock + 1 /\ left'.requeues = left.requeues
Returns(l) == /\ l \in OnDisk /\ OnDisk' = OnDisk
              /\ l \notin Waiting /\ Waiting' = Waiting \cup {l}
              /\ l \in In("issued") /\ In("issued")' = In("issued") \ {l}
              /\ left.requeues > 0 /\ left'.requeues = left.requeues - 1
Departs(l) == /\ l \in OnDisk /\ OnDisk' = OnDisk \ rq[l] /\ l \in Fs(Requests)
              /\ Waiting' = Waiting
              /\ l \in In("issued") /\ In("issued")' = In("issued") \ {l}
              /\ left'.requeues = left.requeues

Concerns(e, b) == e.sec = bio(b).sec /\ e.len = bio(b).len
OfRequest(e, l) == e.sec = StartOf(l) /\ e.len = SizeOf(l)

DiskMoves(e) ==
  \/ e.act \in Plugging \cup {"A"} /\ DiskSame
  \/ e.act = "Q" /\ \E b \in Bios : Concerns(e, b) /\ Arrives(b)
  \/ e.act \in {"G", "S", "I"} /\ OnDisk # {} /\ DiskSame
  \/ e.act \in {"M", "F"} /\ \E b \in Bios : Joins(b)
  \/ e.act = "D" /\ \E l \in Bios : OfRequest(e, l) /\ Leaves(l)
  \/ e.act = "R" /\ \E l \in Bios : Returns(l)
  \/ e.act = "C" /\ \E l \in Bios : OfRequest(e, l) /\ Departs(l)

MappedMoves(e) ==
  \/ e.act = "Q" /\ \E b \in Bios \ OnMapped : Concerns(e, b) /\ Live(b)' /\ OnMapped' = OnMapped \cup {b}
  \/ e.act = "C" /\ \E b \in OnMapped : Concerns(e, b) /\ OnMapped' = OnMapped \ {b}

IssuesKept == \A m \in In("issued") \cap In("issued")' : rq'[m] = rq[m] /\ issued'[m] = issued[m]

LEMMA Moves ==
  ASSUME KernelInv, KernelStep, NEW e, e = event'
  PROVE  /\ e.act # "name" /\ ~e.pc /\ e.dev = Lower => DiskMoves(e)
         /\ e.dev = Mapped => MappedMoves(e)
         /\ e.act = "name" \/ e.dev = Mapped => DiskSame
         /\ e.pc => OnDisk' = OnDisk /\ Fs(In("issued"))' = Fs(In("issued")) /\ ~NoPackets
         /\ e.dev = Lower => OnMapped' = OnMapped
         /\ IssuesKept
<1> DEFINE P == /\ e.act # "name" /\ ~e.pc /\ e.dev = Lower => DiskMoves(e)
                /\ e.dev = Mapped => MappedMoves(e)
                /\ e.act = "name" \/ e.dev = Mapped => DiskSame
                /\ e.pc => OnDisk' = OnDisk /\ Fs(In("issued"))' = Fs(In("issued")) /\ ~NoPackets
                /\ e.dev = Lower => OnMapped' = OnMapped
                /\ IssuesKept
<1>0. /\ KernelTypes /\ at \in [Bios -> Stations] /\ rq \in [Bios -> SUBSET Bios]
      /\ issued \in [Bios -> Nat] /\ scene' = scene /\ Bios' = Bios
      /\ \A b \in Bios : AtStation(b) /\ ~(bio(b).mapped /\ bio(b).pc) /\ bio(b)' = bio(b)
      /\ \A b \in Bios : bio(b).pc \in BOOLEAN /\ bio(b).mapped \in BOOLEAN
      /\ Lower # Mapped
  BY StepTicks, SceneTypes, BioTypes, DevicesAssumption DEF KernelInv, KernelTypes, Placed, Bios, bio
<1>1. ASSUME UNCHANGED <<at, rq, issued, left.requeues>> PROVE DiskSame /\ OnMapped' = OnMapped /\ IssuesKept
                                       /\ Fs(In("issued"))' = Fs(In("issued"))
  BY <1>0, <1>1 DEF DiskSame, OnDisk, OnMapped, Waiting, Places, In, Live, IssuesKept, Fs
<1>2. ASSUME NEW p \in Pids, NEW n \in Names, Announce(p, n) PROVE P
  <2>1. e.act = "name" /\ e.dev = Lower /\ ~e.pc /\ UNCHANGED <<at, rq, issued, left>>
    BY <1>2 DEF Announce, NoEvent
  <2> QED BY <1>0, <1>1, <2>1
<1>3. CASE Plug \/ Unplug
  <2>1. e.act \in Plugging /\ e.dev = Lower /\ ~e.pc /\ UNCHANGED <<at, rq, issued>>
    BY <1>3 DEF Plug, Unplug, Emit, NoEvent, Plugging
  <2>2. left'.requeues = left.requeues
    BY <1>0, <1>3 DEF Plug, Unplug, KernelTypes
  <2> QED BY <1>0, <1>1, <2>1, <2>2 DEF DiskMoves, Plugging
<1>4. ASSUME NEW b \in Bios, NEW place \in Stations, at' = [at EXCEPT ![b] = place]
      PROVE  /\ bio(b).pc \/ (at[b] \in {"queued", "asleep", "allocated", "waiting", "merged", "issued"}
                      <=> place \in {"queued", "asleep", "allocated", "waiting", "merged", "issued"})
                  => OnDisk' = OnDisk
             /\ ~bio(b).mapped \/ (at[b] \notin {"new", "done"} /\ place \notin {"new", "done"}) => OnMapped' = OnMapped
  <2>1. \A c \in Bios : at'[c] = IF c = b THEN place ELSE at[c]
    BY <1>0, <1>4
  <2>2. bio(b).pc \/ (at[b] \in {"queued", "asleep", "allocated", "waiting", "merged", "issued"}
                      <=> place \in {"queued", "asleep", "allocated", "waiting", "merged", "issued"})
                  => OnDisk' = OnDisk
    BY <1>0, <2>1 DEF OnDisk
  <2>3. ~bio(b).mapped \/ (at[b] \notin {"new", "done"} /\ place \notin {"new", "done"}) => OnMapped' = OnMapped
    BY <1>0, <2>1 DEF OnMapped, Live
  <2> QED BY <2>2, <2>3
<1>6. ASSUME NEW b \in Bios, NEW place \in Stations, at' = [at EXCEPT ![b] = place]
      PROVE  /\ at[b] # "issued" /\ place # "issued" => In("issued")' = In("issued")
             /\ at[b] # "issued" /\ place = "issued" => b \notin In("issued") /\ In("issued")' = In("issued") \cup {b}
             /\ at[b] = "issued" /\ place # "issued" => b \in In("issued") /\ In("issued")' = In("issued") \ {b}
             /\ (at[b] \in {"queued", "asleep", "allocated", "waiting"} <=> b \in Waiting)
             /\ place \in {"queued", "asleep", "allocated", "waiting"} => Waiting' = Waiting \cup {b}
             /\ place \notin {"queued", "asleep", "allocated", "waiting"} => Waiting' = Waiting \ {b}
             /\ (place \in {"queued", "asleep", "allocated", "waiting"} <=> at[b] \in {"queued", "asleep", "allocated", "waiting"}) => Waiting' = Waiting
             /\ bio(b).pc => Fs(In("issued"))' = Fs(In("issued")) /\ ~NoPackets
  <2>1. at' \in [Bios -> Stations] /\ \A c \in Bios : at'[c] = IF c = b THEN place ELSE at[c]
    BY <1>0, <1>6
  <2>2. bio(b).pc => Fs(In("issued"))' = Fs(In("issued")) /\ ~NoPackets
    BY <1>0, <2>1 DEF Fs, In, NoPackets
  <2>3. /\ (at[b] \in {"queued", "asleep", "allocated", "waiting"} <=> b \in Waiting)
        /\ place \in {"queued", "asleep", "allocated", "waiting"} => Waiting' = Waiting \cup {b}
        /\ place \notin {"queued", "asleep", "allocated", "waiting"} => Waiting' = Waiting \ {b}
    BY <1>0, <2>1 DEF Waiting, Places
  <2>4. /\ at[b] # "issued" /\ place # "issued" => In("issued")' = In("issued")
        /\ at[b] # "issued" /\ place = "issued" => b \notin In("issued") /\ In("issued")' = In("issued") \cup {b}
        /\ at[b] = "issued" /\ place # "issued" => b \in In("issued") /\ In("issued")' = In("issued") \ {b}
    BY <1>0, <2>1 DEF In
  <2>5. (place \in {"queued", "asleep", "allocated", "waiting"} <=> at[b] \in {"queued", "asleep", "allocated", "waiting"}) => Waiting' = Waiting
    BY <2>3
  <2> QED BY <2>2, <2>3, <2>4, <2>5
<1>16. ASSUME NEW b \in Bios, NEW place \in Stations, at' = [at EXCEPT ![b] = place],
              at[b] \notin {"queued", "asleep", "allocated", "waiting", "merged", "issued"},
              place \notin {"queued", "asleep", "allocated", "waiting", "merged", "issued"}
       PROVE  OnDisk' = OnDisk /\ Waiting' = Waiting /\ In("issued")' = In("issued")
  <2>1. at' \in [Bios -> Stations] /\ \A c \in Bios : at'[c] = IF c = b THEN place ELSE at[c]
    BY <1>0, <1>16
  <2>2. OnDisk' = OnDisk
    BY <1>0, <1>16, <2>1 DEF OnDisk
  <2>3. Waiting' = Waiting
    BY <1>0, <1>16, <2>1 DEF Waiting, Places
  <2>4. In("issued")' = In("issued")
    BY <1>0, <1>16, <2>1 DEF In
  <2> QED BY <2>2, <2>3, <2>4
<1>7. ASSUME NEW b \in Bios, Submit(b) PROVE P
  <2> DEFINE place == IF bio(b).mapped THEN "above" ELSE "queued"
  <2>1. /\ at[b] = "new" /\ ~bio(b).pc /\ at' = [at EXCEPT ![b] = place] /\ UNCHANGED <<rq, issued, left>>
        /\ e.act = "Q" /\ e.dev = (IF bio(b).mapped THEN Mapped ELSE Lower) /\ ~e.pc /\ Concerns(e, b)
    BY <1>0, <1>7, Events DEF Submit, Move, Concerns
  <2>2. place \in Stations /\ place \notin {"new", "done"} /\ Live(b)'
    BY <1>0, <2>1 DEF Stations, Live
  <2>3. IssuesKept
    BY <2>1 DEF IssuesKept
  <2>4. CASE bio(b).mapped
    <3>0. OnDisk' = OnDisk /\ Waiting' = Waiting /\ In("issued")' = In("issued")
      BY <1>16, <2>1, <2>2, <2>4
    <3>1. OnDisk' = OnDisk /\ DiskSame
      BY <2>1, <3>0 DEF DiskSame
    <3>2. b \notin OnMapped /\ OnMapped' = OnMapped \cup {b}
      BY <1>0, <2>1, <2>4 DEF OnMapped, Live
    <3> QED BY <1>0, <2>1, <2>2, <2>3, <2>4, <3>1, <3>2 DEF MappedMoves
  <2>5. CASE ~bio(b).mapped
    <3>1. OnMapped' = OnMapped
      BY <1>4, <2>1, <2>2, <2>5
    <3>2. b \notin OnDisk /\ OnDisk' = OnDisk \cup {b}
      BY <1>0, <2>1, <2>5 DEF OnDisk
    <3>3. Arrives(b)
      BY <1>6, <2>1, <2>2, <2>5, <3>2 DEF Arrives
    <3> QED BY <1>0, <2>1, <2>3, <2>5, <3>1, <3>3 DEF DiskMoves
  <2> QED BY <2>4, <2>5
<1>8. ASSUME NEW b \in Bios, Remap(b) PROVE P
  <2>1. /\ at[b] = "above" /\ at' = [at EXCEPT ![b] = "remapped"] /\ UNCHANGED <<rq, issued, left>>
        /\ e.act = "A" /\ e.dev = Lower /\ ~e.pc
    BY <1>0, <1>8, Events DEF Remap, Move
  <2>2. "remapped" \in Stations
    BY DEF Stations
  <2>4. OnDisk' = OnDisk /\ Waiting' = Waiting /\ In("issued")' = In("issued")
    BY <1>16, <2>1, <2>2
  <2>5. OnMapped' = OnMapped
    BY <1>4, <2>1, <2>2
  <2>3. OnDisk' = OnDisk /\ OnMapped' = OnMapped /\ DiskSame /\ IssuesKept
    BY <2>1, <2>4, <2>5 DEF DiskSame, IssuesKept
  <2> QED BY <1>0, <2>1, <2>3 DEF DiskMoves
<1>9. ASSUME NEW b \in Bios, SubmitBelow(b) PROVE P
  <2>1. /\ at[b] = "remapped" /\ at' = [at EXCEPT ![b] = "queued"] /\ UNCHANGED <<rq, issued, left>>
        /\ e.act = "Q" /\ e.dev = Lower /\ Concerns(e, b)
    BY <1>0, <1>9, Events DEF SubmitBelow, Pass, Move, Concerns
  <2>2. "queued" \in Stations /\ ~bio(b).pc /\ ~e.pc /\ Live(b)'
    BY <1>0, <1>9, <2>1, Events DEF Stations, AtStation, Live
  <2>3. OnMapped' = OnMapped /\ IssuesKept
    BY <1>4, <2>1, <2>2 DEF IssuesKept
  <2>4. b \notin OnDisk /\ OnDisk' = OnDisk \cup {b}
    BY <1>0, <2>1, <2>2 DEF OnDisk
  <2>5. Arrives(b)
    BY <1>6, <2>1, <2>2, <2>4 DEF Arrives
  <2> QED BY <1>0, <2>1, <2>2, <2>3, <2>5 DEF DiskMoves
<1>10. ASSUME NEW b \in Bios, Sleep(b) \/ Allocate(b) \/ Insert(b) PROVE P
  <2>1. PICK from \in {"new", "queued", "asleep", "allocated"}, to \in {"asleep", "allocated", "waiting"} :
          /\ at[b] = from /\ at' = [at EXCEPT ![b] = to] /\ UNCHANGED <<rq, issued, left>>
          /\ ~bio(b).pc => from # "new"
    BY <1>10 DEF Sleep, Allocate, Insert, Pass, Move
  <2>2. e.act \in {"G", "S", "I"} /\ e.dev = Lower /\ e.pc = bio(b).pc
    BY <1>0, <1>10, Events
  <2>3. to \in Stations
    BY DEF Stations
  <2>4. OnDisk' = OnDisk /\ IssuesKept
    BY <1>4, <2>1, <2>3 DEF IssuesKept
  <2>5. OnMapped' = OnMapped
    BY <1>0, <1>4, <2>1, <2>3
  <2>6. ~bio(b).pc => DiskSame /\ OnDisk # {}
    <3> SUFFICES ASSUME ~bio(b).pc PROVE DiskSame /\ OnDisk # {}
      OBVIOUS
    <3>1. b \in OnDisk
      BY <1>0, <2>1 DEF OnDisk
    <3>2. Waiting' = Waiting /\ In("issued")' = In("issued")
      BY <1>6, <2>1, <2>3
    <3> QED BY <2>1, <2>4, <3>1, <3>2 DEF DiskSame
  <2>7. bio(b).pc => Fs(In("issued"))' = Fs(In("issued")) /\ ~NoPackets
    BY <1>6, <2>1, <2>3
  <2> QED BY <1>0, <2>2, <2>4, <2>5, <2>6, <2>7 DEF DiskMoves
<1>11. ASSUME NEW b \in Bios, NEW l \in Bios, Merge(b, l) PROVE P
  <2>1. /\ at[b] = "queued" /\ at' = [at EXCEPT ![b] = "merged"] /\ UNCHANGED <<issued, left>>
        /\ e.act \in {"M", "F"} /\ e.dev = Lower /\ at[l] = "waiting" /\ rq' = [rq EXCEPT ![l] = @ \cup {b}]
        /\ e.pc = bio(b).pc
    BY <1>0, <1>11, Events DEF Merge, Move
  <2>2. "merged" \in Stations /\ ~bio(b).pc
    BY <1>0, <2>1 DEF Stations, AtStation
  <2>3. OnDisk' = OnDisk /\ OnMapped' = OnMapped
    BY <1>0, <1>4, <2>1, <2>2
  <2>4. IssuesKept
    BY <1>0, <2>1 DEF IssuesKept, In
  <2>5. b \in OnDisk
    BY <1>0, <2>1, <2>2 DEF OnDisk
  <2>6. Joins(b)
    BY <1>6, <2>1, <2>2, <2>3, <2>5 DEF Joins
  <2> QED BY <1>0, <2>1, <2>2, <2>3, <2>4, <2>6 DEF DiskMoves
<1>12. ASSUME NEW l \in Bios, Issue(l) PROVE P
  <2>1. /\ at[l] = "waiting" /\ at' = [at EXCEPT ![l] = "issued"] /\ UNCHANGED <<rq, left>>
        /\ e.act = "D" /\ e.dev = Lower /\ e.pc = bio(l).pc /\ OfRequest(e, l)
        /\ issued' = [issued EXCEPT ![l] = clock + 1]
    BY <1>0, <1>12, Events DEF Issue, Move, OfRequest
  <2>2. "issued" \in Stations
    BY DEF Stations
  <2>3. OnDisk' = OnDisk /\ OnMapped' = OnMapped
    BY <1>0, <1>4, <2>1, <2>2
  <2>4. IssuesKept
    BY <1>0, <2>1 DEF IssuesKept, In
  <2>5. bio(l).pc => Fs(In("issued"))' = Fs(In("issued")) /\ ~NoPackets
    BY <1>6, <2>1, <2>2
  <2>6. ~bio(l).pc => Leaves(l)
    <3> SUFFICES ASSUME ~bio(l).pc PROVE Leaves(l)
      OBVIOUS
    <3>1. l \in OnDisk /\ l \in Fs(Requests)
      BY <1>0, <2>1 DEF OnDisk, Fs, Requests, Places
    <3>2. l \in Waiting /\ Waiting' = Waiting \ {l} /\ l \notin In("issued") /\ In("issued")' = In("issued") \cup {l}
      BY <1>6, <2>1, <2>2
    <3>3. issued'[l] = clock + 1
      BY <1>0, <2>1
    <3> QED BY <2>1, <2>3, <3>1, <3>2, <3>3 DEF Leaves
  <2> QED BY <1>0, <2>1, <2>3, <2>4, <2>5, <2>6 DEF DiskMoves
<1>13. ASSUME NEW l \in Bios, Requeue(l) PROVE P
  <2>1. /\ at[l] = "issued" /\ at' = [at EXCEPT ![l] = "waiting"] /\ UNCHANGED <<rq, issued>>
        /\ e.act = "R" /\ e.dev = Lower /\ e.pc = bio(l).pc
        /\ left.requeues > 0 /\ left' = [left EXCEPT !.requeues = @ - 1]
    BY <1>0, <1>13, Events DEF Requeue, Move
  <2>2. "waiting" \in Stations
    BY DEF Stations
  <2>3. OnDisk' = OnDisk /\ OnMapped' = OnMapped /\ IssuesKept
    BY <1>0, <1>4, <2>1, <2>2 DEF IssuesKept
  <2>4. left'.requeues = left.requeues - 1
    BY <1>0, <2>1 DEF KernelTypes
  <2>5. bio(l).pc => Fs(In("issued"))' = Fs(In("issued")) /\ ~NoPackets
    BY <1>6, <2>1, <2>2
  <2>6. ~bio(l).pc => Returns(l)
    <3> SUFFICES ASSUME ~bio(l).pc PROVE Returns(l)
      OBVIOUS
    <3>1. l \in OnDisk
      BY <1>0, <2>1 DEF OnDisk
    <3>2. l \notin Waiting /\ Waiting' = Waiting \cup {l} /\ l \in In("issued") /\ In("issued")' = In("issued") \ {l}
      BY <1>6, <2>1, <2>2
    <3> QED BY <2>1, <2>3, <2>4, <3>1, <3>2 DEF Returns
  <2> QED BY <1>0, <2>1, <2>3, <2>5, <2>6 DEF DiskMoves
<1>14. ASSUME NEW b \in Bios, CompleteAbove(b) PROVE P
  <2>1. /\ at[b] = "below" /\ at' = [at EXCEPT ![b] = "done"] /\ UNCHANGED <<rq, issued, left>>
        /\ e.act = "C" /\ e.dev = Mapped /\ ~e.pc /\ Concerns(e, b)
    BY <1>0, <1>14, Events DEF CompleteAbove, Move, Concerns
  <2>2. "done" \in Stations /\ bio(b).mapped
    BY <1>0, <2>1 DEF Stations, AtStation
  <2>5. OnDisk' = OnDisk /\ Waiting' = Waiting /\ In("issued")' = In("issued")
    BY <1>16, <2>1, <2>2
  <2>3. DiskSame /\ IssuesKept
    BY <2>1, <2>5 DEF DiskSame, IssuesKept
  <2>4. b \in OnMapped /\ OnMapped' = OnMapped \ {b}
    BY <1>0, <2>1, <2>2 DEF OnMapped, Live
  <2> QED BY <1>0, <2>1, <2>3, <2>4 DEF MappedMoves
<1>15. ASSUME NEW l \in Bios, Complete(l) PROVE P
  <2>1. /\ at[l] = "issued" /\ UNCHANGED <<rq, issued, left>>
        /\ e.act = "C" /\ e.dev = Lower /\ e.pc = bio(l).pc /\ OfRequest(e, l)
        /\ \A b \in Bios : b \notin rq[l] => at'[b] = at[b]
        /\ \A b \in rq[l] : at'[b] = IF bio(b).mapped THEN "below" ELSE "done"
        /\ at' \in [Bios -> Stations] /\ l \in Requests /\ rq[l] \subseteq Bios
    BY <1>0, <1>15, Events, CompleteKeeps DEF Complete, OfRequest
  <2>2. /\ l \in rq[l] /\ \A b \in rq[l] : bio(b).pc = bio(l).pc /\ (b # l => at[b] = "merged")
    BY <2>1 DEF KernelInv, Placed, IsRequest
  <2>3. In("issued")' = In("issued") \ {l} /\ l \in In("issued")
    BY <1>0, <2>1, <2>2 DEF In
  <2>4. Waiting' = Waiting
    BY <1>0, <2>1, <2>2 DEF Waiting, Places
  <2>5. OnMapped' = OnMapped
    BY <1>0, <2>1, <2>2 DEF OnMapped, Live
  <2>6. IssuesKept
    BY <2>1 DEF IssuesKept
  <2>7. CASE bio(l).pc
    <3>1. OnDisk' = OnDisk
      BY <1>0, <2>1, <2>2, <2>7 DEF OnDisk
    <3>2. Fs(In("issued"))' = Fs(In("issued")) /\ ~NoPackets
      BY <1>0, <2>3, <2>7 DEF Fs, NoPackets, In
    <3> QED BY <1>0, <2>1, <2>5, <2>6, <2>7, <3>1, <3>2
  <2>8. CASE ~bio(l).pc
    <3>1. OnDisk' = OnDisk \ rq[l] /\ l \in OnDisk
      BY <1>0, <2>1, <2>2, <2>8 DEF OnDisk
    <3>2. l \in Fs(Requests)
      BY <2>1, <2>8 DEF Fs
    <3>3. Departs(l)
      BY <2>1, <2>3, <2>4, <3>1, <3>2 DEF Departs
    <3> QED BY <1>0, <2>1, <2>5, <2>6, <2>8, <3>3 DEF DiskMoves
  <2> QED BY <2>7, <2>8
<1> QED BY <1>2, <1>3, <1>7, <1>8, <1>9, <1>10, <1>11, <1>12, <1>13, <1>14, <1>15 DEF KernelStep

-----------------------------------------------------------------------------
(* btt's queue of a device holds the I/Os that are in flight there.          *)

LEMMA Secs ==
  ASSUME KernelTypes, Separate, NEW b \in Bios, NEW c \in Bios, b # c, Live(b), Live(c)
  PROVE  /\ bio(b).sec # bio(c).sec
         /\ ~(bio(b).sec <= bio(c).sec /\ EndOf(c) <= EndOf(b))
<1>1. /\ bio(b).sec \in Nat /\ EndOf(b) \in Nat /\ EndOf(b) > bio(b).sec
      /\ bio(c).sec \in Nat /\ EndOf(c) \in Nat /\ EndOf(c) > bio(c).sec
  BY BioTypes
<1>2. EndOf(b) <= bio(c).sec \/ EndOf(c) <= bio(b).sec
  BY DEF Separate
<1> QED BY <1>1, <1>2

(* The I/Os of a request are those found in its sectors.                     *)
LEMMA FoundIs ==
  ASSUME KernelInv, Separate, NEW qs, NEW l \in Fs(Requests), NEW e, OfRequest(e, l),
         NEW q \in qs, NEW c \in OnDisk, About(q, c)
  PROVE  (e.sec <= q.sec /\ q.sec + q.len <= e.sec + e.len) <=> c \in rq[l]
<1>1. /\ StartOf(l) \in Nat /\ SizeOf(l) \in Nat /\ StartOf(l) + SizeOf(l) = StopOf(l) /\ l \in Requests
      /\ \A b \in rq[l] : StartOf(l) <= bio(b).sec /\ EndOf(b) <= StopOf(l)
  BY RequestSpan DEF Fs
<1>2. /\ bio(c).sec \in Nat /\ EndOf(c) \in Nat /\ EndOf(c) > bio(c).sec /\ EndOf(c) = q.sec + q.len
      /\ q.sec = bio(c).sec /\ c \in Bios /\ Live(c)
  BY BioTypes DEF About, EndOf, OnDisk, Live, KernelInv
<1>3. c \notin rq[l] => ~(StartOf(l) <= bio(c).sec /\ bio(c).sec < StopOf(l))
  BY <1>1, <1>2, Outside
<1>4. e.sec = StartOf(l) /\ e.sec + e.len = StopOf(l)
  BY <1>1 DEF OfRequest
<1> QED BY <1>1, <1>2, <1>3, <1>4

LEMMA OnDiskHas ==
  ASSUME KernelInv
  PROVE  /\ \A l \in Fs(In("issued")) : rq[l] \subseteq OnDisk /\ l \in Fs(Requests)
         /\ \A l, m \in Requests : l # m => rq[l] \cap rq[m] = {}
         /\ OnDisk \subseteq Bios /\ \A b \in OnDisk : Live(b)
<1>1. ASSUME NEW l \in Fs(In("issued")) PROVE rq[l] \subseteq OnDisk /\ l \in Fs(Requests)
  <2>1. l \in Requests /\ at[l] = "issued" /\ ~bio(l).pc
    BY DEF Fs, In, Requests, Places
  <2>2. rq[l] \subseteq Bios /\ \A b \in rq[l] : bio(b).pc = bio(l).pc /\ (b # l => at[b] = "merged")
    BY <2>1, RequestSpan DEF KernelInv, Placed, IsRequest
  <2>3. \A b \in rq[l] : at[b] \in {"merged", "issued"} /\ ~bio(b).pc
    BY <2>1, <2>2
  <2> QED BY <2>1, <2>2, <2>3 DEF OnDisk, Fs
<1>2. OnDisk \subseteq Bios /\ \A b \in OnDisk : Live(b)
  BY DEF OnDisk, Live
<1> QED BY <1>1, <1>2 DEF KernelInv, Placed

LEMMA RetoldMatches ==
  ASSUME NEW qs, NEW old, Retold(qs, old), NEW S, Matches(old, S)
  PROVE  /\ Matches(qs, S)
         /\ \A l, t : IssuedAt(old, l, t) => IssuedAt(qs, l, t)
<1>1. \A q, p : Alike(q, p) => (\A b : About(q, b) <=> About(p, b)) /\ q.d = p.d
  BY DEF Alike, About
<1>2. /\ \A q \in qs : \E p \in old : Alike(q, p)
      /\ \A p \in old : \E q \in qs : Alike(q, p)
  BY DEF Retold
<1>3. Matches(qs, S)
  <2>1. ASSUME NEW b \in S PROVE \E q \in qs : About(q, b)
    <3>1. PICK p \in old : About(p, b)
      BY DEF Matches
    <3>2. PICK q \in qs : Alike(q, p)
      BY <1>2
    <3> QED BY <1>1, <3>1, <3>2
  <2>2. ASSUME NEW q \in qs PROVE \E b \in S : About(q, b)
    <3>1. PICK p \in old : Alike(q, p)
      BY <1>2
    <3>2. PICK b \in S : About(p, b)
      BY DEF Matches
    <3> QED BY <1>1, <3>1, <3>2
  <2> QED BY <2>1, <2>2 DEF Matches
<1>4. \A l, t : IssuedAt(old, l, t) => IssuedAt(qs, l, t)
  BY <1>1, <1>2 DEF IssuedAt
<1> QED BY <1>3, <1>4

LEMMA WaitingCounts ==
  ASSUME KernelInv, KernelStep
  PROVE  /\ IsFiniteSet(Waiting) /\ IsFiniteSet(In("issued"))
         /\ Cardinality(Waiting) \in Nat /\ Cardinality(In("issued")) \in Nat
         /\ scene.requeues - left.requeues \in Nat /\ left.requeues \in Nat /\ scene.requeues \in Nat
         /\ \A b \in Waiting : Cardinality(Waiting) > 0 /\ Cardinality(Waiting \ {b}) = Cardinality(Waiting) - 1
         /\ \A b : b \notin Waiting => Cardinality(Waiting \cup {b}) = Cardinality(Waiting) + 1
         /\ \A b \in In("issued") : Cardinality(In("issued")) > 0 /\ Cardinality(In("issued") \ {b}) = Cardinality(In("issued")) - 1
         /\ \A b : b \notin In("issued") => Cardinality(In("issued") \cup {b}) = Cardinality(In("issued")) + 1
<1>1. IsFiniteSet(Waiting) /\ IsFiniteSet(In("issued"))
  <2>1. Waiting \subseteq Bios /\ In("issued") \subseteq Bios
    BY DEF Waiting, Places, In
  <2> QED BY <2>1, BiosFinite DEF KernelInv
<1>2. scene.requeues - left.requeues \in Nat /\ left.requeues \in Nat /\ scene.requeues \in Nat
  BY SceneTypes DEF KernelInv, KernelTypes
<1>3. ASSUME NEW S, IsFiniteSet(S)
      PROVE  /\ Cardinality(S) \in Nat
             /\ \A b \in S : Cardinality(S) > 0 /\ Cardinality(S \ {b}) = Cardinality(S) - 1
             /\ \A b : b \notin S => Cardinality(S \cup {b}) = Cardinality(S) + 1
  <2>1. Cardinality(S) \in Nat
    BY <1>3, FS_CardinalityType
  <2>2. ASSUME NEW b \in S PROVE Cardinality(S) > 0 /\ Cardinality(S \ {b}) = Cardinality(S) - 1
    <3>1. Cardinality(S \ {b}) = Cardinality(S) - 1 /\ IsFiniteSet(S \ {b})
      BY <1>3, FS_RemoveElement
    <3>2. Cardinality(S \ {b}) \in Nat
      BY <3>1, FS_CardinalityType
    <3> QED BY <2>1, <3>1, <3>2
  <2>3. \A b : b \notin S => Cardinality(S \cup {b}) = Cardinality(S) + 1
    BY <1>3, FS_AddElement
  <2> QED BY <2>1, <2>2, <2>3
<1> QED BY <1>1, <1>2, <1>3

(* What there is to show of the disk after a step.                           *)
Shows(S, qs, n, na) ==
  /\ OnDisk' = S /\ (S # {} => ~Dip(Lower)'.culling)
  /\ Becomes(Lower, qs, n, na) /\ Matches(qs, S)
  /\ \A l \in Fs(In("issued"))' : rq'[l] = rq[l] /\ IssuedAt(qs, l, issued'[l])
  /\ NoPackets => /\ n = Cardinality(Waiting')
                  /\ na = Cardinality(In("issued")') + (scene.requeues - left'.requeues)

LEMMA DiskNext ==
  ASSUME KernelInv, KernelStep, NEW S, NEW qs, NEW n, NEW na, Shows(S, qs, n, na)
  PROVE  DiskQueue'
<1>0. /\ scene' = scene /\ Bios' = Bios /\ \A b : bio(b)' = bio(b)
      /\ rq \in [Bios -> SUBSET Bios] /\ KernelTypes
  BY StepTicks DEF KernelInv, KernelTypes, Bios, bio
<1>1. \A q, b : About(q, b)' <=> About(q, b)
  BY <1>0 DEF About
<1>2. Dip(Lower)'.qs = qs /\ Dip(Lower)'.n_act_q = n /\ Dip(Lower)'.na = na
  BY DEF Shows, Becomes
<1>3. Holds(Lower, OnDisk)'
  <2>1. Matches(Dip(Lower).qs, OnDisk)' <=> Matches(qs, S)
    BY <1>1, <1>2 DEF Matches, Shows
  <2> QED BY <2>1 DEF Shows, Holds
<1>4. ASSUME NEW l \in Fs(In("issued"))' PROVE IssuedAt(Dip(Lower).qs, l, issued[l])'
  BY <1>1, <1>2, <1>4 DEF IssuedAt, Shows
<1>5. NoPackets' => Counts'
  <2>1. NoPackets' <=> NoPackets
    BY <1>0 DEF NoPackets
  <2> QED BY <1>0, <1>2, <2>1 DEF Counts, Shows
<1> QED BY <1>3, <1>4, <1>5 DEF DiskQueue

LEMMA DiskKept ==
  ASSUME KernelInv, KernelStep, DipTypes, Separate, Separate', DiskQueue,
         NEW e, e = event', e.dev = Lower, Handled(Lower, e), DiskMoves(e), IssuesKept, ~e.pc, e.act # "name"
  PROVE  DiskQueue'
<1> DEFINE old == Dip(Lower)
           found == dip_foreach(old, e)
<1>0. /\ scene' = scene /\ Bios' = Bios /\ \A b : bio(b)' = bio(b)
      /\ KernelTypes /\ clock \in Nat /\ e.time = clock + 1
  BY StepTicks DEF KernelInv, KernelTypes, Bios, bio
<1>1. /\ OnDisk # {} => ~old.culling
      /\ Matches(old.qs, OnDisk)
      /\ \A l \in Fs(In("issued")) : IssuedAt(old.qs, l, issued[l])
      /\ NoPackets => /\ old.n_act_q = Cardinality(Waiting)
                      /\ old.na = Cardinality(In("issued")) + (scene.requeues - left.requeues)
  BY DEF DiskQueue, Holds, Counts
<1>2. /\ \A l \in Fs(In("issued")) : rq[l] \subseteq OnDisk /\ l \in Fs(Requests)
      /\ \A l, m \in Requests : l # m => rq[l] \cap rq[m] = {}
      /\ OnDisk \subseteq Bios /\ \A b \in OnDisk : Live(b)
  BY OnDiskHas
<1>3. /\ Culled(e) <=> old.culling /\ e.act \notin {"Q", "A"}
      /\ DipOf(e).qs = old.qs
  BY OpenedSame DEF SameCounts, Counted
<1>4. OnDisk # {} /\ e.act # "Q" => ~Culled(e) /\ Linked(e)
  BY <1>1, <1>3 DEF Linked
<1>5. /\ e.act \notin Plugging \cup {"A"} => Dip(Lower)'.culling = Culled(e)
      /\ e.act \notin Plugging \cup {"A"} /\ Linked(e) => Told(Lower, e)
  BY DEF Handled
<1>6. ASSUME In("issued")' \subseteq In("issued")
      PROVE  \A l \in Fs(In("issued"))' : l \in Fs(In("issued")) /\ rq'[l] = rq[l] /\ issued'[l] = issued[l]
  BY <1>0, <1>6 DEF Fs, IssuesKept
<1>7. CASE e.act \in Plugging \cup {"A"}
  <2>1. DiskSame
    BY <1>7 DEF DiskMoves, Plugging
  <2>2. Becomes(Lower, old.qs, old.n_act_q, old.na) /\ (OnDisk # {} => ~Dip(Lower)'.culling)
    <3>1. CASE e.act \in Plugging
      BY <1>1, <3>1 DEF Handled, Kept, SameCounts, Counted, Becomes
    <3>2. CASE e.act = "A"
      BY <1>1, <3>2 DEF Handled, Kept, SameCounts, Counted
    <3> QED BY <1>7, <3>1, <3>2
  <2>3. Shows(OnDisk, old.qs, old.n_act_q, old.na)
    BY <1>1, <1>6, <2>1, <2>2 DEF DiskSame, Shows
  <2> QED BY <2>3, DiskNext
<1>8. CASE e.act = "Q"
  <2>1. PICK b \in Bios : Concerns(e, b) /\ Arrives(b)
    BY <1>8 DEF DiskMoves, Plugging
  <2>2. ASSUME NEW c \in OnDisk PROVE bio(c).sec # bio(b).sec
    <3>1. c # b /\ c \in OnDisk' /\ b \in OnDisk' /\ Live(b)' /\ c \in Bios
      BY <1>2, <2>1 DEF Arrives
    <3>2. Live(c)'
      BY <3>1 DEF OnDisk, Live
    <3>3. EndOf(b)' = EndOf(b) /\ EndOf(c)' = EndOf(c)
      BY <1>0 DEF EndOf
    <3>4. EndOf(b) <= bio(c).sec \/ EndOf(c) <= bio(b).sec
      BY <1>0, <3>1, <3>2, <3>3 DEF Separate
    <3>5. /\ bio(b).sec \in Nat /\ EndOf(b) \in Nat /\ EndOf(b) > bio(b).sec
          /\ bio(c).sec \in Nat /\ EndOf(c) \in Nat /\ EndOf(c) > bio(c).sec
      BY <1>0, <3>1, BioTypes
    <3> QED BY <3>4, <3>5
  <2>3. \A q \in old.qs : q.sec # e.sec
    BY <1>1, <2>1, <2>2 DEF Matches, About, Concerns
  <2>4. ~Culled(e) /\ Linked(e)
    BY <1>3, <1>8, <2>3 DEF Linked
  <2>5. Told(Lower, e) /\ ~Dip(Lower)'.culling
    BY <1>5, <1>8, <2>4 DEF Plugging
  <2>6. PICK q : q.sec = e.sec /\ q.len = e.len /\ Becomes(Lower, old.qs \cup {q}, old.n_act_q + 1, old.na)
    BY <1>8, <2>5 DEF Told
  <2>7. About(q, b)
    BY <2>1, <2>6 DEF About, Concerns
  <2>8. Matches(old.qs \cup {q}, OnDisk \cup {b})
    BY <1>1, <2>7 DEF Matches
  <2>9. ASSUME NEW l \in Fs(In("issued"))' PROVE rq'[l] = rq[l] /\ IssuedAt(old.qs \cup {q}, l, issued'[l])
    <3>1. l \in Fs(In("issued")) /\ rq'[l] = rq[l] /\ issued'[l] = issued[l]
      BY <1>6, <2>1 DEF Arrives
    <3>2. \A c \in rq[l] : ~About(q, c)
      BY <1>2, <2>2, <2>7, <3>1 DEF About
    <3> QED BY <1>1, <3>1, <3>2 DEF IssuedAt
  <2>10. Shows(OnDisk \cup {b}, old.qs \cup {q}, old.n_act_q + 1, old.na)
    <3>1. NoPackets => /\ old.n_act_q + 1 = Cardinality(Waiting')
                       /\ old.na = Cardinality(In("issued")') + (scene.requeues - left'.requeues)
      BY <1>1, <2>1, WaitingCounts DEF Arrives
    <3> QED BY <2>1, <2>5, <2>6, <2>8, <2>9, <3>1 DEF Shows, Arrives
  <2> QED BY <2>10, DiskNext
<1>9. CASE e.act \in {"G", "S", "I"}
  <2>1. OnDisk # {} /\ DiskSame
    BY <1>9 DEF DiskMoves, Plugging
  <2>2. Told(Lower, e) /\ ~Dip(Lower)'.culling
    BY <1>4, <1>5, <1>9, <2>1 DEF Plugging
  <2>3. PICK qs : Retold(qs, old.qs) /\ Becomes(Lower, qs, old.n_act_q, old.na)
    BY <1>9, <2>2 DEF Told
  <2>4. Matches(qs, OnDisk) /\ \A l, t : IssuedAt(old.qs, l, t) => IssuedAt(qs, l, t)
    BY <1>1, <2>3, RetoldMatches
  <2>5. Shows(OnDisk, qs, old.n_act_q, old.na)
    BY <1>1, <1>6, <2>1, <2>2, <2>3, <2>4 DEF DiskSame, Shows
  <2> QED BY <2>5, DiskNext
<1>10. CASE e.act \in {"M", "F"}
  <2>1. PICK b \in Bios : Joins(b)
    BY <1>10 DEF DiskMoves, Plugging
  <2>2. Told(Lower, e) /\ ~Dip(Lower)'.culling
    BY <1>4, <1>5, <1>10, <2>1 DEF Plugging, Joins
  <2>3. PICK qs : Retold(qs, old.qs) /\ Becomes(Lower, qs, Lowered(old.n_act_q), old.na)
    BY <1>10, <2>2 DEF Told
  <2>4. Matches(qs, OnDisk) /\ \A l, t : IssuedAt(old.qs, l, t) => IssuedAt(qs, l, t)
    BY <1>1, <2>3, RetoldMatches
  <2>5. NoPackets => /\ Lowered(old.n_act_q) = Cardinality(Waiting')
                     /\ old.na = Cardinality(In("issued")') + (scene.requeues - left'.requeues)
    BY <1>1, <2>1, WaitingCounts DEF Joins, Lowered
  <2>6. Shows(OnDisk, qs, Lowered(old.n_act_q), old.na)
    BY <1>1, <1>6, <2>1, <2>2, <2>3, <2>4, <2>5 DEF Joins, Shows
  <2> QED BY <2>6, DiskNext
<1>11. CASE e.act = "R"
  <2>1. PICK l \in Bios : Returns(l)
    BY <1>11 DEF DiskMoves, Plugging
  <2>2. Told(Lower, e) /\ ~Dip(Lower)'.culling
    BY <1>4, <1>5, <1>11, <2>1 DEF Plugging, Returns
  <2>3. Becomes(Lower, old.qs, old.n_act_q + 1, old.na)
    BY <1>11, <2>2 DEF Told
  <2>4. NoPackets => /\ old.n_act_q + 1 = Cardinality(Waiting')
                     /\ old.na = Cardinality(In("issued")') + (scene.requeues - left'.requeues)
    <3> SUFFICES ASSUME NoPackets
                 PROVE  /\ old.n_act_q + 1 = Cardinality(Waiting')
                        /\ old.na = Cardinality(In("issued")') + (scene.requeues - left'.requeues)
      OBVIOUS
    <3>1. /\ Cardinality(Waiting') = Cardinality(Waiting) + 1
          /\ Cardinality(In("issued")') = Cardinality(In("issued")) - 1 /\ left'.requeues = left.requeues - 1
      BY <2>1, WaitingCounts DEF Returns
    <3>2. \A n \in Nat, r \in Nat, k \in Nat : n + (r - k) = (n - 1) + (r - (k - 1))
      OBVIOUS
    <3> QED BY <1>1, <3>1, <3>2, WaitingCounts
  <2>5. Shows(OnDisk, old.qs, old.n_act_q + 1, old.na)
    BY <1>1, <1>6, <2>1, <2>2, <2>3, <2>4 DEF Returns, Shows
  <2> QED BY <2>5, DiskNext
<1>12. ASSUME NEW l \in Fs(Requests), OfRequest(e, l), NEW q \in old.qs, NEW c \in OnDisk, About(q, c)
       PROVE  q \in found <=> c \in rq[l]
  <2>1. (e.sec <= q.sec /\ q.sec + q.len <= e.sec + e.len) <=> c \in rq[l]
    BY <1>12, FoundIs
  <2> QED BY <2>1 DEF dip_foreach
<1>13. found \subseteq old.qs
  BY DEF dip_foreach
<1>14. CASE e.act = "D"
  <2> DEFINE set(q) == [q EXCEPT !.d = e.time]
             qs == (old.qs \ found) \cup {set(q) : q \in found}
  <2>1. PICK l \in Bios : OfRequest(e, l) /\ Leaves(l)
    BY <1>14 DEF DiskMoves, Plugging
  <2>2. Told(Lower, e) /\ ~Dip(Lower)'.culling
    BY <1>4, <1>5, <1>14, <2>1 DEF Plugging, Leaves
  <2>3. Becomes(Lower, qs, Lowered(old.n_act_q), old.na + 1)
    BY <1>14, <2>2 DEF Told
  <2>4. NoPackets => /\ Lowered(old.n_act_q) = Cardinality(Waiting')
                     /\ old.na + 1 = Cardinality(In("issued")') + (scene.requeues - left'.requeues)
    BY <1>1, <2>1, WaitingCounts DEF Leaves, Lowered
  <2>5. \A q \in old.qs : DOMAIN q = QFields
    BY FieldNames DEF DipTypes, QTypes, Timely, Dip
  <2>6. ASSUME NEW q \in old.qs
        PROVE  set(q).d = e.time /\ \A b : About(set(q), b) <=> About(q, b)
    BY <2>5 DEF About, QFields
  <2> HIDE DEF set, found
  <2>7. Matches(qs, OnDisk)
    <3>1. ASSUME NEW b \in OnDisk PROVE \E q \in qs : About(q, b)
      <4>1. PICK q \in old.qs : About(q, b)
        BY <1>1 DEF Matches
      <4> QED BY <2>6, <4>1
    <3>2. ASSUME NEW q \in qs PROVE \E b \in OnDisk : About(q, b)
      BY <1>1, <1>13, <2>6 DEF Matches
    <3> QED BY <3>1, <3>2 DEF Matches
  <2>8. ASSUME NEW m \in Fs(In("issued"))' PROVE rq'[m] = rq[m] /\ IssuedAt(qs, m, issued'[m])
    <3>1. CASE m = l
      <4>1. rq'[l] = rq[l] /\ issued'[l] = e.time /\ l \in Fs(Requests)
        BY <1>0, <2>1 DEF Leaves
      <4>2. ASSUME NEW b \in rq[l], NEW q \in qs, About(q, b) PROVE q.d = e.time
        <5>1. CASE q \in old.qs \ found
          <6>1. PICK c \in OnDisk : About(q, c)
            BY <1>1, <5>1 DEF Matches
          <6>2. c \notin rq[l]
            BY <1>12, <2>1, <4>1, <5>1, <6>1
          <6>3. b \in rq[l] /\ bio(c).sec = bio(b).sec /\ l \in Requests
            BY <4>1, <4>2, <6>1 DEF About, Fs
          <6>4. ~(StartOf(l) <= bio(c).sec /\ bio(c).sec < StopOf(l))
            BY <1>2, <4>1, <6>2, <6>3, Outside
          <6>5. StartOf(l) <= bio(b).sec /\ EndOf(b) <= StopOf(l) /\ b \in Bios /\ StopOf(l) \in Nat
            BY <6>3, RequestSpan
          <6>6. bio(b).sec \in Nat /\ EndOf(b) \in Nat /\ EndOf(b) > bio(b).sec
            BY <1>0, <6>5, BioTypes
          <6> QED BY <6>3, <6>4, <6>5, <6>6
        <5>2. CASE \E p \in found : q = set(p)
          BY <1>13, <2>6, <5>2
        <5> QED BY <5>1, <5>2
      <4> QED BY <3>1, <4>1, <4>2 DEF IssuedAt
    <3>2. CASE m # l
      <4>1. m \in Fs(In("issued"))
        BY <1>0, <2>1, <3>2 DEF Fs, Leaves
      <4>2. rq'[m] = rq[m] /\ issued'[m] = issued[m]
        BY <2>8, <4>1 DEF IssuesKept, Fs
      <4>3. rq[m] \subseteq OnDisk /\ rq[m] \cap rq[l] = {} /\ l \in Fs(Requests)
        BY <1>2, <2>1, <3>2, <4>1 DEF Fs, Leaves
      <4>4. ASSUME NEW b \in rq[m], NEW q \in qs, About(q, b) PROVE q.d = issued[m]
        <5>1. CASE q \in old.qs \ found
          BY <1>1, <4>1, <4>4, <5>1 DEF IssuedAt
        <5>2. CASE \E p \in found : q = set(p)
          <6>1. PICK p \in found : About(p, b)
            BY <1>13, <2>6, <4>4, <5>2
          <6>2. b \in rq[l]
            BY <1>12, <1>13, <2>1, <4>3, <6>1
          <6> QED BY <4>3, <6>2
        <5> QED BY <5>1, <5>2
      <4> QED BY <4>2, <4>4 DEF IssuedAt
    <3> QED BY <3>1, <3>2
  <2> HIDE DEF qs
  <2>9. Shows(OnDisk, qs, Lowered(old.n_act_q), old.na + 1)
    BY <2>1, <2>2, <2>3, <2>4, <2>7, <2>8 DEF Leaves, Shows
  <2> QED BY <2>9, DiskNext
<1>15. CASE e.act = "C"
  <2>1. PICK l \in Bios : OfRequest(e, l) /\ Departs(l)
    BY <1>15 DEF DiskMoves, Plugging
  <2>2. Told(Lower, e) /\ ~Dip(Lower)'.culling
    BY <1>4, <1>5, <1>15, <2>1 DEF Plugging, Departs
  <2>3. Becomes(Lower, old.qs \ found, old.n_act_q, Lowered(old.na))
    BY <1>15, <2>2 DEF Told
  <2>4. NoPackets => /\ old.n_act_q = Cardinality(Waiting')
                     /\ Lowered(old.na) = Cardinality(In("issued")') + (scene.requeues - left'.requeues)
    BY <1>1, <2>1, WaitingCounts DEF Departs, Lowered
  <2> HIDE DEF found
  <2>5. Matches(old.qs \ found, OnDisk \ rq[l])
    <3>1. ASSUME NEW b \in OnDisk \ rq[l] PROVE \E q \in old.qs \ found : About(q, b)
      <4>1. PICK q \in old.qs : About(q, b)
        BY <1>1 DEF Matches
      <4>2. q \notin found
        BY <1>12, <2>1, <4>1 DEF Departs
      <4> QED BY <4>1, <4>2
    <3>2. ASSUME NEW q \in old.qs \ found PROVE \E b \in OnDisk \ rq[l] : About(q, b)
      <4>1. PICK b \in OnDisk : About(q, b)
        BY <1>1 DEF Matches
      <4>2. b \notin rq[l]
        BY <1>12, <2>1, <4>1 DEF Departs
      <4> QED BY <4>1, <4>2
    <3> QED BY <3>1, <3>2 DEF Matches
  <2>6. \A m, t : IssuedAt(old.qs, m, t) => IssuedAt(old.qs \ found, m, t)
    BY DEF IssuedAt
  <2>7. Shows(OnDisk \ rq[l], old.qs \ found, old.n_act_q, Lowered(old.na))
    BY <1>1, <1>6, <2>1, <2>2, <2>3, <2>4, <2>5, <2>6 DEF Departs, Shows
  <2> QED BY <2>7, DiskNext
<1> QED BY <1>7, <1>8, <1>9, <1>10, <1>11, <1>14, <1>15 DEF DiskMoves

LEMMA DiskUntouched ==
  ASSUME KernelInv, KernelStep, DiskQueue, Kept(Lower), IssuesKept, OnDisk' = OnDisk,
         Fs(In("issued"))' = Fs(In("issued")), ~NoPackets \/ DiskSame
  PROVE  DiskQueue'
<1> DEFINE old == Dip(Lower)
<1>1. Becomes(Lower, old.qs, old.n_act_q, old.na) /\ Dip(Lower)'.culling = old.culling
  BY DEF Kept, SameCounts, Counted, Becomes
<1>2. /\ OnDisk # {} => ~old.culling
      /\ Matches(old.qs, OnDisk)
      /\ \A l \in Fs(In("issued")) : IssuedAt(old.qs, l, issued[l])
      /\ NoPackets => /\ old.n_act_q = Cardinality(Waiting)
                      /\ old.na = Cardinality(In("issued")) + (scene.requeues - left.requeues)
  BY DEF DiskQueue, Holds, Counts
<1>3. \A l \in Fs(In("issued"))' : l \in Fs(In("issued")) /\ rq'[l] = rq[l] /\ issued'[l] = issued[l]
  BY DEF IssuesKept, Fs
<1>4. NoPackets => /\ old.n_act_q = Cardinality(Waiting')
                   /\ old.na = Cardinality(In("issued")') + (scene.requeues - left'.requeues)
  BY <1>2 DEF DiskSame
<1>5. Shows(OnDisk, old.qs, old.n_act_q, old.na)
  BY <1>1, <1>2, <1>3, <1>4 DEF Shows
<1> QED BY <1>5, DiskNext

LEMMA MappedNext ==
  ASSUME KernelInv, KernelStep, NEW S, NEW qs, OnMapped' = S, S # {} => ~Dip(Mapped)'.culling,
         Dip(Mapped)'.qs = qs, Matches(qs, S), \A q \in qs : q.d = None
  PROVE  MappedQueue'
<1>1. \A q, b : About(q, b)' <=> About(q, b)
  BY StepTicks DEF About, bio, KernelInv
<1>2. Matches(Dip(Mapped).qs, OnMapped)' <=> Matches(qs, S)
  BY <1>1 DEF Matches
<1> QED BY <1>2 DEF MappedQueue, Holds

LEMMA MappedKept ==
  ASSUME KernelInv, KernelStep, DipTypes, Separate, Separate', MappedQueue,
         NEW e, e = event', e.dev = Mapped, Handled(Mapped, e), MappedMoves(e)
  PROVE  MappedQueue'
<1> DEFINE old == Dip(Mapped)
           found == dip_foreach(old, e)
<1>0. /\ Bios' = Bios /\ (\A b : bio(b)' = bio(b)) /\ (\A b : EndOf(b)' = EndOf(b)) /\ KernelTypes
  BY StepTicks DEF KernelInv, KernelTypes, Bios, bio, EndOf
<1>1. /\ OnMapped # {} => ~old.culling
      /\ Matches(old.qs, OnMapped) /\ \A q \in old.qs : q.d = None
      /\ OnMapped \subseteq Bios /\ \A b \in OnMapped : Live(b)
  BY DEF MappedQueue, Holds, OnMapped
<1>2. /\ Culled(e) <=> old.culling /\ e.act \notin {"Q", "A"}
      /\ DipOf(e).qs = old.qs
  BY OpenedSame DEF SameCounts, Counted
<1>3. e.act \in {"Q", "C"} => /\ Dip(Mapped)'.culling = Culled(e)
                              /\ Linked(e) => Told(Mapped, e)
  BY DEF Handled, Plugging
<1>4. CASE e.act = "Q"
  <2>1. PICK b \in Bios \ OnMapped : Concerns(e, b) /\ Live(b)' /\ OnMapped' = OnMapped \cup {b}
    BY <1>4 DEF MappedMoves
  <2>2. ASSUME NEW c \in OnMapped PROVE bio(c).sec # bio(b).sec
    <3>1. c # b /\ c \in OnMapped' /\ b \in Bios /\ c \in Bios
      BY <1>1, <2>1
    <3>2. Live(c)'
      BY <3>1 DEF OnMapped
    <3>3. EndOf(b) <= bio(c).sec \/ EndOf(c) <= bio(b).sec
      BY <1>0, <2>1, <3>1, <3>2 DEF Separate
    <3>4. /\ bio(b).sec \in Nat /\ EndOf(b) \in Nat /\ EndOf(b) > bio(b).sec
          /\ bio(c).sec \in Nat /\ EndOf(c) \in Nat /\ EndOf(c) > bio(c).sec
      BY <1>0, <3>1, BioTypes
    <3> QED BY <3>3, <3>4
  <2>3. \A q \in old.qs : q.sec # e.sec
    BY <1>1, <2>1, <2>2 DEF Matches, About, Concerns
  <2>4. ~Culled(e) /\ Linked(e)
    BY <1>2, <1>4, <2>3 DEF Linked
  <2>5. PICK q : q.sec = e.sec /\ q.len = e.len /\ q.d = None /\ Becomes(Mapped, old.qs \cup {q}, old.n_act_q + 1, old.na)
    BY <1>3, <1>4, <2>4 DEF Told
  <2>6. About(q, b)
    BY <2>1, <2>5 DEF About, Concerns
  <2>7. Matches(old.qs \cup {q}, OnMapped \cup {b}) /\ \A p \in old.qs \cup {q} : p.d = None
    BY <1>1, <2>5, <2>6 DEF Matches
  <2>8. Dip(Mapped)'.qs = old.qs \cup {q} /\ ~Dip(Mapped)'.culling
    BY <1>3, <1>4, <2>4, <2>5 DEF Becomes
  <2> QED BY <2>1, <2>7, <2>8, MappedNext
<1>5. CASE e.act = "C"
  <2>1. PICK b \in OnMapped : Concerns(e, b) /\ OnMapped' = OnMapped \ {b}
    BY <1>5 DEF MappedMoves
  <2>2. ~Culled(e) /\ Linked(e)
    BY <1>1, <1>2, <1>5, <2>1 DEF Linked
  <2>3. Dip(Mapped)'.qs = old.qs \ found /\ ~Dip(Mapped)'.culling
    BY <1>3, <1>5, <2>2 DEF Told, Becomes
  <2>4. ASSUME NEW q \in old.qs, NEW c \in OnMapped, About(q, c) PROVE q \in found <=> c = b
    <3>1. /\ bio(b).sec \in Nat /\ bio(b).len \in Nat /\ EndOf(b) = bio(b).sec + bio(b).len /\ b \in Bios /\ c \in Bios
          /\ bio(c).sec \in Nat /\ bio(c).len \in Nat /\ EndOf(c) = bio(c).sec + bio(c).len
      BY <1>0, <1>1, BioTypes DEF EndOf
    <3>2. q \in found <=> bio(b).sec <= bio(c).sec /\ EndOf(c) <= EndOf(b)
      BY <2>1, <2>4, <3>1 DEF dip_foreach, About, Concerns
    <3>3. c # b => ~(bio(b).sec <= bio(c).sec /\ EndOf(c) <= EndOf(b))
      BY <1>0, <1>1, <3>1, Secs
    <3> QED BY <3>1, <3>2, <3>3
  <2> HIDE DEF found
  <2>5. Matches(old.qs \ found, OnMapped \ {b})
    <3>1. ASSUME NEW c \in OnMapped \ {b} PROVE \E q \in old.qs \ found : About(q, c)
      BY <1>1, <2>4 DEF Matches
    <3>2. ASSUME NEW q \in old.qs \ found PROVE \E c \in OnMapped \ {b} : About(q, c)
      BY <1>1, <2>4 DEF Matches
    <3> QED BY <3>1, <3>2 DEF Matches
  <2> QED BY <1>1, <2>1, <2>3, <2>5, MappedNext
<1> QED BY <1>4, <1>5 DEF MappedMoves

(* What btt has queued of the disk and of the device mapped to it are the    *)
(* I/Os in flight there, and it counts those that wait and those at the      *)
(* driver.                                                                  *)
THEOREM QueueSound == Spec /\ []Usual => [](DipTypes /\ QueueInv)
<1>1. Init => DipTypes /\ QueueInv
  <2> SUFFICES ASSUME Init PROVE DipTypes /\ QueueInv
    OBVIOUS
  <2>1. DOMAIN dips = {} /\ lost = 0
    BY DEF Init, BttInit
  <2>2. Dip(Lower) = NoDip(0) /\ Dip(Mapped) = NoDip(0)
    BY <2>1 DEF Dip
  <2>3. /\ at = [b \in Bios |-> "new"] /\ left.requeues = scene.requeues /\ scene.requeues \in Nat
    <3>1. scene \in Scenes /\ at = [b \in Bios |-> "new"] /\ left.requeues = scene.requeues
      BY DEF Init, KernelInit
    <3>2. scene.requeues \in Nat
      BY <3>1, ScenesAssumption DEF Scene
    <3> QED BY <3>1, <3>2
  <2>4. OnDisk = {} /\ OnMapped = {} /\ Waiting = {} /\ In("issued") = {} /\ Fs(In("issued")) = {}
    BY <2>3 DEF OnDisk, OnMapped, Waiting, Places, In, Fs, Live
  <2>5. Cardinality(Waiting) = 0 /\ Cardinality(In("issued")) = 0
    BY <2>4, FS_EmptySet
  <2>6. Matches({}, {})
    BY DEF Matches
  <2>7. Holds(Lower, OnDisk) /\ Holds(Mapped, OnMapped)
    BY <2>2, <2>4, <2>6, FieldNames DEF Holds
  <2>8. Counts
    BY <2>2, <2>3, <2>5, FieldNames DEF Counts
  <2>9. DiskQueue /\ MappedQueue
    BY <2>2, <2>4, <2>7, <2>8, FieldNames DEF DiskQueue, MappedQueue
  <2> QED BY <2>1, <2>9 DEF DipTypes, QueueInv
<1>2. KernelInv /\ Usual /\ Usual' /\ (DipTypes /\ QueueInv) /\ [Next]_analysers => (DipTypes /\ QueueInv)'
  <2> SUFFICES ASSUME KernelInv, Usual, Usual', DipTypes, QueueInv, [Next]_analysers PROVE (DipTypes /\ QueueInv)'
    OBVIOUS
  <2>0. lost \in Nat /\ (lost = 0 => DiskQueue /\ MappedQueue)
    BY DEF QueueInv
  <2>1. CASE UNCHANGED analysers
    <3>1. UNCHANGED <<scene, at, rq, clock, issued, left, dips, lost>>
      BY <2>1 DEF analysers, kernel, btt
    <3>2. DipTypes'
      BY <3>1 DEF DipTypes, QTypes, Timely
    <3>3. \A d : Dip(d)' = Dip(d)
      BY <3>1 DEF Dip
    <3>4. OnDisk' = OnDisk /\ OnMapped' = OnMapped /\ Waiting' = Waiting /\ In("issued")' = In("issued")
          /\ Fs(In("issued"))' = Fs(In("issued")) /\ (\A q, b : About(q, b)' <=> About(q, b)) /\ NoPackets' = NoPackets
      BY <3>1 DEF OnDisk, OnMapped, Waiting, Places, In, Fs, Live, About, bio, Bios, NoPackets
    <3>5. DiskQueue' <=> DiskQueue
      BY <3>1, <3>3, <3>4 DEF DiskQueue, Holds, Matches, IssuedAt, Counts
    <3>6. MappedQueue' <=> MappedQueue
      BY <3>1, <3>3, <3>4 DEF MappedQueue, Holds, Matches
    <3> QED BY <2>0, <3>1, <3>2, <3>5, <3>6 DEF QueueInv
  <2>2. CASE Traced
    <3>0. KernelStep /\ add_trace(event') /\ lost' = lost /\ KernelTypes
      BY <2>2 DEF Traced, KernelInv
    <3>1. PICK e : e = event'
      OBVIOUS
    <3>2. e.dev \in {Lower, Mapped} /\ e.dev \in Devices /\ Lower # Mapped /\ {Lower, Mapped} \subseteq Devices
      BY <3>0, <3>1, EventDevice, DevicesAssumption
    <3>3. DipTypes'
      <4>1. PICK d \in Devices : e.dev = d
        BY <3>2
      <4> QED BY <3>0, <3>1, <4>1, DipTypesKept
    <3>4. /\ e.act # "name" /\ ~e.pc /\ e.dev = Lower => DiskMoves(e)
          /\ e.dev = Mapped => MappedMoves(e) /\ ~e.pc /\ e.act # "name"
          /\ e.act = "name" \/ e.dev = Mapped => DiskSame
          /\ e.pc => OnDisk' = OnDisk /\ Fs(In("issued"))' = Fs(In("issued")) /\ ~NoPackets
          /\ e.dev = Lower => OnMapped' = OnMapped
          /\ IssuesKept
      BY <3>0, <3>1, Moves, PacketEvents
    <3>5. ASSUME NEW d \in Devices, e.dev = d
          PROVE  /\ e.act = "name" \/ e.pc => dips' = dips
                 /\ e.act # "name" /\ ~e.pc => Handled(d, e)
      BY <3>0, <3>1, <3>5, HandledEvent
    <3>6. dips' = dips => Kept(Lower) /\ Kept(Mapped)
      BY DEF Kept, Dip, SameCounts
    <3>7. Separate /\ Separate'
      BY DEF Usual
    <3>8. DiskSame => OnDisk' = OnDisk /\ Fs(In("issued"))' = Fs(In("issued"))
      BY <3>0, StepTicks DEF DiskSame, Fs, bio
    <3>9. ASSUME DiskQueue, MappedQueue PROVE DiskQueue' /\ MappedQueue'
      <4>1. CASE e.act = "name" \/ e.pc
        <5>1. Kept(Lower) /\ Kept(Mapped) /\ e.dev = Lower
          BY <3>2, <3>4, <3>5, <3>6, <4>1
        <5>2. DiskQueue'
          BY <3>0, <3>4, <3>8, <3>9, <4>1, <5>1, DiskUntouched
        <5>3. Dip(Mapped)'.culling = Dip(Mapped).culling /\ Dip(Mapped)'.qs = Dip(Mapped).qs /\ OnMapped' = OnMapped
          BY <3>4, <5>1 DEF Kept, SameCounts, Counted
        <5>4. MappedQueue'
          BY <3>0, <3>9, <5>3, MappedNext DEF MappedQueue, Holds
        <5> QED BY <5>2, <5>4
      <4>2. CASE e.act # "name" /\ ~e.pc /\ e.dev = Lower
        <5>1. Handled(Lower, e) /\ DiskMoves(e)
          BY <3>2, <3>4, <3>5, <4>2
        <5>2. DiskQueue'
          BY <3>0, <3>1, <3>4, <3>7, <3>9, <4>2, <5>1, DiskKept
        <5>3. Dip(Mapped)'.culling = Dip(Mapped).culling /\ Dip(Mapped)'.qs = Dip(Mapped).qs /\ OnMapped' = OnMapped
          BY <3>2, <3>4, <4>2, <5>1 DEF Handled, Kept, SameCounts, Counted
        <5>4. MappedQueue'
          BY <3>0, <3>9, <5>3, MappedNext DEF MappedQueue, Holds
        <5> QED BY <5>2, <5>4
      <4>3. CASE e.act # "name" /\ ~e.pc /\ e.dev = Mapped
        <5>1. Handled(Mapped, e) /\ MappedMoves(e) /\ Kept(Lower)
          BY <3>2, <3>4, <3>5, <4>3 DEF Handled
        <5>2. DiskQueue'
          BY <3>0, <3>4, <3>8, <3>9, <4>3, <5>1, DiskUntouched
        <5>3. MappedQueue'
          BY <3>0, <3>1, <3>7, <3>9, <4>3, <5>1, MappedKept
        <5> QED BY <5>2, <5>3
      <4> QED BY <3>2, <4>1, <4>2, <4>3
    <3> QED BY <2>0, <3>0, <3>3, <3>9 DEF QueueInv
  <2>3. CASE Lose
    <3>1. KernelStep /\ lost' = lost + 1 /\ dips' = dips
      BY <2>3 DEF Lose, btt
    <3>2. clock \in Nat /\ clock' = clock + 1
      BY <3>1, StepTicks DEF KernelInv, KernelTypes
    <3>3. DipTypes'
      BY <3>1, <3>2 DEF DipTypes, QTypes, Timely
    <3> QED BY <2>0, <3>1, <3>3 DEF QueueInv
  <2>4. CASE Ended
    BY <2>1, <2>4 DEF Ended
  <2> QED BY <2>1, <2>2, <2>3, <2>4 DEF Next
<1> QED BY <1>1, <1>2, KernelSound, PTL DEF Spec

-----------------------------------------------------------------------------
(* The periods with work.                                                   *)

LEMMA LeastOf ==
  ASSUME NEW S \in SUBSET Nat, S # {}
  PROVE  Min(S) \in S /\ \A y \in S : Min(S) <= y
<1> DEFINE R == OpToRel(<, Nat)
<1>1. IsWellFoundedOn(R, Nat)
  BY NatLessThanWellFounded
<1>2. \A x, y \in Nat : <<x, y>> \in R <=> x < y
  BY DEF OpToRel
<1> HIDE DEF R
<1>3. PICK x \in S : \A y \in S : ~(<<y, x>> \in R)
  BY <1>1, WFMin
<1>4. ASSUME NEW y \in S PROVE x <= y
  <2>1. ~(y < x)
    BY <1>2, <1>3, x \in Nat, y \in Nat, Zenon
  <2> QED BY <2>1
<1> QED BY <1>4 DEF Min

(* The period that is added ends after all that are there.                   *)
LEMMA PeriodAdded ==
  ASSUME NEW lives, NEW now \in Nat, Periods(lives, now), NEW dt \in 0..now, NEW ct, ct = now + 1
  PROVE  /\ Periods(p_live_add(lives, dt, ct), ct)
         /\ \A t \in Nat : Covered(p_live_add(lives, dt, ct), t)
                             <=> Covered(lives, t) \/ (dt <= t /\ t <= ct)
<1> DEFINE touched == {p \in lives : inside(p, dt, ct)}
           starts == {dt} \cup {p.dt : p \in touched}
           ends == {ct} \cup {p.ct : p \in touched}
           m == Min(starts)
           new == [dt |-> m, ct |-> ct]
           all == (lives \ touched) \cup {new}
<1>1. /\ \A p \in lives : p.dt \in Nat /\ p.ct \in Nat /\ p.dt <= p.ct /\ p.ct <= now
      /\ \A p, q \in lives : p # q => p.ct < q.dt \/ q.ct < p.dt
      /\ now \in Nat /\ dt \in Nat /\ dt <= now /\ ct = now + 1 /\ ct \in Nat
  BY DEF Periods, Apart
<1>2. touched \subseteq lives
  OBVIOUS
<1>3. Max(ends) = ct
  <2>1. ct \in ends /\ \A y \in ends : y \in Nat /\ y <= ct
    BY <1>1, <1>2
  <2> HIDE DEF ends
  <2>2. \A x \in ends : (\A y \in ends : x >= y) => x = ct
    BY <2>1, <1>1
  <2>3. \A y \in ends : ct >= y
    BY <1>1, <2>1
  <2> QED BY <2>1, <2>2, <2>3 DEF Max
<1>4. p_live_add(lives, dt, ct) = all
  BY <1>3 DEF p_live_add
<1>5. /\ m \in Nat /\ m <= dt
      /\ \A p \in touched : m <= p.dt
      /\ m = dt \/ \E p \in touched : m = p.dt
  <2>1. starts \in SUBSET Nat /\ starts # {}
    BY <1>1, <1>2
  <2>2. m \in starts /\ \A y \in starts : m <= y
    BY <2>1, LeastOf
  <2> HIDE DEF m
  <2> QED BY <2>1, <2>2
<1>6. ASSUME NEW p \in lives, p \notin touched PROVE p.ct < dt
  BY <1>1, <1>6 DEF inside
<1>7. ASSUME NEW p \in touched PROVE dt <= p.ct /\ p \in lives
  BY <1>1, <1>7 DEF inside
<1> HIDE DEF touched, m
<1>8. ASSUME NEW p \in lives \ touched PROVE p.ct < m
  <2>1. p.ct < dt /\ p.dt \in Nat /\ p.ct \in Nat /\ p.dt <= p.ct
    BY <1>1, <1>6, <1>8
  <2>2. CASE m = dt
    BY <2>1, <2>2
  <2>3. CASE \E q \in touched : m = q.dt
    <3>1. PICK q \in touched : m = q.dt
      BY <2>3
    <3>2. dt <= q.ct /\ q \in lives /\ q # p
      BY <1>7, <1>8
    <3>3. q.dt \in Nat /\ q.ct \in Nat
      BY <1>1, <3>2
    <3>4. p.ct < q.dt \/ q.ct < p.dt
      BY <1>1, <1>8, <3>2
    <3> QED BY <1>1, <2>1, <3>1, <3>2, <3>3, <3>4
  <2> QED BY <1>5, <2>2, <2>3
<1>9. Periods(all, ct)
  <2>1. Apart(all)
    <3> SUFFICES ASSUME NEW p \in all, NEW q \in all, p # q PROVE p.ct < q.dt \/ q.ct < p.dt
      BY DEF Apart
    <3>1. CASE p \in lives \ touched /\ q \in lives \ touched
      BY <1>1, <3>1
    <3>2. CASE p = new
      BY <1>8, <3>2
    <3>3. CASE q = new
      BY <1>8, <3>3
    <3> QED BY <3>1, <3>2, <3>3
  <2>2. ASSUME NEW p \in all PROVE p.dt \in Nat /\ p.ct \in Nat /\ p.dt <= p.ct /\ p.ct <= ct
    <3>1. CASE p \in lives \ touched
      BY <1>1, <3>1
    <3>2. CASE p = new
      BY <1>1, <1>5, <3>2
    <3> QED BY <3>1, <3>2
  <2> QED BY <2>1, <2>2 DEF Periods
<1>10. ASSUME NEW t \in Nat PROVE Covered(all, t) <=> Covered(lives, t) \/ (dt <= t /\ t <= ct)
  <2>1. Covered(all, t) <=> (\E p \in lives \ touched : p.dt <= t /\ t <= p.ct) \/ (m <= t /\ t <= ct)
    <3>1. new.dt = m /\ new.ct = ct
      OBVIOUS
    <3>2. \A p \in all : p \in lives \ touched \/ p = new
      OBVIOUS
    <3>3. new \in all /\ lives \ touched \subseteq all
      OBVIOUS
    <3> HIDE DEF new, all
    <3> QED BY <3>1, <3>2, <3>3 DEF Covered
  <2>2. ASSUME m <= t, t <= ct, ~(dt <= t) PROVE Covered(lives, t)
    <3>1. PICK p \in touched : m = p.dt
      BY <1>1, <1>5, <2>2
    <3>2. dt <= p.ct /\ p \in lives /\ p.ct \in Nat
      BY <1>1, <1>7
    <3>3. t <= p.ct
      BY <1>1, <2>2, <3>2
    <3> QED BY <2>2, <3>1, <3>2, <3>3 DEF Covered
  <2>3. ASSUME NEW p \in touched, p.dt <= t, t <= p.ct PROVE m <= t /\ t <= ct
    <3>1. p.dt \in Nat /\ p.ct \in Nat /\ p.ct <= now /\ m <= p.dt
      BY <1>1, <1>5, <1>7
    <3> QED BY <1>1, <1>5, <2>3, <3>1
  <2>4. dt <= t /\ t <= ct => m <= t
    BY <1>1, <1>5
  <2> QED BY <2>1, <2>2, <2>3, <2>4 DEF Covered
<1> QED BY <1>4, <1>9, <1>10

(* The periods of the system with what a completion adds.                    *)
Sent(d, e) == {q \in dip_foreach(Dip(d), e) : q.d # None}
Lived(d, e) == IF Sent(d, e) = {} THEN system.lives
               ELSE p_live_add(system.lives, Min({q.d : q \in Sent(d, e)}), e.time)

LEMMA LivesStep ==
  ASSUME DipTypes, NEW d, NEW e, e.dev = d, "lives" \in DOMAIN system, add_trace(e)
  PROVE  /\ "lives" \in DOMAIN system'
         /\ system'.lives = system.lives \/ system'.lives = Lived(d, e)
         /\ e.act # "C" \/ LeftOut(e) => system'.lives = system.lives
         /\ e.act = "C" /\ ~LeftOut(e) /\ Linked(e) => system'.lives = Lived(d, e)
<1> DEFINE Same == "lives" \in DOMAIN system' /\ system'.lives = system.lives
<1>1. UNCHANGED system => Same
  OBVIOUS
<1>2. CASE e.act = "name"
  BY <1>1, <1>2 DEF add_trace
<1>3. CASE e.act # "name" /\ LeftOut(e)
  BY <1>1, <1>3 DEF add_trace, btt
<1>4. CASE e.act # "name" /\ ~LeftOut(e)
  <2>1. NotSetUp(e) => Same /\ ~Linked(e)
    BY <1>1 DEF NotSetUp
  <2>2. \A S, dip, new : Timed(e, S, dip, new) => Same /\ e.act \in S
    BY <1>1, <2>1 DEF Timed
  <2>3. handle_queue(e) => Same
    BY DEF handle_queue
  <2>4. trace_queue(e) => Same /\ e.act = "Q"
    BY <2>1, <2>3 DEF trace_queue
  <2>5. trace_getrq(e) \/ trace_sleeprq(e) \/ trace_insert(e) \/ trace_merge(e) \/ trace_requeue(e)
          => Same /\ e.act \in {"G", "S", "I", "M", "F", "R"}
    BY <2>2 DEF trace_getrq, trace_sleeprq, trace_insert, trace_merge, trace_requeue
  <2>6. trace_remap(e) => Same /\ e.act = "A"
    BY <1>1, <2>2 DEF trace_remap
  <2>7. trace_issue(e) => Same /\ e.act = "D"
    BY <2>1 DEF trace_issue
  <2>8. trace_plug(e) \/ trace_unplug_io(e) \/ trace_unplug_timer(e) => Same /\ e.act \in {"P", "U", "T"}
    BY <1>1 DEF trace_plug, trace_unplug_io, trace_unplug_timer, Replugged
  <2>9. trace_complete(e) =>
          /\ e.act = "C" /\ "lives" \in DOMAIN system'
          /\ Same \/ system'.lives = Lived(d, e)
          /\ Linked(e) => system'.lives = Lived(d, e)
    <3> SUFFICES ASSUME trace_complete(e)
                 PROVE  /\ e.act = "C" /\ "lives" \in DOMAIN system'
                        /\ Same \/ system'.lives = Lived(d, e)
                        /\ Linked(e) => system'.lives = Lived(d, e)
      OBVIOUS
    <3> DEFINE sent == {q \in dip_foreach(Opened(e), e) : q.d # None}
               lived == IF sent = {} THEN system.lives
                        ELSE p_live_add(system.lives, Min({q.d : q \in sent}), e.time)
    <3>1. e.act = "C" /\ (NotSetUp(e) \/ system' = [system EXCEPT !.regions.c = update_range(@, e.time),
                           !.lives = lived, !.rate = rstat_add(@, e.time, e.len)])
      BY DEF trace_complete
    <3>2. Opened(e).qs = Dip(d).qs
      BY OpenedSame
    <3>3. sent = Sent(d, e)
      BY <3>2 DEF Sent, dip_foreach
    <3>4. lived = Lived(d, e)
      BY <3>3 DEF Lived
    <3> HIDE DEF lived
    <3> QED BY <2>1, <3>1, <3>4
  <2> QED BY <1>4, <2>4, <2>5, <2>6, <2>7, <2>8, <2>9 DEF add_trace, __add_trace
<1> QED BY <1>2, <1>3, <1>4

LEMMA FinishedStep ==
  ASSUME KernelInv, KernelStep, NEW e, e = event'
  PROVE  /\ \A f \in finished' : f \in finished \/ (f.issue \in 0..clock /\ f.end = clock + 1)
         /\ IF e.act = "C" /\ e.dev = Lower /\ ~e.pc
            THEN \E l \in Fs(In("issued")) :
                   /\ OfRequest(e, l)
                   /\ Served' = Served \cup {[dev |-> Lower, issue |-> issued[l], end |-> clock + 1, bios |-> rq[l]]}
            ELSE Served' = Served
<1>0. /\ KernelTypes /\ scene' = scene /\ Lower # Mapped /\ (\A b : bio(b)' = bio(b))
      /\ clock \in Nat /\ issued \in [Bios -> Nat] /\ \A b \in Bios : issued[b] <= clock
  BY StepTicks, DevicesAssumption DEF KernelInv, KernelTypes, bio
<1> DEFINE F(fin) == {f \in fin : f.dev = Lower /\ Fs(f.bios) # {}}
<1>1. Served = F(finished) /\ Served' = F(finished')
  BY <1>0 DEF Served, Fs
<1>2. finished' = finished \/ \E b \in Bios : Complete(b) \/ CompleteAbove(b)
  BY DEF KernelStep, Announce, Submit, Remap, SubmitBelow, Sleep, Allocate, Insert, Pass, Issue, Requeue, Merge, Plug, Unplug
<1>3. ASSUME NEW l \in Bios, Complete(l)
      PROVE  /\ e.act = "C" /\ e.dev = Lower /\ e.pc = bio(l).pc /\ OfRequest(e, l)
             /\ l \in In("issued") /\ l \in rq[l] /\ \A b \in rq[l] : bio(b).pc = bio(l).pc
             /\ finished' = finished \cup {[dev |-> Lower, issue |-> issued[l], end |-> clock + 1, bios |-> rq[l]]}
  <2>1. l \in Requests /\ l \in In("issued")
    BY <1>3 DEF Complete, Requests, Places, In
  <2>2. l \in rq[l] /\ \A b \in rq[l] : bio(b).pc = bio(l).pc
    BY <2>1 DEF KernelInv, Placed, IsRequest
  <2> QED BY <1>0, <1>3, <2>1, <2>2, Events DEF OfRequest, Complete
<1>4. ASSUME NEW b \in Bios, CompleteAbove(b)
      PROVE  /\ e.act = "C" /\ e.dev = Mapped
             /\ finished' = finished \cup {[dev |-> Mapped, issue |-> 0, end |-> clock + 1, bios |-> {b}]}
  BY <1>0, <1>4, Events DEF CompleteAbove
<1>5. \A f \in finished' : f \in finished \/ (f.issue \in 0..clock /\ f.end = clock + 1)
  <2>1. CASE finished' = finished
    BY <2>1
  <2>2. CASE \E b \in Bios : Complete(b) \/ CompleteAbove(b)
    BY <1>0, <1>3, <1>4, <2>2
  <2> QED BY <1>2, <2>1, <2>2
<1>6. ASSUME e.act = "C", e.dev = Lower, ~e.pc
      PROVE  \E l \in Fs(In("issued")) :
                   /\ OfRequest(e, l)
                   /\ Served' = Served \cup {[dev |-> Lower, issue |-> issued[l], end |-> clock + 1, bios |-> rq[l]]}
  <2>1. PICK l \in Bios : Complete(l)
    BY <1>0, <1>6, PacketEvents
  <2> DEFINE f == [dev |-> Lower, issue |-> issued[l], end |-> clock + 1, bios |-> rq[l]]
  <2>2. l \in Fs(In("issued")) /\ OfRequest(e, l) /\ finished' = finished \cup {f}
    BY <1>3, <1>6, <2>1 DEF Fs
  <2>3. f.dev = Lower /\ Fs(f.bios) # {}
    BY <1>3, <2>1, <2>2 DEF Fs
  <2> HIDE DEF f
  <2>4. F(finished \cup {f}) = F(finished) \cup {f}
    BY <2>3
  <2> QED BY <1>1, <2>2, <2>4 DEF f
<1>7. ASSUME ~(e.act = "C" /\ e.dev = Lower /\ ~e.pc) PROVE Served' = Served
  <2>1. CASE finished' = finished
    BY <1>1, <2>1
  <2>2. CASE \E b \in Bios : Complete(b)
    <3>1. PICK l \in Bios : Complete(l)
      BY <2>2
    <3> DEFINE f == [dev |-> Lower, issue |-> issued[l], end |-> clock + 1, bios |-> rq[l]]
    <3>2. bio(l).pc /\ finished' = finished \cup {f} /\ Fs(f.bios) = {}
      BY <1>3, <1>7, <3>1 DEF Fs
    <3> HIDE DEF f
    <3>3. F(finished \cup {f}) = F(finished)
      BY <3>2
    <3> QED BY <1>1, <3>2, <3>3
  <2>3. CASE \E b \in Bios : CompleteAbove(b)
    <3>1. PICK b \in Bios : CompleteAbove(b)
      BY <2>3
    <3> DEFINE f == [dev |-> Mapped, issue |-> 0, end |-> clock + 1, bios |-> {b}]
    <3>2. finished' = finished \cup {f} /\ f.dev # Lower
      BY <1>0, <1>4, <3>1
    <3> HIDE DEF f
    <3>3. F(finished \cup {f}) = F(finished)
      BY <3>2
    <3> QED BY <1>1, <3>2, <3>3
  <2> QED BY <1>2, <2>1, <2>2, <2>3
<1> QED BY <1>5, <1>6, <1>7

(* What a completion finds at the disk was issued with its request.          *)
LEMMA SentIs ==
  ASSUME KernelInv, Separate, DiskQueue, NEW l \in Fs(In("issued")), NEW e, OfRequest(e, l)
  PROVE  Sent(Lower, e) # {} /\ {q.d : q \in Sent(Lower, e)} = {issued[l]} /\ OnDisk # {}
<1>1. /\ Matches(Dip(Lower).qs, OnDisk) /\ IssuedAt(Dip(Lower).qs, l, issued[l])
      /\ rq[l] \subseteq OnDisk /\ l \in Fs(Requests) /\ l \in rq[l] /\ issued[l] \in Nat
  <2>1. rq[l] \subseteq OnDisk /\ l \in Fs(Requests)
    BY OnDiskHas
  <2>2. l \in rq[l] /\ l \in Bios
    BY <2>1, RequestSpan DEF Fs
  <2> QED BY <2>1, <2>2 DEF DiskQueue, Holds, KernelInv, KernelTypes
<1>2. ASSUME NEW q \in Dip(Lower).qs, NEW c \in OnDisk, About(q, c)
      PROVE  q \in dip_foreach(Dip(Lower), e) <=> c \in rq[l]
  <2>1. (e.sec <= q.sec /\ q.sec + q.len <= e.sec + e.len) <=> c \in rq[l]
    BY <1>1, <1>2, FoundIs
  <2> QED BY <2>1 DEF dip_foreach
<1>3. dip_foreach(Dip(Lower), e) \subseteq Dip(Lower).qs
  BY DEF dip_foreach
<1>4. ASSUME NEW q \in dip_foreach(Dip(Lower), e) PROVE q.d = issued[l]
  <2>1. PICK c \in OnDisk : About(q, c)
    BY <1>1, <1>3 DEF Matches
  <2>2. c \in rq[l]
    BY <1>2, <1>3, <2>1
  <2> QED BY <1>1, <1>3, <2>1, <2>2 DEF IssuedAt
<1>5. PICK q \in dip_foreach(Dip(Lower), e) : TRUE
  <2>1. PICK q \in Dip(Lower).qs : About(q, l)
    BY <1>1 DEF Matches
  <2>2. q \in dip_foreach(Dip(Lower), e)
    BY <1>1, <1>2, <2>1
  <2> QED BY <2>2
<1>6. issued[l] # None
  BY <1>1 DEF None
<1>7. \A p \in dip_foreach(Dip(Lower), e) : p \in Sent(Lower, e) /\ p.d = issued[l]
  BY <1>4, <1>6 DEF Sent
<1>8. Sent(Lower, e) \subseteq dip_foreach(Dip(Lower), e) /\ q \in Sent(Lower, e)
  BY <1>5, <1>7 DEF Sent
<1>9. {p.d : p \in Sent(Lower, e)} = {issued[l]}
  BY <1>7, <1>8
<1> QED BY <1>1, <1>8, <1>9

LEMMA LivesKept ==
  ASSUME KernelInv, KernelStep, DipTypes, LivesInv, NEW e, e = event', add_trace(e),
         lost = 0 => Usual /\ Usual' /\ DiskQueue /\ MappedQueue
  PROVE  /\ "lives" \in DOMAIN system' /\ Periods(system'.lives, clock')
         /\ \A f \in finished' : f.issue \in Nat /\ f.end \in Nat /\ f.end <= clock'
         /\ lost = 0 => \A t \in 0..clock' : Covered(system'.lives, t) <=> AtDriver(t)'
<1>0. /\ clock \in Nat /\ clock' = clock + 1 /\ e.time = clock + 1 /\ KernelTypes
      /\ issued \in [Bios -> Nat] /\ \A b \in Bios : issued[b] <= clock
  BY StepTicks DEF KernelInv, KernelTypes
<1>1. PICK d \in Devices : e.dev = d /\ d \in {Lower, Mapped} /\ Lower # Mapped
  BY <1>0, EventDevice, DevicesAssumption
<1>2. /\ "lives" \in DOMAIN system /\ Periods(system.lives, clock)
      /\ \A f \in finished : f.issue \in Nat /\ f.end \in Nat /\ f.end <= clock
      /\ lost = 0 => \A t \in 0..clock : Covered(system.lives, t) <=> AtDriver(t)
  BY DEF LivesInv
<1>3. /\ "lives" \in DOMAIN system'
      /\ system'.lives = system.lives \/ system'.lives = Lived(d, e)
      /\ e.act # "C" \/ LeftOut(e) => system'.lives = system.lives
      /\ e.act = "C" /\ ~LeftOut(e) /\ Linked(e) => system'.lives = Lived(d, e)
  BY <1>1, <1>2, LivesStep
<1>4. Periods(system.lives, clock')
  BY <1>0, <1>2 DEF Periods
<1>5. Periods(system'.lives, clock')
  <2>1. CASE Sent(d, e) = {}
    BY <1>3, <1>4, <2>1 DEF Lived
  <2>2. CASE Sent(d, e) # {}
    <3> DEFINE times == {q.d : q \in Sent(d, e)}
    <3>1. Timely(Dip(d).qs, clock)
      BY FieldNames DEF DipTypes, QTypes, Dip, Timely
    <3>2. \A q \in Sent(d, e) : q.d \in 1..clock
      BY <3>1 DEF Sent, dip_foreach, Timely
    <3>3. times \in SUBSET Nat /\ times # {} /\ times \subseteq 1..clock
      BY <1>0, <2>2, <3>2
    <3>4. Min(times) \in times
      BY <3>3, LeastOf
    <3>5. PICK dt : dt = Min(times)
      OBVIOUS
    <3>6. dt \in 0..clock
      BY <1>0, <3>3, <3>4, <3>5
    <3>7. Periods(p_live_add(system.lives, dt, e.time), e.time)
      BY <1>0, <1>2, <3>6, PeriodAdded
    <3>8. Lived(d, e) = p_live_add(system.lives, dt, e.time)
      BY <2>2, <3>5 DEF Lived
    <3> QED BY <1>0, <1>3, <1>4, <3>7, <3>8
  <2> QED BY <2>1, <2>2
<1>6. ASSUME NEW f \in finished' PROVE f.issue \in Nat /\ f.end \in Nat /\ f.end <= clock'
  <2>1. f \in finished \/ (f.issue \in 0..clock /\ f.end = clock + 1)
    BY FinishedStep
  <2> QED BY <1>0, <1>2, <2>1
<1>7. ASSUME lost = 0, NEW t \in 0..clock' PROVE Covered(system'.lives, t) <=> AtDriver(t)'
  <2>0. Separate /\ Separate' /\ DiskQueue /\ MappedQueue /\ t \in Nat
    BY <1>0, <1>7 DEF Usual
  <2>1. Covered(system.lives, t) <=> AtDriver(t)
    <3>1. CASE t \in 0..clock
      BY <1>2, <1>7, <3>1
    <3>2. CASE t = clock + 1
      <4>1. ~Covered(system.lives, t)
        BY <1>0, <1>2, <3>2 DEF Covered, Periods
      <4>2. ~AtDriver(t)
        BY <1>0, <1>2, <3>2 DEF AtDriver, Served
      <4> QED BY <4>1, <4>2
    <3> QED BY <1>0, <3>1, <3>2
  <2>2. AtDriver(t)' <=> \E f \in Served' : f.issue <= t /\ t <= f.end
    BY DEF AtDriver
  <2>3. CASE e.act = "C" /\ e.dev = Lower /\ ~e.pc
    <3>1. PICK l \in Fs(In("issued")) :
            /\ OfRequest(e, l)
            /\ Served' = Served \cup {[dev |-> Lower, issue |-> issued[l], end |-> clock + 1, bios |-> rq[l]]}
      BY <2>3, FinishedStep
    <3>2. Sent(Lower, e) # {} /\ {q.d : q \in Sent(Lower, e)} = {issued[l]} /\ OnDisk # {}
      BY <2>0, <3>1, SentIs
    <3>3. issued[l] \in 0..clock
      <4>1. l \in Bios
        BY DEF Fs, In
      <4> QED BY <1>0, <4>1
    <3>4. Min({issued[l]}) = issued[l]
      BY <3>3, LeastOf
    <3>5. Linked(e) /\ ~LeftOut(e)
      <4>1. ~Dip(Lower).culling
        BY <2>0, <3>2 DEF DiskQueue, Holds
      <4>2. ~Culled(e)
        BY <2>3, <4>1, OpenedSame
      <4>3. ~LeftOut(e)
        <5>1. t_astart \in Nat /\ t_aend \in Nat /\ t_astart <= 1 /\ clock + 1 <= t_aend
          BY <1>0, <1>7, SpanAssumption DEF Usual
        <5>2. ~(e.time < t_astart) /\ ~(e.time > t_aend)
          BY <1>0, <5>1
        <5> QED BY <2>3, <5>2 DEF LeftOut
      <4> QED BY <2>3, <4>2, <4>3 DEF Linked
    <3>6. system'.lives = p_live_add(system.lives, issued[l], e.time)
      BY <1>1, <1>3, <2>3, <3>2, <3>4, <3>5 DEF Lived
    <3>7. Covered(system'.lives, t) <=> Covered(system.lives, t) \/ (issued[l] <= t /\ t <= e.time)
      BY <1>0, <1>2, <2>0, <3>3, <3>6, PeriodAdded
    <3>8. AtDriver(t)' <=> AtDriver(t) \/ (issued[l] <= t /\ t <= clock + 1)
      <4> DEFINE r == [dev |-> Lower, issue |-> issued[l], end |-> clock + 1, bios |-> rq[l]]
      <4>1. Served' = Served \cup {r} /\ r.issue = issued[l] /\ r.end = clock + 1
        BY <3>1
      <4> HIDE DEF r
      <4> QED BY <2>2, <4>1 DEF AtDriver
    <3> QED BY <1>0, <2>1, <3>7, <3>8
  <2>4. CASE ~(e.act = "C" /\ e.dev = Lower /\ ~e.pc)
    <3>1. Served' = Served
      BY <2>4, FinishedStep
    <3>2. system'.lives = system.lives
      <4>1. CASE e.act # "C" \/ e.pc
        BY <1>3, <4>1 DEF LeftOut
      <4>2. CASE e.dev = Mapped
        <5>1. Sent(Mapped, e) = {}
          BY <2>0 DEF MappedQueue, Sent, dip_foreach
        <5> QED BY <1>1, <1>3, <4>2, <5>1 DEF Lived
      <4> QED BY <1>1, <2>4, <4>1, <4>2
    <3> QED BY <2>1, <2>2, <3>1, <3>2 DEF AtDriver
  <2> QED BY <2>3, <2>4
<1> QED BY <1>3, <1>5, <1>6, <1>7

(* The periods in which btt says the system had work are those in which a   *)
(* request that is complete was at the driver.                              *)
THEOREM LivesSound == Spec /\ []Usual => []LivesInv
<1>1. Init => LivesInv
  <2> SUFFICES ASSUME Init PROVE LivesInv
    OBVIOUS
  <2>1. system.lives = {} /\ "lives" \in DOMAIN system /\ lost = 0 /\ finished = {} /\ clock = 0
    BY DEF Init, BttInit, KernelInit
  <2>2. \A t : ~Covered(system.lives, t) /\ ~AtDriver(t)
    BY <2>1 DEF Covered, AtDriver, Served
  <2>3. Periods(system.lives, clock)
    BY <2>1 DEF Periods, Apart
  <2> QED BY <2>1, <2>2, <2>3 DEF LivesInv
<1>2. KernelInv /\ Usual /\ Usual' /\ (DipTypes /\ QueueInv) /\ LivesInv /\ [Next]_analysers => LivesInv'
  <2> SUFFICES ASSUME KernelInv, Usual, Usual', DipTypes, QueueInv, LivesInv, [Next]_analysers PROVE LivesInv'
    OBVIOUS
  <2>0. lost \in Nat /\ (lost = 0 => DiskQueue /\ MappedQueue)
    BY DEF QueueInv
  <2>1. CASE UNCHANGED analysers
    <3>1. UNCHANGED <<scene, clock, finished, system, lost>>
      BY <2>1 DEF analysers, kernel, btt
    <3>2. \A t : AtDriver(t)' <=> AtDriver(t)
      BY <3>1 DEF AtDriver, Served, Fs, bio
    <3> QED BY <3>1, <3>2 DEF LivesInv, Periods, Covered
  <2>2. CASE Traced
    <3>1. KernelStep /\ add_trace(event') /\ lost' = lost
      BY <2>2 DEF Traced
    <3>2. PICK e : e = event'
      OBVIOUS
    <3>3. /\ "lives" \in DOMAIN system' /\ Periods(system'.lives, clock')
          /\ \A f \in finished' : f.issue \in Nat /\ f.end \in Nat /\ f.end <= clock'
          /\ lost = 0 => \A t \in 0..clock' : Covered(system'.lives, t) <=> AtDriver(t)'
      BY <2>0, <3>1, <3>2, LivesKept
    <3> QED BY <2>0, <3>1, <3>3 DEF LivesInv, Periods, Covered
  <2>3. CASE Lose
    <3>1. KernelStep /\ lost' = lost + 1 /\ system' = system
      BY <2>3 DEF Lose, btt
    <3>2. clock \in Nat /\ clock' = clock + 1
      BY <3>1, StepTicks DEF KernelInv, KernelTypes
    <3>3. Periods(system.lives, clock')
      BY <3>2 DEF LivesInv, Periods
    <3>4. ASSUME NEW f \in finished' PROVE f.issue \in Nat /\ f.end \in Nat /\ f.end <= clock'
      <4>1. f \in finished \/ (f.issue \in 0..clock /\ f.end = clock + 1)
        BY <3>1, FinishedStep
      <4> QED BY <3>2, <4>1 DEF LivesInv
    <3> QED BY <2>0, <3>1, <3>3, <3>4 DEF LivesInv, Periods
  <2>4. CASE Ended
    BY <2>1, <2>4 DEF Ended
  <2> QED BY <2>1, <2>2, <2>3, <2>4 DEF Next
<1> QED BY <1>1, <1>2, KernelSound, QueueSound, PTL DEF Spec

-----------------------------------------------------------------------------
(* What the runs check.                                                     *)

LEMMA FollowsNear ==
  ASSUME NEW ios \in Nat, NEW n \in Nat, NEW unseen \in Nat, NEW k \in Nat, Follows(ios, n, unseen, k)
  PROVE  Near(ios, n, k)
BY DEF Follows, Near

(* The number of requests at the driver that blkparse prints and iowatcher   *)
(* draws is the real one but for what was lost; and btt, from a trace        *)
(* without losses or packet commands, knows how many I/Os wait and, but for  *)
(* requeues, how many are at the driver.                                    *)
THEOREM DepthsFound ==
  ASSUME "C" \in Found
  PROVE  Spec /\ []Usual => []DepthsFollow
<1>1. KernelInv /\ FlightInv /\ DepthInv /\ QueueInv => DepthsFollow
  <2> SUFFICES ASSUME KernelInv, FlightInv, DepthInv, QueueInv PROVE DepthsFollow
    OBVIOUS
  <2>1. Plain => Near(ios_in_flight, Cardinality(In("issued")), lost)
    <3> SUFFICES ASSUME Plain PROVE Near(ios_in_flight, Cardinality(In("issued")), lost)
      OBVIOUS
    <3>1. Follows(ios_in_flight, Cardinality(In("issued")), Cardinality(Unseen), lost)
      BY DEF FlightInv
    <3>2. Cardinality(In("issued")) \in Nat /\ Cardinality(Unseen) \in Nat
      <4>1. In("issued") \in SUBSET Bios /\ Unseen \in SUBSET Bios
        BY DEF In, Unseen
      <4> QED BY <4>1, BiosFinite DEF KernelInv
    <3> QED BY <3>1, <3>2, FollowsNear DEF FlightInv
  <2>2. lost = 0 /\ NoPackets => Counts
    BY DEF QueueInv, DiskQueue
  <2> QED BY <2>1, <2>2 DEF DepthInv, DepthsFollow, Counts, Waiting
<1>2. Usual => Separate
  BY DEF Usual
<1>3. Spec /\ []Separate => []FlightInv
  BY FlightSound
<1> QED BY <1>1, <1>2, <1>3, KernelSound, DepthsSound, QueueSound, PTL

(* From a trace without losses, the tree of blkparse holds the requests that *)
(* are in flight, by the sector where they start, the trees of btt the I/Os; *)
(* and no time is printed that was not measured.                            *)
THEOREM TrackedFound == Spec /\ []Usual => []TrackedIsInFlight
<1>1. KernelInv /\ TrackInv /\ QueueInv => TrackedIsInFlight
  <2> SUFFICES ASSUME KernelInv, TrackInv, QueueInv, lost = 0
               PROVE  /\ DOMAIN tracks[Lower] = {StartOf(l) : l \in Fs(Places({"allocated", "waiting", "issued"}))}
                      /\ {q.sec : q \in Dip(Mapped).qs} =
                           {bio(b).sec : b \in {c \in Bios : bio(c).mapped /\ at[c] \notin {"new", "done"}}}
                      /\ \A q \in Dip(Lower).qs : \E b \in Bios : q.sec = bio(b).sec /\ at[b] \notin {"new", "done"}
                      /\ shown # Junk
    BY DEF TrackedIsInFlight
  <2>1. Tracking /\ DiskQueue /\ MappedQueue
    BY DEF TrackInv, QueueInv
  <2>2. /\ DOMAIN tracks[Lower] = {StartOf(l) : l \in Fs(Places({"allocated", "waiting", "issued"}))}
        /\ shown # Junk
    BY <2>1 DEF Tracking, Tree, Requests
  <2>3. Matches(Dip(Mapped).qs, OnMapped) /\ Matches(Dip(Lower).qs, OnDisk)
    BY <2>1 DEF DiskQueue, MappedQueue, Holds
  <2>4. {q.sec : q \in Dip(Mapped).qs} = {bio(b).sec : b \in OnMapped}
    <3>1. \A q \in Dip(Mapped).qs : \E b \in OnMapped : q.sec = bio(b).sec
      BY <2>3 DEF Matches, About
    <3>2. \A b \in OnMapped : \E q \in Dip(Mapped).qs : q.sec = bio(b).sec
      BY <2>3 DEF Matches, About
    <3> QED BY <3>1, <3>2
  <2>5. OnMapped = {c \in Bios : bio(c).mapped /\ at[c] \notin {"new", "done"}}
    BY DEF OnMapped, Live
  <2>6. \A q \in Dip(Lower).qs : \E b \in Bios : q.sec = bio(b).sec /\ at[b] \notin {"new", "done"}
    <3>1. OnDisk \subseteq Bios /\ \A b \in OnDisk : at[b] \notin {"new", "done"}
      BY OnDiskHas DEF Live
    <3> QED BY <2>3, <3>1 DEF Matches, About
  <2> QED BY <2>2, <2>4, <2>5, <2>6
<1>2. Usual => Separate
  BY DEF Usual
<1> QED BY <1>1, <1>2, KernelSound, TrackSound, QueueSound, PTL

(* The periods in which btt says the system had work are apart, and from a   *)
(* trace without losses they are those in which a request that is complete   *)
(* was at the driver.                                                       *)
THEOREM LivesFound == Spec /\ []Usual => []LivesExact
<1>1. LivesInv => LivesExact
  BY DEF LivesInv, LivesExact, Periods, Covered, AtDriver
<1> QED BY <1>1, LivesSound, PTL
===============================================================================
