------------------------------- MODULE BlockIO -------------------------------
(***************************************************************************)
(* The block layer of the kernel, as far as the programs that read traces  *)
(* rely on it (code outside the repository): which events a bio or request *)
(* passes through, and in which order.                                     *)
(*                                                                         *)
(* A bio for a mapped device is queued there (Q), remapped (A) and queued  *)
(* again below.  A bio gets a request of its own (G, perhaps after         *)
(* sleeping, S), which is inserted (I), or is merged at the back (M) or    *)
(* the front (F) of one that waits.  A waiting request is issued (D), may  *)
(* be requeued (R), and is completed (C), in whatever process is running;  *)
(* then a mapped bio is complete, too.  A packet command (pc) is a request *)
(* without a bio.  One direction stands for reads and writes, which the    *)
(* readers count apart in the same way.                                    *)
(***************************************************************************)
EXTENDS Clock, FiniteSets, SequencesExt

CONSTANTS
  Devices, Lower, Mapped,   (* of the devices, a disk and one mapped to it     *)
  Pids, NoPid, Names, NoName,   (* processes and their names                    *)
  Scenes                    (* the workloads                                   *)

(* A workload: its bios, in the order they are submitted; how often requests *)
(* are requeued, the queue is plugged, events are lost; whether bios sleep   *)
(* for a request, processes are announced, and the driver waits for all.    *)
Bio == [sec : Nat, len : Nat \ {0}, pid : Pids, mapped : BOOLEAN, pc : BOOLEAN]
Scene == [bios : Seq(Bio), requeues : Nat, plugs : Nat, losses : Nat,
          sleeps : BOOLEAN, names : BOOLEAN, batch : BOOLEAN]
ASSUME ScenesAssumption ==
  Scenes \subseteq {s \in Scene : \A b \in DOMAIN s.bios : ~(s.bios[b].mapped /\ s.bios[b].pc)}
ASSUME DevicesAssumption == Lower # Mapped /\ {Lower, Mapped} \subseteq Devices

Acts == {"Q", "A", "S", "G", "I", "M", "F", "D", "R", "C", "P", "U", "T", "name"}
(* An event.  Of Q .. C: the range on the device; of A: where it came from; *)
(* of U and T: how many requests are unplugged; of name: the name.          *)
Event == [act : Acts, dev : Devices, sec : Nat, len : Nat, from : Nat, n : Nat,
          pid : Pids \cup {NoPid}, name : Names \cup {NoName}, time : Nat, pc : BOOLEAN]

VARIABLES
  scene,
  at,         (* of each bio: where it is                                      *)
  rq,         (* of each bio: the bios of the request it leads                 *)
  plugged,
  clock,
  event,      (* the last event                                               *)
  left,       (* how often the scene may still requeue and plug                *)
  named,      (* processes announced                                          *)
  queued, issued,   (* history: when bios were queued, requests issued last   *)
  finished    (* history: what was completed                                  *)

kernel == <<scene, at, rq, plugged, clock, event, left, named, queued, issued, finished>>

Bios == 1..Len(scene.bios)
bio(b) == scene.bios[b]
EndOf(b) == bio(b).sec + bio(b).len
StartOf(l) == bio(CHOOSE b \in rq[l] : \A c \in rq[l] : bio(b).sec <= bio(c).sec).sec
StopOf(l) == EndOf(CHOOSE b \in rq[l] : \A c \in rq[l] : EndOf(c) <= EndOf(b))
SizeOf(l) == StopOf(l) - StartOf(l)     (* merged bios follow one the other       *)
In(place) == {b \in Bios : at[b] = place}

NoEvent == [act |-> "name", dev |-> Lower, sec |-> 0, len |-> 0, from |-> 0, n |-> 0,
            pid |-> NoPid, name |-> NoName, time |-> 0, pc |-> FALSE]

KernelInit ==
  /\ scene \in Scenes
  /\ at = [b \in Bios |-> "new"]
  /\ rq = [b \in Bios |-> {b}]
  /\ plugged = FALSE
  /\ clock = 0
  /\ event = NoEvent
  /\ left = [requeues |-> scene.requeues, plugs |-> scene.plugs]
  /\ named = {}
  /\ queued = [b \in Bios |-> 0]
  /\ issued = [b \in Bios |-> 0]
  /\ finished = {}
-----------------------------------------------------------------------------
Emit(act, dev, sec, len, pid, pc) ==
  /\ clock' = clock + 1
  /\ event' = [NoEvent EXCEPT !.act = act, !.dev = dev, !.sec = sec, !.len = len,
                              !.pid = pid, !.time = clock + 1, !.pc = pc]
EmitBio(act, dev, b) == Emit(act, dev, bio(b).sec, bio(b).len, bio(b).pid, bio(b).pc)
EmitRequest(act, l, p) == Emit(act, Lower, StartOf(l), SizeOf(l), p, bio(l).pc)
Move(b, place) == at' = [at EXCEPT ![b] = place]

Known(b) == ~scene.names \/ bio(b).pid \in named

Announce(p, name) ==
  /\ scene.names /\ p \notin named
  /\ named' = named \cup {p}
  /\ clock' = clock + 1
  /\ event' = [NoEvent EXCEPT !.pid = p, !.name = name, !.time = clock + 1]
  /\ UNCHANGED <<scene, at, rq, plugged, left, queued, issued, finished>>

InOrder(b) == \A c \in 1..(b - 1) : at[c] # "new"

Submit(b) ==
  /\ at[b] = "new" /\ Known(b) /\ ~bio(b).pc
  /\ InOrder(b)
  /\ EmitBio("Q", IF bio(b).mapped THEN Mapped ELSE Lower, b)
  /\ Move(b, IF bio(b).mapped THEN "above" ELSE "queued")
  /\ queued' = [queued EXCEPT ![b] = clock + 1]
  /\ UNCHANGED <<scene, rq, plugged, left, named, issued, finished>>

Remap(b) ==
  /\ at[b] = "above"
  /\ clock' = clock + 1
  /\ event' = [NoEvent EXCEPT !.act = "A", !.dev = Lower, !.sec = bio(b).sec, !.len = bio(b).len,
                              !.from = bio(b).sec, !.pid = bio(b).pid, !.time = clock + 1]
  /\ Move(b, "remapped")
  /\ UNCHANGED <<scene, rq, plugged, left, named, queued, issued, finished>>

(* The step of a bio that changes nothing but the place where it is.         *)
Pass(b, from, act, to) ==
  /\ at[b] = from
  /\ bio(b).pc => InOrder(b)
  /\ EmitBio(act, Lower, b)
  /\ Move(b, to)
  /\ UNCHANGED <<scene, rq, plugged, left, named, queued, issued, finished>>

SubmitBelow(b) == Pass(b, "remapped", "Q", "queued")
Sleep(b) == scene.sleeps /\ Pass(b, "queued", "S", "asleep")
Allocate(b) == \E from \in {IF bio(b).pc THEN "new" ELSE "queued", "asleep"} :
                 Pass(b, from, "G", "allocated")
Insert(b) == Pass(b, "allocated", "I", "waiting")

Merge(b, l) ==
  /\ at[b] = "queued" /\ at[l] = "waiting" /\ ~bio(l).pc
  /\ \/ StartOf(l) + SizeOf(l) = bio(b).sec /\ EmitBio("M", Lower, b)
     \/ EndOf(b) = StartOf(l) /\ EmitBio("F", Lower, b)
  /\ Move(b, "merged")
  /\ rq' = [rq EXCEPT ![l] = @ \cup {b}]
  /\ UNCHANGED <<scene, plugged, left, named, queued, issued, finished>>

Issue(l) ==
  /\ at[l] = "waiting" /\ ~plugged
  /\ scene.batch => \A b \in Bios : at[b] \notin {"new", "queued", "allocated"}
  /\ EmitRequest("D", l, bio(l).pid)
  /\ Move(l, "issued")
  /\ issued' = [issued EXCEPT ![l] = clock + 1]
  /\ UNCHANGED <<scene, rq, plugged, left, named, queued, finished>>

Requeue(l) ==
  /\ at[l] = "issued" /\ left.requeues > 0
  /\ EmitRequest("R", l, bio(l).pid)
  /\ Move(l, "waiting")
  /\ left' = [left EXCEPT !.requeues = @ - 1]
  /\ UNCHANGED <<scene, rq, plugged, named, queued, issued, finished>>

Complete(l) ==
  /\ at[l] = "issued"
  /\ EmitRequest("C", l, NoPid)
  /\ at' = [b \in Bios |-> IF b \notin rq[l] THEN at[b] ELSE IF bio(b).mapped THEN "below" ELSE "done"]
  /\ finished' = finished \cup
       {[dev |-> Lower, issue |-> issued[l], end |-> clock + 1, bios |-> rq[l]]}
  /\ UNCHANGED <<scene, rq, plugged, left, named, queued, issued>>

CompleteAbove(b) ==
  /\ at[b] = "below"
  /\ Emit("C", Mapped, bio(b).sec, bio(b).len, NoPid, FALSE)
  /\ Move(b, "done")
  /\ finished' = finished \cup
       {[dev |-> Mapped, issue |-> 0, end |-> clock + 1, bios |-> {b}]}
  /\ UNCHANGED <<scene, rq, plugged, left, named, queued, issued>>

Plug ==
  /\ ~plugged /\ left.plugs > 0 /\ In("queued") # {}
  /\ plugged' = TRUE
  /\ left' = [left EXCEPT !.plugs = @ - 1]
  /\ Emit("P", Lower, 0, 0, NoPid, FALSE)
  /\ UNCHANGED <<scene, at, rq, named, queued, issued, finished>>

Unplug ==
  /\ plugged
  /\ plugged' = FALSE
  /\ clock' = clock + 1
  /\ \E act \in {"U", "T"} :
       event' = [NoEvent EXCEPT !.act = act, !.n = Cardinality(In("waiting")), !.time = clock + 1]
  /\ UNCHANGED <<scene, at, rq, left, named, queued, issued, finished>>

KernelStep ==
  \/ \E p \in Pids, n \in Names : Announce(p, n)
  \/ \E b \in Bios : \/ Submit(b) \/ Remap(b) \/ SubmitBelow(b) \/ Sleep(b) \/ Allocate(b)
                     \/ Insert(b) \/ Issue(b) \/ Requeue(b) \/ Complete(b) \/ CompleteAbove(b)
  \/ \E b, l \in Bios : Merge(b, l)
  \/ Plug \/ Unplug

Idle == In("done") \cup In("merged") = Bios /\ ~plugged

KernelTypeOK ==
  /\ scene \in Scenes
  /\ event \in Event
  /\ clock \in Nat
=============================================================================
