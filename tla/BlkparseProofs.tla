---------------------------- MODULE BlkparseProofs ----------------------------
(***************************************************************************)
(* Theorems about the two ways of blkparse to put events in order.         *)
(*                                                                         *)
(* On files (Merge): for any number of files and records, any batches and  *)
(* times, with and without a signal.                                       *)
(*                                                                         *)
(* On a pipe (PipeSort): every event that do_pipe reads is in one place,   *)
(* and shown once in the end, for every number of CPUs, size of a batch    *)
(* and order of arrival; and if times follow the numbers, a CPU's events   *)
(* are shown in sequence and what is reported as skipped is what is        *)
(* missing between them.                                                   *)
(***************************************************************************)
EXTENDS Merge, PipeSort, FiniteSetTheorems, SequenceTheorems,
        WellFoundedInduction, TLAPS

(* A set of numbers has a least one.                                         *)
LEMMA Least ==
  ASSUME NEW S \in SUBSET Nat, S # {}
  PROVE  \E m \in S : \A k \in Nat : k < m => k \notin S
<1>1. IsWellFoundedOn(OpToRel(<, Nat), Nat)
  BY NatLessThanWellFounded
<1>2. PICK m \in S : \A y \in Nat : <<y, m>> \in OpToRel(<, Nat) => y \notin S
  BY <1>1, WFMin
<1> QED BY <1>2 DEF OpToRel

-----------------------------------------------------------------------------
(* Events.  Its function, up to n.                                           *)
Shows(r, n, g) ==
  g = [k \in 0..n |->
         IF k = 0 THEN <<>>
         ELSE IF r[k].kind = "event" THEN Append(g[k - 1], r[k]) ELSE g[k - 1]]

(* There is such a function.                                                 *)
LEMMA ShowsExists == \A r : \A n \in Nat : \E g : Shows(r, n, g)
<1> SUFFICES ASSUME NEW r PROVE \A n \in Nat : \E g : Shows(r, n, g)
  OBVIOUS
<1>0. PICK bad : bad = {b \in Nat : ~\E f : Shows(r, b, f)}
  OBVIOUS
<1> SUFFICES ASSUME bad # {} PROVE FALSE
  BY <1>0
<1>1. PICK m \in bad : \A k \in Nat : k < m => k \notin bad
  <2>1. bad \in SUBSET Nat
    BY <1>0
  <2> QED BY <2>1, Least
<1>2. CASE m = 0
  <2>1. Shows(r, 0, [k \in 0..0 |-> <<>>])
    BY DEF Shows
  <2> QED BY <1>0, <1>1, <1>2, <2>1
<1>3. CASE m # 0
  <2>1. PICK n \in Nat : n = m - 1 /\ n < m /\ m \in Nat
    BY <1>0, <1>1, <1>3
  <2>2. PICK g : Shows(r, n, g)
    BY <1>0, <1>1, <2>1
  <2>3. PICK h : h = [k \in 0..m |->
                        IF k = 0 THEN <<>>
                        ELSE IF r[k].kind = "event" THEN Append(g[k - 1], r[k]) ELSE g[k - 1]]
    OBVIOUS
  <2>4. \A k \in 0..n : h[k] = g[k]
    <3> SUFFICES ASSUME NEW k \in 0..n PROVE h[k] = g[k]
      OBVIOUS
    <3>1. k \in 0..m
      BY <2>1
    <3>2. /\ k = 0 => h[k] = <<>>
          /\ k # 0 /\ r[k].kind = "event" => h[k] = Append(g[k - 1], r[k])
          /\ k # 0 /\ r[k].kind # "event" => h[k] = g[k - 1]
      BY <2>3, <3>1
    <3>3. /\ k = 0 => g[k] = <<>>
          /\ k # 0 /\ r[k].kind = "event" => g[k] = Append(g[k - 1], r[k])
          /\ k # 0 /\ r[k].kind # "event" => g[k] = g[k - 1]
      BY <2>2 DEF Shows
    <3> QED BY <3>2, <3>3
  <2>5. \A k \in 0..m : k = 0 \/ k - 1 \in 0..n
    BY <2>1
  <2>6. Shows(r, m, h)
    BY <2>3, <2>4, <2>5 DEF Shows
  <2> QED BY <1>0, <1>1, <2>6
<1> QED BY <1>2, <1>3

(* Records with the same beginning have the same events there.               *)
LEMMA ShowsAlike ==
  ASSUME NEW r, NEW q, NEW n \in Nat, NEW m \in Nat, NEW g, NEW h, Shows(r, n, g), Shows(q, m, h),
         NEW l \in 0..n, l <= m, \A i \in 1..l : r[i] = q[i]
  PROVE  g[l] = h[l]
<1> SUFFICES ASSUME g[l] # h[l] PROVE FALSE
  OBVIOUS
<1>0. PICK bad : bad = {k \in 0..l : g[k] # h[k]}
  OBVIOUS
<1>1. PICK k \in bad : \A i \in Nat : i < k => i \notin bad
  <2>1. bad \in SUBSET Nat /\ bad # {}
    BY <1>0
  <2> QED BY <2>1, Least
<1>2. k \in 0..n /\ k \in 0..m /\ k \in 0..l
  BY <1>0, <1>1
<1>3. CASE k = 0
  <2>1. g[0] = <<>> /\ h[0] = <<>>
    BY <1>2, <1>3 DEF Shows
  <2> QED BY <1>0, <1>1, <1>3, <2>1
<1>4. CASE k # 0
  <2>1. k - 1 \in 0..l /\ k - 1 < k
    BY <1>2, <1>4
  <2>2. g[k - 1] = h[k - 1]
    BY <1>0, <1>1, <2>1
  <2>3. r[k] = q[k]
    BY <1>2, <1>4
  <2>4. g[k] = IF r[k].kind = "event" THEN Append(g[k - 1], r[k]) ELSE g[k - 1]
    <3>1. g[k] = IF k = 0 THEN <<>>
                 ELSE IF r[k].kind = "event" THEN Append(g[k - 1], r[k]) ELSE g[k - 1]
      BY <1>2 DEF Shows
    <3> QED BY <1>4, <3>1
  <2>5. h[k] = IF q[k].kind = "event" THEN Append(h[k - 1], q[k]) ELSE h[k - 1]
    <3>1. h[k] = IF k = 0 THEN <<>>
                 ELSE IF q[k].kind = "event" THEN Append(h[k - 1], q[k]) ELSE h[k - 1]
      BY <1>2 DEF Shows
    <3> QED BY <1>4, <3>1
  <2> QED BY <1>0, <1>1, <2>2, <2>3, <2>4, <2>5
<1> QED BY <1>3, <1>4

(* Events is the value of this function at the end.                          *)
LEMMA EventsIs ==
  ASSUME NEW r, Len(r) \in Nat
  PROVE  \E g : Shows(r, Len(r), g) /\ Events(r) = g[Len(r)]
<1>1. PICK g : Shows(r, Len(r), g)
  BY ShowsExists
<1> QED BY <1>1 DEF Events, Shows

(* No records, no events.                                                    *)
LEMMA EventsNone == Events(<<>>) = <<>>
<1>1. PICK g : Shows(<<>>, 0, g) /\ Events(<<>>) = g[0]
  BY EventsIs
<1> QED BY <1>1 DEF Shows

(* One record more.                                                          *)
LEMMA EventsNext ==
  ASSUME NEW S, NEW r \in Seq(S), NEW k \in 1..Len(r)
  PROVE  Events(SubSeq(r, 1, k)) =
           IF r[k].kind = "event" THEN Append(Events(SubSeq(r, 1, k - 1)), r[k])
           ELSE Events(SubSeq(r, 1, k - 1))
<1>1. PICK a, b : a = SubSeq(r, 1, k) /\ b = SubSeq(r, 1, k - 1)
  OBVIOUS
<1>2. /\ a \in Seq(S) /\ b \in Seq(S) /\ Len(a) = k /\ Len(b) = k - 1 /\ k \in Nat /\ k - 1 \in Nat
      /\ a[k] = r[k] /\ \A i \in 1..(k - 1) : a[i] = b[i]
  BY <1>1
<1>3. PICK g : Shows(a, k, g) /\ Events(a) = g[k]
  BY <1>2, EventsIs
<1>4. PICK h : Shows(b, k - 1, h) /\ Events(b) = h[k - 1]
  BY <1>2, EventsIs
<1>5. g[k - 1] = h[k - 1]
  <2>1. k - 1 \in 0..k /\ k - 1 <= k - 1
    BY <1>2
  <2> QED BY <1>2, <1>3, <1>4, <2>1, ShowsAlike
<1>6. g[k] = IF a[k].kind = "event" THEN Append(g[k - 1], a[k]) ELSE g[k - 1]
  <2>1. k \in 0..k /\ k # 0
    BY <1>2
  <2>2. /\ a[k].kind = "event" => g[k] = Append(g[k - 1], a[k])
        /\ a[k].kind # "event" => g[k] = g[k - 1]
    <3>1. g[k] = IF k = 0 THEN <<>>
                 ELSE IF a[k].kind = "event" THEN Append(g[k - 1], a[k]) ELSE g[k - 1]
      BY <1>3, <2>1 DEF Shows
    <3> QED BY <2>1, <3>1
  <2> QED BY <2>2
<1> QED BY <1>1, <1>2, <1>3, <1>4, <1>5, <1>6

LEMMA WholeSub ==
  ASSUME NEW S, NEW r \in Seq(S)
  PROVE  SubSeq(r, 1, Len(r)) = r /\ SubSeq(r, 1, 0) = <<>>
OBVIOUS

(* What holds of the events of r, by one record after the other.             *)
LEMMA EventsAlong ==
  ASSUME NEW r \in Seq(Record), NEW ok, {<<>>} \subseteq ok[0],
         \A k \in 1..Len(r) : \A s \in ok[k - 1] :
           /\ r[k].kind = "event" => Append(s, r[k]) \in ok[k]
           /\ r[k].kind # "event" => s \in ok[k]
  PROVE  Events(r) \in ok[Len(r)]
<1> SUFFICES ASSUME Events(r) \notin ok[Len(r)] PROVE FALSE
  OBVIOUS
<1>1. PICK bad : bad = {k \in 0..Len(r) : Events(SubSeq(r, 1, k)) \notin ok[k]}
  OBVIOUS
<1>2. PICK k \in bad : \A i \in Nat : i < k => i \notin bad
  <2>1. Len(r) \in 0..Len(r) /\ 0..Len(r) \subseteq Nat
    OBVIOUS
  <2>2. Len(r) \in bad
    BY <1>1, <2>1, WholeSub
  <2>3. bad \in SUBSET Nat
    BY <1>1, <2>1
  <2> QED BY <2>2, <2>3, Least
<1>3. CASE k = 0
  <2>1. Events(SubSeq(r, 1, 0)) = <<>>
    BY WholeSub, EventsNone
  <2>2. Events(SubSeq(r, 1, 0)) \notin ok[0]
    BY <1>1, <1>2, <1>3
  <2> QED BY <2>1, <2>2
<1>4. CASE k # 0
  <2>1. k \in 1..Len(r) /\ k - 1 \in 0..Len(r) /\ k - 1 < k /\ k - 1 \in Nat
    BY <1>1, <1>2, <1>4
  <2>2. Events(SubSeq(r, 1, k - 1)) \in ok[k - 1]
    BY <1>1, <1>2, <2>1
  <2> QED BY <1>1, <1>2, <2>1, <2>2, EventsNext
<1> QED BY <1>3, <1>4

LEMMA EventsFrom ==
  ASSUME NEW r \in Seq(Record), NEW ok, {<<>>} \subseteq ok,
         \A k \in 1..Len(r) : \A s \in ok : r[k].kind = "event" => Append(s, r[k]) \in ok
  PROVE  Events(r) \in ok
<1>1. PICK along : along = [k \in 0..Len(r) |-> ok]
  OBVIOUS
<1>2. /\ 0 \in 0..Len(r) /\ Len(r) \in 0..Len(r)
      /\ \A k \in 1..Len(r) : k \in 0..Len(r) /\ k - 1 \in 0..Len(r)
  OBVIOUS
<1>3. /\ along[0] = ok /\ along[Len(r)] = ok
      /\ \A k \in 1..Len(r) : along[k] = ok /\ along[k - 1] = ok
  BY <1>1, <1>2
<1>4. Events(r) \in along[Len(r)]
  BY <1>3, EventsAlong
<1> QED BY <1>3, <1>4

(* Events are events.                                                        *)
LEMMA EventsSeq ==
  ASSUME NEW r \in Seq(Record)
  PROVE  Events(r) \in Seq(Event)
<1>1. \A k \in 1..Len(r) : r[k].kind = "event" => r[k] \in Event
  <2> SUFFICES ASSUME NEW k \in 1..Len(r), r[k].kind = "event" PROVE r[k] \in Event
    OBVIOUS
  <2>1. r[k] \in Record
    OBVIOUS
  <2> QED BY <2>1 DEF Record
<1> HIDE DEF Event
<1>2. \A k \in 1..Len(r) : \A s \in Seq(Event) : r[k].kind = "event" => Append(s, r[k]) \in Seq(Event)
  BY <1>1
<1>3. {<<>>} \subseteq Seq(Event)
  OBVIOUS
<1> QED BY <1>2, <1>3, EventsFrom

(* Records without an event, and records with one.                           *)
LEMMA NoEvents ==
  ASSUME NEW r \in Seq(Record), \A k \in 1..Len(r) : r[k].kind # "event"
  PROVE  Events(r) = <<>>
<1>1. \A k \in 1..Len(r) : \A s \in {<<>>} : r[k].kind = "event" => Append(s, r[k]) \in {<<>>}
  OBVIOUS
<1> QED BY <1>1, EventsFrom

LEMMA SomeEvents ==
  ASSUME NEW r \in Seq(Record), NEW e \in 1..Len(r), r[e].kind = "event"
  PROVE  Events(r) # <<>>
<1> SUFFICES ASSUME Events(r) = <<>> PROVE FALSE
  OBVIOUS
<1>1. PICK bad : bad = {k \in e..Len(r) : Events(SubSeq(r, 1, k)) = <<>>}
  OBVIOUS
<1>2. PICK k \in bad : \A i \in Nat : i < k => i \notin bad
  <2>1. Len(r) \in e..Len(r) /\ e..Len(r) \subseteq Nat
    OBVIOUS
  <2>2. bad \in SUBSET Nat /\ bad # {}
    BY <1>1, <2>1, WholeSub
  <2> QED BY <2>2, Least
<1>3. k \in 1..Len(r) /\ k - 1 \in Nat /\ k - 1 < k /\ Events(SubSeq(r, 1, k)) = <<>>
  BY <1>1, <1>2
<1>4. r[k].kind # "event"
  <2>1. SubSeq(r, 1, k - 1) \in Seq(Record)
    BY <1>3
  <2>2. Events(SubSeq(r, 1, k - 1)) \in Seq(Event)
    BY <2>1, EventsSeq
  <2>3. \A s \in Seq(Event) : \A x : Append(s, x) # <<>>
    <3> SUFFICES ASSUME NEW s \in Seq(Event), NEW x PROVE Append(s, x) # <<>>
      OBVIOUS
    <3>1. Len(Append(s, x)) = Len(s) + 1 /\ Len(s) \in Nat
      OBVIOUS
    <3> QED BY <3>1
  <2> QED BY <1>3, <2>2, <2>3, EventsNext
<1>5. k - 1 \in e..Len(r)
  BY <1>1, <1>2, <1>3, <1>4
<1>6. Events(SubSeq(r, 1, k - 1)) = <<>>
  BY <1>3, <1>4, EventsNext
<1> QED BY <1>1, <1>2, <1>3, <1>5, <1>6

(* The events of a part and of the rest.                                     *)
LEMMA EventsSplit ==
  ASSUME NEW r \in Seq(Record), NEW n \in 0..Len(r)
  PROVE  Events(SubSeq(r, 1, n)) \o Events(SubSeq(r, n + 1, Len(r))) = Events(r)
<1>1. PICK q : q = SubSeq(r, n + 1, Len(r))
  OBVIOUS
<1>2. PICK l \in Nat : Len(r) = l /\ n \in 0..l
  OBVIOUS
<1>3. q \in Seq(Record) /\ Len(q) = l - n /\ \A i \in 1..(l - n) : q[i] = r[n + i]
  <2>1. q = SubSeq(r, n + 1, l)
    BY <1>1, <1>2
  <2> HIDE DEF Record
  <2>2. q \in Seq(Record)
    BY <1>2, <2>1
  <2>3. Len(q) = l - n
    BY <1>2, <2>1
  <2>4. \A i \in 1..(l - n) : q[i] = r[n + i]
    BY <1>2, <2>1
  <2> QED BY <2>2, <2>3, <2>4
<1>4. PICK a : a = Events(SubSeq(r, 1, n)) /\ a \in Seq(Event)
  <2>1. SubSeq(r, 1, n) \in Seq(Record)
    OBVIOUS
  <2> QED BY <2>1, EventsSeq
<1> SUFFICES ASSUME a \o Events(q) # Events(r) PROVE FALSE
  BY <1>1, <1>4
<1>5. PICK bad : bad = {k \in 0..(l - n) : a \o Events(SubSeq(q, 1, k)) # Events(SubSeq(r, 1, n + k))}
  OBVIOUS
<1>6. PICK k \in bad : \A i \in Nat : i < k => i \notin bad
  <2>1. l - n \in 0..(l - n) /\ n + (l - n) = Len(r) /\ 0..(l - n) \subseteq Nat
    BY <1>2
  <2>2. bad \in SUBSET Nat /\ bad # {}
    BY <1>3, <1>5, <2>1, WholeSub
  <2> QED BY <2>2, Least
<1>7. CASE k = 0
  <2>1. SubSeq(q, 1, 0) = <<>> /\ n + 0 = n
    BY <1>2, <1>3, WholeSub
  <2>2. a \o <<>> = a
    BY <1>4
  <2> QED BY <1>4, <1>5, <1>6, <1>7, <2>1, <2>2, EventsNone
<1>8. CASE k # 0
  <2>1. /\ k \in 1..(l - n) /\ k - 1 \in 0..(l - n) /\ k - 1 < k /\ k - 1 \in Nat
        /\ n + k \in 1..Len(r) /\ (n + k) - 1 = n + (k - 1)
    BY <1>2, <1>5, <1>6, <1>8
  <2>2. a \o Events(SubSeq(q, 1, k - 1)) = Events(SubSeq(r, 1, n + (k - 1)))
    BY <1>5, <1>6, <2>1
  <2>3. PICK b : b = Events(SubSeq(q, 1, k - 1)) /\ b \in Seq(Event)
    <3>1. SubSeq(q, 1, k - 1) \in Seq(Record)
      BY <1>3, <2>1
    <3> QED BY <3>1, EventsSeq
  <2>4. PICK x : x = q[k] /\ x = r[n + k]
    BY <1>3, <2>1
  <2>5. Events(SubSeq(q, 1, k)) = IF x.kind = "event" THEN Append(b, x) ELSE b
    <3>1. k \in 1..Len(q)
      BY <1>3, <2>1
    <3> QED BY <1>3, <2>3, <2>4, <3>1, EventsNext
  <2>6. Events(SubSeq(r, 1, n + k)) = IF x.kind = "event" THEN Append(a \o b, x) ELSE a \o b
    BY <2>1, <2>2, <2>3, <2>4, EventsNext
  <2>7. a \o Append(b, x) = Append(a \o b, x)
    <3>1. a \in Seq(Event \cup {x}) /\ b \in Seq(Event \cup {x})
      BY <1>4, <2>3
    <3> HIDE DEF Event
    <3> QED BY <3>1
  <2> QED BY <1>5, <1>6, <2>5, <2>6, <2>7
<1> QED BY <1>7, <1>8

(* The maximum and the minimum of a set of numbers.                          *)
LEMMA MaxIn ==
  ASSUME NEW n \in Nat, NEW S \in SUBSET (0..n), S # {}
  PROVE  Max(S) \in S /\ \A y \in S : y <= Max(S)
<1>1. PICK T : T = {n - x : x \in S}
  OBVIOUS
<1>2. T \in SUBSET Nat /\ T # {}
  <2>1. \A x \in S : n - x \in Nat
    OBVIOUS
  <2>2. PICK x \in S : TRUE
    OBVIOUS
  <2> QED BY <1>1, <2>1, <2>2
<1>3. PICK m \in T : \A k \in Nat : k < m => k \notin T
  BY <1>2, Least
<1>4. PICK x \in S : m = n - x
  BY <1>1, <1>3
<1>5. ASSUME NEW y \in S PROVE x >= y
  <2>1. n - y \in T /\ n - y \in Nat /\ x \in 0..n /\ y \in 0..n
    BY <1>1, <1>2
  <2>2. ~(n - y < m)
    BY <1>3, <2>1
  <2> QED BY <1>4, <2>1, <2>2
<1>6. PICK z : z = Max(S)
  OBVIOUS
<1>7. z \in S /\ \A y \in S : z >= y
  BY <1>5, <1>6 DEF Max
<1> QED BY <1>6, <1>7

LEMMA MinIn ==
  ASSUME NEW S \in SUBSET Nat, S # {}
  PROVE  Min(S) \in S /\ \A y \in S : Min(S) <= y
<1>1. PICK m \in S : \A k \in Nat : k < m => k \notin S
  BY Least
<1>2. \A y \in S : m <= y
  BY <1>1
<1> QED BY <1>2 DEF Min

-----------------------------------------------------------------------------
(* Reading a batch.  A file has nothing behind garbage.                      *)
Whole == {f \in Seq(Record) : \A i, j \in DOMAIN f : i < j => f[i].kind # "garbage"}
Rest(f) == SubSeq(f, Reads(f) + 1, Len(f))

LEMMA CountedNat == \A s \in Seq(Record) : Counted(s) \in Nat
<1> SUFFICES ASSUME NEW s \in Seq(Record) PROVE Counted(s) \in Nat
  OBVIOUS
<1>1. IsFiniteSet(1..Len(s)) /\ DOMAIN s = 1..Len(s)
  BY FS_Interval
<1>2. IsFiniteSet({i \in DOMAIN s : s[i].kind # "notify"})
  BY <1>1, FS_Subset
<1> QED BY <1>2, FS_CardinalityType DEF Counted

(* ms_prime stops at garbage or with a full batch, and only there.           *)
LEMMA ReadsIs ==
  ASSUME NEW f \in Seq(Record)
  PROVE  /\ Reads(f) \in 0..Len(f) /\ Clean(SubSeq(f, 1, Reads(f)))
         /\ \A k \in 1..Len(f) : k > Reads(f) =>
              Counted(SubSeq(f, 1, k - 1)) >= rb_batch \/ ~Clean(SubSeq(f, 1, k))
<1>1. PICK l \in Nat : l = Len(f)
  OBVIOUS
<1>2. PICK S : S = {0} \cup {k \in 1..Len(f) : Counted(SubSeq(f, 1, k - 1)) < rb_batch
                                               /\ Clean(SubSeq(f, 1, k))}
  OBVIOUS
<1>3. S \in SUBSET (0..l) /\ S # {}
  BY <1>1, <1>2
<1>4. Reads(f) = Max(S)
  BY <1>2 DEF Reads
<1>5. Reads(f) \in S /\ \A k \in S : k <= Reads(f)
  BY <1>3, <1>4, MaxIn
<1>6. Reads(f) \in 0..Len(f)
  BY <1>1, <1>3, <1>5
<1>7. Clean(SubSeq(f, 1, Reads(f)))
  <2>1. CASE Reads(f) = 0
    <3>1. SubSeq(f, 1, 0) = <<>>
      OBVIOUS
    <3> QED BY <2>1, <3>1 DEF Clean
  <2>2. CASE Reads(f) # 0
    BY <1>2, <1>5, <2>2
  <2> QED BY <2>1, <2>2
<1>8. ASSUME NEW k \in 1..Len(f), k > Reads(f)
      PROVE  Counted(SubSeq(f, 1, k - 1)) >= rb_batch \/ ~Clean(SubSeq(f, 1, k))
  <2>1. k \notin S
    BY <1>5, <1>6, <1>8
  <2>2. Counted(SubSeq(f, 1, k - 1)) \in Nat
    <3>1. SubSeq(f, 1, k - 1) \in Seq(Record)
      OBVIOUS
    <3> QED BY <3>1, CountedNat
  <2> QED BY <1>2, <2>1, <2>2, MergeAssumption
<1> QED BY <1>6, <1>7, <1>8

(* What ms_prime reads and what it leaves make up the events of the file.    *)
LEMMA RestIs ==
  ASSUME NEW f \in Whole
  PROVE  /\ Rest(f) \in Whole /\ Len(Rest(f)) = Len(f) - Reads(f)
         /\ \A k \in 1..(Len(f) - Reads(f)) : Rest(f)[k] = f[Reads(f) + k]
         /\ Primed(f) \in Seq(Event)
         /\ Primed(f) \o Events(Rest(f)) = Events(f)
<1>1. f \in Seq(Record) /\ Reads(f) \in 0..Len(f)
  BY ReadsIs DEF Whole
<1>2. PICK l \in Nat, r \in Nat : l = Len(f) /\ r = Reads(f) /\ r \in 0..l
  BY <1>1
<1>3. PICK q : q = Rest(f)
  OBVIOUS
<1>4. q \in Seq(Record) /\ Len(q) = l - r /\ \A k \in 1..(l - r) : q[k] = f[r + k]
  <2>1. q = SubSeq(f, r + 1, l) /\ l = Len(f)
    BY <1>2, <1>3 DEF Rest
  <2> HIDE DEF Record
  <2>2. q \in Seq(Record)
    BY <1>1, <1>2, <2>1
  <2>3. Len(q) = l - r
    BY <1>1, <1>2, <2>1
  <2>4. \A k \in 1..(l - r) : q[k] = f[r + k]
    BY <1>1, <1>2, <2>1
  <2> QED BY <2>2, <2>3, <2>4
<1>5. ASSUME NEW i \in DOMAIN q, NEW j \in DOMAIN q, i < j PROVE q[i].kind # "garbage"
  <2>1. i \in 1..(l - r) /\ j \in 1..(l - r)
    BY <1>4, <1>5
  <2>2. r + i \in DOMAIN f /\ r + j \in DOMAIN f /\ r + i < r + j
    BY <1>1, <1>2, <1>5, <2>1
  <2> QED BY <1>4, <2>1, <2>2 DEF Whole
<1>6. Primed(f) \in Seq(Event)
  <2>1. SubSeq(f, 1, Reads(f)) \in Seq(Record)
    BY <1>1
  <2> QED BY <2>1, EventsSeq DEF Primed
<1>7. Primed(f) \o Events(Rest(f)) = Events(f)
  BY <1>1, EventsSplit DEF Primed, Rest
<1> QED BY <1>2, <1>3, <1>4, <1>5, <1>6, <1>7 DEF Whole

(* A file is closed when nothing is left in it.                              *)
LEMMA ClosedIsRead ==
  ASSUME NEW f \in Whole, Closes(f)
  PROVE  Events(Rest(f)) = <<>>
<1>1. f \in Seq(Record) /\ Reads(f) \in 0..Len(f) /\ Rest(f) \in Seq(Record)
  BY ReadsIs, RestIs DEF Whole
<1>2. PICK l \in Nat, r \in Nat : l = Len(f) /\ r = Reads(f) /\ r \in 0..l
  BY <1>1
<1>3. ASSUME NEW k \in 1..Len(Rest(f)) PROVE Rest(f)[k].kind # "event"
  <2>1. k \in 1..(l - r) /\ Rest(f)[k] = f[r + k]
    BY <1>2, <1>3, RestIs
  <2>2. r + 1 \in 1..l /\ r + 1 > r /\ (r + 1) - 1 = r
    BY <2>1
  <2>3. ~(Counted(SubSeq(f, 1, r)) >= rb_batch)
    <3>1. Counted(SubSeq(f, 1, r)) < rb_batch
      BY <1>2 DEF Closes
    <3>2. Counted(SubSeq(f, 1, r)) \in Int
      <4>1. SubSeq(f, 1, r) \in Seq(Record)
        <5>1. r \in 0..Len(f)
          BY <1>2
        <5> QED BY <1>1, <5>1
      <4>2. PICK s \in Seq(Record) : s = SubSeq(f, 1, r)
        BY <4>1
      <4>3. Counted(s) \in Nat
        BY CountedNat
      <4> QED BY <4>2, <4>3
    <3> QED BY <3>1, <3>2, MergeAssumption
  <2>4. ~Clean(SubSeq(f, 1, r + 1))
    BY <1>1, <1>2, <2>2, <2>3, ReadsIs
  <2>5. PICK i \in 1..(r + 1) : f[i].kind = "garbage"
    <3>1. DOMAIN SubSeq(f, 1, r + 1) = 1..(r + 1) /\ \A i \in 1..(r + 1) : SubSeq(f, 1, r + 1)[i] = f[i]
      BY <1>1, <1>2, <2>2
    <3> QED BY <2>4, <3>1 DEF Clean
  <2>6. i = r + 1
    <3>1. Clean(SubSeq(f, 1, r))
      BY <1>1, <1>2, ReadsIs
    <3>2. DOMAIN SubSeq(f, 1, r) = 1..r /\ \A n \in 1..r : SubSeq(f, 1, r)[n] = f[n]
      BY <1>1, <1>2
    <3>3. i \notin 1..r
      BY <2>5, <3>1, <3>2 DEF Clean
    <3> QED BY <3>3
  <2>7. k = 1
    <3>1. i \in DOMAIN f /\ r + k \in DOMAIN f
      <4>1. DOMAIN f = 1..l
        BY <1>1, <1>2
      <4> QED BY <2>1, <2>2, <2>6, <4>1
    <3>2. ~(i < r + k)
      BY <2>5, <3>1 DEF Whole
    <3> QED BY <2>1, <2>6, <3>2
  <2> QED BY <2>1, <2>5, <2>6, <2>7
<1> QED BY <1>1, <1>3, NoEvents

(* A batch that fills up has an event, as no other CPU's record counts.      *)
LEMMA OpenHasMore ==
  ASSUME "wrong_cpu" \notin Kinds, NEW f \in Whole, ~Closes(f)
  PROVE  Primed(f) # <<>>
<1>1. f \in Seq(Record) /\ Reads(f) \in 0..Len(f) /\ Clean(SubSeq(f, 1, Reads(f)))
  BY ReadsIs DEF Whole
<1>2. PICK s \in Seq(Record) : s = SubSeq(f, 1, Reads(f))
  <2>1. PICK r \in 0..Len(f) : r = Reads(f)
    BY <1>1
  <2>2. SubSeq(f, 1, r) \in Seq(Record)
    BY <1>1
  <2> QED BY <2>1, <2>2
<1>3. {i \in DOMAIN s : s[i].kind # "notify"} # {}
  <2>1. Cardinality({}) = 0
    BY FS_EmptySet
  <2>2. ~(Counted(s) < rb_batch)
    BY <1>2 DEF Closes
  <2>3. 0 < rb_batch
    BY MergeAssumption
  <2> QED BY <2>1, <2>2, <2>3 DEF Counted
<1>4. PICK i \in 1..Len(s) : s[i].kind # "notify"
  BY <1>3
<1>5. s[i].kind = "event"
  <2>1. s[i] \in Record /\ s[i].kind # "garbage"
    BY <1>1, <1>2, <1>4 DEF Clean
  <2> QED BY <1>4, <2>1, MergeAssumption DEF Record, Event
<1> QED BY <1>2, <1>4, <1>5, SomeEvents DEF Primed

-----------------------------------------------------------------------------
(* The list of the streams.                                                  *)
On(l, c) == \E i \in DOMAIN l : l[i] = c
Once(l) == \A i, j \in DOMAIN l : l[i] = l[j] => i = j
Sorted(l, first) == \A i, j \in DOMAIN l : i < j => first[l[i]] <= first[l[j]]

(* The list without its head.                                                *)
LEMMA TailIs ==
  ASSUME NEW l \in Seq(Cpus), l # <<>>, Once(l)
  PROVE  /\ l[1] \in Cpus /\ Tail(l) \in Seq(Cpus) /\ Once(Tail(l))
         /\ Len(Tail(l)) = Len(l) - 1 /\ \A i \in 1..(Len(l) - 1) : Tail(l)[i] = l[i + 1]
         /\ \A d : On(Tail(l), d) <=> On(l, d) /\ d # l[1]
         /\ \A first : Sorted(l, first) => Sorted(Tail(l), first)
<1>1. PICK n \in Nat : n = Len(l) /\ n > 0 /\ DOMAIN l = 1..n
  OBVIOUS
<1>2. PICK u \in Seq(Cpus) : u = Tail(l) /\ DOMAIN u = 1..(n - 1) /\ Len(u) = n - 1
                             /\ \A i \in 1..(n - 1) : u[i] = l[i + 1]
  <2>1. Tail(l) \in Seq(Cpus) /\ Len(Tail(l)) = n - 1
    BY <1>1
  <2>2. \A i \in 1..(n - 1) : Tail(l)[i] = l[i + 1]
    BY <1>1
  <2>3. DOMAIN Tail(l) = 1..(n - 1)
    BY <2>1
  <2> QED BY <2>1, <2>2, <2>3
<1>3. l[1] \in Cpus
  BY <1>1
<1>4. \A i \in 1..(n - 1) : i + 1 \in 1..n
  BY <1>1
<1>5. Once(u)
  BY <1>1, <1>2, <1>4 DEF Once
<1>6. \A first : Sorted(l, first) => Sorted(u, first)
  BY <1>1, <1>2, <1>4 DEF Sorted
<1>7. ASSUME NEW d PROVE On(u, d) <=> On(l, d) /\ d # l[1]
  <2>1. ASSUME On(u, d) PROVE On(l, d) /\ d # l[1]
    <3>1. PICK i \in 1..(n - 1) : l[i + 1] = d
      BY <1>2, <2>1 DEF On
    <3>2. i + 1 \in 1..n /\ 1 \in 1..n /\ i + 1 # 1
      BY <1>1
    <3> QED BY <1>1, <3>1, <3>2 DEF On, Once
  <2>2. ASSUME On(l, d), d # l[1] PROVE On(u, d)
    <3>1. PICK i \in 1..n : l[i] = d
      BY <1>1, <2>2 DEF On
    <3>2. i - 1 \in 1..(n - 1) /\ (i - 1) + 1 = i
      BY <1>1, <2>2, <3>1
    <3>3. u[i - 1] = d
      BY <1>2, <3>1, <3>2
    <3> QED BY <1>2, <3>2, <3>3 DEF On
  <2> QED BY <2>1, <2>2
<1> QED BY <1>1, <1>2, <1>3, <1>5, <1>6, <1>7

(* Behind leaves the earlier streams before the place, the later ones behind *)
LEMMA BehindIs ==
  ASSUME NEW l \in Seq(Cpus), l # <<>>, NEW first \in [Cpus -> Int], Sorted(l, first), NEW t \in Int
  PROVE  /\ Behind(l, t, first) \in 0..Len(l)
         /\ \A j \in 1..Len(l) : /\ j <= Behind(l, t, first) => first[l[j]] <= t
                                 /\ j > Behind(l, t, first) => t <= first[l[j]]
<1>1. PICK n \in Nat : n = Len(l) /\ n > 0 /\ DOMAIN l = 1..n
  OBVIOUS
<1>2. \A j \in 1..n : l[j] \in Cpus /\ first[l[j]] \in Int
  BY <1>1
<1>3. CASE t < first[Head(l)]
  <2>1. Behind(l, t, first) = 0 /\ Head(l) = l[1]
    BY <1>3 DEF Behind
  <2>2. ASSUME NEW j \in 1..n PROVE t <= first[l[j]]
    <3>1. 1 \in 1..n /\ (j = 1 \/ 1 < j)
      BY <1>1
    <3>2. j = 1 \/ first[l[1]] <= first[l[j]]
      BY <1>1, <3>1 DEF Sorted
    <3> QED BY <1>2, <1>3, <2>1, <3>1, <3>2
  <2> QED BY <1>1, <2>1, <2>2
<1>4. CASE ~(t < first[Head(l)])
  <2>1. PICK S : S = {k \in DOMAIN l : k = Len(l) \/ first[l[k + 1]] >= t}
    OBVIOUS
  <2>2. PICK k : k = Behind(l, t, first)
    OBVIOUS
  <2>3. k = Min(S)
    BY <1>4, <2>1, <2>2 DEF Behind
  <2>4. S \in SUBSET Nat /\ S # {}
    <3>1. n \in S
      BY <1>1, <2>1
    <3> QED BY <1>1, <2>1, <3>1
  <2>5. k \in S /\ \A y \in S : k <= y
    BY <2>3, <2>4, MinIn
  <2>6. k \in 1..n /\ (k = n \/ first[l[k + 1]] >= t)
    BY <1>1, <2>1, <2>5
  <2>7. ASSUME NEW j \in 1..n, j <= k PROVE first[l[j]] <= t
    <3>1. CASE j = 1
      BY <1>1, <1>2, <1>4, <3>1
    <3>2. CASE j # 1
      <4>1. j - 1 \in 1..n /\ j - 1 < k /\ j - 1 # n /\ (j - 1) + 1 = j
        BY <1>1, <2>6, <2>7, <3>2
      <4>2. j - 1 \notin S
        BY <2>5, <2>6, <4>1
      <4>3. ~(first[l[j]] >= t)
        BY <1>1, <2>1, <4>1, <4>2
      <4> QED BY <1>2, <4>3
    <3> QED BY <3>1, <3>2
  <2>8. ASSUME NEW j \in 1..n, j > k PROVE t <= first[l[j]]
    <3>1. k + 1 \in 1..n /\ first[l[k + 1]] >= t /\ (j = k + 1 \/ k + 1 < j)
      BY <1>1, <2>6, <2>8
    <3>2. first[l[k + 1]] <= first[l[j]]
      BY <1>1, <1>2, <3>1 DEF Sorted
    <3> QED BY <1>2, <3>1, <3>2
  <2> QED BY <1>1, <2>2, <2>6, <2>7, <2>8
<1> QED BY <1>3, <1>4

(* c put into l behind place k.                                              *)
LEMMA InsertIs ==
  ASSUME NEW l \in Seq(Cpus), NEW k \in 0..Len(l), NEW c \in Cpus
  PROVE  /\ InsertAt(l, k + 1, c) \in Seq(Cpus) /\ Len(InsertAt(l, k + 1, c)) = Len(l) + 1
         /\ \A j \in 1..(Len(l) + 1) :
              InsertAt(l, k + 1, c)[j] = IF j <= k THEN l[j] ELSE IF j = k + 1 THEN c ELSE l[j - 1]
<1>1. PICK n \in Nat : n = Len(l) /\ k \in 0..n /\ DOMAIN l = 1..n
  OBVIOUS
<1>2. PICK a \in Seq(Cpus) : a = SubSeq(l, 1, k) /\ Len(a) = k /\ \A j \in 1..k : a[j] = l[j]
  <2>1. SubSeq(l, 1, k) \in Seq(Cpus)
    BY <1>1
  <2>2. Len(SubSeq(l, 1, k)) = k /\ \A j \in 1..k : SubSeq(l, 1, k)[j] = l[j]
    BY <1>1
  <2> QED BY <2>1, <2>2
<1>3. PICK b \in Seq(Cpus) : b = SubSeq(l, k + 1, n) /\ Len(b) = n - k
                             /\ \A j \in 1..(n - k) : b[j] = l[k + j]
  <2>1. SubSeq(l, k + 1, n) \in Seq(Cpus)
    BY <1>1
  <2>2. Len(SubSeq(l, k + 1, n)) = n - k /\ \A j \in 1..(n - k) : SubSeq(l, k + 1, n)[j] = l[k + j]
    BY <1>1
  <2> QED BY <2>1, <2>2
<1>4. PICK s : s = a \o <<c>> \o b
  OBVIOUS
<1>5. s = InsertAt(l, k + 1, c)
  <2>1. (k + 1) - 1 = k
    BY <1>1
  <2> QED BY <1>1, <1>2, <1>3, <1>4, <2>1 DEF InsertAt
<1>6. PICK ac \in Seq(Cpus) : ac = a \o <<c>> /\ Len(ac) = k + 1
                              /\ (\A j \in 1..k : ac[j] = l[j]) /\ ac[k + 1] = c
  <2> HIDE DEF Cpus
  <2>1. a \o <<c>> \in Seq(Cpus) /\ Len(a \o <<c>>) = k + 1
    BY <1>1, <1>2
  <2>2. \A j \in 1..k : (a \o <<c>>)[j] = l[j]
    BY <1>1, <1>2
  <2>3. (a \o <<c>>)[k + 1] = c
    BY <1>1, <1>2
  <2> QED BY <2>1, <2>2, <2>3
<1>7. s \in Seq(Cpus) /\ Len(s) = n + 1 /\ s = ac \o b
  <2>1. s = ac \o b
    BY <1>4, <1>6
  <2>2. ac \o b \in Seq(Cpus) /\ Len(ac \o b) = Len(ac) + Len(b)
    OBVIOUS
  <2>3. Len(ac \o b) = (k + 1) + (n - k) /\ (k + 1) + (n - k) = n + 1
    <3>1. (k + 1) + (n - k) = n + 1
      BY <1>1
    <3>2. Len(ac \o b) = (k + 1) + (n - k)
      BY <1>3, <1>6, <2>2
    <3> QED BY <3>1, <3>2
  <2>4. s \in Seq(Cpus)
    BY <2>1, <2>2
  <2> QED BY <2>1, <2>3, <2>4
<1>8. ASSUME NEW j \in 1..(n + 1)
      PROVE  s[j] = IF j <= k THEN l[j] ELSE IF j = k + 1 THEN c ELSE l[j - 1]
  <2>1. CASE j <= k + 1
    <3>1. s[j] = ac[j]
      BY <1>1, <1>6, <1>7, <2>1
    <3>2. j \in 1..k \/ j = k + 1
      BY <1>1, <2>1
    <3> QED BY <1>1, <1>6, <3>1, <3>2
  <2>2. CASE ~(j <= k + 1)
    <3>1. j - (k + 1) \in 1..(n - k) /\ k + (j - (k + 1)) = j - 1
      BY <1>1, <2>2
    <3>2. s[j] = b[j - (k + 1)]
      <4>1. j \in (k + 2)..(n + 1) /\ k + 1 \in Nat /\ n - k \in Nat /\ (k + 1) + (n - k) = n + 1
        BY <1>1, <2>2
      <4>2. \A i \in 1..(Len(ac) + Len(b)) : i > Len(ac) => (ac \o b)[i] = b[i - Len(ac)]
        OBVIOUS
      <4>3. Len(ac) + Len(b) = n + 1
        BY <1>3, <1>6, <4>1
      <4>4. j \in 1..(Len(ac) + Len(b)) /\ j > Len(ac)
        BY <1>6, <2>2, <4>1, <4>3
      <4> QED BY <1>6, <1>7, <4>2, <4>4
    <3> QED BY <1>1, <1>3, <2>2, <3>1, <3>2
  <2> QED BY <2>1, <2>2
<1> QED BY <1>1, <1>5, <1>7, <1>8

(* ms_sort puts one more stream into a sorted list.                          *)
LEMMA SortIs ==
  ASSUME NEW l \in Seq(Cpus), Once(l), NEW c \in Cpus, ~On(l, c),
         NEW first \in [Cpus -> Int], Sorted(l, first)
  PROVE  /\ ms_sort(l, c, first) \in Seq(Cpus) /\ Once(ms_sort(l, c, first))
         /\ Sorted(ms_sort(l, c, first), first)
         /\ \A d : On(ms_sort(l, c, first), d) <=> d = c \/ On(l, d)
<1>1. CASE l = <<>>
  <2>1. PICK s \in Seq(Cpus) : s = ms_sort(l, c, first) /\ DOMAIN s = {1} /\ s[1] = c
    <3>1. ms_sort(l, c, first) = <<c>>
      BY <1>1 DEF ms_sort
    <3>2. <<c>> \in Seq(Cpus) /\ DOMAIN <<c>> = {1} /\ <<c>>[1] = c
      OBVIOUS
    <3> QED BY <3>1, <3>2
  <2>2. Once(s) /\ Sorted(s, first)
    BY <2>1 DEF Once, Sorted
  <2>3. \A d : On(s, d) <=> d = c \/ On(l, d)
    BY <1>1, <2>1 DEF On
  <2> QED BY <2>1, <2>2, <2>3
<1>2. CASE l # <<>>
  <2>1. PICK n \in Nat : n = Len(l) /\ DOMAIN l = 1..n
    OBVIOUS
  <2>2. PICK k : k = Behind(l, first[c], first)
    OBVIOUS
  <2>3. first[c] \in Int
    OBVIOUS
  <2>4. /\ k \in 0..n
        /\ \A j \in 1..n : /\ j <= k => first[l[j]] <= first[c]
                           /\ j > k => first[c] <= first[l[j]]
    BY <1>2, <2>1, <2>2, <2>3, BehindIs
  <2>5. PICK s : s = ms_sort(l, c, first) /\ s = InsertAt(l, k + 1, c)
    BY <1>2, <2>2 DEF ms_sort
  <2>6. /\ s \in Seq(Cpus) /\ Len(s) = n + 1
        /\ \A j \in 1..(n + 1) : s[j] = IF j <= k THEN l[j] ELSE IF j = k + 1 THEN c ELSE l[j - 1]
    <3>1. k \in 0..Len(l)
      BY <2>1, <2>4
    <3>2. /\ InsertAt(l, k + 1, c) \in Seq(Cpus) /\ Len(InsertAt(l, k + 1, c)) = Len(l) + 1
          /\ \A j \in 1..(Len(l) + 1) :
               InsertAt(l, k + 1, c)[j] = IF j <= k THEN l[j] ELSE IF j = k + 1 THEN c ELSE l[j - 1]
      BY <3>1, InsertIs
    <3> QED BY <2>1, <2>5, <3>2
  <2>7. DOMAIN s = 1..(n + 1)
    BY <2>1, <2>6
  <2>8. \A j \in 1..(n + 1) : \/ j <= k /\ j \in 1..n /\ s[j] = l[j]
                              \/ j = k + 1 /\ s[j] = c
                              \/ j > k + 1 /\ j - 1 \in 1..n /\ s[j] = l[j - 1]
    <3> SUFFICES ASSUME NEW j \in 1..(n + 1)
                 PROVE  \/ j <= k /\ j \in 1..n /\ s[j] = l[j]
                        \/ j = k + 1 /\ s[j] = c
                        \/ j > k + 1 /\ j - 1 \in 1..n /\ s[j] = l[j - 1]
      OBVIOUS
    <3>1. \/ j <= k /\ j \in 1..n
          \/ j = k + 1 /\ ~(j <= k)
          \/ j > k + 1 /\ j - 1 \in 1..n /\ ~(j <= k) /\ j # k + 1
      BY <2>1, <2>4
    <3> QED BY <2>6, <3>1
  <2>9. \A j \in 1..n : l[j] # c /\ l[j] \in Cpus
    BY <2>1 DEF On
  <2>10. Once(s)
    <3> SUFFICES ASSUME NEW i \in 1..(n + 1), NEW j \in 1..(n + 1), s[i] = s[j] PROVE i = j
      BY <2>7 DEF Once
    <3>1. \/ i <= k /\ i \in 1..n /\ s[i] = l[i]
          \/ i = k + 1 /\ s[i] = c
          \/ i > k + 1 /\ i - 1 \in 1..n /\ s[i] = l[i - 1]
      BY <2>8
    <3>2. \/ j <= k /\ j \in 1..n /\ s[j] = l[j]
          \/ j = k + 1 /\ s[j] = c
          \/ j > k + 1 /\ j - 1 \in 1..n /\ s[j] = l[j - 1]
      BY <2>8
    <3>3. \A x, y \in 1..n : l[x] = l[y] => x = y
      BY <2>1 DEF Once
    <3>4. CASE i <= k /\ i \in 1..n /\ s[i] = l[i]
      <4>1. j # k + 1
        BY <2>1, <2>4, <2>9, <3>2, <3>4
      <4>2. CASE j <= k /\ j \in 1..n /\ s[j] = l[j]
        BY <3>3, <3>4, <4>2
      <4>3. CASE j > k + 1 /\ j - 1 \in 1..n /\ s[j] = l[j - 1]
        <5>1. i = j - 1
          BY <3>3, <3>4, <4>3
        <5> QED BY <2>1, <2>4, <3>4, <4>3, <5>1
      <4> QED BY <3>2, <4>1, <4>2, <4>3
    <3>5. CASE i = k + 1 /\ s[i] = c
      BY <2>9, <3>2, <3>5
    <3>6. CASE i > k + 1 /\ i - 1 \in 1..n /\ s[i] = l[i - 1]
      <4>1. j # k + 1
        BY <2>1, <2>4, <2>9, <3>2, <3>6
      <4>2. CASE j <= k /\ j \in 1..n /\ s[j] = l[j]
        <5>1. j = i - 1
          BY <3>3, <3>6, <4>2
        <5> QED BY <2>1, <2>4, <3>6, <4>2, <5>1
      <4>3. CASE j > k + 1 /\ j - 1 \in 1..n /\ s[j] = l[j - 1]
        <5>1. i - 1 = j - 1
          BY <3>3, <3>6, <4>3
        <5> QED BY <5>1
      <4> QED BY <3>2, <4>1, <4>2, <4>3
    <3> QED BY <3>1, <3>4, <3>5, <3>6
  <2>11. Sorted(s, first)
    <3> SUFFICES ASSUME NEW i \in 1..(n + 1), NEW j \in 1..(n + 1), i < j
                 PROVE  first[s[i]] <= first[s[j]]
      BY <2>7 DEF Sorted
    <3>1. \/ i <= k /\ i \in 1..n /\ s[i] = l[i]
          \/ i = k + 1 /\ s[i] = c
          \/ i > k + 1 /\ i - 1 \in 1..n /\ s[i] = l[i - 1]
      BY <2>8
    <3>2. \/ j <= k /\ j \in 1..n /\ s[j] = l[j]
          \/ j = k + 1 /\ s[j] = c
          \/ j > k + 1 /\ j - 1 \in 1..n /\ s[j] = l[j - 1]
      BY <2>8
    <3>3. \A x, y \in 1..n : x < y => first[l[x]] <= first[l[y]]
      BY <2>1 DEF Sorted
    <3>4. CASE i <= k /\ i \in 1..n /\ s[i] = l[i]
      <4>1. CASE j <= k /\ j \in 1..n /\ s[j] = l[j]
        BY <3>3, <3>4, <4>1
      <4>2. CASE j = k + 1 /\ s[j] = c
        BY <2>4, <3>4, <4>2
      <4>3. CASE j > k + 1 /\ j - 1 \in 1..n /\ s[j] = l[j - 1]
        <5>1. i < j - 1
          BY <2>1, <2>4, <3>4, <4>3
        <5> QED BY <3>3, <3>4, <4>3, <5>1
      <4> QED BY <3>2, <4>1, <4>2, <4>3
    <3>5. CASE i = k + 1 /\ s[i] = c
      <4>1. j > k + 1 /\ j - 1 \in 1..n /\ s[j] = l[j - 1] /\ j - 1 > k
        BY <2>1, <2>4, <3>2, <3>5
      <4> QED BY <2>4, <3>5, <4>1
    <3>6. CASE i > k + 1 /\ i - 1 \in 1..n /\ s[i] = l[i - 1]
      <4>1. j > k + 1 /\ j - 1 \in 1..n /\ s[j] = l[j - 1] /\ i - 1 < j - 1
        BY <2>1, <2>4, <3>2, <3>6
      <4> QED BY <3>3, <3>6, <4>1
    <3> QED BY <3>1, <3>4, <3>5, <3>6
  <2>12. ASSUME NEW d PROVE On(s, d) <=> d = c \/ On(l, d)
    <3>1. ASSUME On(s, d) PROVE d = c \/ On(l, d)
      BY <2>1, <2>7, <2>8, <3>1 DEF On
    <3>2. ASSUME d = c PROVE On(s, d)
      <4>1. k + 1 \in 1..(n + 1) /\ ~(k + 1 <= k)
        BY <2>1, <2>4
      <4>2. s[k + 1] = c
        BY <2>6, <4>1
      <4> QED BY <2>7, <3>2, <4>1, <4>2 DEF On
    <3>3. ASSUME On(l, d) PROVE On(s, d)
      <4>1. PICK j \in 1..n : l[j] = d
        BY <2>1, <3>3 DEF On
      <4>2. CASE j <= k
        <5>1. j \in 1..(n + 1)
          BY <2>1
        <5>2. s[j] = l[j]
          BY <2>6, <4>2, <5>1
        <5> QED BY <2>7, <4>1, <5>1, <5>2 DEF On
      <4>3. CASE j > k
        <5>1. j + 1 \in 1..(n + 1) /\ ~(j + 1 <= k) /\ j + 1 # k + 1 /\ (j + 1) - 1 = j
          BY <2>1, <2>4, <4>3
        <5>2. s[j + 1] = l[j]
          BY <2>6, <5>1
        <5> QED BY <2>7, <4>1, <5>1, <5>2 DEF On
      <4> QED BY <2>4, <4>2, <4>3
    <3> QED BY <3>1, <3>2, <3>3
  <2> QED BY <2>5, <2>6, <2>10, <2>11, <2>12
<1> QED BY <1>1, <1>2

(* ms_resort sorts a list of which only the head may be out of place.        *)
LEMMA ResortIs ==
  ASSUME NEW l \in Seq(Cpus), l # <<>>, Once(l), NEW first \in [Cpus -> Int],
         Sorted(Tail(l), first)
  PROVE  /\ ms_resort(l, first) \in Seq(Cpus) /\ Once(ms_resort(l, first))
         /\ Sorted(ms_resort(l, first), first)
         /\ \A d : On(ms_resort(l, first), d) <=> On(l, d)
<1>1. PICK n \in Nat : n = Len(l) /\ n > 0 /\ DOMAIN l = 1..n
  OBVIOUS
<1>2. PICK u, c : u = Tail(l) /\ c = l[1]
  OBVIOUS
<1>3. /\ c \in Cpus /\ u \in Seq(Cpus) /\ Once(u) /\ Sorted(u, first)
      /\ Len(u) = n - 1 /\ \A i \in 1..(n - 1) : u[i] = l[i + 1]
      /\ \A d : On(u, d) <=> On(l, d) /\ d # c
  BY <1>1, <1>2, TailIs
<1>4. On(l, c)
  BY <1>1, <1>2 DEF On
<1>5. CASE n > 1 /\ first[l[1]] > first[l[2]]
  <2>1. ms_resort(l, first) = ms_sort(u, c, first)
    BY <1>1, <1>2, <1>5 DEF ms_resort
  <2>2. ~On(u, c)
    BY <1>3
  <2>3. /\ ms_sort(u, c, first) \in Seq(Cpus) /\ Once(ms_sort(u, c, first))
        /\ Sorted(ms_sort(u, c, first), first)
        /\ \A d : On(ms_sort(u, c, first), d) <=> d = c \/ On(u, d)
    BY <1>3, <2>2, SortIs
  <2>4. ASSUME NEW d PROVE (d = c \/ On(u, d)) <=> On(l, d)
    BY <1>3, <1>4
  <2> QED BY <2>1, <2>3, <2>4
<1>6. CASE ~(n > 1 /\ first[l[1]] > first[l[2]])
  <2>1. ms_resort(l, first) = l
    BY <1>1, <1>6 DEF ms_resort
  <2>2. \A i \in 1..n : first[l[i]] \in Int
    BY <1>1
  <2>3. \A i, j \in 1..(n - 1) : i < j => first[u[i]] <= first[u[j]]
    <3>1. DOMAIN u = 1..(n - 1)
      BY <1>1, <1>3
    <3> QED BY <1>3, <3>1 DEF Sorted
  <2>4. ASSUME NEW i \in 1..n, NEW j \in 1..n, i < j PROVE first[l[i]] <= first[l[j]]
    <3>1. j - 1 \in 1..(n - 1) /\ 1 \in 1..(n - 1) /\ 1 + 1 = 2 /\ (j - 1) + 1 = j /\ n > 1 /\ 2 \in 1..n
      BY <1>1, <2>4
    <3>2. u[1] = l[2] /\ u[j - 1] = l[j]
      BY <1>3, <3>1
    <3>3. CASE i = 1
      <4>1. first[l[1]] <= first[l[2]]
        BY <1>1, <1>6, <2>2, <3>1
      <4>2. j - 1 = 1 \/ first[u[1]] <= first[u[j - 1]]
        BY <2>3, <2>4, <3>1, <3>3
      <4>3. first[l[2]] <= first[l[j]]
        BY <2>2, <3>1, <3>2, <4>2
      <4> QED BY <2>2, <3>1, <3>3, <4>1, <4>3
    <3>4. CASE i # 1
      <4>1. i - 1 \in 1..(n - 1) /\ (i - 1) + 1 = i /\ i - 1 < j - 1
        BY <1>1, <2>4, <3>4
      <4>2. u[i - 1] = l[i]
        BY <1>3, <4>1
      <4>3. first[u[i - 1]] <= first[u[j - 1]]
        BY <2>3, <3>1, <4>1
      <4> QED BY <3>2, <4>2, <4>3
    <3> QED BY <3>3, <3>4
  <2>5. Sorted(l, first)
    BY <1>1, <2>4 DEF Sorted
  <2> QED BY <2>1, <2>5
<1> QED BY <1>5, <1>6

-----------------------------------------------------------------------------
(* The invariant.                                                            *)
Timely(s) == \A i, j \in DOMAIN s : i < j => s[i].time <= s[j].time

(* The streams that are set up and not read to their end have an event in    *)
(* memory, those that are closed are read.                                   *)
NothingMissed ==
  ~done => \A c \in Cpus :
    c < cpu /\ (loaded[c] = <<>> \/ ~open[c]) => Events(file[c]) = <<>>

MergeInv ==
  /\ pc \in {"setup", "run", "end"} /\ cpu \in 0..NCpus /\ done \in BOOLEAN /\ genesis \in Int
  /\ pc # "setup" => cpu = NCpus
  /\ file \in [Cpus -> Whole] /\ open \in [Cpus -> BOOLEAN] /\ loaded \in [Cpus -> Seq(Event)]
  /\ list \in Seq(Cpus) /\ Once(list) /\ Sorted(list, Firsts(loaded))
  /\ \A c \in Cpus : On(list, c) <=> loaded[c] # <<>>
  /\ \A c \in Cpus : c >= cpu => loaded[c] = <<>>
  /\ \A c \in Cpus : Timely(Left(c))
  /\ NothingMissed
  /\ AllHandled

LEMMA EventTime == \A e \in Event : e.time \in Int
BY MergeAssumption DEF Event

LEMMA EventRecord == \A r \in Record : r.kind = "event" => r \in Event
BY DEF Record

(* The files blktrace writes, and the times of their events.                 *)
LEMMA FilesAreWhole ==
  ASSUME NEW f \in Files
  PROVE  f \in Whole
<1>1. PICK n \in 0..MaxRecords : f \in [1..n -> Record]
  BY DEF Files
<1>2. n \in Nat
  BY <1>1, MergeAssumption
<1>3. f \in Seq(Record)
  BY <1>1, <1>2
<1> QED BY <1>3 DEF Files, Whole

LEMMA EventsTimely ==
  ASSUME NEW f \in Files
  PROVE  Timely(Events(f))
<1>1. f \in Seq(Record) /\ Len(f) \in Nat
  BY FilesAreWhole DEF Whole
<1>2. PICK along :
        along = [k \in 0..Len(f) |->
                   {s \in Seq(Event) : /\ Timely(s)
                                       /\ \A i \in DOMAIN s : \A j \in 1..Len(f) :
                                            j > k /\ f[j].kind = "event" => s[i].time <= f[j].time}]
  OBVIOUS
<1>3. <<>> \in along[0]
  <2>1. 0 \in 0..Len(f) /\ <<>> \in Seq(Event) /\ DOMAIN <<>> = {}
    BY <1>1
  <2> QED BY <1>2, <2>1 DEF Timely
<1>4. ASSUME NEW k \in 1..Len(f), NEW s \in along[k - 1]
      PROVE  /\ f[k].kind = "event" => Append(s, f[k]) \in along[k]
             /\ f[k].kind # "event" => s \in along[k]
  <2>1. k \in 0..Len(f) /\ k - 1 \in 0..Len(f)
    BY <1>1
  <2>2. /\ s \in Seq(Event) /\ Timely(s)
        /\ \A i \in DOMAIN s : \A j \in 1..Len(f) :
             j > k - 1 /\ f[j].kind = "event" => s[i].time <= f[j].time
    BY <1>2, <2>1
  <2>3. \A j \in 1..Len(f) : j > k => j > k - 1
    BY <1>1
  <2>4. CASE f[k].kind # "event"
    BY <1>2, <2>1, <2>2, <2>3, <2>4
  <2>5. CASE f[k].kind = "event"
    <3>1. PICK x \in Event : x = f[k]
      BY <1>1, <2>5, EventRecord
    <3>2. PICK n \in Nat : n = Len(s) /\ DOMAIN s = 1..n
      BY <2>2
    <3>3. PICK q \in Seq(Event) : q = Append(s, x) /\ DOMAIN q = 1..(n + 1) /\ q[n + 1] = x
                                  /\ \A i \in 1..n : q[i] = s[i]
      <4> HIDE DEF Event
      <4>1. Append(s, x) \in Seq(Event) /\ Len(Append(s, x)) = n + 1
        BY <2>2, <3>2
      <4>2. Append(s, x)[n + 1] = x /\ \A i \in 1..n : Append(s, x)[i] = s[i]
        BY <2>2, <3>2
      <4>3. DOMAIN Append(s, x) = 1..(n + 1)
        BY <4>1
      <4> QED BY <4>1, <4>2, <4>3
    <3>4. \A i \in 1..n : s[i].time <= x.time
      <4>1. k > k - 1 /\ k \in 1..Len(f)
        BY <1>1
      <4> QED BY <2>2, <2>5, <3>1, <3>2, <4>1
    <3>5. Timely(q)
      <4> SUFFICES ASSUME NEW i \in 1..(n + 1), NEW j \in 1..(n + 1), i < j
                   PROVE  q[i].time <= q[j].time
        BY <3>3 DEF Timely
      <4>1. i \in 1..n /\ (j \in 1..n \/ j = n + 1)
        BY <3>2
      <4> QED BY <2>2, <3>2, <3>3, <3>4, <4>1 DEF Timely
    <3>6. ASSUME NEW i \in 1..(n + 1), NEW j \in 1..Len(f), j > k, f[j].kind = "event"
          PROVE  q[i].time <= f[j].time
      <4>1. CASE i = n + 1
        <5>1. f[j] \in Event /\ k \in DOMAIN f /\ j \in DOMAIN f /\ k < j
          BY <1>1, <3>6, EventRecord
        <5>2. x.time <= f[j].time
          BY <3>1, <5>1 DEF Files
        <5> QED BY <3>3, <4>1, <5>2
      <4>2. CASE i # n + 1
        <5>1. i \in 1..n
          BY <3>2, <4>2
        <5> QED BY <2>2, <2>3, <3>2, <3>3, <3>6, <5>1
      <4> QED BY <4>1, <4>2
    <3> QED BY <1>2, <2>1, <2>5, <3>1, <3>3, <3>5, <3>6
  <2> QED BY <2>4, <2>5
<1>5. Events(f) \in along[Len(f)]
  BY <1>1, <1>3, <1>4, EventsAlong
<1> QED BY <1>1, <1>2, <1>5

(* The invariant holds at the start.                                         *)
LEMMA InitInv ==
  ASSUME Init
  PROVE  MergeInv
<1>1. file \in [Cpus -> Whole]
  BY FilesAreWhole DEF Init
<1>2. loaded \in [Cpus -> Seq(Event)] /\ open \in [Cpus -> BOOLEAN]
  BY DEF Init
<1>3. list \in Seq(Cpus) /\ Once(list) /\ Sorted(list, Firsts(loaded)) /\ \A c \in Cpus : ~On(list, c)
  <2>1. <<>> \in Seq(Cpus) /\ DOMAIN <<>> = {}
    OBVIOUS
  <2> QED BY <2>1 DEF Init, Once, Sorted, On
<1>4. \A c \in Cpus : Timely(Left(c))
  <2> SUFFICES ASSUME NEW c \in Cpus PROVE Timely(Left(c))
    OBVIOUS
  <2>1. Timely(Events(file[c])) /\ Events(file[c]) \in Seq(Event)
    BY <1>1, EventsTimely, EventsSeq DEF Init, Whole
  <2>2. <<>> \o Events(file[c]) = Events(file[c])
    BY <2>1
  <2> QED BY <2>1, <2>2 DEF Init, Left
<1>5. cpu \in 0..NCpus /\ \A c \in Cpus : ~(c < cpu)
  BY MergeAssumption DEF Init, Cpus
<1>6. NothingMissed /\ AllHandled
  BY <1>5 DEF Init, NothingMissed, AllHandled
<1>7. /\ pc \in {"setup", "run", "end"} /\ done \in BOOLEAN /\ genesis \in Int
      /\ pc # "setup" => cpu = NCpus
      /\ \A c \in Cpus : loaded[c] = <<>>
  <2>1. pc = "setup" /\ done = FALSE /\ genesis = 0 /\ loaded = [c \in Cpus |-> <<>>]
    BY DEF Init
  <2>2. pc \in {"setup", "run", "end"} /\ (pc # "setup" => cpu = NCpus)
    BY <2>1
  <2>3. done \in BOOLEAN
    BY <2>1
  <2>4. genesis \in Int
    BY <2>1
  <2>5. \A c \in Cpus : loaded[c] = <<>>
    BY <2>1
  <2> QED BY <2>2, <2>3, <2>4, <2>5
<1> QED BY <1>1, <1>2, <1>3, <1>4, <1>5, <1>6, <1>7 DEF MergeInv

-----------------------------------------------------------------------------
(* What the invariant says of the list.                                      *)
LEMMA FirstsAre ==
  ASSUME NEW m \in [Cpus -> Seq(Event)]
  PROVE  /\ Firsts(m) \in [Cpus -> Int]
         /\ \A c \in Cpus : m[c] # <<>> => Firsts(m)[c] = m[c][1].time
<1>1. ASSUME NEW c \in Cpus, m[c] # <<>> PROVE m[c][1] \in Event /\ Head(m[c]) = m[c][1]
  <2> HIDE DEF Event
  <2>1. m[c] \in Seq(Event)
    OBVIOUS
  <2> QED BY <1>1, <2>1
<1>2. \A c \in Cpus : m[c] # <<>> => Head(m[c]).time \in Int
  BY <1>1, EventTime
<1>3. -1 \in Int
  OBVIOUS
<1> QED BY <1>1, <1>2, <1>3 DEF Firsts

LEMMA SortedAlike ==
  ASSUME NEW l, NEW first, NEW other, \A d : On(l, d) => other[d] = first[d], Sorted(l, first)
  PROVE  Sorted(l, other)
BY DEF On, Sorted

LEMMA ConcatIs ==
  ASSUME NEW S, NEW s \in Seq(S), NEW t \in Seq(S), s # <<>>
  PROVE  /\ s \o t \in Seq(S) /\ s \o t # <<>>
         /\ Head(s \o t) = s[1] /\ Head(s) = s[1] /\ (s \o t)[1] = s[1] /\ s[1] \in S
         /\ Tail(s) \in Seq(S) /\ Tail(s \o t) = Tail(s) \o t
<1>1. PICK n \in Nat, m \in Nat : n = Len(s) /\ m = Len(t) /\ n > 0
  OBVIOUS
<1>2. PICK u : u = s \o t /\ u \in Seq(S) /\ Len(u) = n + m
  <2>1. s \o t \in Seq(S)
    OBVIOUS
  <2>2. Len(s \o t) = n + m
    BY <1>1
  <2> QED BY <2>1, <2>2
<1>3. \A i \in 1..n : u[i] = s[i]
  BY <1>1, <1>2
<1>4. u[1] = s[1] /\ s[1] \in S /\ Head(s) = s[1]
  BY <1>1, <1>3
<1>5. u # <<>> /\ Head(u) = u[1]
  BY <1>1, <1>2
<1>6. Tail(s) \in Seq(S) /\ Tail(u) = Tail(s) \o t
  BY <1>1, <1>2
<1> QED BY <1>2, <1>4, <1>5, <1>6

(* What is left of a stream is a sequence of events.                         *)
LEMMA LeftIs ==
  ASSUME MergeInv, NEW c \in Cpus
  PROVE  /\ loaded[c] \in Seq(Event) /\ file[c] \in Whole /\ Events(file[c]) \in Seq(Event)
         /\ Left(c) \in Seq(Event)
<1>1. loaded[c] \in Seq(Event) /\ file[c] \in Whole
  BY DEF MergeInv
<1>2. Events(file[c]) \in Seq(Event)
  BY <1>1, EventsSeq DEF Whole
<1>3. loaded[c] \o Events(file[c]) \in Seq(Event)
  <2> HIDE DEF Event
  <2> QED BY <1>1, <1>2
<1> QED BY <1>1, <1>2, <1>3 DEF Left

(* The head of the list is a stream with events in memory.                   *)
LEMMA HeadIs ==
  ASSUME MergeInv, list # <<>>
  PROVE  /\ Head(list) = list[1] /\ list[1] \in Cpus /\ loaded[list[1]] # <<>>
<1>1. list \in Seq(Cpus)
  BY DEF MergeInv
<1>2. Head(list) = list[1] /\ list[1] \in Cpus /\ 1 \in DOMAIN list
  BY <1>1
<1>3. On(list, list[1])
  BY <1>2 DEF On
<1> QED BY <1>2, <1>3 DEF MergeInv

(* A stream with something left has it in memory, and it is no earlier than *)
(* the event that is put out next.                                          *)
LEMMA HeadIsEarliest ==
  ASSUME MergeInv, ~done, pc # "setup", NEW d \in Cpus, Left(d) # <<>>
  PROVE  /\ list # <<>> /\ loaded[d] # <<>>
         /\ Head(Left(d)) = loaded[d][1] /\ Left(d)[1] = loaded[d][1]
         /\ loaded[list[1]][1].time <= loaded[d][1].time
<1>1. loaded[d] # <<>>
  <2> SUFFICES ASSUME loaded[d] = <<>> PROVE FALSE
    OBVIOUS
  <2>1. d < cpu
    BY MergeAssumption DEF MergeInv, Cpus
  <2>2. Events(file[d]) = <<>>
    BY <2>1 DEF MergeInv, NothingMissed
  <2>3. Left(d) = <<>> \o <<>>
    BY <2>2 DEF Left
  <2>4. <<>> \o <<>> = <<>>
    OBVIOUS
  <2> QED BY <2>3, <2>4
<1>2. Head(Left(d)) = loaded[d][1] /\ Left(d)[1] = loaded[d][1]
  <2>1. PICK s \in Seq(Event), t \in Seq(Event) : s = loaded[d] /\ t = Events(file[d])
    BY LeftIs
  <2>2. Left(d) = s \o t /\ s # <<>>
    BY <1>1, <2>1 DEF Left
  <2> HIDE DEF Event
  <2>3. Head(s \o t) = s[1] /\ (s \o t)[1] = s[1]
    BY <2>2, ConcatIs
  <2> QED BY <2>1, <2>2, <2>3
<1>3. PICK i \in DOMAIN list : list[i] = d
  BY <1>1 DEF MergeInv, On
<1>4. list # <<>> /\ list \in Seq(Cpus) /\ 1 \in DOMAIN list /\ (i = 1 \/ 1 < i)
  <2>1. list \in Seq(Cpus) /\ DOMAIN list = 1..Len(list) /\ Len(list) \in Nat
    BY DEF MergeInv
  <2>2. i \in 1..Len(list)
    BY <1>3, <2>1
  <2> QED BY <2>1, <2>2
<1>5. loaded \in [Cpus -> Seq(Event)]
  BY DEF MergeInv
<1>6. list[1] \in Cpus /\ loaded[list[1]] # <<>>
  BY <1>4, HeadIs
<1>7. /\ Firsts(loaded)[d] = loaded[d][1].time /\ Firsts(loaded)[list[1]] = loaded[list[1]][1].time
      /\ Firsts(loaded)[d] \in Int
  BY <1>1, <1>5, <1>6, FirstsAre
<1>8. Firsts(loaded)[list[1]] <= Firsts(loaded)[d]
  <2>1. CASE i = 1
    BY <1>3, <1>7, <2>1
  <2>2. CASE 1 < i
    BY <1>3, <1>4, <2>2 DEF MergeInv, Sorted
  <2> QED BY <1>4, <2>1, <2>2
<1> QED BY <1>1, <1>2, <1>4, <1>7, <1>8

-----------------------------------------------------------------------------
(* What reading a batch from f does: m is in memory, the rest stays.         *)
LEMMA ReadIs ==
  ASSUME "wrong_cpu" \notin Kinds, NEW f \in Whole
  PROVE  /\ Primed(f) \in Seq(Event) /\ Rest(f) \in Whole /\ Primed(f) \o Events(Rest(f)) = Events(f)
         /\ Primed(f) = <<>> \/ Closes(f) => Events(Rest(f)) = <<>>
BY RestIs, ClosedIsRead, OpenHasMore

(* What SetupFile and Handle change, in every case of theirs.                 *)
LEMMA SetupFileIs ==
  ASSUME "wrong_cpu" \notin Kinds, MergeInv, SetupFile
  PROVE  /\ cpu \in Cpus /\ cpu' = cpu + 1
         /\ \E m \in Seq(Event), f \in Whole, o \in BOOLEAN :
              /\ loaded' = [loaded EXCEPT ![cpu] = m]
              /\ file' = [file EXCEPT ![cpu] = f]
              /\ open' = [open EXCEPT ![cpu] = o]
              /\ m \o Events(f) = Events(file[cpu])
              /\ ~done => (m = <<>> \/ ~o => Events(f) = <<>>)
              /\ list' = IF m = <<>> THEN list ELSE ms_sort(list, cpu, Firsts(loaded'))
<1>1. cpu \in Cpus /\ cpu' = cpu + 1
  BY MergeAssumption DEF SetupFile, MergeInv, Cpus
<1>2. /\ file[cpu] \in Whole /\ loaded[cpu] = <<>> /\ Events(file[cpu]) \in Seq(Event)
      /\ open[cpu] \in BOOLEAN
      /\ file = [file EXCEPT ![cpu] = file[cpu]] /\ loaded = [loaded EXCEPT ![cpu] = <<>>]
      /\ open = [open EXCEPT ![cpu] = open[cpu]]
  <2>1. file[cpu] \in Whole /\ loaded[cpu] = <<>> /\ open[cpu] \in BOOLEAN
    BY <1>1 DEF MergeInv, Cpus
  <2>2. file = [file EXCEPT ![cpu] = file[cpu]] /\ open = [open EXCEPT ![cpu] = open[cpu]]
    BY <1>1 DEF MergeInv
  <2>3. loaded = [loaded EXCEPT ![cpu] = <<>>]
    BY <1>1, <2>1 DEF MergeInv
  <2>4. Events(file[cpu]) \in Seq(Event)
    BY <1>1, LeftIs
  <2> QED BY <2>1, <2>2, <2>3, <2>4
<1>3. <<>> \in Seq(Event) /\ <<>> \o Events(file[cpu]) = Events(file[cpu])
  BY <1>2
<1>4. CASE file[cpu] = <<>>
  <2>1. UNCHANGED <<file, open, loaded, list>>
    BY <1>4 DEF SetupFile
  <2>2. Events(file[cpu]) = <<>>
    BY <1>4, EventsNone
  <2> QED BY <1>1, <1>2, <1>3, <2>1, <2>2
<1>5. CASE file[cpu] # <<>> /\ done
  <2>1. /\ open' = [open EXCEPT ![cpu] = TRUE] /\ UNCHANGED file
        /\ loaded' = [loaded EXCEPT ![cpu] = <<>>] /\ list' = list
    BY <1>5 DEF SetupFile
  <2>2. TRUE \in BOOLEAN
    OBVIOUS
  <2> QED BY <1>1, <1>2, <1>3, <1>5, <2>1, <2>2
<1>6. CASE file[cpu] # <<>> /\ ~done
  <2>1. PICK m, f, o : m = Primed(file[cpu]) /\ f = Rest(file[cpu]) /\ o = ~Closes(file[cpu])
    OBVIOUS
  <2>2. /\ m \in Seq(Event) /\ f \in Whole /\ o \in BOOLEAN /\ m \o Events(f) = Events(file[cpu])
        /\ m = <<>> \/ ~o => Events(f) = <<>>
    BY <1>2, <2>1, ReadIs
  <2>3. /\ file' = [file EXCEPT ![cpu] = f] /\ open' = [open EXCEPT ![cpu] = o]
        /\ loaded' = [loaded EXCEPT ![cpu] = m]
        /\ list' = IF m = <<>> THEN list ELSE ms_sort(list, cpu, Firsts(loaded'))
    BY <1>6, <2>1 DEF SetupFile, Prime, Rest
  <2> QED BY <1>1, <2>2, <2>3
<1> QED BY <1>4, <1>5, <1>6

LEMMA HandleIs ==
  ASSUME "wrong_cpu" \notin Kinds, MergeInv, Handle
  PROVE  /\ ~done /\ pc = "run" /\ list # <<>>
         /\ \E c \in Cpus, m \in Seq(Event), f \in Whole, o \in BOOLEAN :
              /\ c = list[1] /\ loaded[c] # <<>>
              /\ out' = Append(out, loaded[c][1])
              /\ loaded' = [loaded EXCEPT ![c] = m]
              /\ file' = [file EXCEPT ![c] = f]
              /\ open' = [open EXCEPT ![c] = o]
              /\ m \o Events(f) = Tail(loaded[c]) \o Events(file[c])
              /\ m = <<>> \/ ~o => Events(f) = <<>>
              /\ list' = IF m = <<>> THEN Tail(list) ELSE ms_resort(list, Firsts(loaded'))
<1>1. ~done /\ pc = "run" /\ list # <<>> /\ cpu = NCpus
  BY DEF Handle, MergeInv
<1>2. PICK c \in Cpus : c = list[1] /\ c = Head(list) /\ loaded[c] # <<>>
  BY <1>1, HeadIs
<1>3. PICK rest \in Seq(Event) : rest = Tail(loaded[c]) /\ Head(loaded[c]) = loaded[c][1]
  <2>1. PICK s \in Seq(Event) : s = loaded[c] /\ s # <<>>
    BY <1>2, LeftIs
  <2> HIDE DEF Event
  <2>2. Tail(s) \in Seq(Event) /\ Head(s) = s[1]
    BY <2>1
  <2> QED BY <2>1, <2>2
<1>4. /\ out' = Append(out, loaded[c][1])
      /\ loaded' = [loaded EXCEPT ![c] = IF rest = <<>> /\ open[c] THEN Primed(file[c]) ELSE rest]
      /\ IF rest = <<>> /\ open[c] THEN Prime(c) ELSE UNCHANGED <<file, open>>
      /\ list' = IF (IF rest = <<>> /\ open[c] THEN Primed(file[c]) ELSE rest) = <<>>
                 THEN Tail(list) ELSE ms_resort(list, Firsts(loaded'))
  BY <1>2, <1>3 DEF Handle
<1>5. /\ file[c] \in Whole /\ Events(file[c]) \in Seq(Event) /\ open[c] \in BOOLEAN
      /\ file = [file EXCEPT ![c] = file[c]] /\ open = [open EXCEPT ![c] = open[c]]
  <2>1. open[c] \in BOOLEAN /\ file = [file EXCEPT ![c] = file[c]] /\ open = [open EXCEPT ![c] = open[c]]
    BY DEF MergeInv
  <2> QED BY <2>1, LeftIs
<1>6. CASE rest = <<>> /\ open[c]
  <2>1. PICK m, f, o : m = Primed(file[c]) /\ f = Rest(file[c]) /\ o = ~Closes(file[c])
    OBVIOUS
  <2>2. /\ m \in Seq(Event) /\ f \in Whole /\ o \in BOOLEAN /\ m \o Events(f) = Events(file[c])
        /\ m = <<>> \/ ~o => Events(f) = <<>>
    BY <1>5, <2>1, ReadIs
  <2>3. /\ file' = [file EXCEPT ![c] = f] /\ open' = [open EXCEPT ![c] = o]
        /\ loaded' = [loaded EXCEPT ![c] = m]
        /\ list' = IF m = <<>> THEN Tail(list) ELSE ms_resort(list, Firsts(loaded'))
    BY <1>4, <1>6, <2>1 DEF Prime, Rest
  <2>4. rest \o Events(file[c]) = Events(file[c])
    BY <1>5, <1>6
  <2> QED BY <1>1, <1>2, <1>3, <1>4, <2>2, <2>3, <2>4
<1>7. CASE ~(rest = <<>> /\ open[c])
  <2>1. /\ loaded' = [loaded EXCEPT ![c] = rest] /\ file' = file /\ open' = open
        /\ list' = IF rest = <<>> THEN Tail(list) ELSE ms_resort(list, Firsts(loaded'))
    BY <1>4, <1>7
  <2>2. rest = <<>> \/ ~open[c] => Events(file[c]) = <<>>
    <3> SUFFICES ASSUME ~open[c] PROVE Events(file[c]) = <<>>
      BY <1>7
    <3>1. c < cpu
      BY <1>1, MergeAssumption DEF Cpus
    <3> QED BY <1>1, <3>1 DEF MergeInv, NothingMissed
  <2>3. PICK m \in Seq(Event), f \in Whole, o \in BOOLEAN : m = rest /\ f = file[c] /\ o = open[c]
    BY <1>5
  <2>4. /\ loaded' = [loaded EXCEPT ![c] = m] /\ file' = [file EXCEPT ![c] = f]
        /\ open' = [open EXCEPT ![c] = o]
        /\ list' = IF m = <<>> THEN Tail(list) ELSE ms_resort(list, Firsts(loaded'))
        /\ m \o Events(f) = Tail(loaded[c]) \o Events(file[c])
        /\ m = <<>> \/ ~o => Events(f) = <<>>
    BY <1>3, <1>5, <2>1, <2>2, <2>3
  <2> QED BY <1>1, <1>2, <1>4, <2>4
<1> QED BY <1>6, <1>7

-----------------------------------------------------------------------------
(* The steps.                                                                *)
LEMMA SetupFileStep ==
  ASSUME "wrong_cpu" \notin Kinds, MergeInv, SetupFile
  PROVE  MergeInv' /\ \A d \in Cpus : Left(d)' = Left(d)
<1>1. PICK c \in Cpus : c = cpu /\ cpu' = c + 1
  BY SetupFileIs
<1>2. PICK m \in Seq(Event), f \in Whole, o \in BOOLEAN :
        /\ loaded' = [loaded EXCEPT ![c] = m]
        /\ file' = [file EXCEPT ![c] = f]
        /\ open' = [open EXCEPT ![c] = o]
        /\ m \o Events(f) = Events(file[c])
        /\ ~done => (m = <<>> \/ ~o => Events(f) = <<>>)
        /\ list' = IF m = <<>> THEN list ELSE ms_sort(list, c, Firsts(loaded'))
  BY <1>1, SetupFileIs
<1>3. /\ pc = "setup" /\ pc' = "setup" /\ genesis' = genesis /\ done' = done /\ cpu < NCpus
  BY DEF SetupFile
<1>4. loaded[c] = <<>> /\ ~On(list, c)
  BY <1>1 DEF MergeInv, Cpus
<1>5. cpu' \in 0..NCpus /\ \A d \in Cpus : d < cpu' => d < cpu \/ d = c
  BY <1>1, MergeAssumption DEF Cpus
<1>6. file' \in [Cpus -> Whole] /\ open' \in [Cpus -> BOOLEAN] /\ loaded' \in [Cpus -> Seq(Event)]
  <2> HIDE DEF Event
  <2> QED BY <1>2 DEF MergeInv
<1>7. ASSUME NEW d \in Cpus PROVE Left(d)' = Left(d)
  <2>1. Left(d)' = loaded'[d] \o Events(file'[d])
    BY DEF Left
  <2>2. CASE d = c
    <3>1. Left(d) = <<>> \o Events(file[c]) /\ Events(file[c]) \in Seq(Event)
      BY <1>4, <2>2, LeftIs DEF Left
    <3>2. Left(d) = Events(file[c])
      BY <3>1
    <3>3. loaded'[d] = m /\ file'[d] = f
      BY <1>2, <2>2 DEF MergeInv
    <3> QED BY <1>2, <2>1, <3>2, <3>3
  <2>3. CASE d # c
    <3>1. loaded'[d] = loaded[d] /\ file'[d] = file[d]
      BY <1>2, <2>3 DEF MergeInv
    <3> QED BY <2>1, <3>1 DEF Left
  <2> QED BY <2>2, <2>3
<1>8. PICK first \in [Cpus -> Int] : /\ first = Firsts(loaded')
                                     /\ \A d : On(list, d) => first[d] = Firsts(loaded)[d]
  <2>1. Firsts(loaded') \in [Cpus -> Int]
    BY <1>6, FirstsAre
  <2>2. ASSUME NEW d, On(list, d) PROVE d \in Cpus /\ d # c
    <3>1. d \in Cpus
      BY <2>2 DEF On, MergeInv
    <3> QED BY <1>4, <2>2, <3>1
  <2>3. \A d \in Cpus : d # c => Firsts(loaded')[d] = Firsts(loaded)[d]
    <3>1. PICK a, b : a = loaded /\ b = loaded'
      OBVIOUS
    <3>2. \A d \in Cpus : d # c => b[d] = a[d]
      BY <1>2, <3>1 DEF MergeInv
    <3>3. \A d \in Cpus : d # c => Firsts(b)[d] = Firsts(a)[d]
      BY <3>2 DEF Firsts
    <3> QED BY <3>1, <3>3
  <2> QED BY <2>1, <2>2, <2>3
<1>9. list \in Seq(Cpus) /\ Once(list) /\ Sorted(list, first)
  BY <1>8, SortedAlike DEF MergeInv
<1>10. /\ list' \in Seq(Cpus) /\ Once(list') /\ Sorted(list', Firsts(loaded'))
       /\ \A d \in Cpus : On(list', d) <=> loaded'[d] # <<>>
  <2>1. \A d \in Cpus : loaded'[d] = IF d = c THEN m ELSE loaded[d]
    BY <1>2 DEF MergeInv
  <2>2. \A d \in Cpus : On(list, d) <=> loaded[d] # <<>>
    BY DEF MergeInv
  <2>3. CASE m = <<>>
    BY <1>2, <1>4, <1>8, <1>9, <2>1, <2>2, <2>3
  <2>4. CASE m # <<>>
    <3>1. list' = ms_sort(list, c, first)
      BY <1>2, <1>8, <2>4
    <3>2. /\ ms_sort(list, c, first) \in Seq(Cpus) /\ Once(ms_sort(list, c, first))
          /\ Sorted(ms_sort(list, c, first), first)
          /\ \A d : On(ms_sort(list, c, first), d) <=> d = c \/ On(list, d)
      BY <1>4, <1>9, SortIs
    <3> QED BY <1>8, <2>1, <2>2, <2>4, <3>1, <3>2
  <2> QED BY <2>3, <2>4
<1>11. \A d \in Cpus : d >= cpu' => loaded'[d] = <<>>
  <2> SUFFICES ASSUME NEW d \in Cpus, d >= cpu' PROVE loaded'[d] = <<>>
    OBVIOUS
  <2>1. d # c /\ d >= cpu
    BY <1>1 DEF Cpus
  <2> QED BY <1>2, <2>1 DEF MergeInv
<1>12. NothingMissed'
  <2> SUFFICES ASSUME ~done, NEW d \in Cpus, d < cpu', loaded'[d] = <<>> \/ ~open'[d]
               PROVE  Events(file'[d]) = <<>>
    BY <1>3 DEF NothingMissed
  <2>1. CASE d = c
    <3>1. loaded'[c] = m /\ open'[c] = o /\ file'[c] = f
      BY <1>2 DEF MergeInv
    <3> QED BY <1>2, <2>1, <3>1
  <2>2. CASE d # c
    <3>1. loaded'[d] = loaded[d] /\ open'[d] = open[d] /\ file'[d] = file[d] /\ d < cpu
      BY <1>2, <1>5, <2>2 DEF MergeInv
    <3> QED BY <3>1 DEF MergeInv, NothingMissed
  <2> QED BY <2>1, <2>2
<1>13. \A d \in Cpus : Timely(Left(d)')
  BY <1>7 DEF MergeInv
<1>14. AllHandled'
  BY <1>3 DEF AllHandled
<1>15. /\ pc' \in {"setup", "run", "end"} /\ done' \in BOOLEAN /\ genesis' \in Int
       /\ (pc # "setup" => cpu = NCpus)'
  BY <1>3 DEF MergeInv
<1>16. (\A d \in Cpus : Timely(Left(d)))'
  BY <1>13
<1> QED BY <1>5, <1>6, <1>7, <1>10, <1>11, <1>12, <1>14, <1>15, <1>16 DEF MergeInv

LEMMA HandleStep ==
  ASSUME "wrong_cpu" \notin Kinds, MergeInv, Handle
  PROVE  /\ MergeInv'
         /\ \E c \in Cpus : /\ c = list[1] /\ loaded[c] # <<>> /\ out' = Append(out, Head(Left(c)))
                            /\ Left(c) # <<>>
                            /\ \A d \in Cpus : Left(d)' = IF d = c THEN Tail(Left(c)) ELSE Left(d)
<1>1. /\ ~done /\ pc = "run" /\ list # <<>> /\ pc' = "run" /\ cpu' = cpu /\ genesis' = genesis
      /\ done' = done
  BY HandleIs DEF Handle
<1>2. PICK c \in Cpus, m \in Seq(Event), f \in Whole, o \in BOOLEAN :
        /\ c = list[1] /\ loaded[c] # <<>>
        /\ out' = Append(out, loaded[c][1])
        /\ loaded' = [loaded EXCEPT ![c] = m]
        /\ file' = [file EXCEPT ![c] = f]
        /\ open' = [open EXCEPT ![c] = o]
        /\ m \o Events(f) = Tail(loaded[c]) \o Events(file[c])
        /\ m = <<>> \/ ~o => Events(f) = <<>>
        /\ list' = IF m = <<>> THEN Tail(list) ELSE ms_resort(list, Firsts(loaded'))
  BY HandleIs
<1>3. /\ Left(c) # <<>> /\ Head(Left(c)) = loaded[c][1]
      /\ Tail(Left(c)) = Tail(loaded[c]) \o Events(file[c])
  <2>1. PICK s \in Seq(Event), t \in Seq(Event) : s = loaded[c] /\ t = Events(file[c])
    BY LeftIs
  <2>2. Left(c) = s \o t /\ s # <<>>
    BY <1>2, <2>1 DEF Left
  <2> HIDE DEF Event
  <2>3. s \o t # <<>> /\ Head(s \o t) = s[1] /\ Tail(s \o t) = Tail(s) \o t
    BY <2>2, ConcatIs
  <2> QED BY <2>1, <2>2, <2>3
<1>4. file' \in [Cpus -> Whole] /\ open' \in [Cpus -> BOOLEAN] /\ loaded' \in [Cpus -> Seq(Event)]
  <2> HIDE DEF Event
  <2> QED BY <1>2 DEF MergeInv
<1>5. ASSUME NEW d \in Cpus PROVE Left(d)' = IF d = c THEN Tail(Left(c)) ELSE Left(d)
  <2>1. Left(d)' = loaded'[d] \o Events(file'[d])
    BY DEF Left
  <2>2. CASE d = c
    <3>1. loaded'[d] = m /\ file'[d] = f
      BY <1>2, <2>2 DEF MergeInv
    <3> QED BY <1>2, <1>3, <2>1, <2>2, <3>1
  <2>3. CASE d # c
    <3>1. loaded'[d] = loaded[d] /\ file'[d] = file[d]
      BY <1>2, <2>3 DEF MergeInv
    <3> QED BY <2>1, <2>3, <3>1 DEF Left
  <2> QED BY <2>2, <2>3
<1>6. /\ list \in Seq(Cpus) /\ Once(list) /\ Sorted(list, Firsts(loaded))
      /\ \A d \in Cpus : On(list, d) <=> loaded[d] # <<>>
  BY DEF MergeInv
<1>7. /\ Tail(list) \in Seq(Cpus) /\ Once(Tail(list)) /\ Sorted(Tail(list), Firsts(loaded))
      /\ \A d : On(Tail(list), d) <=> On(list, d) /\ d # c
  BY <1>1, <1>2, <1>6, TailIs
<1>8. PICK first \in [Cpus -> Int] : /\ first = Firsts(loaded')
                                     /\ \A d : On(Tail(list), d) => first[d] = Firsts(loaded)[d]
  <2>1. Firsts(loaded') \in [Cpus -> Int]
    BY <1>4, FirstsAre
  <2>2. ASSUME NEW d, On(Tail(list), d) PROVE d \in Cpus /\ d # c
    <3>1. On(list, d) /\ d # c
      BY <1>7, <2>2
    <3> QED BY <1>6, <3>1 DEF On
  <2>3. \A d \in Cpus : d # c => Firsts(loaded')[d] = Firsts(loaded)[d]
    <3>1. PICK a, b : a = loaded /\ b = loaded'
      OBVIOUS
    <3>2. \A d \in Cpus : d # c => b[d] = a[d]
      BY <1>2, <3>1 DEF MergeInv
    <3>3. \A d \in Cpus : d # c => Firsts(b)[d] = Firsts(a)[d]
      BY <3>2 DEF Firsts
    <3> QED BY <3>1, <3>3
  <2> QED BY <2>1, <2>2, <2>3
<1>9. Sorted(Tail(list), first)
  BY <1>7, <1>8, SortedAlike
<1>10. /\ list' \in Seq(Cpus) /\ Once(list') /\ Sorted(list', Firsts(loaded'))
       /\ \A d \in Cpus : On(list', d) <=> loaded'[d] # <<>>
  <2>1. \A d \in Cpus : loaded'[d] = IF d = c THEN m ELSE loaded[d]
    BY <1>2 DEF MergeInv
  <2>2. CASE m = <<>>
    BY <1>2, <1>6, <1>7, <1>8, <1>9, <2>1, <2>2
  <2>3. CASE m # <<>>
    <3>1. list' = ms_resort(list, first)
      BY <1>2, <1>8, <2>3
    <3>2. /\ ms_resort(list, first) \in Seq(Cpus) /\ Once(ms_resort(list, first))
          /\ Sorted(ms_resort(list, first), first)
          /\ \A d : On(ms_resort(list, first), d) <=> On(list, d)
      BY <1>1, <1>6, <1>9, ResortIs
    <3>3. \A d \in Cpus : On(list, d) <=> loaded'[d] # <<>>
      BY <1>2, <1>6, <2>1, <2>3
    <3> QED BY <1>8, <3>1, <3>2, <3>3
  <2> QED BY <2>2, <2>3
<1>11. cpu = NCpus /\ \A d \in Cpus : ~(d >= cpu')
  <2>1. cpu = NCpus
    BY <1>1 DEF MergeInv
  <2> QED BY <1>1, <2>1, MergeAssumption DEF Cpus
<1>12. NothingMissed'
  <2> SUFFICES ASSUME NEW d \in Cpus, loaded'[d] = <<>> \/ ~open'[d]
               PROVE  Events(file'[d]) = <<>>
    BY DEF NothingMissed
  <2>1. CASE d = c
    <3>1. loaded'[c] = m /\ open'[c] = o /\ file'[c] = f
      BY <1>2 DEF MergeInv
    <3> QED BY <1>2, <2>1, <3>1
  <2>2. CASE d # c
    <3>1. loaded'[d] = loaded[d] /\ open'[d] = open[d] /\ file'[d] = file[d]
      BY <1>2, <2>2 DEF MergeInv
    <3>2. d < cpu
      BY <1>11, MergeAssumption DEF Cpus
    <3> QED BY <1>1, <3>1, <3>2 DEF MergeInv, NothingMissed
  <2> QED BY <2>1, <2>2
<1>13. (\A d \in Cpus : Timely(Left(d)))'
  <2> SUFFICES ASSUME NEW d \in Cpus PROVE Timely(Left(d)')
    OBVIOUS
  <2>1. Timely(Left(d))
    BY DEF MergeInv
  <2>2. CASE d # c
    BY <1>5, <2>1, <2>2
  <2>3. CASE d = c
    <3>1. PICK s \in Seq(Event) : s = Left(c) /\ s # <<>> /\ Timely(s)
      BY <1>3, <2>1, <2>3, LeftIs
    <3>2. PICK n \in Nat : n = Len(s) /\ DOMAIN s = 1..n /\ n > 0
      BY <3>1
    <3>3. PICK u : u = Tail(s) /\ DOMAIN u = 1..(n - 1) /\ \A i \in 1..(n - 1) : u[i] = s[i + 1]
      <4> HIDE DEF Event
      <4>1. Tail(s) \in Seq(Event) /\ Len(Tail(s)) = n - 1
        BY <3>1, <3>2
      <4>2. \A i \in 1..(n - 1) : Tail(s)[i] = s[i + 1]
        BY <3>1, <3>2
      <4>3. DOMAIN Tail(s) = 1..(n - 1)
        BY <4>1
      <4> QED BY <4>2, <4>3
    <3>4. \A i \in 1..(n - 1) : i + 1 \in 1..n
      BY <3>2
    <3>5. ASSUME NEW i \in 1..(n - 1), NEW j \in 1..(n - 1), i < j PROVE u[i].time <= u[j].time
      <4>1. i + 1 < j + 1
        BY <3>2, <3>5
      <4>2. i + 1 \in DOMAIN s /\ j + 1 \in DOMAIN s
        BY <3>2, <3>4
      <4>3. s[i + 1].time <= s[j + 1].time
        BY <3>1, <4>1, <4>2 DEF Timely
      <4> QED BY <3>3, <4>3
    <3>6. Timely(u)
      BY <3>3, <3>5 DEF Timely
    <3> QED BY <1>5, <2>3, <3>1, <3>3, <3>6
  <2> QED BY <2>2, <2>3
<1>14. AllHandled'
  BY <1>1 DEF AllHandled
<1>15. /\ pc' \in {"setup", "run", "end"} /\ done' \in BOOLEAN /\ genesis' \in Int
       /\ (pc # "setup" => cpu = NCpus)' /\ cpu' \in 0..NCpus
  BY <1>1, <1>11 DEF MergeInv
<1>16. MergeInv'
  BY <1>4, <1>10, <1>11, <1>12, <1>13, <1>14, <1>15 DEF MergeInv
<1> QED BY <1>2, <1>3, <1>5, <1>16

LEMMA EndRunStep ==
  ASSUME MergeInv, EndRun
  PROVE  MergeInv'
<1>1. /\ pc = "run" /\ pc' = "end" /\ UNCHANGED <<cpu, file, open, loaded, list, genesis, out, done>>
  BY DEF EndRun
<1>2. AllHandled'
  <2> SUFFICES ASSUME ~done, NEW d \in Cpus, NEW i \in DOMAIN Left(d)
               PROVE  Left(d)[i].time - genesis > StopwatchEnd
    BY <1>1 DEF AllHandled, Left
  <2>1. PICK s \in Seq(Event) : s = Left(d)
    BY LeftIs
  <2>2. s # <<>> /\ i \in DOMAIN s /\ 1 \in DOMAIN s /\ (i = 1 \/ 1 < i) /\ s[i] \in Event
    <3> HIDE DEF Event
    <3>1. DOMAIN s = 1..Len(s) /\ Len(s) \in Nat
      OBVIOUS
    <3>2. i \in 1..Len(s)
      BY <2>1, <3>1
    <3> QED BY <3>1, <3>2
  <2>3. /\ list # <<>> /\ loaded[d] # <<>> /\ s[1] = loaded[d][1]
        /\ loaded[list[1]][1].time <= loaded[d][1].time
    BY <1>1, <2>1, <2>2, HeadIsEarliest
  <2>4. Head(list) = list[1] /\ list[1] \in Cpus /\ loaded[list[1]] # <<>>
    BY <2>3, HeadIs
  <2>5. PICK q \in Seq(Event) : q = loaded[list[1]] /\ q # <<>>
    BY <2>4, LeftIs
  <2>6. Head(q) = q[1] /\ q[1] \in Event
    <3> HIDE DEF Event
    <3> QED BY <2>5
  <2>7. ~(q[1].time - genesis <= StopwatchEnd)
    BY <1>1, <2>3, <2>4, <2>5, <2>6 DEF EndRun, InTime
  <2>8. s[1] \in Event /\ q[1].time <= s[1].time
    <3> HIDE DEF Event
    <3> QED BY <2>2, <2>3, <2>5
  <2>9. s[1].time <= s[i].time
    <3>1. s[1].time \in Int
      BY <2>8, EventTime
    <3>2. i = 1 \/ s[1].time <= s[i].time
      BY <2>1, <2>2 DEF MergeInv, Timely
    <3> QED BY <3>1, <3>2
  <2>10. q[1].time \in Int /\ s[1].time \in Int /\ s[i].time \in Int /\ genesis \in Int /\ StopwatchEnd \in Int
    BY <2>2, <2>6, <2>8, EventTime, MergeAssumption DEF MergeInv
  <2>11. s[i].time - genesis > StopwatchEnd
    BY <2>7, <2>8, <2>9, <2>10
  <2> QED BY <2>1, <2>11
<1>3. NothingMissed' /\ (\A d \in Cpus : Timely(Left(d)))'
  BY <1>1 DEF MergeInv, NothingMissed, Left
<1> QED BY <1>1, <1>2, <1>3 DEF MergeInv

LEMMA StartRunStep ==
  ASSUME MergeInv, StartRun
  PROVE  MergeInv'
<1>1. /\ pc' = "run" /\ cpu = NCpus /\ UNCHANGED <<cpu, file, open, loaded, list, out, done>>
      /\ genesis' = IF list = <<>> THEN 0 ELSE Head(loaded[Head(list)]).time
  BY DEF StartRun
<1>2. genesis' \in Int
  <2>1. CASE list = <<>>
    BY <1>1, <2>1
  <2>2. CASE list # <<>>
    <3>1. PICK q \in Seq(Event) : q = loaded[Head(list)] /\ q # <<>>
      BY <2>2, HeadIs, LeftIs
    <3>2. Head(q) \in Event
      <4> HIDE DEF Event
      <4> QED BY <3>1
    <3> QED BY <1>1, <2>2, <3>1, <3>2, EventTime
  <2> QED BY <2>1, <2>2
<1>3. NothingMissed' /\ (\A d \in Cpus : Timely(Left(d)))'
  BY <1>1 DEF MergeInv, NothingMissed, Left
<1>4. AllHandled'
  BY <1>1 DEF AllHandled
<1> QED BY <1>1, <1>2, <1>3, <1>4 DEF MergeInv

LEMMA SignalStep ==
  ASSUME MergeInv, Signal
  PROVE  MergeInv'
<1>1. done' = TRUE /\ UNCHANGED <<pc, cpu, file, open, loaded, list, genesis, out>>
  BY DEF Signal
<1>2. NothingMissed' /\ (\A d \in Cpus : Timely(Left(d)))' /\ AllHandled'
  BY <1>1 DEF MergeInv, NothingMissed, Left, AllHandled
<1>3. done' \in BOOLEAN
  BY <1>1
<1> QED BY <1>1, <1>2, <1>3 DEF MergeInv

LEMMA StutterStep ==
  ASSUME MergeInv, UNCHANGED vars
  PROVE  MergeInv'
BY DEF MergeInv, vars, NothingMissed, Left, AllHandled

(* The invariant holds in every reachable state.                             *)
LEMMA MergeInvKept ==
  ("wrong_cpu" \notin Kinds) => (Spec => []MergeInv)
<1> SUFFICES ASSUME "wrong_cpu" \notin Kinds PROVE Spec => []MergeInv
  OBVIOUS
<1>1. Init => MergeInv
  BY InitInv
<1>2. MergeInv /\ [Next]_vars => MergeInv'
  BY SetupFileStep, StartRunStep, HandleStep, EndRunStep, SignalStep, StutterStep DEF Next, Terminated
<1> QED BY <1>1, <1>2, PTL DEF Spec

-----------------------------------------------------------------------------
(* Keep processing traces while any are left: blkparse that is not           *)
(* interrupted ends when it handled every event of every file, but for those *)
(* past the interval of interest, if no file has another CPU's events.       *)
THEOREM EveryEventHandled ==
  ("wrong_cpu" \notin Kinds) => (Spec => []AllHandled)
<1>1. MergeInv => AllHandled
  BY DEF MergeInv
<1> QED BY <1>1, MergeInvKept, PTL

(* The merge of the files keeps TimeOrder's promise: the events of all CPUs  *)
(* come in the order of their times, each CPU's in the order of its file and *)
(* without a gap, if no file has another CPU's events.                       *)
THEOREM MergeInOrder ==
  ("wrong_cpu" \notin Kinds) => (Spec => InTimeOrder)
<1> SUFFICES ASSUME "wrong_cpu" \notin Kinds PROVE Spec => InTimeOrder
  OBVIOUS
<1>1. Init => Order!Init
  <2> SUFFICES ASSUME Init PROVE Order!Init
    OBVIOUS
  <2>1. MergeInv
    BY InitInv
  <2>2. \A c \in Cpus : Left(c) \in Seq(Event)
    BY <2>1, LeftIs
  <2> QED BY <2>2 DEF Init, Order!Init
<1>2. MergeInv /\ [Next]_vars => [Order!Next]_(Order!vars)
  <2> SUFFICES ASSUME MergeInv, [Next]_vars PROVE [Order!Next]_(Order!vars)
    OBVIOUS
  <2>1. CASE Handle
    <3>1. PICK c \in Cpus : /\ c = list[1] /\ loaded[c] # <<>> /\ out' = Append(out, Head(Left(c)))
                            /\ Left(c) # <<>>
                            /\ \A d \in Cpus : Left(d)' = IF d = c THEN Tail(Left(c)) ELSE Left(d)
      BY <2>1, HandleStep
    <3>2. ~done /\ pc # "setup"
      BY <2>1 DEF Handle
    <3>3. ASSUME NEW d \in Cpus, Left(d) # <<>>
          PROVE  Head(Left(c)).time <= Head(Left(d)).time
      BY <3>1, <3>2, <3>3, HeadIsEarliest
    <3>4. Order!PutOut(c)
      BY <3>1, <3>3 DEF Order!PutOut, Order!Earliest
    <3> QED BY <3>4 DEF Order!Next
  <2>2. CASE SetupFile
    <3>1. \A d \in Cpus : Left(d)' = Left(d)
      BY <2>2, SetupFileStep
    <3>2. out' = out
      BY <2>2 DEF SetupFile
    <3> QED BY <3>1, <3>2 DEF Order!vars
  <2>3. CASE StartRun \/ EndRun \/ Signal \/ UNCHANGED vars
    BY <2>3 DEF StartRun, EndRun, Signal, vars, Left, Order!vars
  <2> QED BY <2>1, <2>2, <2>3 DEF Next, Terminated
<1> QED BY <1>1, <1>2, MergeInvKept, PTL DEF Spec, InTimeOrder, Order!Spec

-----------------------------------------------------------------------------
(* blkparse on a pipe.                                                       *)

LEMMA Parameters ==
  /\ pipe_batch \in Nat \ {0} /\ MaxSeq \in Nat \ {0} /\ MaxPipeTime \in Nat \ {0}
  /\ Monotone \in BOOLEAN /\ BeforeGenesis \in BOOLEAN
BY PipeAssumption

(* A set of numbers that is not empty has a least one.                       *)
LEMMA MinOfNat ==
  ASSUME NEW S \in SUBSET Nat, S # {}
  PROVE  Min(S) \in S /\ \A x \in S : Min(S) <= x
<1> DEFINE R == OpToRel(<, Nat)
<1>1. IsWellFoundedOn(R, Nat)
  BY NatLessThanWellFounded
<1>2. \A x, y \in Nat : <<x, y>> \in R <=> x < y
  BY DEF OpToRel
<1> HIDE DEF R
<1>3. PICK m \in S : \A x \in S : ~(<<x, m>> \in R)
  BY <1>1, WFMin
<1>4. \A x \in S : m <= x
  <2> SUFFICES ASSUME NEW x \in S PROVE m <= x
    OBVIOUS
  <2>1. ~(x < m)
    BY <1>2, <1>3, x \in Nat, m \in Nat, Zenon
  <2> QED BY <2>1
<1> QED BY <1>4 DEF Min
-----------------------------------------------------------------------------
(* What tells an event from others: the time is changed on the way.          *)
Key(e) == <<e.cpu, e.seq>>

Types ==
  /\ pipe_pc \in {"read", "show", "flush", "end"}
  /\ newest \in [PipeCpus -> [seq : 0..MaxSeq, time : 0..MaxPipeTime]]
  /\ genesis_time \in 0..MaxPipeTime
  /\ nread \in Nat
  /\ trace_list \subseteq PipeEvent /\ IsFiniteSet(trace_list)
  /\ rb_sort \subseteq PipeEvent /\ IsFiniteSet(rb_sort)
  /\ shown \in Seq(PipeEvent)

(* The events in the program came from the pipe, so that none is newer than  *)
(* the newest of its CPU, whose next one is therefore another.              *)
FromPipe ==
  /\ \A e \in trace_list \cup rb_sort : e.seq <= newest[e.cpu].seq
  /\ \A i \in DOMAIN shown : shown[i].seq <= newest[shown[i].cpu].seq

(* No event is in two places, or twice in one.                               *)
OnePlace ==
  /\ \A e, f \in trace_list : Key(e) = Key(f) => e = f
  /\ \A e, f \in rb_sort : Key(e) = Key(f) => e = f
  /\ \A e \in trace_list, f \in rb_sort : Key(e) # Key(f)
  /\ \A e \in trace_list \cup rb_sort : \A i \in DOMAIN shown : Key(shown[i]) # Key(e)
  /\ \A i, j \in DOMAIN shown : Key(shown[i]) = Key(shown[j]) => i = j

AllCounted == Cardinality(trace_list) + Cardinality(rb_sort) + Len(shown) = nread

(* The batch was sorted when events are shown, and all were in the end.      *)
BatchesDone ==
  /\ pipe_pc # "read" => trace_list = {}
  /\ pipe_pc = "end" => rb_sort = {}

OnceInv == Types /\ FromPipe /\ OnePlace /\ AllCounted /\ BatchesDone

LEMMA Starts == PipeInit => OnceInv
<1> SUFFICES ASSUME PipeInit PROVE OnceInv
  OBVIOUS
<1> USE Parameters, FS_EmptySet DEF PipeInit
<1>1. Types
  BY DEF Types
<1>2. FromPipe /\ OnePlace /\ BatchesDone
  BY DEF FromPipe, OnePlace, BatchesDone
<1>3. AllCounted
  BY DEF AllCounted
<1> QED BY <1>1, <1>2, <1>3 DEF OnceInv

LEMMA ReadKeeps ==
  ASSUME OnceInv, NEW c \in PipeCpus, ReadEvent(c)
  PROVE  OnceInv'
<1>1. PICK s \in newest[c].seq + 1 .. MaxSeq, t \in 1..MaxPipeTime :
        /\ trace_list' = trace_list \cup {[cpu |-> c, seq |-> s, time |-> t]}
        /\ newest' = [newest EXCEPT ![c] = [seq |-> s, time |-> t]]
  BY DEF ReadEvent
<1> DEFINE new == [cpu |-> c, seq |-> s, time |-> t]
<1>2. /\ nread' = nread + 1 /\ pipe_pc = "read"
      /\ UNCHANGED <<pipe_pc, rb_sort, genesis_time, shown>>
  BY DEF ReadEvent
<1>3. newest[c].seq \in 0..MaxSeq /\ s \in 1..MaxSeq /\ newest[c].seq < s
  BY Parameters DEF OnceInv, Types
<1>4. new \in PipeEvent /\ new.cpu = c /\ new.seq = s
  BY <1>3, Parameters DEF PipeEvent
<1>5. \A e \in PipeEvent : e.cpu = c /\ e.seq <= newest[e.cpu].seq => Key(e) # Key(new)
  BY <1>3, <1>4 DEF PipeEvent, Key
<1>6. \A e \in PipeEvent : e.cpu # c => Key(e) # Key(new)
  BY <1>4 DEF Key
<1>7. \A i \in DOMAIN shown : shown[i] \in PipeEvent
  BY DEF OnceInv, Types
<1>8. /\ \A e \in trace_list \cup rb_sort : Key(e) # Key(new)
      /\ \A i \in DOMAIN shown : Key(shown[i]) # Key(new)
  BY <1>5, <1>6, <1>7 DEF OnceInv, Types, FromPipe
<1>9. trace_list' = trace_list \cup {new}
  BY <1>1
<1> HIDE DEF new
<1>10. Types'
  <2>1. newest' \in [PipeCpus -> [seq : 0..MaxSeq, time : 0..MaxPipeTime]]
    BY <1>1, <1>3, Parameters DEF OnceInv, Types
  <2>2. trace_list' \subseteq PipeEvent /\ IsFiniteSet(trace_list')
    BY <1>4, <1>9, FS_AddElement DEF OnceInv, Types
  <2> QED BY <1>2, <2>1, <2>2 DEF OnceInv, Types
<1>11. FromPipe'
  <2>1. \A e \in PipeEvent : e.seq <= newest[e.cpu].seq => e.seq <= newest'[e.cpu].seq
    BY <1>1, <1>3 DEF OnceInv, Types, PipeEvent
  <2>2. new.seq <= newest'[new.cpu].seq
    BY <1>1, <1>3, <1>4 DEF OnceInv, Types
  <2>3. trace_list \cup rb_sort \subseteq PipeEvent
    BY DEF OnceInv, Types
  <2> QED BY <1>2, <1>7, <1>9, <2>1, <2>2, <2>3 DEF OnceInv, FromPipe
<1>12. OnePlace'
  BY <1>2, <1>8, <1>9 DEF OnceInv, OnePlace
<1>13. AllCounted'
  <2>1. new \notin trace_list
    BY <1>8
  <2>2. Cardinality(trace_list') = Cardinality(trace_list) + 1
    BY <1>9, <2>1, FS_AddElement DEF OnceInv, Types
  <2>3. Cardinality(trace_list) \in Nat /\ Cardinality(rb_sort) \in Nat /\ Len(shown) \in Nat
    BY FS_CardinalityType DEF OnceInv, Types
  <2>4. nread' = nread + 1 /\ rb_sort' = rb_sort /\ shown' = shown
    BY <1>2
  <2>5. Cardinality(trace_list) + Cardinality(rb_sort) + Len(shown) = nread
    BY DEF OnceInv, AllCounted
  <2> QED BY <2>2, <2>3, <2>4, <2>5 DEF AllCounted
<1>14. BatchesDone'
  BY <1>2 DEF BatchesDone
<1> QED BY <1>10, <1>11, <1>12, <1>13, <1>14 DEF OnceInv

(* sort_entries changes the times only, so that the batch stays as large as  *)
(* it was.                                                                  *)
LEMMA SortKeeps ==
  ASSUME OnceInv, SortEntries
  PROVE  OnceInv'
<1> DEFINE g == IF genesis_time = 0 THEN find_genesis ELSE genesis_time
<1> DEFINE rel(e) == [e EXCEPT !.time = (@ - g) % Wrap]
<1> DEFINE sorted == {rel(e) : e \in trace_list}
<1>1. /\ genesis_time' = g /\ rb_sort' = rb_sort \cup sorted
      /\ trace_list' = {} /\ pipe_pc = "read" /\ pipe_pc' = "show" /\ trace_list # {}
      /\ UNCHANGED <<newest, nread, shown>>
  BY DEF SortEntries, Inserted
<1>2. g \in 0..MaxPipeTime
  <2> DEFINE times == {e.time : e \in trace_list}
  <2>1. times \subseteq 0..MaxPipeTime /\ times # {}
    BY <1>1 DEF OnceInv, Types, PipeEvent
  <2>2. times \in SUBSET Nat
    BY <2>1, Parameters
  <2> HIDE DEF times
  <2>3. Min(times) \in times
    BY <2>1, <2>2, MinOfNat
  <2>4. find_genesis \in 0..MaxPipeTime
    BY <2>1, <2>3 DEF find_genesis, times
  <2> QED BY <2>4 DEF OnceInv, Types
<1> HIDE DEF g
<1>3. \A e \in PipeEvent : rel(e) \in PipeEvent /\ Key(rel(e)) = Key(e)
                      /\ rel(e).seq = e.seq /\ rel(e).cpu = e.cpu
  <2> SUFFICES ASSUME NEW e \in PipeEvent
               PROVE  rel(e) \in PipeEvent /\ Key(rel(e)) = Key(e)
                      /\ rel(e).seq = e.seq /\ rel(e).cpu = e.cpu
    OBVIOUS
  <2>1. (e.time - g) % Wrap \in 0..MaxPipeTime
    BY <1>2, Parameters DEF PipeEvent, Wrap
  <2> QED BY <2>1 DEF PipeEvent, Key
<1>4. trace_list \subseteq PipeEvent /\ sorted \subseteq PipeEvent
  BY <1>3 DEF OnceInv, Types
<1>5. \A e, f \in trace_list : rel(e) = rel(f) => e = f
  <2> SUFFICES ASSUME NEW e \in trace_list, NEW f \in trace_list, rel(e) = rel(f)
               PROVE  e = f
    OBVIOUS
  <2>1. Key(rel(e)) = Key(e) /\ Key(rel(f)) = Key(f)
    BY <1>3, <1>4
  <2> HIDE DEF rel
  <2>2. Key(e) = Key(f)
    BY <2>1
  <2> QED BY <2>2 DEF OnceInv, OnePlace
<1>6. \E map : map \in Bijection(trace_list, sorted)
  <2> DEFINE map == [e \in trace_list |-> rel(e)]
  <2> HIDE DEF rel
  <2>1. map \in [trace_list -> sorted]
    OBVIOUS
  <2>2. \A e, f \in trace_list : map[e] = map[f] => e = f
    BY <1>5
  <2>3. \A x \in sorted : \E e \in trace_list : map[e] = x
    OBVIOUS
  <2> HIDE DEF map, sorted
  <2>4. map \in Bijection(trace_list, sorted)
    BY <2>1, <2>2, <2>3 DEF Bijection, Injection, Surjection, IsInjective
  <2> QED BY <2>4
<1>7. IsFiniteSet(sorted) /\ Cardinality(sorted) = Cardinality(trace_list)
  BY <1>6, FS_Bijection DEF OnceInv, Types, ExistsBijection
<1>8. sorted \cap rb_sort = {}
  BY <1>3, <1>4 DEF OnceInv, OnePlace
<1>9. \A f \in sorted : \E e \in trace_list :
        Key(f) = Key(e) /\ f = rel(e) /\ f.seq = e.seq /\ f.cpu = e.cpu
  BY <1>3, <1>4
<1>10. /\ IsFiniteSet(rb_sort') /\ rb_sort' \subseteq PipeEvent
       /\ Cardinality(rb_sort') = Cardinality(rb_sort) + Cardinality(trace_list)
  <2>1. IsFiniteSet(rb_sort) /\ rb_sort \subseteq PipeEvent
    BY DEF OnceInv, Types
  <2>2. Cardinality(rb_sort \cup sorted)
          = Cardinality(rb_sort) + Cardinality(sorted) - Cardinality(rb_sort \cap sorted)
    BY <1>7, <2>1, FS_Union
  <2>3. Cardinality(rb_sort \cap sorted) = 0
    BY <1>8, FS_EmptySet
  <2>4. Cardinality(rb_sort) \in Nat /\ Cardinality(sorted) \in Nat
    BY <1>7, <2>1, FS_CardinalityType
  <2> QED BY <1>1, <1>4, <1>7, <2>1, <2>2, <2>3, <2>4, FS_Union
<1> HIDE DEF sorted, rel
<1>11. Types'
  BY <1>1, <1>2, <1>10, FS_EmptySet DEF OnceInv, Types
<1>12. FromPipe'
  BY <1>1, <1>9 DEF OnceInv, FromPipe
<1>13. OnePlace'
  <2>1. \A e, f \in sorted : Key(e) = Key(f) => e = f
    BY <1>9 DEF OnceInv, OnePlace
  <2>2. \A e \in sorted, f \in rb_sort : Key(e) # Key(f)
    BY <1>9 DEF OnceInv, OnePlace
  <2>3. \A e \in sorted : \A i \in DOMAIN shown : Key(shown[i]) # Key(e)
    BY <1>9 DEF OnceInv, OnePlace
  <2> QED BY <1>1, <2>1, <2>2, <2>3 DEF OnceInv, OnePlace
<1>14. AllCounted'
  <2>1. Cardinality(trace_list) \in Nat /\ Cardinality(rb_sort) \in Nat /\ Len(shown) \in Nat
    BY FS_CardinalityType DEF OnceInv, Types
  <2> QED BY <1>1, <1>10, <2>1, FS_EmptySet DEF OnceInv, AllCounted
<1>15. BatchesDone'
  BY <1>1 DEF BatchesDone
<1> QED BY <1>11, <1>12, <1>13, <1>14, <1>15 DEF OnceInv

(* What is shown leaves the tree for the end of what was shown.              *)
LEMMA ShowKeeps ==
  ASSUME OnceInv, ShowEntry
  PROVE  OnceInv'
<1>1. PICK t \in rb_sort : shown' = Append(shown, t) /\ rb_sort' = rb_sort \ {t}
  BY DEF ShowEntry
<1>2. /\ UNCHANGED <<pipe_pc, newest, nread, trace_list, genesis_time>>
      /\ pipe_pc \in {"show", "flush"}
  BY DEF ShowEntry
<1>3. t \in PipeEvent /\ shown \in Seq(PipeEvent)
  BY DEF OnceInv, Types
<1>4. /\ DOMAIN shown' = 1 .. Len(shown) + 1 /\ DOMAIN shown = 1 .. Len(shown)
      /\ \A i \in DOMAIN shown : shown'[i] = shown[i]
      /\ shown'[Len(shown) + 1] = t /\ Len(shown') = Len(shown) + 1
      /\ shown' \in Seq(PipeEvent)
  BY <1>1, <1>3
<1>5. \A i \in DOMAIN shown' : i \in DOMAIN shown \/ i = Len(shown) + 1
  BY <1>3, <1>4
<1>6. Types'
  BY <1>1, <1>2, <1>4, FS_RemoveElement DEF OnceInv, Types
<1>7. FromPipe'
  BY <1>1, <1>2, <1>4, <1>5 DEF OnceInv, FromPipe
<1>8. OnePlace'
  <2>1. \A i \in DOMAIN shown : Key(shown'[i]) # Key(t)
    BY <1>1, <1>4 DEF OnceInv, OnePlace
  <2>2. \A e \in trace_list \cup rb_sort' : \A i \in DOMAIN shown' : Key(shown'[i]) # Key(e)
    BY <1>1, <1>4, <1>5 DEF OnceInv, OnePlace
  <2>3. \A i, j \in DOMAIN shown' : Key(shown'[i]) = Key(shown'[j]) => i = j
    BY <1>4, <1>5, <2>1 DEF OnceInv, OnePlace
  <2>4. rb_sort' \subseteq rb_sort /\ trace_list' = trace_list
    BY <1>1, <1>2
  <2> QED BY <2>2, <2>3, <2>4 DEF OnceInv, OnePlace
<1>9. AllCounted'
  <2>1. Cardinality(rb_sort') = Cardinality(rb_sort) - 1
    BY <1>1, FS_RemoveElement DEF OnceInv, Types
  <2>2. Cardinality(trace_list) \in Nat /\ Cardinality(rb_sort) \in Nat /\ Len(shown) \in Nat
    BY FS_CardinalityType DEF OnceInv, Types
  <2> QED BY <1>2, <1>4, <2>1, <2>2 DEF OnceInv, Types, AllCounted
<1>10. BatchesDone'
  BY <1>2 DEF OnceInv, BatchesDone
<1> QED BY <1>6, <1>7, <1>8, <1>9, <1>10 DEF OnceInv

LEMMA OnceInvariant == PipeSpec => []OnceInv
<1>1. PipeInit => OnceInv
  BY Starts
<1>2. OnceInv /\ [PipeNext]_pipe_vars => OnceInv'
  <2> SUFFICES ASSUME OnceInv, [PipeNext]_pipe_vars PROVE OnceInv'
    OBVIOUS
  <2> USE DEF OnceInv, Types, FromPipe, OnePlace, AllCounted, BatchesDone
  <2>1. CASE \E c \in PipeCpus : ReadEvent(c)
    BY <2>1, ReadKeeps
  <2>2. CASE SortEntries
    BY <2>2, SortKeeps
  <2>3. CASE EndOfInput
    BY <2>3 DEF EndOfInput
  <2>4. CASE ShowEntry
    BY <2>4, ShowKeeps
  <2>5. CASE ShowEnds
    BY <2>5 DEF ShowEnds
  <2>6. CASE PipeTerminated \/ UNCHANGED pipe_vars
    BY <2>6 DEF PipeTerminated, pipe_vars
  <2> QED BY <2>1, <2>2, <2>3, <2>4, <2>5, <2>6 DEF PipeNext
<1> QED BY <1>1, <1>2, PTL DEF PipeSpec

(* Every event read is in the batch, sorted or shown, never twice, and none  *)
(* but shown in the end (do_pipe, sort_entries, show_entries_rb).            *)
THEOREM EveryEventShown == PipeSpec => []EveryEventOnce
<1>1. OnceInv => EveryEventOnce
  <2> SUFFICES ASSUME OnceInv PROVE EveryEventOnce
    OBVIOUS
  <2>1. pipe_pc = "end" => Len(shown) = nread
    <3>1. Len(shown) \in Nat
      BY DEF OnceInv, Types
    <3> QED BY <3>1, FS_EmptySet DEF OnceInv, Types, BatchesDone, AllCounted
  <2>2. IsInjective([i \in DOMAIN shown |-> <<shown[i].cpu, shown[i].seq>>])
    BY DEF OnceInv, OnePlace, Key, IsInjective
  <2> QED BY <2>1, <2>2 DEF OnceInv, AllCounted, EveryEventOnce
<1> QED BY <1>1, OnceInvariant, PTL
-----------------------------------------------------------------------------
(* From here on the times of a CPU follow its sequence numbers, and no event *)
(* is older than the first batch.                                           *)

(* A CPU's events arrive in the order of sequence and of time, so that those *)
(* of the tree come before those of the batch, and their times say so.       *)
InOrder ==
  /\ \A e \in trace_list : /\ genesis_time <= e.time /\ 0 < e.time
                           /\ e.time <= newest[e.cpu].time
  /\ genesis_time = 0 => rb_sort = {}
  /\ \A e \in rb_sort : e.time + genesis_time <= newest[e.cpu].time
  /\ \A e, f \in trace_list : e.cpu = f.cpu /\ e.seq < f.seq => e.time <= f.time
  /\ \A e, f \in rb_sort : e.cpu = f.cpu /\ e.seq < f.seq => e.time <= f.time
  /\ \A e \in rb_sort, f \in trace_list : e.cpu = f.cpu =>
       e.seq < f.seq /\ e.time + genesis_time <= f.time

(* Whatever of a CPU is still to be shown comes after what was.              *)
RestIsLater ==
  \A i \in DOMAIN shown, e \in trace_list \cup rb_sort :
    shown[i].cpu = e.cpu => shown[i].seq < e.seq

ShownInOrder ==
  \A i, j \in DOMAIN shown : i < j /\ shown[i].cpu = shown[j].cpu => shown[i].seq < shown[j].seq

(* The last event shown of a CPU is the one that last_sequence is of.        *)
Latest(i) == \A j \in DOMAIN shown : i < j => shown[j].cpu # shown[i].cpu
LastKnown == \A i \in DOMAIN shown : Latest(i) => last_sequence[shown[i].cpu] = shown[i].seq

NoGap ==
  pipe_pc \in {"read", "show"} =>
    \A i, j \in DOMAIN shown : Follows(i, j) => shown[j].seq = shown[i].seq + 1

SequenceInv ==
  /\ last_sequence \in [PipeCpus -> Int]
  /\ InOrder /\ RestIsLater /\ ShownInOrder /\ LastKnown /\ NoGap

LEMMA SequenceStarts == PipeInit => SequenceInv
BY DEF PipeInit, SequenceInv, InOrder, RestIsLater, ShownInOrder, LastKnown, NoGap, None

LEMMA ReadKeepsSequence ==
  ASSUME Monotone, ~BeforeGenesis, OnceInv, SequenceInv, NEW c \in PipeCpus, ReadEvent(c)
  PROVE  SequenceInv'
<1>1. PICK s \in newest[c].seq + 1 .. MaxSeq, t \in 1..MaxPipeTime :
        /\ t >= newest[c].time /\ t >= genesis_time
        /\ trace_list' = trace_list \cup {[cpu |-> c, seq |-> s, time |-> t]}
        /\ newest' = [newest EXCEPT ![c] = [seq |-> s, time |-> t]]
  BY DEF ReadEvent
<1> DEFINE new == [cpu |-> c, seq |-> s, time |-> t]
<1>2. UNCHANGED <<pipe_pc, rb_sort, genesis_time, last_sequence, shown>>
  BY DEF ReadEvent
<1>3. /\ newest[c].seq \in 0..MaxSeq /\ newest[c].time \in 0..MaxPipeTime
      /\ s \in 1..MaxSeq /\ newest[c].seq < s /\ t \in Nat /\ 0 < t
      /\ genesis_time \in 0..MaxPipeTime
  BY <1>1, Parameters DEF OnceInv, Types
<1>4. new.cpu = c /\ new.seq = s /\ new.time = t /\ trace_list' = trace_list \cup {new}
  BY <1>1
<1>5. /\ \A d \in PipeCpus : d # c => newest'[d] = newest[d]
      /\ newest'[c].time = t
  BY <1>1 DEF OnceInv, Types
<1> HIDE DEF new
<1>6. /\ trace_list \subseteq PipeEvent /\ rb_sort \subseteq PipeEvent
      /\ \A i \in DOMAIN shown : shown[i] \in PipeEvent
      /\ \A e \in PipeEvent : e.cpu \in PipeCpus /\ e.seq \in Int /\ e.time \in Int
      /\ \A d \in PipeCpus : newest[d].time \in Int
  <2>1. \A e \in PipeEvent : e.cpu \in PipeCpus /\ e.seq \in Int /\ e.time \in Int
    BY Parameters DEF PipeEvent
  <2>2. \A d \in PipeCpus : newest[d].time \in Int
    BY Parameters DEF OnceInv, Types
  <2> QED BY <2>1, <2>2 DEF OnceInv, Types
<1>7. InOrder'
  <2>1. \A e \in trace_list' : /\ genesis_time <= e.time /\ 0 < e.time
                               /\ e.time <= newest'[e.cpu].time
    BY <1>1, <1>3, <1>4, <1>5, <1>6 DEF SequenceInv, InOrder
  <2>2. \A e \in rb_sort : e.time + genesis_time <= newest'[e.cpu].time
    BY <1>1, <1>3, <1>5, <1>6 DEF SequenceInv, InOrder
  <2>3. \A e \in trace_list : e.cpu = c => e.seq < s /\ e.time <= t
    BY <1>1, <1>3, <1>6 DEF SequenceInv, InOrder, OnceInv, FromPipe
  <2>4. \A e, f \in trace_list' : e.cpu = f.cpu /\ e.seq < f.seq => e.time <= f.time
    BY <1>3, <1>4, <1>6, <2>3 DEF SequenceInv, InOrder
  <2>5. \A e \in rb_sort : e.cpu = c => e.seq < s /\ e.time + genesis_time <= t
    BY <1>1, <1>3, <1>6 DEF SequenceInv, InOrder, OnceInv, FromPipe
  <2>6. \A e \in rb_sort, f \in trace_list' : e.cpu = f.cpu =>
          e.seq < f.seq /\ e.time + genesis_time <= f.time
    BY <1>4, <2>5 DEF SequenceInv, InOrder
  <2> QED BY <1>2, <2>1, <2>2, <2>4, <2>6 DEF SequenceInv, InOrder
<1>8. RestIsLater'
  <2>1. \A i \in DOMAIN shown : shown[i].cpu = c => shown[i].seq < s
    BY <1>3, <1>6 DEF OnceInv, FromPipe
  <2> QED BY <1>2, <1>4, <2>1 DEF SequenceInv, RestIsLater
<1> QED BY <1>2, <1>7, <1>8
        DEF SequenceInv, ShownInOrder, LastKnown, Latest, NoGap, Follows

(* The batch joins the tree with times relative to the genesis, which none   *)
(* of its events is older than.                                             *)
LEMMA SortKeepsSequence ==
  ASSUME OnceInv, SequenceInv, SortEntries
  PROVE  SequenceInv'
<1> DEFINE g == IF genesis_time = 0 THEN find_genesis ELSE genesis_time
<1> DEFINE rel(e) == [e EXCEPT !.time = (@ - g) % Wrap]
<1>1. /\ genesis_time' = g /\ rb_sort' = rb_sort \cup {rel(e) : e \in trace_list}
      /\ trace_list' = {} /\ pipe_pc = "read" /\ pipe_pc' = "show" /\ trace_list # {}
      /\ UNCHANGED <<newest, last_sequence, shown>>
  BY DEF SortEntries, Inserted
<1>2. /\ trace_list \subseteq PipeEvent /\ rb_sort \subseteq PipeEvent
      /\ \A e \in PipeEvent : e.cpu \in PipeCpus /\ e.seq \in Int /\ e.time \in 0..MaxPipeTime
      /\ \A d \in PipeCpus : newest[d].time \in Int
      /\ genesis_time \in 0..MaxPipeTime
  BY DEF OnceInv, Types, PipeEvent
<1>3. /\ g \in Nat /\ \A e \in trace_list : g <= e.time
      /\ genesis_time = 0 => \E e \in trace_list : g = e.time
  <2> DEFINE times == {e.time : e \in trace_list}
  <2>1. times \in SUBSET Nat /\ times # {}
    BY <1>1, <1>2, Parameters
  <2> HIDE DEF times
  <2>2. Min(times) \in times /\ Min(times) \in Nat /\ \A x \in times : Min(times) <= x
    BY <2>1, MinOfNat
  <2>3. /\ find_genesis \in Nat /\ find_genesis \in {e.time : e \in trace_list}
        /\ \A e \in trace_list : find_genesis <= e.time
    BY <2>2 DEF find_genesis, times
  <2> QED BY <1>2, <2>3, Parameters DEF SequenceInv, InOrder
<1>4. \A e \in trace_list : /\ rel(e).time = e.time - g
                            /\ rel(e).seq = e.seq /\ rel(e).cpu = e.cpu
  <2> SUFFICES ASSUME NEW e \in trace_list
               PROVE  rel(e).time = e.time - g /\ rel(e).seq = e.seq /\ rel(e).cpu = e.cpu
    OBVIOUS
  <2>1. e \in PipeEvent /\ e.time - g \in 0..MaxPipeTime
    BY <1>2, <1>3, Parameters
  <2>2. (e.time - g) % Wrap = e.time - g
    BY <2>1, Parameters DEF Wrap
  <2> QED BY <2>1, <2>2 DEF PipeEvent
<1> HIDE DEF rel
<1>5. \A f \in rb_sort' : \/ f \in rb_sort
                          \/ \E e \in trace_list : /\ f.time = e.time - g
                                                    /\ f.seq = e.seq /\ f.cpu = e.cpu
  BY <1>1, <1>4
<1>6. rb_sort # {} => g = genesis_time
  BY DEF SequenceInv, InOrder
<1>7. g > 0
  <2>1. CASE genesis_time = 0
    <3>1. \A e \in trace_list : 0 < e.time
      BY <1>2, <2>1 DEF SequenceInv, InOrder
    <3> QED BY <2>1, <3>1, <1>3
  <2>2. CASE genesis_time # 0
    BY <1>2, <2>2, Parameters
  <2> QED BY <2>1, <2>2
<1> HIDE DEF g
<1>8. InOrder'
  <2>1. \A f \in rb_sort' : f.time + g <= newest[f.cpu].time
    <3> SUFFICES ASSUME NEW f \in rb_sort' PROVE f.time + g <= newest[f.cpu].time
      OBVIOUS
    <3>1. CASE f \in rb_sort
      BY <3>1, <1>6 DEF SequenceInv, InOrder
    <3>2. CASE \E e \in trace_list : f.time = e.time - g /\ f.seq = e.seq /\ f.cpu = e.cpu
      BY <3>2, <1>2, <1>3, Parameters DEF SequenceInv, InOrder
    <3> QED BY <3>1, <3>2, <1>5
  <2>2. \A e, f \in rb_sort' : e.cpu = f.cpu /\ e.seq < f.seq => e.time <= f.time
    <3> SUFFICES ASSUME NEW e \in rb_sort', NEW f \in rb_sort', e.cpu = f.cpu, e.seq < f.seq
                 PROVE  e.time <= f.time
      OBVIOUS
    <3> DEFINE from(x, y) == /\ x.time = y.time - g /\ x.seq = y.seq /\ x.cpu = y.cpu
    <3>1. CASE e \in rb_sort /\ f \in rb_sort
      BY <3>1 DEF SequenceInv, InOrder
    <3>2. CASE e \in rb_sort /\ \E y \in trace_list : from(f, y)
      <4>1. PICK y \in trace_list : from(f, y)
        BY <3>2
      <4>2. e.time + g <= y.time
        BY <3>2, <4>1, <1>6 DEF SequenceInv, InOrder
      <4>3. e.time \in Int /\ y.time \in Int /\ g \in Int
        BY <3>2, <1>2, <1>3, Parameters
      <4> QED BY <4>1, <4>2, <4>3
    <3>3. CASE (\E y \in trace_list : from(e, y)) /\ f \in rb_sort
      <4>1. PICK y \in trace_list : from(e, y)
        BY <3>3
      <4>2. f.seq < y.seq
        BY <3>3, <4>1 DEF SequenceInv, InOrder
      <4>3. f.seq \in Int /\ y.seq \in Int
        BY <3>3, <1>2
      <4> QED BY <4>1, <4>2, <4>3
    <3>4. CASE (\E y \in trace_list : from(e, y)) /\ (\E y \in trace_list : from(f, y))
      <4>1. PICK y \in trace_list : from(e, y)
        BY <3>4
      <4>2. PICK z \in trace_list : from(f, z)
        BY <3>4
      <4>3. y.time <= z.time
        BY <4>1, <4>2 DEF SequenceInv, InOrder
      <4>4. y.time \in Int /\ z.time \in Int /\ g \in Int
        BY <1>2, <1>3, Parameters
      <4> QED BY <4>1, <4>2, <4>3, <4>4
    <3> QED BY <3>1, <3>2, <3>3, <3>4, <1>5
  <2> QED BY <1>1, <1>7, <2>1, <2>2 DEF InOrder
<1>9. RestIsLater'
  BY <1>1, <1>5 DEF SequenceInv, RestIsLater
<1> QED BY <1>1, <1>8, <1>9
        DEF SequenceInv, ShownInOrder, LastKnown, Latest, NoGap, Follows

(* The first of the tree is the first of its CPU there, and is shown before  *)
(* the input has ended only if it comes next.                                *)
LEMMA ShowKeepsSequence ==
  ASSUME OnceInv, SequenceInv, ShowEntry
  PROVE  SequenceInv'
<1>1. PICK t \in rb_sort :
        /\ \A u \in rb_sort : ~SortsBefore(u, t)
        /\ pipe_pc = "flush" \/ ~Waits(t)
        /\ last_sequence' = [last_sequence EXCEPT ![t.cpu] = t.seq]
        /\ shown' = Append(shown, t) /\ rb_sort' = rb_sort \ {t}
  BY DEF ShowEntry
<1>2. /\ UNCHANGED <<pipe_pc, newest, trace_list, genesis_time>> /\ trace_list = {}
      /\ pipe_pc \in {"show", "flush"}
  BY DEF ShowEntry, OnceInv, BatchesDone
<1> DEFINE n == Len(shown)
<1>3. /\ n \in Nat /\ DOMAIN shown' = 1 .. n + 1 /\ DOMAIN shown = 1 .. n
      /\ \A i \in DOMAIN shown : shown'[i] = shown[i] /\ i \in Int /\ i < n + 1
      /\ shown'[n + 1] = t
      /\ \A i \in DOMAIN shown' : i \in DOMAIN shown \/ i = n + 1
  BY <1>1 DEF OnceInv, Types
<1> HIDE DEF n
<1>4. /\ \A e \in rb_sort : e.cpu \in PipeCpus /\ e.seq \in Int /\ e.time \in Int
      /\ \A i \in DOMAIN shown : shown[i].cpu \in PipeCpus /\ shown[i].seq \in Int
  <2>1. \A e \in PipeEvent : e.cpu \in PipeCpus /\ e.seq \in Int /\ e.time \in Int
    BY Parameters DEF PipeEvent
  <2> QED BY <2>1 DEF OnceInv, Types
<1>5. \A e \in rb_sort' : e.cpu = t.cpu => t.seq < e.seq
  <2> SUFFICES ASSUME NEW e \in rb_sort', e.cpu = t.cpu PROVE t.seq < e.seq
    OBVIOUS
  <2>1. e \in rb_sort /\ e # t /\ ~SortsBefore(e, t)
    BY <1>1
  <2>2. e.seq # t.seq
    BY <2>1 DEF OnceInv, OnePlace, Key
  <2>3. e.seq < t.seq => e.time <= t.time
    BY <2>1 DEF SequenceInv, InOrder
  <2> QED BY <1>4, <2>1, <2>2, <2>3 DEF SortsBefore
<1>6. \A i \in DOMAIN shown : shown[i].cpu = t.cpu => shown[i].seq < t.seq
  BY DEF SequenceInv, RestIsLater
<1>7. InOrder'
  BY <1>1, <1>2 DEF SequenceInv, InOrder
<1>8. RestIsLater'
  BY <1>1, <1>2, <1>3, <1>5 DEF SequenceInv, RestIsLater
<1>9. ShownInOrder'
  BY <1>3, <1>6 DEF SequenceInv, ShownInOrder
<1>10. LastKnown'
  <2> SUFFICES ASSUME NEW i \in DOMAIN shown', Latest(i)'
               PROVE  last_sequence'[shown'[i].cpu] = shown'[i].seq
    BY DEF LastKnown
  <2>1. CASE i = n + 1
    BY <2>1, <1>1, <1>3, <1>4 DEF SequenceInv
  <2>2. CASE i \in DOMAIN shown
    <3>1. shown[i].cpu # t.cpu
      BY <2>2, <1>3 DEF Latest
    <3>2. Latest(i)
      BY <2>2, <1>3 DEF Latest
    <3>3. last_sequence[shown[i].cpu] = shown[i].seq
      BY <2>2, <3>2 DEF SequenceInv, LastKnown
    <3> QED BY <2>2, <3>1, <3>3, <1>1, <1>3, <1>4 DEF SequenceInv
  <2> QED BY <2>1, <2>2, <1>3
<1>11. NoGap'
  <2> SUFFICES ASSUME pipe_pc = "show", NEW i \in DOMAIN shown', NEW j \in DOMAIN shown', Follows(i, j)'
               PROVE  shown'[j].seq = shown'[i].seq + 1
    BY <1>2 DEF NoGap
  <2>1. CASE j \in DOMAIN shown
    <3>1. i \in DOMAIN shown
      BY <2>1, <1>3 DEF Follows
    <3>2. \A k \in i + 1 .. j - 1 : k \in DOMAIN shown
      BY <2>1, <3>1, <1>3
    <3>3. Follows(i, j)
      BY <2>1, <3>1, <3>2, <1>3 DEF Follows
    <3> QED BY <2>1, <3>1, <3>3, <1>3 DEF SequenceInv, NoGap
  <2>2. CASE j = n + 1
    <3>1. i \in DOMAIN shown /\ shown[i].cpu = t.cpu
      BY <2>2, <1>3 DEF Follows
    <3>2. \A k \in DOMAIN shown : i < k => shown[k].cpu # t.cpu
      BY <2>2, <3>1, <1>3 DEF Follows
    <3>3. last_sequence[t.cpu] = shown[i].seq
      BY <3>1, <3>2 DEF Latest, SequenceInv, LastKnown
    <3>4. shown[i].seq # None
      <4>1. shown[i] \in PipeEvent
        BY <3>1 DEF OnceInv, Types
      <4>2. shown[i].seq \in 1..MaxSeq
        BY <4>1 DEF PipeEvent
      <4> QED BY <4>2, Parameters DEF None
    <3> QED BY <2>2, <3>1, <3>3, <3>4, <1>1, <1>3 DEF Waits, First, Expected
  <2> QED BY <2>1, <2>2, <1>3
<1>12. last_sequence' \in [PipeCpus -> Int]
  BY <1>1, <1>4 DEF SequenceInv
<1> QED BY <1>7, <1>8, <1>9, <1>10, <1>11, <1>12 DEF SequenceInv

LEMMA SequenceInvariant == Monotone /\ ~BeforeGenesis => (PipeSpec => []SequenceInv)
<1> SUFFICES ASSUME Monotone, ~BeforeGenesis PROVE PipeSpec => []SequenceInv
  OBVIOUS
<1>1. PipeInit => SequenceInv
  BY SequenceStarts
<1>2. OnceInv /\ SequenceInv /\ [PipeNext]_pipe_vars => SequenceInv'
  <2> SUFFICES ASSUME OnceInv, SequenceInv, [PipeNext]_pipe_vars PROVE SequenceInv'
    OBVIOUS
  <2> USE DEF SequenceInv, InOrder, RestIsLater, ShownInOrder, LastKnown, Latest, NoGap, Follows
  <2>1. CASE \E c \in PipeCpus : ReadEvent(c)
    BY <2>1, ReadKeepsSequence
  <2>2. CASE SortEntries
    BY <2>2, SortKeepsSequence
  <2>3. CASE EndOfInput
    BY <2>3 DEF EndOfInput
  <2>4. CASE ShowEntry
    BY <2>4, ShowKeepsSequence
  <2>5. CASE ShowEnds
    BY <2>5 DEF ShowEnds
  <2>6. CASE PipeTerminated \/ UNCHANGED pipe_vars
    BY <2>6 DEF PipeTerminated, pipe_vars
  <2> QED BY <2>1, <2>2, <2>3, <2>4, <2>5, <2>6 DEF PipeNext
<1> QED BY <1>1, <1>2, OnceInvariant, PTL DEF PipeSpec

(* If the times of a CPU follow its sequence numbers and nothing is older    *)
(* than the first batch, each CPU's events are shown in sequence, and        *)
(* without a gap until the input has ended (check_sequence).                 *)
THEOREM ShownInSequence == Monotone /\ ~BeforeGenesis => (PipeSpec => []InSequence)
<1>1. SequenceInv => InSequence
  <2> SUFFICES ASSUME SequenceInv, NEW i \in DOMAIN shown, NEW j \in DOMAIN shown, Follows(i, j)
               PROVE  /\ shown[i].seq < shown[j].seq
                      /\ pipe_pc \in {"read", "show"} => shown[j].seq = shown[i].seq + 1
    BY DEF InSequence
  <2> QED BY DEF SequenceInv, ShownInOrder, NoGap, Follows
<1> QED BY <1>1, SequenceInvariant, PTL
-----------------------------------------------------------------------------
(* What was shown of a CPU ends with last_sequence, the ranges of its skips  *)
(* end before that one, each before the next begins, and they hold what is   *)
(* missing between the first and the last shown.                             *)
RangesApart(l, last) ==
  /\ \A i \in DOMAIN l : l[i].start <= l[i].end /\ l[i].end < last
  /\ \A i, j \in DOMAIN l : i < j => l[i].end < l[j].start
Holds(l, x) == \E i \in DOMAIN l : l[i].start <= x /\ x <= l[i].end
SkipsOf(c) ==
  /\ last_sequence[c] = None => SeqsOf(c) = {} /\ skips[c] = <<>>
  /\ last_sequence[c] # None =>
       /\ last_sequence[c] \in SeqsOf(c)
       /\ \A x \in SeqsOf(c) : x <= last_sequence[c]
       /\ RangesApart(skips[c], last_sequence[c])
       /\ \A x \in Int : Holds(skips[c], x) <=>
            x \notin SeqsOf(c) /\ x < last_sequence[c] /\ \E y \in SeqsOf(c) : y < x
Range0 == [start : Nat, end : Nat]
SkipInv ==
  /\ skips \in [PipeCpus -> Seq(Range0)]
  /\ \A c \in PipeCpus : SkipsOf(c)

LEMMA RangesAreNumbers ==
  ASSUME NEW l \in Seq(Range0), NEW i \in DOMAIN l
  PROVE  l[i].start \in Nat /\ l[i].end \in Nat
<1>1. l[i] \in Range0
  OBVIOUS
<1> QED BY <1>1 DEF Range0

LEMMA MaxIs ==
  ASSUME NEW S \in SUBSET Nat, NEW n \in S, \A x \in S : x <= n
  PROVE  Max(S) = n
<1>1. n \in Nat /\ \A y \in S : n >= y
  OBVIOUS
<1>2. ASSUME NEW m \in S, \A y \in S : m >= y PROVE m = n
  <2>1. m \in Nat /\ m >= n /\ m <= n
    BY <1>2
  <2> QED BY <1>1, <2>1
<1> QED BY <1>1, <1>2 DEF Max

(* A range behind the last number keeps the ranges apart.                   *)
LEMMA ApartAppended ==
  ASSUME NEW l \in Seq(Range0), NEW last \in Nat, RangesApart(l, last),
         NEW s \in Nat, last + 1 < s, NEW r \in Range0, r.start = last + 1, r.end = s - 1
  PROVE  RangesApart(Append(l, r), s)
<1> DEFINE m == Append(l, r)
           n == Len(l) + 1
<1>1. /\ Len(l) \in Nat /\ DOMAIN l = 1 .. Len(l) /\ DOMAIN m = DOMAIN l \cup {n}
      /\ \A i \in DOMAIN l : m[i] = l[i]
      /\ m[n] = r
  OBVIOUS
<1>2. \A i \in DOMAIN l : l[i].start \in Nat /\ l[i].end \in Nat
  BY RangesAreNumbers
<1> HIDE DEF m
<1>3. \A i \in DOMAIN l : i < n /\ i \in Nat
  BY <1>1
<1>4. ASSUME NEW i \in DOMAIN l
      PROVE  m[i].start <= m[i].end /\ m[i].end < s /\ m[i].end < m[n].start
  <2>1. l[i].start <= l[i].end /\ l[i].end < last
    BY DEF RangesApart
  <2> QED BY <1>1, <1>2, <2>1
<1>5. m[n].start <= m[n].end /\ m[n].end < s
  BY <1>1
<1>6. ASSUME NEW i \in DOMAIN l, NEW j \in DOMAIN l, i < j PROVE m[i].end < m[j].start
  <2>1. l[i].end < l[j].start
    BY <1>6 DEF RangesApart
  <2> QED BY <1>1, <2>1
<1>7. \A i \in DOMAIN m : m[i].start <= m[i].end /\ m[i].end < s
  BY <1>1, <1>4, <1>5
<1>8. ASSUME NEW i \in DOMAIN m, NEW j \in DOMAIN m, i < j PROVE m[i].end < m[j].start
  <2>1. CASE i \in DOMAIN l /\ j \in DOMAIN l
    BY <1>6, <1>8, <2>1
  <2>2. CASE i \in DOMAIN l /\ j = n
    BY <1>4, <2>2
  <2>3. CASE i = n
    <3>1. j = n \/ j < n
      BY <1>1, <1>3
    <3> QED BY <1>1, <1>8, <2>3, <3>1
  <2> QED BY <1>1, <2>1, <2>2, <2>3
<1> QED BY <1>7, <1>8 DEF RangesApart, m

LEMMA SeqsAreNumbers ==
  ASSUME OnceInv, NEW c
  PROVE  SeqsOf(c) \subseteq Nat \ {0}
<1>1. \A i \in DOMAIN shown : shown[i] \in PipeEvent
  BY DEF OnceInv, Types
<1>2. \A e \in PipeEvent : e.seq \in Nat \ {0}
  BY Parameters DEF PipeEvent
<1> QED BY <1>1, <1>2 DEF SeqsOf

LEMMA SeqsShown ==
  ASSUME OnceInv, NEW t \in PipeEvent, shown' = Append(shown, t), NEW c
  PROVE  SeqsOf(c)' = IF c = t.cpu THEN SeqsOf(c) \cup {t.seq} ELSE SeqsOf(c)
<1>1. /\ Len(shown) \in Nat /\ DOMAIN shown = 1 .. Len(shown)
      /\ DOMAIN shown' = DOMAIN shown \cup {Len(shown) + 1}
      /\ \A i \in DOMAIN shown : shown'[i] = shown[i]
      /\ shown'[Len(shown) + 1] = t
  BY DEF OnceInv, Types
<1> QED BY <1>1 DEF SeqsOf

(* Behind ranges that all end earlier, a later one is a range of its own.    *)
LEMMA SkipAppended ==
  ASSUME NEW l \in Seq(Range0), NEW last \in Nat, NEW seq \in Nat,
         RangesApart(l, last), last + 1 < seq
  PROVE  /\ Holding(l, seq) = {}
         /\ insert_skip(l, last + 1, seq - 1) = Append(l, [start |-> last + 1, end |-> seq - 1])
<1>1. \A i \in DOMAIN l : l[i].start \in Nat /\ l[i].end \in Nat
  BY RangesAreNumbers
<1>2. Holding(l, seq) = {}
  BY <1>1 DEF Holding, RangesApart
<1>3. {i \in DOMAIN l : seq - 1 = l[i].start - 1 \/ last + 1 = l[i].end + 1} = {}
  BY <1>1 DEF RangesApart
<1> QED BY <1>2, <1>3 DEF insert_skip

LEMMA ShowKeepsSkips ==
  ASSUME OnceInv, SequenceInv, SkipInv, ShowEntry
  PROVE  SkipInv'
<1>1. PICK t \in rb_sort :
        /\ skips' = [skips EXCEPT ![t.cpu] = SkipsAfter(t)]
        /\ last_sequence' = [last_sequence EXCEPT ![t.cpu] = t.seq]
        /\ shown' = Append(shown, t)
  BY DEF ShowEntry
<1> DEFINE c == t.cpu
           s == t.seq
           l == skips[c]
           last == last_sequence[c]
           l2 == SkipsAfter(t)
<1>2. t \in PipeEvent /\ c \in PipeCpus /\ s \in Nat \ {0}
  BY <1>1, Parameters DEF OnceInv, Types, PipeEvent
<1>3. /\ skips \in [PipeCpus -> Seq(Range0)] /\ last_sequence \in [PipeCpus -> Int] /\ l \in Seq(Range0)
      /\ SkipsOf(c)
  BY <1>2 DEF SkipInv, SequenceInv
<1>4. SeqsOf(c)' = SeqsOf(c) \cup {s} /\ \A d \in PipeCpus : d # c => SeqsOf(d)' = SeqsOf(d)
  BY <1>1, <1>2, SeqsShown
<1>5. \A x \in SeqsOf(c) : x < s /\ x \in Nat
  <2>1. \A x \in SeqsOf(c) : x < s
    BY <1>1 DEF SequenceInv, RestIsLater, SeqsOf
  <2> QED BY <2>1, SeqsAreNumbers
<1>6. ASSUME NEW d \in PipeCpus, d # c PROVE SkipsOf(d)'
  <2>1. skips'[d] = skips[d] /\ last_sequence'[d] = last_sequence[d] /\ SeqsOf(d)' = SeqsOf(d)
    BY <1>1, <1>3, <1>4, <1>6
  <2>2. SkipsOf(d)
    BY DEF SkipInv
  <2> QED BY <2>1, <2>2 DEF SkipsOf
<1>7. skips'[c] = l2 /\ last_sequence'[c] = s /\ s # None
  BY <1>1, <1>2, <1>3 DEF None
<1>8. \A i \in DOMAIN l : l[i].start \in Nat /\ l[i].end \in Nat
  BY <1>3, RangesAreNumbers
<1>9. SUFFICES /\ l2 \in Seq(Range0) /\ RangesApart(l2, s)
               /\ \A x \in Int : Holds(l2, x) <=>
                    x \notin SeqsOf(c)' /\ x < s /\ \E y \in SeqsOf(c)' : y < x
  <2>1. skips' \in [PipeCpus -> Seq(Range0)]
    BY <1>1, <1>2, <1>3, <1>9
  <2>2. s \in SeqsOf(c)' /\ \A x \in SeqsOf(c)' : x <= s
    BY <1>2, <1>4, <1>5
  <2>3. SkipsOf(c)'
    <3>1. PICK r : r = skips'[c]
      OBVIOUS
    <3>2. PICK m : m = l2
      OBVIOUS
    <3> HIDE DEF l2
    <3>3. RangesApart(m, s) /\ \A x \in Int : Holds(m, x) <=>
                    x \notin SeqsOf(c)' /\ x < s /\ \E y \in SeqsOf(c)' : y < x
      BY <1>9, <3>2
    <3> QED BY <1>7, <2>2, <3>1, <3>2, <3>3 DEF SkipsOf
  <2> QED BY <1>6, <2>1, <2>3 DEF SkipInv
<1>10. CASE last = None
  <2>1. l2 = <<>> /\ SeqsOf(c) = {}
    BY <1>3, <1>10 DEF SkipsAfter, First, SkipsOf
  <2> HIDE DEF l2
  <2>2. SeqsOf(c)' = {s}
    BY <1>4, <2>1
  <2> QED BY <1>2, <2>1, <2>2 DEF RangesApart, Holds
<1>11. CASE last # None
  <2>1. /\ last \in SeqsOf(c) /\ last \in Nat /\ last < s
        /\ \A x \in SeqsOf(c) : x <= last
        /\ RangesApart(l, last)
        /\ \A x \in Int : Holds(l, x) <=>
             x \notin SeqsOf(c) /\ x < last /\ \E y \in SeqsOf(c) : y < x
    BY <1>3, <1>5, <1>11 DEF SkipsOf
  <2> DEFINE missed(x) == x \notin SeqsOf(c)' /\ x < s /\ \E y \in SeqsOf(c)' : y < x
  <2>2. ASSUME NEW x \in Int, x < s
        PROVE  missed(x) <=> x \notin SeqsOf(c) /\ \E y \in SeqsOf(c) : y < x
    <3>1. x # s /\ ~(s < x)
      BY <1>2, <2>2
    <3> QED BY <1>4, <2>2, <3>1
  <2>3. ASSUME NEW x \in Int, last < x PROVE x \notin SeqsOf(c) /\ \E y \in SeqsOf(c) : y < x
    <3>1. ~(x <= last)
      BY <2>1, <2>3
    <3> QED BY <2>1, <2>3, <3>1
  <2> HIDE DEF missed
  <2>4. ASSUME NEW x \in Int PROVE missed(x) <=> Holds(l, x) \/ (last < x /\ x < s)
    <3>1. CASE x < last
      <4>1. x < s /\ ~(last < x)
        BY <1>2, <2>1, <3>1
      <4> QED BY <2>1, <2>2, <3>1, <4>1
    <3>2. CASE x = last
      <4>1. x < s /\ ~(last < x) /\ ~(x < last)
        BY <1>2, <2>1, <3>2
      <4> QED BY <2>1, <2>2, <3>2, <4>1
    <3>3. CASE last < x /\ x < s
      BY <2>2, <2>3, <3>3
    <3>4. CASE ~(x < s)
      <4>1. ~missed(x)
        BY <3>4 DEF missed
      <4>2. ~(x < last)
        BY <1>2, <2>1, <3>4
      <4> QED BY <2>1, <3>4, <4>1, <4>2
    <3>5. x < last \/ x = last \/ (last < x /\ x < s) \/ ~(x < s)
      BY <1>2, <2>1
    <3> QED BY <3>1, <3>2, <3>3, <3>4, <3>5
  <2>5. CASE s = last + 1
    <3>1. l2 = l
      BY <2>5 DEF SkipsAfter, Expected
    <3> HIDE DEF l2, l, last
    <3>2. RangesApart(l, s)
      BY <2>1, <2>5, <1>8 DEF RangesApart
    <3>3. \A x \in Int : Holds(l, x) <=> missed(x)
      <4>1. \A x \in Int : ~(last < x /\ x < s)
        BY <2>1, <2>5
      <4> QED BY <2>4, <4>1
    <3> QED BY <1>3, <3>1, <3>2, <3>3 DEF missed
  <2>6. CASE s # last + 1
    <3> DEFINE r == [start |-> last + 1, end |-> s - 1]
    <3>1. last + 1 < s
      BY <1>2, <2>1, <2>6
    <3>2. Holding(l, s) = {} /\ insert_skip(l, last + 1, s - 1) = Append(l, r)
      BY <1>2, <1>3, <2>1, <3>1, SkipAppended
    <3>3. l2 = Append(l, r)
      BY <1>11, <2>6, <3>1, <3>2 DEF SkipsAfter, First, Expected, SkipTo
    <3>4. r \in Range0 /\ r.start = last + 1 /\ r.end = s - 1
      BY <1>2, <2>1, <3>1 DEF Range0
    <3> HIDE DEF r, l2, l
    <3>5. /\ l2 \in Seq(Range0) /\ Len(l) \in Nat
          /\ DOMAIN l = 1 .. Len(l) /\ DOMAIN l2 = DOMAIN l \cup {Len(l) + 1}
          /\ \A i \in DOMAIN l : l2[i] = l[i]
          /\ l2[Len(l) + 1] = r
      BY <1>3, <3>3, <3>4
    <3> HIDE DEF last
    <3>6. RangesApart(l2, s)
      BY <1>2, <1>3, <2>1, <3>1, <3>3, <3>4, ApartAppended
    <3>7. ASSUME NEW x \in Int
          PROVE  Holds(l2, x) <=> Holds(l, x) \/ (last < x /\ x < s)
      <4>1. r.start <= x /\ x <= r.end <=> last < x /\ x < s
        BY <1>2, <2>1, <3>4
      <4>2. Holds(l2, x) <=> Holds(l, x) \/ (r.start <= x /\ x <= r.end)
        BY <3>5, Zenon DEF Holds
      <4> QED BY <4>1, <4>2
    <3>8. \A x \in Int : Holds(l2, x) <=> missed(x)
      BY <2>4, <3>7
    <3> QED BY <3>5, <3>6, <3>8 DEF missed
  <2> QED BY <2>5, <2>6
<1> QED BY <1>10, <1>11

(* The skips are what was passed over between the first event shown of a CPU *)
(* and the last one, each number once (check_sequence, insert_skip).         *)
THEOREM SkipsAreTheGaps == Monotone /\ ~BeforeGenesis => (PipeSpec => []SkipsExact)
<1> SUFFICES ASSUME Monotone, ~BeforeGenesis PROVE PipeSpec => []SkipsExact
  OBVIOUS
<1>1. PipeInit => SkipInv
  BY DEF PipeInit, SkipInv, SkipsOf, SeqsOf, None, Range0
<1>2. OnceInv /\ SequenceInv /\ SkipInv /\ [PipeNext]_pipe_vars => SkipInv'
  <2> SUFFICES ASSUME OnceInv, SequenceInv, SkipInv, [PipeNext]_pipe_vars PROVE SkipInv'
    OBVIOUS
  <2>1. CASE UNCHANGED <<shown, skips, last_sequence>>
    <3>1. \A c : SeqsOf(c)' = SeqsOf(c)
      BY <2>1 DEF SeqsOf
    <3>2. ASSUME NEW c \in PipeCpus PROVE SkipsOf(c)'
      BY <2>1, <3>1 DEF SkipInv, SkipsOf
    <3> QED BY <2>1, <3>2 DEF SkipInv
  <2>2. CASE ShowEntry
    BY <2>2, ShowKeepsSkips
  <2>3. CASE ~ShowEntry
    BY <2>1, <2>3 DEF PipeNext, ReadEvent, SortEntries, EndOfInput, ShowEnds, PipeTerminated, pipe_vars
  <2> QED BY <2>2, <2>3
<1>3. OnceInv /\ SkipInv => SkipsExact
  <2> SUFFICES ASSUME OnceInv, SkipInv, NEW c \in PipeCpus
               PROVE  /\ Skipped(c) = IF SeqsOf(c) = {} THEN {}
                                      ELSE (Min(SeqsOf(c)) .. Max(SeqsOf(c))) \ SeqsOf(c)
                      /\ \A i, j \in DOMAIN skips[c] :
                           /\ skips[c][i].start <= skips[c][i].end
                           /\ i < j => \/ skips[c][i].end < skips[c][j].start
                                       \/ skips[c][j].end < skips[c][i].start
    BY DEF SkipsExact
  <2> DEFINE l == skips[c]
             last == last_sequence[c]
             S == SeqsOf(c)
  <2>1. /\ l \in Seq(Range0) /\ SkipsOf(c) /\ S \in SUBSET Nat
        /\ \A i \in DOMAIN l : l[i].start \in Nat /\ l[i].end \in Nat
    <3>1. l \in Seq(Range0) /\ SkipsOf(c)
      BY DEF SkipInv
    <3>2. S \in SUBSET Nat
      BY SeqsAreNumbers
    <3> QED BY <3>1, <3>2, RangesAreNumbers
  <2>2. CASE last = None
    BY <2>1, <2>2 DEF SkipsOf, Skipped
  <2>3. CASE last # None
    <3>1. /\ last \in S /\ (\A x \in S : x <= last) /\ RangesApart(l, last)
          /\ \A x \in Int : Holds(l, x) <=> x \notin S /\ x < last /\ \E y \in S : y < x
      BY <2>1, <2>3 DEF SkipsOf
    <3>2. \A x : x \in Skipped(c) <=> x \in Int /\ Holds(l, x)
      BY <2>1 DEF Skipped, Holds
    <3> HIDE DEF l, last, S
    <3>3. Max(S) = last
      BY <2>1, <3>1, MaxIs
    <3>4. Min(S) \in S /\ \A x \in S : Min(S) <= x
      BY <2>1, <3>1, MinOfNat
    <3>5. \A x : x \in (Min(S) .. Max(S)) \ S <=>
                  x \in Int /\ x \notin S /\ x < last /\ \E y \in S : y < x
      <4>1. S \subseteq Int /\ last \in Int
        BY <2>1, <3>1
      <4>2. PICK m \in Int : m = Min(S)
        BY <3>4, <4>1
      <4>3. m \in S /\ \A x \in S : m <= x
        BY <3>4, <4>2
      <4>4. \A x : x \in (m .. last) \ S <=>
                    x \in Int /\ x \notin S /\ x < last /\ \E y \in S : y < x
        <5> SUFFICES ASSUME NEW x \in Int
                     PROVE  x \in (m .. last) \ S <=>
                              x \notin S /\ x < last /\ \E y \in S : y < x
          BY <4>1, <4>2
        <5>1. x \notin S => (x <= last <=> x < last) /\ (m <= x <=> m < x)
          BY <3>1, <4>1, <4>2, <4>3
        <5>2. m < x <=> \E y \in S : y < x
          BY <4>1, <4>2, <4>3
        <5> QED BY <5>1, <5>2, <4>1, <4>2
      <4> QED BY <3>3, <4>2, <4>4
    <3>6. Skipped(c) = (Min(S) .. Max(S)) \ S
      BY <3>1, <3>2, <3>5
    <3> QED BY <2>1, <3>1, <3>6 DEF RangesApart, l, S
  <2> QED BY <2>2, <2>3
<1> QED BY <1>1, <1>2, <1>3, OnceInvariant, SequenceInvariant, PTL DEF PipeSpec
=============================================================================
