----------------------------- MODULE BlkiomonProofs -----------------------------
(***************************************************************************)
(* What blkiomon accounts are issues and their completions, and neither a  *)
(* trace nor a dstat is lost or listed twice: for any streams of events,   *)
(* any order in which they are read, any losses and any turns of the two   *)
(* threads; and an interval costs one pair at most.  PairInv follows an    *)
(* event into the table and its pair, ListInv the dstats through the lists, *)
(* TraceInv the traces, RowInv the rows, CountInv what was accounted.      *)
(***************************************************************************)
EXTENDS Blkiomon, WellFoundedInduction, SequenceTheorems, FiniteSetTheorems, TLAPS

LEMMA Assumed ==
  /\ TRACE_HASH_SIZE \in Nat \ {0} /\ Micro \in Nat \ {0} /\ VacantMax \in Nat
  /\ Stream \in [Cpus -> Seq(Event)]
  /\ \A c, d \in Cpus : \A i \in DOMAIN Stream[c], j \in DOMAIN Stream[d] :
       Stream[c][i] = Stream[d][j] => c = d /\ i = j
BY BlkiomonAssumption

(* A set of numbers that is not empty has a least one.                       *)
LEMMA MinIn ==
  ASSUME NEW S \in SUBSET Nat, S # {}
  PROVE  Min(S) \in S
<1> DEFINE R == OpToRel(<, Nat)
<1>1. IsWellFoundedOn(R, Nat)
  BY NatLessThanWellFounded
<1>2. \A x, y \in Nat : <<x, y>> \in R <=> x < y
  BY DEF OpToRel
<1> HIDE DEF R
<1>3. PICK x \in S : \A y \in S : ~(<<y, x>> \in R)
  BY <1>1, WFMin
<1>4. \A y \in S : x <= y
  <2> SUFFICES ASSUME NEW y \in S PROVE x <= y
    OBVIOUS
  <2>1. ~(y < x)
    BY <1>2, <1>3, x \in Nat, y \in Nat, Zenon
  <2> QED BY <2>1
<1> QED BY <1>3, <1>4 DEF Min

(* The stored trace that fits is found.                                     *)
LEMMA FetchFinds ==
  ASSUME NEW e, thash[Bucket(e)] \in Seq(Event)
  PROVE  LET i == blkiomon_fetch_trace(e)
             s == thash[Bucket(e)]
         IN  /\ i = 0 => \A j \in DOMAIN s : ~Same(s[j], e)
             /\ i # 0 => i \in DOMAIN s /\ Same(s[i], e)
<1> DEFINE s == thash[Bucket(e)]
           I == {j \in 1..Len(s) : Same(s[j], e)}
<1>1. blkiomon_fetch_trace(e) = IF I # {} THEN Min(I) ELSE 0
  BY DEF blkiomon_fetch_trace, SelectInSeq
<1>2. DOMAIN s = 1..Len(s) /\ Len(s) \in Nat
  OBVIOUS
<1>3. I # {} => Min(I) \in I
  <2>1. I \in SUBSET Nat
    BY <1>2
  <2> HIDE DEF I
  <2> QED BY <2>1, MinIn
<1> QED BY <1>1, <1>2, <1>3
-----------------------------------------------------------------------------
(* A chain of the hash table: the events of its bucket, of which no two      *)
(* would match.                                                             *)
Chain(s, b) ==
  /\ s \in Seq(Event)
  /\ \A i \in DOMAIN s : Bucket(s[i]) = b
  /\ \A i, j \in DOMAIN s : Same(s[i], s[j]) => i = j

LEMMA RemoveChain ==
  ASSUME NEW s, NEW b, Chain(s, b), NEW k \in DOMAIN s
  PROVE  /\ Chain(RemoveAt(s, k), b) /\ Len(RemoveAt(s, k)) = Len(s) - 1
         /\ \A i \in DOMAIN RemoveAt(s, k) :
              /\ \E j \in DOMAIN s : RemoveAt(s, k)[i] = s[j]
              /\ ~Same(RemoveAt(s, k)[i], s[k])
<1>1. s \in Seq(Event) /\ k \in 1..Len(s) /\ Len(s) \in Nat
  BY DEF Chain
<1> DEFINE r == RemoveAt(s, k)
           from(i) == IF i < k THEN i ELSE i + 1
<1>2. /\ r \in Seq(Event) /\ Len(r) = Len(s) - 1
      /\ \A i \in 1..Len(r) : r[i] = s[from(i)]
  <2> DEFINE front == SubSeq(s, 1, k - 1)
             back == SubSeq(s, k + 1, Len(s))
  <2>1. /\ front \in Seq(Event) /\ Len(front) = k - 1
        /\ \A i \in 1..(k - 1) : front[i] = s[i]
    BY <1>1, SubSeqProperties
  <2>2. /\ back \in Seq(Event) /\ Len(back) = Len(s) - k
        /\ \A i \in 1..(Len(s) - k) : back[i] = s[k + i]
    BY <1>1, SubSeqProperties
  <2>3. r = front \o back
    BY DEF RemoveAt
  <2> HIDE DEF front, back, r
  <2>4. /\ r \in Seq(Event) /\ Len(r) = Len(front) + Len(back)
        /\ \A i \in 1..Len(r) : r[i] = IF i <= Len(front) THEN front[i] ELSE back[i - Len(front)]
    <3>1. /\ front \o back \in Seq(Event) /\ Len(front \o back) = Len(front) + Len(back)
          /\ \A i \in 1..(Len(front) + Len(back)) :
               (front \o back)[i] = IF i <= Len(front) THEN front[i] ELSE back[i - Len(front)]
      BY <2>1, <2>2, ConcatProperties
    <3> QED BY <2>3, <3>1
  <2>5. Len(r) = Len(s) - 1
    BY <1>1, <2>1, <2>2, <2>4
  <2>6. ASSUME NEW i \in 1..Len(r) PROVE r[i] = s[from(i)]
    <3>1. CASE i < k
      BY <3>1, <1>1, <2>1, <2>4
    <3>2. CASE ~(i < k)
      <4> DEFINE j == i - (k - 1)
      <4>1. j \in 1..(Len(s) - k) /\ k + j = i + 1
        BY <3>2, <1>1, <2>5
      <4>2. r[i] = back[j]
        BY <3>2, <1>1, <2>1, <2>4
      <4> QED BY <3>2, <4>1, <4>2, <2>2
    <3> QED BY <3>1, <3>2
  <2> QED BY <2>4, <2>5, <2>6
<1>3. \A i \in 1..Len(r) : from(i) \in DOMAIN s /\ from(i) # k
  BY <1>1, <1>2
<1>4. \A i, j \in 1..Len(r) : from(i) = from(j) => i = j
  BY <1>1, <1>2
<1>5. DOMAIN r = 1..Len(r)
  BY <1>2
<1> HIDE DEF r, from
<1>6. Chain(r, b)
  <2>1. \A i \in DOMAIN r : Bucket(r[i]) = b
    BY <1>2, <1>3, <1>5 DEF Chain
  <2>2. \A i, j \in DOMAIN r : Same(r[i], r[j]) => i = j
    <3> SUFFICES ASSUME NEW i \in 1..Len(r), NEW j \in 1..Len(r), Same(r[i], r[j]) PROVE i = j
      BY <1>5
    <3>1. from(i) \in DOMAIN s /\ from(j) \in DOMAIN s
      BY <1>3
    <3>2. Same(s[from(i)], s[from(j)])
      BY <1>2
    <3>3. from(i) = from(j)
      BY <3>1, <3>2 DEF Chain
    <3> QED BY <3>3, <1>4
  <2> QED BY <1>2, <2>1, <2>2 DEF Chain
<1>7. \A i \in DOMAIN r : (\E j \in DOMAIN s : r[i] = s[j]) /\ ~Same(r[i], s[k])
  BY <1>2, <1>3, <1>5 DEF Chain
<1> QED BY <1>2, <1>6, <1>7 DEF r

LEMMA StoreChain ==
  ASSUME NEW s, NEW b, Chain(s, b), NEW e \in Event, Bucket(e) = b,
         \A i \in DOMAIN s : ~Same(s[i], e)
  PROVE  /\ Chain(<<e>> \o s, b)
         /\ \A i \in DOMAIN (<<e>> \o s) :
              (<<e>> \o s)[i] = e \/ \E j \in DOMAIN s : (<<e>> \o s)[i] = s[j]
<1> DEFINE r == <<e>> \o s
<1>1. s \in Seq(Event) /\ Len(s) \in Nat /\ DOMAIN s = 1..Len(s)
  BY DEF Chain
<1>2. /\ r \in Seq(Event) /\ DOMAIN r = 1..(Len(s) + 1)
      /\ r[1] = e /\ \A i \in 2..(Len(s) + 1) : r[i] = s[i - 1]
  BY <1>1
<1> HIDE DEF r
<1>3. \A i \in DOMAIN r : (i = 1 /\ r[i] = e) \/ (i - 1 \in DOMAIN s /\ r[i] = s[i - 1])
  BY <1>1, <1>2
<1>4. \A x, y : Same(x, y) <=> Same(y, x)
  BY DEF Same
<1>5. \A i \in DOMAIN r : i \in Int
  BY <1>1, <1>2
<1>6. \A i \in DOMAIN r : Bucket(r[i]) = b
  BY <1>3 DEF Chain
<1>7. \A i, j \in DOMAIN r : Same(r[i], r[j]) => i = j
  <2> SUFFICES ASSUME NEW i \in DOMAIN r, NEW j \in DOMAIN r, Same(r[i], r[j]) PROVE i = j
    OBVIOUS
  <2>1. CASE i = 1 /\ r[i] = e
    BY <2>1, <1>3, <1>4
  <2>2. CASE i - 1 \in DOMAIN s /\ r[i] = s[i - 1]
    <3>1. j - 1 \in DOMAIN s /\ r[j] = s[j - 1]
      BY <2>2, <1>3, <1>4
    <3>2. i - 1 = j - 1
      BY <2>2, <3>1 DEF Chain
    <3> QED BY <3>2, <1>5
  <2> QED BY <2>1, <2>2, <1>3
<1>8. \A i \in DOMAIN r : r[i] = e \/ \E j \in DOMAIN s : r[i] = s[j]
  BY <1>3
<1> QED BY <1>2, <1>6, <1>7, <1>8 DEF Chain, r
-----------------------------------------------------------------------------
(* The hash table h, of some of the events that came.                       *)
IsTable(h, came) ==
  /\ h = [b \in 0..(TRACE_HASH_SIZE - 1) |-> h[b]]
  /\ \A b \in DOMAIN h : Chain(h[b], b)
  /\ \A b \in DOMAIN h : \A j \in DOMAIN h[b] : h[b][j] \in came
In(h, x) == \E b \in DOMAIN h : \E j \in DOMAIN h[b] : h[b][j] = x

(* A chain r made of e and another, s, and what it leaves of a table h.      *)
MadeOf(r, s, e) == \A j \in DOMAIN r : r[j] = e \/ \E k \in DOMAIN s : r[j] = s[k]
Within(t, h, b, r, e) ==
  \A x : In(t, x) => /\ x = e \/ In(h, x)
                     /\ Bucket(x) = b => \E j \in DOMAIN r : r[j] = x

LEMMA ChainReplaced ==
  ASSUME NEW h, NEW came, NEW all, IsTable(h, came), came \subseteq all,
         NEW b \in DOMAIN h, NEW r, Chain(r, b), NEW e \in all, MadeOf(r, h[b], e),
         NEW t, t = [h EXCEPT ![b] = r]
  PROVE  IsTable(t, all) /\ Within(t, h, b, r, e)
<1>1. /\ DOMAIN t = DOMAIN h /\ DOMAIN h = 0..(TRACE_HASH_SIZE - 1)
      /\ t[b] = r /\ \A d \in DOMAIN h : d # b => t[d] = h[d]
      /\ t = [d \in 0..(TRACE_HASH_SIZE - 1) |-> t[d]]
  BY DEF IsTable
<1>2. ASSUME NEW d \in DOMAIN t
      PROVE  Chain(t[d], d) /\ \A j \in DOMAIN t[d] : t[d][j] \in all
  BY <1>1 DEF IsTable, MadeOf
<1>3. IsTable(t, all)
  BY <1>1, <1>2 DEF IsTable
<1>4. ASSUME NEW d \in DOMAIN t, NEW j \in DOMAIN t[d]
      PROVE  /\ t[d][j] = e \/ In(h, t[d][j])
             /\ Bucket(t[d][j]) = b => \E k \in DOMAIN r : r[k] = t[d][j]
  <2>1. CASE d = b
    BY <2>1, <1>1 DEF MadeOf, In
  <2>2. CASE d # b
    BY <2>2, <1>1 DEF IsTable, Chain, In
  <2> QED BY <2>1, <2>2
<1>5. Within(t, h, b, r, e)
  BY <1>4 DEF In, Within
<1> QED BY <1>3, <1>5

LEMMA Fits ==
  /\ \A x : Same(x, x)
  /\ \A x, y : Same(x, y) => Same(y, x)
  /\ \A x, y, z : Same(x, y) /\ Same(y, z) => Same(x, z)
  /\ \A x, y : Same(x, y) => Bucket(x) = Bucket(y)
BY DEF Same, Bucket

-----------------------------------------------------------------------------
(* The events that came: each is stored, in a pair, or of no more interest.  *)
Came == UNION {{Stream[c][i] : i \in 1..next[c]} : c \in Cpus}

Pairs == matched \cup {m \in {bit} : m # <<>>}
Good(m, came) ==
  /\ m[1] \in came /\ m[2] \in came
  /\ m[1].act = "D" /\ m[2].act = "C"
  /\ Same(m[1], m[2]) /\ m[1].time <= m[2].time

(* An event is in one pair or one place of the table at most, not in both.   *)
PairInv ==
  /\ next \in [Cpus -> Nat] /\ \A c \in Cpus : next[c] <= Len(Stream[c])
  /\ (bit = <<>> <=> gpc \in {"loop", "read", "done"})
  /\ IsTable(thash, Came)
  /\ \A m \in Pairs : Good(m, Came) /\ ~In(thash, m[1]) /\ ~In(thash, m[2])
  /\ \A m, n \in Pairs : m[1] = n[1] \/ m[2] = n[2] => m = n

LEMMA PairStart == Init => PairInv
BY Assumed DEF Init, PairInv, IsTable, Chain, Pairs

(* Steps that add no pair and leave the table alone.                        *)
LEMMA QuietStep ==
  ASSUME PairInv, UNCHANGED thash, Pairs' = Pairs,
         next' \in [Cpus -> Nat],
         \A c \in Cpus : next[c] <= next'[c] /\ next'[c] <= Len(Stream[c]),
         bit' = <<>> <=> gpc' \in {"loop", "read", "done"}
  PROVE  PairInv'
<1>1. Came \subseteq Came'
  <2> SUFFICES ASSUME NEW c \in Cpus, NEW i \in 1..next[c] PROVE Stream[c][i] \in Came'
    BY DEF Came
  <2>1. i \in 1..next'[c]
    BY DEF PairInv
  <2> QED BY <2>1 DEF Came
<1>2. \A m \in Pairs : Good(m, Came') /\ ~In(thash, m[1]) /\ ~In(thash, m[2])
  BY <1>1 DEF PairInv, Good
<1>3. IsTable(thash, Came')
  BY <1>1 DEF PairInv, IsTable
<1> QED BY <1>2, <1>3 DEF PairInv

(* An event comes: it is new.                                               *)
LEMMA ComesNew ==
  ASSUME PairInv, NEW c \in CpusLeft, next' = [next EXCEPT ![c] = @ + 1]
  PROVE  /\ Comes(c) \in Event /\ Came' = Came \cup {Comes(c)} /\ Comes(c) \notin Came
         /\ next' \in [Cpus -> Nat] /\ \A d \in Cpus : next'[d] <= Len(Stream[d])
<1> DEFINE n == next[c] + 1
<1>1. /\ c \in Cpus /\ n \in Nat /\ n \in DOMAIN Stream[c]
      /\ \A d \in Cpus : Stream[d] \in Seq(Event) /\ next[d] \in Nat /\ next[d] <= Len(Stream[d])
  <2>1. \A d \in Cpus : Stream[d] \in Seq(Event) /\ next[d] \in Nat /\ next[d] <= Len(Stream[d])
    BY Assumed DEF PairInv
  <2>2. c \in Cpus /\ next[c] < Len(Stream[c])
    BY DEF CpusLeft
  <2>3. Len(Stream[c]) \in Nat /\ DOMAIN Stream[c] = 1..Len(Stream[c])
    BY <2>1, <2>2
  <2> QED BY <2>1, <2>2, <2>3
<1>2. next'[c] = n /\ \A d \in Cpus : d # c => next'[d] = next[d]
  BY <1>1 DEF PairInv
<1>3. Came' = Came \cup {Stream[c][n]}
  <2>1. 1..n = 1..next[c] \cup {n}
    BY <1>1
  <2>2. \A x : x \in Came' <=> \E d \in Cpus : \E i \in 1..next'[d] : x = Stream[d][i]
    BY DEF Came
  <2>3. \A x : x \in Came <=> \E d \in Cpus : \E i \in 1..next[d] : x = Stream[d][i]
    BY DEF Came
  <2> HIDE DEF n
  <2>4. ASSUME NEW x \in Came' PROVE x \in Came \cup {Stream[c][n]}
    BY <1>1, <1>2, <2>1, <2>2, <2>3
  <2>5. ASSUME NEW x \in Came PROVE x \in Came'
    BY <1>1, <1>2, <2>1, <2>2, <2>3
  <2>6. Stream[c][n] \in Came'
    BY <1>1, <1>2, <2>1, <2>2
  <2> QED BY <2>4, <2>5, <2>6
<1>4. Stream[c][n] \notin Came
  <2> SUFFICES ASSUME NEW d \in Cpus, NEW i \in 1..next[d], Stream[d][i] = Stream[c][n]
               PROVE  FALSE
    BY DEF Came
  <2>1. i \in DOMAIN Stream[d]
    BY <1>1
  <2>2. d = c /\ i = n
    BY <1>1, <2>1, Assumed
  <2> QED BY <2>2, <1>1
<1>5. Stream[c][n] \in Event
  BY <1>1
<1> QED BY <1>1, <1>2, <1>3, <1>4, <1>5 DEF Comes, PairInv

(* An event goes with the stored one that fits, or takes its place, or is    *)
(* stored.                                                                  *)
LEMMA DoTraceKeeps ==
  ASSUME PairInv, NEW c \in CpusLeft, next' = [next EXCEPT ![c] = @ + 1],
         bit = <<>>, UNCHANGED matched, blkiomon_do_trace(Comes(c))
  PROVE  PairInv'
<1> DEFINE e == Comes(c)
           b == Bucket(e)
           s == thash[b]
           i == blkiomon_fetch_trace(e)
           pair == OlderFirst(s[i], e)
<1>1. /\ e \in Event /\ e \in Came' /\ e \notin Came /\ Came \subseteq Came'
      /\ next' \in [Cpus -> Nat] /\ \A d \in Cpus : next'[d] <= Len(Stream[d])
  BY ComesNew
<1>2. /\ b \in DOMAIN thash /\ Chain(s, b) /\ IsTable(thash, Came)
      /\ \A j \in DOMAIN s : s[j] \in Came /\ s[j] \in Event /\ In(thash, s[j])
  <2>1. b \in 0..(TRACE_HASH_SIZE - 1)
    BY <1>1, Assumed DEF Bucket, Event
  <2> QED BY <2>1 DEF PairInv, IsTable, Chain, In
<1>3. /\ i = 0 => \A j \in DOMAIN s : ~Same(s[j], e)
      /\ i # 0 => i \in DOMAIN s /\ Same(s[i], e)
  BY <1>2, FetchFinds DEF Chain
<1>4. /\ Pairs = matched
      /\ \A m \in Pairs : Good(m, Came') /\ m[1] # e /\ m[2] # e
  BY <1>1 DEF PairInv, Good, Pairs
<1>5. ASSUME NEW r, Chain(r, b), MadeOf(r, s, e), thash' = [thash EXCEPT ![b] = r]
      PROVE  IsTable(thash', Came') /\ Within(thash', thash, b, r, e)
  <2> HIDE DEF b, e
  <2> QED BY <1>1, <1>2, <1>5, ChainReplaced
(* Nothing fits: e is stored.                                               *)
<1>6. CASE i = 0
  <2> DEFINE r == <<e>> \o s
  <2>1. thash' = [thash EXCEPT ![b] = r] /\ Pairs' = Pairs /\ bit' = <<>> /\ gpc' = "loop"
    BY <1>6 DEF blkiomon_do_trace, blkiomon_store_trace, Pairs
  <2>2. Chain(r, b) /\ MadeOf(r, s, e)
    BY <1>1, <1>2, <1>3, <1>6, StoreChain DEF MadeOf
  <2> HIDE DEF r, b, s, e
  <2>3. IsTable(thash', Came') /\ \A x : In(thash', x) => x = e \/ In(thash, x)
    BY <1>5, <2>1, <2>2 DEF Within
  <2> QED BY <1>1, <1>4, <2>1, <2>3 DEF PairInv
<1>7. CASE i # 0
  <2> DEFINE r == RemoveAt(s, i)
  <2>1. i \in DOMAIN s /\ Same(s[i], e)
    BY <1>3, <1>7
  <2>2. /\ Chain(r, b)
        /\ \A j \in DOMAIN r : (\E k \in DOMAIN s : r[j] = s[k]) /\ ~Same(r[j], s[i])
    <3> HIDE DEF s, i, b
    <3> QED BY <1>2, <2>1, RemoveChain
  <2>3. /\ s[i] \in Came /\ s[i] \in Event /\ In(thash, s[i]) /\ Bucket(s[i]) = b /\ s[i] # e
    BY <1>1, <1>2, <2>1 DEF Chain
  (* The older of the two is an issue, the other completes it.              *)
  <2>4. CASE pair[1].act = "D" /\ pair[2].act = "C"
    <3>1. thash' = [thash EXCEPT ![b] = r] /\ bit' = pair /\ gpc' = "get"
      BY <1>7, <2>4 DEF blkiomon_do_trace, Removed
    <3>2. Pairs' = Pairs \cup {pair} /\ bit' # <<>>
      BY <3>1 DEF Pairs, OlderFirst
    <3>3. /\ \/ pair[1] = s[i] /\ pair[2] = e
             \/ pair[1] = e /\ pair[2] = s[i]
          /\ pair[1].time <= pair[2].time
      BY <1>1, <2>3 DEF OlderFirst, Event
    <3>4. Good(pair, Came')
      BY <1>1, <2>1, <2>3, <2>4, <3>3, Fits DEF Good
    <3>5. /\ IsTable(thash', Came')
          /\ \A x : In(thash', x) => /\ x = e \/ In(thash, x)
                                     /\ Bucket(x) = b => \E j \in DOMAIN r : r[j] = x
      <4>1. MadeOf(r, s, e)
        BY <2>2 DEF MadeOf
      <4> HIDE DEF r, b, s, e
      <4> QED BY <1>5, <2>2, <3>1, <4>1 DEF Within
    <3>6. ~In(thash', e) /\ ~In(thash', s[i])
      <4>1. \A j \in DOMAIN r : r[j] # e /\ r[j] # s[i]
        BY <1>1, <1>2, <2>2, Fits
      <4> HIDE DEF r, s
      <4> QED BY <2>3, <3>5, <4>1
    <3>7. \A m \in Pairs : /\ ~In(thash', m[1]) /\ ~In(thash', m[2])
                           /\ m[1] # pair[1] /\ m[2] # pair[2]
      BY <1>4, <2>3, <3>3, <3>5 DEF PairInv
    <3> HIDE DEF pair, r, b, s, e
    <3>8. \A m \in Pairs' : Good(m, Came') /\ ~In(thash', m[1]) /\ ~In(thash', m[2])
      BY <1>4, <3>2, <3>3, <3>4, <3>6, <3>7
    <3>9. \A m, n \in Pairs' : m[1] = n[1] \/ m[2] = n[2] => m = n
      BY <3>2, <3>7 DEF PairInv
    <3> QED BY <1>1, <3>1, <3>2, <3>5, <3>8, <3>9 DEF PairInv
  (* Otherwise the younger is stored.                                       *)
  <2>5. CASE ~(pair[1].act = "D" /\ pair[2].act = "C")
    <3> DEFINE x == pair[2]
               q == <<x>> \o r
    <3>1. /\ thash' = blkiomon_store_trace(Removed(e, i), x)
          /\ Pairs' = Pairs /\ bit' = <<>> /\ gpc' = "loop"
      BY <1>7, <2>5 DEF blkiomon_do_trace, Pairs
    <3>2. x \in Event /\ Bucket(x) = b /\ (x = e \/ x = s[i])
      BY <1>1, <2>3 DEF OlderFirst
    <3>3. thash' = [thash EXCEPT ![b] = q]
      BY <3>1, <3>2, <1>2 DEF blkiomon_store_trace, Removed
    <3>4. \A j \in DOMAIN r : ~Same(r[j], x)
      BY <2>1, <2>2, <3>2, Fits
    <3> HIDE DEF r, x
    <3>5. Chain(q, b) /\ \A j \in DOMAIN q : q[j] = x \/ \E k \in DOMAIN r : q[j] = r[k]
      BY <2>2, <3>2, <3>4, StoreChain
    <3>6. MadeOf(q, s, e)
      BY <2>1, <2>2, <3>2, <3>5 DEF MadeOf
    <3> HIDE DEF q, b, s, e
    <3>7. IsTable(thash', Came') /\ \A y : In(thash', y) => y = e \/ In(thash, y)
      BY <1>5, <3>3, <3>5, <3>6 DEF Within
    <3> QED BY <1>1, <1>4, <3>1, <3>7 DEF PairInv
  <2> QED BY <2>4, <2>5
<1> QED BY <1>6, <1>7

LEMMA PairStep == PairInv /\ [Next]_vars => PairInv'
<1> SUFFICES ASSUME PairInv, [Next]_vars PROVE PairInv'
  OBVIOUS
<1> USE DEF input, gatherer, lists, thread
<1>1. CASE \E c \in Cpus : Read(c)
  <2>1. PICK c \in Cpus : Read(c)
    BY <1>1
  <2>2. c \in CpusLeft /\ next' = [next EXCEPT ![c] = @ + 1] /\ bit = <<>> /\ UNCHANGED matched
    BY <2>1 DEF Read, PairInv
  <2>3. CASE blkiomon_do_trace(Comes(c))
    BY <2>2, <2>3, DoTraceKeeps
  <2>4. CASE UNCHANGED <<bit, thash>> /\ gpc' \in {"loop", "done"}
    <3>1. Pairs' = Pairs
      BY <2>2, <2>4 DEF Pairs
    <3>2. next' \in [Cpus -> Nat] /\ \A d \in Cpus : next'[d] <= Len(Stream[d])
      BY <2>2, ComesNew
    <3>3. \A d \in Cpus : next[d] <= next'[d]
      BY <2>2 DEF PairInv
    <3> QED BY <2>2, <2>4, <3>1, <3>2, <3>3, QuietStep
  <2> QED BY <2>1, <2>3, <2>4 DEF Read
<1>2. CASE \E c \in Cpus : Lose(c)
  <2>1. PICK c \in Cpus : Lose(c)
    BY <1>2
  <2>2. c \in CpusLeft /\ next' = [next EXCEPT ![c] = @ + 1]
        /\ UNCHANGED <<gpc, bit, thash, matched>>
    BY <2>1 DEF Lose
  <2>3. next' \in [Cpus -> Nat] /\ \A d \in Cpus : next'[d] <= Len(Stream[d])
    BY <2>2, ComesNew
  <2>4. \A d \in Cpus : next[d] <= next'[d]
    BY <2>2 DEF PairInv
  <2>5. Pairs' = Pairs
    BY <2>2 DEF Pairs
  <2> QED BY <2>2, <2>3, <2>4, <2>5, QuietStep DEF PairInv
<1>3. CASE UNCHANGED <<next, thash>> /\ Pairs' = Pairs /\ (bit' = <<>> <=> gpc' \in {"loop", "read", "done"})
  <2>1. next' \in [Cpus -> Nat]
        /\ \A c \in Cpus : next[c] <= next'[c] /\ next'[c] <= Len(Stream[c])
    BY <1>3, Assumed DEF PairInv
  <2> QED BY <1>3, <2>1, QuietStep
<1>4. CASE AccountHist
  <2>1. /\ UNCHANGED <<next, thash>> /\ matched' = matched \cup {bit}
        /\ bit # <<>> /\ bit' = <<>> /\ gpc' = "loop"
    BY <1>4 DEF AccountHist, PairInv
  <2>2. Pairs' = Pairs
    BY <2>1 DEF Pairs
  <2> QED BY <2>1, <2>2, <1>3
<1>5. CASE Signal \/ Loop \/ EndFifo \/ GetDstat \/ AccountMinmax
  <2>1. UNCHANGED <<next, thash, bit, matched>>
    BY <1>5 DEF Signal, Loop, EndFifo, GetDstat, AccountMinmax
  <2>2. gpc' \in {"loop", "read", "done"} <=> gpc \in {"loop", "read", "done"}
    BY <1>5 DEF Signal, Loop, EndFifo, GetDstat, AccountMinmax
  <2> QED BY <2>1, <2>2, <1>3 DEF Pairs, PairInv
<1>6. CASE Grab \/ Take \/ PrintRow \/ Convert \/ Recycle \/ Ended \/ UNCHANGED vars
  <2>1. UNCHANGED <<next, thash, bit, matched, gpc>>
    BY <1>6 DEF Grab, Take, PrintRow, Convert, Recycle, Ended, vars
  <2> QED BY <2>1, <1>3 DEF Pairs, PairInv
<1> QED BY <1>1, <1>2, <1>4, <1>5, <1>6 DEF Next

-----------------------------------------------------------------------------
(* The lists of K share the numbers S: each is in one place.                 *)
Once(L, K) ==
  \A k, l \in K : \A i \in DOMAIN L[k], j \in DOMAIN L[l] :
    L[k][i] = L[l][j] => k = l /\ i = j
Shelved(L, K, S) ==
  /\ L \in [K -> Seq(Nat)] /\ Once(L, K)
  /\ \A k \in K : \A i \in DOMAIN L[k] : L[k][i] \in S
  /\ \A x \in S : \E k \in K : \E i \in DOMAIN L[k] : L[k][i] = x

LEMMA PutFirst ==
  ASSUME NEW K, NEW L, NEW S, Shelved(L, K, S), NEW k \in K, NEW x \in Nat, x \notin S,
         NEW M, M = [L EXCEPT ![k] = <<x>> \o @]
  PROVE  Shelved(M, K, S \cup {x})
<1>1. L \in [K -> Seq(Nat)] /\ L[k] \in Seq(Nat)
  BY DEF Shelved
<1>2. /\ M \in [K -> Seq(Nat)] /\ M[k] = <<x>> \o L[k]
      /\ \A l \in K : l # k => M[l] = L[l]
  BY <1>1
<1>3. /\ Len(L[k]) \in Nat /\ DOMAIN L[k] = 1..Len(L[k]) /\ DOMAIN M[k] = 1..(Len(L[k]) + 1)
      /\ M[k][1] = x /\ \A i \in 2..(Len(L[k]) + 1) : M[k][i] = L[k][i - 1]
  BY <1>1, <1>2
<1>4. /\ \A i \in DOMAIN M[k] : /\ i \in Int
                                /\ \/ i = 1 /\ M[k][i] = x
                                   \/ i - 1 \in DOMAIN L[k] /\ M[k][i] = L[k][i - 1]
      /\ \A l \in K : l # k => \A i \in DOMAIN M[l] : i \in DOMAIN L[l] /\ M[l][i] = L[l][i]
  BY <1>2, <1>3
<1>5. \A l \in K : \A i \in DOMAIN L[l] : L[l][i] # x /\ L[l][i] \in S
  BY DEF Shelved
<1>6. Once(L, K)
  BY DEF Shelved
<1>7. ASSUME NEW l \in K, NEW m \in K, NEW i \in DOMAIN M[l], NEW j \in DOMAIN M[m],
             M[l][i] = M[m][j]
      PROVE  l = m /\ i = j
  <2>1. CASE l = k /\ m = k
    <3>1. CASE i = 1
      <4>1. M[k][j] = x
        BY <1>3, <1>7, <2>1, <3>1
      <4> QED BY <1>4, <1>5, <2>1, <3>1, <4>1
    <3>2. CASE i - 1 \in DOMAIN L[k] /\ M[k][i] = L[k][i - 1]
      <4>1. j - 1 \in DOMAIN L[k] /\ M[k][j] = L[k][j - 1]
        BY <1>4, <1>5, <1>7, <2>1, <3>2
      <4>2. i - 1 = j - 1
        BY <1>6, <1>7, <2>1, <3>2, <4>1 DEF Once
      <4> QED BY <1>4, <2>1, <4>2
    <3> QED BY <1>4, <2>1, <3>1, <3>2
  <2>2. CASE l = k /\ m # k
    BY <1>4, <1>5, <1>6, <1>7, <2>2 DEF Once
  <2>3. CASE l # k /\ m = k
    BY <1>4, <1>5, <1>6, <1>7, <2>3 DEF Once
  <2>4. CASE l # k /\ m # k
    BY <1>4, <1>6, <1>7, <2>4 DEF Once
  <2> QED BY <2>1, <2>2, <2>3, <2>4
<1>8. ASSUME NEW l \in K, NEW i \in DOMAIN M[l]
      PROVE  M[l][i] \in S \cup {x}
  BY <1>4, <1>5
<1>9. ASSUME NEW y \in S PROVE \E l \in K : \E i \in DOMAIN M[l] : M[l][i] = y
  <2>1. PICK l \in K : \E i \in DOMAIN L[l] : L[l][i] = y
    BY DEF Shelved
  <2>2. PICK i \in DOMAIN L[l] : L[l][i] = y
    BY <2>1
  <2>3. CASE l # k
    BY <1>2, <2>2, <2>3
  <2>4. CASE l = k
    <3>1. i + 1 \in DOMAIN M[k] /\ i \in Int /\ (i + 1) - 1 = i
      BY <1>3, <2>4
    <3>2. M[k][i + 1] = y
      BY <1>3, <2>2, <2>4, <3>1
    <3> QED BY <3>1, <3>2
  <2> QED BY <2>3, <2>4
<1>10. \E i \in DOMAIN M[k] : M[k][i] = x
  BY <1>3
<1>11. Once(M, K)
  BY <1>7 DEF Once
<1>12. \A y \in S \cup {x} : \E l \in K : \E i \in DOMAIN M[l] : M[l][i] = y
  BY <1>9, <1>10
<1>13. \A l \in K : \A i \in DOMAIN M[l] : M[l][i] \in S \cup {x}
  BY <1>8
<1> QED BY <1>2, <1>11, <1>12, <1>13 DEF Shelved

LEMMA TakeFirst ==
  ASSUME NEW K, NEW L, NEW S, Shelved(L, K, S), NEW k \in K, L[k] # <<>>,
         NEW M, M = [L EXCEPT ![k] = Tail(@)]
  PROVE  Shelved(M, K, S \ {Head(L[k])}) /\ Head(L[k]) \in S /\ Head(L[k]) \in Nat
<1>1. L \in [K -> Seq(Nat)] /\ L[k] \in Seq(Nat)
  BY DEF Shelved
<1>2. /\ M \in [K -> Seq(Nat)] /\ M[k] = Tail(L[k])
      /\ \A l \in K : l # k => M[l] = L[l]
  BY <1>1
<1> DEFINE x == Head(L[k])
<1>3. /\ Len(L[k]) \in Nat \ {0} /\ DOMAIN L[k] = 1..Len(L[k]) /\ DOMAIN M[k] = 1..(Len(L[k]) - 1)
      /\ L[k][1] = x /\ \A i \in 1..(Len(L[k]) - 1) : M[k][i] = L[k][i + 1]
  BY <1>1, <1>2
<1>4. x \in S /\ x \in Nat /\ 1 \in DOMAIN L[k]
  BY <1>1, <1>3 DEF Shelved
<1> HIDE DEF x
<1>5. /\ \A i \in DOMAIN M[k] : /\ i + 1 \in DOMAIN L[k] /\ M[k][i] = L[k][i + 1]
                                /\ i + 1 # 1 /\ i \in Int
      /\ \A l \in K : l # k => \A i \in DOMAIN M[l] : i \in DOMAIN L[l] /\ M[l][i] = L[l][i]
  BY <1>2, <1>3
<1>6. Once(L, K) /\ \A l \in K : \A i \in DOMAIN L[l] : L[l][i] \in S
  BY DEF Shelved
<1>7. ASSUME NEW l \in K, NEW m \in K, NEW i \in DOMAIN M[l], NEW j \in DOMAIN M[m],
             M[l][i] = M[m][j]
      PROVE  l = m /\ i = j
  <2>1. CASE l = k /\ m = k
    <3>1. i + 1 = j + 1
      BY <1>5, <1>6, <1>7, <2>1 DEF Once
    <3> QED BY <1>5, <2>1, <3>1
  <2>2. CASE l = k /\ m # k
    BY <1>5, <1>6, <1>7, <2>2 DEF Once
  <2>3. CASE l # k /\ m = k
    BY <1>5, <1>6, <1>7, <2>3 DEF Once
  <2>4. CASE l # k /\ m # k
    BY <1>5, <1>6, <1>7, <2>4 DEF Once
  <2> QED BY <2>1, <2>2, <2>3, <2>4
<1>8. ASSUME NEW l \in K, NEW i \in DOMAIN M[l]
      PROVE  M[l][i] \in S \ {x}
  <2>1. CASE l = k
    BY <1>3, <1>4, <1>5, <1>6, <2>1 DEF Once
  <2>2. CASE l # k
    BY <1>3, <1>4, <1>5, <1>6, <2>2 DEF Once
  <2> QED BY <2>1, <2>2
<1>9. ASSUME NEW y \in S \ {x} PROVE \E l \in K : \E i \in DOMAIN M[l] : M[l][i] = y
  <2>1. PICK l \in K : \E i \in DOMAIN L[l] : L[l][i] = y
    BY DEF Shelved
  <2>2. PICK i \in DOMAIN L[l] : L[l][i] = y
    BY <2>1
  <2>3. CASE l # k
    BY <1>2, <2>2, <2>3
  <2>4. CASE l = k
    <3>1. i - 1 \in DOMAIN M[k] /\ i \in Int /\ (i - 1) + 1 = i
      BY <1>3, <2>2, <2>4
    <3>2. M[k][i - 1] = y
      BY <1>5, <2>2, <2>4, <3>1
    <3> QED BY <3>1, <3>2
  <2> QED BY <2>3, <2>4
<1>10. Once(M, K)
  BY <1>7 DEF Once
<1>11. Shelved(M, K, S \ {x})
  BY <1>2, <1>8, <1>9, <1>10 DEF Shelved
<1> QED BY <1>4, <1>11 DEF x

LEMMA PutInFront ==
  ASSUME NEW K, NEW L, NEW S, Shelved(L, K, S), NEW k \in K, NEW l \in K, k # l,
         NEW M, M = [L EXCEPT ![k] = <<>>, ![l] = L[k] \o L[l]]
  PROVE  Shelved(M, K, S)
<1>1. L \in [K -> Seq(Nat)] /\ L[k] \in Seq(Nat) /\ L[l] \in Seq(Nat)
  BY DEF Shelved
<1> DEFINE n == Len(L[k])
           c == L[k] \o L[l]
<1>2. /\ c \in Seq(Nat) /\ n \in Nat /\ Len(L[l]) \in Nat
      /\ DOMAIN L[k] = 1..n /\ DOMAIN L[l] = 1..Len(L[l]) /\ DOMAIN c = 1..(n + Len(L[l]))
      /\ \A i \in 1..n : c[i] = L[k][i]
      /\ \A i \in 1..Len(L[l]) : c[n + i] = L[l][i]
  BY <1>1
<1> HIDE DEF n, c
<1>3. M = [L EXCEPT ![k] = <<>>, ![l] = c]
  BY DEF c
<1>4. /\ M \in [K -> Seq(Nat)] /\ M[k] = <<>> /\ M[l] = c
      /\ \A m \in K : m # k /\ m # l => M[m] = L[m]
  <2>1. M = [m \in K |-> IF m = k THEN <<>> ELSE IF m = l THEN c ELSE L[m]]
    BY <1>1, <1>3
  <2>2. <<>> \in Seq(Nat)
    OBVIOUS
  <2> QED BY <1>1, <1>2, <2>1, <2>2
<1>5. ASSUME NEW i \in DOMAIN M[l]
      PROVE  /\ i \in Int
             /\ \/ i \in DOMAIN L[k] /\ M[l][i] = L[k][i]
                \/ i - n \in DOMAIN L[l] /\ M[l][i] = L[l][i - n]
  <2>1. CASE i <= n
    BY <1>2, <1>4, <2>1
  <2>2. CASE ~(i <= n)
    <3>1. i - n \in 1..Len(L[l]) /\ n + (i - n) = i
      <4>1. i \in 1..(n + Len(L[l]))
        BY <1>2, <1>4
      <4> QED BY <1>2, <2>2, <4>1
    <3>2. c[i] = L[l][i - n] /\ i \in Int
      BY <1>2, <1>4, <3>1
    <3> QED BY <1>2, <1>4, <3>1, <3>2
  <2> QED BY <2>1, <2>2
<1>6. \A m \in K : \A i \in DOMAIN M[m] : m # k
  BY <1>4
<1>7. Once(L, K) /\ \A m \in K : \A i \in DOMAIN L[m] : L[m][i] \in S
  BY DEF Shelved
<1>8. ASSUME NEW a \in K, NEW b \in K, NEW i \in DOMAIN M[a], NEW j \in DOMAIN M[b],
             M[a][i] = M[b][j]
      PROVE  a = b /\ i = j
  <2>1. CASE a = l /\ b = l
    <3>1. i \in DOMAIN M[l] /\ j \in DOMAIN M[l] /\ M[l][i] = M[l][j]
      BY <1>8, <2>1
    <3>2. CASE i \in DOMAIN L[k] /\ M[l][i] = L[k][i] /\ j \in DOMAIN L[k] /\ M[l][j] = L[k][j]
      BY <1>7, <2>1, <3>1, <3>2 DEF Once
    <3>3. CASE i \in DOMAIN L[k] /\ M[l][i] = L[k][i] /\ j - n \in DOMAIN L[l] /\ M[l][j] = L[l][j - n]
      BY <1>7, <3>1, <3>3 DEF Once
    <3>4. CASE i - n \in DOMAIN L[l] /\ M[l][i] = L[l][i - n] /\ j \in DOMAIN L[k] /\ M[l][j] = L[k][j]
      BY <1>7, <3>1, <3>4 DEF Once
    <3>5. CASE i - n \in DOMAIN L[l] /\ M[l][i] = L[l][i - n] /\ j - n \in DOMAIN L[l] /\ M[l][j] = L[l][j - n]
      <4>1. i - n = j - n
        BY <1>7, <3>1, <3>5 DEF Once
      <4>2. i \in Int /\ j \in Int
        BY <1>5, <3>1
      <4> QED BY <1>2, <2>1, <4>1, <4>2
    <3> QED BY <1>5, <3>1, <3>2, <3>3, <3>4, <3>5
  <2>2. CASE a = l /\ b # l
    <3>1. j \in DOMAIN L[b] /\ L[b][j] = M[l][i] /\ b # k /\ i \in DOMAIN M[l]
      BY <1>4, <1>6, <1>8, <2>2
    <3>2. CASE i \in DOMAIN L[k] /\ M[l][i] = L[k][i]
      BY <1>7, <3>1, <3>2 DEF Once
    <3>3. CASE i - n \in DOMAIN L[l] /\ M[l][i] = L[l][i - n]
      BY <1>7, <2>2, <3>1, <3>3 DEF Once
    <3> QED BY <1>5, <3>1, <3>2, <3>3
  <2>3. CASE a # l /\ b = l
    <3>1. i \in DOMAIN L[a] /\ L[a][i] = M[l][j] /\ a # k /\ j \in DOMAIN M[l]
      BY <1>4, <1>6, <1>8, <2>3
    <3>2. CASE j \in DOMAIN L[k] /\ M[l][j] = L[k][j]
      BY <1>7, <3>1, <3>2 DEF Once
    <3>3. CASE j - n \in DOMAIN L[l] /\ M[l][j] = L[l][j - n]
      BY <1>7, <2>3, <3>1, <3>3 DEF Once
    <3> QED BY <1>5, <3>1, <3>2, <3>3
  <2>4. CASE a # l /\ b # l
    <3>1. M[a] = L[a] /\ M[b] = L[b]
      BY <1>4, <1>6, <2>4
    <3>2. i \in DOMAIN L[a] /\ j \in DOMAIN L[b] /\ L[a][i] = L[b][j]
      BY <1>8, <3>1
    <3> QED BY <1>7, <3>2 DEF Once
  <2> QED BY <2>1, <2>2, <2>3, <2>4
<1>9. ASSUME NEW m \in K, NEW i \in DOMAIN M[m] PROVE M[m][i] \in S
  <2>1. CASE m = l
    BY <1>5, <1>7, <2>1
  <2>2. CASE m # l
    BY <1>4, <1>6, <1>7, <2>2
  <2> QED BY <2>1, <2>2
<1>10. ASSUME NEW y \in S PROVE \E m \in K : \E i \in DOMAIN M[m] : M[m][i] = y
  <2>1. PICK m \in K : \E i \in DOMAIN L[m] : L[m][i] = y
    BY DEF Shelved
  <2>2. PICK i \in DOMAIN L[m] : L[m][i] = y
    BY <2>1
  <2>3. CASE m = k
    <3>1. i \in DOMAIN M[l] /\ M[l][i] = y
      BY <1>2, <1>4, <2>2, <2>3
    <3> QED BY <3>1
  <2>4. CASE m = l
    <3>1. i \in 1..Len(L[l]) /\ L[l][i] = y
      BY <1>2, <2>2, <2>4
    <3>2. n + i \in 1..(n + Len(L[l]))
      BY <1>2, <3>1
    <3>3. c[n + i] = y
      BY <1>2, <3>1
    <3> QED BY <1>2, <1>4, <3>2, <3>3
  <2>5. CASE m # k /\ m # l
    BY <1>4, <2>2, <2>5
  <2> QED BY <2>3, <2>4, <2>5
<1>11. Once(M, K)
  BY <1>8 DEF Once
<1> QED BY <1>4, <1>9, <1>10, <1>11 DEF Shelved

LEMMA ConcatInjective ==
  ASSUME NEW a \in Seq(Nat), NEW b \in Seq(Nat), IsInjective(a), IsInjective(b),
         \A i \in DOMAIN a, j \in DOMAIN b : a[i] # b[j]
  PROVE  IsInjective(a \o b) /\ ToSet(a \o b) = ToSet(a) \cup ToSet(b)
<1> DEFINE c == a \o b
<1>1. /\ Len(a) \in Nat /\ Len(b) \in Nat /\ DOMAIN c = 1..(Len(a) + Len(b))
      /\ DOMAIN a = 1..Len(a) /\ DOMAIN b = 1..Len(b)
      /\ \A i \in 1..Len(a) : c[i] = a[i]
      /\ \A i \in 1..Len(b) : c[Len(a) + i] = b[i]
  OBVIOUS
<1> HIDE DEF c
<1>2. ASSUME NEW i \in DOMAIN c
      PROVE  \/ i \in DOMAIN a /\ c[i] = a[i] /\ i <= Len(a)
             \/ i - Len(a) \in DOMAIN b /\ c[i] = b[i - Len(a)] /\ i > Len(a)
  <2>1. CASE i <= Len(a)
    BY <1>1, <2>1
  <2>2. CASE ~(i <= Len(a))
    <3>1. i - Len(a) \in 1..Len(b) /\ Len(a) + (i - Len(a)) = i
      BY <1>1, <2>2
    <3> QED BY <1>1, <2>2, <3>1
  <2> QED BY <2>1, <2>2
<1>3. ASSUME NEW i \in DOMAIN c, NEW j \in DOMAIN c, c[i] = c[j] PROVE i = j
  <2>1. CASE i \in DOMAIN a /\ c[i] = a[i]
    <3>1. j \in DOMAIN a /\ c[j] = a[j]
      BY <2>1, <1>2, <1>3
    <3> QED BY <2>1, <3>1, <1>3 DEF IsInjective
  <2>2. CASE i - Len(a) \in DOMAIN b /\ c[i] = b[i - Len(a)]
    <3>1. j - Len(a) \in DOMAIN b /\ c[j] = b[j - Len(a)]
      BY <2>2, <1>2, <1>3
    <3>2. i - Len(a) = j - Len(a)
      BY <2>2, <3>1, <1>3 DEF IsInjective
    <3> QED BY <3>2, <1>1
  <2> QED BY <2>1, <2>2, <1>2
<1>4. \A i \in DOMAIN a : i \in DOMAIN c /\ c[i] = a[i]
  BY <1>1
<1>5. \A i \in DOMAIN b : Len(a) + i \in DOMAIN c /\ c[Len(a) + i] = b[i]
  BY <1>1
<1>6. ToSet(c) = ToSet(a) \cup ToSet(b)
  BY <1>2, <1>4, <1>5 DEF ToSet
<1> QED BY <1>3, <1>6 DEF IsInjective, c
-----------------------------------------------------------------------------
(* What a dstat holds; accounting to it leaves its device alone.            *)
MinMax == [num : Nat, min : Nat, max : Nat, sum : Nat]
Dstat == [device : Devices, d2c : [Dirs -> MinMax], bidir : Nat,
          hist : [0..(Buckets - 1) -> Nat], be : BOOLEAN, torn : BOOLEAN]

LEMMA JoinInjective ==
  ASSUME NEW a \in Seq(Nat), NEW b \in Seq(Nat), IsInjective(a), IsInjective(b),
         ToSet(a) \cap ToSet(b) = {}
  PROVE  /\ a \o b \in Seq(Nat) /\ IsInjective(a \o b)
         /\ ToSet(a \o b) = ToSet(a) \cup ToSet(b)
<1>1. \A i \in DOMAIN a, j \in DOMAIN b : a[i] # b[j]
  BY DEF ToSet
<1>2. a \o b \in Seq(Nat)
  OBVIOUS
<1> QED BY <1>1, <1>2, ConcatInjective


LEMMA DstatInit == \A device \in Devices : /\ blkiomon_stat_init(device) \in Dstat
                                           /\ blkiomon_stat_init(device).device = device
BY DEF blkiomon_stat_init, minmax_init, MinMax, Dstat

LEMMA DstatAccounted ==
  ASSUME NEW s \in Dstat, NEW dir, NEW v \in Nat
  PROVE  Accounted(s, dir, v) \in Dstat /\ Accounted(s, dir, v).device = s.device
<1>1. \A d \in Dirs : minmax_account(s.d2c[d], v) \in MinMax
  BY DEF Dstat, MinMax, minmax_account
<1>2. CASE dir # {}
  <2>1. Counts(dir) \in Dirs
    BY DEF Counts, Dirs
  <2> QED BY <1>1, <1>2, <2>1 DEF Accounted, Dstat
<1>3. CASE dir = {}
  <2> DEFINE torn == s.torn \/ s.be
             n == s.bidir + 1
  <2>1. torn \in BOOLEAN /\ n \in Nat
    BY DEF Dstat
  <2>2. Accounted(s, dir, v) = [s EXCEPT !.bidir = n, !.torn = torn]
    BY <1>3 DEF Accounted, Dstat
  <2> HIDE DEF torn, n
  <2> QED BY <2>1, <2>2 DEF Dstat
<1> QED BY <1>2, <1>3

LEMMA DstatHist ==
  ASSUME NEW s \in Dstat, NEW v \in Nat
  PROVE  histlog2_account(s, v) \in Dstat /\ histlog2_account(s, v).device = s.device
<1> DEFINE k == histlog2_index(v)
           h == [s.hist EXCEPT ![k] = @ + 1]
<1>1. h \in [0..(Buckets - 1) -> Nat]
  <2>1. s.hist \in [0..(Buckets - 1) -> Nat]
    BY DEF Dstat
  <2> DEFINE D == 0..(Buckets - 1)
             g == s.hist
  <2>2. g \in [D -> Nat]
    BY <2>1
  <2> HIDE DEF k, D, g
  <2>3. [g EXCEPT ![k] = @ + 1] = [i \in D |-> IF i = k THEN g[i] + 1 ELSE g[i]]
    BY <2>2
  <2>4. \A i \in D : g[i] \in Nat /\ g[i] + 1 \in Nat
    BY <2>2
  <2>5. [g EXCEPT ![k] = @ + 1] \in [D -> Nat]
    BY <2>3, <2>4
  <2> QED BY <2>5 DEF D, g
<1>2. histlog2_account(s, v) = [s EXCEPT !.hist = h, !.torn = @ \/ s.be]
  BY DEF histlog2_account, Dstat
<1> HIDE DEF h
<1> QED BY <1>1, <1>2 DEF Dstat
-----------------------------------------------------------------------------
(* The lists of the dstats.                                                 *)
Names == {"first", "second", "head", "vacant"}
Of(i) == IF i = 0 THEN "first" ELSE "second"
Lists == [k \in Names |->
  IF k = "first" THEN dstat_list[0] ELSE IF k = "second" THEN dstat_list[1]
  ELSE IF k = "head" THEN head ELSE vacant_dstats_list]
Elements(s) == {s[i] : i \in DOMAIN s}
OneEach(set, ds) == \A x, y \in set : ds[x].device = ds[y].device => x = y

ListInv ==
  /\ dstats \in Seq(Dstat)
  /\ dstat_list = [i \in 0..1 |-> dstat_list[i]]
  /\ Shelved(Lists, Names, DOMAIN dstats)
  /\ dstat_curr \in 0..1 /\ finished \in 0..1
  /\ dstat_tree = [i \in 0..1 |-> ToSet(dstat_list[i])]
  /\ \A i \in 0..1 : OneEach(ToSet(dstat_list[i]), dstats)
  /\ OneEach(ToSet(head), dstats)
  /\ gpc \in {"minmax", "hist"} => p \in DOMAIN dstats
  /\ ipc \in {"sleep", "take"} => head = <<>>
  /\ ipc \in {"print", "convert"} => row \in DOMAIN head
  /\ ipc \in {"sleep", "take", "print", "convert", "recycle"}

LEMMA ListStart == Init => ListInv
BY DEF Init, ListInv, Lists, Shelved, Once, Names, OneEach, ToSet, Dstat

(* The devices of the rows are what they were: accounting and conversion.    *)
LEMMA SameDevices ==
  ASSUME ListInv, UNCHANGED <<lists, head>>,
         dstats' \in Seq(Dstat), DOMAIN dstats' = DOMAIN dstats,
         \A i \in DOMAIN dstats : dstats'[i].device = dstats[i].device,
         finished' = finished,
         gpc' \in {"minmax", "hist"} => p' \in DOMAIN dstats,
         ipc' \in {"sleep", "take"} => head = <<>>,
         ipc' \in {"print", "convert"} => row' \in DOMAIN head,
         ipc' \in {"sleep", "take", "print", "convert", "recycle"}
  PROVE  ListInv'
<1>1. UNCHANGED <<dstat_list, dstat_tree, dstat_curr, vacant_dstats_list, head>>
  BY DEF lists
<1>2. Lists' = Lists
  BY <1>1 DEF Lists
<1>3. /\ \A i \in 0..1 : \A x \in ToSet(dstat_list[i]) : x \in DOMAIN dstats
      /\ \A x \in ToSet(head) : x \in DOMAIN dstats
  BY DEF ListInv, Shelved, Lists, Names, ToSet
<1>4. \A i \in 0..1 : OneEach(ToSet(dstat_list[i]), dstats')
  BY <1>3 DEF ListInv, OneEach
<1>5. OneEach(ToSet(head), dstats')
  BY <1>3 DEF ListInv, OneEach
<1> QED BY <1>1, <1>2, <1>4, <1>5 DEF ListInv

(* A dstat of a device the current list has none of is put into it.          *)
LEMMA ListedKeeps ==
  ASSUME ListInv, NEW x \in Nat, Listed(x), NEW L, NEW S, Shelved(L, Names, S), x \notin S,
         L = [Lists EXCEPT !["vacant"] = vacant_dstats_list'],
         dstats' \in Seq(Dstat), DOMAIN dstats' = S \cup {x},
         \A i \in S : dstats'[i] = dstats[i],
         \A i \in dstat_tree[dstat_curr] : dstats[i].device # dstats'[x].device,
         gpc' = "minmax", UNCHANGED <<dstat_curr, thread>>
  PROVE  ListInv'
<1> DEFINE k == Of(dstat_curr)
<1>1. /\ dstat_curr \in 0..1 /\ dstat_list = [i \in 0..1 |-> dstat_list[i]]
      /\ dstat_tree = [i \in 0..1 |-> ToSet(dstat_list[i])]
      /\ UNCHANGED <<head, finished, ipc, row>>
  BY DEF ListInv, thread
<1>2. /\ dstat_list' = [dstat_list EXCEPT ![dstat_curr] = <<x>> \o @]
      /\ dstat_tree' = [dstat_tree EXCEPT ![dstat_curr] = @ \cup {x}]
      /\ p' = x
  BY DEF Listed
<1>3. /\ dstat_list'[dstat_curr] = <<x>> \o dstat_list[dstat_curr]
      /\ dstat_list'[1 - dstat_curr] = dstat_list[1 - dstat_curr]
      /\ dstat_list' = [i \in 0..1 |-> dstat_list'[i]]
  <2> DEFINE r == <<x>> \o dstat_list[dstat_curr]
  <2>1. dstat_list' = [i \in 0..1 |-> IF i = dstat_curr THEN r ELSE dstat_list[i]]
    BY <1>1, <1>2
  <2> HIDE DEF r
  <2>2. dstat_curr \in 0..1 /\ 1 - dstat_curr \in 0..1 /\ 1 - dstat_curr # dstat_curr
    BY <1>1
  <2>3. /\ dstat_list'[dstat_curr] = r
        /\ dstat_list'[1 - dstat_curr] = dstat_list[1 - dstat_curr]
        /\ DOMAIN dstat_list' = 0..1
    BY <2>1, <2>2
  <2>4. dstat_list' = [i \in 0..1 |-> dstat_list'[i]]
    BY <2>1
  <2> QED BY <2>3, <2>4 DEF r
<1>4. Lists' = [L EXCEPT ![k] = <<x>> \o @]
  <2>0. /\ L = [n \in Names |->
               IF n = "first" THEN dstat_list[0] ELSE IF n = "second" THEN dstat_list[1]
               ELSE IF n = "head" THEN head ELSE vacant_dstats_list']
        /\ Lists' = [n \in Names |->
               IF n = "first" THEN dstat_list'[0] ELSE IF n = "second" THEN dstat_list'[1]
               ELSE IF n = "head" THEN head ELSE vacant_dstats_list']
        /\ "first" \in Names /\ "second" \in Names
    BY <1>1 DEF Lists, Names
  <2>1. CASE dstat_curr = 0
    <3>1. dstat_list'[0] = <<x>> \o dstat_list[0] /\ dstat_list'[1] = dstat_list[1] /\ k = "first"
      BY <1>3, <2>1 DEF Of
    <3> HIDE DEF k
    <3> QED BY <2>0, <3>1
  <2>2. CASE dstat_curr = 1
    <3>1. dstat_list'[1] = <<x>> \o dstat_list[1] /\ dstat_list'[0] = dstat_list[0] /\ k = "second"
      BY <1>3, <2>2 DEF Of
    <3> HIDE DEF k
    <3> QED BY <2>0, <3>1
  <2> QED BY <1>1, <2>1, <2>2
<1>5. Shelved(Lists', Names, S \cup {x})
  <2>1. k \in Names
    BY DEF Of, Names
  <2> HIDE DEF k
  <2> QED BY <1>4, <2>1, PutFirst
<1>6. /\ \A i \in 0..1 : dstat_list[i] \in Seq(Nat) /\ ToSet(dstat_list[i]) \subseteq S
      /\ ToSet(head) \subseteq S
  <2>1. /\ dstat_list[0] = L["first"] /\ dstat_list[1] = L["second"] /\ head = L["head"]
        /\ {"first", "second", "head"} \subseteq Names
    BY DEF Lists, Names
  <2>2. \A n \in Names : L[n] \in Seq(Nat) /\ ToSet(L[n]) \subseteq S
    BY DEF Shelved, ToSet
  <2> QED BY <2>1, <2>2
<1>7. ToSet(<<x>> \o dstat_list[dstat_curr]) = ToSet(dstat_list[dstat_curr]) \cup {x}
  <2> DEFINE s == dstat_list[dstat_curr]
             r == <<x>> \o s
  <2>1. s \in Seq(Nat)
    BY <1>1, <1>6
  <2>2. /\ DOMAIN s = 1..Len(s) /\ Len(s) \in Nat /\ DOMAIN r = 1..(Len(s) + 1)
        /\ r[1] = x /\ \A i \in 2..(Len(s) + 1) : r[i] = s[i - 1]
    BY <2>1
  <2> HIDE DEF r, s
  <2>3. \A i \in DOMAIN r : r[i] = x \/ (i - 1 \in DOMAIN s /\ r[i] = s[i - 1])
    BY <2>2
  <2>4. \A i \in DOMAIN s : i + 1 \in DOMAIN r /\ r[i + 1] = s[i]
    BY <2>2
  <2>5. 1 \in DOMAIN r
    BY <2>2
  <2>6. ToSet(r) = ToSet(s) \cup {x}
    BY <2>2, <2>3, <2>4, <2>5 DEF ToSet
  <2> QED BY <2>6 DEF r, s
<1>8. dstat_tree' = [i \in 0..1 |-> ToSet(dstat_list'[i])]
  BY <1>1, <1>2, <1>3, <1>7
<1>9. ASSUME NEW i \in 0..1 PROVE OneEach(ToSet(dstat_list'[i]), dstats')
  <2>1. OneEach(ToSet(dstat_list[i]), dstats')
    BY <1>6 DEF ListInv, OneEach
  <2>2. CASE i = dstat_curr
    <3>1. dstat_tree[dstat_curr] = ToSet(dstat_list[i])
      BY <1>1, <2>2
    <3>2. \A y \in ToSet(dstat_list[i]) : dstats'[y].device # dstats'[x].device
      BY <1>6, <3>1
    <3>3. ToSet(dstat_list'[i]) = ToSet(dstat_list[i]) \cup {x}
      BY <1>3, <1>7, <2>2
    <3> QED BY <2>1, <3>2, <3>3 DEF OneEach
  <2>3. CASE i # dstat_curr
    BY <1>1, <1>3, <2>1, <2>3
  <2> QED BY <2>2, <2>3
<1>10. OneEach(ToSet(head), dstats')
  BY <1>6 DEF ListInv, OneEach
<1> QED BY <1>1, <1>2, <1>3, <1>5, <1>8, <1>9, <1>10 DEF ListInv

LEMMA GetKeeps ==
  ASSUME PairInv, ListInv, GetDstat
  PROVE  ListInv'
<1> DEFINE new == blkiomon_stat_init(bit[1].dev)
<1>1. bit[1].dev \in Devices
  <2>1. bit \in Pairs
    BY DEF GetDstat, PairInv, Pairs
  <2>2. bit[1] \in Came
    BY <2>1 DEF PairInv, Good
  <2>3. Came \subseteq Event
    <3> SUFFICES ASSUME NEW c \in Cpus, NEW i \in 1..next[c] PROVE Stream[c][i] \in Event
      BY DEF Came
    <3> QED BY Assumed DEF PairInv
  <2> QED BY <2>2, <2>3 DEF Event
<1>2. new \in Dstat /\ new.device = bit[1].dev
  BY <1>1, DstatInit
<1>3. UNCHANGED thread
  BY DEF GetDstat
<1>4. CASE UNCHANGED <<dstats, lists>> /\ (gpc' = "dead" \/ p' \in InTree(bit[1].dev))
  <2>1. \A i \in InTree(bit[1].dev) : i \in DOMAIN dstats
    <3>1. \A i \in InTree(bit[1].dev) : i \in ToSet(dstat_list[dstat_curr])
      BY DEF InTree, ListInv
    <3>2. \A i \in 0..1 : \A x \in ToSet(dstat_list[i]) : x \in DOMAIN dstats
      BY DEF ListInv, Shelved, Lists, Names, ToSet
    <3> QED BY <3>1, <3>2 DEF ListInv
  <2> QED BY <1>3, <1>4, <2>1, SameDevices DEF thread, ListInv
<1>5. CASE /\ InTree(bit[1].dev) = {} /\ vacant_dstats_list # <<>>
           /\ Listed(Head(vacant_dstats_list))
           /\ vacant_dstats_list' = Tail(vacant_dstats_list)
           /\ dstats' = [dstats EXCEPT ![Head(vacant_dstats_list)] = new]
           /\ UNCHANGED dstat_curr /\ gpc' = "minmax"
  <2> DEFINE x == Head(vacant_dstats_list)
             L == [Lists EXCEPT !["vacant"] = Tail(@)]
  <2>1. Lists["vacant"] = vacant_dstats_list /\ "vacant" \in Names
    BY DEF Lists, Names
  <2>2. /\ Shelved(L, Names, DOMAIN dstats \ {x}) /\ x \in DOMAIN dstats /\ x \in Nat
    BY <1>5, <2>1, TakeFirst DEF ListInv
  <2>3. L = [Lists EXCEPT !["vacant"] = vacant_dstats_list']
    BY <1>5, <2>1
  <2> HIDE DEF x, L, new
  <2>4. /\ dstats' \in Seq(Dstat) /\ DOMAIN dstats' = (DOMAIN dstats \ {x}) \cup {x}
        /\ dstats'[x] = new /\ \A i \in DOMAIN dstats \ {x} : dstats'[i] = dstats[i]
    <3>1. dstats' = [dstats EXCEPT ![x] = new]
      BY <1>5 DEF x
    <3>2. dstats \in Seq(Dstat) /\ DOMAIN dstats = 1..Len(dstats)
      BY DEF ListInv
    <3> QED BY <1>2, <2>2, <3>1, <3>2, ExceptSeq
  <2>5. \A i \in dstat_tree[dstat_curr] : dstats[i].device # dstats'[x].device
    BY <1>2, <1>5, <2>4 DEF InTree
  <2>6. Listed(x)
    BY <1>5 DEF x
  <2> QED BY <1>3, <1>5, <2>2, <2>3, <2>4, <2>5, <2>6, ListedKeeps
<1>6. CASE /\ InTree(bit[1].dev) = {}
           /\ dstats' = Append(dstats, new)
           /\ Listed(Len(dstats) + 1)
           /\ UNCHANGED <<vacant_dstats_list, dstat_curr>> /\ gpc' = "minmax"
  <2> DEFINE x == Len(dstats) + 1
             L == Lists
  <2> HIDE DEF new
  <2>1. dstats \in Seq(Dstat) /\ Shelved(L, Names, DOMAIN dstats)
    BY DEF ListInv
  <2>2. L = [Lists EXCEPT !["vacant"] = vacant_dstats_list']
    BY <1>6 DEF Lists, Names
  <2>3. /\ dstats' \in Seq(Dstat) /\ DOMAIN dstats' = DOMAIN dstats \cup {x} /\ x \in Nat
        /\ x \notin DOMAIN dstats
        /\ dstats'[x] = new /\ \A i \in DOMAIN dstats : dstats'[i] = dstats[i]
    BY <1>2, <1>6, <2>1
  <2> HIDE DEF L
  <2>5. \A i \in dstat_tree[dstat_curr] : dstats[i].device # dstats'[x].device
    BY <1>2, <1>6, <2>3 DEF InTree
  <2> QED BY <1>3, <1>6, <2>1, <2>2, <2>3, <2>5, ListedKeeps
<1> QED BY <1>4, <1>5, <1>6 DEF GetDstat

LEMMA MovesKeep ==
  ASSUME ListInv, Take \/ Recycle
  PROVE  ListInv'
<1>1. /\ dstat_list = [i \in 0..1 |-> dstat_list[i]] /\ finished \in 0..1
      /\ dstat_tree = [i \in 0..1 |-> ToSet(dstat_list[i])]
      /\ Shelved(Lists, Names, DOMAIN dstats)
      /\ UNCHANGED <<dstats, dstat_curr, finished, gatherer>>
  BY DEF ListInv, Take, Recycle, lists, gatherer
<1>2. /\ head \in Seq(Nat) /\ vacant_dstats_list \in Seq(Nat)
      /\ \A i \in 0..1 : dstat_list[i] \in Seq(Nat)
  BY <1>1 DEF Shelved, Lists, Names
<1>3. {"first", "second", "head", "vacant"} = Names
  BY DEF Names
<1>4. CASE Take /\ dstat_list[finished] = <<>>
  <2>1. /\ ipc' = "sleep" /\ UNCHANGED <<head, row, dstat_list, dstat_tree, vacant_dstats_list>>
        /\ head = <<>>
    BY <1>4 DEF Take, Goto, ListInv
  <2>2. Lists' = Lists
    BY <2>1 DEF Lists
  <2> QED BY <1>1, <2>1, <2>2 DEF ListInv, gatherer
<1>5. CASE Take /\ dstat_list[finished] # <<>>
  <2> DEFINE k == Of(finished)
  <2>1. /\ head' = dstat_list[finished] /\ head = <<>> /\ row' = 1 /\ ipc' = "print"
        /\ dstat_list' = [dstat_list EXCEPT ![finished] = <<>>]
        /\ dstat_tree' = [dstat_tree EXCEPT ![finished] = {}]
        /\ UNCHANGED <<vacant_dstats_list>>
    BY <1>5 DEF Take, Goto, ListInv
  <2>2. dstat_list' = [i \in 0..1 |-> IF i = finished THEN <<>> ELSE dstat_list[i]]
    BY <1>1, <2>1
  <2>3. dstat_list[finished] \o <<>> = dstat_list[finished]
    BY <1>1, <1>2
  <2>4. Lists' = [Lists EXCEPT ![k] = <<>>, !["head"] = Lists[k] \o Lists["head"]]
    <3>1. /\ Lists = [n \in Names |->
               IF n = "first" THEN dstat_list[0] ELSE IF n = "second" THEN dstat_list[1]
               ELSE IF n = "head" THEN <<>> ELSE vacant_dstats_list]
          /\ Lists' = [n \in Names |->
               IF n = "first" THEN dstat_list'[0] ELSE IF n = "second" THEN dstat_list'[1]
               ELSE IF n = "head" THEN dstat_list[finished] ELSE vacant_dstats_list]
      BY <2>1 DEF Lists
    <3>2. CASE finished = 0
      <4>1. k = "first" /\ dstat_list'[0] = <<>> /\ dstat_list'[1] = dstat_list[1]
        BY <2>2, <3>2 DEF Of
      <4>2. Lists[k] \o Lists["head"] = dstat_list[0]
        BY <1>3, <2>3, <3>1, <3>2, <4>1
      <4> HIDE DEF k
      <4> QED BY <1>3, <3>1, <3>2, <4>1, <4>2
    <3>3. CASE finished = 1
      <4>1. k = "second" /\ dstat_list'[1] = <<>> /\ dstat_list'[0] = dstat_list[0]
        BY <2>2, <3>3 DEF Of
      <4>2. Lists[k] \o Lists["head"] = dstat_list[1]
        BY <1>3, <2>3, <3>1, <3>3, <4>1
      <4> HIDE DEF k
      <4> QED BY <1>3, <3>1, <3>3, <4>1, <4>2
    <3> QED BY <1>1, <3>2, <3>3
  <2>5. Shelved(Lists', Names, DOMAIN dstats)
    <3>1. k \in Names /\ k # "head" /\ "head" \in Names
      BY DEF Of, Names
    <3> HIDE DEF k
    <3> QED BY <1>1, <2>4, <3>1, PutInFront
  <2>6. ToSet(<<>>) = {}
    BY DEF ToSet
  <2>7. dstat_tree' = [i \in 0..1 |-> ToSet(dstat_list'[i])]
    BY <1>1, <2>1, <2>2, <2>6
  <2>8. \A i \in 0..1 : OneEach(ToSet(dstat_list'[i]), dstats)
    BY <2>2, <2>6 DEF OneEach, ListInv
  <2>9. OneEach(ToSet(head'), dstats)
    BY <1>1, <2>1 DEF ListInv
  <2>10. row' \in DOMAIN head' /\ head' # <<>>
    BY <1>1, <1>2, <1>5, <2>1
  <2>11. dstat_list' = [i \in 0..1 |-> dstat_list'[i]]
    BY <2>2
  <2> QED BY <1>1, <2>1, <2>5, <2>7, <2>8, <2>9, <2>10, <2>11 DEF ListInv, gatherer
<1>6. CASE Recycle
  <2>1. /\ ipc' = "sleep" /\ head' = <<>> /\ vacant_dstats_list' = head \o vacant_dstats_list
        /\ UNCHANGED <<dstat_list, dstat_tree>>
    BY <1>6 DEF Recycle, Goto
  <2>2. Lists' = [Lists EXCEPT !["head"] = <<>>, !["vacant"] = Lists["head"] \o Lists["vacant"]]
    BY <1>3, <2>1 DEF Lists
  <2>3. Shelved(Lists', Names, DOMAIN dstats)
    BY <1>1, <1>3, <2>2, PutInFront
  <2>4. ToSet(head') = {}
    BY <2>1 DEF ToSet
  <2> QED BY <1>1, <2>1, <2>3, <2>4 DEF ListInv, OneEach, gatherer
<1> QED BY <1>4, <1>5, <1>6

LEMMA AccountKeeps ==
  ASSUME PairInv, ListInv, AccountMinmax \/ AccountHist \/ Convert
  PROVE  ListInv' /\ \A i \in DOMAIN dstats : dstats'[i].device = dstats[i].device
<1>1. dstats \in Seq(Dstat) /\ DOMAIN dstats = 1..Len(dstats) /\ \A i \in DOMAIN dstats : dstats[i] \in Dstat
  BY DEF ListInv
<1>2. ASSUME NEW i \in DOMAIN dstats, NEW s \in Dstat, s.device = dstats[i].device,
             dstats' = [dstats EXCEPT ![i] = s]
      PROVE  /\ dstats' \in Seq(Dstat) /\ DOMAIN dstats' = DOMAIN dstats
             /\ \A j \in DOMAIN dstats : dstats'[j].device = dstats[j].device
  BY <1>1, <1>2, ExceptSeq
<1>3. CASE AccountMinmax \/ AccountHist
  <2>1. d2c \in Nat
    <3>1. bit \in Pairs
      BY <1>3 DEF AccountMinmax, AccountHist, PairInv, Pairs
    <3>2. bit[1] \in Came /\ bit[2] \in Came /\ bit[1].time <= bit[2].time
      BY <3>1 DEF PairInv, Good
    <3>3. Came \subseteq Event
      <4> SUFFICES ASSUME NEW c \in Cpus, NEW i \in 1..next[c] PROVE Stream[c][i] \in Event
        BY DEF Came
      <4> QED BY Assumed DEF PairInv
    <3>4. bit[2].time - bit[1].time \in Nat
      BY <3>2, <3>3 DEF Event
    <3> QED BY <3>4, Assumed DEF d2c
  <2>2. p \in DOMAIN dstats
    BY <1>3 DEF AccountMinmax, AccountHist, ListInv
  <2>3. UNCHANGED <<lists, thread, p>> /\ gpc' \in {"hist", "loop"}
    BY <1>3 DEF AccountMinmax, AccountHist
  <2>4. \E s \in Dstat : s.device = dstats[p].device /\ dstats' = [dstats EXCEPT ![p] = s]
    <3>1. CASE AccountMinmax
      BY <1>1, <2>1, <2>2, <3>1, DstatAccounted DEF AccountMinmax
    <3>2. CASE AccountHist
      BY <1>1, <2>1, <2>2, <3>2, DstatHist DEF AccountHist
    <3> QED BY <1>3, <3>1, <3>2
  <2>5. /\ dstats' \in Seq(Dstat) /\ DOMAIN dstats' = DOMAIN dstats
        /\ \A j \in DOMAIN dstats : dstats'[j].device = dstats[j].device
    BY <1>2, <2>2, <2>4
  <2> QED BY <2>2, <2>3, <2>5, SameDevices DEF thread, ListInv
<1>4. CASE Convert
  <2>1. /\ UNCHANGED <<lists, gatherer, finished, head>> /\ row' = row + 1
        /\ ipc' = IF row = Len(head) THEN "recycle" ELSE "print"
        /\ dstats' = [dstats EXCEPT ![head[row]].be = TRUE]
        /\ row \in DOMAIN head
    BY <1>4 DEF Convert, Goto, ListInv
  <2>2. head[row] \in DOMAIN dstats /\ head \in Seq(Nat)
    BY <2>1 DEF ListInv, Shelved, Lists, Names
  <2>3. [dstats[head[row]] EXCEPT !.be = TRUE] \in Dstat
    BY <1>1, <2>2 DEF Dstat
  <2>4. [dstats[head[row]] EXCEPT !.be = TRUE].device = dstats[head[row]].device
    BY <1>1, <2>2 DEF Dstat
  <2>5. dstats' = [dstats EXCEPT ![head[row]] = [dstats[head[row]] EXCEPT !.be = TRUE]]
    BY <2>1, <2>2
  <2>6. /\ dstats' \in Seq(Dstat) /\ DOMAIN dstats' = DOMAIN dstats
        /\ \A j \in DOMAIN dstats : dstats'[j].device = dstats[j].device
    BY <1>2, <2>2, <2>3, <2>4, <2>5
  <2>7. ipc' = "print" => row' \in DOMAIN head
    BY <2>1, <2>2
  <2> QED BY <2>1, <2>6, <2>7, SameDevices DEF gatherer, ListInv
<1> QED BY <1>3, <1>4

LEMMA ListStep == PairInv /\ ListInv /\ [Next]_vars => ListInv'
<1> SUFFICES ASSUME PairInv, ListInv, [Next]_vars PROVE ListInv'
  OBVIOUS
<1>1. ASSUME UNCHANGED <<dstats, lists, head, finished, row>>,
             gpc' \in {"minmax", "hist"} => p' \in DOMAIN dstats,
             ipc' \in {"sleep", "take"} => head = <<>>,
             ipc' \in {"print", "convert"} => row' \in DOMAIN head,
             ipc' \in {"sleep", "take", "print", "convert", "recycle"}
      PROVE  ListInv'
  BY <1>1, SameDevices DEF ListInv
<1>2. CASE \E c \in Cpus : Read(c) \/ Lose(c)
  <2>1. UNCHANGED <<dstats, lists, thread>> /\ (gpc' = gpc \/ gpc' \in {"loop", "get", "done"}) /\ p' = p
    BY <1>2 DEF Read, Lose, gatherer, blkiomon_do_trace
  <2> QED BY <1>1, <2>1 DEF thread, ListInv
<1>3. CASE Signal \/ Loop \/ EndFifo
  <2>1. UNCHANGED <<dstats, lists, thread>> /\ (gpc' = gpc \/ gpc' \in {"read", "done"}) /\ p' = p
    BY <1>3 DEF Signal, Loop, EndFifo, gatherer
  <2> QED BY <1>1, <2>1 DEF thread, ListInv
<1>4. CASE PrintRow \/ Ended \/ UNCHANGED vars
  <2>1. UNCHANGED <<dstats, lists, gatherer, head, finished, row>>
        /\ (ipc' = ipc \/ (ipc = "print" /\ ipc' = "convert"))
    BY <1>4 DEF PrintRow, Ended, vars, thread, Goto
  <2> QED BY <1>1, <2>1 DEF gatherer, ListInv
<1>5. CASE Grab
  <2>1. /\ UNCHANGED <<dstats, vacant_dstats_list, dstat_list, dstat_tree, head, gatherer>>
        /\ ipc = "sleep" /\ ipc' = "take" /\ finished' = dstat_curr /\ dstat_curr' = 1 - dstat_curr
    BY <1>5 DEF Grab, Goto
  <2>2. Lists' = Lists
    BY <2>1 DEF Lists
  <2> QED BY <2>1, <2>2 DEF ListInv, gatherer
<1> QED BY <1>2, <1>3, <1>4, <1>5, GetKeeps, MovesKeep, AccountKeeps DEF Next
-----------------------------------------------------------------------------
(* The traces.                                                              *)
Places(h) == UNION {{<<i, j>> : j \in DOMAIN h[i]} : i \in DOMAIN h}

LEMMA PlaceAdded ==
  ASSUME NEW h, NEW t, DOMAIN t = DOMAIN h, NEW b \in DOMAIN h, NEW n,
         \A d \in DOMAIN h : d # b => t[d] = h[d],
         DOMAIN t[b] = DOMAIN h[b] \cup {n}, n \notin DOMAIN h[b], IsFiniteSet(Places(h))
  PROVE  /\ IsFiniteSet(Places(t))
         /\ Cardinality(Places(t)) = Cardinality(Places(h)) + 1
         /\ Cardinality(Places(h)) \in Nat
<1>1. Places(t) = Places(h) \cup {<<b, n>>}
  <2>1. \A x : x \in Places(t) <=> \E i \in DOMAIN h : \E j \in DOMAIN t[i] : x = <<i, j>>
    BY DEF Places
  <2>2. \A x : x \in Places(h) <=> \E i \in DOMAIN h : \E j \in DOMAIN h[i] : x = <<i, j>>
    BY DEF Places
  <2>3. ASSUME NEW x \in Places(t) PROVE x \in Places(h) \cup {<<b, n>>}
    BY <2>1, <2>2
  <2>4. ASSUME NEW x \in Places(h) PROVE x \in Places(t)
    BY <2>1, <2>2
  <2>5. <<b, n>> \in Places(t)
    BY <2>1
  <2> QED BY <2>3, <2>4, <2>5
<1>2. <<b, n>> \notin Places(h)
  BY DEF Places
<1> QED BY <1>1, <1>2, FS_AddElement, FS_CardinalityType

LEMMA PlaceTaken ==
  ASSUME NEW h, NEW t, DOMAIN t = DOMAIN h, NEW b \in DOMAIN h, NEW n,
         \A d \in DOMAIN h : d # b => t[d] = h[d],
         DOMAIN h[b] = DOMAIN t[b] \cup {n}, n \notin DOMAIN t[b], IsFiniteSet(Places(h))
  PROVE  /\ IsFiniteSet(Places(t))
         /\ Cardinality(Places(h)) = Cardinality(Places(t)) + 1
         /\ Cardinality(Places(t)) \in Nat
<1>1. Places(t) \subseteq Places(h)
  <2> SUFFICES ASSUME NEW i \in DOMAIN t, NEW j \in DOMAIN t[i] PROVE j \in DOMAIN h[i]
    BY DEF Places
  <2> QED OBVIOUS
<1>2. IsFiniteSet(Places(t))
  BY <1>1, FS_Subset
<1> QED BY <1>2, PlaceAdded

TraceInv == TracesKept /\ IsFiniteSet(Stored) /\ vacant_traces \in Nat /\ traces \in Int

LEMMA TraceStart == Init => TraceInv
<1> SUFFICES ASSUME Init PROVE TraceInv
  OBVIOUS
<1>1. Stored = {}
  BY DEF Init, Stored
<1> QED BY <1>1, FS_EmptySet DEF Init, TraceInv, TracesKept

(* A trace is stored, or goes into a pair.                                  *)
LEMMA DoTraceCounts ==
  ASSUME PairInv, TraceInv, NEW e \in Event, gpc = "read", blkiomon_do_trace(e)
  PROVE  TraceInv'
<1> DEFINE b == Bucket(e)
           s == thash[b]
           i == blkiomon_fetch_trace(e)
           pair == OlderFirst(s[i], e)
<1>1. /\ b \in DOMAIN thash /\ Chain(s, b) /\ s \in Seq(Event) /\ Stored = Places(thash)
      /\ thash = [d \in 0..(TRACE_HASH_SIZE - 1) |-> thash[d]]
      /\ DOMAIN s = 1..Len(s) /\ Len(s) \in Nat
  <2>1. b \in 0..(TRACE_HASH_SIZE - 1)
    BY Assumed DEF Bucket, Event
  <2> QED BY <2>1 DEF PairInv, IsTable, Chain, Stored, Places
<1>2. i # 0 => i \in DOMAIN s /\ Same(s[i], e)
  BY <1>1, FetchFinds
<1>3. bit = <<>> /\ traces = Cardinality(Places(thash)) + vacant_traces + 1
      /\ Cardinality(Places(thash)) \in Nat /\ IsFiniteSet(Places(thash))
      /\ vacant_traces \in Nat
  BY <1>1, FS_CardinalityType DEF PairInv, TraceInv, TracesKept
<1>4. Stored' = Places(thash')
  BY DEF Stored, Places
<1>5. CASE i = 0
  <2>1. /\ thash' = [thash EXCEPT ![b] = <<e>> \o s] /\ bit' = <<>> /\ gpc' = "loop"
        /\ blkiomon_alloc_trace
    BY <1>3, <1>5 DEF blkiomon_do_trace, blkiomon_store_trace
  <2>2. DOMAIN (<<e>> \o s) = DOMAIN s \cup {Len(s) + 1} /\ Len(s) + 1 \notin DOMAIN s
    BY <1>1
  <2> DEFINE t == thash'
             q == <<e>> \o s
  <2> HIDE DEF s, b, q
  <2>5. /\ DOMAIN t = DOMAIN thash /\ t[b] = q
        /\ \A d \in DOMAIN thash : d # b => t[d] = thash[d]
    BY <1>1, <2>1 DEF q
  <2>6. DOMAIN t[b] = DOMAIN thash[b] \cup {Len(s) + 1} /\ Len(s) + 1 \notin DOMAIN thash[b]
    BY <2>2, <2>5 DEF q, s
  <2> HIDE DEF t
  <2>7. IsFiniteSet(Places(t)) /\ Cardinality(Places(t)) = Cardinality(Places(thash)) + 1
    BY <1>1, <1>3, <2>5, <2>6, PlaceAdded
  <2>3. IsFiniteSet(Places(thash')) /\ Cardinality(Places(thash')) = Cardinality(Places(thash)) + 1
    BY <2>7 DEF t
  <2> QED BY <1>3, <1>4, <2>1, <2>3 DEF TraceInv, TracesKept, blkiomon_alloc_trace
<1>6. CASE i # 0 /\ pair[1].act = "D" /\ pair[2].act = "C"
  <2>1. /\ thash' = [thash EXCEPT ![b] = RemoveAt(s, i)] /\ bit' = pair /\ gpc' = "get"
        /\ UNCHANGED <<vacant_traces, traces>> /\ bit' # <<>>
    BY <1>6 DEF blkiomon_do_trace, Removed, OlderFirst
  <2> DEFINE t == thash'
             q == RemoveAt(s, i)
  <2>2. DOMAIN s = DOMAIN q \cup {Len(s)} /\ Len(s) \notin DOMAIN q
    <3>1. q \in Seq(Event) /\ Len(q) = Len(s) - 1
      <4> HIDE DEF s, i, b
      <4> QED BY <1>1, <1>2, <1>6, RemoveChain DEF Chain
    <3>2. Len(s) \in Nat \ {0} /\ DOMAIN s = 1..Len(s)
      BY <1>1, <1>2, <1>6
    <3> HIDE DEF s, q
    <3>3. DOMAIN q = 1..(Len(s) - 1)
      BY <3>1, <3>2
    <3> QED BY <3>2, <3>3
  <2> HIDE DEF s, b, pair, q
  <2>5. /\ DOMAIN t = DOMAIN thash /\ t[b] = q
        /\ \A d \in DOMAIN thash : d # b => t[d] = thash[d]
    BY <1>1, <2>1 DEF q
  <2>6. DOMAIN thash[b] = DOMAIN t[b] \cup {Len(s)} /\ Len(s) \notin DOMAIN t[b]
    BY <2>2, <2>5 DEF s
  <2> HIDE DEF t
  <2>7. /\ IsFiniteSet(Places(t)) /\ Cardinality(Places(thash)) = Cardinality(Places(t)) + 1
        /\ Cardinality(Places(t)) \in Nat
    BY <1>1, <1>3, <2>5, <2>6, PlaceTaken
  <2>3. /\ IsFiniteSet(Places(thash')) /\ Cardinality(Places(thash)) = Cardinality(Places(thash')) + 1
        /\ Cardinality(Places(thash')) \in Nat
    BY <2>7 DEF t
  <2> QED BY <1>3, <1>4, <2>1, <2>3 DEF TraceInv, TracesKept
<1>7. CASE i # 0 /\ ~(pair[1].act = "D" /\ pair[2].act = "C")
  <2> DEFINE r == RemoveAt(s, i)
             x == pair[2]
  <2>1. /\ thash' = blkiomon_store_trace(Removed(e, i), x)
        /\ bit' = <<>> /\ gpc' = "loop" /\ UNCHANGED <<vacant_traces, traces>>
    BY <1>3, <1>7 DEF blkiomon_do_trace
  <2>2. Bucket(x) = b
    BY <1>2, <1>7, Fits DEF OlderFirst
  <2>3. thash' = [thash EXCEPT ![b] = <<x>> \o r]
    BY <1>1, <2>1, <2>2 DEF blkiomon_store_trace, Removed
  <2>4. DOMAIN (<<x>> \o r) = DOMAIN s
    <3>1. r \in Seq(Event) /\ Len(r) = Len(s) - 1
      <4> HIDE DEF s, i, b
      <4> QED BY <1>1, <1>2, <1>7, RemoveChain DEF Chain
    <3>2. Len(s) \in Nat \ {0} /\ DOMAIN s = 1..Len(s)
      BY <1>1, <1>2, <1>7
    <3>3. x \in Event
      BY <1>1, <1>2, <1>7 DEF OlderFirst
    <3> HIDE DEF s, r, x
    <3>4. DOMAIN (<<x>> \o r) = 1..(Len(r) + 1)
      BY <3>1, <3>3
    <3> QED BY <3>1, <3>2, <3>4
  <2>5. Places(thash') = Places(thash)
    <3> DEFINE q == <<x>> \o r
    <3> HIDE DEF b, q
    <3>1. DOMAIN thash' = DOMAIN thash /\ \A d \in DOMAIN thash : DOMAIN thash'[d] = DOMAIN thash[d]
      BY <1>1, <2>3, <2>4 DEF q
    <3> QED BY <3>1 DEF Places
  <2> HIDE DEF s, b, r, x
  <2> QED BY <1>3, <1>4, <2>1, <2>5 DEF TraceInv, TracesKept
<1> QED BY <1>5, <1>6, <1>7

LEMMA TraceStep == PairInv /\ TraceInv /\ [Next]_vars => TraceInv'
<1> SUFFICES ASSUME PairInv, TraceInv, [Next]_vars PROVE TraceInv'
  OBVIOUS
<1>1. UNCHANGED thash => Stored' = Stored
  BY DEF Stored
<1>2. Cardinality(Stored) \in Nat
  BY FS_CardinalityType DEF TraceInv
<1>3. (bit = <<>>) <=> gpc \in {"loop", "read", "done"}
  BY DEF PairInv
<1>4. ASSUME UNCHANGED <<thash, vacant_traces, traces>>,
             bit = <<>> <=> bit' = <<>>, gpc = "done" <=> gpc' = "done"
      PROVE  TraceInv'
  BY <1>1, <1>4 DEF TraceInv, TracesKept
<1>5. ASSUME UNCHANGED thash, blkiomon_free_trace,
             \/ bit' = bit /\ gpc # "done" /\ gpc' = "done"
             \/ bit # <<>> /\ bit' = <<>> /\ gpc # "done" /\ gpc' # "done"
      PROVE  TraceInv'
  BY <1>1, <1>2, <1>5 DEF TraceInv, TracesKept, blkiomon_free_trace
<1>6. CASE \E c \in Cpus : Read(c)
  <2>1. PICK c \in Cpus : Read(c)
    BY <1>6
  <2>2. Comes(c) \in Event
    BY <2>1, ComesNew DEF Read
  <2> QED BY <1>3, <1>4, <1>5, <2>1, <2>2, DoTraceCounts DEF Read
<1>7. CASE Loop \/ EndFifo
  BY <1>3, <1>4, <1>5, <1>7 DEF Loop, EndFifo
<1>8. CASE AccountHist
  BY <1>3, <1>5, <1>8 DEF AccountHist
<1>9. CASE (\E c \in Cpus : Lose(c)) \/ Signal \/ GetDstat \/ AccountMinmax
  <2>1. UNCHANGED <<thash, vacant_traces, traces, bit>> /\ (gpc = "done" <=> gpc' = "done")
    BY <1>9 DEF Lose, Signal, GetDstat, AccountMinmax, gatherer
  <2> QED BY <1>4, <2>1
<1>10. CASE Grab \/ Take \/ PrintRow \/ Convert \/ Recycle \/ Ended \/ UNCHANGED vars
  <2>1. UNCHANGED <<thash, vacant_traces, traces, bit, gpc>>
    BY <1>10 DEF Grab, Take, PrintRow, Convert, Recycle, Ended, vars, gatherer
  <2> QED BY <1>4, <2>1
<1> QED BY <1>6, <1>7, <1>8, <1>9, <1>10 DEF Next
-----------------------------------------------------------------------------
(* The rows of an interval: their devices are of the dstats before the       *)
(* current one, each of another device.                                     *)
Printed(r, k) == dstats[head[k]].device = r.stat.device
RowInv ==
  /\ interval \in Nat
  /\ \A r \in shown : r.interval \in Nat /\ r.interval <= interval
  /\ ipc = "take" => \A r \in shown : r.interval < interval
  /\ \A r \in shown : r.interval = interval =>
       /\ ipc = "print" => \E k \in DOMAIN head : k < row /\ Printed(r, k)
       /\ ipc = "convert" => \E k \in DOMAIN head : k <= row /\ Printed(r, k)
  /\ \A r, s \in shown : r.interval = s.interval /\ r.stat.device = s.stat.device => r = s

(* Nothing changes the device of a dstat that is printed.                   *)
LEMMA PrintedStay ==
  ASSUME PairInv, ListInv, [Next]_vars
  PROVE  \A k \in DOMAIN head : dstats'[head[k]].device = dstats[head[k]].device
<1>1. \A k \in DOMAIN head : head[k] \in DOMAIN dstats
  BY DEF ListInv, Shelved, Lists, Names
<1>2. CASE UNCHANGED dstats
  BY <1>2
<1>3. CASE AccountMinmax \/ AccountHist \/ Convert
  BY <1>1, <1>3, AccountKeeps
<1>4. CASE GetDstat
  <2>1. CASE UNCHANGED dstats
    BY <2>1
  <2>2. CASE vacant_dstats_list # <<>> /\ \E new : dstats' = [dstats EXCEPT ![Head(vacant_dstats_list)] = new]
    <3>1. /\ Once(Lists, Names) /\ {"head", "vacant"} \subseteq Names
          /\ Lists["head"] = head /\ Lists["vacant"] = vacant_dstats_list
          /\ vacant_dstats_list \in Seq(Nat)
      BY DEF ListInv, Shelved, Lists, Names
    <3>2. 1 \in DOMAIN vacant_dstats_list /\ Head(vacant_dstats_list) = vacant_dstats_list[1]
      BY <2>2, <3>1
    <3>3. \A k \in DOMAIN head : head[k] # Head(vacant_dstats_list)
      BY <3>1, <3>2 DEF Once
    <3> QED BY <1>1, <2>2, <3>3
  <2>3. CASE \E new \in Dstat : dstats' = Append(dstats, new)
    <3>1. \A i \in DOMAIN dstats : dstats'[i] = dstats[i]
      BY <2>3 DEF ListInv
    <3> QED BY <1>1, <3>1
  <2>4. bit[1].dev \in Devices
    <3>1. bit \in Pairs
      BY <1>4 DEF GetDstat, PairInv, Pairs
    <3>2. bit[1] \in Came
      BY <3>1 DEF PairInv, Good
    <3>3. Came \subseteq Event
      <4> SUFFICES ASSUME NEW c \in Cpus, NEW i \in 1..next[c] PROVE Stream[c][i] \in Event
        BY DEF Came
      <4> QED BY Assumed DEF PairInv
    <3> QED BY <3>2, <3>3 DEF Event
  <2> QED BY <1>4, <2>1, <2>2, <2>3, <2>4, DstatInit DEF GetDstat
<1>5. GetDstat \/ AccountMinmax \/ AccountHist \/ Convert \/ UNCHANGED dstats
  BY DEF Next, vars, Read, Lose, Signal, Loop, EndFifo, Grab, Take, PrintRow, Recycle, Ended
<1> QED BY <1>2, <1>3, <1>4, <1>5

LEMMA RowStep == PairInv /\ ListInv /\ RowInv /\ [Next]_vars => RowInv'
<1> SUFFICES ASSUME PairInv, ListInv, RowInv, [Next]_vars PROVE RowInv'
  OBVIOUS
<1>1. \A k \in DOMAIN head : dstats'[head[k]].device = dstats[head[k]].device
  BY PrintedStay
<1>2. ASSUME UNCHANGED thread PROVE RowInv'
  BY <1>1, <1>2 DEF RowInv, thread, Printed
<1>3. CASE Grab
  BY <1>3 DEF Grab, Goto, RowInv
<1>4. CASE Take
  BY <1>4 DEF Take, Goto, RowInv
<1>5. CASE PrintRow
  <2>0. PICK new : new = [interval |-> interval, stat |-> dstats[head[row]]]
    OBVIOUS
  <2>1. /\ shown' = shown \cup {new} /\ ipc = "print" /\ ipc' = "convert"
        /\ UNCHANGED <<interval, head, row, dstats>>
        /\ new.interval = interval /\ new.stat = dstats[head[row]]
    BY <1>5, <2>0 DEF PrintRow, Goto
  <2>2. row \in DOMAIN head /\ head \in Seq(Nat)
    BY <2>1 DEF ListInv, Shelved, Lists, Names
  <2>3. \A k \in DOMAIN head : dstats[head[k]].device = dstats[head[row]].device => k = row
    <3>1. Once(Lists, Names) /\ "head" \in Names /\ Lists["head"] = head
      BY DEF ListInv, Shelved, Lists, Names
    <3>2. OneEach(ToSet(head), dstats)
      BY DEF ListInv
    <3> QED BY <2>2, <3>1, <3>2 DEF Once, OneEach, ToSet
  <2>4. \A k \in DOMAIN head : k \in Int
    BY <2>2
  <2>5. \A r \in shown : r.interval = interval => r.stat.device # new.stat.device
    <3> SUFFICES ASSUME NEW r \in shown, r.interval = interval, r.stat.device = new.stat.device
                 PROVE  FALSE
      OBVIOUS
    <3>1. PICK k \in DOMAIN head : k < row /\ Printed(r, k)
      BY <2>1 DEF RowInv
    <3>2. dstats[head[k]].device = dstats[head[row]].device
      BY <2>1, <3>1 DEF Printed
    <3>3. k = row
      BY <2>3, <3>2
    <3> QED BY <2>2, <2>4, <3>1, <3>3
  <2>6. Printed(new, row)'
    BY <2>1 DEF Printed
  <2>7. \A r \in shown' : r.interval = interval => \E k \in DOMAIN head : k <= row /\ Printed(r, k)'
    BY <2>1, <2>2, <2>4, <2>6 DEF RowInv, Printed
  <2>8. \A r, s \in shown' : r.interval = s.interval /\ r.stat.device = s.stat.device => r = s
    BY <2>1, <2>5 DEF RowInv
  <2> QED BY <2>1, <2>7, <2>8 DEF RowInv
<1>6. CASE Convert
  <2>1. /\ UNCHANGED <<shown, interval, head>> /\ ipc = "convert" /\ row' = row + 1
        /\ ipc' \in {"print", "recycle"}
    BY <1>6 DEF Convert, Goto
  <2>2. head \in Seq(Nat) /\ row \in DOMAIN head
    BY <2>1 DEF ListInv, Shelved, Lists, Names
  <2>3. \A k \in DOMAIN head : k <= row => k < row'
    BY <2>1, <2>2
  <2> QED BY <1>1, <2>1, <2>3 DEF RowInv, Printed
<1>7. CASE Recycle
  BY <1>7 DEF Recycle, Goto, RowInv
<1>8. Grab \/ Take \/ PrintRow \/ Convert \/ Recycle \/ UNCHANGED thread
  BY DEF Next, vars, Read, Lose, Signal, Loop, EndFifo, GetDstat, AccountMinmax, AccountHist, Ended
<1> QED BY <1>2, <1>3, <1>4, <1>5, <1>6, <1>7, <1>8

Inv == PairInv /\ ListInv /\ TraceInv /\ RowInv

LEMMA Invariant == Spec => []Inv
<1>1. Init => RowInv
  BY DEF Init, RowInv
<1>2. Init => Inv
  BY <1>1, PairStart, ListStart, TraceStart DEF Inv
<1>3. Inv /\ [Next]_vars => Inv'
  BY PairStep, ListStep, TraceStep, RowStep DEF Inv
<1> QED BY <1>2, <1>3, PTL DEF Spec

(* What is accounted is an issue and a later completion of the same sector,  *)
(* no event is in two pairs, and no two traces are stored that would match   *)
(* (blkiomon_do_trace), for any streams and any losses.                      *)
THEOREM PairsFormed == Spec => []PairsMatch
<1>1. PairInv => PairsMatch
  <2> SUFFICES ASSUME PairInv PROVE PairsMatch
    OBVIOUS
  <2>1. \A m \in matched : m \in Pairs
    BY DEF Pairs
  <2>2. \A x, y \in Stored : Same(At(x), At(y)) => x = y
    <3> SUFFICES ASSUME NEW a \in DOMAIN thash, NEW j \in DOMAIN thash[a],
                        NEW b \in DOMAIN thash, NEW k \in DOMAIN thash[b],
                        Same(thash[a][j], thash[b][k])
                 PROVE  a = b /\ j = k
      BY DEF Stored, At
    <3>1. a = b
      BY Fits DEF PairInv, IsTable, Chain
    <3> QED BY <3>1 DEF PairInv, IsTable, Chain
  <2> QED BY <2>1, <2>2 DEF PairInv, PairsMatch, Good
<1>2. Inv => PairInv
  BY DEF Inv
<1> QED BY <1>1, <1>2, Invariant, PTL

(* No trace is leaked or freed twice, each dstat is in one of the lists, and *)
(* a device has one row in an interval (blkiomon_alloc_trace, the lists of   *)
(* blkiomon_get_dstat and blkiomon_interval), whatever is read or lost and   *)
(* however the two threads take turns.                                      *)
THEOREM ListsKept == Spec => []NothingLeaked
<1>1. Inv => NothingLeaked
  <2> SUFFICES ASSUME Inv PROVE NothingLeaked
    OBVIOUS
  <2> USE DEF Inv
  <2>1. /\ Lists["first"] = dstat_list[0] /\ Lists["second"] = dstat_list[1]
        /\ Lists["head"] = head /\ Lists["vacant"] = vacant_dstats_list
        /\ {"first", "second", "head", "vacant"} = Names
    BY DEF Lists, Names
  <2>2. \A k \in Names : Lists[k] \in Seq(Nat) /\ IsInjective(Lists[k])
    BY DEF ListInv, Shelved, Once, IsInjective
  <2>3. \A k, l \in Names : k # l => ToSet(Lists[k]) \cap ToSet(Lists[l]) = {}
    BY DEF ListInv, Shelved, Once, ToSet
  <2>4. UNION {ToSet(Lists[k]) : k \in Names} = DOMAIN dstats
    <3>1. \A k \in Names : ToSet(Lists[k]) \subseteq DOMAIN dstats
      BY DEF ListInv, Shelved, ToSet
    <3>2. \A x \in DOMAIN dstats : \E k \in Names : x \in ToSet(Lists[k])
      BY DEF ListInv, Shelved, ToSet
    <3> QED BY <3>1, <3>2
  <2> DEFINE a == Lists["first"] \o Lists["second"]
             b == a \o Lists["head"]
             c == b \o Lists["vacant"]
  <2>5. /\ a \in Seq(Nat) /\ IsInjective(a)
        /\ ToSet(a) = ToSet(Lists["first"]) \cup ToSet(Lists["second"])
    BY <2>1, <2>2, <2>3, JoinInjective
  <2> HIDE DEF a
  <2>6. /\ b \in Seq(Nat) /\ IsInjective(b)
        /\ ToSet(b) = ToSet(a) \cup ToSet(Lists["head"])
    <3>1. ToSet(a) \cap ToSet(Lists["head"]) = {}
      BY <2>1, <2>3, <2>5
    <3>2. Lists["head"] \in Seq(Nat) /\ IsInjective(Lists["head"])
      BY <2>1, <2>2
    <3> QED BY <2>5, <3>1, <3>2, JoinInjective
  <2> HIDE DEF b
  <2>7. IsInjective(c) /\ ToSet(c) = ToSet(b) \cup ToSet(Lists["vacant"])
    <3>1. ToSet(b) \cap ToSet(Lists["vacant"]) = {}
      BY <2>1, <2>3, <2>5, <2>6
    <3>2. Lists["vacant"] \in Seq(Nat) /\ IsInjective(Lists["vacant"])
      BY <2>1, <2>2
    <3> QED BY <2>6, <3>1, <3>2, JoinInjective
  <2> HIDE DEF c
  <2>8. ToSet(c) = DOMAIN dstats
    <3>1. ToSet(c) = ToSet(Lists["first"]) \cup ToSet(Lists["second"])
                       \cup ToSet(Lists["head"]) \cup ToSet(Lists["vacant"])
      BY <2>5, <2>6, <2>7
    <3>2. UNION {ToSet(Lists[k]) : k \in Names}
            = ToSet(Lists["first"]) \cup ToSet(Lists["second"])
                \cup ToSet(Lists["head"]) \cup ToSet(Lists["vacant"])
      BY DEF Names
    <3> QED BY <2>4, <3>1, <3>2
  <2>9. c = dstat_list[0] \o dstat_list[1] \o head \o vacant_dstats_list
    BY <2>1 DEF a, b, c
  <2>10. \A i \in 0..1 : /\ dstat_tree[i] = ToSet(dstat_list[i])
                         /\ OneEach(dstat_tree[i], dstats)
    BY DEF ListInv
  <2> QED BY <2>7, <2>8, <2>9, <2>10 DEF NothingLeaked, TraceInv, RowInv, OneEach
<1> QED BY <1>1, Invariant, PTL
-----------------------------------------------------------------------------
(* What the members x of S hold, F[x] each.                                 *)
Mass(S, F) == UNION {{x} \X F[x] : x \in S}

LEMMA InMass ==
  ASSUME NEW S, NEW F
  PROVE  /\ \A x \in S : \A y \in F[x] : <<x, y>> \in Mass(S, F)
         /\ \A z \in Mass(S, F) : \E x \in S : \E y \in F[x] : z = <<x, y>>
BY DEF Mass

LEMMA SameMass ==
  ASSUME NEW S, NEW F, NEW G, \A x \in S : F[x] = G[x]
  PROVE  Mass(S, F) = Mass(S, G)
BY DEF Mass

LEMMA EmptyAdded ==
  ASSUME NEW S, NEW F, NEW G, NEW e, G[e] = {}, \A x \in S : x # e => G[x] = F[x], e \notin S
  PROVE  Mass(S \cup {e}, G) = Mass(S, F)
BY DEF Mass

(* One thing more is held by e.                                             *)
LEMMA OneAdded ==
  ASSUME NEW S, NEW F, NEW G, NEW e \in S, NEW u, u \notin F[e], G[e] = F[e] \cup {u},
         \A x \in S : x # e => G[x] = F[x], IsFiniteSet(Mass(S, F))
  PROVE  /\ IsFiniteSet(Mass(S, G)) 
         /\ Cardinality(Mass(S, G)) = Cardinality(Mass(S, F)) + 1
<1> DEFINE A == Mass(S, F)
           B == Mass(S, G)
<1>1. <<e, u>> \notin A
  BY InMass
<1>2. B = A \cup {<<e, u>>}
  <2>1. ASSUME NEW z \in B PROVE z \in A \cup {<<e, u>>}
    <3>0. PICK x \in S : \E y \in G[x] : z = <<x, y>>
      BY InMass
    <3>1. PICK y \in G[x] : z = <<x, y>>
      BY <3>0
    <3>2. y \in F[x] \/ (x = e /\ y = u)
      OBVIOUS
    <3> QED BY <3>1, <3>2, InMass
  <2>2. ASSUME NEW z \in A PROVE z \in B
    <3>0. PICK x \in S : \E y \in F[x] : z = <<x, y>>
      BY InMass
    <3>1. PICK y \in F[x] : z = <<x, y>>
      BY <3>0
    <3>2. y \in G[x]
      OBVIOUS
    <3> QED BY <3>1, <3>2, InMass
  <2>3. <<e, u>> \in B
    BY InMass
  <2> QED BY <2>1, <2>2, <2>3
<1>3. IsFiniteSet(A)
  OBVIOUS
<1> HIDE DEF A, B
<1>4. IsFiniteSet(B) /\ Cardinality(B) = Cardinality(A) + 1
  BY <1>1, <1>2, <1>3, FS_AddElement
<1> QED BY <1>4 DEF A, B

(* What e holds goes away with e.                                           *)
LEMMA MemberTaken ==
  ASSUME NEW S, NEW F, NEW e \in S, IsFiniteSet(Mass(S, F))
  PROVE  /\ IsFiniteSet(F[e]) /\ IsFiniteSet(Mass(S \ {e}, F))
         /\ Cardinality(Mass(S, F)) = Cardinality(Mass(S \ {e}, F)) + Cardinality(F[e])
<1> DEFINE A == Mass(S, F)
           B == Mass(S \ {e}, F)
           E == {e} \X F[e]
<1>1. A = B \cup E /\ B \cap E = {}
  BY DEF Mass
<1> HIDE DEF A, B
<1>2. IsFiniteSet(A) /\ IsFiniteSet(B) /\ IsFiniteSet(E)
  BY <1>1, FS_Subset DEF A
<1>3. IsFiniteSet(F[e])
  <2> DEFINE f == [y \in F[e] |-> <<e, y>>]
  <2>1. f \in Injection(F[e], E)
    BY DEF Injection, IsInjective
  <2> QED BY <1>2, <2>1, FS_Injection
<1>4. Cardinality(E) = Cardinality(F[e])
  <2>1. Cardinality(E) = Cardinality({e}) * Cardinality(F[e]) /\ Cardinality({e}) = 1
    BY <1>3, FS_Singleton, FS_Product
  <2>2. Cardinality(F[e]) \in Nat
    BY <1>3, FS_CardinalityType
  <2> QED BY <2>1, <2>2
<1>5. Cardinality(A) = Cardinality(B) + Cardinality(E)
  <2>1. Cardinality(B \cup E) = Cardinality(B) + Cardinality(E) - Cardinality(B \cap E)
    BY <1>2, FS_Union
  <2>2. Cardinality(B \cap E) = 0
    BY <1>1, FS_EmptySet
  <2>3. Cardinality(B) \in Nat /\ Cardinality(E) \in Nat
    BY <1>2, FS_CardinalityType
  <2> QED BY <1>1, <2>1, <2>2, <2>3
<1> QED BY <1>2, <1>3, <1>4, <1>5 DEF A, B

LEMMA MemberAdded ==
  ASSUME NEW S, NEW F, NEW G, NEW e, e \notin S, \A x \in S : G[x] = F[x],
         IsFiniteSet(Mass(S, F)), IsFiniteSet(G[e])
  PROVE  /\ IsFiniteSet(Mass(S \cup {e}, G))
         /\ Cardinality(Mass(S \cup {e}, G)) = Cardinality(Mass(S, F)) + Cardinality(G[e])
<1> DEFINE T == S \cup {e}
<1>1. Mass(T \ {e}, G) = Mass(S, F)
  <2>1. T \ {e} = S
    OBVIOUS
  <2> HIDE DEF T
  <2> QED BY <2>1, SameMass
<1>2. IsFiniteSet(Mass(T, G))
  <2> DEFINE E == {e} \X G[e]
  <2>1. Mass(T, G) = Mass(S, F) \cup E
    BY DEF Mass
  <2>2. IsFiniteSet(E)
    BY FS_Singleton, FS_Product
  <2> HIDE DEF E, T
  <2> QED BY <2>1, <2>2, FS_Union
<1>3. e \in T
  OBVIOUS
<1> HIDE DEF T
<1>4. Cardinality(Mass(T, G)) = Cardinality(Mass(T \ {e}, G)) + Cardinality(G[e])
  BY <1>2, <1>3, MemberTaken
<1> QED BY <1>1, <1>2, <1>4 DEF T

-----------------------------------------------------------------------------
(* What a histogram holds, by its operations.                               *)
LEMMA NothingFilled == \A device : Filled(blkiomon_stat_init(device)) = {}
BY DEF Filled, blkiomon_stat_init

LEMMA IndexInHist == ASSUME NEW v \in Nat PROVE histlog2_index(v) \in 0..(Buckets - 1)
<1> DEFINE S == {Buckets - 1} \cup {i \in 0..(Buckets - 2) : v <= histlog2_upper_limit(i)}
<1>1. Buckets \in Nat \ {0, 1}
  BY StatsAssumption
<1>2. S \subseteq 0..(Buckets - 1) /\ S # {}
  BY <1>1
<1> HIDE DEF S
<1>3. S \in SUBSET Nat
  BY <1>1, <1>2
<1>4. Min(S) \in S
  BY <1>2, <1>3, MinIn
<1> QED BY <1>2, <1>4 DEF histlog2_index, S

LEMMA FilledSame ==
  ASSUME NEW s \in Dstat, NEW dir, NEW v
  PROVE  /\ Filled(Accounted(s, dir, v)) = Filled(s)
         /\ Filled([s EXCEPT !.be = TRUE]) = Filled(s)
<1>1. Accounted(s, dir, v).hist = s.hist /\ [s EXCEPT !.be = TRUE].hist = s.hist
  BY DEF Accounted, Dstat
<1> QED BY <1>1 DEF Filled

LEMMA FilledByOne ==
  ASSUME NEW s \in Dstat, NEW v \in Nat
  PROVE  \E u : u \notin Filled(s) /\ Filled(histlog2_account(s, v)) = Filled(s) \cup {u}
<1> DEFINE D == 0..(Buckets - 1)
           k == histlog2_index(v)
           g == s.hist
           t == histlog2_account(s, v)
           h == t.hist
<1>1. g \in [D -> Nat] /\ k \in D
  BY IndexInHist DEF Dstat
<1>2. h = [g EXCEPT ![k] = @ + 1]
  BY DEF histlog2_account, Dstat
<1>3. Filled(t) = UNION {{i} \X (1..h[i]) : i \in DOMAIN h} /\ Filled(s) = UNION {{i} \X (1..g[i]) : i \in DOMAIN g}
  BY DEF Filled
<1> HIDE DEF D, k, g, t, h
<1>4. PICK n \in Nat : n = g[k] + 1
  BY <1>1
<1>5. /\ DOMAIN h = D /\ DOMAIN g = D /\ 1..h[k] = 1..g[k] \cup {n} /\ n \notin 1..g[k]
      /\ \A i \in D : i # k => h[i] = g[i]
  BY <1>1, <1>2, <1>4
<1>6. <<k, n>> \notin Filled(s)
  BY <1>3, <1>5
<1>7. Filled(t) = Filled(s) \cup {<<k, n>>}
  <2>1. \A z : z \in Filled(t) <=> \E i \in D : \E j \in 1..h[i] : z = <<i, j>>
    BY <1>3, <1>5
  <2>2. \A z : z \in Filled(s) <=> \E i \in D : \E j \in 1..g[i] : z = <<i, j>>
    BY <1>3, <1>5
  <2>3. ASSUME NEW z \in Filled(t) PROVE z \in Filled(s) \cup {<<k, n>>}
    BY <1>1, <1>5, <2>1, <2>2
  <2>4. ASSUME NEW z \in Filled(s) PROVE z \in Filled(t)
    BY <1>1, <1>5, <2>1, <2>2
  <2>5. <<k, n>> \in Filled(t)
    BY <1>1, <1>5, <2>1
  <2> QED BY <2>3, <2>4, <2>5
<1> QED BY <1>6, <1>7 DEF t
-----------------------------------------------------------------------------
(* A pair is accounted once; the list the gatherer left is empty but until   *)
(* it was taken.                                                            *)
TurnInv ==
  /\ bit # <<>> => bit \notin matched
  /\ IF ipc = "take" THEN finished = 1 - dstat_curr ELSE dstat_list[1 - dstat_curr] = <<>>

LEMMA TurnStep == PairInv /\ ListInv /\ TurnInv /\ [Next]_vars => TurnInv'
<1> SUFFICES ASSUME PairInv, ListInv, TurnInv, [Next]_vars PROVE TurnInv'
  OBVIOUS
<1> DEFINE BitApart == bit # <<>> => bit \notin matched
           Left == IF ipc = "take" THEN finished = 1 - dstat_curr ELSE dstat_list[1 - dstat_curr] = <<>>
<1>1. BitApart'
  <2>1. CASE \E c \in Cpus : Read(c)
    <3>1. PICK c \in Cpus : Read(c)
      BY <2>1
    <3>2. bit = <<>> /\ matched' = matched
      BY <3>1 DEF Read, PairInv
    <3>3. CASE blkiomon_do_trace(Comes(c)) /\ bit' # bit
      <4>1. Comes(c) \notin Came
        BY <3>1, ComesNew DEF Read
      <4>2. bit'[1] = Comes(c) \/ bit'[2] = Comes(c)
        BY <3>3 DEF blkiomon_do_trace, OlderFirst
      <4>3. \A m \in matched : m[1] \in Came /\ m[2] \in Came
        BY DEF PairInv, Pairs, Good
      <4> QED BY <3>2, <4>1, <4>2, <4>3
    <3> QED BY <3>1, <3>2, <3>3 DEF Read
  <2>2. CASE AccountHist
    BY <2>2 DEF AccountHist
  <2>3. CASE UNCHANGED <<bit, matched>>
    BY <2>3 DEF TurnInv
  <2> QED BY <2>1, <2>2, <2>3 DEF Next, vars, gatherer, Lose, Signal, Loop, EndFifo, GetDstat,
            AccountMinmax, Grab, Take, PrintRow, Convert, Recycle, Ended
<1>2. Left'
  <2>0. /\ dstat_curr \in 0..1 /\ dstat_list = [i \in 0..1 |-> dstat_list[i]] /\ finished \in 0..1
        /\ Left
    BY DEF ListInv, TurnInv
  <2>1. CASE GetDstat
    <3>1. UNCHANGED <<ipc, finished, dstat_curr>> 
      BY <2>1 DEF GetDstat, thread, lists
    <3>2. dstat_list'[1 - dstat_curr] = dstat_list[1 - dstat_curr]
      <4>1. dstat_list' = dstat_list \/ \E x : dstat_list' = [dstat_list EXCEPT ![dstat_curr] = x]
        BY <2>1 DEF GetDstat, Listed, lists
      <4>2. 1 - dstat_curr \in 0..1 /\ 1 - dstat_curr # dstat_curr
        BY <2>0
      <4> QED BY <2>0, <4>1, <4>2
    <3> QED BY <2>0, <3>1, <3>2
  <2>2. CASE Grab
    BY <2>0, <2>2 DEF Grab, Goto
  <2>3. CASE Take
    <3>1. /\ finished = 1 - dstat_curr /\ ipc' # "take" /\ dstat_curr' = dstat_curr
      BY <2>0, <2>3 DEF Take, Goto
    <3>2. dstat_list'[finished] = <<>>
      BY <2>0, <2>3 DEF Take, Goto
    <3> QED BY <3>1, <3>2
  <2>4. CASE PrintRow \/ Convert \/ Recycle
    <3>1. ipc # "take" /\ ipc' # "take" /\ UNCHANGED <<dstat_list, dstat_curr>>
      BY <2>4 DEF PrintRow, Convert, Recycle, Goto, lists
    <3> QED BY <2>0, <3>1
  <2>5. CASE UNCHANGED <<ipc, finished, dstat_curr, dstat_list>>
    BY <2>0, <2>5
  <2>6. \/ GetDstat \/ Grab \/ Take \/ PrintRow \/ Convert \/ Recycle
        \/ UNCHANGED <<ipc, finished, dstat_curr, dstat_list>>
    BY DEF Next, vars, lists, thread, Read, Lose, Signal, Loop, EndFifo, AccountMinmax, AccountHist, Ended
  <2> QED BY <2>1, <2>2, <2>3, <2>4, <2>5, <2>6
<1> QED BY <1>1, <1>2 DEF TurnInv
-----------------------------------------------------------------------------
(* What is found in the rows and in the dstats not printed yet.             *)
InDstats == [i \in DOMAIN dstats |-> Filled(dstats[i])]
InRows == [r \in shown |-> Filled(r.stat)]

(* The gatherer accounts to a dstat that was taken from it.                  *)
Owed == IF gpc \in {"minmax", "hist"} /\ p \notin ToSet(dstat_list[dstat_curr]) THEN 1 ELSE 0

CountInv ==
  /\ IsFiniteSet(matched) /\ IsFiniteSet(PrintedIOs) /\ IsFiniteSet(PendingIOs)
  /\ Found <= Cardinality(matched)
  /\ Cardinality(matched) - Found + Owed <= interval

LEMMA PendingListed ==
  ASSUME ListInv
  PROVE  /\ Pending \subseteq DOMAIN dstats
         /\ \A i \in DOMAIN vacant_dstats_list : vacant_dstats_list[i] \notin Pending
<1>1. /\ Shelved(Lists, Names, DOMAIN dstats) /\ Names = {"first", "second", "head", "vacant"}
      /\ Lists["first"] = dstat_list[0] /\ Lists["second"] = dstat_list[1]
      /\ Lists["head"] = head /\ Lists["vacant"] = vacant_dstats_list
  BY DEF ListInv, Lists, Names
<1>2. \A x \in Pending : \E k \in {"first", "second", "head"} : \E i \in DOMAIN Lists[k] : x = Lists[k][i]
  BY <1>1 DEF Pending, ToSet
<1>3. \A k \in Names : \A i \in DOMAIN Lists[k] : Lists[k][i] \in DOMAIN dstats
  BY <1>1 DEF Shelved
<1>4. \A k, l \in Names : k # l => \A i \in DOMAIN Lists[k], j \in DOMAIN Lists[l] : Lists[k][i] # Lists[l][j]
  BY <1>1 DEF Shelved, Once
<1>5. \A i \in DOMAIN Lists["vacant"] : Lists["vacant"][i] \notin Pending
  BY <1>1, <1>2, <1>4
<1>6. Pending \subseteq DOMAIN dstats
  BY <1>1, <1>2, <1>3
<1> QED BY <1>1, <1>5, <1>6

LEMMA IOsAreMass ==
  ListInv => PrintedIOs = Mass(shown, InRows) /\ PendingIOs = Mass(Pending, InDstats)
BY PendingListed DEF PrintedIOs, PendingIOs, Mass, InRows, InDstats

LEMMA IOsAreMassNext ==
  ListInv' => PrintedIOs' = Mass(shown', InRows') /\ PendingIOs' = Mass(Pending', InDstats')
<1>1. (ListInv => PrintedIOs = Mass(shown, InRows) /\ PendingIOs = Mass(Pending, InDstats))'
  BY IOsAreMass, PTL
<1> QED BY <1>1 DEF Mass

LEMMA SamePending ==
  ASSUME Pending' = Pending, \A i \in Pending : Filled(dstats'[i]) = Filled(dstats[i])
  PROVE  PendingIOs' = PendingIOs
BY DEF PendingIOs, Filled

LEMMA FoundNumber ==
  ASSUME CountInv
  PROVE  /\ Cardinality(PrintedIOs) \in Nat /\ Cardinality(PendingIOs) \in Nat
         /\ Found \in Nat /\ Cardinality(matched) \in Nat /\ Owed \in 0..1
BY FS_CardinalityType DEF CountInv, Found, Owed

LEMMA Slack ==
  \A m, f, o, n, i, j \in Int : m - f + o <= i /\ n - o <= j - i => m - f + n <= j
OBVIOUS

LEMMA QuietCount ==
  ASSUME CountInv, interval \in Nat, interval' \in Nat,
         UNCHANGED matched, PrintedIOs' = PrintedIOs, PendingIOs' = PendingIOs,
         Owed' - Owed <= interval' - interval
  PROVE  CountInv'
<1>1. Found' = Found
  BY DEF Found
<1>2. Found \in Nat /\ Cardinality(matched) \in Nat /\ Owed \in 0..1
  BY FoundNumber
<1>3. Owed' \in 0..1
  BY DEF Owed
<1>4. Cardinality(matched') - Found' + Owed' <= interval'
  <2>1. Cardinality(matched) - Found + Owed <= interval
    BY DEF CountInv
  <2>2. Cardinality(matched') = Cardinality(matched)
    OBVIOUS
  <2>3. /\ Cardinality(matched) \in Int /\ Found \in Int /\ Owed \in Int /\ Owed' \in Int
        /\ interval \in Int /\ interval' \in Int
    BY <1>2, <1>3
  <2>4. Owed' - Owed <= interval' - interval
    OBVIOUS
  <2>5. Cardinality(matched) - Found + Owed' <= interval'
    BY <2>1, <2>3, <2>4, Slack
  <2> QED BY <1>1, <2>2, <2>5
<1> QED BY <1>1, <1>4 DEF CountInv

LEMMA ListsAreSets ==
  ASSUME ListInv
  PROVE  /\ \A i \in 0..1 : dstat_list[i] \in Seq(Nat) /\ dstat_tree[i] = ToSet(dstat_list[i])
         /\ head \in Seq(Nat)
BY DEF ListInv, Shelved, Lists, Names

(* A dstat is listed, for which nothing is found yet.                       *)
LEMMA ListedCounts ==
  ASSUME ListInv, ListInv', NEW x \in Nat, Listed(x), x \notin Pending,
         UNCHANGED thread, dstat_curr' = dstat_curr, Filled(dstats'[x]) = {},
         \A i \in Pending : Filled(dstats'[i]) = Filled(dstats[i])
  PROVE  PendingIOs' = PendingIOs /\ Owed' = 0
<1>1. /\ p' = x /\ \A i \in 0..1 : dstat_tree[i] = ToSet(dstat_list[i]) 
      /\ \A i \in 0..1 : dstat_tree'[i] = ToSet(dstat_list'[i]) 
      /\ dstat_tree' = [i \in 0..1 |-> IF i = dstat_curr THEN dstat_tree[i] \cup {x} ELSE dstat_tree[i]]
      /\ dstat_curr \in 0..1
  <2>1. p' = x /\ dstat_tree' = [dstat_tree EXCEPT ![dstat_curr] = @ \cup {x}]
    BY DEF Listed
  <2>2. /\ dstat_tree = [i \in 0..1 |-> ToSet(dstat_list[i])] /\ dstat_curr \in 0..1
        /\ dstat_tree' = [i \in 0..1 |-> ToSet(dstat_list'[i])]
    BY DEF ListInv
  <2> QED BY <2>1, <2>2
<1>2. x \in ToSet(dstat_list'[dstat_curr])
  BY <1>1
<1>3. Owed' = 0
  BY <1>1, <1>2 DEF Owed
<1>4. ToSet(dstat_list'[0]) \cup ToSet(dstat_list'[1]) = ToSet(dstat_list[0]) \cup ToSet(dstat_list[1]) \cup {x}
  BY <1>1
<1>5. Pending' = Pending \cup {x}
  BY <1>4 DEF Pending, thread
<1>6. PendingIOs' = PendingIOs
  <2>1. PendingIOs' = UNION {{i} \X Filled(dstats'[i]) : i \in Pending'}
    BY DEF PendingIOs
  <2>2. {x} \X Filled(dstats'[x]) = {}
    OBVIOUS
  <2>3. PendingIOs' = UNION {{i} \X Filled(dstats'[i]) : i \in Pending}
    BY <1>5, <2>1, <2>2
  <2> QED BY <2>3 DEF PendingIOs
<1> QED BY <1>3, <1>6

LEMMA GetCounts ==
  ASSUME PairInv, ListInv, GetDstat
  PROVE  PendingIOs' = PendingIOs /\ Owed' = 0
<1> DEFINE new == blkiomon_stat_init(bit[1].dev)
<1>1. ListInv' /\ UNCHANGED thread
  BY GetKeeps DEF GetDstat
<1>2. Filled(new) = {}
  BY NothingFilled
<1>3. /\ Pending \subseteq DOMAIN dstats /\ vacant_dstats_list \in Seq(Nat)
      /\ \A i \in DOMAIN vacant_dstats_list : vacant_dstats_list[i] \notin Pending
  BY PendingListed DEF ListInv, Shelved, Lists, Names
<1>4. CASE UNCHANGED <<dstats, lists>> /\ (gpc' = "dead" \/ p' \in InTree(bit[1].dev))
  <2>1. Owed' = 0
    BY <1>4 DEF Owed, InTree, ListInv, lists
  <2>2. Pending' = Pending
    BY <1>1, <1>4 DEF Pending, lists, thread
  <2> QED BY <1>4, <2>1, <2>2, SamePending
<1>5. CASE /\ vacant_dstats_list # <<>>
           /\ Listed(Head(vacant_dstats_list))
           /\ dstats' = [dstats EXCEPT ![Head(vacant_dstats_list)] = new]
           /\ UNCHANGED dstat_curr
  <2> DEFINE x == Head(vacant_dstats_list)
  <2>1. x \in Nat /\ x = vacant_dstats_list[1] /\ 1 \in DOMAIN vacant_dstats_list
    BY <1>3, <1>5
  <2>2. x \notin Pending /\ x \in DOMAIN dstats
    BY <1>3, <2>1 DEF ListInv, Shelved, Lists, Names
  <2> HIDE DEF x, new
  <2>3. dstats'[x] = new /\ \A i \in Pending : dstats'[i] = dstats[i]
    BY <1>3, <1>5, <2>2 DEF x
  <2>4. Listed(x)
    BY <1>5 DEF x
  <2> QED BY <1>1, <1>2, <1>5, <2>1, <2>2, <2>3, <2>4, ListedCounts
<1>6. CASE /\ dstats' = Append(dstats, new)
           /\ Listed(Len(dstats) + 1)
           /\ UNCHANGED dstat_curr
  <2> DEFINE x == Len(dstats) + 1
  <2>1. dstats \in Seq(Dstat) /\ dstats' \in Seq(Dstat)
    BY <1>1 DEF ListInv
  <2>2. x \in Nat /\ x \notin DOMAIN dstats
    BY <2>1
  <2> HIDE DEF new
  <2>3. dstats'[x] = new /\ \A i \in Pending : dstats'[i] = dstats[i]
    BY <1>3, <1>6, <2>1
  <2> HIDE DEF x
  <2>4. Listed(x)
    BY <1>6 DEF x
  <2> QED BY <1>1, <1>2, <1>3, <1>6, <2>2, <2>3, <2>4, ListedCounts
<1> QED BY <1>4, <1>5, <1>6 DEF GetDstat

(* The lists of the thread are what is to be printed yet.                   *)
LEMMA ThreadCounts ==
  ASSUME ListInv, TurnInv, interval \in Nat, Grab \/ Take \/ Convert \/ Recycle
  PROVE  /\ PendingIOs' = PendingIOs /\ Owed' - Owed <= interval' - interval
         /\ UNCHANGED shown
<1>1. /\ dstat_curr \in 0..1 /\ finished \in 0..1 /\ \A i \in 0..1 : dstat_list[i] \in Seq(Nat)
      /\ dstat_list = [i \in 0..1 |-> dstat_list[i]]
      /\ head \in Seq(Nat) /\ ToSet(<<>>) = {}
  BY ListsAreSets DEF ListInv, ToSet
<1>2. Owed \in 0..1 /\ Owed' \in 0..1
  BY DEF Owed
<1>3. Owed' = Owed /\ interval' = interval => Owed' - Owed <= interval' - interval
  BY <1>2
<1>4. CASE Grab
  <2>1. /\ UNCHANGED <<dstats, dstat_list, head, row, shown, gatherer>>
        /\ ipc = "sleep" /\ ipc' = "take" /\ interval' - interval = 1
    BY <1>4 DEF Grab, Goto
  <2>2. Pending' = Pending
    BY <2>1 DEF Pending
  <2> QED BY <1>2, <2>1, <2>2, SamePending
<1>5. CASE Take /\ dstat_list[finished] = <<>>
  <2>1. /\ UNCHANGED <<dstats, dstat_list, dstat_curr, head, row, shown, gatherer, interval>>
        /\ ipc = "take" /\ ipc' = "sleep"
    BY <1>5 DEF Take, Goto
  <2>2. Pending' = Pending
    BY <2>1 DEF Pending
  <2>3. Owed' = Owed
    BY <2>1 DEF Owed, gatherer
  <2> QED BY <2>1, <2>2, <2>3, <1>3, SamePending
<1>6. CASE Take /\ dstat_list[finished] # <<>>
  <2>1. /\ UNCHANGED <<dstats, dstat_curr, shown, gatherer, interval>>
        /\ dstat_list' = [dstat_list EXCEPT ![finished] = <<>>]
        /\ head' = dstat_list[finished] /\ row' = 1
        /\ ipc = "take" /\ ipc' = "print" /\ finished = 1 - dstat_curr
    BY <1>6 DEF Take, Goto, TurnInv
  <2>2. /\ dstat_list'[finished] = <<>> /\ dstat_list'[dstat_curr] = dstat_list[dstat_curr]
        /\ (dstat_curr = 0 /\ finished = 1) \/ (dstat_curr = 1 /\ finished = 0)
    BY <1>1, <2>1
  <2>3. ToSet(dstat_list'[0]) \cup ToSet(dstat_list'[1]) \cup ToSet(head')
          = ToSet(dstat_list[0]) \cup ToSet(dstat_list[1])
    BY <1>1, <2>1, <2>2
  <2>4. {j \in DOMAIN head' : j >= row'} = DOMAIN head'
    BY <1>1, <2>1
  <2>5. Pending' = ToSet(dstat_list'[0]) \cup ToSet(dstat_list'[1]) \cup ToSet(head')
    BY <2>1, <2>4 DEF Pending, ToSet
  <2>6. Pending = ToSet(dstat_list[0]) \cup ToSet(dstat_list[1])
    BY <2>1 DEF Pending
  <2>7. Owed' = Owed
    BY <2>1, <2>2 DEF Owed, gatherer
  <2> QED BY <2>1, <2>3, <2>5, <2>6, <2>7, <1>3, SamePending
<1>7. CASE Convert
  <2>1. /\ UNCHANGED <<dstat_list, dstat_curr, head, shown, gatherer, interval>>
        /\ dstats' = [dstats EXCEPT ![head[row]].be = TRUE]
        /\ row' = row + 1 /\ ipc = "convert" /\ row \in DOMAIN head
        /\ ipc' = IF row = Len(head) THEN "recycle" ELSE "print"
    BY <1>7 DEF Convert, Goto, lists, ListInv
  <2>2. IF row = Len(head) THEN {j \in DOMAIN head : j > row} = {}
        ELSE {j \in DOMAIN head : j > row} = {j \in DOMAIN head' : j >= row'}
    BY <1>1, <2>1
  <2>3. Pending' = Pending
    BY <2>1, <2>2 DEF Pending
  <2>4. ASSUME NEW i \in Pending PROVE Filled(dstats'[i]) = Filled(dstats[i])
    <3>1. i \in DOMAIN dstats /\ dstats[i] \in Dstat
      BY PendingListed DEF ListInv
    <3>2. dstats'[i] = dstats[i] \/ dstats'[i] = [dstats[i] EXCEPT !.be = TRUE]
      BY <2>1, <3>1
    <3> QED BY <3>1, <3>2, FilledSame
  <2>5. Owed' = Owed
    BY <2>1 DEF Owed, gatherer
  <2> QED BY <2>1, <2>3, <2>4, <2>5, <1>3, SamePending
<1>8. CASE Recycle
  <2>1. /\ UNCHANGED <<dstats, dstat_list, dstat_curr, shown, gatherer, interval>>
        /\ ipc = "recycle" /\ ipc' = "sleep"
    BY <1>8 DEF Recycle, Goto
  <2>2. Pending' = Pending
    BY <2>1 DEF Pending
  <2>3. Owed' = Owed
    BY <2>1 DEF Owed, gatherer
  <2> QED BY <2>1, <2>2, <2>3, <1>3, SamePending
<1> QED BY <1>4, <1>5, <1>6, <1>7, <1>8

(* A row is printed of what its dstat holds, which counts no more itself.    *)
LEMMA RowCounts ==
  ASSUME ListInv, ListInv', RowInv, RowInv', CountInv, PrintRow
  PROVE  CountInv'
<1>0. PICK new : new = [interval |-> interval, stat |-> dstats[head[row]]]
  OBVIOUS
<1>1. /\ shown' = shown \cup {new} /\ ipc = "print" /\ ipc' = "convert"
      /\ UNCHANGED <<interval, head, row, dstats, dstat_list, dstat_curr, gatherer>>
      /\ new.interval = interval /\ new.stat = dstats[head[row]]
      /\ row \in DOMAIN head /\ head \in Seq(Nat)
  BY <1>0, ListsAreSets DEF PrintRow, Goto, lists, ListInv
<1>2. head[row] \in Pending /\ Pending' = Pending \ {head[row]}
  <2>1. /\ Shelved(Lists, Names, DOMAIN dstats) /\ Names = {"first", "second", "head", "vacant"}
        /\ Lists["first"] = dstat_list[0] /\ Lists["second"] = dstat_list[1] /\ Lists["head"] = head
    BY DEF ListInv, Lists, Names
  <2>2. /\ head[row] \notin ToSet(dstat_list[0]) \cup ToSet(dstat_list[1])
        /\ \A j \in DOMAIN head : head[j] = head[row] => j = row
    BY <1>1, <2>1 DEF Shelved, Once, ToSet
  <2>3. /\ {j \in DOMAIN head : j >= row} = {j \in DOMAIN head : j > row} \cup {row}
        /\ row \notin {j \in DOMAIN head : j > row}
    BY <1>1
  <2>4. /\ Pending = ToSet(dstat_list[0]) \cup ToSet(dstat_list[1])
                       \cup {head[j] : j \in {k \in DOMAIN head : k >= row}}
        /\ Pending' = ToSet(dstat_list[0]) \cup ToSet(dstat_list[1])
                       \cup {head[j] : j \in {k \in DOMAIN head : k > row}}
    BY <1>1 DEF Pending
  <2> QED BY <2>2, <2>3, <2>4
<1>3. new \notin shown
  <2> SUFFICES ASSUME new \in shown PROVE FALSE
    OBVIOUS
  <2>1. PICK k \in DOMAIN head : k < row /\ Printed(new, k)
    BY <1>1 DEF RowInv
  <2>2. dstats[head[k]].device = dstats[head[row]].device
    BY <1>1, <2>1 DEF Printed
  <2>3. head[k] = head[row]
    BY <1>1, <2>2 DEF ListInv, OneEach, ToSet
  <2>4. Once(Lists, Names) /\ "head" \in Names /\ Lists["head"] = head
    BY DEF ListInv, Shelved, Lists, Names
  <2>5. k = row
    BY <1>1, <2>3, <2>4 DEF Once
  <2> QED BY <1>1, <2>1, <2>5
<1> DEFINE x == head[row]
           R == InRows
           S == InRows'
           D == InDstats
<1>4. /\ PrintedIOs = Mass(shown, R) /\ PendingIOs = Mass(Pending, D)
      /\ PrintedIOs' = Mass(shown \cup {new}, S) /\ PendingIOs' = Mass(Pending \ {x}, D)
  <2>1. InDstats' = InDstats
    BY <1>1 DEF InDstats
  <2>2. PrintedIOs' = Mass(shown', InRows') /\ PendingIOs' = Mass(Pending', InDstats')
    BY IOsAreMassNext
  <2> QED BY <1>1, <1>2, <2>1, <2>2, IOsAreMass
<1>5. S[new] = D[x] /\ \A r \in shown : S[r] = R[r]
  <2>1. x \in DOMAIN dstats
    BY <1>2, PendingListed
  <2> QED BY <1>1, <2>1 DEF InRows, InDstats, Filled
<1> HIDE DEF R, S, D, x
<1>6. IsFiniteSet(PrintedIOs) /\ IsFiniteSet(PendingIOs)
  BY DEF CountInv
<1>7. /\ IsFiniteSet(D[x]) /\ IsFiniteSet(PendingIOs')
      /\ Cardinality(PendingIOs) = Cardinality(PendingIOs') + Cardinality(D[x])
  BY <1>2, <1>4, <1>6, MemberTaken DEF x
<1>8. /\ IsFiniteSet(PrintedIOs')
      /\ Cardinality(PrintedIOs') = Cardinality(PrintedIOs) + Cardinality(D[x])
  <2>1. IsFiniteSet(Mass(shown, R)) /\ IsFiniteSet(S[new])
    BY <1>4, <1>5, <1>6, <1>7
  <2>2. /\ IsFiniteSet(Mass(shown \cup {new}, S))
        /\ Cardinality(Mass(shown \cup {new}, S)) = Cardinality(Mass(shown, R)) + Cardinality(S[new])
    BY <1>3, <1>5, <2>1, MemberAdded
  <2> QED BY <1>4, <1>5, <2>2
<1>9. Found' = Found
  <2>1. /\ Cardinality(D[x]) \in Nat /\ Cardinality(PrintedIOs) \in Nat
        /\ Cardinality(PendingIOs') \in Nat
    BY <1>6, <1>7, FS_CardinalityType
  <2> QED BY <1>7, <1>8, <2>1 DEF Found
<1>10. Owed' = Owed /\ matched' = matched /\ interval' = interval
  BY <1>1 DEF Owed, gatherer
<1> QED BY <1>7, <1>8, <1>9, <1>10 DEF CountInv

(* A pair is accounted: it is found now, or it was owed.                    *)
LEMMA HistCounts ==
  ASSUME PairInv, ListInv, ListInv', RowInv, TurnInv, CountInv, AccountHist
  PROVE  CountInv'
<1>1. /\ gpc = "hist" /\ gpc' = "loop" /\ bit # <<>> /\ bit \notin matched
      /\ matched' = matched \cup {bit} /\ p \in DOMAIN dstats
      /\ dstats' = [dstats EXCEPT ![p] = histlog2_account(@, d2c)]
      /\ UNCHANGED <<lists, thread>>
  BY DEF AccountHist, PairInv, TurnInv, ListInv
<1>2. /\ IsFiniteSet(matched') /\ Cardinality(matched') = Cardinality(matched) + 1
  BY <1>1, FS_AddElement DEF CountInv
<1>3. UNCHANGED <<shown, Pending, interval>> /\ Owed' = 0
  BY <1>1 DEF thread, lists, Pending, Owed
<1>4. PrintedIOs' = PrintedIOs
  BY <1>3 DEF PrintedIOs, Filled
<1>5. d2c \in Nat
  <2>1. bit \in Pairs
    BY <1>1 DEF Pairs
  <2>2. bit[1] \in Came /\ bit[2] \in Came /\ bit[1].time <= bit[2].time
    BY <2>1 DEF PairInv, Good
  <2>3. Came \subseteq Event
    <3> SUFFICES ASSUME NEW c \in Cpus, NEW i \in 1..next[c] PROVE Stream[c][i] \in Event
      BY DEF Came
    <3> QED BY Assumed DEF PairInv
  <2>4. bit[2].time - bit[1].time \in Nat
    BY <2>2, <2>3 DEF Event
  <2>5. Micro \in Nat \ {0}
    BY Assumed
  <2> QED BY <2>4, <2>5 DEF d2c
<1>6. /\ DOMAIN dstats' = DOMAIN dstats /\ dstats[p] \in Dstat
      /\ dstats'[p] = histlog2_account(dstats[p], d2c)
      /\ \A i \in DOMAIN dstats : i # p => dstats'[i] = dstats[i]
  BY <1>1 DEF ListInv
<1>7. PICK u : /\ u \notin Filled(dstats[p])
               /\ Filled(histlog2_account(dstats[p], d2c)) = Filled(dstats[p]) \cup {u}
  BY <1>5, <1>6, FilledByOne
<1>8. /\ Cardinality(PrintedIOs) \in Nat /\ Cardinality(PendingIOs) \in Nat
      /\ Found \in Nat /\ Cardinality(matched) \in Nat /\ Owed \in 0..1
      /\ Found = Cardinality(PrintedIOs) + Cardinality(PendingIOs)
      /\ Found' = Cardinality(PrintedIOs') + Cardinality(PendingIOs')
  BY FoundNumber DEF Found
<1>9. interval \in Nat
  BY DEF RowInv
<1>10. CASE p \in Pending
  <2> DEFINE D == InDstats
             E == InDstats'
             S == Pending
  <2>1. PendingIOs = Mass(S, D) /\ PendingIOs' = Mass(S, E)
    <3>1. PendingIOs' = Mass(Pending', InDstats')
      BY IOsAreMassNext
    <3> QED BY <1>3, <3>1, IOsAreMass
  <2>2. u \notin D[p] /\ E[p] = D[p] \cup {u} /\ \A i \in S : i # p => E[i] = D[i]
    <3>1. S \subseteq DOMAIN dstats
      BY PendingListed
    <3>2. E = [i \in DOMAIN dstats |-> Filled(dstats'[i])]
      BY <1>6 DEF InDstats, Filled
    <3>3. D = [i \in DOMAIN dstats |-> Filled(dstats[i])]
      BY DEF InDstats
    <3> HIDE DEF D, E, S
    <3>4. E[p] = Filled(histlog2_account(dstats[p], d2c)) /\ D[p] = Filled(dstats[p])
      BY <1>1, <1>6, <3>2, <3>3
    <3>5. ASSUME NEW i \in S, i # p PROVE E[i] = D[i]
      BY <1>6, <3>1, <3>2, <3>3, <3>5
    <3> QED BY <1>7, <3>4, <3>5
  <2>3. IsFiniteSet(PendingIOs)
    BY DEF CountInv
  <2> HIDE DEF D, E, S
  <2>4. IsFiniteSet(PendingIOs') /\ Cardinality(PendingIOs') = Cardinality(PendingIOs) + 1
    <3>1. p \in S
      BY <1>10 DEF S
    <3>2. IsFiniteSet(Mass(S, E)) /\ Cardinality(Mass(S, E)) = Cardinality(Mass(S, D)) + 1
      <4>1. IsFiniteSet(Mass(S, D))
        BY <2>1, <2>3
      <4>2. PICK F, G : F = D /\ G = E
        OBVIOUS
      <4>3. /\ p \in S /\ IsFiniteSet(Mass(S, F)) /\ u \notin F[p] /\ G[p] = F[p] \cup {u}
            /\ \A i \in S : i # p => G[i] = F[i]
        BY <2>2, <3>1, <4>1, <4>2
      <4>4. IsFiniteSet(Mass(S, G)) /\ Cardinality(Mass(S, G)) = Cardinality(Mass(S, F)) + 1
        BY <4>3, OneAdded
      <4> QED BY <4>2, <4>4
    <3> QED BY <2>1, <3>2
  <2>5. Found' = Found + 1
    BY <1>4, <1>8, <2>4
  <2> QED BY <1>2, <1>3, <1>4, <1>8, <2>4, <2>5, <1>9 DEF CountInv
<1>11. CASE p \notin Pending
  <2>1. Owed = 1
    BY <1>1, <1>11 DEF Owed, Pending, ListInv
  <2>2. PendingIOs' = PendingIOs
    <3>1. \A i \in Pending : Filled(dstats'[i]) = Filled(dstats[i])
      BY <1>6, <1>11, PendingListed DEF Filled
    <3> QED BY <1>3, <3>1, SamePending
  <2>3. Found' = Found
    BY <1>4, <1>8, <2>2
  <2> QED BY <1>2, <1>3, <1>4, <1>8, <2>1, <2>2, <2>3, <1>9 DEF CountInv
<1> QED BY <1>10, <1>11

LEMMA CountStep ==
  ASSUME PairInv, ListInv, ListInv', RowInv, RowInv', TurnInv, CountInv, [Next]_vars
  PROVE  CountInv'
<1>1. interval \in Nat /\ interval' \in Nat
  BY DEF RowInv
<1>2. ASSUME UNCHANGED <<dstats, lists, thread, matched>>, Owed' = Owed PROVE CountInv'
  <2>1. Pending' = Pending /\ PrintedIOs' = PrintedIOs /\ interval' = interval
    BY <1>2 DEF Pending, PrintedIOs, Filled, lists, thread
  <2>2. PendingIOs' = PendingIOs
    BY <1>2, <2>1, SamePending
  <2> QED BY <1>1, <1>2, <2>1, <2>2, FoundNumber, QuietCount
<1>3. CASE \E c \in Cpus : Read(c)
  <2>1. PICK c \in Cpus : Read(c)
    BY <1>3
  <2>2. gpc = "read" /\ gpc' \in {"loop", "get", "done"} /\ UNCHANGED <<dstats, lists, thread, matched>>
    BY <2>1 DEF Read, blkiomon_do_trace
  <2> QED BY <1>2, <2>2 DEF Owed
<1>4. CASE (\E c \in Cpus : Lose(c)) \/ Signal \/ Ended \/ UNCHANGED vars
  <2>1. UNCHANGED <<dstats, lists, thread, matched, gpc, p>>
    BY <1>4 DEF Lose, Signal, Ended, vars, gatherer
  <2> QED BY <1>2, <2>1 DEF Owed, lists
<1>5. CASE Loop \/ EndFifo
  <2>1. /\ UNCHANGED <<dstats, lists, thread, matched>>
        /\ gpc \in {"loop", "read"} /\ gpc' \in {"read", "done"}
    BY <1>5 DEF Loop, EndFifo
  <2> QED BY <1>2, <2>1 DEF Owed
<1>6. CASE GetDstat
  <2>1. UNCHANGED <<thread, matched>> /\ Owed = 0
    BY <1>6 DEF GetDstat, Owed
  <2>2. PrintedIOs' = PrintedIOs /\ interval' = interval
    BY <2>1 DEF PrintedIOs, Filled, thread
  <2>3. PendingIOs' = PendingIOs /\ Owed' = 0
    BY <1>6, GetCounts
  <2> QED BY <1>1, <2>1, <2>2, <2>3, QuietCount
<1>7. CASE AccountMinmax
  <2>1. /\ UNCHANGED <<lists, thread, matched, p>> /\ gpc = "minmax" /\ gpc' = "hist"
        /\ dstats' = [dstats EXCEPT ![p] = Accounted(@, bit[2].dir, d2c)]
    BY <1>7 DEF AccountMinmax
  <2>2. Owed' = Owed /\ Pending' = Pending /\ PrintedIOs' = PrintedIOs /\ interval' = interval
    BY <2>1 DEF Owed, Pending, PrintedIOs, Filled, lists, thread
  <2>3. ASSUME NEW i \in Pending PROVE Filled(dstats'[i]) = Filled(dstats[i])
    <3>1. i \in DOMAIN dstats /\ dstats[i] \in Dstat
      BY PendingListed DEF ListInv
    <3>2. dstats'[i] = dstats[i] \/ dstats'[i] = Accounted(dstats[i], bit[2].dir, d2c)
      BY <2>1, <3>1
    <3>3. Filled(Accounted(dstats[i], bit[2].dir, d2c)) = Filled(dstats[i])
      BY <3>1, FilledSame
    <3> QED BY <3>2, <3>3
  <2>4. PendingIOs' = PendingIOs
    BY <2>2, <2>3, SamePending
  <2> QED BY <1>1, <2>1, <2>2, <2>4, FoundNumber, QuietCount
<1>8. CASE AccountHist
  BY <1>8, HistCounts
<1>9. CASE Grab \/ Take \/ Convert \/ Recycle
  <2>1. matched' = matched
    BY <1>9 DEF Grab, Take, Convert, Recycle, gatherer
  <2>2. PendingIOs' = PendingIOs /\ Owed' - Owed <= interval' - interval /\ UNCHANGED shown
    BY <1>1, <1>9, ThreadCounts
  <2>3. PrintedIOs' = PrintedIOs
    BY <2>2 DEF PrintedIOs, Filled
  <2> QED BY <1>1, <2>1, <2>2, <2>3, QuietCount
<1>10. CASE PrintRow
  BY <1>10, RowCounts
<1> QED BY <1>3, <1>4, <1>5, <1>6, <1>7, <1>8, <1>9, <1>10 DEF Next

LEMMA CountStart == Init => TurnInv /\ CountInv
<1> SUFFICES ASSUME Init PROVE TurnInv /\ CountInv
  OBVIOUS
<1>1. shown = {} /\ matched = {} /\ bit = <<>> /\ interval = 0 /\ gpc = "loop"
  BY DEF Init
<1>2. Pending = {}
  BY DEF Init, Pending, ToSet
<1>3. PrintedIOs = {} /\ PendingIOs = {}
  BY <1>1, <1>2 DEF PrintedIOs, PendingIOs
<1>4. TurnInv
  BY DEF Init, TurnInv
<1> QED BY <1>1, <1>3, <1>4, FS_EmptySet DEF CountInv, Found, Owed

(* No pair is counted twice, and an interval costs one pair at most: the one *)
(* the gatherer accounts to a dstat that blkiomon_interval took in the       *)
(* meantime.  It holds for any streams, losses, sizes of histograms and any  *)
(* number of intervals.                                                     *)
THEOREM OneMissingEach == Spec => []MissingBounded
<1>1. Init => TurnInv /\ CountInv
  BY CountStart
<1>2. Inv /\ Inv' /\ TurnInv /\ CountInv /\ [Next]_vars => TurnInv' /\ CountInv'
  BY TurnStep, CountStep DEF Inv
<1>3. Inv /\ CountInv => MissingBounded
  <2> SUFFICES ASSUME Inv, CountInv PROVE MissingBounded
    OBVIOUS
  <2>1. Found \in Nat /\ Cardinality(matched) \in Nat /\ Owed \in 0..1
    BY FoundNumber
  <2>2. /\ interval \in Nat /\ Found <= Cardinality(matched)
        /\ Cardinality(matched) - Found + Owed <= interval
    BY DEF CountInv, Inv, RowInv
  <2> QED BY <2>1, <2>2 DEF MissingBounded
<1> QED BY <1>1, <1>2, <1>3, Invariant, PTL DEF Spec
=============================================================================
