----------------------------- MODULE ReadersProofs -----------------------------
(***************************************************************************)
(* Theorems about Readers, for files of any records and for any window,    *)
(* movie and axis.                                                         *)
(***************************************************************************)
EXTENDS Readers, SequenceTheorems, FiniteSetTheorems, WellFoundedInduction, TLAPS

(* A set of numbers has a least one.                                         *)
LEMMA Smallest ==
  ASSUME NEW S \in SUBSET Nat, S # {}
  PROVE  \E m \in S : \A k \in Nat : k < m => k \notin S
<1>1. IsWellFoundedOn(OpToRel(<, Nat), Nat)
  BY NatLessThanWellFounded
<1>2. PICK m \in S : \A y \in Nat : <<y, m>> \in OpToRel(<, Nat) => y \notin S
  BY <1>1, WFMin
<1> QED BY <1>2 DEF OpToRel

LEMMA MinOfTwo ==
  ASSUME NEW a \in Int, NEW b \in Int
  PROVE  Min({a, b}) = IF a <= b THEN a ELSE b
<1>1. PICK m : m = IF a <= b THEN a ELSE b
  OBVIOUS
<1>2. m \in {a, b} /\ \A y \in {a, b} : m <= y
  BY <1>1
<1>3. \A x \in {a, b} : (\A y \in {a, b} : x <= y) => x = m
  BY <1>1
<1> QED BY <1>1, <1>2, <1>3 DEF Min

LEMMA DividedBy ==
  ASSUME NEW k \in Nat \ {0}, NEW a \in Nat
  PROVE  a \div k \in Nat /\ a % k \in 0..k - 1 /\ a = k * (a \div k) + (a % k)
OBVIOUS

(* A number of k's, and a rest: how many.                                    *)
LEMMA QuotientIs ==
  ASSUME NEW a \in Nat, NEW k \in Nat \ {0}, NEW b \in 0..k - 1, NEW c, c = k * a + b
  PROVE  c \div k = a
<1>1. c \in Nat
  BY k * a \in Nat
<1>2. PICK x, y : x = c \div k /\ y = c % k
  OBVIOUS
<1>3. x \in Nat /\ y \in 0..k - 1 /\ c = k * x + y
  BY <1>1, <1>2, DividedBy
<1>4. ASSUME NEW u \in Nat, NEW v \in Nat, u < v PROVE k * u + k <= k * v
  <2>1. PICK w \in Nat : v = u + 1 + w
    <3>1. v - u - 1 \in Nat /\ v = u + 1 + (v - u - 1)
      BY <1>4
    <3> QED BY <3>1
  <2>2. k * (u + 1 + w) = k * u + k + k * w /\ k * w \in Nat /\ k * u \in Nat
    OBVIOUS
  <2> QED BY <2>1, <2>2
<1>5. k * x + y = k * a + b /\ k * x \in Nat /\ k * a \in Nat
  BY <1>3
<1>6. ~(x < a)
  BY <1>3, <1>4, <1>5
<1>7. ~(a < x)
  BY <1>3, <1>4, <1>5
<1> QED BY <1>2, <1>6, <1>7, <1>3
-----------------------------------------------------------------------------
(* The movie.                                                                *)

(* Of q frames the last ends with the frame's column.                        *)
Drawn(q) ==
  /\ frame.col <= Batch * q
  /\ q # 0 => Batch * (q - 1) < frame.col
  /\ frame.col < graph_width => frame.col = Batch * q

(* The list of a trace whose frames are counted from none: it holds what the *)
(* counter says.  The next trace begins with an empty list and the counter  *)
(* of this one.                                                              *)
MovieInv ==
  /\ frame \in [trace : Nat \ {0}, col : 0..graph_width]
  /\ frame.trace = 1 =>
       /\ movie_history = shown
       /\ shown \in Seq([trace : {1}, from : Nat, to : Nat])
       /\ num_histories = Len(shown)
       /\ \E q \in Nat : Drawn(q) /\ num_histories = IF HISTORY <= q THEN HISTORY ELSE q
       /\ \A i \in DOMAIN shown :
            shown[i].to = IF i = Len(shown) THEN frame.col ELSE shown[i + 1].from

(* As many frames as begin before the column.                                *)
LEMMA FrameCount ==
  ASSUME MovieInv, NEW q \in Nat, Drawn(q)
  PROVE  (frame.col + Batch - 1) \div Batch = q
<1>1. Batch \in Nat \ {0} /\ frame.col \in Nat
  BY MovieAssumption DEF MovieInv
<1>2. Batch * q \in Nat /\ (q # 0 => Batch * (q - 1) = Batch * q - Batch)
  BY <1>1
<1>3. q = 0 => Batch * q = 0
  BY <1>1
<1>4. PICK rest : rest = frame.col + Batch - 1 - Batch * q
  OBVIOUS
<1>5. rest \in 0..Batch - 1 /\ frame.col + Batch - 1 = Batch * q + rest
  BY <1>1, <1>2, <1>3, <1>4 DEF Drawn
<1> QED BY <1>1, <1>5, QuotientIs

(* The next frame.                                                           *)
LEMMA FrameDrawn ==
  ASSUME MovieInv, PlotFrame
  PROVE  MovieInv'
<1>1. graph_width \in Nat /\ Batch \in Nat \ {0} /\ HISTORY \in Nat \ {0}
  BY MovieAssumption
<1>2. frame.trace \in Nat \ {0} /\ frame.col \in Nat /\ frame.col < graph_width
  BY <1>1 DEF MovieInv, PlotFrame
<1>3. PICK to : to = Min({graph_width, frame.col + Batch})
  OBVIOUS
<1>4. to = IF graph_width <= frame.col + Batch THEN graph_width ELSE frame.col + Batch
  BY <1>1, <1>2, <1>3, MinOfTwo
<1>5. to \in Nat /\ frame.col < to /\ to <= graph_width
  BY <1>1, <1>2, <1>4
<1>6. PICK more : more = [trace |-> frame.trace, from |-> frame.col, to |-> to]
  OBVIOUS
<1>7. /\ movie_history' = KeepLast(Append(movie_history, more)) /\ shown' = movie_history'
      /\ num_histories' = Min({num_histories + 1, HISTORY})
      /\ frame' = [frame EXCEPT !.col = to]
  BY <1>3, <1>6 DEF PlotFrame
<1>8. /\ frame' \in [trace : Nat \ {0}, col : 0..graph_width]
      /\ frame'.trace = frame.trace /\ frame'.col = to
  BY <1>5, <1>7 DEF MovieInv
<1> SUFFICES ASSUME frame.trace = 1
             PROVE  /\ shown' \in Seq([trace : {1}, from : Nat, to : Nat])
                    /\ num_histories' = Len(shown')
                    /\ \E q \in Nat : Drawn(q)' /\ num_histories' = IF HISTORY <= q THEN HISTORY ELSE q
                    /\ \A i \in DOMAIN shown' :
                         shown'[i].to = IF i = Len(shown') THEN to ELSE shown'[i + 1].from
  BY <1>7, <1>8 DEF MovieInv
<1>9. PICK q \in Nat : Drawn(q) /\ num_histories = IF HISTORY <= q THEN HISTORY ELSE q
  BY DEF MovieInv
<1>10. num_histories \in Nat /\ num_histories <= HISTORY /\ num_histories = Len(shown)
  BY <1>1, <1>9 DEF MovieInv
<1>22. num_histories' = IF num_histories + 1 <= HISTORY THEN num_histories + 1 ELSE HISTORY
  <2>1. num_histories + 1 \in Int /\ HISTORY \in Int
    BY <1>1, <1>10
  <2>2. Min({num_histories + 1, HISTORY})
          = IF num_histories + 1 <= HISTORY THEN num_histories + 1 ELSE HISTORY
    BY <2>1, MinOfTwo
  <2> QED BY <1>7, <2>2
<1>11. num_histories' = IF HISTORY <= q + 1 THEN HISTORY ELSE q + 1
  BY <1>1, <1>9, <1>10, <1>22
<1>12. Drawn(q + 1)'
  <2>1. frame.col = Batch * q
    BY <1>2, <1>9 DEF Drawn
  <2>2. Batch * (q + 1) = Batch * q + Batch /\ q + 1 - 1 = q /\ q + 1 # 0
    BY <1>1
  <2>3. to <= Batch * (q + 1) /\ Batch * q < to /\ (to < graph_width => to = Batch * (q + 1))
    BY <1>1, <1>2, <1>4, <2>1, <2>2
  <2> QED BY <1>8, <2>2, <2>3 DEF Drawn
<1>13. PICK F : F = [trace : {1}, from : Nat, to : Nat]
  OBVIOUS
<1>14. more \in F /\ shown \in Seq(F) /\ movie_history = shown /\ more.from = frame.col /\ more.to = to
  BY <1>2, <1>5, <1>6, <1>13 DEF MovieInv
<1>15. PICK longer : longer = Append(shown, more)
  OBVIOUS
<1>16. /\ longer \in Seq(F) /\ Len(longer) = Len(shown) + 1 /\ longer # <<>>
       /\ \A i \in 1..Len(shown) : longer[i] = shown[i]
       /\ longer[Len(shown) + 1] = more
  BY <1>14, <1>15, AppendProperties
<1>17. \A i \in 1..Len(longer) : longer[i].to = IF i = Len(longer) THEN to ELSE longer[i + 1].from
  <2> SUFFICES ASSUME NEW i \in 1..Len(longer)
               PROVE  longer[i].to = IF i = Len(longer) THEN to ELSE longer[i + 1].from
    OBVIOUS
  <2>1. CASE i = Len(longer)
    BY <1>10, <1>14, <1>16, <2>1
  <2>2. CASE i = Len(shown)
    <3>1. shown[i].to = frame.col
      BY <1>10, <1>16, <2>2 DEF MovieInv
    <3> QED BY <1>10, <1>14, <1>16, <2>2, <3>1
  <2>3. CASE i < Len(shown)
    <3>1. i \in DOMAIN shown /\ i + 1 \in 1..Len(shown) /\ i # Len(shown)
      BY <1>10, <1>14, <2>3
    <3>2. shown[i].to = shown[i + 1].from
      BY <3>1 DEF MovieInv
    <3> QED BY <1>10, <1>16, <2>3, <3>1, <3>2
  <2> QED BY <1>10, <1>16, <2>1, <2>2, <2>3
<1>18. shown' = IF num_histories + 1 > HISTORY THEN Tail(longer) ELSE longer
  BY <1>7, <1>14, <1>15 DEF KeepLast
<1>19. /\ shown' \in Seq(F) /\ num_histories' = Len(shown')
       /\ \A i \in 1..Len(shown') : shown'[i].to = IF i = Len(shown') THEN to ELSE shown'[i + 1].from
  <2>2. CASE num_histories + 1 > HISTORY
    <3>1. /\ shown' = Tail(longer) /\ Tail(longer) \in Seq(F) /\ Len(Tail(longer)) = Len(longer) - 1
          /\ \A i \in 1..Len(Tail(longer)) : Tail(longer)[i] = longer[i + 1]
      BY <1>16, <1>18, <2>2, HeadTailProperties
    <3>2. Len(shown') = Len(shown)
      BY <1>10, <1>16, <3>1
    <3>3. ASSUME NEW i \in 1..Len(shown')
          PROVE  shown'[i].to = IF i = Len(shown') THEN to ELSE shown'[i + 1].from
      <4>1. i + 1 \in 1..Len(longer) /\ (i = Len(shown') <=> i + 1 = Len(longer))
        BY <1>10, <1>16, <3>2
      <4>2. longer[i + 1].to = IF i + 1 = Len(longer) THEN to ELSE longer[i + 1 + 1].from
        BY <1>17, <4>1
      <4>3. i # Len(shown') => i + 1 \in 1..Len(shown')
        BY <1>10, <3>2
      <4> QED BY <3>1, <4>1, <4>2, <4>3
    <3>4. num_histories' = Len(shown')
      BY <1>1, <1>10, <1>22, <2>2, <3>2
    <3>5. shown' \in Seq(F)
      BY <3>1
    <3> QED BY <3>3, <3>4, <3>5
  <2>3. CASE ~(num_histories + 1 > HISTORY)
    BY <1>1, <1>10, <1>16, <1>17, <1>18, <1>22, <2>3
  <2> QED BY <2>2, <2>3
<1>20. DOMAIN shown' = 1..Len(shown')
  BY <1>19
<1>21. q + 1 \in Nat
  OBVIOUS
<1> QED BY <1>11, <1>12, <1>13, <1>19, <1>20, <1>21

LEMMA MovieInvariant == Spec => []MovieInv
<1>1. Init => MovieInv
  <2> SUFFICES ASSUME Init PROVE MovieInv
    OBVIOUS
  <2>1. frame = [trace |-> 1, col |-> 0] /\ movie_history = <<>> /\ num_histories = 0 /\ shown = <<>>
    BY DEF Init, MovieInit
  <2>2. graph_width \in Nat /\ Batch \in Nat \ {0} /\ HISTORY \in Nat \ {0}
    BY MovieAssumption
  <2>3. Drawn(0) /\ num_histories = IF HISTORY <= 0 THEN HISTORY ELSE 0
    BY <2>1, <2>2 DEF Drawn
  <2> QED BY <2>1, <2>2, <2>3 DEF MovieInv
<1>2. MovieInv /\ [Next]_vars => MovieInv'
  <2> SUFFICES ASSUME MovieInv, [Next]_vars PROVE MovieInv'
    OBVIOUS
  <2>1. CASE UNCHANGED movie
    BY <2>1 DEF MovieInv, Drawn, movie
  <2>2. CASE PlotFrame
    BY <2>2, FrameDrawn
  <2>3. CASE NextTrace
    <3>1. frame' = [trace |-> frame.trace + 1, col |-> 0] /\ frame.trace \in Nat \ {0}
      BY <2>3 DEF NextTrace, MovieInv
    <3> QED BY <3>1, MovieAssumption DEF MovieInv
  <2> QED BY <2>1, <2>2, <2>3
        DEF Next, VerifyCpu, VerifyDone, ReadFile, ReadTraces, FindAxis, DivisionByZero,
            Movie, Ended, vars
<1> QED BY <1>1, <1>2, PTL DEF Spec

(* Every frame of the movie of one trace shows the columns it is about and   *)
(* those of the frames before it, as many as are kept, whatever the width,   *)
(* the columns of a frame and the number kept.  With a second trace the      *)
(* counter outlives the list it counts, and it is not so.                    *)
THEOREM FramesFollow == ASSUME Traces = 1 PROVE Spec => []FramesShow
<1>1. ASSUME MovieInv PROVE FramesShow
  <2> SUFFICES ASSUME frame.trace <= Traces
               PROVE  /\ Len(shown) = Min({HISTORY, (frame.col + Batch - 1) \div Batch})
                      /\ \A i \in DOMAIN shown :
                           /\ shown[i].trace = frame.trace
                           /\ shown[i].to = IF i = Len(shown) THEN frame.col ELSE shown[i + 1].from
    BY DEF FramesShow
  <2>1. frame.trace = 1
    BY <1>1 DEF MovieInv
  <2>2. PICK q \in Nat : Drawn(q) /\ num_histories = IF HISTORY <= q THEN HISTORY ELSE q
    BY <1>1, <2>1 DEF MovieInv
  <2>3. (frame.col + Batch - 1) \div Batch = q
    BY <1>1, <2>2, FrameCount
  <2>4. Min({HISTORY, q}) = IF HISTORY <= q THEN HISTORY ELSE q
    <3>1. HISTORY \in Int /\ q \in Int
      BY MovieAssumption
    <3> QED BY <3>1, MinOfTwo
  <2>5. ASSUME NEW i \in DOMAIN shown PROVE shown[i].trace = 1
    <3>1. shown \in Seq([trace : {1}, from : Nat, to : Nat])
      BY <1>1, <2>1 DEF MovieInv
    <3>2. i \in 1..Len(shown)
      BY <3>1
    <3>3. shown[i] \in [trace : {1}, from : Nat, to : Nat]
      BY <3>1, <3>2, ElementOfSeq
    <3> QED BY <3>3
  <2> QED BY <1>1, <2>1, <2>2, <2>3, <2>4, <2>5 DEF MovieInv
<1> QED BY <1>1, MovieInvariant, PTL
-----------------------------------------------------------------------------
(* Functions defined along a list.                                           *)

(* g steps by F from x, for n steps.                                         *)
Steps(F, x, n, g) == g = [k \in 0..n |-> IF k = 0 THEN x ELSE F[<<g[k - 1], k>>]]

(* There is such a function, with values in the set in which F has its own.  *)
LEMMA StepsExist ==
  ASSUME NEW S, NEW x \in S, NEW N \in Nat, NEW F \in [S \X (1..N) -> S]
  PROVE  \E g \in [0..N -> S] : Steps(F, x, N, g)
<1>0. PICK bad : bad = {b \in 0..N : ~\E g \in [0..b -> S] : Steps(F, x, b, g)}
  OBVIOUS
<1>1. N \in 0..N
  OBVIOUS
<1> SUFFICES ASSUME bad # {} PROVE FALSE
  BY <1>0, <1>1
<1>2. PICK m \in bad : \A k \in Nat : k < m => k \notin bad
  <2>1. bad \in SUBSET Nat
    BY <1>0
  <2> QED BY <2>1, Smallest
<1>3. m \in 0..N
  BY <1>0, <1>2
<1>4. CASE m = 0
  <2>1. PICK g : g = [k \in 0..0 |-> x]
    OBVIOUS
  <2>2. g \in [0..0 -> S]
    BY <2>1
  <2>3. \A k \in 0..0 : k = 0
    OBVIOUS
  <2>4. Steps(F, x, 0, g)
    BY <2>1, <2>3 DEF Steps
  <2> QED BY <1>0, <1>2, <1>4, <2>2, <2>4
<1>5. CASE m # 0
  <2>1. PICK n \in Nat : n = m - 1
    BY <1>3, <1>5
  <2>2. n \in 0..N /\ n < m /\ n \notin bad
    BY <1>2, <1>3, <2>1
  <2>3. PICK g \in [0..n -> S] : Steps(F, x, n, g)
    BY <1>0, <2>2
  <2>4. PICK h : h = [k \in 0..m |-> IF k = 0 THEN x ELSE F[<<g[k - 1], k>>]]
    OBVIOUS
  <2>5. ASSUME NEW k \in 0..n PROVE h[k] = g[k]
    <3>1. k \in 0..m
      BY <1>3, <2>1
    <3>2. h[k] = IF k = 0 THEN x ELSE F[<<g[k - 1], k>>]
      BY <2>4, <3>1
    <3>3. g[k] = IF k = 0 THEN x ELSE F[<<g[k - 1], k>>]
      BY <2>3 DEF Steps
    <3> QED BY <3>2, <3>3
  <2>6. \A k \in 0..m : k = 0 \/ k - 1 \in 0..n
    BY <1>3, <2>1
  <2>7. Steps(F, x, m, h)
    <3>1. h = [k \in 0..m |-> IF k = 0 THEN x ELSE F[<<h[k - 1], k>>]]
      <4>1. \A k \in 0..m : (IF k = 0 THEN x ELSE F[<<g[k - 1], k>>]) = (IF k = 0 THEN x ELSE F[<<h[k - 1], k>>])
        BY <2>5, <2>6
      <4> QED BY <2>4, <4>1
    <3> QED BY <3>1 DEF Steps
  <2>8. h \in [0..m -> S]
    <3>1. ASSUME NEW k \in 0..m PROVE (IF k = 0 THEN x ELSE F[<<g[k - 1], k>>]) \in S
      <4>1. CASE k = 0
        BY <4>1
      <4>2. CASE k # 0
        <5>0. k - 1 \in 0..n
          BY <2>6, <4>2
        <5>1. g[k - 1] \in S /\ k \in 1..N
          BY <1>3, <4>2, <5>0
        <5>2. <<g[k - 1], k>> \in S \X (1..N)
          BY <5>1
        <5>3. F[<<g[k - 1], k>>] \in S
          BY <5>2
        <5> QED BY <4>2, <5>3
      <4> QED BY <4>1, <4>2
    <3> QED BY <2>4, <3>1
  <2> QED BY <1>0, <1>2, <2>7, <2>8
<1> QED BY <1>4, <1>5

(* Where the records of a file start.                                        *)
IsFile(f) ==
  /\ Len(f.recs) \in Nat
  /\ f.recs = [i \in 1..Len(f.recs) |-> f.recs[i]]
  /\ \A i \in 1..Len(f.recs) : IsRecord(f.recs[i])
  /\ f.cut \in Nat

LEMMA SizeNat ==
  ASSUME NEW f, IsFile(f), NEW i \in 1..Len(f.recs)
  PROVE  Size(f.recs[i]) \in Nat /\ Size(f.recs[i]) >= HEADER
BY HeaderAssumption DEF IsFile, IsRecord, Size

LEMMA StartNext ==
  ASSUME NEW f, IsFile(f)
  PROVE  /\ Start(f, 1) = 0
         /\ \A i \in 1..Len(f.recs) + 1 : Start(f, i) \in Nat
         /\ \A i \in 1..Len(f.recs) : Start(f, i + 1) = Start(f, i) + Size(f.recs[i])
<1>1. PICK N \in Nat : N = Len(f.recs)
  BY DEF IsFile
<1>2. PICK F : F = [p \in Nat \X (1..N) |-> p[1] + Size(f.recs[p[2]])]
  OBVIOUS
<1>3. F \in [Nat \X (1..N) -> Nat]
  BY <1>1, <1>2, SizeNat
<1>4. PICK g \in [0..N -> Nat] : Steps(F, 0, N, g)
  BY <1>3, StepsExist
<1>5. g = [n \in 0..N |-> IF n = 0 THEN 0 ELSE g[n - 1] + Size(f.recs[n])]
  <2>1. \A n \in 0..N : (IF n = 0 THEN 0 ELSE F[<<g[n - 1], n>>]) = (IF n = 0 THEN 0 ELSE g[n - 1] + Size(f.recs[n]))
    <3> SUFFICES ASSUME NEW n \in 0..N, n # 0 PROVE F[<<g[n - 1], n>>] = g[n - 1] + Size(f.recs[n])
      OBVIOUS
    <3>1. n - 1 \in 0..N /\ n \in 1..N
      OBVIOUS
    <3>2. <<g[n - 1], n>> \in Nat \X (1..N)
      BY <3>1
    <3> QED BY <1>2, <3>2
  <2> QED BY <1>4, <2>1 DEF Steps
<1>6. PICK h : /\ h = CHOOSE s : s = [n \in 0..N |-> IF n = 0 THEN 0 ELSE s[n - 1] + Size(f.recs[n])]
               /\ h = [n \in 0..N |-> IF n = 0 THEN 0 ELSE h[n - 1] + Size(f.recs[n])]
  BY <1>5
<1>7. \A i : Start(f, i) = h[i - 1]
  BY <1>1, <1>6 DEF Start
<1>8. /\ h[0] = 0 /\ g[0] = 0
      /\ \A n \in 1..N : /\ h[n] = h[n - 1] + Size(f.recs[n])
                         /\ g[n] = g[n - 1] + Size(f.recs[n])
  <2>1. 0 \in 0..N /\ \A n \in 1..N : n \in 0..N /\ n # 0
    OBVIOUS
  <2> QED BY <1>5, <1>6, <2>1
<1>9. PICK bad : bad = {n \in 0..N : h[n] # g[n]}
  OBVIOUS
<1>10. bad = {}
  <2> SUFFICES ASSUME bad # {} PROVE FALSE
    OBVIOUS
  <2>1. bad \in SUBSET Nat
    BY <1>9
  <2>2. PICK n \in bad : \A k \in Nat : k < n => k \notin bad
    BY <2>1, Smallest
  <2>3. n \in 1..N /\ n - 1 \in Nat /\ n - 1 < n /\ n - 1 \in 0..N
    BY <1>8, <1>9, <2>2
  <2>4. h[n - 1] = g[n - 1]
    BY <1>9, <2>2, <2>3
  <2> QED BY <1>8, <1>9, <2>2, <2>3, <2>4
<1>11. \A i \in 0..N : h[i] = g[i] /\ g[i] \in Nat
  BY <1>4, <1>9, <1>10
<1>12. ASSUME NEW i \in 1..N + 1 PROVE Start(f, i) \in Nat
  <2>1. i - 1 \in 0..N
    OBVIOUS
  <2> QED BY <1>7, <1>11, <2>1
<1>13. ASSUME NEW i \in 1..N PROVE Start(f, i + 1) = Start(f, i) + Size(f.recs[i])
  <2>1. Start(f, i + 1) = h[i] /\ Start(f, i) = h[i - 1]
    BY <1>7
  <2> QED BY <1>8, <2>1
<1>14. Start(f, 1) = 0
  BY <1>7, <1>8
<1> QED BY <1>1, <1>12, <1>13, <1>14

(* A record starts behind the end of those before it.                        *)
LEMMA StartsUp ==
  ASSUME NEW f, IsFile(f), NEW j \in 1..Len(f.recs) + 1, NEW i \in 1..Len(f.recs) + 1, i < j
  PROVE  /\ Start(f, i) + HEADER <= Start(f, j)
         /\ i + 1 <= j /\ Start(f, i + 1) <= Start(f, j)
<1>1. PICK N \in Nat : N = Len(f.recs)
  BY DEF IsFile
<1>2. HEADER \in Nat /\ HEADER > 0
  BY HeaderAssumption
<1>3. /\ \A k \in 1..N + 1 : Start(f, k) \in Nat
      /\ \A k \in 1..N : Start(f, k) + HEADER <= Start(f, k + 1)
  <2>1. \A k \in 1..N + 1 : Start(f, k) \in Nat
    BY <1>1, StartNext
  <2>2. ASSUME NEW k \in 1..N PROVE Start(f, k) + HEADER <= Start(f, k + 1)
    <3>1. Start(f, k + 1) = Start(f, k) + Size(f.recs[k])
      BY <1>1, StartNext
    <3>2. Size(f.recs[k]) \in Nat /\ Size(f.recs[k]) >= HEADER
      BY <1>1, SizeNat
    <3>3. k \in 1..N + 1
      OBVIOUS
    <3> QED BY <1>2, <2>1, <3>1, <3>2, <3>3
  <2> QED BY <2>1, <2>2
<1>4. PICK bad : bad = {k \in i + 1..N + 1 : ~(Start(f, i + 1) <= Start(f, k))}
  OBVIOUS
<1>5. bad = {}
  <2> SUFFICES ASSUME bad # {} PROVE FALSE
    OBVIOUS
  <2>1. bad \in SUBSET Nat
    BY <1>1, <1>4
  <2>2. PICK n \in bad : \A k \in Nat : k < n => k \notin bad
    BY <2>1, Smallest
  <2>3. i + 1 \in 1..N + 1 /\ n \in i + 1..N + 1
    BY <1>1, <1>4, <2>2
  <2>4. n # i + 1
    BY <1>3, <1>4, <2>2, <2>3
  <2>5. n - 1 \in i + 1..N + 1 /\ n - 1 \in Nat /\ n - 1 < n /\ n - 1 \in 1..N
    BY <1>1, <2>3, <2>4
  <2>6. Start(f, i + 1) <= Start(f, n - 1)
    BY <1>4, <2>2, <2>5
  <2>7. Start(f, n - 1) + HEADER <= Start(f, n)
    <3>1. Start(f, n - 1) + HEADER <= Start(f, n - 1 + 1) /\ n - 1 + 1 = n
      BY <1>3, <2>3, <2>5
    <3> QED BY <3>1
  <2>8. /\ Start(f, i + 1) \in Nat /\ Start(f, n - 1) \in Nat /\ Start(f, n) \in Nat
    BY <1>1, <1>3, <2>3, <2>5
  <2> QED BY <1>2, <1>4, <2>2, <2>6, <2>7, <2>8
<1>6. j \in i + 1..N + 1 /\ i \in 1..N /\ i + 1 \in 1..N + 1
  BY <1>1
<1>7. Start(f, i + 1) <= Start(f, j)
  BY <1>4, <1>5, <1>6
<1>8. Start(f, i) + HEADER <= Start(f, i + 1)
  BY <1>3, <1>6
<1> QED BY <1>1, <1>2, <1>3, <1>6, <1>7, <1>8

(* A file without its end still has whatever starts before what it has.      *)
LEMMA WholeBefore ==
  ASSUME NEW f, IsFile(f), NEW j \in 1..Len(f.recs), NEW i \in 1..j
  PROVE  /\ Whole(f, j) => Whole(f, i)
         /\ HeaderThere(f, j) => HeaderThere(f, i)
         /\ i < j /\ HeaderThere(f, j) => Whole(f, i)
         /\ Whole(f, i) => HeaderThere(f, i)
<1>1. PICK N \in Nat : N = Len(f.recs)
  BY DEF IsFile
<1>2. /\ j \in 1..N + 1 /\ i \in 1..N + 1 /\ j + 1 \in 1..N + 1 /\ i + 1 \in 1..N + 1
      /\ N + 1 \in 1..N + 1
  BY <1>1
<1>3. /\ Start(f, j) \in Nat /\ Start(f, i) \in Nat /\ Start(f, j + 1) \in Nat
      /\ Start(f, i + 1) \in Nat /\ Start(f, N + 1) \in Nat
  BY <1>1, <1>2, StartNext
<1>4. Total(f) \in Int
  BY <1>1, <1>3 DEF Total, IsFile
<1>5. i < j => /\ Start(f, i) + HEADER <= Start(f, j)
               /\ Start(f, i + 1) <= Start(f, j)
  BY <1>1, <1>2, StartsUp
<1>6. Start(f, i) + HEADER <= Start(f, i + 1) /\ Start(f, j) <= Start(f, j + 1)
  <2>1. i < i + 1 /\ j < j + 1
    BY <1>1
  <2>2. Start(f, i) + HEADER <= Start(f, i + 1) /\ Start(f, j) + HEADER <= Start(f, j + 1)
    BY <1>1, <1>2, <2>1, StartsUp
  <2> QED BY <1>3, <2>2, HeaderAssumption
<1>7. HEADER \in Nat
  BY HeaderAssumption
<1>8. i = j \/ i < j
  BY <1>1
<1> QED BY <1>3, <1>4, <1>5, <1>6, <1>7, <1>8 DEF Whole, HeaderThere
-----------------------------------------------------------------------------
(* btt and its window.                                                       *)

(* The records of the file fit in the margin, and what is cut off the file   *)
(* was in it.                                                                *)
InMargin(f) ==
  /\ IsFile(f)
  /\ \A i \in 1..Len(f.recs) : Size(f.recs[i]) <= MARGIN
  /\ f.cut <= Start(f, Len(f.recs) + 1)

(* btt has read the records up to k, and then, if it reads on behind a       *)
(* record that is cut, only what is none.                                    *)
ReadTo(f, k) ==
  /\ k <= Len(got) /\ k <= Len(f.recs)
  /\ \A i \in 1..k : got[i] = i /\ Whole(f, i)
  /\ \A i \in k + 1..Len(got) : got[i] = 0
  /\ Len(got) = k => cur = Start(f, k + 1)
  /\ Len(got) > k => k < Len(f.recs) /\ ~Whole(f, k + 1) /\ cur > Start(f, k + 1)

BttInv(f) ==
  /\ got \in Seq(Nat) /\ cur \in Nat /\ cur_min \in Nat /\ cur_max \in Nat
  /\ \E k \in Nat : /\ ReadTo(f, k)
                    /\ bpc \in {"done", "dead"} => k = Len(f.recs) \/ ~Whole(f, k + 1)
  /\ f.cut = 0 => cur_max <= Total(f) /\ bpc # "dead"

LEMMA Pages ==
  ASSUME NEW n \in Nat
  PROVE  /\ Down(n) \in Nat /\ Down(n) <= n /\ n < Down(n) + PAGE
         /\ Up(n) \in Nat /\ n <= Up(n)
<1>1. PAGE \in Nat \ {0}
  BY WindowAssumption
<1>2. \A m \in Nat : m % PAGE \in 0..PAGE - 1 /\ m = PAGE * (m \div PAGE) + (m % PAGE) /\ m \div PAGE \in Nat
  BY <1>1, DividedBy
<1>3. \A m \in Nat : Down(m) \in Nat /\ Down(m) <= m /\ m < Down(m) + PAGE
  <2> SUFFICES ASSUME NEW m \in Nat PROVE Down(m) \in Nat /\ Down(m) <= m /\ m < Down(m) + PAGE
    OBVIOUS
  <2>1. PICK r : r = m % PAGE
    OBVIOUS
  <2>2. PAGE * (m \div PAGE) \in Nat
    BY <1>1, <1>2
  <2>3. r \in 0..PAGE - 1 /\ m - r \in Nat
    BY <1>2, <2>1, <2>2
  <2> QED BY <1>1, <2>1, <2>3 DEF Down
<1>4. n + PAGE - 1 \in Nat
  BY <1>1
<1> QED BY <1>1, <1>3, <1>4 DEF Up

(* The window that is mapped anew holds a margin or all that is left.        *)
LEMMA MapLenIs ==
  ASSUME NEW f, Total(f) \in Nat, cur \in Nat
  PROVE  /\ MapLen(f) = IF Down(cur) > Total(f) \/ DEF_LEN <= Total(f) - Down(cur)
                         THEN DEF_LEN ELSE Total(f) - Down(cur)
         /\ MapLen(f) \in Nat
         /\ cur + MARGIN <= Down(cur) + DEF_LEN
         /\ Down(cur) <= Total(f) => Down(cur) + MapLen(f) <= Total(f)
<1>1. /\ DEF_LEN \in Nat /\ PAGE \in Nat /\ MARGIN \in Nat /\ MARGIN + PAGE <= DEF_LEN
  BY WindowAssumption
<1>2. Down(cur) \in Nat /\ cur < Down(cur) + PAGE
  BY Pages
<1>3. Total(f) - Down(cur) \in Int /\ DEF_LEN \in Int
  BY <1>1, <1>2
<1>4. Min({DEF_LEN, Total(f) - Down(cur)})
        = IF DEF_LEN <= Total(f) - Down(cur) THEN DEF_LEN ELSE Total(f) - Down(cur)
  BY <1>3, MinOfTwo
<1>5. MapLen(f) = IF Down(cur) > Total(f) \/ DEF_LEN <= Total(f) - Down(cur)
                  THEN DEF_LEN ELSE Total(f) - Down(cur)
  BY <1>4 DEF MapLen
<1> QED BY <1>1, <1>2, <1>5

(* The record that starts at cur, if one does.                               *)
LEMMA AtIs ==
  ASSUME NEW f, IsFile(f), cur \in Nat
  PROVE  /\ At(f) \in 0..Len(f.recs)
         /\ At(f) # 0 => Start(f, At(f)) = cur
         /\ \A i \in 1..Len(f.recs) : Start(f, i) = cur => At(f) = i
<1>1. PICK N \in Nat : N = Len(f.recs)
  BY DEF IsFile
<1>2. PICK starts : starts = [i \in DOMAIN f.recs |-> Start(f, i)]
  OBVIOUS
<1>3. starts \in [1..N -> Nat]
  <2>1. \A i \in 1..N : Start(f, i) \in Nat
    <3>1. \A i \in 1..N : i \in 1..N + 1
      OBVIOUS
    <3> QED BY <1>1, <3>1, StartNext
  <2> QED BY <1>1, <1>2, <2>1 DEF IsFile
<1>4. starts \in Seq(Nat) /\ Len(starts) = N
  BY <1>3, IsASeq
<1>5. PICK here : here = {i \in 1..N : starts[i] = cur}
  OBVIOUS
<1>6. At(f) = IF here # {} THEN Min(here) ELSE 0
  BY <1>2, <1>4, <1>5 DEF At, SelectInSeq
<1>7. \A i \in 1..N : starts[i] = Start(f, i)
  BY <1>1, <1>2 DEF IsFile
<1>8. CASE here = {}
  BY <1>1, <1>5, <1>6, <1>7, <1>8
<1>9. CASE here # {}
  <2>1. here \in SUBSET Nat
    BY <1>5
  <2>2. PICK m \in here : \A k \in Nat : k < m => k \notin here
    BY <1>9, <2>1, Smallest
  <2>3. \A y \in here : m <= y
    BY <2>1, <2>2
  <2>4. Min(here) \in here
    BY <2>2, <2>3 DEF Min
  <2>5. PICK a : a = At(f) /\ a \in here
    BY <1>6, <1>9, <2>4
  <2>6. a \in 1..N /\ Start(f, a) = cur
    BY <1>5, <1>7, <2>5
  <2>7. ASSUME NEW i \in 1..N, Start(f, i) = cur PROVE a = i
    <3>1. i \in 1..N + 1 /\ a \in 1..N + 1
      BY <2>6
    <3>2. i < a => Start(f, i) + HEADER <= Start(f, a)
      BY <1>1, <3>1, StartsUp
    <3>3. a < i => Start(f, a) + HEADER <= Start(f, i)
      BY <1>1, <3>1, StartsUp
    <3> QED BY <2>6, <2>7, <3>1, <3>2, <3>3, HeaderAssumption
  <2> QED BY <1>1, <2>5, <2>6, <2>7
<1> QED BY <1>8, <1>9

(* All of a file from which nothing is cut off is there.                     *)
LEMMA AllThere ==
  ASSUME NEW f, IsFile(f)
  PROVE  /\ f.cut = 0 => /\ Total(f) = Start(f, Len(f.recs) + 1)
                         /\ \A i \in 1..Len(f.recs) : Whole(f, i)
         /\ f.cut > 0 /\ Len(f.recs) > 0 => ~Whole(f, Len(f.recs))
<1>1. PICK N \in Nat : N = Len(f.recs)
  BY DEF IsFile
<1>2. Start(f, N + 1) \in Nat /\ f.cut \in Nat /\ Total(f) = Start(f, N + 1) - f.cut
  <2>1. N + 1 \in 1..N + 1
    OBVIOUS
  <2> QED BY <1>1, <2>1, StartNext DEF Total, IsFile
<1>3. ASSUME f.cut = 0, NEW i \in 1..N PROVE Whole(f, i)
  <2>1. N \in 1..N /\ i \in 1..N
    OBVIOUS
  <2>2. Whole(f, N)
    BY <1>2, <1>3 DEF Whole
  <2> QED BY <1>1, <2>1, <2>2, WholeBefore
<1>4. ASSUME f.cut > 0 PROVE ~Whole(f, N)
  BY <1>2, <1>4 DEF Whole
<1> QED BY <1>1, <1>2, <1>3, <1>4

(* One record, or what is none, is taken from a window that ends at max.     *)
LEMMA TakenRead ==
  ASSUME NEW f, InMargin(f), BttInv(f), bpc = "reading", NEW max \in Nat, Take(f, max),
         cur < max, cur + MARGIN <= max \/ Total(f) <= max,
         f.cut = 0 => max <= Total(f)
  PROVE  /\ got' \in Seq(Nat) /\ cur' \in Nat
         /\ \E k \in Nat : /\ ReadTo(f, k)'
                           /\ bpc' \in {"done", "dead"} => k = Len(f.recs) \/ ~Whole(f, k + 1)
         /\ f.cut = 0 => bpc' # "dead"
<1>1. PICK N \in Nat : N = Len(f.recs)
  BY DEF InMargin, IsFile
<1>2. IsFile(f) /\ got \in Seq(Nat) /\ cur \in Nat /\ MARGIN \in Nat /\ HEADER \in Nat /\ HEADER > 0
  BY HeaderAssumption, WindowAssumption DEF InMargin, BttInv
<1>3. PICK k \in Nat : ReadTo(f, k)
  <2>1. PICK k \in Nat : ReadTo(f, k) /\ (bpc \in {"done", "dead"} => k = Len(f.recs) \/ ~Whole(f, k + 1))
    BY DEF BttInv
  <2> QED BY <2>1
<1>4. PICK len \in Nat : Len(got) = len /\ DOMAIN got = 1..len
  BY <1>2
<1>5. k <= len /\ k <= N
  BY <1>1, <1>3, <1>4 DEF ReadTo
<1>6. PICK i \in 0..N : i = At(f)
  BY <1>1, <1>2, AtIs
<1>7. PICK length : length = IF i # 0 /\ HeaderThere(f, i) THEN Size(f.recs[i]) ELSE HEADER
  OBVIOUS
<1>8. length \in Nat /\ length >= HEADER
  BY <1>1, <1>2, <1>6, <1>7, SizeNat
<1>9. PICK new : new = IF i # 0 /\ Whole(f, i) THEN i ELSE 0
  OBVIOUS
<1>10. \/ bpc' = "dead" /\ UNCHANGED <<cur, got>> /\ cur + length > Min({Up(max), Up(Total(f))})
       \/ cur' = cur + length /\ got' = Append(got, new) /\ bpc' = bpc
  BY <1>6, <1>7, <1>9 DEF Take
<1>11. \A j \in 1..N + 1 : Start(f, j) \in Nat
  BY <1>1, <1>2, StartNext
<1>12. Total(f) \in Nat
  <2>1. N + 1 \in 1..N + 1
    OBVIOUS
  <2>2. f.cut \in Nat /\ f.cut <= Start(f, N + 1)
    BY <1>1, <1>2 DEF InMargin, IsFile
  <2> QED BY <1>1, <1>11, <2>1, <2>2 DEF Total
<1>13. len = k => k < N
  <2> SUFFICES ASSUME len = k, k = N PROVE FALSE
    BY <1>5
  <2>1. cur = Start(f, N + 1)
    BY <1>3, <1>4 DEF ReadTo
  <2>2. CASE f.cut = 0
    BY <1>1, <1>2, <1>12, <2>1, <2>2, AllThere
  <2>3. CASE f.cut # 0
    <3>1. f.cut \in Nat /\ f.cut <= Start(f, N + 1)
      BY <1>1, <1>2 DEF InMargin, IsFile
    <3>2. N # 0
      BY <1>2, <2>3, <3>1, StartNext
    <3>3. N \in 1..k
      BY <3>2
    <3>4. Whole(f, N)
      BY <1>3, <3>3 DEF ReadTo
    <3> QED BY <1>1, <1>2, <2>3, <3>1, <3>2, <3>4, AllThere
  <2> QED BY <2>2, <2>3
<1>14. k < N
  BY <1>1, <1>3, <1>4, <1>5, <1>13 DEF ReadTo
<1>15. k + 1 \in 1..N /\ k + 1 \in 1..N + 1
  BY <1>14
<1>16. len = k => i = k + 1
  <2>1. len = k => cur = Start(f, k + 1)
    BY <1>3, <1>4 DEF ReadTo
  <2> QED BY <1>1, <1>2, <1>6, <1>15, <2>1, AtIs
<1>17. CASE len = k /\ Whole(f, k + 1)
  <2>1. HeaderThere(f, k + 1)
    BY <1>1, <1>2, <1>15, <1>17, WholeBefore
  <2>2. length = Size(f.recs[k + 1]) /\ new = k + 1
    BY <1>7, <1>9, <1>15, <1>16, <1>17, <2>1
  <2>3. cur = Start(f, k + 1) /\ Start(f, k + 1 + 1) = cur + length /\ length <= MARGIN
    BY <1>1, <1>2, <1>3, <1>4, <1>15, <1>17, <2>2, StartNext DEF ReadTo, InMargin
  <2>4. cur + length <= Total(f)
    BY <1>17, <2>3 DEF Whole
  <2>5. cur + length <= max
    BY <1>2, <1>8, <1>12, <2>3, <2>4
  <2>6. max <= Up(max) /\ Total(f) <= Up(Total(f)) /\ Up(max) \in Nat /\ Up(Total(f)) \in Nat
    BY <1>12, Pages
  <2>7. ~(cur + length > Min({Up(max), Up(Total(f))}))
    <3>1. PICK u, v : u = Up(max) /\ v = Up(Total(f)) /\ u \in Int /\ v \in Int
      BY <2>6
    <3>2. Min({u, v}) = IF u <= v THEN u ELSE v
      BY <3>1, MinOfTwo
    <3> QED BY <1>2, <1>8, <1>12, <2>4, <2>5, <2>6, <3>1, <3>2
  <2>8. cur' = cur + length /\ got' = Append(got, k + 1) /\ bpc' = "reading"
    BY <1>10, <2>2, <2>7
  <2>9. /\ got' \in Seq(Nat) /\ Len(got') = k + 1 /\ got'[k + 1] = k + 1
        /\ \A j \in 1..k : got'[j] = got[j]
    <3>1. k + 1 \in Nat
      OBVIOUS
    <3> QED BY <1>2, <1>4, <1>17, <2>8, <3>1, AppendProperties
  <2>10. ReadTo(f, k + 1)'
    <3>1. \A j \in 1..k + 1 : got'[j] = j /\ Whole(f, j)
      <4>1. \A j \in 1..k : got[j] = j /\ Whole(f, j)
        BY <1>3 DEF ReadTo
      <4>2. \A j \in 1..k + 1 : j = k + 1 \/ j \in 1..k
        OBVIOUS
      <4> QED BY <1>17, <2>9, <4>1, <4>2
    <3>2. \A j \in k + 1 + 1..Len(got') : FALSE
      BY <2>9
    <3> QED BY <1>1, <1>14, <2>3, <2>8, <2>9, <3>1, <3>2 DEF ReadTo
  <2> QED BY <1>2, <1>8, <2>8, <2>9, <2>10
<1>18. CASE ~(len = k /\ Whole(f, k + 1))
  <2>1. ~Whole(f, k + 1) /\ cur >= Start(f, k + 1)
    <3>1. len > k => ~Whole(f, k + 1) /\ cur > Start(f, k + 1)
      BY <1>3, <1>4 DEF ReadTo
    <3>2. len = k => cur = Start(f, k + 1)
      BY <1>3, <1>4 DEF ReadTo
    <3> QED BY <1>2, <1>5, <1>11, <1>15, <1>18, <3>1, <3>2
  <2>2. f.cut # 0
    BY <1>1, <1>2, <1>15, <2>1, AllThere
  <2>3. new = 0
    <3> SUFFICES ASSUME i # 0, Whole(f, i) PROVE FALSE
      BY <1>9
    <3>1. i \in 1..N /\ i \in 1..N + 1
      BY <1>6
    <3>2. Start(f, i) = cur
      BY <1>1, <1>2, <1>6, AtIs
    <3>3. CASE i < k + 1
      <4>1. Start(f, i) + HEADER <= Start(f, k + 1)
        BY <1>1, <1>2, <1>15, <3>1, <3>3, StartsUp
      <4> QED BY <1>2, <1>11, <1>15, <2>1, <3>2, <4>1
    <3>4. CASE i >= k + 1
      <4>1. k + 1 \in 1..i
        BY <1>15, <3>1, <3>4
      <4> QED BY <1>1, <1>2, <2>1, <3>1, <4>1, WholeBefore
    <3> QED BY <3>1, <3>3, <3>4
  <2>4. CASE bpc' = "dead" /\ UNCHANGED <<cur, got>>
    <3>1. ReadTo(f, k)'
      BY <1>3, <2>4 DEF ReadTo
    <3> QED BY <1>2, <2>1, <2>2, <2>4, <3>1
  <2>5. CASE cur' = cur + length /\ got' = Append(got, new) /\ bpc' = bpc
    <3>1. /\ got' \in Seq(Nat) /\ Len(got') = len + 1 /\ got'[len + 1] = 0
          /\ \A j \in 1..len : got'[j] = got[j]
      <4>1. 0 \in Nat
        OBVIOUS
      <4> QED BY <1>2, <1>4, <2>3, <2>5, <4>1, AppendProperties
    <3>2. cur' \in Nat /\ cur' > Start(f, k + 1)
      BY <1>2, <1>8, <1>11, <1>15, <2>1, <2>5
    <3>3. \A j \in 1..k : got'[j] = j /\ Whole(f, j)
      <4>1. \A j \in 1..k : j \in 1..len
        BY <1>5
      <4> QED BY <1>3, <3>1, <4>1 DEF ReadTo
    <3>4. \A j \in k + 1..len + 1 : got'[j] = 0
      <4>1. \A j \in k + 1..len + 1 : j = len + 1 \/ (j \in k + 1..len /\ j \in 1..len)
        OBVIOUS
      <4>2. \A j \in k + 1..len : got[j] = 0
        BY <1>3, <1>4 DEF ReadTo
      <4> QED BY <3>1, <4>1, <4>2
    <3>5. ReadTo(f, k)'
      BY <1>1, <1>5, <1>14, <2>1, <3>1, <3>2, <3>3, <3>4 DEF ReadTo
    <3> QED BY <2>2, <2>5, <3>1, <3>2, <3>5
  <2> QED BY <1>10, <2>4, <2>5
<1> QED BY <1>17, <1>18

(* The parts of the file are numbers.                                        *)
LEMMA FileEnds ==
  ASSUME NEW f, InMargin(f)
  PROVE  /\ IsFile(f) /\ Len(f.recs) \in Nat /\ Total(f) \in Nat
         /\ \A i \in 1..Len(f.recs) + 1 : Start(f, i) \in Nat
         /\ \A i \in 0..Len(f.recs) : Start(f, i + 1) <= Start(f, Len(f.recs) + 1)
<1>1. IsFile(f)
  BY DEF InMargin
<1>2. PICK N \in Nat : N = Len(f.recs)
  BY <1>1 DEF IsFile
<1>3. \A i \in 1..N + 1 : Start(f, i) \in Nat
  BY <1>1, <1>2, StartNext
<1>4. N + 1 \in 1..N + 1
  OBVIOUS
<1>5. Total(f) \in Nat
  BY <1>1, <1>2, <1>3, <1>4 DEF Total, InMargin, IsFile
<1>6. ASSUME NEW i \in 0..N PROVE Start(f, i + 1) <= Start(f, N + 1)
  <2>1. CASE i = N
    BY <1>3, <1>4, <2>1
  <2>2. CASE i < N
    <3>1. i + 1 \in 1..N + 1 /\ i + 1 < N + 1
      BY <2>2
    <3>2. Start(f, i + 1) + HEADER <= Start(f, N + 1)
      BY <1>1, <1>2, <1>4, <3>1, StartsUp
    <3> QED BY <1>3, <1>4, <3>1, <3>2, HeaderAssumption
  <2> QED BY <2>1, <2>2
<1> QED BY <1>1, <1>2, <1>3, <1>5, <1>6

(* A record before the end fits in the window that begins on its page.       *)
LEMMA FullWindow ==
  ASSUME NEW c \in Nat, NEW size \in Nat, NEW header \in Nat, NEW margin \in Nat,
         NEW long \in Nat, NEW down \in Nat, NEW end \in Nat, NEW len,
         0 < header, header <= size, size <= margin, c + size <= end, down <= c,
         c + margin <= down + long, margin <= long,
         len = long \/ (down <= end /\ len = end - down)
  PROVE  ~(len < header) /\ ~(c >= down + len)
<1>1. CASE len = long
  <2>1. long >= header
    OBVIOUS
  <2>2. c < down + long
    OBVIOUS
  <2> QED BY <1>1, <2>1, <2>2
<1>2. CASE down <= end /\ len = end - down
  BY <1>2
<1> QED BY <1>1, <1>2

(* When the window is not mapped anew, no whole record is left.              *)
LEMMA NoneLeft ==
  ASSUME NEW f, InMargin(f), cur \in Nat, NEW k \in Nat, ReadTo(f, k), ~Moves(f)
  PROVE  k = Len(f.recs) \/ ~Whole(f, k + 1)
<1> SUFFICES ASSUME k # Len(f.recs), Whole(f, k + 1) PROVE FALSE
  OBVIOUS
<1>1. PICK N \in Nat : N = Len(f.recs) /\ IsFile(f) /\ Total(f) \in Nat
  BY FileEnds
<1>2. k < N /\ Len(got) = k /\ cur = Start(f, k + 1)
  <2>1. k <= Len(got) /\ k <= N /\ (Len(got) > k => ~Whole(f, k + 1)) /\ Len(got) \in Nat
    <3>1. Len(got) = k \/ Len(got) \in Nat
      OBVIOUS
    <3> QED BY <1>1, <3>1 DEF ReadTo
  <2> QED BY <1>1, <2>1 DEF ReadTo
<1>3. k + 1 \in 1..N
  BY <1>2
<1>4. PICK size \in Nat : size = Size(f.recs[k + 1]) /\ size >= HEADER /\ size <= MARGIN
  BY <1>1, <1>3, SizeNat DEF InMargin
<1>5. cur + size <= Total(f)
  BY <1>1, <1>2, <1>3, <1>4, StartNext DEF Whole
<1>6. HEADER \in Nat /\ HEADER > 0 /\ MARGIN \in Nat /\ DEF_LEN \in Nat /\ PAGE \in Nat /\ MARGIN + PAGE <= DEF_LEN
  BY HeaderAssumption, WindowAssumption
<1>7. Down(cur) \in Nat /\ Down(cur) <= cur
  BY Pages
<1>8. /\ MapLen(f) = IF Down(cur) > Total(f) \/ DEF_LEN <= Total(f) - Down(cur)
                     THEN DEF_LEN ELSE Total(f) - Down(cur)
      /\ cur + MARGIN <= Down(cur) + DEF_LEN
  BY <1>1, MapLenIs
<1>9. MapLen(f) < HEADER \/ cur >= Down(cur) + MapLen(f)
  <2>1. MapLen(f) \in Int /\ Down(cur) + MapLen(f) \in Int
    BY <1>1, <1>6, <1>7, <1>8
  <2>2. ~(MapLen(f) >= HEADER /\ cur < Down(cur) + MapLen(f))
    BY DEF Moves
  <2> QED BY <1>6, <2>1, <2>2
<1>10. MapLen(f) = DEF_LEN \/ (Down(cur) <= Total(f) /\ MapLen(f) = Total(f) - Down(cur))
  BY <1>1, <1>6, <1>7, <1>8
<1>11. cur + MARGIN <= Down(cur) + DEF_LEN
  BY <1>8
<1> QED BY <1>1, <1>4, <1>5, <1>6, <1>7, <1>9, <1>10, <1>11, FullWindow

(* The file is opened.                                                       *)
LEMMA SetupRead ==
  ASSUME NEW f, InMargin(f), BttInv(f), setup_ifile(f), bpc = "setup" => cur = 0
  PROVE  BttInv(f)'
<1>1. IsFile(f) /\ Total(f) \in Nat /\ Len(f.recs) \in Nat
  BY FileEnds
<1>2. /\ got' = got /\ cur' = cur /\ cur = 0 /\ got \in Seq(Nat) /\ cur \in Nat
      /\ cur_min \in Nat /\ cur_max \in Nat
  BY DEF setup_ifile, BttInv
<1>3. PICK k \in Nat : ReadTo(f, k)
  BY DEF BttInv
<1>4. ReadTo(f, k)'
  BY <1>2, <1>3 DEF ReadTo
<1>5. Down(cur) \in Nat /\ Down(cur) <= Total(f)
  BY <1>1, <1>2, Pages
<1>6. MapLen(f) \in Nat /\ Down(cur) + MapLen(f) <= Total(f)
  BY <1>1, <1>2, <1>5, MapLenIs
<1>7. CASE Moves(f)
  <2>1. cur_min' = Down(cur) /\ cur_max' = Down(cur) + MapLen(f) /\ bpc' = "reading"
    BY <1>7 DEF setup_ifile, move_map
  <2>2. cur_min' \in Nat /\ cur_max' \in Nat /\ cur_max' <= Total(f)
    BY <1>5, <1>6, <2>1
  <2> QED BY <1>2, <1>4, <2>1, <2>2 DEF BttInv
<1>8. CASE ~Moves(f)
  <2>1. cur_min' = cur_min /\ cur_max' = cur_max /\ bpc' = "done"
    BY <1>8 DEF setup_ifile
  <2>2. k = Len(f.recs) \/ ~Whole(f, k + 1)
    BY <1>2, <1>3, <1>8, NoneLeft
  <2>3. f.cut = 0 => cur_max <= Total(f)
    BY DEF BttInv
  <2> QED BY <1>2, <1>3, <1>4, <2>1, <2>2, <2>3 DEF BttInv
<1> QED BY <1>7, <1>8

(* The next trace is read.                                                   *)
LEMMA NextRead ==
  ASSUME NEW f, InMargin(f), BttInv(f), next_trace(f)
  PROVE  BttInv(f)'
<1>1. IsFile(f) /\ Total(f) \in Nat /\ Len(f.recs) \in Nat
  BY FileEnds
<1>2. /\ got \in Seq(Nat) /\ cur \in Nat /\ cur_min \in Nat /\ cur_max \in Nat
      /\ bpc = "reading"
      /\ f.cut = 0 => cur_max <= Total(f)
  BY DEF next_trace, BttInv
<1>3. PICK k \in Nat : ReadTo(f, k)
  BY DEF BttInv
<1>4. MARGIN \in Nat /\ MARGIN > 0
  BY WindowAssumption
<1>5. CASE InWindow /\ Take(f, cur_max) /\ UNCHANGED <<cur_min, cur_max>>
  <2>1. cur < cur_max /\ cur + MARGIN <= cur_max
    BY <1>2, <1>4, <1>5 DEF InWindow
  <2>2. /\ got' \in Seq(Nat) /\ cur' \in Nat
        /\ \E l \in Nat : /\ ReadTo(f, l)'
                          /\ bpc' \in {"done", "dead"} => l = Len(f.recs) \/ ~Whole(f, l + 1)
        /\ f.cut = 0 => bpc' # "dead"
    BY <1>2, <1>5, <2>1, TakenRead
  <2> QED BY <1>2, <1>5, <2>2 DEF BttInv
<1>6. CASE ~InWindow /\ Moves(f) /\ move_map(f) /\ Take(f, Down(cur) + MapLen(f))
  <2>1. PICK max : max = Down(cur) + MapLen(f)
    OBVIOUS
  <2>2. /\ MapLen(f) = IF Down(cur) > Total(f) \/ DEF_LEN <= Total(f) - Down(cur)
                       THEN DEF_LEN ELSE Total(f) - Down(cur)
        /\ MapLen(f) \in Nat
        /\ cur + MARGIN <= Down(cur) + DEF_LEN
        /\ Down(cur) <= Total(f) => Down(cur) + MapLen(f) <= Total(f)
    BY <1>1, <1>2, MapLenIs
  <2>3. Down(cur) \in Nat /\ Down(cur) <= cur
    BY <1>2, Pages
  <2>4. max \in Nat /\ cur < max /\ (cur + MARGIN <= max \/ Total(f) <= max)
    <3>1. cur < max
      BY <1>6, <2>1 DEF Moves
    <3>2. DEF_LEN \in Nat
      BY WindowAssumption
    <3> QED BY <1>1, <1>2, <2>1, <2>2, <2>3, <3>1, <3>2
  <2>5. ASSUME f.cut = 0 PROVE max <= Total(f)
    <3>1. PICK len \in Nat : len = Len(got)
      BY <1>2
    <3>2. k <= len /\ k <= Len(f.recs)
      BY <1>3, <3>1 DEF ReadTo
    <3>3. len = k
      <4> SUFFICES ASSUME len > k PROVE FALSE
        BY <3>1, <3>2
      <4>1. k < Len(f.recs) /\ ~Whole(f, k + 1)
        BY <1>3, <3>1 DEF ReadTo
      <4>2. k + 1 \in 1..Len(f.recs)
        BY <1>1, <4>1
      <4> QED BY <1>1, <2>5, <4>1, <4>2, AllThere
    <3>4. k \in 0..Len(f.recs) /\ cur = Start(f, k + 1)
      BY <1>1, <1>3, <3>1, <3>2, <3>3 DEF ReadTo
    <3>5. cur <= Total(f)
      BY <1>1, <2>5, <3>4, FileEnds, AllThere
    <3> QED BY <1>1, <1>2, <2>1, <2>2, <2>3, <3>5
  <2>6. /\ got' \in Seq(Nat) /\ cur' \in Nat
        /\ \E l \in Nat : /\ ReadTo(f, l)'
                          /\ bpc' \in {"done", "dead"} => l = Len(f.recs) \/ ~Whole(f, l + 1)
        /\ f.cut = 0 => bpc' # "dead"
    BY <1>2, <1>6, <2>1, <2>4, <2>5, TakenRead
  <2>7. cur_min' \in Nat /\ cur_max' = max
    BY <1>6, <2>1, <2>3 DEF move_map
  <2> QED BY <2>4, <2>5, <2>6, <2>7 DEF BttInv
<1>7. CASE ~InWindow /\ ~Moves(f) /\ bpc' = "done" /\ UNCHANGED <<cur, cur_min, cur_max, got>>
  <2>1. k = Len(f.recs) \/ ~Whole(f, k + 1)
    BY <1>2, <1>3, <1>7, NoneLeft
  <2>2. ReadTo(f, k)'
    BY <1>3, <1>7 DEF ReadTo
  <2> QED BY <1>2, <1>7, <2>1, <2>2 DEF BttInv
<1> QED BY <1>5, <1>6, <1>7 DEF next_trace

(* The first file, on which all of it runs.                                  *)
ReadInv == BttInv(file) /\ InMargin(file) /\ (bpc = "setup" => cur = 0)

LEMMA ReadInvariant ==
  ASSUME \A list \in Files : InMargin(list[1])
  PROVE  Spec => []ReadInv
<1>1. Init => ReadInv
  <2> SUFFICES ASSUME Init PROVE ReadInv
    OBVIOUS
  <2>1. InMargin(file)
    BY DEF Init, file
  <2>2. cur = 0 /\ cur_min = 0 /\ cur_max = 0 /\ got = <<>> /\ bpc = "setup"
    BY DEF Init, BttInit
  <2>3. IsFile(file) /\ Total(file) \in Nat /\ Len(file.recs) \in Nat /\ Start(file, 1) = 0
    BY <2>1, FileEnds, StartNext
  <2>4. ReadTo(file, 0)
    BY <2>2, <2>3 DEF ReadTo
  <2> QED BY <2>1, <2>2, <2>3, <2>4 DEF ReadInv, BttInv
<1>2. ReadInv /\ [Next]_vars => ReadInv'
  <2> SUFFICES ASSUME ReadInv, [Next]_vars PROVE ReadInv'
    OBVIOUS
  <2>1. PICK f : f = file /\ InMargin(f) /\ BttInv(f)
    BY DEF ReadInv
  <2>2. f = file'
    BY <2>1 DEF Next, VerifyCpu, VerifyDone, ReadFile, ReadTraces, FindAxis, DivisionByZero,
               Movie, Ended, vars, file
  <2>3. CASE setup_ifile(f)
    <3>1. BttInv(f)'
      BY <2>1, <2>3, SetupRead DEF ReadInv
    <3>2. bpc' # "setup"
      BY <2>3 DEF setup_ifile
    <3> QED BY <2>1, <2>2, <3>1, <3>2 DEF ReadInv, BttInv, ReadTo
  <2>4. CASE next_trace(f)
    <3>1. BttInv(f)'
      BY <2>1, <2>4, NextRead
    <3>2. bpc' # "setup"
      BY <2>4 DEF next_trace, Take
    <3> QED BY <2>1, <2>2, <3>1, <3>2 DEF ReadInv, BttInv, ReadTo
  <2>5. CASE UNCHANGED btt
    BY <2>1, <2>2, <2>5 DEF ReadInv, BttInv, ReadTo, btt
  <2> QED BY <2>1, <2>3, <2>4, <2>5
        DEF Next, VerifyCpu, VerifyDone, ReadFile, ReadTraces, FindAxis, DivisionByZero,
            Movie, Ended, vars
<1> QED BY <1>1, <1>2, PTL DEF Spec

(* btt reads the records in turn, each once, all that are whole, and when    *)
(* nothing is cut off the file it reads nothing else and stays in its        *)
(* window: for every page, window and margin, if the records fit in the      *)
(* margin.                                                                   *)
THEOREM RecordsRead ==
  ASSUME \A list \in Files : InMargin(list[1])
  PROVE  Spec => []EveryRecordRead
<1>1. ASSUME ReadInv PROVE EveryRecordRead
  <2>1. PICK f : f = file /\ InMargin(f) /\ BttInv(f)
    BY <1>1 DEF ReadInv
  <2>2. IsFile(f) /\ Len(f.recs) \in Nat /\ got \in Seq(Nat) /\ DOMAIN f.recs = 1..Len(f.recs)
    BY <2>1, FileEnds DEF BttInv, IsFile
  <2>3. PICK k \in Nat : /\ ReadTo(f, k)
                         /\ bpc \in {"done", "dead"} => k = Len(f.recs) \/ ~Whole(f, k + 1)
    BY <2>1 DEF BttInv
  <2>4. PICK len \in Nat : len = Len(got) /\ DOMAIN got = 1..len
    BY <2>2
  <2>5. /\ k <= len /\ k <= Len(f.recs)
        /\ \A i \in 1..k : got[i] = i /\ Whole(f, i)
        /\ \A i \in k + 1..len : got[i] = 0
        /\ len > k => k < Len(f.recs) /\ ~Whole(f, k + 1)
    BY <2>3, <2>4 DEF ReadTo
  <2>6. ASSUME NEW j \in DOMAIN got, got[j] # 0, NEW i \in 1..j PROVE got[i] = i
    <3>1. j \in 1..k
      BY <2>4, <2>5, <2>6
    <3>2. i \in 1..k
      BY <3>1
    <3> QED BY <2>5, <3>2
  <2>7. ASSUME bpc \in {"done", "dead"}, NEW i \in DOMAIN f.recs, Whole(f, i)
        PROVE  i \in ToSet(got)
    <3>1. i \in 1..Len(f.recs)
      BY <2>2
    <3>2. i <= k
      <4> SUFFICES ASSUME k < i PROVE FALSE
        BY <3>1
      <4>1. k + 1 \in 1..i /\ k # Len(f.recs)
        BY <2>2, <3>1
      <4>2. Whole(f, k + 1)
        BY <2>2, <2>7, <3>1, <4>1, WholeBefore
      <4> QED BY <2>3, <2>7, <4>1, <4>2
    <3>3. i \in 1..k /\ i \in DOMAIN got
      BY <2>4, <2>5, <3>1, <3>2
    <3> QED BY <2>5, <3>3 DEF ToSet
  <2>8. ASSUME f.cut = 0 PROVE bpc # "dead" /\ 0 \notin ToSet(got)
    <3>1. bpc # "dead"
      BY <2>1, <2>8 DEF BttInv
    <3>2. len = k
      <4> SUFFICES ASSUME len > k PROVE FALSE
        BY <2>5
      <4>1. k + 1 \in 1..Len(f.recs)
        BY <2>2, <2>5
      <4> QED BY <2>2, <2>5, <2>8, <4>1, AllThere
    <3>3. \A i \in DOMAIN got : got[i] = i /\ i # 0
      BY <2>4, <2>5, <3>2
    <3> QED BY <3>1, <3>3 DEF ToSet
  <2> QED BY <2>1, <2>6, <2>7, <2>8 DEF EveryRecordRead
<1> QED BY <1>1, ReadInvariant, PTL

-----------------------------------------------------------------------------
(* The verdict of blkrawverify on one file.                                  *)

RecordsOf(f) == {f.recs[i] : i \in 1..Len(f.recs)}
Verdict(f) == [good : Seq(RecordsOf(f)), nbad : Nat, nbad_cpu : Nat, nbad_seq : Nat,
               nbad_time : Nat, nbad_dev : Nat, reading : BOOLEAN]

FitsCpu(f, cpu, i) == f.recs[i].magic /\ Whole(f, i) /\ f.recs[i].cpu = cpu
Judging(f, cpu, R) == {i \in R : ~(FitsCpu(f, cpu, i) /\ Notify(f.recs[i]))}
Others(f, R) == {i \in R : ~Notify(f.recs[i])}
Fine(f, cpu, R) == /\ \A i \in R : FitsCpu(f, cpu, i)
                   /\ Forward(f.recs, Others(f, R))

(* Of the records in R v says what is said of a file in VerdictExact; as     *)
(* long as none was bad, the good ones are all but the notices.              *)
Judged(f, cpu, R, v) ==
  /\ v.good \in Seq(RecordsOf(f)) /\ v.nbad \in Nat
  /\ Len(v.good) + v.nbad = Cardinality(Judging(f, cpu, R))
  /\ Forward(v.good, DOMAIN v.good)
  /\ v.nbad = 0 <=> Fine(f, cpu, R)
  /\ v.nbad = 0 => /\ \A i \in Others(f, R) : \E k \in DOMAIN v.good : v.good[k] = f.recs[i]
                   /\ \A k \in DOMAIN v.good : \E i \in Others(f, R) : v.good[k] = f.recs[i]

(* A record more, one to be judged or not.                                   *)
LEMMA JudgingMore ==
  ASSUME NEW f, NEW cpu, IsFile(f), NEW n \in 1..Len(f.recs), NEW R \in SUBSET (1..n - 1)
  PROVE  /\ Cardinality(Judging(f, cpu, R)) \in Nat
         /\ Cardinality(Judging(f, cpu, R \cup {n}))
              = IF FitsCpu(f, cpu, n) /\ Notify(f.recs[n]) THEN Cardinality(Judging(f, cpu, R))
                ELSE Cardinality(Judging(f, cpu, R)) + 1
         /\ Others(f, R \cup {n}) = IF Notify(f.recs[n]) THEN Others(f, R) ELSE Others(f, R) \cup {n}
         /\ Others(f, R) \subseteq R
<1>1. n \in Nat /\ n \notin R
  BY DEF IsFile
<1>2. PICK J : J = Judging(f, cpu, R)
  OBVIOUS
<1>3. IsFiniteSet(J)
  <2>1. IsFiniteSet(1..n - 1)
    BY <1>1, FS_Interval
  <2>2. J \subseteq 1..n - 1
    BY <1>2 DEF Judging
  <2> QED BY <2>1, <2>2, FS_Subset
<1>4. Cardinality(J) \in Nat
  BY <1>3, FS_CardinalityType
<1>5. n \notin J
  BY <1>1, <1>2 DEF Judging
<1>6. Judging(f, cpu, R \cup {n})
        = IF FitsCpu(f, cpu, n) /\ Notify(f.recs[n]) THEN J ELSE J \cup {n}
  BY <1>2 DEF Judging
<1>7. Cardinality(J \cup {n}) = Cardinality(J) + 1
  BY <1>3, <1>5, FS_AddElement
<1>8. Others(f, R \cup {n}) = IF Notify(f.recs[n]) THEN Others(f, R) ELSE Others(f, R) \cup {n}
  BY DEF Others
<1> QED BY <1>2, <1>4, <1>6, <1>7, <1>8 DEF Others

(* A bad record: it does not fit, or not behind an earlier one.              *)
LEMMA JudgedBad ==
  ASSUME NEW f, NEW cpu, IsFile(f), NEW n \in 1..Len(f.recs), NEW R \in SUBSET (1..n - 1),
         NEW v, Judged(f, cpu, R, v), NEW w, w.good = v.good, w.nbad = v.nbad + 1,
         \/ ~FitsCpu(f, cpu, n)
         \/ ~Notify(f.recs[n]) /\ (v.nbad = 0 => ~Forward(f.recs, Others(f, R \cup {n})))
  PROVE  Judged(f, cpu, R \cup {n}, w)
<1>1. /\ v.good \in Seq(RecordsOf(f)) /\ v.nbad \in Nat /\ Forward(v.good, DOMAIN v.good)
      /\ Len(v.good) + v.nbad = Cardinality(Judging(f, cpu, R))
      /\ v.nbad = 0 <=> Fine(f, cpu, R)
  BY DEF Judged
<1>2. /\ Cardinality(Judging(f, cpu, R)) \in Nat
      /\ Cardinality(Judging(f, cpu, R \cup {n})) = Cardinality(Judging(f, cpu, R)) + 1
      /\ Others(f, R) \subseteq Others(f, R \cup {n})
  <2>1. /\ Cardinality(Judging(f, cpu, R)) \in Nat
        /\ Cardinality(Judging(f, cpu, R \cup {n}))
             = IF FitsCpu(f, cpu, n) /\ Notify(f.recs[n]) THEN Cardinality(Judging(f, cpu, R))
               ELSE Cardinality(Judging(f, cpu, R)) + 1
        /\ Others(f, R \cup {n}) = IF Notify(f.recs[n]) THEN Others(f, R) ELSE Others(f, R) \cup {n}
        /\ Others(f, R) \subseteq R
    BY JudgingMore
  <2> QED BY <2>1
<1>3. PICK len \in Nat : len = Len(v.good)
  BY <1>1
<1>4. Len(w.good) + w.nbad = Cardinality(Judging(f, cpu, R \cup {n})) /\ w.nbad \in Nat /\ w.nbad # 0
  <2>1. PICK a, b : a = Cardinality(Judging(f, cpu, R)) /\ b = v.nbad /\ a \in Nat /\ b \in Nat
    BY <1>1, <1>2
  <2>2. len + b = a /\ Cardinality(Judging(f, cpu, R \cup {n})) = a + 1
    BY <1>1, <1>2, <1>3, <2>1
  <2>3. Len(w.good) = len /\ w.nbad = b + 1
    BY <1>3, <2>1
  <2>4. len + (b + 1) = a + 1 /\ b + 1 \in Nat /\ b + 1 # 0
    BY <2>1, <2>2, SMT
  <2> QED BY <2>2, <2>3, <2>4, Zenon
<1>5. ~Fine(f, cpu, R \cup {n})
  <2>1. CASE ~FitsCpu(f, cpu, n)
    BY <2>1 DEF Fine
  <2>2. CASE v.nbad = 0 /\ ~Forward(f.recs, Others(f, R \cup {n}))
    BY <2>2 DEF Fine
  <2>3. CASE v.nbad # 0
    <3>1. ~Fine(f, cpu, R)
      BY <1>1, <2>3
    <3>2. Fine(f, cpu, R \cup {n}) => Fine(f, cpu, R)
      BY <1>2 DEF Fine, Forward
    <3> QED BY <3>1, <3>2
  <2> QED BY <2>1, <2>2, <2>3
<1> QED BY <1>1, <1>4, <1>5 DEF Judged

(* A notice that fits.                                                       *)
LEMMA JudgedNotice ==
  ASSUME NEW f, NEW cpu, IsFile(f), NEW n \in 1..Len(f.recs), NEW R \in SUBSET (1..n - 1),
         NEW v, Judged(f, cpu, R, v), FitsCpu(f, cpu, n), Notify(f.recs[n])
  PROVE  Judged(f, cpu, R \cup {n}, v)
<1>1. /\ Cardinality(Judging(f, cpu, R \cup {n})) = Cardinality(Judging(f, cpu, R))
      /\ Others(f, R \cup {n}) = Others(f, R)
  BY JudgingMore
<1>2. Fine(f, cpu, R \cup {n}) <=> Fine(f, cpu, R)
  BY <1>1 DEF Fine
<1> QED BY <1>1, <1>2 DEF Judged

(* The last good record is before r, on the same device.                     *)
Behind(v, r) == \/ v.good = <<>>
                \/ /\ v.good[Len(v.good)].seq < r.seq /\ v.good[Len(v.good)].time < r.time
                   /\ v.good[Len(v.good)].dev = r.dev

LEMMA RecordNumbers ==
  ASSUME NEW f, IsFile(f), NEW r \in RecordsOf(f)
  PROVE  r.seq \in Nat /\ r.time \in Nat
BY DEF IsFile, RecordsOf, IsRecord

(* A record that fits, no notice and behind the last good one.               *)
LEMMA JudgedGood ==
  ASSUME NEW f, NEW cpu, IsFile(f), NEW n \in 1..Len(f.recs), NEW R \in SUBSET (1..n - 1),
         NEW v, Judged(f, cpu, R, v), FitsCpu(f, cpu, n), ~Notify(f.recs[n]),
         Behind(v, f.recs[n]), NEW w, w.good = Append(v.good, f.recs[n]), w.nbad = v.nbad
  PROVE  Judged(f, cpu, R \cup {n}, w)
<1>1. /\ v.good \in Seq(RecordsOf(f)) /\ v.nbad \in Nat /\ Forward(v.good, DOMAIN v.good)
      /\ Len(v.good) + v.nbad = Cardinality(Judging(f, cpu, R))
      /\ v.nbad = 0 <=> Fine(f, cpu, R)
      /\ v.nbad = 0 => /\ \A i \in Others(f, R) : \E k \in DOMAIN v.good : v.good[k] = f.recs[i]
                       /\ \A k \in DOMAIN v.good : \E i \in Others(f, R) : v.good[k] = f.recs[i]
  BY DEF Judged
<1>2. /\ Cardinality(Judging(f, cpu, R)) \in Nat
      /\ Cardinality(Judging(f, cpu, R \cup {n})) = Cardinality(Judging(f, cpu, R)) + 1
      /\ Others(f, R \cup {n}) = Others(f, R) \cup {n}
      /\ Others(f, R) \subseteq R
  <2>1. /\ Cardinality(Judging(f, cpu, R)) \in Nat
        /\ Cardinality(Judging(f, cpu, R \cup {n}))
             = IF FitsCpu(f, cpu, n) /\ Notify(f.recs[n]) THEN Cardinality(Judging(f, cpu, R))
               ELSE Cardinality(Judging(f, cpu, R)) + 1
        /\ Others(f, R \cup {n}) = IF Notify(f.recs[n]) THEN Others(f, R) ELSE Others(f, R) \cup {n}
        /\ Others(f, R) \subseteq R
    BY JudgingMore
  <2> QED BY <2>1
<1>3. PICK r \in RecordsOf(f) : r = f.recs[n]
  BY DEF RecordsOf
<1>4. PICK len \in Nat : len = Len(v.good) /\ DOMAIN v.good = 1..len
  BY <1>1
<1>5. /\ w.good \in Seq(RecordsOf(f)) /\ Len(w.good) = len + 1 /\ DOMAIN w.good = 1..len + 1
      /\ w.good[len + 1] = r
      /\ \A k \in 1..len : w.good[k] = v.good[k]
  <2>1. w.good \in Seq(RecordsOf(f)) /\ Len(w.good) = len + 1 /\ w.good[len + 1] = r
        /\ \A k \in 1..len : w.good[k] = v.good[k]
    BY <1>1, <1>3, <1>4, AppendProperties
  <2> QED BY <2>1
<1>6. \A k \in 1..len : /\ v.good[k] \in RecordsOf(f)
                        /\ v.good[k].seq \in Nat /\ v.good[k].time \in Nat
  BY <1>1, <1>4, ElementOfSeq, RecordNumbers
<1>7. r.seq \in Nat /\ r.time \in Nat
  BY RecordNumbers
<1>8. ASSUME NEW k \in 1..len
      PROVE  v.good[k].seq < r.seq /\ v.good[k].time < r.time /\ v.good[k].dev = r.dev
  <2>1. len \in 1..len /\ v.good # <<>>
    BY <1>4
  <2>2. /\ v.good[len].seq < r.seq /\ v.good[len].time < r.time /\ v.good[len].dev = r.dev
    BY <1>3, <1>4, <2>1 DEF Behind
  <2>3. k < len => /\ v.good[k].seq < v.good[len].seq /\ v.good[k].time < v.good[len].time
                   /\ v.good[k].dev = v.good[len].dev
    BY <1>1, <1>4, <2>1 DEF Forward
  <2>4. CASE k = len
    BY <2>2, <2>4
  <2>5. CASE k < len
    <3>1. /\ v.good[k].seq \in Nat /\ v.good[k].time \in Nat
          /\ v.good[len].seq \in Nat /\ v.good[len].time \in Nat
      BY <1>6, <2>1
    <3>2. \A x, y, z \in Nat : x < y /\ y < z => x < z
      OBVIOUS
    <3>3. v.good[k].seq < r.seq /\ v.good[k].time < r.time
      BY <1>7, <2>2, <2>3, <2>5, <3>1, <3>2, Zenon
    <3> QED BY <2>2, <2>3, <2>5, <3>3, Zenon
  <2> QED BY <2>4, <2>5
<1>9. Forward(w.good, DOMAIN w.good)
  <2> SUFFICES ASSUME NEW i \in 1..len + 1, NEW j \in 1..len + 1, i < j
               PROVE  /\ w.good[i].seq < w.good[j].seq /\ w.good[i].time < w.good[j].time
                      /\ w.good[i].dev = w.good[j].dev
    BY <1>5 DEF Forward
  <2>1. i \in 1..len
    OBVIOUS
  <2>2. CASE j = len + 1
    BY <1>5, <1>8, <2>1, <2>2
  <2>3. CASE j # len + 1
    <3>1. j \in 1..len
      BY <2>3
    <3>2. /\ v.good[i].seq < v.good[j].seq /\ v.good[i].time < v.good[j].time
          /\ v.good[i].dev = v.good[j].dev
      BY <1>1, <1>4, <2>1, <3>1 DEF Forward
    <3> QED BY <1>5, <2>1, <3>1, <3>2
  <2> QED BY <2>2, <2>3
<1>10. Fine(f, cpu, R \cup {n}) => Fine(f, cpu, R)
  BY <1>2 DEF Fine, Forward
<1>11. ASSUME v.nbad = 0 PROVE Fine(f, cpu, R \cup {n})
  <2>1. Fine(f, cpu, R)
    BY <1>1, <1>11
  <2>2. \A i \in R \cup {n} : FitsCpu(f, cpu, i)
    BY <2>1 DEF Fine
  <2>3. ASSUME NEW i \in Others(f, R \cup {n}), NEW j \in Others(f, R \cup {n}), i < j
        PROVE  /\ f.recs[i].seq < f.recs[j].seq /\ f.recs[i].time < f.recs[j].time
               /\ f.recs[i].dev = f.recs[j].dev
    <3>1. /\ i \in Others(f, R) \/ i = n
          /\ j \in Others(f, R) \/ j = n
          /\ Others(f, R) \subseteq 1..n - 1
      BY <1>2, <2>3
    <3>2. i \in Others(f, R)
      BY <2>3, <3>1
    <3>3. CASE j \in Others(f, R)
      BY <2>1, <2>3, <3>2, <3>3 DEF Fine, Forward
    <3>4. CASE j = n
      <4>1. PICK k \in 1..len : v.good[k] = f.recs[i]
        BY <1>1, <1>4, <1>11, <3>2
      <4> QED BY <1>3, <1>8, <3>4, <4>1
    <3> QED BY <3>1, <3>3, <3>4
  <2> QED BY <2>2, <2>3 DEF Fine, Forward
<1>12. ASSUME v.nbad = 0
       PROVE  /\ \A i \in Others(f, R \cup {n}) : \E k \in DOMAIN w.good : w.good[k] = f.recs[i]
              /\ \A k \in DOMAIN w.good : \E i \in Others(f, R \cup {n}) : w.good[k] = f.recs[i]
  <2>1. ASSUME NEW i \in Others(f, R \cup {n}) PROVE \E k \in 1..len + 1 : w.good[k] = f.recs[i]
    <3>1. CASE i = n
      BY <1>3, <1>5, <3>1
    <3>2. CASE i \in Others(f, R)
      <4>1. PICK k \in 1..len : v.good[k] = f.recs[i]
        BY <1>1, <1>4, <1>12, <3>2
      <4> QED BY <1>5, <4>1
    <3> QED BY <1>2, <3>1, <3>2
  <2>2. ASSUME NEW k \in 1..len + 1 PROVE \E i \in Others(f, R \cup {n}) : w.good[k] = f.recs[i]
    <3>1. CASE k = len + 1
      BY <1>2, <1>3, <1>5, <3>1
    <3>2. CASE k # len + 1
      <4>1. k \in 1..len
        BY <3>2
      <4>2. PICK i \in Others(f, R) : v.good[k] = f.recs[i]
        BY <1>1, <1>4, <1>12, <4>1
      <4> QED BY <1>2, <1>5, <4>1, <4>2
    <3> QED BY <3>1, <3>2
  <2> QED BY <1>5, <2>1, <2>2
<1>13. Len(w.good) + w.nbad = Cardinality(Judging(f, cpu, R \cup {n}))
  BY <1>1, <1>2, <1>4, <1>5
<1>14. w.nbad = 0 <=> Fine(f, cpu, R \cup {n})
  BY <1>1, <1>10, <1>11
<1> QED BY <1>1, <1>5, <1>9, <1>12, <1>13, <1>14 DEF Judged

(* What was read of the file up to its n-th record.                          *)
Upto(f, n) == Readable(f) \cap 1..n
Verifying(f, cpu, n, v) ==
  /\ v \in Verdict(f)
  /\ Judged(f, cpu, Upto(f, n), v)
  /\ v.reading => Upto(f, n) = 1..n
  /\ ~v.reading => Readable(f) \subseteq 1..n

Known(f, i) == f.recs[i].magic => f.recs[i].version

LEMMA ReadableDown ==
  ASSUME NEW f, IsFile(f)
  PROVE  /\ Readable(f) \subseteq 1..Len(f.recs)
         /\ \A j \in Readable(f) : \A i \in 1..j : i \in Readable(f)
         /\ \A j \in 1..Len(f.recs) :
              j \in Readable(f) <=> HeaderThere(f, j) /\ \A i \in 1..j : Known(f, i)
<1>1. DOMAIN f.recs = 1..Len(f.recs) /\ Len(f.recs) \in Nat
  BY DEF IsFile
<1>2. \A j \in 1..Len(f.recs) :
        j \in Readable(f) <=> HeaderThere(f, j) /\ \A i \in 1..j : Known(f, i)
  BY <1>1 DEF Readable, Known
<1>3. Readable(f) \subseteq 1..Len(f.recs)
  BY <1>1 DEF Readable
<1>4. ASSUME NEW j \in Readable(f), NEW i \in 1..j PROVE i \in Readable(f)
  <2>1. j \in 1..Len(f.recs) /\ i \in 1..Len(f.recs)
    BY <1>1, <1>3
  <2>2. HeaderThere(f, j) /\ \A k \in 1..j : Known(f, k)
    BY <1>2, <2>1
  <2>3. HeaderThere(f, i)
    BY <2>1, <2>2, WholeBefore
  <2>4. \A k \in 1..i : k \in 1..j
    BY <2>1
  <2> QED BY <1>2, <2>1, <2>2, <2>3, <2>4
<1> QED BY <1>2, <1>3, <1>4

(* One more record is read, or no more.                                      *)
LEMMA UptoMore ==
  ASSUME NEW f, IsFile(f), NEW n \in 1..Len(f.recs), Upto(f, n - 1) = 1..n - 1
  PROVE  IF HeaderThere(f, n) /\ Known(f, n)
         THEN Upto(f, n) = Upto(f, n - 1) \cup {n} /\ Upto(f, n) = 1..n
         ELSE Upto(f, n) = Upto(f, n - 1) /\ Readable(f) \subseteq 1..n
<1>1. n \in Nat /\ n \in 1..n /\ \A i \in 1..n : i = n \/ i \in 1..n - 1
  BY DEF IsFile
<1>2. \A i \in 1..n - 1 : i \in Readable(f) /\ i \in 1..Len(f.recs) /\ i \in 1..i
  BY <1>1 DEF Upto, IsFile
<1>3. \A i \in 1..n - 1 : Known(f, i)
  BY <1>2, ReadableDown
<1>4. n \in Readable(f) <=> HeaderThere(f, n) /\ Known(f, n)
  BY <1>1, <1>3, ReadableDown
<1>5. CASE n \in Readable(f)
  <2>1. Upto(f, n) = 1..n
    BY <1>1, <1>2, <1>5 DEF Upto
  <2>2. 1..n = (1..n - 1) \cup {n}
    BY <1>1
  <2> QED BY <1>4, <1>5, <2>1, <2>2
<1>6. CASE n \notin Readable(f)
  <2>1. ASSUME NEW i \in Readable(f) PROVE i \in 1..n - 1
    <3>1. i \in 1..Len(f.recs)
      BY ReadableDown
    <3>2. ~(n \in 1..i)
      BY <1>6, ReadableDown
    <3> QED BY <1>1, <3>1, <3>2
  <2>2. Upto(f, n) = Upto(f, n - 1)
    BY <1>1, <2>1 DEF Upto
  <2>3. Readable(f) \subseteq 1..n
    BY <1>1, <2>1
  <2> QED BY <1>4, <1>6, <2>2, <2>3
<1> QED BY <1>5, <1>6

(* After it, nothing is read.                                                *)
LEMMA NoneAfterCut ==
  ASSUME NEW f, IsFile(f), NEW n \in 1..Len(f.recs), ~Whole(f, n)
  PROVE  Readable(f) \subseteq 1..n
<1> SUFFICES ASSUME NEW i \in Readable(f), n < i PROVE FALSE
  <2>1. Readable(f) \subseteq 1..Len(f.recs) /\ n \in Nat
    BY ReadableDown DEF IsFile
  <2> QED BY <2>1
<1>1. i \in 1..Len(f.recs) /\ i \in 1..i /\ n \in 1..i
  BY ReadableDown
<1>2. HeaderThere(f, i)
  BY <1>1, ReadableDown
<1> QED BY <1>1, <1>2, WholeBefore

(* A bad record that is read, whatever else is counted of it.                *)
LEMMA BadStep ==
  ASSUME NEW f, NEW cpu, IsFile(f), NEW n \in 1..Len(f.recs),
         NEW v, Verifying(f, cpu, n - 1, v), v.reading, HeaderThere(f, n), Known(f, n),
         \/ ~FitsCpu(f, cpu, n)
         \/ ~Notify(f.recs[n]) /\ (v.nbad = 0 => ~Forward(f.recs, Others(f, Upto(f, n - 1) \cup {n}))),
         NEW w \in Verdict(f), w.good = v.good, w.nbad = v.nbad + 1,
         ~w.reading => ~Whole(f, n)
  PROVE  Verifying(f, cpu, n, w)
<1>1. /\ Upto(f, n - 1) = 1..n - 1 /\ Judged(f, cpu, Upto(f, n - 1), v)
  BY DEF Verifying
<1>2. Upto(f, n) = Upto(f, n - 1) \cup {n} /\ Upto(f, n) = 1..n
  BY <1>1, UptoMore
<1>3. PICK R \in SUBSET (1..n - 1) : R = Upto(f, n - 1)
  BY <1>1
<1>4. Judged(f, cpu, R \cup {n}, w)
  BY <1>1, <1>3, JudgedBad
<1>5. ~w.reading => Readable(f) \subseteq 1..n
  BY NoneAfterCut
<1> QED BY <1>2, <1>3, <1>4, <1>5 DEF Verifying

(* Counting.                                                                 *)
LEMMA Counted ==
  ASSUME NEW f, NEW v \in Verdict(f), NEW w,
         \/ w = v \/ w = [v EXCEPT !.nbad_cpu = @ + 1] \/ w = [v EXCEPT !.nbad_seq = @ + 1]
         \/ w = [v EXCEPT !.nbad_time = @ + 1] \/ w = [v EXCEPT !.nbad_dev = @ + 1]
  PROVE  w \in Verdict(f) /\ w.good = v.good /\ w.nbad = v.nbad /\ w.reading = v.reading
<1>1. /\ v.nbad_cpu + 1 \in Nat /\ v.nbad_seq + 1 \in Nat /\ v.nbad_time + 1 \in Nat
      /\ v.nbad_dev + 1 \in Nat
  BY DEF Verdict
<1> QED BY <1>1 DEF Verdict

LEMMA BadCounted ==
  ASSUME NEW f, NEW v \in Verdict(f)
  PROVE  /\ Bad(v) \in Verdict(f) /\ Bad(v).good = v.good /\ Bad(v).nbad = v.nbad + 1
         /\ Bad(v).reading = v.reading
<1>1. v.nbad + 1 \in Nat
  BY DEF Verdict
<1> QED BY <1>1 DEF Verdict, Bad

LEMMA Stopped ==
  ASSUME NEW f, NEW v \in Verdict(f)
  PROVE  /\ Stop(v) \in Verdict(f) /\ Stop(v).good = v.good /\ Stop(v).nbad = v.nbad
         /\ ~Stop(v).reading
BY DEF Verdict, Stop

(* The n-th record is compared.                                              *)
LEMMA ComparedStep ==
  ASSUME NEW f, NEW cpu, IsFile(f), NEW n \in 1..Len(f.recs),
         NEW v, Verifying(f, cpu, n - 1, v), v.reading, HeaderThere(f, n), Known(f, n),
         FitsCpu(f, cpu, n), ~Notify(f.recs[n])
  PROVE  Verifying(f, cpu, n, Compared(v, f.recs[n]))
<1>1. /\ Upto(f, n - 1) = 1..n - 1 /\ Judged(f, cpu, Upto(f, n - 1), v) /\ v \in Verdict(f)
  BY DEF Verifying
<1>2. Upto(f, n) = Upto(f, n - 1) \cup {n} /\ Upto(f, n) = 1..n
  BY <1>1, UptoMore
<1>3. PICK R \in SUBSET (1..n - 1) : R = Upto(f, n - 1)
  BY <1>1
<1>4. PICK r \in RecordsOf(f) : r = f.recs[n]
  BY DEF RecordsOf
<1>5. /\ v.good \in Seq(RecordsOf(f)) /\ v.nbad \in Nat /\ v.nbad_seq \in Nat /\ v.nbad_time \in Nat
      /\ v.nbad_dev \in Nat
  BY <1>1 DEF Verdict
<1>6. PICK w : w = Compared(v, r)
  OBVIOUS
<1>7. CASE Behind(v, r)
  <2>1. w = [v EXCEPT !.good = Append(v.good, r)]
    <3>1. CASE v.good = <<>>
      BY <1>6, <3>1 DEF Compared
    <3>2. CASE v.good # <<>>
      <4>1. PICK save : save = v.good[Len(v.good)]
        OBVIOUS
      <4>2. save.seq < r.seq /\ save.time < r.time /\ save.dev = r.dev
        BY <1>7, <3>2, <4>1 DEF Behind
      <4>3. save.seq \in Nat /\ save.time \in Nat /\ r.seq \in Nat /\ r.time \in Nat
        <5>1. Len(v.good) \in 1..Len(v.good)
          BY <1>5, <3>2, EmptySeq
        <5>2. save \in RecordsOf(f)
          BY <1>5, <4>1, <5>1, ElementOfSeq
        <5> QED BY <5>2, RecordNumbers
      <4>4. ~(r.seq <= save.seq) /\ ~(r.time <= save.time) /\ ~(r.dev # save.dev)
        BY <4>2, <4>3
      <4> QED BY <1>6, <3>2, <4>1, <4>4 DEF Compared, Last
    <3> QED BY <3>1, <3>2
  <2>2. Append(v.good, r) \in Seq(RecordsOf(f))
    BY <1>5, AppendProperties
  <2>3. w \in Verdict(f) /\ w.good = Append(v.good, r) /\ w.nbad = v.nbad /\ w.reading = v.reading
    BY <1>1, <2>1, <2>2 DEF Verdict
  <2>4. Judged(f, cpu, R \cup {n}, w)
    BY <1>1, <1>3, <1>4, <1>7, <2>3, JudgedGood
  <2> QED BY <1>2, <1>3, <1>4, <1>6, <2>3, <2>4 DEF Verifying
<1>8. CASE ~Behind(v, r)
  <2>1. v.good # <<>>
    BY <1>8 DEF Behind
  <2>2. PICK last \in 1..Len(v.good) : last = Len(v.good)
    BY <1>5, <2>1, EmptySeq
  <2>3. PICK save \in RecordsOf(f) : save = v.good[last]
    BY <1>5, ElementOfSeq
  <2>4. save.seq \in Nat /\ save.time \in Nat /\ r.seq \in Nat /\ r.time \in Nat
    BY RecordNumbers
  <2>5. ~(save.seq < r.seq /\ save.time < r.time /\ save.dev = r.dev)
    BY <1>8, <2>1, <2>2, <2>3 DEF Behind
  <2>6. w \in Verdict(f) /\ w.good = v.good /\ w.nbad = v.nbad + 1 /\ w.reading = v.reading
    <3>1. w = IF r.seq <= save.seq THEN [Bad(v) EXCEPT !.nbad_seq = @ + 1]
              ELSE IF r.time <= save.time THEN [Bad(v) EXCEPT !.nbad_time = @ + 1]
              ELSE IF r.dev # save.dev THEN [Bad(v) EXCEPT !.nbad_dev = @ + 1]
              ELSE [v EXCEPT !.good = Append(@, r)]
      BY <1>6, <2>1, <2>2, <2>3 DEF Compared, Last
    <3>2. r.seq <= save.seq \/ r.time <= save.time \/ r.dev # save.dev
      BY <2>4, <2>5
    <3>3. PICK b : b = Bad(v)
      OBVIOUS
    <3>4. \/ w = [b EXCEPT !.nbad_seq = @ + 1] \/ w = [b EXCEPT !.nbad_time = @ + 1]
          \/ w = [b EXCEPT !.nbad_dev = @ + 1]
      BY <3>1, <3>2, <3>3
    <3>5. b \in Verdict(f) /\ b.good = v.good /\ b.nbad = v.nbad + 1 /\ b.reading = v.reading
      BY <1>1, <3>3, BadCounted
    <3>6. w \in Verdict(f) /\ w.good = b.good /\ w.nbad = b.nbad /\ w.reading = b.reading
      BY <3>4, <3>5, Counted, ZenonT(40)
    <3>7. w.nbad = v.nbad + 1
      BY <3>5, <3>6
    <3> QED BY <3>5, <3>6, <3>7
  <2>7. ASSUME v.nbad = 0, Forward(f.recs, Others(f, R \cup {n})) PROVE FALSE
    <3>1. last \in DOMAIN v.good
      BY <1>5, <2>2
    <3>2. PICK i \in Others(f, R) : v.good[last] = f.recs[i]
      BY <1>1, <1>3, <2>7, <3>1 DEF Judged
    <3>3. i \in Others(f, R \cup {n}) /\ n \in Others(f, R \cup {n}) /\ i < n
      <4>1. i \in 1..n - 1 /\ n \in Nat
        BY <1>3, <3>2 DEF Others, IsFile
      <4> QED BY <3>2, <4>1 DEF Others
    <3>4. f.recs[i].seq < f.recs[n].seq /\ f.recs[i].time < f.recs[n].time /\ f.recs[i].dev = f.recs[n].dev
      BY <2>7, <3>3 DEF Forward
    <3> QED BY <1>4, <2>3, <2>5, <3>2, <3>4
  <2> QED BY <1>3, <1>4, <1>6, <2>6, <2>7, BadStep
<1> QED BY <1>7, <1>8

(* Any record.                                                               *)
LEMMA VerifiedStep ==
  ASSUME NEW f, NEW cpu, IsFile(f), NEW n \in 1..Len(f.recs),
         NEW v, Verifying(f, cpu, n - 1, v)
  PROVE  Verifying(f, cpu, n, Verified(v, f, n, cpu))
<1>1. /\ v \in Verdict(f) /\ Judged(f, cpu, Upto(f, n - 1), v)
      /\ v.reading => Upto(f, n - 1) = 1..n - 1
      /\ ~v.reading => Readable(f) \subseteq 1..n - 1
      /\ n \in Nat
  BY DEF Verifying, IsFile
<1>2. PICK w : w = Verified(v, f, n, cpu)
  OBVIOUS
<1>3. PICK r : r = f.recs[n]
  OBVIOUS
<1>4. CASE ~v.reading
  <2>1. w = Stop(v)
    BY <1>2, <1>4 DEF Verified
  <2>2. Upto(f, n) = Upto(f, n - 1) /\ Readable(f) \subseteq 1..n
    BY <1>1, <1>4 DEF Upto
  <2>3. Judged(f, cpu, Upto(f, n), w)
    BY <1>1, <2>1, <2>2, Stopped DEF Judged
  <2> QED BY <1>1, <1>2, <2>1, <2>2, <2>3, Stopped DEF Verifying
<1>5. CASE v.reading /\ (~HeaderThere(f, n) \/ (r.magic /\ ~r.version))
  <2>1. w = Stop(v)
    BY <1>2, <1>3, <1>5 DEF Verified
  <2>2. ~(HeaderThere(f, n) /\ Known(f, n))
    BY <1>3, <1>5 DEF Known
  <2>3. Upto(f, n) = Upto(f, n - 1) /\ Readable(f) \subseteq 1..n
    BY <1>1, <1>5, <2>2, UptoMore
  <2>4. Judged(f, cpu, Upto(f, n), w)
    BY <1>1, <2>1, <2>3, Stopped DEF Judged
  <2> QED BY <1>1, <1>2, <2>1, <2>3, <2>4, Stopped DEF Verifying
<1>6. CASE v.reading /\ HeaderThere(f, n) /\ ~r.magic
  <2>1. w = Bad(v)
    BY <1>2, <1>3, <1>6 DEF Verified
  <2>2. Known(f, n) /\ ~FitsCpu(f, cpu, n)
    BY <1>3, <1>6 DEF Known, FitsCpu
  <2>3. w \in Verdict(f) /\ w.good = v.good /\ w.nbad = v.nbad + 1 /\ w.reading
    BY <1>1, <1>6, <2>1, BadCounted
  <2> QED BY <1>2, <1>6, <2>2, <2>3, BadStep
<1>7. CASE v.reading /\ HeaderThere(f, n) /\ r.magic /\ r.version /\ ~Whole(f, n)
  <2>1. PICK b, s : b = Bad(v) /\ s = Stop(b)
    OBVIOUS
  <2>2. w = [s EXCEPT !.nbad_seq = @ + 1]
    BY <1>2, <1>3, <1>7, <2>1 DEF Verified
  <2>3. Known(f, n) /\ ~FitsCpu(f, cpu, n)
    BY <1>3, <1>7 DEF Known, FitsCpu
  <2>4. b \in Verdict(f) /\ b.good = v.good /\ b.nbad = v.nbad + 1
    BY <1>1, <2>1, BadCounted
  <2>5. s \in Verdict(f) /\ s.good = b.good /\ s.nbad = b.nbad
    BY <2>1, <2>4, Stopped
  <2>6. w \in Verdict(f) /\ w.good = s.good /\ w.nbad = s.nbad
    BY <2>2, <2>5, Counted
  <2>7. w.good = v.good /\ w.nbad = v.nbad + 1
    BY <2>4, <2>5, <2>6
  <2> QED BY <1>2, <1>7, <2>3, <2>6, <2>7, BadStep
<1>8. CASE v.reading /\ HeaderThere(f, n) /\ r.magic /\ r.version /\ Whole(f, n) /\ r.cpu # cpu
  <2>1. PICK b : b = Bad(v)
    OBVIOUS
  <2>2. w = [b EXCEPT !.nbad_cpu = @ + 1]
    BY <1>2, <1>3, <1>8, <2>1 DEF Verified
  <2>3. Known(f, n) /\ ~FitsCpu(f, cpu, n)
    BY <1>3, <1>8 DEF Known, FitsCpu
  <2>4. b \in Verdict(f) /\ b.good = v.good /\ b.nbad = v.nbad + 1 /\ b.reading
    BY <1>1, <1>8, <2>1, BadCounted
  <2>5. w \in Verdict(f) /\ w.good = b.good /\ w.nbad = b.nbad /\ w.reading = b.reading
    BY <2>2, <2>4, Counted
  <2>6. w.good = v.good /\ w.nbad = v.nbad + 1 /\ w.reading
    BY <2>4, <2>5
  <2> QED BY <1>2, <1>8, <2>3, <2>5, <2>6, BadStep
<1>9. CASE v.reading /\ HeaderThere(f, n) /\ r.magic /\ r.version /\ Whole(f, n) /\ r.cpu = cpu /\ Notify(r)
  <2>1. w = v
    BY <1>2, <1>3, <1>9 DEF Verified
  <2>2. Known(f, n) /\ FitsCpu(f, cpu, n)
    BY <1>3, <1>9 DEF Known, FitsCpu
  <2>3. Upto(f, n) = Upto(f, n - 1) \cup {n} /\ Upto(f, n) = 1..n
    BY <1>1, <1>9, <2>2, UptoMore
  <2>4. PICK R \in SUBSET (1..n - 1) : R = Upto(f, n - 1)
    BY <1>1, <1>9
  <2>5. Judged(f, cpu, R \cup {n}, v)
    BY <1>1, <1>3, <1>9, <2>2, <2>4, JudgedNotice
  <2> QED BY <1>1, <1>2, <1>9, <2>1, <2>3, <2>4, <2>5 DEF Verifying
<1>10. CASE v.reading /\ HeaderThere(f, n) /\ r.magic /\ r.version /\ Whole(f, n) /\ r.cpu = cpu /\ ~Notify(r)
  <2>1. w = Compared(v, f.recs[n])
    BY <1>2, <1>3, <1>10 DEF Verified
  <2>2. Known(f, n) /\ FitsCpu(f, cpu, n)
    BY <1>3, <1>10 DEF Known, FitsCpu
  <2> QED BY <1>2, <1>3, <1>10, <2>1, <2>2, ComparedStep
<1> QED BY <1>4, <1>5, <1>6, <1>7, <1>8, <1>9, <1>10

(* All of them.                                                              *)
LEMMA ProcessVerifies ==
  ASSUME NEW f, NEW cpu, IsFile(f)
  PROVE  Verifying(f, cpu, Len(f.recs), process(f, cpu))
<1>1. PICK N \in Nat : N = Len(f.recs)
  BY DEF IsFile
<1>2. Verifying(f, cpu, 0, Nothing)
  <2>1. Upto(f, 0) = {} /\ 1..0 = {}
    BY DEF Upto
  <2>2. Nothing \in Verdict(f) /\ Nothing.good = <<>> /\ Nothing.nbad = 0 /\ Nothing.reading
    BY DEF Nothing, Verdict
  <2>3. Judging(f, cpu, {}) = {} /\ Cardinality(Judging(f, cpu, {})) = 0 /\ Others(f, {}) = {}
    BY FS_EmptySet DEF Judging, Others
  <2>4. Fine(f, cpu, {})
    BY <2>3 DEF Fine, Forward
  <2>5. Judged(f, cpu, {}, Nothing)
    BY <2>2, <2>3, <2>4 DEF Judged, Forward
  <2> QED BY <2>1, <2>2, <2>5 DEF Verifying
<1>3. PICK V : V = Verdict(f)
  OBVIOUS
<1>4. PICK F : F = [p \in V \X (1..N) |->
                     IF \E n \in 1..N : p[2] = n /\ Verifying(f, cpu, n - 1, p[1])
                     THEN Verified(p[1], f, p[2], cpu) ELSE Nothing]
  OBVIOUS
<1>5. F \in [V \X (1..N) -> V]
  <2>1. ASSUME NEW v \in V, NEW n \in 1..N PROVE F[<<v, n>>] \in V
    <3>1. <<v, n>> \in V \X (1..N)
      OBVIOUS
    <3>2. CASE Verifying(f, cpu, n - 1, v)
      <4>1. F[<<v, n>>] = Verified(v, f, n, cpu)
        BY <1>4, <3>1, <3>2
      <4>2. Verified(v, f, n, cpu) \in Verdict(f)
        BY <1>1, <3>2, VerifiedStep DEF Verifying
      <4> QED BY <1>3, <4>1, <4>2
    <3>3. CASE ~Verifying(f, cpu, n - 1, v)
      <4>1. F[<<v, n>>] = Nothing
        BY <1>4, <3>1, <3>3
      <4> QED BY <1>2, <1>3, <4>1 DEF Verifying
    <3> QED BY <3>2, <3>3
  <2> QED BY <1>4, <2>1
<1>6. Nothing \in V
  BY <1>2, <1>3 DEF Verifying
<1>7. PICK g \in [0..N -> V] : Steps(F, Nothing, N, g)
  BY <1>5, <1>6, StepsExist
<1>8. g[0] = Nothing /\ \A n \in 1..N : g[n] = F[<<g[n - 1], n>>]
  <2>1. 0 \in 0..N /\ \A n \in 1..N : n \in 0..N /\ n # 0
    OBVIOUS
  <2> QED BY <1>7, <2>1 DEF Steps
<1>9. ASSUME NEW n \in 1..N, Verifying(f, cpu, n - 1, g[n - 1])
      PROVE  g[n] = Verified(g[n - 1], f, n, cpu)
  <2>1. n - 1 \in 0..N
    OBVIOUS
  <2>2. <<g[n - 1], n>> \in V \X (1..N)
    BY <2>1
  <2> QED BY <1>4, <1>8, <1>9, <2>2
<1>10. \A n \in 0..N : Verifying(f, cpu, n, g[n])
  <2>1. PICK bad : bad = {n \in 0..N : ~Verifying(f, cpu, n, g[n])}
    OBVIOUS
  <2> SUFFICES ASSUME bad # {} PROVE FALSE
    BY <2>1
  <2>2. bad \in SUBSET Nat
    BY <2>1
  <2>3. PICK n \in bad : \A k \in Nat : k < n => k \notin bad
    BY <2>2, Smallest
  <2>4. n \in 0..N /\ n # 0
    BY <1>2, <1>8, <2>1, <2>3
  <2>5. n \in 1..N /\ n - 1 \in Nat /\ n - 1 < n /\ n - 1 \in 0..N
    BY <2>4
  <2>6. Verifying(f, cpu, n - 1, g[n - 1])
    BY <2>1, <2>3, <2>5
  <2>7. Verifying(f, cpu, n, g[n])
    BY <1>1, <1>9, <2>5, <2>6, VerifiedStep
  <2> QED BY <2>1, <2>3, <2>7
<1>11. g = [n \in 0..N |-> IF n = 0 THEN Nothing ELSE Verified(g[n - 1], f, n, cpu)]
  <2>1. ASSUME NEW n \in 0..N
        PROVE  g[n] = IF n = 0 THEN Nothing ELSE Verified(g[n - 1], f, n, cpu)
    <3>1. CASE n = 0
      BY <1>8, <3>1
    <3>2. CASE n # 0
      <4>1. n \in 1..N /\ n - 1 \in 0..N
        BY <3>2
      <4> QED BY <1>9, <1>10, <3>2, <4>1
    <3> QED BY <3>1, <3>2
  <2> QED BY <2>1
<1>12. PICK h : /\ h = CHOOSE s : s = [n \in 0..N |-> IF n = 0 THEN Nothing ELSE Verified(s[n - 1], f, n, cpu)]
                /\ h = [n \in 0..N |-> IF n = 0 THEN Nothing ELSE Verified(h[n - 1], f, n, cpu)]
  BY <1>11
<1>13. process(f, cpu) = h[N]
  BY <1>1, <1>12 DEF process
<1>14. h[N] = g[N]
  <2>1. /\ h[0] = Nothing
        /\ \A n \in 1..N : /\ h[n] = Verified(h[n - 1], f, n, cpu)
                           /\ g[n] = Verified(g[n - 1], f, n, cpu)
    <3>1. 0 \in 0..N /\ \A n \in 1..N : n \in 0..N /\ n # 0 /\ n - 1 \in 0..N
      OBVIOUS
    <3>2. \A n \in 1..N : h[n] = Verified(h[n - 1], f, n, cpu)
      BY <1>12, <3>1
    <3>3. h[0] = Nothing
      BY <1>12, <3>1
    <3> QED BY <1>9, <1>10, <3>1, <3>2, <3>3
  <2>2. PICK bad : bad = {n \in 0..N : h[n] # g[n]}
    OBVIOUS
  <2>3. N \in 0..N
    OBVIOUS
  <2> SUFFICES ASSUME bad # {} PROVE FALSE
    BY <2>2, <2>3
  <2>4. bad \in SUBSET Nat
    BY <2>2
  <2>5. PICK n \in bad : \A k \in Nat : k < n => k \notin bad
    BY <2>4, Smallest
  <2>6. n \in 1..N /\ n - 1 \in Nat /\ n - 1 < n /\ n - 1 \in 0..N
    BY <1>8, <2>1, <2>2, <2>5
  <2>7. h[n - 1] = g[n - 1]
    BY <2>2, <2>5, <2>6
  <2> QED BY <2>1, <2>2, <2>5, <2>6, <2>7
<1>15. N \in 0..N
  OBVIOUS
<1> QED BY <1>1, <1>10, <1>13, <1>14, <1>15

(* The records read are the first ones, as many as there are.                *)
LEMMA ReadableIs ==
  ASSUME NEW f, IsFile(f)
  PROVE  /\ Cardinality(Readable(f)) \in 0..Len(f.recs)
         /\ Readable(f) = 1..Cardinality(Readable(f))
<1>1. PICK N \in Nat : N = Len(f.recs)
  BY DEF IsFile
<1>2. PICK R \in SUBSET (1..N) : R = Readable(f)
  BY <1>1, ReadableDown
<1>3. \A j \in R : \A i \in 1..j : i \in R
  BY <1>2, ReadableDown
<1>4. PICK ends : ends = {n \in 1..N + 1 : n \notin R}
  OBVIOUS
<1>5. ends \in SUBSET Nat /\ N + 1 \in ends
  BY <1>4
<1>6. PICK e \in ends : \A k \in Nat : k < e => k \notin ends
  BY <1>5, Smallest
<1>7. e \in 1..N + 1 /\ e \notin R
  BY <1>4, <1>6
<1>8. R = 1..e - 1
  <2>1. ASSUME NEW i \in R PROVE i \in 1..e - 1
    <3>1. i \in 1..N
      OBVIOUS
    <3>2. ~(e \in 1..i)
      BY <1>3, <1>7
    <3> QED BY <1>7, <3>1, <3>2
  <2>2. ASSUME NEW i \in 1..e - 1 PROVE i \in R
    <3>1. i \in Nat /\ i < e /\ i \in 1..N + 1
      BY <1>7
    <3> QED BY <1>4, <1>6, <3>1
  <2> QED BY <2>1, <2>2
<1>9. e - 1 \in Nat /\ e - 1 \in 0..N
  BY <1>7
<1>10. Cardinality(1..e - 1) = e - 1
  BY <1>7, <1>9, FS_Interval
<1> QED BY <1>1, <1>2, <1>8, <1>9, <1>10

LEMMA ForwardSame ==
  ASSUME NEW s, NEW t, NEW O, \A i \in O : s[i] = t[i]
  PROVE  Forward(s, O) <=> Forward(t, O)
<1>1. ASSUME NEW a, NEW b, \A i \in O : a[i] = b[i], Forward(a, O) PROVE Forward(b, O)
  <2> SUFFICES ASSUME NEW i \in O, NEW j \in O, i < j
               PROVE  b[i].seq < b[j].seq /\ b[i].time < b[j].time /\ b[i].dev = b[j].dev
    BY DEF Forward
  <2>1. a[i].seq < a[j].seq /\ a[i].time < a[j].time /\ a[i].dev = a[j].dev
    BY <1>1 DEF Forward
  <2>2. a[i] = b[i] /\ a[j] = b[j]
    BY <1>1
  <2> QED BY <2>1, <2>2
<1> QED BY <1>1

(* What VerdictExact says of one file.                                       *)
Stands(f, cpu, v, read) ==
  /\ v.nbad \in Nat
  /\ v.nbad = 0 <=> /\ \A i \in DOMAIN read : FitsCpu(f, cpu, i)
                    /\ Forward(read, {i \in DOMAIN read : ~Notify(read[i])})
  /\ Forward(v.good, DOMAIN v.good)
  /\ Len(v.good) + v.nbad
       = Cardinality({i \in DOMAIN read : ~(FitsCpu(f, cpu, i) /\ Notify(read[i]))})

LEMMA VerdictOf ==
  ASSUME NEW f, NEW cpu, IsFile(f), NEW v, v = process(f, cpu),
         NEW read, read = SubSeq(f.recs, 1, Cardinality(Readable(f)))
  PROVE  Stands(f, cpu, v, read)
<1>1. PICK N \in Nat : N = Len(f.recs)
  BY DEF IsFile
<1>2. PICK m \in 0..N : m = Cardinality(Readable(f)) /\ Readable(f) = 1..m
  BY <1>1, ReadableIs
<1>3. Upto(f, N) = 1..m
  BY <1>1, <1>2, ReadableDown DEF Upto
<1>4. Judged(f, cpu, 1..m, v)
  BY <1>1, <1>3, ProcessVerifies DEF Verifying
<1>5. f.recs \in Seq(RecordsOf(f))
  <2>1. PICK recs : recs = [i \in 1..N |-> f.recs[i]] /\ recs = f.recs
    BY <1>1 DEF IsFile
  <2>2. recs \in [1..N -> RecordsOf(f)]
    BY <1>1, <2>1 DEF RecordsOf
  <2> QED BY <2>1, <2>2, IsASeq
<1>6. DOMAIN read = 1..m /\ \A i \in 1..m : read[i] = f.recs[i]
  <2>1. \A i \in 1..m : f.recs[i] \in RecordsOf(f)
    BY <1>1 DEF RecordsOf
  <2>2. /\ SubSeq(f.recs, 1, m) \in Seq(RecordsOf(f))
        /\ Len(SubSeq(f.recs, 1, m)) = IF 1 <= m THEN m - 1 + 1 ELSE 0
        /\ \A i \in 1..m - 1 + 1 : SubSeq(f.recs, 1, m)[i] = f.recs[1 + i - 1]
    <3>1. 1 \in Int /\ m \in Int
      OBVIOUS
    <3> QED BY <2>1, <3>1, SubSeqProperties
  <2>3. m - 1 + 1 = m /\ \A i \in 1..m : 1 + i - 1 = i
    OBVIOUS
  <2>4. read \in Seq(RecordsOf(f)) /\ Len(read) = m /\ \A i \in 1..m : read[i] = f.recs[i]
    BY <1>2, <2>2, <2>3
  <2> QED BY <2>4
<1>7. /\ v.nbad \in Nat
      /\ v.nbad = 0 <=> Fine(f, cpu, 1..m)
      /\ Forward(v.good, DOMAIN v.good)
      /\ Len(v.good) + v.nbad = Cardinality(Judging(f, cpu, 1..m))
  BY <1>4 DEF Judged
<1>8. {i \in DOMAIN read : ~Notify(read[i])} = Others(f, 1..m)
  BY <1>6 DEF Others
<1>9. {i \in DOMAIN read : ~(FitsCpu(f, cpu, i) /\ Notify(read[i]))} = Judging(f, cpu, 1..m)
  BY <1>6 DEF Judging
<1>10. Others(f, 1..m) \subseteq 1..m
  BY DEF Others
<1>11. Forward(read, Others(f, 1..m)) <=> Forward(f.recs, Others(f, 1..m))
  <2>1. PICK O : O = Others(f, 1..m)
    OBVIOUS
  <2>2. \A i \in O : read[i] = f.recs[i]
    BY <1>6, <1>10, <2>1
  <2>3. Forward(read, O) <=> Forward(f.recs, O)
    BY <2>2, ForwardSame
  <2> QED BY <2>1, <2>3
<1> QED BY <1>6, <1>7, <1>8, <1>9, <1>11 DEF Fine, Stands

(* The files of the CPUs verified so far, each with its verdict.             *)
IsFiles(list) ==
  /\ Len(list) \in Nat
  /\ \A k \in 1..Len(list) : IsFile(list[k])
VerifyInv ==
  /\ IsFiles(files)
  /\ verified \in Seq({process(files[k], k - 1) : k \in 1..Len(files)})
  /\ Len(verified) <= Len(files)
  /\ \A k \in 1..Len(verified) : /\ verified[k] = process(files[k], k - 1)
                                 /\ verified[k].nbad > 0 => rval = 1

LEMMA VerifyCpuStep ==
  ASSUME VerifyInv, VerifyCpu
  PROVE  VerifyInv'
<1>1. PICK S : S = {process(files[k], k - 1) : k \in 1..Len(files)}
  OBVIOUS
<1>2. PICK n \in Nat, len \in Nat : n = Len(files) /\ len = Len(verified) /\ len < n
  BY DEF VerifyInv, IsFiles, VerifyCpu
<1>3. PICK v : v = process(files[len + 1], len)
  OBVIOUS
<1>4. verified' = Append(verified, v) /\ rval' = (IF v.nbad > 0 THEN 1 ELSE rval) /\ files' = files
  BY <1>2, <1>3 DEF VerifyCpu
<1>5. v \in S /\ v = process(files[len + 1], len + 1 - 1)
  <2>1. len + 1 \in 1..n /\ len + 1 - 1 = len
    BY <1>2
  <2> QED BY <1>1, <1>2, <1>3, <2>1
<1>6. verified \in Seq(S)
  BY <1>1 DEF VerifyInv
<1>7. /\ verified' \in Seq(S) /\ Len(verified') = len + 1 /\ verified'[len + 1] = v
      /\ \A k \in 1..len : verified'[k] = verified[k]
  BY <1>2, <1>4, <1>5, <1>6, AppendProperties
<1>8. ASSUME NEW k \in 1..len + 1
      PROVE  /\ verified'[k] = process(files[k], k - 1)
             /\ verified'[k].nbad > 0 => rval' = 1
  <2>1. CASE k = len + 1
    BY <1>4, <1>5, <1>7, <2>1
  <2>2. CASE k # len + 1
    <3>1. k \in 1..len
      BY <1>2, <2>2
    <3>2. /\ verified[k] = process(files[k], k - 1)
          /\ verified[k].nbad > 0 => rval = 1
      BY <1>2, <3>1 DEF VerifyInv
    <3> QED BY <1>4, <1>7, <3>1, <3>2
  <2> QED BY <2>1, <2>2
<1>9. Len(verified') <= Len(files)
  BY <1>2, <1>7
<1> QED BY <1>1, <1>4, <1>7, <1>8, <1>9 DEF VerifyInv

(* blkrawverify finds no bad record exactly in a file of which each record   *)
(* read is of that CPU and all but the notices go forward, counts every      *)
(* such record once, and lets only go forward what it finds good, whatever  *)
(* the records are and wherever the file ends.                              *)
THEOREM VerifiedExactly ==
  ASSUME \A list \in Files : IsFiles(list)
  PROVE  Spec => []VerdictExact
<1>1. Init => VerifyInv
  BY EmptySeq DEF Init, VerifyInv
<1>2. VerifyInv /\ [Next]_vars => VerifyInv'
  <2> SUFFICES ASSUME VerifyInv, [Next]_vars PROVE VerifyInv'
    OBVIOUS
  <2>1. CASE VerifyCpu
    BY <2>1, VerifyCpuStep
  <2>2. CASE UNCHANGED <<files, verified, rval>>
    BY <2>2 DEF VerifyInv
  <2> QED BY <2>1, <2>2
        DEF Next, VerifyDone, ReadFile, ReadTraces, FindAxis, DivisionByZero, Movie, Ended, vars
<1>3. ASSUME VerifyInv PROVE VerdictExact
  <2>1. DOMAIN verified = 1..Len(verified)
    BY <1>3 DEF VerifyInv
  <2> SUFFICES ASSUME NEW k \in 1..Len(verified), NEW f, f = files[k], NEW v, v = verified[k],
                      NEW read, read = SubSeq(f.recs, 1, Cardinality(Readable(f)))
               PROVE  /\ v.nbad = 0 <=> /\ \A i \in DOMAIN read : FitsCpu(f, k - 1, i)
                                        /\ Forward(read, {i \in DOMAIN read : ~Notify(read[i])})
                      /\ Forward(v.good, DOMAIN v.good)
                      /\ Len(v.good) + v.nbad
                           = Cardinality({i \in DOMAIN read : ~(FitsCpu(f, k - 1, i) /\ Notify(read[i]))})
                      /\ v.nbad > 0 => rval = 1
    BY <2>1 DEF VerdictExact, FitsCpu
  <2>2. v = process(f, k - 1) /\ (v.nbad > 0 => rval = 1)
    BY <1>3 DEF VerifyInv
  <2>3. IsFile(f)
    <3>1. k \in 1..Len(files)
      BY <1>3 DEF VerifyInv, IsFiles
    <3> QED BY <1>3, <3>1 DEF VerifyInv, IsFiles
  <2>4. Stands(f, k - 1, v, read)
    BY <2>2, <2>3, VerdictOf
  <2> QED BY <2>2, <2>4 DEF Stands
<1> QED BY <1>1, <1>2, <1>3, PTL DEF Spec
===============================================================================
