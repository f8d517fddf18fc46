--------------------------- MODULE TraceQueueProofs ---------------------------
(***************************************************************************)
(* The buffers between the tracers and the client: their count is right,   *)
(* no piece of them is lost, and the client gets TraceStream's stream, for *)
(* any number of devices and CPUs, any reads and any turns of the threads. *)
(***************************************************************************)
EXTENDS TraceQueue, WellFoundedInduction, SequenceTheorems, FiniteSetTheorems, TLAPS

(* Concatenation is associative.                                             *)
LEMMA Assoc == \A S : \A a, b, c \in Seq(S) : (a \o b) \o c = a \o (b \o c)
BY ConcatAssociative, Zenon

LEMMA Assumed ==
  /\ NDevs \in Nat \ {0} /\ NCpus \in Nat \ {0} /\ ReadSize \in Nat \ {0}
  /\ MaxPieces \in Nat \ {0} /\ ZeroSector \subseteq Nat
  /\ Uses \subseteq Use /\ \A u \in Uses : u.may_close => u.tears_down
BY TraceQueueAssumption

-----------------------------------------------------------------------------
(* Induction, over a set of numbers.                                        *)
LEMMA AllNumbers ==
  ASSUME NEW T, 0 \in T, \A n \in Nat : n \in T => n + 1 \in T
  PROVE  Nat \subseteq T
<1> SUFFICES ASSUME Nat \ T # {} PROVE FALSE
  OBVIOUS
<1> DEFINE R == OpToRel(<, Nat)
           S == Nat \ T
<1>1. IsWellFoundedOn(R, Nat)
  BY NatLessThanWellFounded
<1>2. \A x, y \in Nat : <<x, y>> \in R <=> x < y
  BY DEF OpToRel
<1> HIDE DEF R
<1>3. PICK x \in S : \A y \in S : ~(<<y, x>> \in R)
  <2>1. S \subseteq Nat /\ S # {}
    OBVIOUS
  <2> HIDE DEF S
  <2> QED BY <1>1, <2>1, WFMin
<1>4. x # 0 /\ x \in Nat /\ x - 1 \in Nat /\ x - 1 < x
  BY <1>3
<1>5. x - 1 \in T
  BY <1>2, <1>3, <1>4
<1>6. (x - 1) + 1 \in T
  BY <1>4, <1>5
<1> QED BY <1>3, <1>4, <1>6

(* Sequences one after the other: f[i] is what the first i of s make.        *)
Joins(f, s, S) ==
  /\ f \in [0..Len(s) -> Seq(S)] /\ f[0] = <<>>
  /\ \A i \in 1..Len(s) : f[i] = f[i - 1] \o s[i]

LEMMA JoinsExists ==
  ASSUME NEW S, NEW s \in Seq(Seq(S))
  PROVE  \E f : Joins(f, s, S)
<1> DEFINE J(f, n) == /\ f \in [0..n -> Seq(S)] /\ f[0] = <<>>
                      /\ \A i \in 1..n : f[i] = f[i - 1] \o s[i]
           T == {n \in Nat : n <= Len(s) => \E f : J(f, n)}
<1>1. 0 \in T
  <2> DEFINE f == [i \in 0..0 |-> <<>>]
  <2>1. f \in [0..0 -> Seq(S)] /\ f[0] = <<>> /\ 1..0 = {}
    OBVIOUS
  <2>2. J(f, 0)
    BY <2>1
  <2> QED BY <2>2
<1>2. \A n \in Nat : n \in T => n + 1 \in T
  <2>1. ASSUME NEW n \in Nat, NEW f, J(f, n), n + 1 <= Len(s) PROVE \E g : J(g, n + 1)
    <3> DEFINE g == [i \in 0..(n + 1) |-> IF i <= n THEN f[i] ELSE f[n] \o s[n + 1]]
    <3>1. s[n + 1] \in Seq(S) /\ f[n] \in Seq(S)
      BY <2>1
    <3>2. g \in [0..(n + 1) -> Seq(S)]
      BY <2>1, <3>1
    <3>3. g[0] = <<>> /\ g[n + 1] = f[n] \o s[n + 1] /\ \A i \in 0..n : g[i] = f[i]
      <4>1. f[0] = <<>>
        BY <2>1
      <4>2. 0 \in 0..(n + 1) /\ n + 1 \in 0..(n + 1) /\ 0 <= n /\ ~(n + 1 <= n)
            /\ \A i \in 0..n : i \in 0..(n + 1) /\ i <= n
        OBVIOUS
      <4> QED BY <4>1, <4>2
    <3> HIDE DEF g
    <3>4. ASSUME NEW i \in 1..(n + 1) PROVE g[i] = g[i - 1] \o s[i]
      <4>1. i - 1 \in 0..n /\ g[i - 1] = f[i - 1]
        BY <3>3
      <4>2. CASE i = n + 1
        <5>1. i - 1 = n
          BY <4>2
        <5> QED BY <3>3, <4>1, <4>2, <5>1
      <4>3. CASE i # n + 1
        <5>1. i \in 1..n /\ i \in 0..n
          BY <4>3
        <5> QED BY <2>1, <3>3, <4>1, <5>1
      <4> QED BY <4>2, <4>3
    <3>5. J(g, n + 1)
      BY <3>2, <3>3, <3>4
    <3> QED BY <3>5
  <2> HIDE DEF J
  <2>2. \A n \in Nat : n + 1 <= Len(s) => n <= Len(s)
    OBVIOUS
  <2> QED BY <2>1, <2>2
<1>3. Len(s) \in T
  <2>1. Nat \subseteq T
    <3> HIDE DEF T
    <3> QED BY <1>1, <1>2, AllNumbers
  <2> HIDE DEF T
  <2> QED BY <2>1
<1>4. PICK f : J(f, Len(s))
  <2> HIDE DEF J
  <2> QED BY <1>3
<1>5. Joins(f, s, S)
  BY <1>4 DEF Joins
<1> QED BY <1>5

LEMMA FlattenIs ==
  ASSUME NEW S, NEW s \in Seq(Seq(S)), NEW f, Joins(f, s, S)
  PROVE  FlattenSeq(s) = f[Len(s)]
<1>1. CASE s = <<>>
  BY <1>1 DEF FlattenSeq, Joins
<1>2. CASE s # <<>>
  <2> DEFINE n == Len(s)
             IsFlat(g) == g = [i \in 1..n |-> IF i = 1 THEN s[i] ELSE g[i - 1] \o s[i]]
             flat == CHOOSE g : IsFlat(g)
  <2>1. FlattenSeq(s) = flat[n]
    BY <1>2 DEF FlattenSeq
  <2>2. n \in Nat \ {0} /\ \A i \in 1..n : s[i] \in Seq(S)
    BY <1>2
  <2> HIDE DEF n
  <2>3. /\ f \in [0..n -> Seq(S)] /\ f[0] = <<>>
        /\ \A i \in 1..n : f[i] = f[i - 1] \o s[i]
    BY DEF Joins, n
  <2>4. f[1] = s[1]
    <3>1. 1 \in 1..n /\ 1 - 1 = 0 /\ s[1] \in Seq(S)
      BY <2>2
    <3>2. f[1] = f[0] \o s[1]
      BY <2>3, <3>1
    <3>3. <<>> \o s[1] = s[1]
      BY <3>1, ConcatEmptySeq
    <3> QED BY <2>3, <3>2, <3>3
  <2>5. IsFlat(flat)
    <3> DEFINE g == [i \in 1..n |-> f[i]]
    <3>1. g[1] = s[1] /\ \A i \in 2..n : g[i] = g[i - 1] \o s[i]
      <4>1. \A i \in 1..n : g[i] = f[i]
        OBVIOUS
      <4>2. 1 \in 1..n /\ \A i \in 2..n : i \in 1..n /\ i - 1 \in 1..n
        BY <2>2
      <4> HIDE DEF g
      <4> QED BY <2>3, <2>4, <4>1, <4>2
    <3>2. \A i \in 1..n : i = 1 \/ i \in 2..n
      BY <2>2
    <3>3. \A i \in 1..n : g[i] = IF i = 1 THEN s[i] ELSE g[i - 1] \o s[i]
      <4> HIDE DEF g
      <4> QED BY <3>1, <3>2
    <3>4. IsFlat(g)
      BY <3>3
    <3> HIDE DEF g, IsFlat
    <3> QED BY <3>4
  <2> HIDE DEF flat
  <2>6. flat[1] = s[1] /\ \A i \in 2..n : flat[i] = flat[i - 1] \o s[i]
    <3>1. flat = [i \in 1..n |-> IF i = 1 THEN s[i] ELSE flat[i - 1] \o s[i]]
      BY <2>5
    <3>2. \A i \in 1..n : flat[i] = IF i = 1 THEN s[i] ELSE flat[i - 1] \o s[i]
      BY <3>1, Zenon
    <3>3. 1 \in 1..n /\ \A i \in 2..n : i \in 1..n /\ i # 1
      BY <2>2
    <3> QED BY <3>2, <3>3
  <2> HIDE DEF IsFlat
  <2> DEFINE T == {i \in Nat : i + 1 <= n => flat[i + 1] = f[i + 1]}
  <2>7. 0 \in T
    BY <2>4, <2>6
  <2>8. ASSUME NEW i \in Nat, i \in T PROVE i + 1 \in T
    <3> SUFFICES ASSUME i + 2 <= n PROVE flat[i + 2] = f[i + 2]
      BY <2>2
    <3>1. /\ i + 2 \in 2..n /\ i + 2 \in 1..n /\ (i + 2) - 1 = i + 1 /\ i + 1 <= n
      BY <2>2
    <3>2. flat[i + 2] = flat[i + 1] \o s[i + 2] /\ f[i + 2] = f[i + 1] \o s[i + 2]
      BY <2>3, <2>6, <3>1
    <3> QED BY <2>8, <3>1, <3>2
  <2>9. n - 1 \in T
    <3>1. Nat \subseteq T
      <4> HIDE DEF T
      <4> QED BY <2>7, <2>8, AllNumbers
    <3>2. n - 1 \in Nat
      BY <2>2
    <3> HIDE DEF T
    <3> QED BY <3>1, <3>2
  <2>10. flat[n] = f[n]
    BY <2>2, <2>9
  <2> QED BY <2>1, <2>10 DEF n
<1> QED BY <1>1, <1>2

LEMMA FlattenEmpty == FlattenSeq(<<>>) = <<>>
BY DEF FlattenSeq

LEMMA FlattenType ==
  ASSUME NEW S, NEW s \in Seq(Seq(S))
  PROVE  FlattenSeq(s) \in Seq(S)
<1>1. PICK f : Joins(f, s, S)
  BY JoinsExists
<1>2. FlattenSeq(s) = f[Len(s)]
  BY <1>1, FlattenIs
<1> QED BY <1>1, <1>2 DEF Joins

LEMMA FlattenConcat ==
  ASSUME NEW S, NEW s \in Seq(Seq(S)), NEW t \in Seq(Seq(S))
  PROVE  FlattenSeq(s \o t) = FlattenSeq(s) \o FlattenSeq(t)
<1>1. PICK f : Joins(f, s, S)
  BY JoinsExists
<1>2. PICK g : Joins(g, t, S)
  BY JoinsExists
<1> DEFINE m == Len(s)
           n == Len(t)
           u == s \o t
           h == [i \in 0..(m + n) |-> IF i <= m THEN f[i] ELSE f[m] \o g[i - m]]
<1>3. /\ m \in Nat /\ n \in Nat /\ u \in Seq(Seq(S)) /\ Len(u) = m + n
      /\ \A i \in 1..m : u[i] = s[i]
      /\ \A i \in 1..n : u[m + i] = t[i]
  OBVIOUS
<1>4. \A i \in 1..n : t[i] \in Seq(S)
  OBVIOUS
<1> HIDE DEF m, n, u
<1>5. /\ f \in [0..m -> Seq(S)] /\ f[0] = <<>>
      /\ \A i \in 1..m : f[i] = f[i - 1] \o s[i]
  BY <1>1 DEF Joins, m
<1>6. /\ g \in [0..n -> Seq(S)] /\ g[0] = <<>>
      /\ \A i \in 1..n : g[i] = g[i - 1] \o t[i]
  BY <1>2 DEF Joins, n
<1>7. f[m] \in Seq(S) /\ \A i \in 0..n : g[i] \in Seq(S)
  BY <1>3, <1>5, <1>6
<1>8. /\ h \in [0..(m + n) -> Seq(S)] /\ h[0] = <<>>
      /\ \A i \in 0..m : h[i] = f[i]
      /\ \A i \in 0..n : h[m + i] = f[m] \o g[i]
  <2>1. \A i \in 0..n : f[m] \o g[i] \in Seq(S)
    BY <1>7
  <2>2. \A i \in 0..(m + n) : i \in 0..m \/ (~(i <= m) /\ i - m \in 0..n)
    BY <1>3
  <2>3. h \in [0..(m + n) -> Seq(S)]
    BY <1>3, <1>5, <2>1, <2>2
  <2>4. \A i \in 0..m : h[i] = f[i]
    BY <1>3
  <2>5. h[m + 0] = f[m] \o g[0]
    <3>1. f[m] \o <<>> = f[m] /\ m + 0 = m /\ m \in 0..m
      BY <1>3, <1>7, ConcatEmptySeq
    <3> HIDE DEF h
    <3> QED BY <1>6, <2>4, <3>1
  <2>6. ASSUME NEW i \in 1..n PROVE h[m + i] = f[m] \o g[i]
    <3>1. m + i \in 0..(m + n) /\ ~(m + i <= m) /\ (m + i) - m = i
      BY <1>3
    <3> QED BY <3>1
  <2>7. \A i \in 0..n : i = 0 \/ i \in 1..n
    BY <1>3
  <2> HIDE DEF h
  <2>8. h[0] = <<>>
    BY <1>3, <1>5, <2>4
  <2> QED BY <2>3, <2>4, <2>5, <2>6, <2>7, <2>8
<1> HIDE DEF h
<1>9. ASSUME NEW i \in 1..(m + n) PROVE h[i] = h[i - 1] \o u[i]
  <2>1. CASE i \in 1..m
    <3>1. i \in 0..m /\ i - 1 \in 0..m
      BY <1>3, <2>1
    <3> QED BY <1>3, <1>5, <1>8, <2>1, <3>1
  <2>2. ASSUME NEW k \in 1..n, i = m + k PROVE h[i] = h[i - 1] \o u[i]
    <3>1. k - 1 \in 0..n /\ k \in 0..n /\ i - 1 = m + (k - 1)
      BY <1>3, <2>2
    <3>2. h[i] = f[m] \o g[k] /\ h[i - 1] = f[m] \o g[k - 1]
      BY <1>8, <2>2, <3>1
    <3>3. u[i] = t[k] /\ g[k] = g[k - 1] \o t[k]
      BY <1>3, <1>6, <2>2
    <3>4. g[k - 1] \in Seq(S) /\ t[k] \in Seq(S)
      BY <1>4, <1>7, <3>1
    <3>5. (f[m] \o g[k - 1]) \o t[k] = f[m] \o (g[k - 1] \o t[k])
      <4>1. PICK a, b, c : a = f[m] /\ b = g[k - 1] /\ c = t[k]
        OBVIOUS
      <4>2. a \in Seq(S) /\ b \in Seq(S) /\ c \in Seq(S)
        BY <1>7, <3>1, <3>4, <4>1
      <4>3. (a \o b) \o c = a \o (b \o c)
        BY <4>2, Assoc, SMTT(30)
      <4> QED BY <4>1, <4>3
    <3> QED BY <3>2, <3>3, <3>5
  <2>3. i \in 1..m \/ (i - m \in 1..n /\ i = m + (i - m))
    BY <1>3
  <2> QED BY <2>1, <2>2, <2>3
<1>10. Joins(h, u, S)
  BY <1>3, <1>8, <1>9 DEF Joins
<1>11. FlattenSeq(u) = h[m + n]
  BY <1>3, <1>10, FlattenIs
<1>12. FlattenSeq(s) = f[m] /\ FlattenSeq(t) = g[n]
  BY <1>1, <1>2, FlattenIs DEF m, n
<1>13. n \in 0..n
  BY <1>3
<1> QED BY <1>8, <1>11, <1>12, <1>13 DEF u

LEMMA FlattenOne ==
  ASSUME NEW S, NEW x \in Seq(S)
  PROVE  FlattenSeq(<<x>>) = x
<1> DEFINE f == [i \in 0..1 |-> IF i = 0 THEN <<>> ELSE x]
<1>1. <<x>> \in Seq(Seq(S)) /\ Len(<<x>>) = 1 /\ <<x>>[1] = x /\ <<>> \o x = x
  OBVIOUS
<1>2. f \in [0..1 -> Seq(S)] /\ f[0] = <<>> /\ f[1] = x
  OBVIOUS
<1> HIDE DEF f
<1>3. \A i \in 1..1 : f[i] = f[i - 1] \o <<x>>[i]
  <2>1. \A i \in 1..1 : i = 1 /\ i - 1 = 0
    OBVIOUS
  <2> QED BY <1>1, <1>2, <2>1
<1>4. Joins(f, <<x>>, S)
  BY <1>1, <1>2, <1>3 DEF Joins
<1> QED BY <1>1, <1>2, <1>4, FlattenIs
-----------------------------------------------------------------------------
(* How many there are altogether.                                           *)
Pile(f, x) == {x} \X (1..f[x])

LEMMA PileSize ==
  ASSUME NEW D, NEW f \in [D -> Nat], NEW x \in D
  PROVE  IsFiniteSet(Pile(f, x)) /\ Cardinality(Pile(f, x)) = f[x]
<1>1. f[x] \in Nat
  OBVIOUS
<1>2. IsFiniteSet({x}) /\ Cardinality({x}) = 1
  BY FS_Singleton
<1>3. IsFiniteSet(1..f[x]) /\ Cardinality(1..f[x]) = f[x]
  BY <1>1, FS_Interval
<1>4. /\ IsFiniteSet({x} \X (1..f[x]))
      /\ Cardinality({x} \X (1..f[x])) = Cardinality({x}) * Cardinality(1..f[x])
  BY <1>2, <1>3, FS_Product
<1> QED BY <1>1, <1>2, <1>3, <1>4 DEF Pile

LEMMA UnitsFinite ==
  ASSUME NEW D, IsFiniteSet(D), NEW f \in [D -> Nat]
  PROVE  IsFiniteSet(Units(f))
<1> DEFINE U == {Pile(f, x) : x \in D}
           h == [x \in D |-> Pile(f, x)]
<1>1. h \in Surjection(D, U)
  BY DEF Surjection
<1>2. IsFiniteSet(U)
  <2> HIDE DEF h, U
  <2> QED BY <1>1, FS_Surjection
<1>3. \A S \in U : IsFiniteSet(S)
  BY PileSize
<1>4. IsFiniteSet(UNION U)
  <2> HIDE DEF U
  <2> QED BY <1>2, <1>3, FS_UNION
<1>5. Units(f) = UNION U
  BY DEF Units, Pile
<1> QED BY <1>4, <1>5

LEMMA TotalType ==
  ASSUME NEW D, IsFiniteSet(D), NEW f \in [D -> Nat]
  PROVE  Total(f) \in Nat
BY UnitsFinite, FS_CardinalityType DEF Total

LEMMA TotalSplit ==
  ASSUME NEW D, IsFiniteSet(D), NEW f \in [D -> Nat], NEW x \in D
  PROVE  LET R == {u \in Units(f) : u[1] # x}
         IN  /\ IsFiniteSet(R) /\ Cardinality(R) \in Nat
             /\ Total(f) = Cardinality(R) + f[x]
<1> DEFINE R == {u \in Units(f) : u[1] # x}
<1>1. IsFiniteSet(Units(f)) /\ R \subseteq Units(f)
  BY UnitsFinite
<1>2. IsFiniteSet(R) /\ Cardinality(R) \in Nat
  <2> HIDE DEF R
  <2> QED BY <1>1, FS_Subset, FS_CardinalityType
<1>3. IsFiniteSet(Pile(f, x)) /\ Cardinality(Pile(f, x)) = f[x]
  BY PileSize
<1>4. Units(f) = R \cup Pile(f, x)
  BY DEF Units, Pile
<1>5. R \cap Pile(f, x) = {}
  BY DEF Pile
<1>6. Cardinality({}) = 0
  BY FS_EmptySet
<1> HIDE DEF R
<1>7. Cardinality(Units(f)) = Cardinality(R) + Cardinality(Pile(f, x)) - 0
  BY <1>2, <1>3, <1>4, <1>5, <1>6, FS_Union
<1>8. f[x] \in Nat
  OBVIOUS
<1> QED BY <1>2, <1>3, <1>7, <1>8 DEF Total, R

LEMMA TotalChange ==
  ASSUME NEW D, IsFiniteSet(D), NEW f \in [D -> Nat], NEW g \in [D -> Nat], NEW x \in D,
         \A y \in D : y # x => g[y] = f[y]
  PROVE  Total(g) = Total(f) - f[x] + g[x]
<1> DEFINE R(h) == {u \in Units(h) : u[1] # x}
<1>1. R(f) = R(g)
  BY DEF Units
<1>2. /\ Total(f) = Cardinality(R(f)) + f[x]
      /\ Total(g) = Cardinality(R(g)) + g[x]
      /\ Cardinality(R(f)) \in Nat
  BY TotalSplit
<1>3. f[x] \in Nat /\ g[x] \in Nat
  OBVIOUS
<1> HIDE DEF R
<1> QED BY <1>1, <1>2, <1>3

LEMMA TotalAtLeast ==
  ASSUME NEW D, IsFiniteSet(D), NEW f \in [D -> Nat], NEW x \in D
  PROVE  f[x] <= Total(f)
<1> DEFINE R == {u \in Units(f) : u[1] # x}
<1>1. Total(f) = Cardinality(R) + f[x] /\ Cardinality(R) \in Nat
  BY TotalSplit
<1> HIDE DEF R
<1>2. f[x] \in Nat
  OBVIOUS
<1> QED BY <1>1, <1>2

LEMMA TotalOfZeros ==
  ASSUME NEW D, NEW f, DOMAIN f = D, \A x \in D : f[x] = 0
  PROVE  Total(f) = 0
<1>1. Units(f) = {}
  BY DEF Units
<1> QED BY <1>1, FS_EmptySet DEF Total

LEMMA FiniteDomains == IsFiniteSet(Heads) /\ IsFiniteSet(Cpus) /\ IsFiniteSet(Contexts)
<1>1. IsFiniteSet(1..NDevs) /\ IsFiniteSet(1..NCpus)
  BY Assumed, FS_Interval
<1>2. IsFiniteSet(Heads)
  BY <1>1, FS_Product DEF Heads, Devs, Cpus
<1>3. IsFiniteSet({"main"} \cup {"handler"})
  BY FS_Singleton, FS_AddElement
<1>4. Contexts = {"main"} \cup {"handler"}
  BY DEF Contexts
<1> QED BY <1>1, <1>2, <1>3, <1>4 DEF Cpus
-----------------------------------------------------------------------------
(* The n numbers after a.                                                   *)
Run(a, n) == [k \in 1..n |-> a + k]

LEMMA RunType ==
  ASSUME NEW a \in Nat, NEW n \in Nat
  PROVE  Run(a, n) \in Seq(Nat) /\ Len(Run(a, n)) = n /\ DOMAIN Run(a, n) = 1..n
BY DEF Run

LEMMA RunConcat ==
  ASSUME NEW a \in Nat, NEW m \in Nat, NEW n \in Nat
  PROVE  Run(a, m) \o Run(a + m, n) = Run(a, m + n)
<1> DEFINE x == Run(a, m)
           y == Run(a + m, n)
           z == Run(a, m + n)
<1>1. /\ x \in Seq(Nat) /\ Len(x) = m /\ y \in Seq(Nat) /\ Len(y) = n
      /\ z \in Seq(Nat) /\ Len(z) = m + n
  <2>1. a + m \in Nat /\ m + n \in Nat
    OBVIOUS
  <2> QED BY <2>1, RunType
<1>2. /\ \A k \in 1..m : x[k] = a + k
      /\ \A k \in 1..n : y[k] = a + m + k
      /\ \A k \in 1..(m + n) : z[k] = a + k
  BY DEF Run
<1> HIDE DEF x, y, z
<1>3. ASSUME NEW k \in 1..(m + n) PROVE (x \o y)[k] = z[k]
  <2>1. CASE k <= m
    BY <1>1, <1>2, <2>1
  <2>2. CASE k > m
    <3>1. (x \o y)[k] = y[k - m]
      BY <1>1, <2>2, SMTT(30)
    <3>2. k - m \in 1..n /\ a + m + (k - m) = a + k
      BY <2>2
    <3> QED BY <1>2, <3>1, <3>2
  <2>3. k <= m \/ k > m
    OBVIOUS
  <2> QED BY <2>1, <2>2, <2>3, Zenon
<1>4. x \o y \in Seq(Nat) /\ Len(x \o y) = Len(x) + Len(y)
  BY <1>1, ConcatProperties
<1>5. x \o y = z
  BY <1>1, <1>3, <1>4, SeqEqual
<1> QED BY <1>5 DEF x, y, z

LEMMA RunSplit ==
  ASSUME NEW a \in Nat, NEW x \in Seq(Nat), NEW y \in Seq(Nat),
         x \o y = Run(a, Len(x) + Len(y))
  PROVE  x = Run(a, Len(x)) /\ y = Run(a + Len(x), Len(y))
<1> DEFINE z == x \o y
           m == Len(x)
           n == Len(y)
<1>1. /\ m \in Nat /\ n \in Nat
      /\ \A k \in 1..m : z[k] = x[k]
      /\ \A k \in 1..n : z[m + k] = y[k]
      /\ DOMAIN x = 1..m /\ DOMAIN y = 1..n
      /\ x = [k \in 1..m |-> x[k]] /\ y = [k \in 1..n |-> y[k]]
  BY SMTT(30)
<1>2. \A k \in 1..(m + n) : z[k] = a + k
  BY DEF Run
<1> HIDE DEF z, m, n
<1>3. \A k \in 1..m : x[k] = a + k
  <2>1. \A k \in 1..m : k \in 1..(m + n)
    BY <1>1
  <2> QED BY <1>1, <1>2, <2>1
<1>4. \A k \in 1..n : y[k] = a + m + k
  <2>1. \A k \in 1..n : m + k \in 1..(m + n) /\ a + (m + k) = a + m + k
    BY <1>1
  <2> QED BY <1>1, <1>2, <2>1
<1>5. x = [k \in 1..m |-> a + k] /\ y = [k \in 1..n |-> a + m + k]
  BY <1>1, <1>3, <1>4
<1> QED BY <1>5 DEF Run, m, n

LEMMA RunFront ==
  ASSUME NEW a \in Nat, NEW m \in Nat, NEW n \in 0..m
  PROVE  /\ SubSeq(Run(a, m), 1, n) = Run(a, n)
         /\ SubSeq(Run(a, m), n + 1, m) = Run(a + n, m - n)
<1>1. Run(a, m) \in Seq(Nat) /\ Len(Run(a, m)) = m /\ \A k \in 1..m : Run(a, m)[k] = a + k
  BY DEF Run
<1> DEFINE z == Run(a, m)
<1>2. /\ SubSeq(z, 1, n) = [k \in 1..n |-> z[k]]
      /\ SubSeq(z, n + 1, m) = [k \in 1..(m - n) |-> z[n + k]]
  <2> HIDE DEF z
  <2> QED BY <1>1 DEF z
<1>3. \A k \in 1..n : z[k] = a + k
  BY <1>1
<1>4. \A k \in 1..(m - n) : z[n + k] = a + n + k
  <2>1. \A k \in 1..(m - n) : n + k \in 1..m /\ a + (n + k) = a + n + k
    OBVIOUS
  <2> QED BY <1>1, <2>1
<1> HIDE DEF z
<1> QED BY <1>2, <1>3, <1>4 DEF Run, z

-----------------------------------------------------------------------------
(* The events that are sent.                                                *)
Sends(e) == IF e \in ZeroSector THEN <<>> ELSE <<e>>

LEMMA SendsType == \A e \in Nat : Sends(e) \in Seq(Nat)
BY DEF Sends

(* What valtio writes of events, one after the other.                        *)
MeantOf(events) == FlattenSeq([i \in DOMAIN events |-> Sends(events[i])])

LEMMA WrittenIs == \A s : Written(s) = IF use.tears_down THEN MeantOf(s) ELSE s
BY DEF Written, MeantOf, Sends

LEMMA WantedIs ==
  ASSUME NEW e \in Nat
  PROVE  Stream!Wanted(e) = FlattenSeq([i \in 1..e |-> Sends(i)])
<1>1. \A s : Stream!FlattenSeq(s) = FlattenSeq(s)
  BY DEF Stream!FlattenSeq, FlattenSeq
<1> QED BY <1>1 DEF Stream!Wanted, Sends

LEMMA WantedType ==
  ASSUME NEW e \in Nat
  PROVE  Stream!Wanted(e) \in Seq(Nat)
<1> DEFINE s == [i \in 1..e |-> Sends(i)]
<1>1. s \in Seq(Seq(Nat))
  BY SendsType
<1>2. Stream!Wanted(e) = FlattenSeq(s)
  BY WantedIs
<1> HIDE DEF s
<1> QED BY <1>1, <1>2, FlattenType

LEMMA WantedStep ==
  ASSUME NEW e \in Nat, NEW n \in Nat
  PROVE  /\ MeantOf(Run(e, n)) \in Seq(Nat)
         /\ Stream!Wanted(e + n) = Stream!Wanted(e) \o MeantOf(Run(e, n))
<1> DEFINE s == [i \in 1..e |-> Sends(i)]
           t == [i \in 1..n |-> Sends(e + i)]
           u == [i \in 1..(e + n) |-> Sends(i)]
<1>1. s \in Seq(Seq(Nat)) /\ t \in Seq(Seq(Nat)) /\ u \in Seq(Seq(Nat))
  <2>1. \A i \in 1..n : e + i \in Nat
    OBVIOUS
  <2> QED BY <2>1, SendsType
<1>2. Stream!Wanted(e) = FlattenSeq(s) /\ Stream!Wanted(e + n) = FlattenSeq(u)
  BY WantedIs
<1>3. MeantOf(Run(e, n)) = FlattenSeq(t)
  <2>1. DOMAIN Run(e, n) = 1..n /\ \A i \in 1..n : Run(e, n)[i] = e + i
    BY DEF Run
  <2>2. [i \in DOMAIN Run(e, n) |-> Sends(Run(e, n)[i])] = t
    BY <2>1
  <2> QED BY <2>2 DEF MeantOf
<1>4. u = s \o t
  <2>1. /\ Len(s) = e /\ Len(t) = n /\ Len(u) = e + n
        /\ \A i \in 1..e : s[i] = Sends(i)
        /\ \A i \in 1..n : t[i] = Sends(e + i)
        /\ \A i \in 1..(e + n) : u[i] = Sends(i)
    OBVIOUS
  <2> HIDE DEF s, t, u
  <2>2. s \o t \in Seq(Seq(Nat)) /\ Len(s \o t) = e + n
    BY <1>1, <2>1
  <2>3. ASSUME NEW i \in 1..(e + n) PROVE (s \o t)[i] = u[i]
    <3>1. CASE i <= e
      <4>1. (s \o t)[i] = s[i] /\ i \in 1..e
        BY <1>1, <2>1, <3>1
      <4> QED BY <2>1, <4>1
    <3>2. CASE i > e
      <4>1. (s \o t)[i] = t[i - e]
        BY <1>1, <2>1, <3>2, SMTT(30)
      <4>2. i - e \in 1..n /\ e + (i - e) = i
        BY <3>2
      <4> QED BY <2>1, <4>1, <4>2
    <3>3. i <= e \/ i > e
      OBVIOUS
    <3> QED BY <3>1, <3>2, <3>3, Zenon
  <2> QED BY <1>1, <2>1, <2>2, <2>3, SeqEqual
<1> HIDE DEF s, t, u
<1>5. FlattenSeq(t) \in Seq(Nat)
  BY <1>1, FlattenType
<1>6. FlattenSeq(s \o t) = FlattenSeq(s) \o FlattenSeq(t)
  BY <1>1, FlattenConcat
<1> QED BY <1>2, <1>3, <1>4, <1>5, <1>6

LEMMA WantedOne ==
  ASSUME NEW e \in Nat
  PROVE  MeantOf(Run(e, 1)) = Sends(e + 1)
<1>1. DOMAIN Run(e, 1) = 1..1 /\ Run(e, 1)[1] = e + 1
  BY DEF Run
<1>2. [i \in DOMAIN Run(e, 1) |-> Sends(Run(e, 1)[i])]
        = <<Sends(e + 1)>>
  BY <1>1
<1>3. FlattenSeq(<<Sends(e + 1)>>) = Sends(e + 1)
  BY SendsType, FlattenOne
<1> QED BY <1>2, <1>3 DEF MeantOf

LEMMA WantedLength ==
  ASSUME NEW e \in Nat
  PROVE  Len(Stream!Wanted(e)) = Cardinality((1..e) \ ZeroSector)
<1> DEFINE Meant(n) == (1..n) \ ZeroSector
           T == {n \in Nat : Len(Stream!Wanted(n)) = Cardinality(Meant(n))}
<1>1. 0 \in T
  <2>1. Stream!Wanted(0) = <<>>
    <3>1. [i \in 1..0 |-> Sends(i)] = <<>>
      OBVIOUS
    <3> QED BY <3>1, FlattenEmpty, WantedIs
  <2>2. Meant(0) = {}
    OBVIOUS
  <2> HIDE DEF Meant
  <2> QED BY <2>1, <2>2, FS_EmptySet
<1>2. \A n \in Nat : n \in T => n + 1 \in T
  <2> SUFFICES ASSUME NEW n \in Nat, Len(Stream!Wanted(n)) = Cardinality(Meant(n))
               PROVE  Len(Stream!Wanted(n + 1)) = Cardinality(Meant(n + 1))
    OBVIOUS
  <2>1. Stream!Wanted(n + 1) = Stream!Wanted(n) \o Sends(n + 1)
    BY WantedStep, WantedOne
  <2>2. Stream!Wanted(n) \in Seq(Nat) /\ Sends(n + 1) \in Seq(Nat)
    BY WantedType, SendsType
  <2>3. Len(Stream!Wanted(n + 1)) = Len(Stream!Wanted(n)) + Len(Sends(n + 1))
    BY <2>1, <2>2
  <2>4. IsFiniteSet(Meant(n))
    <3>1. IsFiniteSet(1..n)
      BY FS_Interval
    <3> QED BY <3>1, FS_Difference
  <2>5. CASE n + 1 \in ZeroSector
    <3>1. Meant(n + 1) = Meant(n) /\ Len(Sends(n + 1)) = 0
      BY <2>5 DEF Sends
    <3> HIDE DEF Meant
    <3> QED BY <2>2, <2>3, <3>1
  <2>6. CASE n + 1 \notin ZeroSector
    <3>1. Meant(n + 1) = Meant(n) \cup {n + 1} /\ n + 1 \notin Meant(n) /\ Len(Sends(n + 1)) = 1
      BY <2>6 DEF Sends
    <3> HIDE DEF Meant
    <3>2. Cardinality(Meant(n) \cup {n + 1}) = Cardinality(Meant(n)) + 1
      BY <2>4, <3>1, FS_AddElement
    <3> QED BY <2>2, <2>3, <3>1, <3>2
  <2> QED BY <2>5, <2>6
<1>3. Nat \subseteq T
  <2> HIDE DEF T
  <2> QED BY <1>1, <1>2, AllNumbers
<1> QED BY <1>3

(* What is sent next goes on where the last left off.                        *)
LEMMA WantedGrows ==
  ASSUME NEW e \in Nat, NEW n \in Nat, Stream!Wanted(e) # Stream!Wanted(e + n)
  PROVE  Stream!IsStrictPrefix(Stream!Wanted(e), Stream!Wanted(e + n))
<1> DEFINE s == Stream!Wanted(e)
           t == MeantOf(Run(e, n))
<1>1. /\ s \in Seq(Nat) /\ t \in Seq(Nat) /\ Stream!Wanted(e + n) = s \o t
  BY WantedType, WantedStep
<1>2. s # s \o t
  BY <1>1
<1> HIDE DEF s, t
<1>3. Len(s) <= Len(s \o t) /\ SubSeq(s, 1, Len(s)) = SubSeq(s \o t, 1, Len(s))
  BY <1>1
<1>4. Stream!IsStrictPrefix(s, s \o t)
  BY <1>2, <1>3 DEF Stream!IsStrictPrefix, Stream!IsPrefix
<1> QED BY <1>1, <1>4 DEF s
-----------------------------------------------------------------------------
LEMMA HeadsType == \A i \in 1..NHeads : HeadAt(i) \in Heads
<1> SUFFICES ASSUME NEW i \in 1..(NDevs * NCpus)
             PROVE  HeadAt(i) \in Heads
  BY DEF NHeads
<1> DEFINE q == (i - 1) \div NCpus
           r == (i - 1) % NCpus
<1>1. NDevs \in Nat \ {0} /\ NCpus \in Nat \ {0}
  BY Assumed
<1>2. q \in Int /\ r \in Int /\ 0 <= r /\ r < NCpus /\ i - 1 = NCpus * q + r
  BY <1>1
<1> HIDE DEF q, r
<1>3. q >= 0
  <2> SUFFICES ASSUME q <= -1 PROVE FALSE
    BY <1>2
  <2>1. NCpus * q <= NCpus * (-1)
    BY <1>1, <1>2
  <2> QED BY <1>1, <1>2, <2>1
<1>4. q < NDevs
  <2> SUFFICES ASSUME q >= NDevs PROVE FALSE
    BY <1>1, <1>2
  <2>1. NCpus * q >= NCpus * NDevs /\ NCpus * NDevs = NDevs * NCpus
    BY <1>1, <1>2
  <2> QED BY <1>1, <1>2, <2>1
<1>5. q + 1 \in Devs /\ r + 1 \in Cpus
  BY <1>1, <1>2, <1>3, <1>4 DEF Devs, Cpus
<1> QED BY <1>5 DEF HeadAt, Heads, q, r

LEMMA WrittenType ==
  ASSUME NEW s \in Seq(Nat)
  PROVE  Written(s) \in Seq(Nat)
<1> DEFINE t == [i \in DOMAIN s |-> Sends(s[i])]
<1>1. t \in Seq(Seq(Nat))
  <2>1. DOMAIN s = 1..Len(s) /\ Len(s) \in Nat /\ \A i \in DOMAIN s : s[i] \in Nat
    OBVIOUS
  <2> QED BY <2>1, SendsType
<1>2. MeantOf(s) = FlattenSeq(t)
  BY DEF MeantOf
<1> HIDE DEF t
<1>3. MeantOf(s) \in Seq(Nat)
  BY <1>1, <1>2, FlattenType
<1> QED BY <1>3, WrittenIs

LEMMA EarlyType ==
  ASSUME NEW buf \in Seq(Nat)
  PROVE  Early(buf) \in Seq(Nat)
<1>1. CASE Len(buf) % 2 = 0
  BY <1>1 DEF Early
<1>2. CASE Len(buf) % 2 # 0
  <2>1. Len(buf) \in 1..Len(buf)
    BY <1>2
  <2>2. PICK p \in Nat : p = buf[Len(buf)]
    BY <2>1
  <2>3. EventOf(<<p, p + 1>>) \in Nat
    BY DEF EventOf, Garbled
  <2> QED BY <2>2, <2>3 DEF Early
<1> QED BY <1>1, <1>2

(* What holds of each context: a list is being handled, or was, only within *)
(* a pass, and the last passes begin when every tracer has left.            *)
Passing == {"scan", "take_locked", "handle", "decr_locked"}
AllLeft == \A c \in Cpus : tpc[c] = "left"
PassOf(x) ==
  /\ pass[x].list # <<>> => cpc[x] = "handle"
  /\ cpc[x] = "handle" => pass[x].list # <<>> \/ pass[x].handled > 0
  /\ pass[x].handled > 0 => cpc[x] \in Passing
  /\ cpc[x] \in {"take_locked", "handle"} => pass[x].i <= NHeads
  /\ cpc[x] \in Passing /\ pass[x].caller = "clean" => AllLeft
  /\ cpc[x] \in {"clean", "finished"} => AllLeft
  /\ cpc[x] = "finished" => dp_entries = 0

StepInv ==
  /\ TypeOK
  /\ \A x \in Contexts : PassOf(x)
  /\ \A c \in Cpus : nentries[c] < dev[c] /\ (tpc[c] = "left" => nentries[c] = 0)

(* The signal comes while main waits, or to a program whose handler returns. *)
OnlyWhileWaiting == \A u \in Uses : u.tears_down => ~u.anywhere
Alone ==
  /\ cpc["main"] # "idle"
  /\ cpc["handler"] # "idle" => cpc["main"] = "wait"

(* The context that goes on, the leftover and list it carries for a head,   *)
(* and the pieces on their way from there.                                  *)
Current == IF cpc["handler"] = "idle" THEN "main" ELSE "handler"
BusyWith(h) == cpc[Current] = "handle" /\ HeadAt(pass[Current].i) = h
Way(h) ==
  (IF BusyWith(h) THEN pass[Current].prev \o FlattenSeq(pass[Current].list) ELSE prev[h])
    \o FlattenSeq(queue[h])

(* They are the pieces after the g events dealt with; of those on their way  *)
(* server-proto sent the one whose struct is left over.                      *)
Left(h) == IF BusyWith(h) THEN pass[Current].prev ELSE prev[h]
SentUpTo(g, l, s) ==
  IF use.tears_down THEN s = Stream!Wanted(g)
  ELSE Stream!LastOf(s) = (2 * g + l + 1) \div 2
After(g, h) ==
  /\ got[h] = 2 * g + Len(Way(h))
  /\ Way(h) = Run(2 * g, Len(Way(h)))
  /\ SentUpTo(g, Len(Left(h)), sent[h])
Pieces(h) == \E g \in Nat : After(g, h)
ShortRests ==
  /\ conn = "up" => /\ \A h \in Heads : Len(prev[h]) <= 1
                    /\ \A x \in Contexts : Len(pass[x].prev) <= 1
  /\ conn # "up" => use.tears_down
PieceInv == Alone /\ (\A h \in Heads : Pieces(h)) /\ ShortRests

NumbersOK == NHeads \in Nat \ {0} /\ NDevs \in Nat \ {0} /\ MaxPieces \in Nat \ {0}
LEMMA Numbers == NumbersOK
BY Assumed DEF NHeads, NumbersOK

PassType == [i : 1..(NHeads + 1), list : Seq(Seq(1..MaxPieces)),
             prev : Seq(1..MaxPieces), handled : Nat, caller : {"wait", "clean"}]

(* PassOf, of a context at the label l with the pass p.                      *)
PassAt(l, p, entries) ==
  /\ p.list # <<>> => l = "handle"
  /\ l = "handle" => p.list # <<>> \/ p.handled > 0
  /\ p.handled > 0 => l \in Passing
  /\ l \in {"take_locked", "handle"} => p.i <= NHeads
  /\ l \in Passing /\ p.caller = "clean" => AllLeft
  /\ l \in {"clean", "finished"} => AllLeft
  /\ l = "finished" => entries = 0

LEMMA StepStart == Init => StepInv
<1> SUFFICES ASSUME Init PROVE StepInv
  OBVIOUS
<1>1. NoPass("wait") \in PassType
  BY Numbers DEF NumbersOK, NoPass, PassType
<1>2. TypeOK
  <2>1. <<>> \in Seq(Seq(1..MaxPieces)) /\ <<>> \in Seq(1..MaxPieces) /\ <<>> \in Seq(Nat)
    OBVIOUS
  <2>2. pass \in [Contexts -> PassType]
    BY <1>1 DEF Init
  <2>3. cpc \in [Contexts -> Labels \cup {"idle"}]
    BY DEF Init, Labels
  <2>4. /\ queue \in [Heads -> Seq(Seq(1..MaxPieces))]
        /\ prev \in [Heads -> Seq(1..MaxPieces)]
        /\ sent \in [Heads -> Seq(Nat)]
    BY <2>1 DEF Init
  <2>5. /\ use \in Uses /\ conn \in {"up", "down"} /\ dp_entries \in Int /\ done \in BOOLEAN
        /\ got \in [Heads -> 0..MaxPieces]
        /\ tpc \in [Cpus -> {"poll", "drain", "left"}]
        /\ dev \in [Cpus -> 1..(NDevs + 1)]
        /\ nentries \in [Cpus -> 0..NDevs]
    <3>1. 0 \in 0..MaxPieces /\ 1 \in 1..(NDevs + 1) /\ 0 \in 0..NDevs
      BY Numbers DEF NumbersOK
    <3>2. /\ got = [h \in Heads |-> 0] /\ tpc = [c \in Cpus |-> "poll"]
          /\ dev = [c \in Cpus |-> 1] /\ nentries = [c \in Cpus |-> 0]
      BY DEF Init
    <3>3. use \in Uses /\ conn = "up" /\ dp_entries = 0 /\ done = FALSE
      BY DEF Init
    <3>4. done \in BOOLEAN
      BY <3>3, Zenon
    <3>5. conn \in {"up", "down"} /\ dp_entries \in Int
      BY <3>3
    <3>6. /\ got \in [Heads -> 0..MaxPieces]
          /\ tpc \in [Cpus -> {"poll", "drain", "left"}]
          /\ dev \in [Cpus -> 1..(NDevs + 1)]
          /\ nentries \in [Cpus -> 0..NDevs]
      BY <3>1, <3>2
    <3> QED BY <3>3, <3>4, <3>5, <3>6
  <2> QED BY <2>2, <2>3, <2>4, <2>5 DEF PassType, TypeOK
<1>3. \A x \in Contexts : PassOf(x)
  BY DEF Init, PassOf, NoPass, Passing
<1>4. \A c \in Cpus : nentries[c] < dev[c] /\ (tpc[c] = "left" => nentries[c] = 0)
  BY DEF Init
<1> QED BY <1>2, <1>3, <1>4 DEF StepInv

(* A step of one context.                                                    *)
LEMMA ContextStep ==
  ASSUME StepInv, ~Finished, NEW x \in Contexts, NEW l \in Labels, NEW p \in PassType,
         cpc' = [cpc EXCEPT ![x] = l], pass' = [pass EXCEPT ![x] = p],
         queue' \in [Heads -> Seq(Seq(1..MaxPieces))],
         prev' \in [Heads -> Seq(1..MaxPieces)],
         sent' \in [Heads -> Seq(Nat)],
         conn' \in {"up", "down"}, dp_entries' \in Int,
         UNCHANGED <<use, done, tracerVars>>,
         PassAt(l, p, dp_entries')
  PROVE  StepInv'
<1>1. /\ cpc \in [Contexts -> Labels \cup {"idle"}] /\ pass \in [Contexts -> PassType]
      /\ use \in Uses /\ done \in BOOLEAN
      /\ got \in [Heads -> 0..MaxPieces]
      /\ tpc \in [Cpus -> {"poll", "drain", "left"}]
      /\ dev \in [Cpus -> 1..(NDevs + 1)]
      /\ nentries \in [Cpus -> 0..NDevs]
  BY DEF StepInv, TypeOK, PassType
<1>2. cpc' \in [Contexts -> Labels \cup {"idle"}] /\ pass' \in [Contexts -> PassType]
  BY <1>1
<1>3. TypeOK'
  BY <1>1, <1>2 DEF TypeOK, PassType, tracerVars
<1>4. AllLeft' = AllLeft
  BY DEF AllLeft, tracerVars
<1>5. PassOf(x)'
  <2>1. cpc'[x] = l /\ pass'[x] = p
    BY <1>1
  <2> QED BY <1>4, <2>1 DEF PassOf, PassAt
<1>6. ASSUME NEW y \in Contexts, y # x PROVE PassOf(y)'
  <2>1. cpc'[y] = cpc[y] /\ pass'[y] = pass[y] /\ cpc[y] # "finished"
    BY <1>1, <1>6 DEF Finished
  <2>2. PassOf(y)
    BY DEF StepInv
  <2> QED BY <1>4, <2>1, <2>2 DEF PassOf
<1>7. (\A c \in Cpus : nentries[c] < dev[c] /\ (tpc[c] = "left" => nentries[c] = 0))'
  BY DEF StepInv, tracerVars
<1> QED BY <1>3, <1>5, <1>6, <1>7 DEF StepInv

(* A step of a tracer.                                                       *)
LEMMA TracerStep ==
  ASSUME StepInv, ~Finished, NEW c \in Cpus,
         NEW t \in {"poll", "drain", "left"}, NEW d \in 1..(NDevs + 1), NEW n \in 0..NDevs,
         tpc[c] # "left", tpc' = [tpc EXCEPT ![c] = t], dev' = [dev EXCEPT ![c] = d],
         nentries' = [nentries EXCEPT ![c] = n], n < d, t = "left" => n = 0,
         got' \in [Heads -> 0..MaxPieces],
         queue' \in [Heads -> Seq(Seq(1..MaxPieces))], dp_entries' \in Int,
         UNCHANGED <<use, prev, sent, conn, done, cpc, pass>>
  PROVE  StepInv'
<1>1. /\ cpc \in [Contexts -> Labels \cup {"idle"}] /\ pass \in [Contexts -> PassType]
      /\ tpc \in [Cpus -> {"poll", "drain", "left"}]
      /\ dev \in [Cpus -> 1..(NDevs + 1)]
      /\ nentries \in [Cpus -> 0..NDevs]
  BY DEF StepInv, TypeOK, PassType
<1>2. /\ tpc' \in [Cpus -> {"poll", "drain", "left"}]
      /\ dev' \in [Cpus -> 1..(NDevs + 1)]
      /\ nentries' \in [Cpus -> 0..NDevs]
  BY <1>1
<1>3. TypeOK'
  BY <1>1, <1>2 DEF StepInv, TypeOK
<1>4. ~AllLeft
  BY DEF AllLeft
<1>5. ASSUME NEW y \in Contexts PROVE PassOf(y)'
  <2>1. cpc[y] # "finished"
    BY DEF Finished
  <2>2. PassOf(y)
    BY DEF StepInv
  <2> QED BY <1>4, <2>1, <2>2 DEF PassOf
<1>6. ASSUME NEW b \in Cpus
      PROVE  nentries'[b] < dev'[b] /\ (tpc'[b] = "left" => nentries'[b] = 0)
  <2>1. CASE b = c
    BY <1>1, <2>1
  <2>2. CASE b # c
    <3>1. nentries'[b] = nentries[b] /\ dev'[b] = dev[b] /\ tpc'[b] = tpc[b]
      BY <1>1, <2>2
    <3> QED BY <3>1 DEF StepInv
  <2> QED BY <2>1, <2>2
<1> QED BY <1>3, <1>5, <1>6 DEF StepInv

(* What a buffer is cut into.                                                *)
EventsOf(buf) == [e \in DOMAIN Cut(buf) |-> EventOf(Cut(buf)[e])]

LEMMA EventsType ==
  ASSUME NEW buf \in Seq(Nat)
  PROVE  /\ EventsOf(buf) \in Seq(Nat) /\ Len(EventsOf(buf)) = Len(buf) \div 2
         /\ 2 * Len(EventsOf(buf)) <= Len(buf) /\ Len(buf) <= 2 * Len(EventsOf(buf)) + 1
         /\ \A e \in 1..(Len(buf) \div 2) :
              EventsOf(buf)[e] = EventOf(<<buf[2 * e - 1], buf[2 * e]>>)
<1> DEFINE m == Len(buf) \div 2
<1>1. m \in Nat /\ 2 * m <= Len(buf) /\ Len(buf) <= 2 * m + 1
  OBVIOUS
<1>2. \A e \in 1..m : 2 * e - 1 \in 1..Len(buf) /\ 2 * e \in 1..Len(buf)
  BY <1>1
<1>3. \A e \in 1..m : buf[2 * e - 1] \in Nat /\ buf[2 * e] \in Nat
  BY <1>2
<1>4. DOMAIN Cut(buf) = 1..m /\ \A e \in 1..m : Cut(buf)[e] = <<buf[2 * e - 1], buf[2 * e]>>
  BY DEF Cut
<1>5. \A a, b \in Nat : EventOf(<<a, b>>) \in Nat
  BY DEF EventOf, Garbled
<1> HIDE DEF m
<1>6. /\ EventsOf(buf) = [e \in 1..m |-> EventOf(Cut(buf)[e])]
  BY <1>4 DEF EventsOf
<1>7. \A e \in 1..m : EventOf(Cut(buf)[e]) \in Nat
  BY <1>3, <1>4, <1>5
<1>8. EventsOf(buf) \in Seq(Nat) /\ Len(EventsOf(buf)) = m
  BY <1>1, <1>6, <1>7
<1>9. \A e \in 1..m : EventsOf(buf)[e] = EventOf(<<buf[2 * e - 1], buf[2 * e]>>)
  BY <1>4, <1>6
<1> QED BY <1>1, <1>8, <1>9 DEF m

(* The state of the context a step is of.                                    *)
LEMMA PassHas ==
  ASSUME StepInv, NEW x \in Contexts
  PROVE  /\ pass[x] \in PassType /\ cpc[x] \in Labels \cup {"idle"}
         /\ queue \in [Heads -> Seq(Seq(1..MaxPieces))]
         /\ prev \in [Heads -> Seq(1..MaxPieces)]
         /\ sent \in [Heads -> Seq(Nat)]
         /\ conn \in {"up", "down"} /\ dp_entries \in Int
         /\ PassAt(cpc[x], pass[x], dp_entries)
BY DEF StepInv, TypeOK, PassType, PassOf, PassAt

LEMMA StepStep == StepInv /\ [Next]_vars => StepInv'
<1> SUFFICES ASSUME StepInv, [Next]_vars PROVE StepInv'
  OBVIOUS
<1> USE Numbers DEF NumbersOK
<1>1. CASE UNCHANGED vars
  BY <1>1 DEF vars, tracerVars, StepInv, TypeOK, PassOf, AllLeft
<1>2. ASSUME NEW x \in Contexts, LockEntries(x) PROVE StepInv'
  BY <1>2 DEF LockEntries, At, Goto, tracerVars, StepInv, TypeOK, PassOf, AllLeft, Passing, Labels
<1>3. ASSUME NEW x \in Contexts, WaitEntries(x) PROVE StepInv'
  <2>1. ~Finished /\ cpc[x] = "wait_locked" /\ UNCHANGED <<use, queue, prev, sent, conn, dp_entries, done, tracerVars>>
    BY <1>3 DEF WaitEntries, At, Runs
  <2>2. /\ pass[x] \in PassType /\ PassAt("wait_locked", pass[x], dp_entries)
        /\ pass' = [pass EXCEPT ![x] = pass[x]] <=> UNCHANGED pass
    BY <2>1, PassHas DEF StepInv, TypeOK
  <2>3. CASE ~(pass' = [pass EXCEPT ![x] = NoPass("wait")] /\ cpc' = [cpc EXCEPT ![x] = "scan"])
    <3>1. PICK l \in {"departure", "wait"} : cpc' = [cpc EXCEPT ![x] = l] /\ UNCHANGED pass
      BY <1>3, <2>3 DEF WaitEntries, Goto
    <3>2. l \in Labels /\ PassAt(l, pass[x], dp_entries')
      BY <2>1, <2>2 DEF PassAt, Labels, Passing
    <3> QED BY <2>1, <2>2, <3>1, <3>2, PassHas, ContextStep
  <2>4. CASE pass' = [pass EXCEPT ![x] = NoPass("wait")] /\ cpc' = [cpc EXCEPT ![x] = "scan"]
    <3>1. NoPass("wait") \in PassType /\ "scan" \in Labels /\ PassAt("scan", NoPass("wait"), dp_entries')
      BY DEF NoPass, PassType, Labels, PassAt
    <3> QED BY <2>1, <2>4, <3>1, PassHas, ContextStep
  <2> QED BY <2>3, <2>4
<1>4. ASSUME NEW x \in Contexts, JoinTracers(x) PROVE StepInv'
  BY <1>4 DEF JoinTracers, At, Goto, tracerVars, StepInv, TypeOK, PassOf, AllLeft, Passing, Labels
<1>5. ASSUME NEW x \in Contexts, CleanTraceBufs(x) PROVE StepInv'
  <2>1. ~Finished /\ cpc[x] = "clean" /\ UNCHANGED <<use, queue, prev, sent, conn, dp_entries, done, tracerVars>>
    BY <1>5 DEF CleanTraceBufs, At, Runs
  <2>2. /\ pass[x] \in PassType /\ PassAt("clean", pass[x], dp_entries)
        /\ pass' = [pass EXCEPT ![x] = pass[x]] <=> UNCHANGED pass
    BY <2>1, PassHas DEF StepInv, TypeOK
  <2>3. CASE dp_entries = 0
    <3>1. cpc' = [cpc EXCEPT ![x] = "finished"] /\ UNCHANGED pass
      BY <1>5, <2>3 DEF CleanTraceBufs, Goto
    <3>2. "finished" \in Labels /\ PassAt("finished", pass[x], dp_entries')
      BY <2>1, <2>2, <2>3 DEF PassAt, Labels, Passing
    <3> QED BY <2>1, <2>2, <3>1, <3>2, PassHas, ContextStep
  <2>4. CASE dp_entries # 0
    <3>1. cpc' = [cpc EXCEPT ![x] = "scan"] /\ pass' = [pass EXCEPT ![x] = NoPass("clean")]
      BY <1>5, <2>4 DEF CleanTraceBufs, Goto
    <3>2. /\ NoPass("clean") \in PassType /\ "scan" \in Labels
          /\ PassAt("scan", NoPass("clean"), dp_entries')
      BY <2>2 DEF NoPass, PassType, Labels, PassAt
    <3> QED BY <2>1, <3>1, <3>2, PassHas, ContextStep
  <2> QED BY <2>3, <2>4
<1>6. ASSUME NEW x \in Contexts, LockHead(x) PROVE StepInv'
  BY <1>6 DEF LockHead, At, Goto, tracerVars, StepInv, TypeOK, PassOf, AllLeft, Passing, Labels
<1>7. ASSUME NEW x \in Contexts, TakeList(x) PROVE StepInv'
  <2> DEFINE h == HeadAt(pass[x].i)
             empty == [pass[x] EXCEPT !.i = @ + 1]
             taken == [pass[x] EXCEPT !.list = queue[h], !.prev = prev[h]]
  <2>1. ~Finished /\ cpc[x] = "take_locked" /\ UNCHANGED <<use, prev, sent, conn, dp_entries, done, tracerVars>>
    BY <1>7 DEF TakeList, At, Runs
  <2>2. pass[x] \in PassType /\ PassAt("take_locked", pass[x], dp_entries) /\ pass[x].i \in 1..NHeads
    BY <2>1, PassHas DEF PassAt, PassType
  <2>3. h \in Heads
    BY <2>2, HeadsType
  <2>4. CASE queue[h] = <<>>
    <3>1. /\ cpc' = [cpc EXCEPT ![x] = "scan"] /\ pass' = [pass EXCEPT ![x] = empty]
          /\ UNCHANGED queue
      BY <1>7, <2>4 DEF TakeList, Goto
    <3>2. empty \in PassType
      <4>1. pass[x].i + 1 \in 1..(NHeads + 1)
        BY <2>2
      <4> QED BY <2>2, <4>1 DEF PassType
    <3>3. /\ empty.list = pass[x].list /\ empty.handled = pass[x].handled
          /\ empty.caller = pass[x].caller
      BY <2>2 DEF PassType
    <3> HIDE DEF empty
    <3>4. "scan" \in Labels /\ PassAt("scan", empty, dp_entries')
      BY <2>1, <2>2, <3>3 DEF Labels, PassAt, Passing
    <3> QED BY <2>1, <3>1, <3>2, <3>4, PassHas, ContextStep
  <2>5. CASE queue[h] # <<>>
    <3>1. /\ cpc' = [cpc EXCEPT ![x] = "handle"] /\ pass' = [pass EXCEPT ![x] = taken]
          /\ queue' = [queue EXCEPT ![h] = <<>>]
      BY <1>7, <2>5 DEF TakeList, Goto
    <3>2. queue[h] \in Seq(Seq(1..MaxPieces)) /\ prev[h] \in Seq(1..MaxPieces)
      BY <2>3, PassHas
    <3>3. taken \in PassType /\ "handle" \in Labels /\ PassAt("handle", taken, dp_entries')
      BY <2>1, <2>2, <2>5, <3>2 DEF PassType, Labels, PassAt, Passing
    <3>4. queue' \in [Heads -> Seq(Seq(1..MaxPieces))]
      <4>1. <<>> \in Seq(Seq(1..MaxPieces))
        OBVIOUS
      <4> QED BY <3>1, <4>1, PassHas
    <3> HIDE DEF taken
    <3> QED BY <2>1, <3>1, <3>3, <3>4, PassHas, ContextStep
  <2> QED BY <2>4, <2>5
<1>8. ASSUME NEW x \in Contexts, HandleBuffer(x) PROVE StepInv'
  <2> DEFINE buf == Combine(x)
             events == EventsOf(buf)
             h == HeadAt(pass[x].i)
             next(n) == [pass[x] EXCEPT !.list = Tail(@), !.prev = Rest(buf, n), !.handled = @ + 1]
  <2>1. /\ ~Finished /\ cpc[x] = "handle" /\ pass[x].list # <<>>
        /\ UNCHANGED <<use, queue, prev, dp_entries, done, tracerVars, cpc>>
    BY <1>8 DEF HandleBuffer, At, Runs
  <2>2. PICK n \in 0..Len(events) :
          /\ sent' = [sent EXCEPT ![h] = @ \o Written(SubSeq(events, 1, n)) \o Early(buf)]
          /\ conn' = IF n < Len(events) THEN "down" ELSE conn
          /\ pass' = [pass EXCEPT ![x] = next(n)]
    BY <1>8 DEF HandleBuffer, EventsOf
  <2>3. /\ pass[x] \in PassType /\ PassAt("handle", pass[x], dp_entries)
        /\ pass[x].list \in Seq(Seq(1..MaxPieces)) /\ pass[x].prev \in Seq(1..MaxPieces)
        /\ pass[x].handled \in Nat
    BY <2>1, PassHas DEF PassType
  <2>4. buf \in Seq(1..MaxPieces) /\ buf \in Seq(Nat)
    <3>1. Head(pass[x].list) \in Seq(1..MaxPieces)
      BY <2>1, <2>3
    <3>2. buf \in Seq(1..MaxPieces)
      BY <2>3, <3>1 DEF Combine
    <3> QED BY <3>2
  <2> HIDE DEF buf
  <2>5. events \in Seq(Nat) /\ 2 * Len(events) <= Len(buf)
    BY <2>4, EventsType
  <2>6. Rest(buf, n) \in Seq(1..MaxPieces)
    <3>1. 2 * n + 1 \in Nat /\ 2 * n + 1 >= 1 /\ Len(buf) \in Nat
      BY <2>4, <2>5
    <3> QED BY <2>4, <3>1 DEF Rest
  <2>7. Tail(pass[x].list) \in Seq(Seq(1..MaxPieces))
    BY <2>1, <2>3, HeadTailProperties
  <2>8. next(n) \in PassType /\ "handle" \in Labels /\ PassAt("handle", next(n), dp_entries')
    <3>1. next(n) \in PassType
      <4>1. pass[x].handled + 1 \in Nat
        BY <2>3
      <4> DEFINE t == Tail(pass[x].list)
                 r == Rest(buf, n)
      <4> HIDE DEF t, r
      <4>2. [pass[x] EXCEPT !.list = t, !.prev = r, !.handled = @ + 1] \in PassType
        BY <2>3, <2>6, <2>7, <4>1 DEF PassType, t, r
      <4> QED BY <4>2 DEF t, r
    <3>2. /\ next(n).i = pass[x].i /\ next(n).handled = pass[x].handled + 1
          /\ next(n).caller = pass[x].caller
      BY <2>3 DEF PassType
    <3> HIDE DEF next
    <3>3. PassAt("handle", next(n), dp_entries')
      BY <2>1, <2>3, <3>2 DEF PassAt, Passing
    <3> QED BY <3>1, <3>3 DEF Labels
  <2>9. sent' \in [Heads -> Seq(Nat)]
    <3>1. SubSeq(events, 1, n) \in Seq(Nat)
      <4> HIDE DEF events
      <4> QED BY <2>5
    <3>2. Written(SubSeq(events, 1, n)) \in Seq(Nat) /\ Early(buf) \in Seq(Nat)
      BY <2>4, <3>1, WrittenType, EarlyType
    <3>3. sent \in [Heads -> Seq(Nat)]
      BY PassHas
    <3> HIDE DEF events, h
    <3> DEFINE w == Written(SubSeq(events, 1, n))
               e == Early(buf)
    <3>4. \A k \in Heads : sent[k] \o w \o e \in Seq(Nat)
      <4>1. w \in Seq(Nat) /\ e \in Seq(Nat)
        BY <3>2
      <4> HIDE DEF w, e
      <4> QED BY <3>3, <4>1
    <3>5. sent' = [sent EXCEPT ![h] = sent[h] \o w \o e]
      BY <2>2
    <3> HIDE DEF w, e
    <3> QED BY <3>3, <3>4, <3>5
  <2>10. conn' \in {"up", "down"}
    BY <2>2, PassHas
  <2>11. cpc' = [cpc EXCEPT ![x] = "handle"]
    BY <2>1 DEF StepInv, TypeOK
  <2> HIDE DEF next, events, h
  <2> QED BY <2>1, <2>2, <2>8, <2>9, <2>10, <2>11, PassHas, ContextStep
<1>9. ASSUME NEW x \in Contexts, StorePrev(x) PROVE StepInv'
  <2> DEFINE p == [pass[x] EXCEPT !.i = @ + 1, !.prev = <<>>]
  <2>1. /\ ~Finished /\ cpc[x] = "handle" /\ pass[x].list = <<>>
        /\ cpc' = [cpc EXCEPT ![x] = "scan"] /\ pass' = [pass EXCEPT ![x] = p]
        /\ prev' = [prev EXCEPT ![HeadAt(pass[x].i)] = pass[x].prev]
        /\ UNCHANGED <<use, queue, sent, conn, dp_entries, done, tracerVars>>
    BY <1>9 DEF StorePrev, At, Runs, Goto
  <2>2. pass[x] \in PassType /\ PassAt("handle", pass[x], dp_entries) /\ pass[x].i \in 1..NHeads
    BY <2>1, PassHas DEF PassAt, PassType
  <2>3. p \in PassType /\ "scan" \in Labels /\ PassAt("scan", p, dp_entries')
    <3>1. <<>> \in Seq(1..MaxPieces)
      OBVIOUS
    <3>2. p \in PassType
      <4>1. pass[x].i + 1 \in 1..(NHeads + 1)
        BY <2>2
      <4> QED BY <2>2, <3>1, <4>1 DEF PassType
    <3>3. p.list = <<>> /\ p.handled = pass[x].handled /\ p.caller = pass[x].caller
      BY <2>1, <2>2 DEF PassType
    <3> HIDE DEF p
    <3>4. PassAt("scan", p, dp_entries')
      BY <2>1, <2>2, <3>3 DEF PassAt, Passing
    <3> QED BY <3>2, <3>4 DEF Labels
  <2>4. prev' \in [Heads -> Seq(1..MaxPieces)]
    BY <2>1, <2>2, PassHas DEF PassType
  <2> HIDE DEF p
  <2> QED BY <2>1, <2>3, <2>4, PassHas, ContextStep
<1>10. ASSUME NEW x \in Contexts, EndScan(x) PROVE StepInv'
  <2>1. ~Finished /\ cpc[x] = "scan" /\ UNCHANGED <<use, queue, prev, sent, conn, dp_entries, done, tracerVars, pass>>
    BY <1>10 DEF EndScan, At, Runs
  <2>2. /\ pass[x] \in PassType /\ PassAt("scan", pass[x], dp_entries)
        /\ pass' = [pass EXCEPT ![x] = pass[x]]
    BY <2>1, PassHas DEF StepInv, TypeOK
  <2> DEFINE l == IF pass[x].handled = 0 THEN pass[x].caller ELSE "decr_locked"
  <2>3. cpc' = [cpc EXCEPT ![x] = l]
    BY <1>10 DEF EndScan, Goto
  <2>4. l \in Labels /\ PassAt(l, pass[x], dp_entries')
    BY <2>1, <2>2 DEF PassType, Labels, PassAt, Passing
  <2> HIDE DEF l
  <2> QED BY <2>1, <2>2, <2>3, <2>4, PassHas, ContextStep
<1>11. ASSUME NEW x \in Contexts, DecrEntries(x) PROVE StepInv'
  <2> DEFINE p == [pass[x] EXCEPT !.handled = 0]
             l == pass[x].caller
  <2>1. /\ ~Finished /\ cpc[x] = "decr_locked"
        /\ cpc' = [cpc EXCEPT ![x] = l] /\ pass' = [pass EXCEPT ![x] = p]
        /\ dp_entries' = dp_entries - pass[x].handled
        /\ UNCHANGED <<use, queue, prev, sent, conn, done, tracerVars>>
    BY <1>11 DEF DecrEntries, Decr, At, Runs, Goto
  <2>2. /\ pass[x] \in PassType /\ PassAt("decr_locked", pass[x], dp_entries)
    BY <2>1, PassHas
  <2>3. p \in PassType /\ l \in Labels /\ PassAt(l, p, dp_entries')
    <3>1. p \in PassType /\ l \in {"wait", "clean"}
      BY <2>2 DEF PassType
    <3>2. p.list = pass[x].list /\ p.handled = 0 /\ p.caller = l
      BY <2>2 DEF PassType
    <3>3. p.list = <<>> /\ (l = "clean" => AllLeft)
      BY <2>2, <3>2 DEF PassAt, Passing
    <3> HIDE DEF p, l
    <3>4. PassAt(l, p, dp_entries')
      BY <3>1, <3>2, <3>3 DEF PassAt, Passing
    <3> QED BY <3>1, <3>4 DEF Labels
  <2>4. dp_entries' \in Int
    BY <2>1, <2>2, PassHas DEF PassType
  <2> HIDE DEF p, l
  <2> QED BY <2>1, <2>3, <2>4, PassHas, ContextStep
<1>12. CASE Signal
  <2>1. /\ cpc' = IF use.tears_down THEN [cpc EXCEPT !["handler"] = "wait"] ELSE cpc
        /\ cpc["handler"] = "idle" /\ done' = TRUE
        /\ UNCHANGED <<use, queue, prev, sent, conn, dp_entries, tracerVars, pass>>
    BY <1>12 DEF Signal, Runs, Goto
  <2>2. TypeOK'
    <3>1. cpc' \in [Contexts -> Labels \cup {"idle"}]
      BY <2>1 DEF StepInv, TypeOK, Labels
    <3>2. done' \in BOOLEAN
      BY <2>1, Zenon
    <3> QED BY <2>1, <3>1, <3>2 DEF StepInv, TypeOK, tracerVars
  <2>3. ASSUME NEW x \in Contexts PROVE PassOf(x)'
    <3>1. /\ cpc'[x] = cpc[x] \/ (cpc[x] = "idle" /\ cpc'[x] = "wait")
          /\ pass' = pass /\ dp_entries' = dp_entries
      BY <2>1 DEF StepInv, TypeOK, Contexts
    <3>2. AllLeft' = AllLeft
      BY <2>1 DEF AllLeft, tracerVars
    <3>3. PassOf(x)
      BY DEF StepInv
    <3> QED BY <3>1, <3>2, <3>3 DEF PassOf, Passing
  <2>4. (\A c \in Cpus : nentries[c] < dev[c] /\ (tpc[c] = "left" => nentries[c] = 0))'
    BY <2>1 DEF StepInv, tracerVars
  <2> QED BY <2>2, <2>3, <2>4 DEF StepInv
<1>13. ASSUME NEW c \in Cpus, ReadDevice(c), ~Finished PROVE StepInv'
  <2> DEFINE h == <<dev[c], c>>
  <2>1. /\ tpc[c] \in {"poll", "drain"} /\ dev[c] <= NDevs
        /\ dev' = [dev EXCEPT ![c] = @ + 1]
        /\ UNCHANGED <<use, prev, sent, conn, dp_entries, done, tpc, cpc, pass>>
    BY <1>13 DEF ReadDevice
  <2>2. /\ dev \in [Cpus -> 1..(NDevs + 1)] /\ nentries \in [Cpus -> 0..NDevs]
        /\ tpc \in [Cpus -> {"poll", "drain", "left"}]
        /\ got \in [Heads -> 0..MaxPieces] /\ dp_entries \in Int
        /\ queue \in [Heads -> Seq(Seq(1..MaxPieces))] /\ nentries[c] < dev[c]
    BY DEF StepInv, TypeOK
  <2>3. /\ dev[c] + 1 \in 1..(NDevs + 1) /\ tpc' = [tpc EXCEPT ![c] = tpc[c]] /\ h \in Heads
        /\ tpc[c] \in {"poll", "drain", "left"} /\ tpc[c] # "left"
    BY <2>1, <2>2 DEF Heads, Devs
  <2>4. PICK n \in 0..ReadSize :
          IF n = 0 THEN UNCHANGED <<got, queue, nentries>>
          ELSE /\ Total(got) + n <= MaxPieces
               /\ queue' = [queue EXCEPT ![h] = Append(@, [i \in 1..n |-> got[h] + i])]
               /\ got' = [got EXCEPT ![h] = @ + n]
               /\ nentries' = [nentries EXCEPT ![c] = @ + 1]
    BY <1>13 DEF ReadDevice
  <2> HIDE DEF h
  <2>5. CASE n = 0
    <3>1. /\ nentries' = [nentries EXCEPT ![c] = nentries[c]] /\ nentries[c] \in 0..NDevs
          /\ nentries[c] < dev[c] + 1 /\ got' = got /\ queue' = queue
          /\ dp_entries' = dp_entries
      BY <2>1, <2>2, <2>4, <2>5
    <3>2. dev' = [dev EXCEPT ![c] = dev[c] + 1]
      BY <2>1
    <3> QED BY <1>13, <2>1, <2>2, <2>3, <3>1, <3>2, TracerStep
  <2>6. CASE n # 0
    <3>1. /\ Total(got) + n <= MaxPieces
          /\ queue' = [queue EXCEPT ![h] = Append(@, [i \in 1..n |-> got[h] + i])]
          /\ got' = [got EXCEPT ![h] = @ + n]
          /\ nentries' = [nentries EXCEPT ![c] = nentries[c] + 1]
      BY <2>4, <2>6
    <3>2. got \in [Heads -> Nat] /\ n \in Nat
      BY <2>2, Assumed
    <3>3. got[h] <= Total(got) /\ Total(got) \in Nat /\ got[h] \in Nat
      BY <2>3, <3>2, FiniteDomains, TotalAtLeast, TotalType
    <3>4. got[h] + n \in 0..MaxPieces
      BY <3>1, <3>2, <3>3
    <3>5. got' \in [Heads -> 0..MaxPieces]
      BY <2>2, <3>1, <3>4
    <3> DEFINE b == [i \in 1..n |-> got[h] + i]
    <3>6. b \in Seq(1..MaxPieces)
      <4>1. \A i \in 1..n : got[h] + i \in 1..MaxPieces
        BY <3>2, <3>3, <3>4
      <4> QED BY <3>2, <4>1
    <3>7. queue' \in [Heads -> Seq(Seq(1..MaxPieces))]
      <4> HIDE DEF b
      <4>1. Append(queue[h], b) \in Seq(Seq(1..MaxPieces))
        <5>1. queue[h] \in Seq(Seq(1..MaxPieces))
          BY <2>2, <2>3
        <5> QED BY <3>6, <5>1
      <4>2. queue' = [queue EXCEPT ![h] = Append(queue[h], b)]
        BY <3>1 DEF b
      <4> QED BY <2>2, <4>1, <4>2
    <3>8. nentries[c] + 1 \in 0..NDevs /\ nentries[c] + 1 < dev[c] + 1
      BY <2>1, <2>2
    <3>9. dev' = [dev EXCEPT ![c] = dev[c] + 1] /\ dp_entries' = dp_entries
      BY <2>1
    <3> QED BY <1>13, <2>1, <2>2, <2>3, <3>1, <3>5, <3>7, <3>8, <3>9, TracerStep
  <2> QED BY <2>5, <2>6
<1>14. ASSUME NEW c \in Cpus, EndPass(c), ~Finished PROVE StepInv'
  <2>1. /\ tpc[c] \in {"poll", "drain"}
        /\ dp_entries' = IF nentries[c] > 0 THEN dp_entries + nentries[c] ELSE dp_entries
        /\ nentries' = [nentries EXCEPT ![c] = 0]
        /\ dev' = [dev EXCEPT ![c] = 1]
        /\ tpc' = [tpc EXCEPT ![c] = AfterPass(c)]
        /\ UNCHANGED <<use, got, queue, prev, sent, conn, done, cpc, pass>>
    BY <1>14 DEF EndPass, Incr, NewEntries
  <2>2. /\ nentries \in [Cpus -> 0..NDevs] /\ dp_entries \in Int
        /\ got \in [Heads -> 0..MaxPieces] /\ queue \in [Heads -> Seq(Seq(1..MaxPieces))]
    BY DEF StepInv, TypeOK
  <2>3. dp_entries' \in Int /\ 0 \in 0..NDevs /\ 1 \in 1..(NDevs + 1) /\ 0 < 1
    BY <2>1, <2>2
  <2>4. AfterPass(c) \in {"poll", "drain", "left"} /\ tpc[c] # "left"
    BY <2>1 DEF AfterPass
  <2> QED BY <1>14, <2>1, <2>2, <2>3, <2>4, TracerStep
<1>15. CASE Terminated
  BY <1>1, <1>15 DEF Terminated
<1> QED
  BY <1>1, <1>2, <1>3, <1>4, <1>5, <1>6, <1>7, <1>8, <1>9, <1>10, <1>11, <1>12, <1>13,
     <1>14, <1>15 DEF Next, Tracer, Context

(* Nothing has a value it may not have: among others a pass is at a head of  *)
(* the table while it holds the mutex of its list, however its turns fall.   *)
THEOREM TypeCorrect == Spec => []TypeOK
<1>1. StepInv => TypeOK
  BY DEF StepInv
<1> QED BY <1>1, StepStart, StepStep, PTL DEF Spec
-----------------------------------------------------------------------------
(* The count of the buffers.                                                 *)
Queued == [h \in Heads |-> Len(queue[h])]
Handling == [x \in Contexts |-> Len(pass[x].list) + pass[x].handled]

CountsTyped ==
  /\ Queued \in [Heads -> Nat] /\ Handling \in [Contexts -> Nat]
  /\ nentries \in [Cpus -> Nat] /\ dp_entries \in Int
  /\ EntriesConserved <=> dp_entries = Total(Queued) + Total(Handling) - Total(nentries)

LEMMA CountTypes == StepInv => CountsTyped
<1> SUFFICES ASSUME StepInv PROVE CountsTyped
  OBVIOUS
<1>1. /\ queue \in [Heads -> Seq(Seq(1..MaxPieces))]
      /\ \A x \in Contexts : pass[x] \in PassType
      /\ nentries \in [Cpus -> 0..NDevs] /\ dp_entries \in Int
  BY DEF StepInv, TypeOK, PassType
<1>2. \A h \in Heads : Len(queue[h]) \in Nat
  BY <1>1
<1>3. \A x \in Contexts : Len(pass[x].list) + pass[x].handled \in Nat
  <2> TAKE x \in Contexts
  <2>1. pass[x].list \in Seq(Seq(1..MaxPieces)) /\ pass[x].handled \in Nat
    BY <1>1 DEF PassType
  <2> QED BY <2>1
<1>4. nentries \in [Cpus -> Nat]
  BY <1>1, Numbers DEF NumbersOK
<1> QED BY <1>1, <1>2, <1>3, <1>4 DEF CountsTyped, Queued, Handling, EntriesConserved

(* A step that adds to, or takes from, one of each.                          *)
LEMMA CountStep ==
  ASSUME StepInv, StepInv', EntriesConserved,
         NEW x \in Contexts, NEW h \in Heads, NEW c \in Cpus,
         \A y \in Contexts : y # x => Handling'[y] = Handling[y],
         \A k \in Heads : k # h => Queued'[k] = Queued[k],
         \A b \in Cpus : b # c => nentries'[b] = nentries[b],
         dp_entries' = dp_entries + (Queued'[h] - Queued[h]) + (Handling'[x] - Handling[x])
                       - (nentries'[c] - nentries[c])
  PROVE  EntriesConserved'
<1>1. /\ Queued \in [Heads -> Nat] /\ Handling \in [Contexts -> Nat]
      /\ nentries \in [Cpus -> Nat] /\ dp_entries \in Int
      /\ dp_entries = Total(Queued) + Total(Handling) - Total(nentries)
  BY CountTypes DEF CountsTyped
<1>2. /\ Queued' \in [Heads -> Nat] /\ Handling' \in [Contexts -> Nat]
      /\ nentries' \in [Cpus -> Nat] /\ dp_entries' \in Int
      /\ EntriesConserved' <=> dp_entries' = Total(Queued') + Total(Handling') - Total(nentries')
  <2>1. CountsTyped'
    BY CountTypes, PTL
  <2> QED BY <2>1 DEF CountsTyped
<1>3. Total(Queued') = Total(Queued) - Queued[h] + Queued'[h]
  BY <1>1, <1>2, FiniteDomains, TotalChange
<1>4. Total(Handling') = Total(Handling) - Handling[x] + Handling'[x]
  BY <1>1, <1>2, FiniteDomains, TotalChange
<1>5. Total(nentries') = Total(nentries) - nentries[c] + nentries'[c]
  BY <1>1, <1>2, FiniteDomains, TotalChange
<1>6. /\ Total(Queued) \in Nat /\ Total(Handling) \in Nat /\ Total(nentries) \in Nat
      /\ Queued[h] \in Nat /\ Handling[x] \in Nat /\ nentries[c] \in Nat
      /\ Queued'[h] \in Nat /\ Handling'[x] \in Nat /\ nentries'[c] \in Nat
  BY <1>1, <1>2, FiniteDomains, TotalType
<1> QED BY <1>1, <1>2, <1>3, <1>4, <1>5, <1>6

LEMMA EntriesStart == Init => EntriesConserved
<1> SUFFICES ASSUME Init PROVE EntriesConserved
  OBVIOUS
<1>1. StepInv
  BY StepStart
<1>2. Total(Queued) = 0
  <2>1. DOMAIN Queued = Heads /\ \A h \in Heads : Queued[h] = 0
    BY DEF Init, Queued
  <2> QED BY <2>1, TotalOfZeros
<1>3. Total(Handling) = 0
  <2>1. \A x \in Contexts : Len(pass[x].list) + pass[x].handled = 0
    BY DEF Init, NoPass
  <2>2. DOMAIN Handling = Contexts /\ \A x \in Contexts : Handling[x] = 0
    BY <2>1 DEF Handling
  <2> QED BY <2>2, TotalOfZeros
<1>4. Total(nentries) = 0
  <2>1. DOMAIN nentries = Cpus /\ \A c \in Cpus : nentries[c] = 0
    BY DEF Init
  <2> QED BY <2>1, TotalOfZeros
<1>5. dp_entries = 0
  BY DEF Init
<1> QED BY <1>1, <1>2, <1>3, <1>4, <1>5, CountTypes DEF CountsTyped

LEMMA EntriesStep == StepInv /\ EntriesConserved /\ [Next]_vars => EntriesConserved'
<1> SUFFICES ASSUME StepInv, EntriesConserved, [Next]_vars PROVE EntriesConserved'
  OBVIOUS
<1>1. StepInv'
  BY StepStep
<1>2. PICK h0 \in Heads, c0 \in Cpus : TRUE
  <2>1. 1 \in Devs /\ 1 \in Cpus
    BY Assumed DEF Devs, Cpus
  <2>2. <<1, 1>> \in Heads
    BY <2>1 DEF Heads
  <2> QED BY <2>1, <2>2
<1>3. /\ \A h \in Heads : Queued[h] \in Nat
      /\ \A x \in Contexts : Handling[x] \in Nat
      /\ \A c \in Cpus : nentries[c] \in Nat
      /\ dp_entries \in Int
  BY CountTypes DEF CountsTyped
<1>4. ASSUME UNCHANGED <<queue, pass, dp_entries, nentries>> PROVE EntriesConserved'
  BY <1>4 DEF EntriesConserved
(* A pass starts or goes on with the same buffers.                           *)
<1>5. ASSUME NEW x \in Contexts, NEW p, pass' = [pass EXCEPT ![x] = p],
             Len(p.list) + p.handled = Handling[x], UNCHANGED <<queue, dp_entries, nentries>>
      PROVE  EntriesConserved'
  <2>1. pass \in [Contexts -> PassType]
    BY DEF StepInv, TypeOK, PassType
  <2>2. Handling'[x] = Handling[x] /\ \A y \in Contexts : y # x => Handling'[y] = Handling[y]
    BY <1>5, <2>1 DEF Handling
  <2>3. Queued' = Queued /\ nentries' = nentries
    BY <1>5 DEF Queued
  <2>4. dp_entries' = dp_entries + (Queued'[h0] - Queued[h0]) + (Handling'[x] - Handling[x])
                       - (nentries'[c0] - nentries[c0])
    BY <1>2, <1>3, <1>5, <2>2, <2>3
  <2> QED BY <1>1, <1>2, <2>2, <2>3, <2>4, CountStep
<1>6. ASSUME NEW x \in Contexts
      PROVE  /\ pass[x] \in PassType /\ Handling[x] = Len(pass[x].list) + pass[x].handled
             /\ pass[x].handled \in Nat /\ pass[x].list \in Seq(Seq(1..MaxPieces))
             /\ PassAt(cpc[x], pass[x], dp_entries)
  BY PassHas DEF Handling, PassType
<1>7. ASSUME NEW x \in Contexts, WaitEntries(x) PROVE EntriesConserved'
  <2>1. cpc[x] = "wait_locked" /\ UNCHANGED <<queue, dp_entries, nentries>>
    BY <1>7 DEF WaitEntries, At, tracerVars
  <2>2. Handling[x] = 0
    BY <1>6, <2>1 DEF PassAt, Passing
  <2>3. Len(NoPass("wait").list) + NoPass("wait").handled = 0
    BY DEF NoPass
  <2>4. UNCHANGED pass \/ pass' = [pass EXCEPT ![x] = NoPass("wait")]
    BY <1>7 DEF WaitEntries
  <2> QED BY <1>4, <1>5, <2>1, <2>2, <2>3, <2>4
<1>8. ASSUME NEW x \in Contexts, CleanTraceBufs(x) PROVE EntriesConserved'
  <2>1. cpc[x] = "clean" /\ UNCHANGED <<queue, dp_entries, nentries>>
    BY <1>8 DEF CleanTraceBufs, At, tracerVars
  <2>2. Handling[x] = 0
    BY <1>6, <2>1 DEF PassAt, Passing
  <2>3. Len(NoPass("clean").list) + NoPass("clean").handled = 0
    BY DEF NoPass
  <2>4. UNCHANGED pass \/ pass' = [pass EXCEPT ![x] = NoPass("clean")]
    BY <1>8 DEF CleanTraceBufs
  <2> QED BY <1>4, <1>5, <2>1, <2>2, <2>3, <2>4
<1>9. ASSUME NEW x \in Contexts, TakeList(x) PROVE EntriesConserved'
  <2> DEFINE h == HeadAt(pass[x].i)
             empty == [pass[x] EXCEPT !.i = @ + 1]
             taken == [pass[x] EXCEPT !.list = queue[h], !.prev = prev[h]]
  <2>1. cpc[x] = "take_locked" /\ UNCHANGED <<dp_entries, nentries>>
    BY <1>9 DEF TakeList, At, tracerVars
  <2>2. h \in Heads
    BY <1>6, <2>1, HeadsType DEF PassAt, PassType
  <2>3. CASE queue[h] = <<>>
    <3>1. pass' = [pass EXCEPT ![x] = empty] /\ UNCHANGED queue
      BY <1>9, <2>3 DEF TakeList
    <3>2. Len(empty.list) + empty.handled = Handling[x]
      BY <1>6 DEF PassType
    <3> HIDE DEF empty
    <3> QED BY <1>5, <2>1, <3>1, <3>2
  <2>4. CASE queue[h] # <<>>
    <3>1. pass' = [pass EXCEPT ![x] = taken] /\ queue' = [queue EXCEPT ![h] = <<>>]
      BY <1>9, <2>4 DEF TakeList
    <3>2. taken.list = queue[h] /\ taken.handled = pass[x].handled /\ pass[x].list = <<>>
      BY <1>6, <2>1 DEF PassType, PassAt
    <3>3. pass \in [Contexts -> PassType] /\ queue \in [Heads -> Seq(Seq(1..MaxPieces))]
      BY DEF StepInv, TypeOK, PassType
    <3> HIDE DEF taken, h
    <3>4. /\ Handling'[x] = Len(queue[h]) + pass[x].handled
          /\ \A y \in Contexts : y # x => Handling'[y] = Handling[y]
      BY <3>1, <3>2, <3>3 DEF Handling
    <3>5. Queued'[h] = 0 /\ Queued[h] = Len(queue[h])
      BY <2>2, <3>1, <3>3 DEF Queued
    <3>6. \A k \in Heads : k # h => Queued'[k] = Queued[k]
      BY <3>1, <3>3 DEF Queued
    <3>7. Handling[x] = pass[x].handled
      BY <1>6, <3>2
    <3>8. dp_entries' = dp_entries + (Queued'[h] - Queued[h]) + (Handling'[x] - Handling[x])
                         - (nentries'[c0] - nentries[c0])
      BY <1>2, <1>3, <1>6, <2>1, <2>2, <3>4, <3>5, <3>7
    <3> QED BY <1>1, <1>2, <2>1, <2>2, <3>4, <3>6, <3>8, CountStep
  <2> QED BY <2>3, <2>4
<1>10. ASSUME NEW x \in Contexts, HandleBuffer(x) PROVE EntriesConserved'
  <2>1. pass[x].list # <<>> /\ UNCHANGED <<queue, dp_entries, nentries>>
    BY <1>10 DEF HandleBuffer, At, tracerVars
  <2>2. PICK n : pass' = [pass EXCEPT ![x].list = Tail(@), ![x].prev = Rest(Combine(x), n),
                                      ![x].handled = @ + 1]
    BY <1>10 DEF HandleBuffer
  <2> DEFINE p == [pass[x] EXCEPT !.list = Tail(@), !.prev = Rest(Combine(x), n), !.handled = @ + 1]
  <2>3. pass' = [pass EXCEPT ![x] = p]
    BY <2>2
  <2>4. p.list = Tail(pass[x].list) /\ p.handled = pass[x].handled + 1
    BY <1>6 DEF PassType
  <2>5. Len(Tail(pass[x].list)) = Len(pass[x].list) - 1 /\ Len(pass[x].list) \in Nat
    BY <1>6, <2>1
  <2> HIDE DEF p
  <2>6. Len(p.list) + p.handled = Handling[x]
    <3>1. pass[x].handled \in Nat /\ Handling[x] = Len(pass[x].list) + pass[x].handled
      BY <1>6
    <3> QED BY <2>4, <2>5, <3>1, SMTT(30)
  <2> QED BY <1>5, <2>1, <2>3, <2>6
<1>11. ASSUME NEW x \in Contexts, StorePrev(x) PROVE EntriesConserved'
  <2> DEFINE p == [pass[x] EXCEPT !.i = @ + 1, !.prev = <<>>]
  <2>1. pass' = [pass EXCEPT ![x] = p] /\ UNCHANGED <<queue, dp_entries, nentries>>
    BY <1>11 DEF StorePrev, tracerVars
  <2>2. Len(p.list) + p.handled = Handling[x]
    BY <1>6 DEF PassType
  <2> HIDE DEF p
  <2> QED BY <1>5, <2>1, <2>2
<1>12. ASSUME NEW x \in Contexts, DecrEntries(x) PROVE EntriesConserved'
  <2> DEFINE p == [pass[x] EXCEPT !.handled = 0]
  <2>1. /\ pass' = [pass EXCEPT ![x] = p] /\ UNCHANGED <<queue, nentries>>
        /\ dp_entries' = dp_entries - pass[x].handled
    BY <1>12 DEF DecrEntries, Decr, tracerVars
  <2>2. p.list = pass[x].list /\ p.handled = 0
    BY <1>6 DEF PassType
  <2>3. pass \in [Contexts -> PassType]
    BY DEF StepInv, TypeOK, PassType
  <2> HIDE DEF p
  <2>4. /\ Handling'[x] = Len(pass[x].list) + 0
        /\ \A y \in Contexts : y # x => Handling'[y] = Handling[y]
    BY <2>1, <2>2, <2>3 DEF Handling
  <2>5. Queued' = Queued
    BY <2>1 DEF Queued
  <2>6. Len(pass[x].list) \in Nat
    BY <1>6
  <2>7. dp_entries' = dp_entries + (Queued'[h0] - Queued[h0]) + (Handling'[x] - Handling[x])
                       - (nentries'[c0] - nentries[c0])
    BY <1>2, <1>3, <1>6, <2>1, <2>4, <2>5, <2>6, SMTT(30)
  <2> QED BY <1>1, <1>2, <2>1, <2>4, <2>5, <2>7, CountStep
<1>13. ASSUME NEW c \in Cpus, ReadDevice(c) PROVE EntriesConserved'
  <2> DEFINE h == <<dev[c], c>>
  <2>1. dev[c] <= NDevs /\ UNCHANGED <<dp_entries, pass>>
    BY <1>13 DEF ReadDevice
  <2>2. /\ dev[c] \in 1..(NDevs + 1) /\ nentries \in [Cpus -> 0..NDevs]
        /\ queue \in [Heads -> Seq(Seq(1..MaxPieces))]
    BY DEF StepInv, TypeOK
  <2>3. h \in Heads
    BY <2>1, <2>2 DEF Heads, Devs
  <2>4. PICK n \in 0..ReadSize :
          IF n = 0 THEN UNCHANGED <<got, queue, nentries>>
          ELSE /\ queue' = [queue EXCEPT ![h] = Append(@, [i \in 1..n |-> got[h] + i])]
               /\ nentries' = [nentries EXCEPT ![c] = @ + 1]
    BY <1>13 DEF ReadDevice
  <2> HIDE DEF h
  <2>5. CASE n = 0
    BY <1>4, <2>1, <2>4, <2>5
  <2>6. CASE n # 0
    <3> DEFINE b == [i \in 1..n |-> got[h] + i]
    <3>1. /\ queue' = [queue EXCEPT ![h] = Append(queue[h], b)]
          /\ nentries' = [nentries EXCEPT ![c] = @ + 1]
      BY <2>4, <2>6
    <3> HIDE DEF b
    <3>2. Len(Append(queue[h], b)) = Len(queue[h]) + 1
      BY <2>2, <2>3
    <3>3. Queued'[h] = Queued[h] + 1
      BY <2>2, <2>3, <3>1, <3>2 DEF Queued
    <3>4. \A k \in Heads : k # h => Queued'[k] = Queued[k]
      BY <2>2, <3>1 DEF Queued
    <3>5. nentries'[c] = nentries[c] + 1 /\ \A b0 \in Cpus : b0 # c => nentries'[b0] = nentries[b0]
      BY <2>2, <3>1
    <3>6. "main" \in Contexts /\ Handling' = Handling
      BY <2>1 DEF Contexts, Handling
    <3>7. dp_entries' = dp_entries + (Queued'[h] - Queued[h])
                         + (Handling'["main"] - Handling["main"]) - (nentries'[c] - nentries[c])
      BY <1>3, <2>1, <2>3, <3>3, <3>5, <3>6
    <3> QED BY <1>1, <2>3, <3>4, <3>5, <3>6, <3>7, CountStep
  <2> QED BY <2>5, <2>6
<1>14. ASSUME NEW c \in Cpus, EndPass(c) PROVE EntriesConserved'
  <2>1. /\ dp_entries' = IF nentries[c] > 0 THEN dp_entries + nentries[c] ELSE dp_entries
        /\ nentries' = [nentries EXCEPT ![c] = 0] /\ UNCHANGED <<queue, pass>>
    BY <1>14 DEF EndPass, Incr, NewEntries
  <2>2. nentries \in [Cpus -> 0..NDevs]
    BY DEF StepInv, TypeOK
  <2>3. nentries'[c] = 0 /\ \A b \in Cpus : b # c => nentries'[b] = nentries[b]
    BY <2>1, <2>2
  <2>4. "main" \in Contexts /\ Handling' = Handling /\ Queued' = Queued
    BY <2>1 DEF Contexts, Handling, Queued
  <2>5. dp_entries' = dp_entries + (Queued'[h0] - Queued[h0])
                       + (Handling'["main"] - Handling["main"]) - (nentries'[c] - nentries[c])
    BY <1>2, <1>3, <2>1, <2>3, <2>4
  <2> QED BY <1>1, <1>2, <2>3, <2>4, <2>5, CountStep
<1>15. ASSUME NEW x \in Contexts, LockEntries(x) \/ JoinTracers(x) \/ LockHead(x) \/ EndScan(x)
       PROVE  EntriesConserved'
  BY <1>4, <1>15 DEF LockEntries, JoinTracers, LockHead, EndScan, tracerVars
<1>16. CASE Signal \/ Terminated \/ UNCHANGED vars
  BY <1>4, <1>16 DEF Signal, Terminated, vars, tracerVars
<1> QED
  BY <1>7, <1>8, <1>9, <1>10, <1>11, <1>12, <1>13, <1>14, <1>15, <1>16
     DEF Next, Tracer, Context

(* dp_entries is right at every step of every thread, whenever the signal    *)
(* comes: no buffer is counted twice, or never.                              *)
THEOREM CountRight == Spec => []EntriesConserved
<1>1. Init => StepInv /\ EntriesConserved
  BY StepStart, EntriesStart
<1>2. StepInv /\ EntriesConserved /\ [Next]_vars => (StepInv /\ EntriesConserved)'
  BY StepStep, EntriesStep
<1> QED BY <1>1, <1>2, PTL DEF Spec
-----------------------------------------------------------------------------
(* The pieces on their way.                                                  *)
LEMMA CutOfRun ==
  ASSUME NEW g \in Nat, NEW m \in Nat
  PROVE  EventsOf(Run(2 * g, m)) = Run(g, m \div 2)
<1> DEFINE buf == Run(2 * g, m)
           k == m \div 2
<1>1. buf \in Seq(Nat) /\ Len(buf) = m /\ \A i \in 1..m : buf[i] = 2 * g + i
  <2>1. 2 * g \in Nat
    OBVIOUS
  <2> QED BY <2>1, RunType DEF Run
<1> HIDE DEF buf
<1>2. /\ EventsOf(buf) \in Seq(Nat) /\ Len(EventsOf(buf)) = k
      /\ \A e \in 1..k : EventsOf(buf)[e] = EventOf(<<buf[2 * e - 1], buf[2 * e]>>)
  BY <1>1, EventsType
<1>3. k \in Nat /\ 2 * k <= m
  OBVIOUS
<1> HIDE DEF k
<1>4. ASSUME NEW e \in 1..k PROVE EventsOf(buf)[e] = g + e
  <2>1. 2 * e - 1 \in 1..m /\ 2 * e \in 1..m
    BY <1>3
  <2> DEFINE a == 2 * g + (2 * e - 1)
  <2>2. buf[2 * e - 1] = a /\ buf[2 * e] = a + 1
    BY <1>1, <2>1
  <2>3. a % 2 = 1 /\ (a + 1) \div 2 = g + e
    BY <1>3
  <2> HIDE DEF a
  <2> QED BY <1>2, <2>2, <2>3 DEF EventOf
<1>5. Run(g, k) \in Seq(Nat) /\ Len(Run(g, k)) = k /\ \A e \in 1..k : Run(g, k)[e] = g + e
  BY <1>3, RunType DEF Run
<1>6. EventsOf(buf) = Run(g, k)
  BY <1>2, <1>4, <1>5, SeqEqual
<1> QED BY <1>6 DEF buf, k

LEMMA SeqsOfLess ==
  ASSUME NEW T, NEW S \in SUBSET T, NEW b \in Seq(S)
  PROVE  b \in Seq(T)
BY SeqDef

LEMMA PieceSeqs == \A b \in Seq(1..MaxPieces) : b \in Seq(Nat)
<1>1. 1..MaxPieces \in SUBSET Nat
  OBVIOUS
<1> QED BY <1>1, SeqsOfLess

LEMMA FlatOfHead ==
  ASSUME StepInv, NEW h \in Heads
  PROVE  FlattenSeq(queue[h]) \in Seq(Nat) /\ queue[h] \in Seq(Seq(Nat)) /\ prev[h] \in Seq(Nat)
<1>1. queue[h] \in Seq(Seq(1..MaxPieces)) /\ prev[h] \in Seq(1..MaxPieces)
  BY DEF StepInv, TypeOK
<1>2. \A b \in Seq(1..MaxPieces) : b \in Seq(Nat)
  BY PieceSeqs
<1>3. queue[h] \in Seq(Seq(Nat)) /\ prev[h] \in Seq(Nat)
  BY <1>1, <1>2
<1> QED BY <1>3, FlattenType

LEMMA FlatOfPass ==
  ASSUME StepInv, NEW x \in Contexts
  PROVE  /\ FlattenSeq(pass[x].list) \in Seq(Nat) /\ pass[x].list \in Seq(Seq(Nat))
         /\ pass[x].prev \in Seq(Nat)
<1>1. pass[x].list \in Seq(Seq(1..MaxPieces)) /\ pass[x].prev \in Seq(1..MaxPieces)
  BY PassHas DEF PassType
<1>2. \A b \in Seq(1..MaxPieces) : b \in Seq(Nat)
  BY PieceSeqs
<1>3. pass[x].list \in Seq(Seq(Nat)) /\ pass[x].prev \in Seq(Nat)
  BY <1>1, <1>2
<1> QED BY <1>3, FlattenType

LEMMA CurrentIs == Current \in Contexts
BY DEF Current, Contexts

(* The way starts at the context that handles the head's list, if one does.  *)
From(h) == IF BusyWith(h) THEN pass[Current].prev \o FlattenSeq(pass[Current].list) ELSE prev[h]

LEMMA WayType ==
  ASSUME StepInv, NEW h \in Heads
  PROVE  /\ From(h) \in Seq(Nat) /\ Way(h) = From(h) \o FlattenSeq(queue[h])
         /\ Way(h) \in Seq(Nat)
<1> DEFINE a == pass[Current].prev
           b == FlattenSeq(pass[Current].list)
           c == FlattenSeq(queue[h])
<1>1. a \in Seq(Nat) /\ b \in Seq(Nat) /\ c \in Seq(Nat) /\ prev[h] \in Seq(Nat)
  BY CurrentIs, FlatOfPass, FlatOfHead
<1>2. Way(h) = From(h) \o c
  BY DEF Way, From
<1> HIDE DEF a, b, c
<1>3. a \o b \in Seq(Nat)
  BY <1>1
<1>4. From(h) \in Seq(Nat)
  BY <1>1, <1>3 DEF From, a, b
<1>5. From(h) \o c \in Seq(Nat)
  BY <1>1, <1>4
<1> QED BY <1>2, <1>4, <1>5 DEF c

(* Only one context goes on.                                                 *)
LEMMA Turn ==
  ASSUME Alone, NEW x \in Contexts, Runs(x), cpc[x] # "idle"
  PROVE  /\ Current = x
         /\ \A l \in Labels : cpc' = [cpc EXCEPT ![x] = l] => (cpc \in [Contexts -> Labels \cup {"idle"}] => Alone' /\ Current' = x)
BY DEF Alone, Runs, Current, Contexts, Labels

(* A step of the current context takes it from one label to another.         *)
LEMMA TurnOf ==
  ASSUME StepInv, Alone, NEW x \in Contexts, Context(x)
  PROVE  /\ Current = x /\ Current' = x /\ Alone'
         /\ cpc[x] # "handle" => UNCHANGED <<prev, sent, conn, got>>
         /\ UNCHANGED use
<1>1. Runs(x) /\ cpc[x] # "idle"
  BY DEF Context, LockEntries, WaitEntries, JoinTracers, CleanTraceBufs, LockHead, TakeList,
         HandleBuffer, StorePrev, EndScan, DecrEntries, At
<1>2. cpc \in [Contexts -> Labels \cup {"idle"}] /\ pass[x].caller \in {"wait", "clean"}
  BY PassHas DEF StepInv, TypeOK, PassType
<1>3. \E l \in Labels : cpc' = [cpc EXCEPT ![x] = l]
  <2>1. CASE UNCHANGED cpc
    <3>1. cpc[x] \in Labels /\ cpc' = [cpc EXCEPT ![x] = cpc[x]]
      BY <1>1, <1>2, <2>1
    <3> QED BY <3>1
  <2>2. CASE \E l \in Labels : Goto(x, l)
    BY <2>2 DEF Goto
  <2>3. {"wait", "wait_locked", "departure", "clean", "scan", "finished", "take_locked",
         "handle", "decr_locked", pass[x].caller} \subseteq Labels
    BY <1>2 DEF Labels
  <2>4. UNCHANGED cpc \/ \E l \in {"wait", "wait_locked", "departure", "clean", "scan", "finished",
                                   "take_locked", "handle", "decr_locked", pass[x].caller} : Goto(x, l)
    BY DEF Context, LockEntries, WaitEntries, JoinTracers, CleanTraceBufs, LockHead, TakeList,
           HandleBuffer, StorePrev, EndScan, DecrEntries
  <2> QED BY <2>1, <2>2, <2>3, <2>4
<1>4. cpc[x] # "handle" => UNCHANGED <<prev, sent, conn, got>>
  BY DEF Context, LockEntries, WaitEntries, JoinTracers, CleanTraceBufs, LockHead, TakeList,
         HandleBuffer, StorePrev, EndScan, DecrEntries, At, tracerVars
<1>5. UNCHANGED use
  BY DEF Context, LockEntries, WaitEntries, JoinTracers, CleanTraceBufs, LockHead, TakeList,
         HandleBuffer, StorePrev, EndScan, DecrEntries
<1> QED BY <1>1, <1>2, <1>3, <1>4, <1>5, Turn

(* What was sent keeps its sense as long as the program stays what it is.    *)
LEMMA SentStays ==
  ASSUME UNCHANGED use, NEW g, NEW h, SentUpTo(g, Len(Left(h)), sent[h]),
         Left(h)' = Left(h), sent'[h] = sent[h]
  PROVE  SentUpTo(g, Len(Left(h)), sent[h])'
BY DEF SentUpTo, Stream!LastOf, Stream!Wanted, Stream!FlattenSeq

LEMMA SamePieces ==
  ASSUME NEW h \in Heads, Pieces(h), Way(h)' = Way(h), Left(h)' = Left(h),
         got'[h] = got[h], sent'[h] = sent[h], UNCHANGED use
  PROVE  Pieces(h)'
<1>1. PICK g \in Nat : After(g, h)
  BY DEF Pieces
<1>2. SentUpTo(g, Len(Left(h)), sent[h])'
  BY <1>1, SentStays DEF After
<1>3. After(g, h)'
  BY <1>1, <1>2 DEF After
<1> QED BY <1>3 DEF Pieces

LEMMA GrownPieces ==
  ASSUME StepInv, NEW h \in Heads, Pieces(h), NEW n \in Nat, got'[h] = got[h] + n,
         Way(h)' = Way(h) \o Run(got[h], n), sent'[h] = sent[h],
         Left(h)' = Left(h), UNCHANGED use
  PROVE  Pieces(h)'
<1>1. PICK g \in Nat : After(g, h)
  BY DEF Pieces
<1> DEFINE w == Way(h)
           m == Len(w)
<1>2. w \in Seq(Nat) /\ m \in Nat
  BY WayType
<1>3. got[h] = 2 * g + m /\ w = Run(2 * g, m) /\ SentUpTo(g, Len(Left(h)), sent[h])'
  BY <1>1, SentStays DEF After
<1>4. Way(h)' = Run(2 * g, m + n)
  <2>1. 2 * g \in Nat
    OBVIOUS
  <2> HIDE DEF w, m
  <2>2. Run(2 * g, m) \o Run(2 * g + m, n) = Run(2 * g, m + n)
    BY <1>2, <2>1, RunConcat
  <2> QED BY <1>3, <2>2 DEF w
<1>5. Len(Run(2 * g, m + n)) = m + n
  <2>1. 2 * g \in Nat /\ m + n \in Nat
    BY <1>2
  <2> HIDE DEF w, m
  <2> QED BY <2>1, RunType
<1> HIDE DEF w, m
<1>6. got'[h] = 2 * g + Len(Way(h)')
  <2>1. Len(Way(h)') = m + n
    BY <1>4, <1>5
  <2>2. got[h] + n = 2 * g + (m + n)
    BY <1>2, <1>3
  <2> QED BY <2>1, <2>2
<1>7. After(g, h)'
  BY <1>3, <1>4, <1>5, <1>6 DEF After
<1> QED BY <1>7 DEF Pieces

(* The signal and the tracers.                                               *)
LEMMA PieceOther ==
  ASSUME StepInv, PieceInv, OnlyWhileWaiting,
         Signal \/ (\E c \in Cpus : Tracer(c)) \/ Terminated \/ UNCHANGED vars
  PROVE  PieceInv'
<1> USE DEF PieceInv
<1>1. ASSUME UNCHANGED <<use, cpc, pass, prev, queue, got, sent, conn>> PROVE PieceInv'
  <2>1. Alone' /\ ShortRests'
    BY <1>1 DEF Alone, ShortRests
  <2>2. ASSUME NEW h \in Heads PROVE Pieces(h)'
    <3>1. Way(h)' = Way(h) /\ Left(h)' = Left(h)
      BY <1>1 DEF Way, Left, BusyWith, Current
    <3> QED BY <1>1, <3>1, SamePieces
  <2> QED BY <2>1, <2>2
<1>2. CASE Signal
  <2>1. CASE use.tears_down
    <3>1. /\ cpc["main"] = "wait" /\ cpc["handler"] = "idle" /\ Goto("handler", "wait")
          /\ UNCHANGED <<use, queue, prev, sent, conn, got, pass>>
      <4>1. ~use.anywhere
        BY <2>1 DEF OnlyWhileWaiting, StepInv, TypeOK
      <4> QED BY <1>2, <2>1, <4>1 DEF Signal, Runs, tracerVars
    <3>2. cpc'["main"] = "wait" /\ cpc'["handler"] = "wait"
      BY <3>1 DEF Goto, StepInv, TypeOK, Contexts
    <3>3. Alone' /\ ShortRests'
      BY <3>1, <3>2 DEF Alone, ShortRests
    <3>4. ASSUME NEW h \in Heads PROVE Pieces(h)'
      <4>1. ~BusyWith(h) /\ ~BusyWith(h)'
        BY <3>1, <3>2 DEF BusyWith, Current
      <4>2. Way(h)' = Way(h) /\ Left(h)' = Left(h)
        BY <3>1, <4>1 DEF Way, Left
      <4> QED BY <3>1, <4>2, SamePieces
    <3> QED BY <3>3, <3>4
  <2>2. CASE ~use.tears_down
    BY <1>1, <1>2, <2>2 DEF Signal, tracerVars
  <2> QED BY <2>1, <2>2
<1>3. ASSUME NEW c \in Cpus, ReadDevice(c) PROVE PieceInv'
  <2>1. dev[c] <= NDevs /\ UNCHANGED <<use, prev, sent, conn, cpc, pass>>
    BY <1>3 DEF ReadDevice
  <2>2. /\ dev[c] \in 1..(NDevs + 1) /\ got \in [Heads -> 0..MaxPieces]
        /\ queue \in [Heads -> Seq(Seq(1..MaxPieces))]
    BY DEF StepInv, TypeOK
  <2>3. PICK h \in Heads : h = <<dev[c], c>> /\ got[h] \in Nat
    <3>1. <<dev[c], c>> \in Heads
      BY <2>1, <2>2 DEF Heads, Devs
    <3> QED BY <2>2, <3>1
  <2>4. PICK n \in 0..ReadSize :
          IF n = 0 THEN UNCHANGED <<got, queue, nentries>>
          ELSE /\ queue' = [queue EXCEPT ![h] = Append(@, [i \in 1..n |-> got[h] + i])]
               /\ got' = [got EXCEPT ![h] = @ + n]
    BY <1>3, <2>3 DEF ReadDevice
  <2>5. CASE n = 0
    BY <1>1, <2>1, <2>4, <2>5
  <2>6. CASE n # 0
    <3>1. PICK b : b = Run(got[h], n)
      OBVIOUS
    <3>2. b \in Seq(Nat) /\ n \in Nat
      <4>1. got[h] \in Nat /\ n \in Nat
        BY <2>3, Assumed
      <4> QED BY <3>1, <4>1, RunType
    <3>8. queue' = [queue EXCEPT ![h] = Append(queue[h], b)] /\ got' = [got EXCEPT ![h] = @ + n]
      BY <2>4, <2>6, <3>1 DEF Run
    <3>3. \A k \in Heads : BusyWith(k)' = BusyWith(k) /\ Left(k)' = Left(k)
      BY <2>1 DEF BusyWith, Left, Current
    <3>4. Way(h)' = Way(h) \o b
      <4>1. From(h)' = From(h)
        BY <2>1, <3>3 DEF From, Current
      <4>2. Way(h)' = From(h) \o FlattenSeq(Append(queue[h], b))
        BY <2>2, <2>3, <3>8, <4>1 DEF Way, From
      <4>3. PICK q, f, d : q = queue[h] /\ f = From(h) /\ d = FlattenSeq(q)
        OBVIOUS
      <4>4. q \in Seq(Seq(Nat)) /\ d \in Seq(Nat) /\ f \in Seq(Nat) /\ Way(h) = f \o d
        BY <2>3, <4>3, FlatOfHead, WayType
      <4>5. Append(q, b) = q \o <<b>> /\ <<b>> \in Seq(Seq(Nat))
        BY <3>2, <4>4
      <4>6. FlattenSeq(Append(q, b)) = d \o b
        <5>1. FlattenSeq(q \o <<b>>) = FlattenSeq(q) \o FlattenSeq(<<b>>)
          BY <4>4, <4>5, FlattenConcat
        <5>2. FlattenSeq(<<b>>) = b
          BY <3>2, FlattenOne
        <5> QED BY <4>3, <4>5, <5>1, <5>2
      <4>7. (f \o d) \o b = f \o (d \o b)
        <5>1. PICK S : S = Nat
          OBVIOUS
        <5>2. b \in Seq(S) /\ d \in Seq(S) /\ f \in Seq(S)
          BY <3>2, <4>4, <5>1
        <5> QED BY <5>2
      <4> QED BY <4>2, <4>3, <4>4, <4>6, <4>7
    <3>5. Pieces(h)'
      <4>1. got'[h] = got[h] + n
        BY <2>2, <2>3, <3>8
      <4> QED BY <2>1, <2>3, <3>2, <3>3, <3>4, <4>1, <3>1, GrownPieces
    <3>6. ASSUME NEW k \in Heads, k # h PROVE Pieces(k)'
      <4>1. queue'[k] = queue[k] /\ got'[k] = got[k]
        BY <2>2, <3>6, <3>8
      <4>2. Way(k)' = Way(k)
        BY <2>1, <3>3, <4>1 DEF Way, Current
      <4> QED BY <2>1, <3>3, <4>1, <4>2, SamePieces
    <3>7. Alone' /\ ShortRests'
      BY <2>1 DEF Alone, ShortRests
    <3> QED BY <3>5, <3>6, <3>7
  <2> QED BY <2>5, <2>6
<1>4. ASSUME NEW c \in Cpus, EndPass(c) PROVE PieceInv'
  BY <1>1, <1>4 DEF EndPass
<1> QED BY <1>1, <1>2, <1>3, <1>4 DEF Tracer, Terminated, vars, tracerVars

(* A buffer cut: the events of the pieces from 2g+1 are those after g.       *)
LEMMA PieceCut ==
  ASSUME NEW g \in Nat, NEW buf \in Seq(Nat), NEW rest \in Seq(Nat),
         buf \o rest = Run(2 * g, Len(buf \o rest)), NEW n \in Nat, n <= Len(EventsOf(buf))
  PROVE  /\ SubSeq(EventsOf(buf), 1, n) = Run(g, n)
         /\ Rest(buf, n) \in Seq(Nat) /\ Len(Rest(buf, n)) = Len(buf) - 2 * n
         /\ Rest(buf, n) \o rest = Run(2 * (g + n), Len(Rest(buf, n) \o rest))
         /\ Len(buf \o rest) = 2 * n + Len(Rest(buf, n) \o rest)
         /\ n = Len(EventsOf(buf)) => Len(Rest(buf, n)) <= 1
<1> DEFINE m == Len(buf)
           l == Len(rest)
           ev == EventsOf(buf)
           r == Rest(buf, n)
<1>1. m \in Nat /\ l \in Nat /\ Len(buf \o rest) = m + l /\ 2 * g \in Nat
  BY ConcatProperties
<1>2. buf = Run(2 * g, m) /\ rest = Run(2 * g + m, l)
  <2> DEFINE a == 2 * g
  <2>1. a \in Nat
    OBVIOUS
  <2>2. buf \o rest = Run(a, m + l)
    BY <1>1
  <2> HIDE DEF a
  <2>3. buf = Run(a, m) /\ rest = Run(a + m, l)
    BY <2>1, <2>2, RunSplit
  <2> QED BY <2>3 DEF a
<1>3. ev = Run(g, m \div 2) /\ Len(ev) = m \div 2 /\ 2 * Len(ev) <= m /\ m <= 2 * Len(ev) + 1
  <2>1. ev = Run(g, m \div 2)
    <3> HIDE DEF ev, m
    <3> QED BY <1>1, <1>2, CutOfRun DEF ev
  <2> QED BY <2>1, EventsType
<1>4. n \in Nat /\ n <= m \div 2 /\ m \div 2 \in Nat
  BY <1>1, <1>3
<1>5. SubSeq(ev, 1, n) = Run(g, n)
  <2>1. n \in 0..(m \div 2)
    BY <1>4
  <2> HIDE DEF ev, m
  <2> QED BY <1>3, <1>4, <2>1, RunFront
<1>6. 2 * n \in 0..m /\ m - 2 * n \in Nat
  BY <1>1, <1>3, <1>4
<1>7. r = Run(2 * g + 2 * n, m - 2 * n)
  <2>1. SubSeq(Run(2 * g, m), 2 * n + 1, m) = Run(2 * g + 2 * n, m - 2 * n)
    <3> DEFINE a == 2 * g
               k == 2 * n
    <3>1. a \in Nat /\ k \in 0..m
      BY <1>1, <1>6
    <3> HIDE DEF a, k, m
    <3>2. SubSeq(Run(a, m), k + 1, m) = Run(a + k, m - k)
      BY <1>1, <3>1, RunFront
    <3> QED BY <3>2 DEF a, k
  <2> QED BY <1>2, <2>1 DEF Rest
<1>8. r \in Seq(Nat) /\ Len(r) = m - 2 * n
  <2>1. 2 * g + 2 * n \in Nat
    BY <1>1, <1>4
  <2> HIDE DEF r, m
  <2> QED BY <1>6, <1>7, <2>1, RunType
<1>9. r \o rest = Run(2 * (g + n), (m - 2 * n) + l)
  <2> DEFINE a == 2 * g + 2 * n
             k == m - 2 * n
  <2>1. a \in Nat /\ k \in Nat /\ a + k = 2 * g + m /\ a = 2 * (g + n)
    BY <1>1, <1>4, <1>6
  <2>2. r = Run(a, k) /\ rest = Run(a + k, l)
    <3>1. r = Run(a, k)
      BY <1>7
    <3>2. rest = Run(2 * g + m, l)
      BY <1>2
    <3> HIDE DEF a, k, m, l, r
    <3> QED BY <2>1, <3>1, <3>2
  <2> HIDE DEF a, k, m, l, r
  <2>3. Run(a, k) \o Run(a + k, l) = Run(a, k + l)
    <3>1. a \in Nat /\ k \in Nat /\ l \in Nat
      BY <1>1, <2>1, Zenon
    <3> QED BY <3>1, RunConcat
  <2> QED BY <2>1, <2>2, <2>3 DEF k
<1>10. Len(r \o rest) = (m - 2 * n) + l
  <2> HIDE DEF r, m
  <2> QED BY <1>8, ConcatProperties
<1>11. n = Len(ev) => m - 2 * n <= 1
  BY <1>1, <1>3, <1>4
<1> HIDE DEF m, l, r, ev
<1>12. m + l = 2 * n + ((m - 2 * n) + l)
  BY <1>1, <1>4
<1> QED BY <1>1, <1>5, <1>8, <1>9, <1>10, <1>11, <1>12 DEF m, r, ev

(* What is left of the buffer when n events are gone.                        *)
Divided(buf, rest, g, n) ==
  /\ Rest(buf, n) \in Seq(Nat) /\ Len(Rest(buf, n)) = Len(buf) - 2 * n
  /\ Rest(buf, n) \o rest = Run(2 * (g + n), Len(Rest(buf, n) \o rest))
  /\ Len(buf \o rest) = 2 * n + Len(Rest(buf, n) \o rest)
  /\ n = Len(EventsOf(buf)) => Len(Rest(buf, n)) <= 1

(* What HandleBuffer does: the way of the head starts with the buffer, and   *)
(* n of its events go.                                                       *)
BufferCut(x, h, buf, rest, g, n) ==
  /\ n <= Len(EventsOf(buf))
  /\ \A k \in Heads : (BusyWith(k) <=> k = h) /\ (BusyWith(k)' <=> k = h)
  /\ Way(h) = buf \o rest /\ After(g, h) /\ Way(h)' = Rest(buf, n) \o rest
  /\ Left(h)' = Rest(buf, n) /\ Len(Left(h)) <= Len(buf)
  /\ sent' = [sent EXCEPT ![h] = sent[h] \o Written(Run(g, n)) \o Early(buf)]
  /\ conn' = IF n < Len(EventsOf(buf)) THEN "down" ELSE conn
  /\ n < Len(EventsOf(buf)) => use.tears_down
  /\ \A y \in Contexts : y # x => pass'[y] = pass[y]
  /\ pass'[x].prev = Rest(buf, n)
  /\ Divided(buf, rest, g, n)

LEMMA BufferIsCut ==
  ASSUME StepInv, PieceInv, NEW x \in Contexts, HandleBuffer(x), Current = x, Current' = x
  PROVE  \E h \in Heads, buf \in Seq(Nat), rest \in Seq(Nat), g \in Nat,
              n \in Nat : BufferCut(x, h, buf, rest, g, n)
<1> USE DEF PieceInv
<1>0. /\ pass \in [Contexts -> PassType] /\ sent \in [Heads -> Seq(Nat)]
      /\ pass[x] \in PassType /\ PassAt(cpc[x], pass[x], dp_entries) /\ use \in Uses
  BY PassHas DEF StepInv, TypeOK, PassType
<1>1. cpc[x] = "handle" /\ pass[x].i \in 1..NHeads /\ pass[x].list # <<>>
  BY <1>0 DEF HandleBuffer, At, PassAt, PassType
<1>2. PICK h \in Heads : h = HeadAt(pass[x].i)
  BY <1>1, HeadsType
<1>3. PICK buf : buf = Combine(x)
  OBVIOUS
<1>4. PICK n \in 0..Len(EventsOf(buf)) :
        /\ Accepted(EventsOf(buf), n)
        /\ sent' = [sent EXCEPT ![h] = @ \o Written(SubSeq(EventsOf(buf), 1, n)) \o Early(buf)]
        /\ conn' = IF n < Len(EventsOf(buf)) THEN "down" ELSE conn
        /\ pass' = [pass EXCEPT ![x].list = Tail(@), ![x].prev = Rest(buf, n),
                                ![x].handled = @ + 1]
  BY <1>2, <1>3 DEF HandleBuffer, EventsOf
<1>5. UNCHANGED <<queue, prev, cpc>>
  BY DEF HandleBuffer
<1>6. /\ pass'[x].list = Tail(pass[x].list) /\ pass'[x].prev = Rest(buf, n)
      /\ pass'[x].i = pass[x].i /\ \A y \in Contexts : y # x => pass'[y] = pass[y]
  BY <1>0, <1>4 DEF PassType
<1>7. \A k \in Heads : (BusyWith(k) <=> k = h) /\ (BusyWith(k)' <=> k = h)
  BY <1>1, <1>2, <1>5, <1>6 DEF BusyWith
<1>9. PICK bufs : bufs = pass[x].list
  OBVIOUS
<1>10. PICK flat : flat = FlattenSeq(queue[h])
  OBVIOUS
<1>11. PICK more : more = FlattenSeq(Tail(bufs))
  OBVIOUS
<1>12. /\ bufs \in Seq(Seq(Nat)) /\ bufs # <<>> /\ flat \in Seq(Nat)
       /\ pass[x].prev \in Seq(Nat) /\ Head(bufs) \in Seq(Nat) /\ Tail(bufs) \in Seq(Seq(Nat))
  <2>1. bufs \in Seq(Seq(Nat)) /\ bufs # <<>> /\ flat \in Seq(Nat) /\ pass[x].prev \in Seq(Nat)
    BY <1>1, <1>9, <1>10, FlatOfPass, FlatOfHead
  <2> QED BY <2>1, HeadTailProperties
<1>13. more \in Seq(Nat) /\ FlattenSeq(bufs) = Head(bufs) \o more
  <2>1. more \in Seq(Nat)
    BY <1>11, <1>12, FlattenType
  <2>2. bufs = <<Head(bufs)>> \o Tail(bufs) /\ <<Head(bufs)>> \in Seq(Seq(Nat))
    BY <1>12
  <2>3. FlattenSeq(<<Head(bufs)>> \o Tail(bufs)) = FlattenSeq(<<Head(bufs)>>) \o more
    BY <1>11, <1>12, <2>2, FlattenConcat
  <2>4. FlattenSeq(<<Head(bufs)>>) = Head(bufs)
    BY <1>12, FlattenOne
  <2> QED BY <2>1, <2>2, <2>3, <2>4
<1>14. buf \in Seq(Nat) /\ buf = pass[x].prev \o Head(bufs)
  BY <1>3, <1>9, <1>12 DEF Combine
<1>15. PICK rest \in Seq(Nat) : rest = more \o flat
  <2>1. more \o flat \in Seq(Nat)
    BY <1>12, <1>13, ConcatProperties
  <2> QED BY <2>1
<1>16. Way(h) = buf \o rest
  <2>1. PICK a, b : a = pass[x].prev /\ b = Head(bufs)
    OBVIOUS
  <2>2. Way(h) = (a \o (b \o more)) \o flat
    BY <1>7, <1>9, <1>10, <1>13, <2>1 DEF Way
  <2>3. PICK S : S = Nat
    OBVIOUS
  <2>4. a \in Seq(S) /\ b \in Seq(S) /\ more \in Seq(S) /\ flat \in Seq(S)
    BY <1>12, <1>13, <1>14, <2>1, <2>3
  <2>5. (a \o b) \o more = a \o (b \o more)
    BY <2>4, Assoc, SMTT(30)
  <2>6. (buf \o more) \o flat = buf \o (more \o flat)
    <3>1. buf \in Seq(S) /\ more \in Seq(S) /\ flat \in Seq(S)
      BY <1>14, <2>3, <2>4
    <3> QED BY <3>1
  <2> QED BY <1>14, <1>15, <2>1, <2>2, <2>5, <2>6
<1>17. PICK g \in Nat : After(g, h)
  BY DEF Pieces
<1>18. buf \o rest = Run(2 * g, Len(buf \o rest)) /\ got[h] = 2 * g + Len(buf \o rest)
  BY <1>16, <1>17 DEF After
<1>19. /\ SubSeq(EventsOf(buf), 1, n) = Run(g, n)
       /\ Rest(buf, n) \in Seq(Nat) /\ Len(Rest(buf, n)) = Len(buf) - 2 * n
       /\ Rest(buf, n) \o rest = Run(2 * (g + n), Len(Rest(buf, n) \o rest))
       /\ Len(buf \o rest) = 2 * n + Len(Rest(buf, n) \o rest)
       /\ n = Len(EventsOf(buf)) => Len(Rest(buf, n)) <= 1
  <2>1. buf \in Seq(Nat) /\ buf \o rest = Run(2 * g, Len(buf \o rest))
    BY <1>14, <1>18, Zenon
  <2>2. Len(EventsOf(buf)) \in Nat
    BY <1>14, EventsType
  <2>3. n \in Nat /\ n <= Len(EventsOf(buf))
    BY <2>2
  <2> QED BY <2>1, <2>3, PieceCut
<1>21. Way(h)' = Rest(buf, n) \o rest
  <2>1. PICK a : a = Rest(buf, n)
    OBVIOUS
  <2>2. Way(h)' = (pass'[x].prev \o FlattenSeq(pass'[x].list)) \o FlattenSeq(queue'[h])
    BY <1>7 DEF Way
  <2>3. Way(h)' = (a \o more) \o flat
    BY <1>5, <1>6, <1>9, <1>10, <1>11, <2>1, <2>2
  <2>4. PICK S : S = Nat
    OBVIOUS
  <2>5. a \in Seq(S) /\ more \in Seq(S) /\ flat \in Seq(S)
    BY <1>12, <1>13, <1>19, <2>1, <2>4
  <2>6. (a \o more) \o flat = a \o (more \o flat)
    BY <2>5
  <2> QED BY <1>15, <2>1, <2>3, <2>6
<1>22. Left(h) = pass[x].prev /\ Left(h)' = Rest(buf, n) /\ Len(Left(h)) <= Len(buf)
  <2>1. Left(h) = pass[x].prev /\ Left(h)' = Rest(buf, n)
    BY <1>6, <1>7 DEF Left
  <2>2. PICK a, b : a = pass[x].prev /\ b = Head(bufs)
    OBVIOUS
  <2>3. a \in Seq(Nat) /\ b \in Seq(Nat)
    BY <1>12, <2>2
  <2>4. Len(a \o b) = Len(a) + Len(b) /\ Len(a) \in Nat /\ Len(b) \in Nat
    BY <2>3
  <2>5. Len(a) <= Len(a \o b)
    BY <2>4
  <2>6. a \o b = buf /\ Left(h) = a
    BY <1>14, <2>1, <2>2
  <2> QED BY <2>1, <2>5, <2>6
<1>23. n < Len(EventsOf(buf)) => use.tears_down
  <2>1. n < Len(EventsOf(buf)) /\ conn = "up" => use.may_close
    BY <1>4 DEF Accepted
  <2> QED BY <1>0, <2>1, Assumed DEF ShortRests, TraceQueueAssumption
<1>24. /\ sent' = [sent EXCEPT ![h] = sent[h] \o Written(Run(g, n)) \o Early(buf)]
       /\ n <= Len(EventsOf(buf)) /\ n \in Nat
  <2>1. Len(EventsOf(buf)) \in Nat
    BY <1>14, EventsType
  <2>2. n \in Nat /\ n <= Len(EventsOf(buf))
    BY <2>1
  <2> QED BY <1>4, <1>19, <2>1, <2>2
<1>25. BufferCut(x, h, buf, rest, g, n)
  <2>1. Divided(buf, rest, g, n)
    BY <1>19 DEF Divided
  <2> QED BY <1>4, <1>6, <1>7, <1>16, <1>17, <1>21, <1>22, <1>23, <1>24, <2>1 DEF BufferCut
<1> QED BY <1>14, <1>24, <1>25

(* The events server-proto writes of a buffer: those begun in it.            *)
LEMMA EarlyOfRun ==
  ASSUME NEW g \in Nat, NEW m \in Nat, ~use.tears_down
  PROVE  Run(g, m \div 2) \o Early(Run(2 * g, m)) = Run(g, (m + 1) \div 2)
<1>1. PICK buf : buf = Run(2 * g, m)
  OBVIOUS
<1>2. buf \in Seq(Nat) /\ Len(buf) = m /\ \A i \in 1..m : buf[i] = 2 * g + i
  <2>1. 2 * g \in Nat
    OBVIOUS
  <2> QED BY <1>1, <2>1, RunType DEF Run
<1>3. PICK k \in Nat : k = m \div 2 /\ (m = 2 * k \/ m = 2 * k + 1)
  OBVIOUS
<1>4. Run(g, k) \in Seq(Nat)
  BY RunType
<1>5. CASE m = 2 * k
  <2>1. Early(buf) = <<>>
    <3>1. m % 2 = 0
      BY <1>5
    <3> QED BY <1>2, <3>1 DEF Early
  <2>2. (m + 1) \div 2 = k
    BY <1>5
  <2>3. Run(g, k) \o <<>> = Run(g, k)
    BY <1>4, ConcatEmptySeq
  <2> QED BY <1>1, <1>3, <2>1, <2>2, <2>3
<1>6. CASE m = 2 * k + 1
  <2>1. Early(buf) = <<g + k + 1>>
    <3>1. m % 2 # 0 /\ m \in 1..m
      BY <1>6
    <3>2. Early(buf) = <<EventOf(<<buf[m], buf[m] + 1>>)>>
      BY <1>2, <3>1 DEF Early
    <3>3. buf[m] % 2 = 1 /\ (buf[m] + 1) \div 2 = g + k + 1
      <4>1. buf[m] = 2 * g + (2 * k + 1)
        BY <1>2, <1>6, <3>1
      <4> QED BY <4>1
    <3> QED BY <3>2, <3>3 DEF EventOf
  <2>2. (m + 1) \div 2 = k + 1
    BY <1>6
  <2>3. Run(g + k, 1) = <<g + k + 1>>
    BY DEF Run
  <2>4. Run(g, k) \o Run(g + k, 1) = Run(g, k + 1)
    <3>1. 1 \in Nat
      OBVIOUS
    <3> QED BY <3>1, RunConcat
  <2> QED BY <1>1, <1>3, <2>1, <2>2, <2>3, <2>4
<1> QED BY <1>3, <1>5, <1>6

LEMMA LastAfter ==
  ASSUME NEW s \in Seq(Nat), NEW e \in Nat, NEW n \in Nat \ {0}
  PROVE  Stream!LastOf(s \o Run(e, n)) = e + n
<1>1. Run(e, n) \in Seq(Nat) /\ Len(Run(e, n)) = n /\ Run(e, n)[n] = e + n
  BY RunType DEF Run
<1>2. PICK t \in Seq(Nat) : t = Run(e, n)
  BY <1>1
<1>3. Len(s \o t) = Len(s) + n /\ (s \o t)[Len(s) + n] = t[n] /\ s \o t # <<>>
  <2>1. Len(t) = n /\ Len(s) \in Nat /\ n \in 1..n
    BY <1>1, <1>2
  <2>2. Len(s \o t) = Len(s) + n
    BY <2>1
  <2>3. (s \o t)[Len(s) + n] = t[n]
    BY <2>1
  <2> QED BY <2>1, <2>2, <2>3
<1> QED BY <1>1, <1>2, <1>3 DEF Stream!LastOf

(* server-proto goes on with the event it last wrote, or the one after.      *)
Begun(h, g, k) ==
  /\ sent' = [sent EXCEPT ![h] = sent[h] \o Run(g, k)]
  /\ Stream!LastOf(sent[h]) \in {g, g + 1}
  /\ k = 0 => Stream!LastOf(sent[h]) = g
  /\ 2 * (g + k) <= got[h] + 1

LEMMA BegunNext ==
  ASSUME StepInv, PieceInv, NEW x \in Contexts, NEW h \in Heads, NEW buf \in Seq(Nat),
         NEW rest \in Seq(Nat), NEW g \in Nat, NEW n \in Nat, NEW k \in Nat,
         Len(buf) \in {2 * k, 2 * k - 1}, BufferCut(x, h, buf, rest, g, n), ~use.tears_down
  PROVE  Begun(h, g, k)
<1>1. n = Len(EventsOf(buf)) /\ Len(EventsOf(buf)) = Len(buf) \div 2
  <2>1. Len(EventsOf(buf)) = Len(buf) \div 2 /\ Len(EventsOf(buf)) \in Nat
    BY EventsType
  <2>2. n <= Len(EventsOf(buf)) /\ ~(n < Len(EventsOf(buf)))
    BY DEF BufferCut
  <2>3. \A j \in Nat : n <= j /\ ~(n < j) => n = j
    OBVIOUS
  <2> QED BY <2>1, <2>2, <2>3
<1>2. /\ Way(h) = buf \o rest /\ After(g, h) /\ Len(Left(h)) <= Len(buf)
      /\ sent' = [sent EXCEPT ![h] = sent[h] \o Written(Run(g, n)) \o Early(buf)]
  BY DEF BufferCut
<1>3. PICK m \in Nat, l \in Nat : m = Len(buf) /\ l = Len(rest)
  OBVIOUS
<1>4. got[h] = 2 * g + (m + l) /\ buf = Run(2 * g, m)
  <2> DEFINE a == 2 * g
  <2>1. Len(buf \o rest) = m + l /\ buf \o rest = Run(a, m + l) /\ got[h] = a + (m + l)
    <3>1. Len(buf \o rest) = m + l
      BY <1>3
    <3> QED BY <1>2, <3>1 DEF After
  <2>2. a \in Nat
    OBVIOUS
  <2> HIDE DEF a
  <2>3. buf = Run(a, m)
    BY <1>3, <2>1, <2>2, RunSplit
  <2> QED BY <2>1, <2>3 DEF a
<1>5. k = (m + 1) \div 2 /\ 2 * k <= m + 1 /\ m <= 2 * k
  <2>1. CASE m = 2 * k
    BY <2>1
  <2>2. CASE m = 2 * k - 1
    BY <2>2
  <2> QED BY <1>3, <2>1, <2>2
<1>6. Written(Run(g, n)) = Run(g, n) /\ Run(g, n) \in Seq(Nat) /\ sent[h] \in Seq(Nat)
      /\ Early(buf) \in Seq(Nat)
  BY PassHas, WrittenIs, RunType, EarlyType
<1>7. Run(g, n) \o Early(buf) = Run(g, k)
  <2>1. Run(g, m \div 2) \o Early(Run(2 * g, m)) = Run(g, (m + 1) \div 2)
    BY EarlyOfRun
  <2>2. n = m \div 2
    BY <1>1, <1>3
  <2> QED BY <1>4, <1>5, <2>1, <2>2
<1>8. sent' = [sent EXCEPT ![h] = sent[h] \o Run(g, k)]
  <2>1. PICK s, w, e, S : s = sent[h] /\ w = Run(g, n) /\ e = Early(buf) /\ S = Nat
    OBVIOUS
  <2>2. s \in Seq(S) /\ w \in Seq(S) /\ e \in Seq(S)
    BY <1>6, <2>1
  <2>3. (s \o w) \o e = s \o (w \o e)
    BY <2>2, Assoc, SMTT(30)
  <2> QED BY <1>2, <1>6, <1>7, <2>1, <2>3
<1>9. Stream!LastOf(sent[h]) \in {g, g + 1} /\ (k = 0 => Stream!LastOf(sent[h]) = g)
  <2>1. Stream!LastOf(sent[h]) = (2 * g + Len(Left(h)) + 1) \div 2
    BY <1>2 DEF After, SentUpTo
  <2>2. Len(Left(h)) \in {0, 1}
    <3>1. Len(Left(h)) <= 1
      <4>1. conn = "up" /\ PieceInv
        BY DEF PieceInv, ShortRests
      <4> QED BY <4>1, CurrentIs DEF PieceInv, ShortRests, Left
    <3>2. PICK a \in Seq(Nat) : a = Left(h)
      BY CurrentIs, FlatOfPass, FlatOfHead DEF Left
    <3>3. Len(a) \in Nat /\ Len(a) <= 1
      BY <3>1, <3>2
    <3>4. \A j \in Nat : j <= 1 => j \in {0, 1}
      OBVIOUS
    <3>5. Len(a) \in {0, 1}
      BY <3>3, <3>4
    <3> QED BY <3>2, <3>5, Zenon
  <2>3. k = 0 => Len(Left(h)) = 0
    <3> SUFFICES ASSUME k = 0 PROVE Len(Left(h)) = 0
      OBVIOUS
    <3>1. m = 0
      BY <1>3, <1>5
    <3> QED BY <1>2, <1>3, <2>2, <3>1
  <2>4. (2 * g + 0 + 1) \div 2 = g /\ (2 * g + 1 + 1) \div 2 = g + 1
    OBVIOUS
  <2> QED BY <2>1, <2>2, <2>3, <2>4
<1>10. 2 * (g + k) <= got[h] + 1
  BY <1>4, <1>5
<1> QED BY <1>8, <1>9, <1>10 DEF Begun

LEMMA BufferSent ==
  ASSUME StepInv, PieceInv, UNCHANGED use, NEW x \in Contexts, NEW h \in Heads,
         NEW buf \in Seq(Nat), NEW rest \in Seq(Nat), NEW g \in Nat, NEW n \in Nat,
         BufferCut(x, h, buf, rest, g, n)
  PROVE  SentUpTo(g + n, Len(Left(h)), sent[h])'
<1>1. sent \in [Heads -> Seq(Nat)] /\ SentUpTo(g, Len(Left(h)), sent[h])
  BY PassHas DEF BufferCut, After
<1>2. CASE use.tears_down
  <2>1. sent[h] = Stream!Wanted(g) /\ Early(buf) = <<>> /\ Written(Run(g, n)) = MeantOf(Run(g, n))
    BY <1>1, <1>2, WrittenIs DEF SentUpTo, Early
  <2>2. sent'[h] = Stream!Wanted(g + n) \o <<>>
    BY <1>1, <2>1, WantedStep DEF BufferCut
  <2>3. sent'[h] = Stream!Wanted(g + n)
    <3>1. g + n \in Nat
      OBVIOUS
    <3> QED BY <2>2, <3>1, WantedType, ConcatEmptySeq
  <2> QED BY <1>2, <2>3 DEF SentUpTo, Stream!Wanted, Stream!FlattenSeq
<1>3. CASE ~use.tears_down
  <2>1. PICK m \in Nat, k \in Nat : m = Len(buf) /\ m \in {2 * k, 2 * k - 1}
    <3>1. \A m \in Nat : \E k \in Nat : m = 2 * k \/ m = 2 * k - 1
      <4> SUFFICES ASSUME NEW m \in Nat
                   PROVE  (m + 1) \div 2 \in Nat /\ m \in {2 * ((m + 1) \div 2), 2 * ((m + 1) \div 2) - 1}
        OBVIOUS
      <4> QED OBVIOUS
    <3>2. Len(buf) \in Nat
      OBVIOUS
    <3> QED BY <3>1, <3>2
  <2>2. /\ sent'[h] = sent[h] \o Run(g, k)
        /\ k = 0 => Stream!LastOf(sent[h]) = g
    <3>1. /\ sent' = [sent EXCEPT ![h] = sent[h] \o Run(g, k)]
          /\ k = 0 => Stream!LastOf(sent[h]) = g
      <4>1. Begun(h, g, k)
        BY <1>3, <2>1, BegunNext
      <4> QED BY <4>1 DEF Begun
    <3> QED BY <1>1, <3>1
  <2>3. Stream!LastOf(sent'[h]) = g + k
    <3>1. CASE k = 0
      <4>1. Run(g, 0) = <<>>
        BY DEF Run
      <4>2. sent'[h] = sent[h]
        BY <1>1, <2>2, <3>1, <4>1, ConcatEmptySeq
      <4>3. g + k = g
        BY <3>1
      <4> QED BY <2>2, <3>1, <4>2, <4>3
    <3>2. CASE k # 0
      BY <1>1, <2>2, <3>2, LastAfter
    <3> QED BY <3>1, <3>2
  <2>4. Len(Left(h)') = m - 2 * n
    <3>1. Left(h)' = Rest(buf, n) /\ Len(Rest(buf, n)) = Len(buf) - 2 * n
      BY DEF BufferCut, Divided
    <3> QED BY <2>1, <3>1
  <2>5. g + k = (2 * (g + n) + (m - 2 * n) + 1) \div 2
    <3>1. 2 * (g + n) + (m - 2 * n) + 1 = 2 * g + (m + 1)
      OBVIOUS
    <3>2. (2 * g + (2 * k + 1)) \div 2 = g + k /\ (2 * g + (2 * k - 1 + 1)) \div 2 = g + k
      OBVIOUS
    <3> QED BY <2>1, <3>1, <3>2
  <2>6. Stream!LastOf(sent[h])' = (2 * (g + n) + Len(Left(h)') + 1) \div 2
    BY <2>3, <2>4, <2>5 DEF Stream!LastOf
  <2> QED BY <1>3, <2>6 DEF SentUpTo
<1> QED BY <1>2, <1>3

LEMMA PieceContext ==
  ASSUME StepInv, PieceInv, NEW x \in Contexts, Context(x)
  PROVE  PieceInv'
<1> USE DEF PieceInv
<1>1. /\ Current = x /\ Current' = x /\ Alone' /\ UNCHANGED <<use, got>>
      /\ cpc[x] # "handle" => UNCHANGED <<prev, sent, conn, got>>
  <2>1. UNCHANGED got
    BY DEF Context, LockEntries, WaitEntries, JoinTracers, CleanTraceBufs, LockHead, TakeList,
           HandleBuffer, StorePrev, EndScan, DecrEntries, tracerVars
  <2> QED BY <2>1, TurnOf
<1>2. /\ pass \in [Contexts -> PassType] /\ cpc \in [Contexts -> Labels \cup {"idle"}]
      /\ queue \in [Heads -> Seq(Seq(1..MaxPieces))] /\ prev \in [Heads -> Seq(1..MaxPieces)]
      /\ sent \in [Heads -> Seq(Nat)]
      /\ pass[x] \in PassType /\ PassAt(cpc[x], pass[x], dp_entries)
  BY PassHas DEF StepInv, TypeOK, PassType
(* A step outside the handling of a list.                                    *)
<1>3. ASSUME cpc[x] # "handle", cpc'[x] # "handle", UNCHANGED queue,
             \A y \in Contexts : pass'[y].prev \in {pass[y].prev, <<>>}
      PROVE  PieceInv'
  <2>1. ShortRests'
    BY <1>1, <1>3 DEF ShortRests
  <2>2. ASSUME NEW h \in Heads PROVE Pieces(h)'
    <3>1. ~BusyWith(h) /\ ~BusyWith(h)'
      BY <1>1, <1>3 DEF BusyWith
    <3>2. Way(h)' = Way(h) /\ Left(h)' = Left(h)
      BY <1>1, <1>3, <3>1 DEF Way, Left
    <3> QED BY <1>1, <1>3, <3>2, SamePieces
  <2> QED BY <1>1, <2>1, <2>2
<1>4. ASSUME LockEntries(x) \/ JoinTracers(x) \/ LockHead(x) \/ EndScan(x) PROVE PieceInv'
  <2>1. UNCHANGED <<queue, pass>> /\ cpc[x] # "handle"
    BY <1>4 DEF LockEntries, JoinTracers, LockHead, EndScan, At
  <2>2. pass[x].caller # "handle"
    BY <1>2 DEF PassType
  <2>3. cpc'[x] # "handle"
    BY <1>2, <1>4, <2>2 DEF LockEntries, JoinTracers, LockHead, EndScan, Goto
  <2> QED BY <1>3, <2>1, <2>3
<1>5. ASSUME WaitEntries(x) \/ CleanTraceBufs(x) PROVE PieceInv'
  <2>1. UNCHANGED queue /\ cpc[x] # "handle"
    BY <1>5 DEF WaitEntries, CleanTraceBufs, At
  <2>2. cpc'[x] # "handle"
    BY <1>2, <1>5 DEF WaitEntries, CleanTraceBufs, Goto
  <2>3. \A y \in Contexts : pass'[y].prev \in {pass[y].prev, <<>>}
    <3>1. \A c : NoPass(c).prev = <<>>
      BY DEF NoPass
    <3>2. UNCHANGED pass \/ \E c : pass' = [pass EXCEPT ![x] = NoPass(c)]
      BY <1>5 DEF WaitEntries, CleanTraceBufs
    <3> QED BY <1>2, <3>1, <3>2
  <2> QED BY <1>3, <2>1, <2>2, <2>3
<1>6. ASSUME DecrEntries(x) PROVE PieceInv'
  <2>1. UNCHANGED queue /\ cpc[x] # "handle" /\ pass[x].caller # "handle"
    BY <1>2, <1>6 DEF DecrEntries, At, PassType
  <2>2. cpc'[x] # "handle"
    BY <1>2, <1>6, <2>1 DEF DecrEntries, Goto
  <2>3. \A y \in Contexts : pass'[y].prev \in {pass[y].prev, <<>>}
    BY <1>2, <1>6 DEF DecrEntries, PassType
  <2> QED BY <1>3, <2>1, <2>2, <2>3
<1>7. ASSUME TakeList(x) PROVE PieceInv'
  <2>1. cpc[x] = "take_locked" /\ pass[x].i \in 1..NHeads
    BY <1>2, <1>7 DEF TakeList, At, PassAt, PassType
  <2>2. PICK h \in Heads : h = HeadAt(pass[x].i)
    BY <2>1, HeadsType
  <2>3. CASE queue[h] = <<>>
    <3>1. UNCHANGED queue /\ Goto(x, "scan") /\ pass' = [pass EXCEPT ![x].i = @ + 1]
      BY <1>7, <2>2, <2>3 DEF TakeList
    <3>2. cpc'[x] # "handle" /\ \A y \in Contexts : pass'[y].prev = pass[y].prev
      BY <1>2, <3>1 DEF Goto, PassType
    <3> QED BY <1>3, <2>1, <3>1, <3>2
  <2>4. CASE queue[h] # <<>>
    <3>1. /\ cpc'[x] = "handle" /\ queue' = [queue EXCEPT ![h] = <<>>]
          /\ pass' = [pass EXCEPT ![x].list = queue[h], ![x].prev = prev[h]]
      BY <1>2, <1>7, <2>2, <2>4 DEF TakeList, Goto
    <3>2. /\ pass'[x].list = queue[h] /\ pass'[x].prev = prev[h] /\ pass'[x].i = pass[x].i
          /\ \A y \in Contexts : y # x => pass'[y] = pass[y]
      BY <1>2, <3>1 DEF PassType
    <3>3. \A k \in Heads : ~BusyWith(k) /\ (BusyWith(k)' <=> k = h)
      BY <1>1, <2>1, <2>2, <3>1, <3>2 DEF BusyWith
    <3>4. ASSUME NEW k \in Heads PROVE Way(k)' = Way(k)
      <4>1. CASE k = h
        <5> DEFINE a == prev[h]
                   b == FlattenSeq(queue[h])
        <5>1. Way(h) = a \o b
          BY <3>3 DEF Way
        <5>2. Way(h)' = (a \o b) \o FlattenSeq(<<>>)
          <6>1. queue'[h] = <<>> /\ BusyWith(h)'
            BY <1>2, <3>1, <3>3
          <6>2. Way(h)' = (pass'[x].prev \o FlattenSeq(pass'[x].list)) \o FlattenSeq(queue'[h])
            BY <1>1, <6>1 DEF Way
          <6> QED BY <3>2, <6>1, <6>2
        <5>3. a \in Seq(Nat) /\ b \in Seq(Nat)
          BY FlatOfHead
        <5> HIDE DEF a, b
        <5>4. (a \o b) \o <<>> = a \o b
          BY <5>3
        <5> QED BY <4>1, <5>1, <5>2, <5>4, FlattenEmpty
      <4>2. CASE k # h
        <5>1. ~BusyWith(k) /\ ~BusyWith(k)' /\ queue'[k] = queue[k] /\ prev' = prev
          BY <1>1, <1>2, <2>1, <3>1, <3>3, <4>2
        <5> QED BY <5>1 DEF Way
      <4> QED BY <4>1, <4>2
    <3>7. ASSUME NEW k \in Heads PROVE Left(k)' = Left(k)
      BY <1>1, <2>1, <3>2, <3>3 DEF Left
    <3>5. \A k \in Heads : Pieces(k)'
      BY <1>1, <2>1, <3>4, <3>7, SamePieces
    <3>6. ShortRests'
      BY <1>1, <2>1, <3>2 DEF ShortRests
    <3> QED BY <1>1, <3>5, <3>6
  <2> QED BY <2>3, <2>4
<1>8. ASSUME StorePrev(x) PROVE PieceInv'
  <2>1. cpc[x] = "handle" /\ pass[x].i \in 1..NHeads /\ pass[x].list = <<>>
    BY <1>2, <1>8 DEF StorePrev, At, PassAt, PassType
  <2>2. PICK h \in Heads : h = HeadAt(pass[x].i)
    BY <2>1, HeadsType
  <2>3. /\ cpc'[x] = "scan" /\ UNCHANGED <<queue, sent, conn>>
        /\ prev' = [prev EXCEPT ![h] = pass[x].prev]
        /\ pass'[x].prev = <<>> /\ \A y \in Contexts : y # x => pass'[y] = pass[y]
    BY <1>2, <1>8, <2>2 DEF StorePrev, Goto, PassType
  <2>4. \A k \in Heads : ~BusyWith(k)' /\ (BusyWith(k) <=> k = h)
    BY <1>1, <2>1, <2>2, <2>3 DEF BusyWith
  <2>5. ASSUME NEW k \in Heads PROVE Way(k)' = Way(k)
    <3>1. CASE k = h
      <4> DEFINE a == pass[x].prev
      <4>1. Way(h) = (a \o <<>>) \o FlattenSeq(queue[h])
        BY <1>1, <2>1, <2>4, FlattenEmpty DEF Way
      <4>2. Way(h)' = a \o FlattenSeq(queue[h])
        <5>1. prev'[h] = a /\ ~BusyWith(h)' /\ queue' = queue
          BY <1>2, <2>3, <2>4
        <5> QED BY <5>1 DEF Way
      <4>3. a \in Seq(Nat)
        BY FlatOfPass
      <4> HIDE DEF a
      <4>4. a \o <<>> = a
        BY <4>3
      <4> QED BY <3>1, <4>1, <4>2, <4>4
    <3>2. CASE k # h
      <4>1. ~BusyWith(k) /\ ~BusyWith(k)' /\ queue' = queue /\ prev'[k] = prev[k]
        BY <1>2, <2>3, <2>4, <3>2
      <4> QED BY <4>1 DEF Way
    <3> QED BY <3>1, <3>2
  <2>8. ASSUME NEW k \in Heads PROVE Left(k)' = Left(k)
    BY <1>1, <1>2, <2>3, <2>4 DEF Left
  <2>6. \A k \in Heads : Pieces(k)'
    BY <1>1, <2>3, <2>5, <2>8, SamePieces
  <2>7. ShortRests'
    <3>1. conn' = "up" => Len(pass[x].prev) <= 1 /\ \A k \in Heads : Len(prev[k]) <= 1
      BY <2>3 DEF ShortRests
    <3>2. \A k \in Heads : prev'[k] \in {prev[k], pass[x].prev}
      BY <1>2, <2>3
    <3>3. \A y \in Contexts : pass'[y].prev \in {pass[y].prev, <<>>}
      BY <2>3
    <3> QED BY <1>1, <2>3, <3>1, <3>2, <3>3 DEF ShortRests
  <2> QED BY <1>1, <2>6, <2>7
<1>9. ASSUME HandleBuffer(x) PROVE PieceInv'
  <2>1. PICK h \in Heads, buf \in Seq(Nat), rest \in Seq(Nat), g \in Nat,
             n \in Nat : BufferCut(x, h, buf, rest, g, n)
    BY <1>1, <1>9, BufferIsCut
  <2>2. UNCHANGED <<queue, prev, cpc>>
    BY <1>9 DEF HandleBuffer
  <2>3. /\ n <= Len(EventsOf(buf))
        /\ \A k \in Heads : (BusyWith(k) <=> k = h) /\ (BusyWith(k)' <=> k = h)
        /\ Way(h) = buf \o rest /\ After(g, h) /\ Way(h)' = Rest(buf, n) \o rest
        /\ Left(h)' = Rest(buf, n)
        /\ sent' = [sent EXCEPT ![h] = sent[h] \o Written(Run(g, n)) \o Early(buf)]
        /\ \A y \in Contexts : y # x => pass'[y] = pass[y]
        /\ pass'[x].prev = Rest(buf, n)
    BY <2>1 DEF BufferCut
  <2>4. ASSUME NEW k \in Heads, k # h PROVE Pieces(k)'
    <3>1. ~BusyWith(k) /\ ~BusyWith(k)' /\ queue' = queue /\ prev' = prev
      BY <2>2, <2>3, <2>4
    <3>2. Way(k)' = Way(k) /\ Left(k)' = Left(k)
      BY <3>1 DEF Way, Left
    <3>3. sent'[k] = sent[k]
      BY <1>2, <2>3, <2>4
    <3> QED BY <1>1, <3>2, <3>3, SamePieces
  <2>5. /\ buf \o rest = Run(2 * g, Len(buf \o rest)) /\ got[h] = 2 * g + Len(buf \o rest)
    BY <2>3 DEF After
  <2>6. /\ Rest(buf, n) \in Seq(Nat) /\ Len(Rest(buf, n)) = Len(buf) - 2 * n
        /\ Rest(buf, n) \o rest = Run(2 * (g + n), Len(Rest(buf, n) \o rest))
        /\ Len(buf \o rest) = 2 * n + Len(Rest(buf, n) \o rest)
        /\ n = Len(EventsOf(buf)) => Len(Rest(buf, n)) <= 1
    BY <2>1 DEF BufferCut, Divided
  <2>7. n \in Nat /\ g + n \in Nat
    <3>1. Len(EventsOf(buf)) \in Nat
      BY EventsType
    <3> QED BY <3>1
  <2>8. SentUpTo(g + n, Len(Left(h)), sent[h])'
    BY <1>1, <2>1, <2>3, BufferSent
  <2>9. got'[h] = 2 * (g + n) + Len(Rest(buf, n) \o rest)
    <3>1. Rest(buf, n) \o rest \in Seq(Nat)
      <4> DEFINE a == Rest(buf, n)
      <4>1. a \in Seq(Nat)
        BY <2>6
      <4> HIDE DEF a
      <4> QED BY <4>1 DEF a
    <3>2. PICK k \in Nat : k = Len(Rest(buf, n) \o rest)
      BY <3>1
    <3> QED BY <1>1, <2>5, <2>6, <2>7, <3>2
  <2>10. After(g + n, h)'
    <3>1. got'[h] = 2 * (g + n) + Len(Way(h)') /\ Way(h)' = Run(2 * (g + n), Len(Way(h)'))
      BY <2>3, <2>6, <2>9
    <3> QED BY <2>8, <3>1 DEF After
  <2>11. \A k \in Heads : Pieces(k)'
    BY <2>4, <2>7, <2>10 DEF Pieces
  <2>12. ShortRests'
    <3>1. /\ conn' = IF n < Len(EventsOf(buf)) THEN "down" ELSE conn
          /\ n < Len(EventsOf(buf)) => use.tears_down
      BY <2>1 DEF BufferCut
    <3>2. Len(EventsOf(buf)) \in Nat
      BY EventsType
    <3>3. conn' = "up" => conn = "up" /\ n = Len(EventsOf(buf))
      BY <2>3, <3>1, <3>2
    <3> QED BY <1>1, <2>2, <2>3, <2>6, <3>1, <3>3 DEF ShortRests
  <2> QED BY <1>1, <2>11, <2>12
<1> QED BY <1>4, <1>5, <1>6, <1>7, <1>8, <1>9 DEF Context

LEMMA PieceStart == Init => PieceInv
<1> SUFFICES ASSUME Init PROVE PieceInv
  OBVIOUS
<1>1. Alone
  BY DEF Init, Alone, Contexts
<1>2. ShortRests
  BY DEF Init, NoPass, ShortRests
<1>3. ASSUME NEW h \in Heads PROVE Pieces(h)
  <2>1. Way(h) = <<>>
    <3>1. ~BusyWith(h) /\ prev[h] = <<>> /\ queue[h] = <<>>
      BY CurrentIs DEF Init, BusyWith
    <3>2. Way(h) = <<>> \o <<>>
      BY <3>1, FlattenEmpty DEF Way
    <3> QED BY <3>2
  <2>2. Stream!Wanted(0) = <<>>
    <3>1. [i \in 1..0 |-> Sends(i)] = <<>>
      OBVIOUS
    <3> QED BY <3>1, FlattenEmpty, WantedIs
  <2>3. Run(2 * 0, 0) = <<>> /\ Len(<<>>) = 0
    BY DEF Run
  <2>4. got[h] = 0 /\ sent[h] = <<>> /\ Left(h) = <<>>
    BY CurrentIs DEF Init, Left, BusyWith
  <2>5. SentUpTo(0, Len(Left(h)), sent[h])
    BY <2>2, <2>4 DEF SentUpTo, Stream!LastOf
  <2>6. After(0, h)
    BY <2>1, <2>3, <2>4, <2>5 DEF After
  <2> QED BY <2>6 DEF Pieces
<1> QED BY <1>1, <1>2, <1>3 DEF PieceInv

LEMMA PieceStep == OnlyWhileWaiting /\ StepInv /\ PieceInv /\ [Next]_vars => PieceInv'
BY PieceOther, PieceContext DEF Next

LEMMA WayIs ==
  ASSUME StepInv, Alone, NEW h \in Heads
  PROVE  OnTheWay(h) = Way(h) /\ Leftover(h) = Left(h)
<1>1. \A x \in Contexts : x # Current => cpc[x] # "handle"
  BY DEF Alone, Current, Contexts
<1>2. CASE BusyWith(h)
  <2>1. Busy(h) = {Current}
    BY <1>1, <1>2, CurrentIs DEF Busy, BusyWith
  <2>2. Busy(h) # {} /\ (CHOOSE y \in Busy(h) : TRUE) = Current
    BY <2>1
  <2> DEFINE y == CHOOSE z \in Busy(h) : TRUE
  <2>3. /\ OnTheWay(h) = (pass[y].prev \o FlattenSeq(pass[y].list)) \o FlattenSeq(queue[h])
        /\ Leftover(h) = pass[y].prev
    BY <2>2 DEF OnTheWay, Leftover
  <2>4. y = Current
    BY <2>2
  <2> HIDE DEF y
  <2> QED BY <1>2, <2>3, <2>4 DEF Way, Left
<1>3. CASE ~BusyWith(h)
  <2>1. Busy(h) = {}
    BY <1>1, <1>3, CurrentIs DEF Busy, BusyWith
  <2>2. OnTheWay(h) = (prev[h] \o <<>>) \o FlattenSeq(queue[h]) /\ Leftover(h) = prev[h]
    BY <2>1, FlattenEmpty DEF OnTheWay, Leftover
  <2>3. prev[h] \o <<>> = prev[h]
    BY FlatOfHead, ConcatEmptySeq
  <2> QED BY <1>3, <2>2, <2>3 DEF Way, Left
<1> QED BY <1>2, <1>3

(* Once the program has finished nothing waits.                              *)
LEMMA NothingLeft ==
  ASSUME StepInv, EntriesConserved, Finished
  PROVE  /\ \A h \in Heads : queue[h] = <<>>
         /\ \A x \in Contexts : cpc[x] # "handle"
<1>1. AllLeft /\ dp_entries = 0
  BY DEF Finished, StepInv, PassOf
<1>2. /\ Queued \in [Heads -> Nat] /\ Handling \in [Contexts -> Nat]
      /\ dp_entries = Total(Queued) + Total(Handling) - Total(nentries)
  BY CountTypes DEF CountsTyped
<1>3. Total(nentries) = 0
  <2>1. DOMAIN nentries = Cpus
    BY DEF StepInv, TypeOK
  <2>2. \A c \in Cpus : nentries[c] = 0
    BY <1>1 DEF AllLeft, StepInv
  <2> QED BY <2>1, <2>2, TotalOfZeros
<1>4. Total(Queued) \in Nat /\ Total(Handling) \in Nat
  BY <1>2, FiniteDomains, TotalType
<1>5. Total(Queued) = 0 /\ Total(Handling) = 0
  BY <1>1, <1>2, <1>3, <1>4
<1>6. ASSUME NEW h \in Heads PROVE queue[h] = <<>>
  <2>1. Queued[h] <= 0 /\ Queued[h] \in Nat
    BY <1>2, <1>5, FiniteDomains, TotalAtLeast
  <2>2. Len(queue[h]) = 0
    BY <2>1 DEF Queued
  <2>3. queue[h] \in Seq(Seq(1..MaxPieces))
    BY DEF StepInv, TypeOK
  <2> QED BY <2>2, <2>3, EmptySeq
<1>7. ASSUME NEW x \in Contexts PROVE cpc[x] # "handle"
  <2>1. Handling[x] <= 0 /\ Handling[x] \in Nat
    BY <1>2, <1>5, FiniteDomains, TotalAtLeast
  <2>2. /\ pass[x].list \in Seq(Seq(1..MaxPieces)) /\ pass[x].handled \in Nat
        /\ PassAt(cpc[x], pass[x], dp_entries)
    BY PassHas DEF PassType
  <2>3. Len(pass[x].list) = 0 /\ pass[x].handled = 0
    BY <2>1, <2>2 DEF Handling
  <2>4. pass[x].list = <<>>
    BY <2>2, <2>3, EmptySeq
  <2> QED BY <2>2, <2>3, <2>4 DEF PassAt
<1> QED BY <1>6, <1>7

LEMMA PiecesAre == StepInv /\ EntriesConserved /\ PieceInv => PiecesConserved
<1> SUFFICES ASSUME StepInv, EntriesConserved, PieceInv, NEW h \in Heads
             PROVE  LET way == OnTheWay(h)
                        gone == got[h] - Len(way)
                    IN  /\ way = [k \in 1..Len(way) |-> gone + k]
                        /\ gone % 2 = 0
                        /\ IF use.tears_down
                           THEN Len(sent[h]) = Cardinality((1..(gone \div 2)) \ ZeroSector)
                           ELSE Stream!LastOf(sent[h]) = (gone + Len(Leftover(h)) + 1) \div 2
                        /\ Finished => queue[h] = <<>> /\ (conn = "up" => Len(way) <= 1)
  BY DEF PiecesConserved
<1>1. PICK way : way = Way(h) /\ way = OnTheWay(h) /\ way \in Seq(Nat)
  BY WayIs, WayType DEF PieceInv
<1>2. PICK g \in Nat : /\ got[h] = 2 * g + Len(way) /\ way = Run(2 * g, Len(way))
                       /\ SentUpTo(g, Len(Leftover(h)), sent[h])
  BY <1>1, WayIs DEF PieceInv, Pieces, After
<1>3. PICK gone : gone = got[h] - Len(way)
  OBVIOUS
<1>4. gone = 2 * g /\ gone % 2 = 0 /\ gone \div 2 = g
  <2>1. Len(way) \in Nat
    BY <1>1
  <2>2. gone = 2 * g
    BY <1>2, <1>3, <2>1
  <2> QED BY <2>2
<1>5. way = [k \in 1..Len(way) |-> gone + k]
  BY <1>2, <1>4 DEF Run
<1>6. IF use.tears_down
      THEN Len(sent[h]) = Cardinality((1..(gone \div 2)) \ ZeroSector)
      ELSE Stream!LastOf(sent[h]) = (gone + Len(Leftover(h)) + 1) \div 2
  BY <1>2, <1>4, WantedLength DEF SentUpTo
<1>7. ASSUME Finished PROVE queue[h] = <<>> /\ (conn = "up" => Len(way) <= 1)
  <2>1. queue[h] = <<>> /\ ~BusyWith(h)
    BY <1>7, CurrentIs, NothingLeft DEF BusyWith
  <2>2. way = prev[h] \o <<>>
    BY <1>1, <2>1, FlattenEmpty DEF Way
  <2>3. prev[h] \in Seq(Nat)
    BY FlatOfHead
  <2>4. way = prev[h]
    BY <2>2, <2>3
  <2> QED BY <2>1, <2>4 DEF PieceInv, ShortRests
<1> QED BY <1>1, <1>3, <1>4, <1>5, <1>6, <1>7

LEMMA StreamStep ==
  StepInv /\ PieceInv /\ [Next]_vars => [Stream!Next]_(Stream!vars)
<1> SUFFICES ASSUME StepInv, PieceInv, [Next]_vars
             PROVE  Stream!Next \/ UNCHANGED Stream!vars
  OBVIOUS
<1>1. /\ got \in [Heads -> 0..MaxPieces] /\ [Next]_vars
      /\ sent \in [Heads -> Seq(Nat)]
      /\ StepInv'
  BY StepStep DEF StepInv, TypeOK
<1>5. got' \in [Heads -> 0..MaxPieces]
  BY <1>1 DEF StepInv, TypeOK
<1>2. ASSUME NEW x \in Contexts, HandleBuffer(x)
      PROVE  Stream!Next \/ UNCHANGED Stream!vars
  <2>1. Current = x /\ Current' = x /\ UNCHANGED <<use, got>>
    BY <1>2, TurnOf DEF Context, HandleBuffer, tracerVars, PieceInv
  <2>2. PICK h \in Heads, buf \in Seq(Nat), rest \in Seq(Nat), g \in Nat,
             n \in Nat : BufferCut(x, h, buf, rest, g, n)
    BY <1>2, <2>1, BufferIsCut
  <2>3. PICK m \in Nat, l \in Nat : m = Len(buf) /\ l = Len(rest)
    OBVIOUS
  <2>4. got[h] = 2 * g + (m + l) /\ 2 * n <= m
    <3>1. Len(buf \o rest) = m + l
      BY <2>3
    <3>2. n <= Len(EventsOf(buf)) /\ Way(h) = buf \o rest /\ got[h] = 2 * g + Len(Way(h))
      BY <2>2 DEF BufferCut, After
    <3> QED BY <2>3, <3>1, <3>2, EventsType
  <2>5. CASE use.tears_down
    <3>1. sent[h] = Stream!Wanted(g)
      BY <2>2, <2>5 DEF BufferCut, After, SentUpTo
    <3>2. sent'[h] = Stream!Wanted(g + n)
      <4>1. SentUpTo(g + n, Len(Left(h)), sent[h])'
        BY <2>1, <2>2, BufferSent
      <4> QED BY <2>1, <2>5, <4>1 DEF SentUpTo, Stream!Wanted, Stream!FlattenSeq
    <3>3. sent' = [sent EXCEPT ![h] = Stream!Wanted(g + n)]
      BY <1>1, <2>2, <3>2 DEF BufferCut
    <3>4. CASE Stream!Wanted(g) = Stream!Wanted(g + n)
      <4>1. UNCHANGED sent
        BY <1>1, <3>1, <3>3, <3>4
      <4> QED BY <2>1, <4>1 DEF Stream!vars
    <3>5. CASE Stream!Wanted(g) # Stream!Wanted(g + n)
      <4>1. Stream!IsStrictPrefix(sent[h], Stream!Wanted(g + n))
        BY <3>1, <3>5, WantedGrows
      <4>2. g + n \in 1..(got[h] \div 2)
        <5>1. n # 0
          BY <3>5
        <5> QED BY <2>4, <5>1
      <4>3. Stream!SendWhole(h)
        BY <2>1, <2>5, <3>3, <4>1, <4>2 DEF Stream!SendWhole
      <4> QED BY <4>3 DEF Stream!Next
    <3> QED BY <3>4, <3>5
  <2>6. CASE ~use.tears_down
    <3>1. PICK k \in Nat : m \in {2 * k, 2 * k - 1}
      <4>1. (m + 1) \div 2 \in Nat /\ m \in {2 * ((m + 1) \div 2), 2 * ((m + 1) \div 2) - 1}
        OBVIOUS
      <4> QED BY <4>1
    <3>2. /\ sent' = [sent EXCEPT ![h] = sent[h] \o Run(g, k)] /\ 2 * (g + k) <= got[h] + 1
          /\ Stream!LastOf(sent[h]) \in {g, g + 1}
      <4>1. Len(buf) \in {2 * k, 2 * k - 1}
        BY <2>3, <3>1
      <4>2. /\ x \in Contexts /\ h \in Heads /\ buf \in Seq(Nat) /\ rest \in Seq(Nat)
            /\ g \in Nat /\ n \in Nat /\ k \in Nat /\ BufferCut(x, h, buf, rest, g, n)
        BY <2>2
      <4>3. Begun(h, g, k)
        BY <2>6, <4>1, <4>2, BegunNext
      <4> QED BY <4>3 DEF Begun
    <3>3. CASE k = 0
      <4>1. sent[h] \o Run(g, 0) = sent[h]
        BY <1>1, ConcatEmptySeq DEF Run
      <4>2. UNCHANGED sent
        BY <1>1, <3>2, <3>3, <4>1
      <4> QED BY <2>1, <4>2 DEF Stream!vars
    <3>4. CASE k # 0
      <4>1. got[h] <= MaxPieces /\ got[h] \in Nat
        BY <1>1, Assumed
      <4>2. g \in 0..MaxPieces /\ k \in 1..MaxPieces /\ g + k <= (got[h] + 1) \div 2
        BY <2>4, <3>1, <3>2, <3>4, <4>1, Assumed
      <4>3. g \in {Stream!LastOf(sent[h]) - 1, Stream!LastOf(sent[h])}
        BY <3>2
      <4>4. sent' = [sent EXCEPT ![h] = @ \o Stream!Following(g, k)]
        BY <3>2 DEF Stream!Following, Run
      <4>5. Stream!SendBegun(h)
        BY <2>1, <2>6, <4>2, <4>3, <4>4 DEF Stream!SendBegun
      <4> QED BY <4>5 DEF Stream!Next
    <3> QED BY <3>3, <3>4
  <2> QED BY <2>5, <2>6
<1>3. ASSUME NEW c \in Cpus, ReadDevice(c)
      PROVE  Stream!Next \/ UNCHANGED Stream!vars
  <2>1. UNCHANGED <<use, sent>> /\ dev[c] <= NDevs
    BY <1>3 DEF ReadDevice
  <2>2. PICK n \in 0..ReadSize :
          IF n = 0 THEN UNCHANGED got ELSE got' = [got EXCEPT ![<<dev[c], c>>] = @ + n]
    BY <1>3 DEF ReadDevice
  <2>3. PICK h \in Heads : h = <<dev[c], c>>
    <3>1. dev[c] \in 1..(NDevs + 1)
      BY DEF StepInv, TypeOK
    <3>2. <<dev[c], c>> \in Heads
      BY <2>1, <3>1 DEF Heads, Devs
    <3> QED BY <3>2
  <2>4. CASE n = 0
    BY <2>1, <2>2, <2>4 DEF Stream!vars
  <2>5. CASE n # 0
    <3>1. got' = [got EXCEPT ![h] = got[h] + n] /\ n \in Nat \ {0} /\ got[h] \in Nat
      BY <1>1, <2>2, <2>3, <2>5, Assumed
    <3>2. got'[h] = got[h] + n /\ got'[h] <= MaxPieces
      BY <1>1, <1>5, <3>1
    <3>3. got[h] + n \in (got[h] + 1)..MaxPieces
      BY <3>1, <3>2, Assumed
    <3>4. Stream!Read(h)
      BY <2>1, <3>1, <3>3 DEF Stream!Read
    <3> QED BY <3>4 DEF Stream!Next
  <2> QED BY <2>4, <2>5
<1>4. CASE ~(\E x \in Contexts : HandleBuffer(x)) /\ ~(\E c \in Cpus : ReadDevice(c))
  BY <1>4 DEF Next, Tracer, Context, LockEntries, WaitEntries, JoinTracers, CleanTraceBufs,
     LockHead, TakeList, StorePrev, EndScan, DecrEntries, EndPass, Signal, Terminated,
     vars, tracerVars, Stream!vars
<1> QED BY <1>2, <1>3, <1>4

LEMMA StreamStart == Init => Stream!Init
BY Assumed DEF Init, Use, Stream!Init

(* If the signal comes while main waits, or its handler returns, no piece is *)
(* lost, repeated or out of order between a tracer and the client, and       *)
(* nothing is left when the program ends, however the threads' steps fall.   *)
THEOREM PiecesKept == ASSUME OnlyWhileWaiting PROVE Spec => []PiecesConserved
<1> DEFINE Inv == StepInv /\ EntriesConserved /\ PieceInv
<1>1. Init => Inv
  BY StepStart, EntriesStart, PieceStart
<1>2. Inv /\ [Next]_vars => Inv'
  BY StepStep, EntriesStep, PieceStep
<1>3. Inv => PiecesConserved
  BY PiecesAre
<1> QED BY <1>1, <1>2, <1>3, PTL DEF Spec

(* Under the same condition the whole way implements TraceStream: the client *)
(* gets the events of each stream in their order, each whole and once.       *)
THEOREM StreamImplemented == ASSUME OnlyWhileWaiting PROVE Spec => StreamKept
<1> DEFINE Inv == StepInv /\ PieceInv
<1>1. Init => Inv /\ Stream!Init
  BY StepStart, PieceStart, StreamStart
<1>2. Inv /\ [Next]_vars => Inv'
  BY StepStep, PieceStep
<1>3. Inv /\ [Next]_vars => [Stream!Next]_(Stream!vars)
  BY StreamStep
<1> QED BY <1>1, <1>2, <1>3, PTL DEF Spec, StreamKept, Stream!Spec
=============================================================================
