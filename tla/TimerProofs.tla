---------------------------- MODULE TimerProofs ----------------------------
(***************************************************************************)
(* Theorems about the study timer, for every tick length, every set of     *)
(* presets and every bound.                                                *)
(***************************************************************************)
EXTENDS Timer, FiniteSetTheorems, WellFoundedInduction, TLAPS
----------------------------------------------------------------------------
(* Recursive functions over 0..n are well defined and have the type their  *)
(* step preserves.  The induction is an argument by least counterexample,  *)
(* which needs only the well-foundedness of < on the naturals; the step is *)
(* a function, not an operator, so that the lemmas can be cited.           *)

(* Every nonempty set of naturals has a least element.                     *)
LEMMA LeastNat ==
    ASSUME NEW S, S \subseteq Nat, S # {}
    PROVE  \E m \in S : \A k \in S : m <= k
<1> DEFINE R == {ss \in Nat \X Nat : ss[1] < ss[2]}
<1>1. IsWellFoundedOn(R, Nat)
  BY NatLessThanWellFounded, Zenon DEF OpToRel
<1> HIDE DEF R
<1>2. PICK m \in S : \A k \in S : ~(<<k, m>> \in R)
  BY <1>1, WFMin, Zenon
<1>3. \A k \in S : ~(k < m)
  BY <1>2 DEF R
<1> QED  BY <1>3

(* f is computed on 0..n by applying step over and over to base.           *)
Iterates(f, n, base, step) ==
    \A i \in 0..n : f[i] = IF i = 0 THEN base ELSE step[i][f[i - 1]]

(* There is such a function.                                               *)
LEMMA RecursionExists ==
    ASSUME NEW n \in Nat, NEW V, NEW base \in V, NEW step \in [1..n -> [V -> V]]
    PROVE  \E f \in [0..n -> V] : Iterates(f, n, base, step)
<1> DEFINE P(k) == \E f \in [0..k -> V] :
               \A i \in 0..k : f[i] = IF i = 0 THEN base ELSE step[i][f[i - 1]]
           Bad == {k \in 0..n : ~P(k)}
<1>1. P(0)
  <2> DEFINE z == [i \in 0..0 |-> base]
  <2>1. z \in [0..0 -> V] /\ \A i \in 0..0 : z[i] = IF i = 0 THEN base ELSE step[i][z[i - 1]]
    OBVIOUS
  <2> QED  BY <2>1
<1>2. ASSUME NEW m \in 1..n, P(m - 1) PROVE P(m)
  <2>1. PICK f \in [0..m - 1 -> V] :
            \A i \in 0..m - 1 : f[i] = IF i = 0 THEN base ELSE step[i][f[i - 1]]
    BY <1>2
  <2>2. step[m][f[m - 1]] \in V
    <3>1. f[m - 1] \in V
      BY <2>1
    <3> QED  BY <3>1
  <2> DEFINE g == [i \in 0..m |-> IF i < m THEN f[i] ELSE step[m][f[m - 1]]]
  <2>3. g \in [0..m -> V]
    BY <2>1, <2>2
  <2>4. ASSUME NEW i \in 0..m PROVE g[i] = IF i = 0 THEN base ELSE step[i][g[i - 1]]
    <3>1. CASE i = m
      <4>1. m - 1 \in 0..m /\ m - 1 < m
        OBVIOUS
      <4> QED  BY <3>1, <4>1
    <3>2. CASE i < m
      <4>1. f[i] = IF i = 0 THEN base ELSE step[i][f[i - 1]]
        BY <3>2, <2>1, i \in 0..m - 1
      <4>2. i # 0 => g[i - 1] = f[i - 1]
        BY <3>2
      <4>3. g[i] = f[i]
        BY <3>2
      <4> HIDE DEF g
      <4> QED BY <4>1, <4>2, <4>3
    <3> QED  BY <3>1, <3>2
  <2> QED  BY <2>3, <2>4
<1> HIDE DEF P
<1>3. Bad = {}
  <2> SUFFICES ASSUME Bad # {} PROVE FALSE
    OBVIOUS
  <2>1. Bad \subseteq Nat
    OBVIOUS
  <2>2. PICK m \in Bad : \A k \in Bad : m <= k
    <3> HIDE DEF Bad
    <3> QED  BY <2>1, LeastNat, Zenon
  <2>3. m \in 1..n /\ P(m - 1)
    BY <2>2, <1>1
  <2> QED  BY <2>3, <1>2
<1>4. P(n)
  BY <1>3
<1> QED  BY <1>4 DEF P, Iterates

(* A function that satisfies the recursion has the type of its steps.      *)
LEMMA RecursionType ==
    ASSUME NEW n \in Nat, NEW V, NEW base \in V, NEW step \in [1..n -> [V -> V]],
           NEW f, Iterates(f, n, base, step)
    PROVE  \A i \in 0..n : f[i] \in V
<1> DEFINE Bad == {k \in 0..n : f[k] \notin V}
<1>1. Bad = {}
  <2> SUFFICES ASSUME Bad # {} PROVE FALSE
    OBVIOUS
  <2>1. Bad \subseteq Nat
    OBVIOUS
  <2>2. PICK m \in Bad : \A k \in Bad : m <= k
    <3> HIDE DEF Bad
    <3> QED  BY <2>1, LeastNat, Zenon
  <2>3. m # 0
    BY <2>2 DEF Iterates
  <2>4. m \in 1..n /\ m - 1 \in 0..n /\ f[m - 1] \in V
    BY <2>2, <2>3
  <2>5. f[m] = step[m][f[m - 1]]
    BY <2>4, <2>3 DEF Iterates
  <2> QED  BY <2>4, <2>5, <2>2
<1> QED  BY <1>1

(* f adds up the first terms of a, one by one.                             *)
SumsUp(f, a, n) ==
    \A i \in 0..n : f[i] \in Nat /\ f[i] = IF i = 0 THEN 0 ELSE f[i - 1] + a[i]

(* A sum is computed that way.                                             *)
LEMMA TotalRecursion ==
    ASSUME NEW n \in Nat, NEW a, \A i \in 1..n : a[i] \in Nat
    PROVE  \E f : Total(a, n) = f[n] /\ SumsUp(f, a, n)
<1> DEFINE step == [i \in 1..n |-> [v \in Nat |-> v + a[i]]]
           sum[i \in 0..n] == IF i = 0 THEN 0 ELSE sum[i - 1] + a[i]
<1>1. step \in [1..n -> [Nat -> Nat]]
  OBVIOUS
<1>2. \A i \in 1..n : \A v \in Nat : step[i][v] = v + a[i]
  OBVIOUS
<1> HIDE DEF step
<1>3. PICK f \in [0..n -> Nat] : Iterates(f, n, 0, step)
  <2>1. 0 \in Nat
    OBVIOUS
  <2> QED  BY <1>1, <2>1, RecursionExists, Zenon
<1>4. f = [i \in 0..n |-> IF i = 0 THEN 0 ELSE f[i - 1] + a[i]]
  <2>1. ASSUME NEW i \in 0..n PROVE f[i] = IF i = 0 THEN 0 ELSE f[i - 1] + a[i]
    <3>1. CASE i = 0
      BY <3>1, <1>3 DEF Iterates
    <3>2. CASE i # 0
      <4>1. f[i - 1] \in Nat /\ i \in 1..n
        BY <3>2
      <4> QED  BY <4>1, <1>2, <1>3, <3>2 DEF Iterates
    <3> QED  BY <3>1, <3>2
  <2> QED  BY <2>1
<1>5. sum = [i \in 0..n |-> IF i = 0 THEN 0 ELSE sum[i - 1] + a[i]]
  BY <1>4
<1>6. Total(a, n) = sum[n]
  BY DEF Total
<1> HIDE DEF sum
<1>7. ASSUME NEW i \in 0..n PROVE sum[i] = IF i = 0 THEN 0 ELSE sum[i - 1] + a[i]
  BY <1>5
<1> DEFINE Bad == {k \in 0..n : sum[k] \notin Nat}
<1>8. Bad = {}
  <2> SUFFICES ASSUME Bad # {} PROVE FALSE
    OBVIOUS
  <2>1. Bad \subseteq Nat
    OBVIOUS
  <2>2. PICK m \in Bad : \A k \in Bad : m <= k
    <3> HIDE DEF Bad
    <3> QED  BY <2>1, LeastNat, Zenon
  <2>3. m # 0
    BY <2>2, <1>7
  <2>4. m - 1 \in 0..n /\ m \in 1..n /\ sum[m - 1] \in Nat
    BY <2>2, <2>3
  <2>5. sum[m] = sum[m - 1] + a[m] /\ a[m] \in Nat
    BY <2>3, <2>4, <1>7
  <2> QED  BY <2>2, <2>4, <2>5
<1> QED  BY <1>6, <1>7, <1>8 DEF SumsUp

(* A sum of naturals is a natural.                                         *)
LEMMA TotalType ==
    ASSUME NEW n \in Nat, NEW a, \A i \in 1..n : a[i] \in Nat
    PROVE  Total(a, n) \in Nat
<1>1. n \in 0..n
  OBVIOUS
<1> QED  BY <1>1, TotalRecursion DEF SumsUp

(* Of two sums the one with the smaller terms is smaller.                  *)
LEMMA SmallerSums ==
    ASSUME NEW n \in Nat, NEW a, NEW b, NEW f, NEW g,
           \A i \in 1..n : a[i] \in Nat /\ b[i] \in Nat /\ a[i] <= b[i],
           SumsUp(f, a, n), SumsUp(g, b, n)
    PROVE  f[n] <= g[n]
<1> DEFINE Bad == {k \in 0..n : ~(f[k] <= g[k])}
<1>1. Bad = {}
  <2> SUFFICES ASSUME Bad # {} PROVE FALSE
    OBVIOUS
  <2>1. Bad \subseteq Nat
    OBVIOUS
  <2>2. PICK m \in Bad : \A k \in Bad : m <= k
    <3> HIDE DEF Bad
    <3> QED  BY <2>1, LeastNat, Zenon
  <2>3. m # 0
    BY <2>2 DEF SumsUp
  <2>4. m - 1 \in 0..n /\ m \in 1..n /\ f[m - 1] <= g[m - 1]
    BY <2>2, <2>3
  <2>5. /\ f[m] = f[m - 1] + a[m] /\ g[m] = g[m - 1] + b[m]
        /\ f[m - 1] \in Nat /\ g[m - 1] \in Nat
    BY <2>3, <2>4 DEF SumsUp
  <2> QED  BY <2>2, <2>4, <2>5
<1> QED  BY <1>1

LEMMA TotalMonotone ==
    ASSUME NEW n \in Nat, NEW a, NEW b,
           \A i \in 1..n : a[i] \in Nat /\ b[i] \in Nat /\ a[i] <= b[i]
    PROVE  Total(a, n) <= Total(b, n)
<1>1. PICK f : Total(a, n) = f[n] /\ SumsUp(f, a, n)
  BY TotalRecursion
<1>2. PICK g : Total(b, n) = g[n] /\ SumsUp(g, b, n)
  BY TotalRecursion
<1> QED  BY <1>1, <1>2, SmallerSums

(* One more term adds what it is.                                          *)
LEMMA TotalExtended ==
    ASSUME NEW n \in Nat, NEW a, NEW b,
           \A i \in 1..n : a[i] \in Nat /\ b[i] = a[i], b[n + 1] \in Nat
    PROVE  Total(b, n + 1) = Total(a, n) + b[n + 1]
<1>1. PICK f : Total(a, n) = f[n] /\ SumsUp(f, a, n)
  BY TotalRecursion
<1>2. \A i \in 1..(n + 1) : b[i] \in Nat
  BY \A i \in 1..(n + 1) : i \in 1..n \/ i = n + 1
<1>3. n + 1 \in Nat
  OBVIOUS
<1>4. PICK g : Total(b, n + 1) = g[n + 1] /\ SumsUp(g, b, n + 1)
  BY <1>2, <1>3, TotalRecursion
<1>5. SumsUp(g, a, n)
  BY <1>4 DEF SumsUp
<1>6. f[n] <= g[n] /\ g[n] <= f[n]
  <2>1. \A i \in 1..n : a[i] \in Nat /\ a[i] <= a[i]
    OBVIOUS
  <2> QED  BY <1>1, <1>5, <2>1, SmallerSums
<1>7. g[n + 1] = g[n] + b[n + 1] /\ g[n] \in Nat /\ f[n] \in Nat
  BY <1>1, <1>4 DEF SumsUp
<1> QED  BY <1>1, <1>4, <1>6, <1>7
----------------------------------------------------------------------------
(* Arithmetic.                                                             *)

(* Whole division by a positive natural.                                   *)
LEMMA DivFacts ==
    ASSUME NEW a \in Nat, NEW b \in Nat \ {0}
    PROVE  /\ a \div b \in Nat
           /\ b * (a \div b) <= a
           /\ a < b * (a \div b) + b
  OBVIOUS

LEMMA TimesNat ==
    ASSUME NEW a \in Nat, NEW b \in Nat
    PROVE  a * b \in Nat
  OBVIOUS

(* A ceiling is 0 only for 0.                                              *)
LEMMA CeilingPositive ==
    ASSUME NEW a \in Nat \ {0}, NEW b \in Nat \ {0}
    PROVE  /\ (a + b - 1) \div b \in Nat
           /\ (a + b - 1) \div b >= 1
<1>1. a + b - 1 \in Nat /\ a + b - 1 >= b
  OBVIOUS
<1>2. a + b - 1 < b * ((a + b - 1) \div b) + b
  BY <1>1, DivFacts
<1>3. (a + b - 1) \div b \in Nat
  BY <1>1, DivFacts
<1>4. CASE (a + b - 1) \div b = 0
  BY <1>1, <1>2, <1>4
<1> QED  BY <1>3, <1>4
----------------------------------------------------------------------------
(* The pure helpers.                                                       *)

LEMMA SegmentSecondsType ==
    ASSUME NEW s \in Nat, NEW e \in Nat
    PROVE  SegmentSeconds(s, e) \in Nat
<1>1. CASE e <= s
  BY <1>1 DEF SegmentSeconds
<1>2. CASE e > s
  <2>1. e - s \in Nat
    BY <1>2
  <2> QED  BY <1>2, <2>1, DivFacts, TimerAssumption DEF SegmentSeconds
<1> QED  BY <1>1, <1>2

LEMMA EndOrType ==
    ASSUME NEW s \in Segment, NEW t \in Nat
    PROVE  EndOr(s, t) \in Nat
  BY DEF EndOr, IsOpen, Segment

(* active_seconds sums naturals, however many segments there are.          *)
LEMMA SumSecondsType ==
    ASSUME NEW segs \in Seq(Segment), NEW t \in Nat
    PROVE  SumSeconds(segs, t) \in Nat
<1> DEFINE a == [i \in DOMAIN segs |-> SegmentSeconds(segs[i].started_at, EndOr(segs[i], t))]
<1>1. Len(segs) \in Nat /\ DOMAIN segs = 1..Len(segs)
  OBVIOUS
<1>2. a \in [1..Len(segs) -> Nat]
  <2>1. ASSUME NEW i \in DOMAIN segs
        PROVE  SegmentSeconds(segs[i].started_at, EndOr(segs[i], t)) \in Nat
    <3>1. segs[i] \in Segment
      OBVIOUS
    <3>2. segs[i].started_at \in Nat
      BY <3>1 DEF Segment
    <3> QED  BY <3>1, <3>2, EndOrType, SegmentSecondsType
  <2> QED  BY <1>1, <2>1
<1> HIDE DEF a
<1>3. Total(a, Len(segs)) \in Nat
  BY <1>1, <1>2, TotalType
<1> QED  BY <1>3 DEF SumSeconds, a

(* close_open_segments leaves no segment open and moves no start.          *)
LEMMA CloseOpenSegmentsFacts ==
    ASSUME NEW segs \in Seq(Segment), NEW t \in Nat
    PROVE  LET closed == CloseOpenSegments(segs, t)
           IN  /\ closed \in Seq(ClosedSegment)
               /\ Len(closed) = Len(segs)
               /\ \A i \in 1..Len(segs) :
                    /\ closed[i].started_at = segs[i].started_at
                    /\ closed[i].ended_at = EndOr(segs[i], t)
<1> DEFINE closed == CloseOpenSegments(segs, t)
<1>1. DOMAIN segs = 1..Len(segs) /\ Len(segs) \in Nat
  OBVIOUS
<1>2. ASSUME NEW i \in 1..Len(segs)
      PROVE  /\ closed[i] \in ClosedSegment
             /\ closed[i].started_at = segs[i].started_at
             /\ closed[i].ended_at = EndOr(segs[i], t)
  <2>1. segs[i] \in Segment
    BY <1>1
  <2>2. closed[i] = [segs[i] EXCEPT !.ended_at = EndOr(segs[i], t)]
    BY <1>1 DEF CloseOpenSegments
  <2>3. EndOr(segs[i], t) \in Nat
    BY <2>1, EndOrType
  <2> QED  BY <2>1, <2>2, <2>3 DEF Segment, ClosedSegment
<1>3. closed = [i \in 1..Len(segs) |-> [segs[i] EXCEPT !.ended_at = EndOr(segs[i], t)]]
  BY <1>1 DEF CloseOpenSegments
<1>4. closed \in [1..Len(segs) -> ClosedSegment]
  <2>1. DOMAIN closed = 1..Len(segs) /\ closed = [i \in 1..Len(segs) |-> closed[i]]
    BY <1>3
  <2> HIDE DEF closed
  <2> QED  BY <1>2, <2>1
<1> HIDE DEF closed
<1>5. closed \in Seq(ClosedSegment) /\ Len(closed) = Len(segs)
  BY <1>1, <1>4
<1> QED  BY <1>2, <1>5 DEF closed

(* closed_segments goes through the segments once.                         *)
LEMMA ClosedSegmentsRecursion ==
    ASSUME NEW segs \in Seq(Segment)
    PROVE  \E kept :
             /\ ClosedSegments(segs) = kept[Len(segs)]
             /\ \A i \in 0..Len(segs) :
                    kept[i] = IF i = 0 THEN <<>>
                              ELSE IF IsOpen(segs[i]) THEN kept[i - 1]
                              ELSE Append(kept[i - 1], segs[i])
<1> DEFINE n == Len(segs)
           V == Seq({s \in ClosedSegment : s \in Elements(segs)})
           step == [i \in 1..n |-> [v \in V |-> IF IsOpen(segs[i]) THEN v ELSE Append(v, segs[i])]]
           kept[i \in 0..n] == IF i = 0 THEN <<>>
                    ELSE IF IsOpen(segs[i]) THEN kept[i - 1] ELSE Append(kept[i - 1], segs[i])
<1>1. n \in Nat /\ DOMAIN segs = 1..n
  OBVIOUS
<1>2. <<>> \in V
  OBVIOUS
<1>3. ASSUME NEW i \in 1..n, ~IsOpen(segs[i])
      PROVE  segs[i] \in {s \in ClosedSegment : s \in Elements(segs)}
  <2>1. segs[i] \in Segment /\ segs[i] \in Elements(segs)
    BY <1>1 DEF Elements
  <2> QED  BY <2>1, <1>3 DEF Segment, ClosedSegment, IsOpen
<1>4. step \in [1..n -> [V -> V]]
  <2>1. ASSUME NEW i \in 1..n, NEW v \in V
        PROVE  (IF IsOpen(segs[i]) THEN v ELSE Append(v, segs[i])) \in V
    BY <1>3
  <2> HIDE DEF V
  <2> QED  BY <2>1
<1>5. ASSUME NEW i \in 1..n, NEW v \in V
      PROVE  step[i][v] = IF IsOpen(segs[i]) THEN v ELSE Append(v, segs[i])
  OBVIOUS
<1> HIDE DEF step, V
<1>6. PICK f \in [0..n -> V] : Iterates(f, n, <<>>, step)
  BY <1>1, <1>2, <1>4, RecursionExists, Zenon
<1>7. f = [i \in 0..n |-> IF i = 0 THEN <<>>
             ELSE IF IsOpen(segs[i]) THEN f[i - 1] ELSE Append(f[i - 1], segs[i])]
  <2>1. ASSUME NEW i \in 0..n
        PROVE  f[i] = IF i = 0 THEN <<>>
                      ELSE IF IsOpen(segs[i]) THEN f[i - 1] ELSE Append(f[i - 1], segs[i])
    <3>1. CASE i = 0
      BY <3>1, <1>6 DEF Iterates
    <3>2. CASE i # 0
      <4>1. i \in 1..n /\ f[i - 1] \in V
        BY <3>2, <1>1
      <4>2. f[i] = step[i][f[i - 1]]
        BY <3>2, <1>6 DEF Iterates
      <4> QED  BY <4>1, <4>2, <1>5, <3>2
    <3> QED  BY <3>1, <3>2
  <2> QED  BY <2>1
<1>8. kept = [i \in 0..n |-> IF i = 0 THEN <<>>
             ELSE IF IsOpen(segs[i]) THEN kept[i - 1] ELSE Append(kept[i - 1], segs[i])]
  BY <1>7
<1>9. ClosedSegments(segs) = kept[n]
  BY DEF ClosedSegments
<1> HIDE DEF kept
<1> QED  BY <1>8, <1>9

(* It keeps segments of its argument, and only closed ones.                *)
LEMMA ClosedSegmentsFacts ==
    ASSUME NEW segs \in Seq(Segment)
    PROVE  ClosedSegments(segs) \in Seq({s \in ClosedSegment : s \in Elements(segs)})
<1> DEFINE n == Len(segs)
           V == Seq({s \in ClosedSegment : s \in Elements(segs)})
<1>1. n \in Nat /\ DOMAIN segs = 1..n /\ <<>> \in V
  OBVIOUS
<1>2. PICK kept :
         /\ ClosedSegments(segs) = kept[n]
         /\ \A i \in 0..n : kept[i] = IF i = 0 THEN <<>>
                ELSE IF IsOpen(segs[i]) THEN kept[i - 1] ELSE Append(kept[i - 1], segs[i])
  BY ClosedSegmentsRecursion
<1>3. ASSUME NEW i \in 1..n, ~IsOpen(segs[i])
      PROVE  segs[i] \in {s \in ClosedSegment : s \in Elements(segs)}
  <2>1. segs[i] \in Segment /\ segs[i] \in Elements(segs)
    BY <1>1 DEF Elements
  <2> QED  BY <2>1, <1>3 DEF Segment, ClosedSegment, IsOpen
<1> DEFINE Bad == {k \in 0..n : kept[k] \notin V}
<1>4. Bad = {}
  <2> SUFFICES ASSUME Bad # {} PROVE FALSE
    OBVIOUS
  <2>1. Bad \subseteq Nat
    BY <1>1
  <2>2. PICK m \in Bad : \A k \in Bad : m <= k
    <3> HIDE DEF Bad
    <3> QED  BY <2>1, LeastNat, Zenon
  <2>3. m # 0
    BY <2>2, <1>1, <1>2
  <2>4. m - 1 \in 0..n /\ m \in 1..n /\ kept[m - 1] \in V
    BY <1>1, <2>2, <2>3
  <2>5. kept[m] = IF IsOpen(segs[m]) THEN kept[m - 1] ELSE Append(kept[m - 1], segs[m])
    BY <1>2, <2>3, <2>4
  <2>6. ~IsOpen(segs[m]) => Append(kept[m - 1], segs[m]) \in V
    BY <2>4, <1>3
  <2>7. kept[m] \in V
    <3> HIDE DEF V
    <3> QED  BY <2>4, <2>5, <2>6
  <2> QED  BY <2>2, <2>7
<1> QED  BY <1>1, <1>2, <1>4

(* Of segments that are all closed it keeps every one.                     *)
LEMMA AllClosedAreKept ==
    ASSUME NEW segs \in Seq(ClosedSegment)
    PROVE  ClosedSegments(segs) = segs
<1> DEFINE n == Len(segs)
<1>1. n \in Nat /\ DOMAIN segs = 1..n /\ segs \in Seq(Segment)
  <2>1. ClosedSegment \subseteq Segment
    BY DEF ClosedSegment, Segment
  <2> QED  BY <2>1
<1>2. ASSUME NEW i \in 1..n PROVE segs[i] \in ClosedSegment /\ ~IsOpen(segs[i])
  <2>1. segs[i] \in ClosedSegment
    OBVIOUS
  <2> QED  BY <2>1, TimerAssumption DEF ClosedSegment, IsOpen
<1>3. PICK kept :
         /\ ClosedSegments(segs) = kept[n]
         /\ \A i \in 0..n : kept[i] = IF i = 0 THEN <<>>
                ELSE IF IsOpen(segs[i]) THEN kept[i - 1] ELSE Append(kept[i - 1], segs[i])
  BY <1>1, ClosedSegmentsRecursion
<1> DEFINE Same(k) == /\ kept[k] \in Seq(ClosedSegment) /\ Len(kept[k]) = k
                      /\ \A i \in 1..k : kept[k][i] = segs[i]
           Bad == {k \in 0..n : ~Same(k)}
<1>4. Bad = {}
  <2> SUFFICES ASSUME Bad # {} PROVE FALSE
    OBVIOUS
  <2>1. Bad \subseteq Nat
    BY <1>1
  <2>2. PICK m \in Bad : \A k \in Bad : m <= k
    <3> HIDE DEF Bad
    <3> QED  BY <2>1, LeastNat, Zenon
  <2>3. m # 0
    <3>1. kept[0] = <<>>
      BY <1>1, <1>3
    <3>2. Same(0)
      BY <3>1
    <3> QED  BY <2>2, <3>2
  <2>4. m - 1 \in 0..n /\ m \in 1..n /\ Same(m - 1)
    BY <1>1, <2>2, <2>3
  <2>5. kept[m] = Append(kept[m - 1], segs[m])
    BY <1>2, <1>3, <2>3, <2>4
  <2>6. Same(m)
    <3>1. PICK t : t = kept[m - 1]
      OBVIOUS
    <3>2. t \in Seq(ClosedSegment) /\ Len(t) = m - 1 /\ \A i \in 1..(m - 1) : t[i] = segs[i]
      BY <2>4, <3>1
    <3>3. kept[m] = Append(t, segs[m]) /\ segs[m] \in ClosedSegment
      BY <1>2, <2>4, <2>5, <3>1
    <3>4. PICK u : u = Append(t, segs[m])
      OBVIOUS
    <3>5. /\ u \in Seq(ClosedSegment) /\ Len(u) = m
          /\ \A i \in 1..m : u[i] = segs[i]
      BY <2>4, <3>2, <3>3, <3>4
    <3> QED  BY <3>3, <3>4, <3>5
  <2> QED  BY <2>2, <2>6
<1>5. Same(n)
  BY <1>1, <1>4
<1>6. PICK t : t = kept[n]
  OBVIOUS
<1>7. t \in Seq(ClosedSegment) /\ Len(t) = n /\ \A i \in 1..n : t[i] = segs[i]
  BY <1>5, <1>6
<1>8. t = segs
  BY ONLY <1>7, segs \in Seq(ClosedSegment)
<1> QED  BY <1>3, <1>6, <1>8

LEMMA DisplayOfType ==
    ASSUME wall \in Nat, mono \in Nat, NEW t \in TimerState
    PROVE  ActiveSeconds(t) \in Nat /\ DisplaySeconds(t) \in Nat
<1>1. t.active_segments \in Seq(Segment) /\ t.remaining_seconds \in Nat
      /\ t.config \in TimerConfig /\ t.ends_at \in Nat \cup {None}
      /\ t.anchor \in RuntimeAnchor \cup {None}
  BY DEF TimerState
<1>2. SumSeconds(t.active_segments, wall) \in Nat
  BY <1>1, SumSecondsType
<1>3. ConfiguredSeconds(t) \in Nat
  BY <1>1 DEF ConfiguredSeconds, TimerConfig
<1>4. ActiveSeconds(t) \in Nat
  BY <1>1, <1>2, <1>3 DEF ActiveSeconds, Minus
<1>5. RemainingFromRuntime(t) \in Nat
  <2>1. CASE t.anchor = None /\ t.ends_at = None
    BY <2>1, <1>1 DEF RemainingFromRuntime
  <2>2. CASE t.anchor = None /\ t.ends_at # None
    <3>1. t.ends_at \in Nat
      BY <1>1, <2>2
    <3>2. CASE t.ends_at <= wall
      BY <2>2, <3>2 DEF RemainingFromRuntime, SecondsUntil
    <3>3. CASE t.ends_at > wall
      <4>1. t.ends_at - wall \in Nat \ {0}
        BY <3>1, <3>3
      <4>2. (t.ends_at - wall + Tps - 1) \div Tps \in Nat
        BY <4>1, CeilingPositive, TimerAssumption
      <4> QED  BY <2>2, <3>1, <3>3, <4>2 DEF RemainingFromRuntime, SecondsUntil
    <3> QED  BY <3>1, <3>2, <3>3
  <2>3. CASE t.anchor # None
    <3>1. t.anchor.value \in Nat /\ t.anchor.mono \in Nat
      BY <1>1, <2>3 DEF RuntimeAnchor
    <3>2. Minus(mono, t.anchor.mono) \in Nat
      BY <3>1 DEF Minus
    <3>3. Minus(mono, t.anchor.mono) \div Tps \in Nat
      BY <3>2, DivFacts, TimerAssumption
    <3> QED  BY <2>3, <3>1, <3>3 DEF RemainingFromRuntime, Minus
  <2> QED  BY <2>1, <2>2, <2>3
<1> QED  BY <1>1, <1>4, <1>5 DEF DisplaySeconds

LEMMA DisplayType ==
    ASSUME TypeOK
    PROVE  ActiveSeconds(timer) \in Nat /\ DisplaySeconds(timer) \in Nat
  BY DisplayOfType DEF TypeOK

LEMMA IdleSecondsType ==
    ASSUME NEW c \in TimerConfig
    PROVE  IdleSeconds(c) \in Nat
  BY DEF IdleSeconds, TimerConfig, Modes

LEMMA NewTimerType ==
    ASSUME NEW c \in TimerConfig
    PROVE  NewTimer(c) \in TimerState
  BY IdleSecondsType DEF NewTimer, TimerState, Phases

LEMMA ResetToIdleType ==
    ASSUME NEW t \in TimerState
    PROVE  /\ ResetToIdle(t) \in TimerState
           /\ ResetToIdle(t).phase = "Idle"
           /\ ResetToIdle(t).running = FALSE
           /\ ResetToIdle(t).active_segments = <<>>
           /\ ResetToIdle(t).ends_at = None
           /\ ResetToIdle(t).anchor = None
<1>1. t.config \in TimerConfig /\ t.last_alive_at \in Nat \cup {None}
  BY DEF TimerState
<1> DEFINE fresh == NewTimer(t.config)
<1>2. fresh \in TimerState
  BY <1>1, NewTimerType
<1>3. /\ fresh.phase = "Idle" /\ fresh.running = FALSE /\ fresh.active_segments = <<>>
      /\ fresh.ends_at = None /\ fresh.anchor = None
  BY DEF NewTimer
<1>4. ResetToIdle(t) = [fresh EXCEPT !.last_alive_at = t.last_alive_at]
  BY DEF ResetToIdle
<1> HIDE DEF fresh
<1> QED  BY <1>1, <1>2, <1>3, <1>4 DEF TimerState

(* A range only ever adds closed segments to the history.                  *)
LEMMA EmitType ==
    ASSUME TypeOK, NEW r \in SessionRange \cup {None}, Emit(r)
    PROVE  range' \in SessionRange \cup {None} /\ logged' \subseteq ClosedSegment
<1>1. CASE r = None
  BY <1>1 DEF Emit, TypeOK
<1>2. CASE r # None
  <2>1. r.segments \in Seq(ClosedSegment)
    BY <1>2 DEF SessionRange
  <2>2. Elements(r.segments) \subseteq ClosedSegment
    BY <2>1 DEF Elements
  <2> QED  BY <1>2, <2>2 DEF Emit, TypeOK
<1> QED  BY <1>1, <1>2

LEMMA RangeOfType ==
    ASSUME NEW p \in Phases, NEW q \in Reasons, NEW segs \in Seq(ClosedSegment)
    PROVE  RangeOf(p, q, segs) \in SessionRange \cup {None}
  BY DEF RangeOf, SessionRange
----------------------------------------------------------------------------
(* Type correctness.                                                       *)

LEMMA InitType == Init => TypeOK
<1> SUFFICES ASSUME Init PROVE TypeOK
  OBVIOUS
<1>1. PICK c \in Configs : timer = NewTimer(c)
  BY DEF Init
<1>2. timer \in TimerState
  BY <1>1, NewTimerType, TimerAssumption
<1> QED  BY <1>2 DEF Init, TypeOK

LEMMA StepType == TypeOK /\ [Next]_vars => TypeOK'
<1> SUFFICES ASSUME TypeOK, [Next]_vars PROVE TypeOK'
  OBVIOUS
<1>a. /\ timer.phase \in Phases /\ timer.remaining_seconds \in Nat
      /\ timer.active_segments \in Seq(Segment) /\ timer.config \in TimerConfig
      /\ timer.started_at \in Nat \cup {None} /\ timer.ends_at \in Nat \cup {None}
  BY DEF TypeOK, TimerState
<1>b. wall \in Nat /\ mono \in Nat /\ timer \in TimerState
  BY DEF TypeOK
<1>c. \A s \in Nat : PlusSeconds(wall, s) \in Nat
  BY <1>b, TimesNat, TimerAssumption DEF PlusSeconds
<1>d. None \in SessionRange \cup {None}
  OBVIOUS
<1>1. CASE Tick
  BY <1>1, <1>b DEF Tick, TypeOK
<1>2. CASE Start
  <2> DEFINE total == IF timer.config.mode = "Endless" THEN 0
                      ELSE Greater(timer.remaining_seconds, 1)
  <2>1. total \in Nat /\ PlusSeconds(wall, total) \in Nat
    BY <1>a, <1>c DEF Greater
  <2>2. <<OpenSegment(wall)>> \in Seq(Segment)
    BY <1>b DEF OpenSegment, Segment
  <2>3. PhaseOfMode(timer.config.mode) \in Phases
    BY <1>a DEF PhaseOfMode, TimerConfig, Modes, Phases
  <2>4. [mono |-> mono, value |-> total] \in RuntimeAnchor
    BY <2>1, <1>b DEF RuntimeAnchor
  <2>5. timer' \in TimerState
    BY <1>2, <1>b, <2>1, <2>2, <2>3, <2>4 DEF Start, TimerState
  <2> QED  BY <1>2, <1>b, <1>d, <2>5, EmitType DEF Start, TypeOK
<1>3. CASE Pause
  <2>1. CloseOpenSegments(timer.active_segments, wall) \in Seq(Segment)
    <3>1. CloseOpenSegments(timer.active_segments, wall) \in Seq(ClosedSegment)
      BY <1>a, <1>b, CloseOpenSegmentsFacts
    <3>2. ClosedSegment \subseteq Segment
      BY DEF ClosedSegment, Segment
    <3> QED  BY <3>1, <3>2
  <2>2. DisplaySeconds(timer) \in Nat
    BY DisplayType
  <2>3. timer' \in TimerState
    BY <1>3, <1>b, <2>1, <2>2 DEF Pause, TimerState
  <2> QED  BY <1>3, <1>b, <1>d, <2>3, EmitType DEF Pause, TypeOK
<1>4. CASE Resume
  <2> DEFINE left == TimeOnResume(timer)
  <2>1. left \in Nat /\ PlusSeconds(wall, left) \in Nat
    BY <1>a, <1>c, DisplayType DEF TimeOnResume, Greater
  <2>2. Append(timer.active_segments, OpenSegment(wall)) \in Seq(Segment)
    BY <1>a, <1>b DEF OpenSegment, Segment
  <2>3. [mono |-> mono, value |-> left] \in RuntimeAnchor
    BY <2>1, <1>b DEF RuntimeAnchor
  <2> HIDE DEF left
  <2>4. timer' \in TimerState
    BY <1>4, <1>b, <2>1, <2>2, <2>3 DEF Resume, TimerState, left
  <2> QED  BY <1>4, <1>b, <1>d, <2>4, EmitType DEF Resume, TypeOK
<1>5. CASE Reset
  BY <1>5, <1>b, <1>d, EmitType, ResetToIdleType DEF Reset, TypeOK
<1>6. CASE CompleteManually
  <2> DEFINE segs == IF timer.running THEN CloseOpenSegments(timer.active_segments, wall)
                     ELSE timer.active_segments
  <2>1. segs \in Seq(Segment)
    <3>1. CloseOpenSegments(timer.active_segments, wall) \in Seq(ClosedSegment)
      BY <1>a, <1>b, CloseOpenSegmentsFacts
    <3>2. ClosedSegment \subseteq Segment
      BY DEF ClosedSegment, Segment
    <3> QED  BY <1>a, <3>1, <3>2
  <2>2. ClosedSegments(segs) \in Seq(ClosedSegment)
    <3> HIDE DEF segs
    <3>1. ClosedSegments(segs) \in Seq({s \in ClosedSegment : s \in Elements(segs)})
      BY <2>1, ClosedSegmentsFacts
    <3> QED  BY <3>1
  <2>3. RangeOf(timer.phase, "ManualSave", ClosedSegments(segs)) \in SessionRange \cup {None}
    <3> HIDE DEF segs
    <3> QED  BY <1>a, <2>2, RangeOfType DEF Reasons
  <2>4. Emit(RangeOf(timer.phase, "ManualSave", ClosedSegments(segs)))
    BY <1>6 DEF CompleteManually
  <2> HIDE DEF segs
  <2>5. range' \in SessionRange \cup {None} /\ logged' \subseteq ClosedSegment
    BY <2>3, <2>4, EmitType
  <2>6. timer' \in TimerState /\ wall' = wall /\ mono' = mono
    BY <1>6, <1>b, ResetToIdleType DEF CompleteManually
  <2> QED  BY <1>b, <2>5, <2>6 DEF TypeOK
<1>7. CASE ObserveTime
  <2> DEFINE segs == CloseOpenSegments(timer.active_segments, BlockEnd(timer))
             r == IF timer.phase = "Break" THEN None
                  ELSE RangeOf(timer.phase, "CountdownElapsed", ClosedSegments(segs))
  <2>1. BlockEnd(timer) \in Nat
    BY <1>a, <1>b DEF BlockEnd
  <2>2. segs \in Seq(ClosedSegment)
    BY <1>a, <2>1, CloseOpenSegmentsFacts
  <2>3. segs \in Seq(Segment)
    <3> HIDE DEF segs
    <3>1. ClosedSegment \subseteq Segment
      BY DEF ClosedSegment, Segment
    <3> QED  BY <2>2, <3>1
  <2>4. ClosedSegments(segs) \in Seq(ClosedSegment)
    <3> HIDE DEF segs
    <3>1. ClosedSegments(segs) \in Seq({s \in ClosedSegment : s \in Elements(segs)})
      BY <2>3, ClosedSegmentsFacts
    <3> QED  BY <3>1
  <2>5. r \in SessionRange \cup {None}
    <3> HIDE DEF segs
    <3> QED  BY <1>a, <2>4, RangeOfType DEF Reasons
  <2>6. Emit(r)
    BY <1>7 DEF ObserveTime
  <2>7. range' \in SessionRange \cup {None} /\ logged' \subseteq ClosedSegment
    <3> HIDE DEF r
    <3> QED  BY <2>5, <2>6, EmitType
  <2>8. BreakStart(timer, segs) \in Nat
    <3> HIDE DEF segs
    <3>1. CASE segs # <<>>
      <4>1. Last(segs) \in ClosedSegment
        BY <2>2, <3>1 DEF Last
      <4> QED  BY <3>1, <4>1, TimerAssumption, <1>a DEF BreakStart, ClosedSegment, IsOpen
    <3>2. CASE segs = <<>>
      BY <3>2, <1>a DEF BreakStart
    <3> QED  BY <3>1, <3>2
  <2>9. StartBreak(timer, BreakStart(timer, segs)) \in TimerState
    <3> HIDE DEF segs
    <3>1. timer.config.break_seconds \in Nat
      BY <1>a DEF TimerConfig
    <3>2. PlusSeconds(BreakStart(timer, segs), timer.config.break_seconds) \in Nat
      BY <3>1, <2>8, TimesNat, TimerAssumption DEF PlusSeconds
    <3>3. "Break" \in Phases /\ <<>> \in Seq(Segment)
      BY DEF Phases
    <3> QED  BY <1>b, <2>8, <3>1, <3>2, <3>3 DEF StartBreak, TimerState
  <2>10. /\ timer' = ResetToIdle(timer) \/ timer' = StartBreak(timer, BreakStart(timer, segs))
         /\ wall' = wall /\ mono' = mono
    BY <1>7 DEF ObserveTime
  <2>11. timer' \in TimerState
    <3> HIDE DEF segs
    <3> QED  BY <1>b, <2>9, <2>10, ResetToIdleType
  <2> QED  BY <1>b, <2>7, <2>10, <2>11 DEF TypeOK
<1>8. CASE \E m \in Modes : SetMode(m)
  <2>1. PICK m \in Modes : SetMode(m)
    BY <1>8
  <2> DEFINE c == [timer.config EXCEPT !.mode = m]
  <2>2. c \in TimerConfig
    BY <1>a, <2>1 DEF TimerConfig
  <2>3. IdleSeconds(c) \in Nat
    BY <2>2, IdleSecondsType
  <2>4. timer' = [timer EXCEPT !.config = c, !.remaining_seconds = IdleSeconds(c)]
    BY <2>1, <1>b DEF SetMode, TimerState
  <2> HIDE DEF c
  <2>5. timer' \in TimerState
    BY <1>b, <2>2, <2>3, <2>4 DEF TimerState
  <2> QED  BY <2>1, <1>b, <1>d, <2>5, EmitType DEF SetMode, TypeOK
<1>9. CASE UNCHANGED vars
  BY <1>9 DEF vars, TypeOK
<1> QED  BY <1>1, <1>2, <1>3, <1>4, <1>5, <1>6, <1>7, <1>8, <1>9 DEF Next, Command

(* Every reachable timer has the types its Rust declarations give it: in   *)
(* particular the unsigned remaining and elapsed seconds never go below 0, *)
(* whatever the clocks show when a command arrives.                        *)
THEOREM TypeCorrect == Spec => []TypeOK
  BY InitType, StepType, PTL DEF Spec
----------------------------------------------------------------------------
(* The inductive invariant.  NeverEarly needs to know how the deadline on  *)
(* the wall clock and the anchor on the monotonic clock are tied;          *)
(* NoInstantLoggedTwice needs to know that the history lies in the past    *)
(* and that a deadline is not before the work it ends.                     *)

DeadlineSync ==
    /\ timer.running /\ timer.phase \in Countdowns => timer.ends_at # None
    /\ timer.ends_at # None /\ timer.anchor # None =>
          /\ timer.anchor.mono <= mono
          /\ timer.ends_at + mono = wall + timer.anchor.value * Tps + timer.anchor.mono
    /\ timer.ends_at # None => \A i \in 1..Len(timer.active_segments) :
          timer.active_segments[i].started_at <= timer.ends_at

(* The part of it that speaks of no history, which the application keeps   *)
(* through its restarts too.                                               *)
Sane == TypeOK /\ SegmentsWellFormed /\ DeadlineSync

LoggedInPast == \A s \in logged : s.started_at <= s.ended_at /\ s.ended_at <= wall

IInv ==
    /\ TypeOK
    /\ SegmentsWellFormed
    /\ DeadlineSync
    /\ LoggedInPast
    /\ NoInstantLoggedTwice

LEMMA IInvIsSane == IInv => Sane
  BY DEF IInv, Sane

(* An expired countdown is past its deadline, on whichever clock it ran.   *)
LEMMA ExpiredIsPast ==
    ASSUME TypeOK, SegmentsWellFormed, DeadlineSync, Expired
    PROVE  timer.ends_at \in Nat /\ timer.ends_at <= wall
<1>a. /\ timer.phase \in Phases /\ timer.ends_at \in Nat \cup {None}
      /\ timer.anchor \in RuntimeAnchor \cup {None}
      /\ wall \in Nat /\ mono \in Nat
  BY DEF TypeOK, TimerState
<1>1. timer.running /\ timer.phase # "Stopwatch" /\ RemainingFromRuntime(timer) = 0
  BY DEF Expired, DisplaySeconds
<1>2. timer.phase # "Idle"
  BY <1>1 DEF SegmentsWellFormed
<1>3. timer.phase \in Countdowns
  BY <1>a, <1>1, <1>2 DEF Countdowns, Phases
<1>4. timer.ends_at \in Nat
  BY <1>a, <1>1, <1>3 DEF DeadlineSync
<1>5. timer.ends_at # None
  BY <1>4, TimerAssumption
<1>6. CASE timer.anchor = None
  <2>1. SecondsUntil(timer.ends_at, wall) = 0
    BY <1>1, <1>5, <1>6 DEF RemainingFromRuntime
  <2> SUFFICES ASSUME ~(timer.ends_at <= wall) PROVE FALSE
    BY <1>4
  <2>2. timer.ends_at - wall \in Nat \ {0}
    BY <1>4, <1>a
  <2>3. (timer.ends_at - wall + Tps - 1) \div Tps >= 1
    BY <2>2, CeilingPositive, TimerAssumption
  <2> QED  BY <2>1, <2>3 DEF SecondsUntil
<1>7. CASE timer.anchor # None
  <2> DEFINE v == timer.anchor.value
             d == mono - timer.anchor.mono
  <2>1. v \in Nat /\ timer.anchor.mono \in Nat
    BY <1>a, <1>7 DEF RuntimeAnchor
  <2>2. d \in Nat /\ timer.ends_at = wall + v * Tps - d
    <3>1. /\ timer.anchor.mono <= mono
          /\ timer.ends_at + mono = wall + v * Tps + timer.anchor.mono
      BY <1>5, <1>7 DEF DeadlineSync
    <3>2. v * Tps \in Nat
      BY <2>1, TimesNat, TimerAssumption
    <3> QED  BY <3>1, <3>2, <2>1, <1>a, <1>4
  <2>3. Minus(v, Minus(mono, timer.anchor.mono) \div Tps) = 0
    BY <1>1, <1>7 DEF RemainingFromRuntime
  <2>4. Minus(mono, timer.anchor.mono) = d
    BY <2>1, <2>2, <1>a DEF Minus
  <2> HIDE DEF d, v
  <2>5. v <= d \div Tps
    <3> DEFINE q == d \div Tps
    <3>1. q \in Nat
      BY <2>2, DivFacts, TimerAssumption
    <3>2. Minus(v, q) = 0
      BY <2>3, <2>4
    <3> HIDE DEF q
    <3>3. v <= q
      BY <3>1, <3>2, <2>1 DEF Minus
    <3> QED  BY <3>3 DEF q
  <2>6. Tps * (d \div Tps) <= d /\ d \div Tps \in Nat
    BY <2>2, DivFacts, TimerAssumption
  <2>7. v * Tps <= Tps * (d \div Tps)
    BY <2>1, <2>5, <2>6, TimerAssumption
  <2>8. v * Tps \in Nat /\ Tps * (d \div Tps) \in Nat
    BY <2>1, <2>6, TimesNat, TimerAssumption
  <2> QED  BY <1>4, <1>a, <2>2, <2>6, <2>7, <2>8
<1> QED  BY <1>4, <1>6, <1>7
----------------------------------------------------------------------------
LEMMA InitIInv == Init => IInv
<1> SUFFICES ASSUME Init PROVE IInv
  OBVIOUS
<1>1. TypeOK
  BY InitType
<1>2. PICK c \in Configs : timer = NewTimer(c)
  BY DEF Init
<1>3. /\ timer.phase = "Idle" /\ timer.running = FALSE /\ timer.active_segments = <<>>
      /\ timer.ends_at = None /\ timer.anchor = None /\ logged = {}
  BY <1>2 DEF NewTimer, Init
<1>4. SegmentsWellFormed
  BY <1>3 DEF SegmentsWellFormed, StudyPhases
<1>5. DeadlineSync /\ LoggedInPast /\ NoInstantLoggedTwice
  BY <1>3 DEF DeadlineSync, LoggedInPast, NoInstantLoggedTwice
<1> QED  BY <1>1, <1>4, <1>5 DEF IInv

(* What a timer with no segments, no deadline and no anchor owes.          *)
LEMMA ClearedIsFine ==
    ASSUME timer'.active_segments = <<>>, timer'.phase \notin StudyPhases,
           timer'.phase = "Idle" => ~timer'.running
    PROVE  SegmentsWellFormed' /\ \A s \in logged' : \A i \in DOMAIN timer'.active_segments :
                Before(s, timer'.active_segments[i])
<1>1. Len(timer'.active_segments) = 0 /\ DOMAIN timer'.active_segments = {}
  OBVIOUS
<1> QED  BY <1>1 DEF SegmentsWellFormed

(* A block that ends in the past adds disjoint stretches to the history.   *)
LEMMA EmittedIsDisjoint ==
    ASSUME IInv,
           NEW segs \in Seq(ClosedSegment), Len(segs) = Len(timer.active_segments),
           NEW end \in Nat, end <= wall,
           \A i \in 1..Len(segs) :
             /\ segs[i].started_at = timer.active_segments[i].started_at
             /\ segs[i].ended_at = EndOr(timer.active_segments[i], end)
             /\ segs[i].started_at <= segs[i].ended_at,
           NEW r \in SessionRange \cup {None}, Emit(r),
           r # None => Elements(r.segments) \subseteq Elements(segs),
           wall' = wall
    PROVE  LoggedInPast' /\ \A s, t \in logged' : s = t \/ Before(s, t) \/ Before(t, s)
<1> DEFINE old == timer.active_segments
<1>a. old \in Seq(Segment) /\ logged \subseteq ClosedSegment /\ wall \in Nat
  BY DEF IInv, TypeOK, TimerState
<1>b. DOMAIN segs = 1..Len(segs) /\ DOMAIN old = 1..Len(old) /\ Len(segs) = Len(old)
      /\ Len(segs) \in Nat
  BY <1>a
<1>c. \A i \in 1..Len(segs) : segs[i] \in ClosedSegment /\ old[i] \in Segment
  BY <1>a, <1>b
<1>1. logged' \subseteq logged \cup Elements(segs)
  BY DEF Emit
<1>2. ASSUME NEW i \in 1..Len(segs)
      PROVE  segs[i].ended_at \in Nat /\ segs[i].ended_at <= wall
             /\ segs[i].started_at \in Nat /\ segs[i].started_at <= segs[i].ended_at
  <2>1. segs[i].ended_at \in Nat /\ segs[i].started_at \in Nat
    BY <1>c DEF ClosedSegment
  <2>2. CASE IsOpen(old[i])
    BY <2>1, <2>2 DEF EndOr
  <2>3. CASE ~IsOpen(old[i])
    BY <2>1, <2>3, <1>b DEF EndOr, IInv, SegmentsWellFormed
  <2> QED  BY <2>1, <2>2, <2>3
<1>3. ASSUME NEW i \in 1..Len(segs), NEW j \in 1..Len(segs), i < j
      PROVE  Before(segs[i], segs[j])
  <2>1. Before(old[i], old[j])
    BY <1>3, <1>b DEF IInv, SegmentsWellFormed
  <2>2. segs[i].ended_at = old[i].ended_at
    BY <2>1, <1>b DEF Before, EndOr, IsOpen
  <2>3. segs[j].started_at = old[j].started_at
    OBVIOUS
  <2> QED  BY <2>1, <2>2, <2>3 DEF Before
<1>4. ASSUME NEW s \in logged, NEW i \in 1..Len(segs)
      PROVE  Before(s, segs[i])
  <2>1. Before(s, old[i])
    BY <1>b DEF IInv, NoInstantLoggedTwice
  <2> QED  BY <2>1 DEF Before
<1>5. LoggedInPast'
  <2> SUFFICES ASSUME NEW s \in logged' PROVE s.started_at <= s.ended_at /\ s.ended_at <= wall'
    BY DEF LoggedInPast
  <2>1. CASE s \in logged
    BY <2>1 DEF IInv, LoggedInPast
  <2>2. CASE s \in Elements(segs)
    BY <2>2, <1>2, <1>b DEF Elements
  <2> QED  BY <1>1, <2>1, <2>2
<1>6. ASSUME NEW s \in logged', NEW t \in logged'
      PROVE  s = t \/ Before(s, t) \/ Before(t, s)
  <2>1. CASE s \in logged /\ t \in logged
    BY <2>1 DEF IInv, NoInstantLoggedTwice
  <2>2. CASE s \in logged /\ t \in Elements(segs)
    BY <2>2, <1>4, <1>b DEF Elements
  <2>3. CASE s \in Elements(segs) /\ t \in logged
    BY <2>3, <1>4, <1>b DEF Elements
  <2>4. CASE s \in Elements(segs) /\ t \in Elements(segs)
    <3>1. PICK i \in 1..Len(segs), j \in 1..Len(segs) : s = segs[i] /\ t = segs[j]
      BY <2>4, <1>b DEF Elements
    <3>2. i < j \/ i = j \/ j < i
      BY <1>b
    <3> QED  BY <3>1, <3>2, <1>3
  <2> QED  BY <1>1, <2>1, <2>2, <2>3, <2>4
<1> QED  BY <1>5, <1>6
(* Starting or resuming appends one open segment that begins now.          *)
LEMMA AppendedIsWellFormed ==
    ASSUME Sane,
           ~timer.running,
           timer'.active_segments = Append(timer.active_segments, OpenSegment(wall)),
           timer'.running, timer'.phase # "Idle",
           wall' = wall
    PROVE  SegmentsWellFormed'
<1> DEFINE old == timer.active_segments
           new == timer'.active_segments
           n == Len(old)
<1>a. old \in Seq(Segment) /\ n \in Nat /\ DOMAIN old = 1..n /\ wall \in Nat
  BY DEF Sane, TypeOK, TimerState
<1>1. /\ Len(new) = n + 1 /\ DOMAIN new = 1..(n + 1)
      /\ new[n + 1] = OpenSegment(wall)
      /\ \A i \in 1..n : new[i] = old[i]
  BY <1>a
<1>2. IsOpen(new[n + 1]) /\ new[n + 1].started_at = wall
  BY <1>1 DEF OpenSegment, IsOpen
<1> HIDE DEF new
<1>3. ASSUME NEW i \in 1..n PROVE Before(old[i], new[n + 1]) /\ ~IsOpen(old[i])
  <2>1. ~IsOpen(old[n]) /\ n \in 1..n
    BY <1>a DEF Sane, SegmentsWellFormed
  <2>2. i = n \/ i < n
    BY <1>a
  <2>3. ~IsOpen(old[i])
    BY <2>1, <2>2 DEF Sane, SegmentsWellFormed, Before, IsOpen
  <2>4. old[i].ended_at <= wall
    BY <2>3 DEF Sane, SegmentsWellFormed
  <2> QED  BY <2>3, <2>4, <1>2 DEF Before, IsOpen
<1>4. SegmentsWellFormed'
  <2>1. ASSUME NEW i \in 1..(n + 1), NEW j \in 1..(n + 1), i < j
        PROVE  Before(new[i], new[j])
    <3>1. i \in 1..n
      BY <2>1, <1>a
    <3>2. CASE j \in 1..n
      BY <3>1, <3>2, <1>1, <2>1 DEF Sane, SegmentsWellFormed
    <3>3. CASE j = n + 1
      BY <3>1, <3>3, <1>1, <1>3
    <3> QED  BY <3>2, <3>3, <1>a
  <2>2. ASSUME NEW i \in 1..(n + 1)
        PROVE  /\ new[i].started_at <= wall
               /\ ~IsOpen(new[i]) => /\ new[i].started_at <= new[i].ended_at
                                     /\ new[i].ended_at <= wall
    <3>1. CASE i \in 1..n
      BY <3>1, <1>1 DEF Sane, SegmentsWellFormed
    <3>2. CASE i = n + 1
      BY <3>2, <1>2, <1>a
    <3> QED  BY <3>1, <3>2, <1>a
  <2>3. IsOpen(new[n + 1]) <=> timer'.running
    BY <1>2
  <2>4. Len(new) > 0 /\ timer'.phase # "Idle"
    BY <1>1, <1>a
  <2> QED  BY <1>1, <2>1, <2>2, <2>3, <2>4 DEF SegmentsWellFormed, new
<1> QED  BY <1>4

LEMMA AppendedIsApart ==
    ASSUME IInv,
           timer'.active_segments = Append(timer.active_segments, OpenSegment(wall)),
           logged' = logged
    PROVE  NoInstantLoggedTwice'
<1> DEFINE old == timer.active_segments
           new == timer'.active_segments
           n == Len(old)
<1>a. old \in Seq(Segment) /\ n \in Nat /\ DOMAIN old = 1..n /\ wall \in Nat
      /\ logged \subseteq ClosedSegment
  BY DEF IInv, TypeOK, TimerState
<1>1. /\ Len(new) = n + 1 /\ DOMAIN new = 1..(n + 1)
      /\ new[n + 1] = OpenSegment(wall)
      /\ \A i \in 1..n : new[i] = old[i]
  BY <1>a
<1>2. new[n + 1].started_at = wall
  BY <1>1 DEF OpenSegment
<1> HIDE DEF new
<1>3. ASSUME NEW s \in logged, NEW i \in 1..(n + 1)
      PROVE  Before(s, new[i])
  <2>1. CASE i \in 1..n
    BY <2>1, <1>1, <1>a DEF IInv, NoInstantLoggedTwice
  <2>2. CASE i = n + 1
    <3>1. s.ended_at <= wall /\ s.ended_at # None
      BY <1>a, TimerAssumption DEF IInv, LoggedInPast, ClosedSegment
    <3> QED  BY <2>2, <3>1, <1>2 DEF Before
  <2> QED  BY <2>1, <2>2, <1>a
<1>4. \A s, t \in logged' : s = t \/ Before(s, t) \/ Before(t, s)
  BY DEF IInv, NoInstantLoggedTwice
<1> QED  BY <1>3, <1>4, <1>1 DEF NoInstantLoggedTwice, new

(* A fresh deadline and its anchor agree on when the countdown ends.       *)
LEMMA FreshDeadline ==
    ASSUME TypeOK, NEW total \in Nat,
           timer'.ends_at = None \/ timer'.ends_at = PlusSeconds(wall, total),
           timer'.phase \in Countdowns => timer'.ends_at # None,
           timer'.anchor = [mono |-> mono, value |-> total],
           \A i \in 1..Len(timer'.active_segments) :
                timer'.active_segments[i].started_at \in Nat
                /\ timer'.active_segments[i].started_at <= wall,
           wall' = wall, mono' = mono
    PROVE  DeadlineSync'
<1>a. wall \in Nat /\ mono \in Nat /\ total * Tps \in Nat
  BY TimesNat, TimerAssumption DEF TypeOK
<1>1. timer'.anchor.mono = mono /\ timer'.anchor.value = total
  OBVIOUS
<1>2. ASSUME timer'.ends_at # None
      PROVE  /\ timer'.ends_at + mono = wall + total * Tps + mono
             /\ wall <= timer'.ends_at /\ timer'.ends_at \in Nat
  <2>1. timer'.ends_at = PlusSeconds(wall, total)
    BY <1>2
  <2>2. timer'.ends_at = wall + total * Tps
    BY <2>1 DEF PlusSeconds
  <2> DEFINE x == total * Tps
  <2>3. timer'.ends_at = wall + x /\ x \in Nat
    BY <2>2, <1>a
  <2> HIDE DEF x
  <2>4. /\ timer'.ends_at + mono = wall + x + mono
        /\ wall <= timer'.ends_at /\ timer'.ends_at \in Nat
    BY <2>3, <1>a
  <2> QED  BY <2>4 DEF x
<1>3. ASSUME timer'.ends_at # None, NEW i \in 1..Len(timer'.active_segments)
      PROVE  timer'.active_segments[i].started_at <= timer'.ends_at
  BY <1>2, <1>3, <1>a
<1> QED  BY <1>1, <1>2, <1>3, <1>a DEF DeadlineSync

(* Closing the open segment at a pause keeps the block well formed.        *)
LEMMA PausedIsWellFormed == Sane /\ Pause => SegmentsWellFormed'
<1> SUFFICES ASSUME Sane, Pause PROVE SegmentsWellFormed'
  OBVIOUS
<1> DEFINE old == timer.active_segments
           new == timer'.active_segments
           n == Len(old)
<1>a. old \in Seq(Segment) /\ n \in Nat /\ DOMAIN old = 1..n /\ wall \in Nat
      /\ timer \in TimerState
  BY DEF Sane, TypeOK, TimerState
<1>1. /\ timer'.active_segments = CloseOpenSegments(old, wall)
      /\ timer'.running = FALSE /\ timer'.phase = timer.phase
      /\ wall' = wall
  BY <1>a DEF Pause, TimerState
<1>2. /\ Len(new) = n
      /\ \A i \in 1..n : /\ new[i].started_at = old[i].started_at
                         /\ new[i].ended_at = EndOr(old[i], wall)
  BY <1>a, <1>1, CloseOpenSegmentsFacts
<1>3. new \in Seq(ClosedSegment)
  BY <1>a, <1>1, CloseOpenSegmentsFacts
<1> HIDE DEF new
<1>4. DOMAIN new = 1..n /\ \A i \in 1..n : new[i] \in ClosedSegment
  BY <1>2, <1>3
<1>5. ASSUME NEW i \in 1..n
      PROVE  /\ ~IsOpen(new[i]) /\ new[i].started_at <= new[i].ended_at
             /\ new[i].ended_at <= wall /\ new[i].started_at <= wall
  <2>1. new[i].ended_at \in Nat /\ new[i].started_at \in Nat
    BY <1>4 DEF ClosedSegment
  <2>2. ~IsOpen(new[i])
    BY <2>1, TimerAssumption DEF IsOpen
  <2>3. CASE IsOpen(old[i])
    BY <2>1, <2>2, <2>3, <1>2, <1>a DEF EndOr, Sane, SegmentsWellFormed
  <2>4. CASE ~IsOpen(old[i])
    BY <2>1, <2>2, <2>4, <1>2, <1>a DEF EndOr, Sane, SegmentsWellFormed
  <2> QED  BY <2>3, <2>4
<1>6. ASSUME NEW i \in 1..n, NEW j \in 1..n, i < j
      PROVE  Before(new[i], new[j])
  <2>1. Before(old[i], old[j])
    BY <1>6 DEF Sane, SegmentsWellFormed
  <2>2. new[i].ended_at = old[i].ended_at
    BY <2>1, <1>2 DEF Before, EndOr, IsOpen
  <2> QED  BY <2>1, <2>2, <1>2 DEF Before
<1>7. SegmentsWellFormed'
  <2>1. timer.phase \in StudyPhases => n > 0
    BY DEF Sane, SegmentsWellFormed
  <2>2. timer.phase # "Idle"
    BY DEF Pause
  <2>3. n > 0 => n \in 1..n
    BY <1>a
  <2> QED  BY <1>1, <1>2, <1>5, <1>6, <2>1, <2>2, <2>3, <1>a DEF SegmentsWellFormed, new
<1> QED  BY <1>7

LEMMA PausedIsApart == IInv /\ Pause => NoInstantLoggedTwice'
<1> SUFFICES ASSUME IInv, Pause PROVE NoInstantLoggedTwice'
  OBVIOUS
<1> DEFINE old == timer.active_segments
           new == timer'.active_segments
           n == Len(old)
<1>a. old \in Seq(Segment) /\ n \in Nat /\ DOMAIN old = 1..n /\ wall \in Nat
      /\ timer \in TimerState
  BY DEF IInv, TypeOK, TimerState
<1>1. new = CloseOpenSegments(old, wall) /\ logged' = logged
  BY <1>a DEF Pause, Emit, TimerState
<1>2. /\ new \in Seq(ClosedSegment) /\ Len(new) = n
      /\ \A i \in 1..n : new[i].started_at = old[i].started_at
  BY <1>a, <1>1, CloseOpenSegmentsFacts
<1> HIDE DEF new
<1>3. DOMAIN new = 1..n
  BY <1>2
<1>4. ASSUME NEW s \in logged, NEW i \in 1..n PROVE Before(s, new[i])
  BY <1>2, <1>a DEF IInv, NoInstantLoggedTwice, Before
<1> QED  BY <1>1, <1>3, <1>4 DEF IInv, NoInstantLoggedTwice, new

(* A manual save and a countdown's end each log a block that is over.      *)
LEMMA SavedIsDisjoint ==
    IInv /\ CompleteManually =>
        LoggedInPast' /\ \A s, t \in logged' : s = t \/ Before(s, t) \/ Before(t, s)
<1> SUFFICES ASSUME IInv, CompleteManually
             PROVE  LoggedInPast' /\ \A s, t \in logged' : s = t \/ Before(s, t) \/ Before(t, s)
  OBVIOUS
<1> DEFINE old == timer.active_segments
           closed == CloseOpenSegments(old, wall)
           segs == IF timer.running THEN closed ELSE old
           n == Len(old)
<1>a. /\ old \in Seq(Segment) /\ n \in Nat /\ DOMAIN old = 1..n /\ wall \in Nat
      /\ timer.phase \in Phases
  BY DEF IInv, TypeOK, TimerState
<1>1. /\ closed \in Seq(ClosedSegment) /\ Len(closed) = n
      /\ \A i \in 1..n : /\ closed[i].started_at = old[i].started_at
                         /\ closed[i].ended_at = EndOr(old[i], wall)
  BY <1>a, CloseOpenSegmentsFacts
<1>b. closed = [i \in 1..n |-> [old[i] EXCEPT !.ended_at = EndOr(old[i], wall)]]
  BY <1>a DEF CloseOpenSegments
<1> HIDE DEF closed
<1>2. ASSUME ~timer.running PROVE old = closed
  <2>1. ASSUME NEW i \in 1..n PROVE old[i] = [old[i] EXCEPT !.ended_at = EndOr(old[i], wall)]
    <3>1. ~IsOpen(old[i])
      <4>1. n \in 1..n /\ ~IsOpen(old[n])
        BY <1>2, <1>a DEF IInv, SegmentsWellFormed
      <4>2. i = n \/ i < n
        BY <1>a
      <4> QED  BY <4>1, <4>2 DEF IInv, SegmentsWellFormed, Before, IsOpen
    <3>2. old[i] \in Segment
      BY <1>a
    <3>3. EndOr(old[i], wall) = old[i].ended_at
      BY <3>1 DEF EndOr
    <3> QED  BY <3>2, <3>3 DEF Segment
  <2>2. old = [i \in 1..n |-> old[i]]
    BY <1>a
  <2> QED  BY <2>1, <2>2, <1>b
<1>3. segs = closed
  BY <1>2
<1>4. closed \in Seq(Segment)
  <2>1. ClosedSegment \subseteq Segment
    BY DEF ClosedSegment, Segment
  <2> QED  BY <1>1, <2>1
<1> DEFINE r == RangeOf(timer.phase, "ManualSave", ClosedSegments(closed))
<1>5. Emit(r) /\ wall' = wall
  BY <1>3 DEF CompleteManually, closed
<1>6. ClosedSegments(closed) \in Seq({s \in ClosedSegment : s \in Elements(closed)})
  BY <1>4, ClosedSegmentsFacts
<1>7. r \in SessionRange \cup {None}
  <2>1. ClosedSegments(closed) \in Seq(ClosedSegment)
    BY <1>6
  <2> QED  BY <1>a, <2>1, RangeOfType DEF Reasons
<1>8. r # None => Elements(r.segments) \subseteq Elements(closed)
  <2>1. Elements(ClosedSegments(closed)) \subseteq Elements(closed)
    BY <1>6 DEF Elements
  <2> QED  BY <2>1 DEF RangeOf
<1> HIDE DEF r
<1>9. ASSUME NEW i \in 1..n PROVE closed[i].started_at <= closed[i].ended_at
  <2>1. CASE IsOpen(old[i])
    BY <2>1, <1>1 DEF EndOr, IInv, SegmentsWellFormed
  <2>2. CASE ~IsOpen(old[i])
    BY <2>2, <1>1 DEF EndOr, IInv, SegmentsWellFormed
  <2> QED  BY <2>1, <2>2
<1>c. wall <= wall
  BY <1>a
<1> QED  BY <1>a, <1>c, <1>1, <1>5, <1>7, <1>8, <1>9, EmittedIsDisjoint

LEMMA ExpiredIsDisjoint ==
    IInv /\ ObserveTime =>
        LoggedInPast' /\ \A s, t \in logged' : s = t \/ Before(s, t) \/ Before(t, s)
<1> SUFFICES ASSUME IInv, ObserveTime
             PROVE  LoggedInPast' /\ \A s, t \in logged' : s = t \/ Before(s, t) \/ Before(t, s)
  OBVIOUS
<1> DEFINE old == timer.active_segments
           end == BlockEnd(timer)
           closed == CloseOpenSegments(old, end)
           n == Len(old)
<1>a. /\ old \in Seq(Segment) /\ n \in Nat /\ DOMAIN old = 1..n /\ wall \in Nat
      /\ timer.phase \in Phases
  BY DEF IInv, TypeOK, TimerState
<1>b. end = timer.ends_at /\ end \in Nat /\ end <= wall
  <2>1. timer.ends_at \in Nat /\ timer.ends_at <= wall
    BY ExpiredIsPast DEF ObserveTime, IInv
  <2> QED  BY <2>1, TimerAssumption DEF BlockEnd
<1> HIDE DEF end
<1>1. /\ closed \in Seq(ClosedSegment) /\ Len(closed) = n
      /\ \A i \in 1..n : /\ closed[i].started_at = old[i].started_at
                         /\ closed[i].ended_at = EndOr(old[i], end)
  BY <1>a, <1>b, CloseOpenSegmentsFacts
<1> HIDE DEF closed
<1>4. closed \in Seq(Segment)
  <2>1. ClosedSegment \subseteq Segment
    BY DEF ClosedSegment, Segment
  <2> QED  BY <1>1, <2>1
<1> DEFINE r == IF timer.phase = "Break" THEN None
                ELSE RangeOf(timer.phase, "CountdownElapsed", ClosedSegments(closed))
<1>5. Emit(r) /\ wall' = wall
  BY DEF ObserveTime, closed, end
<1>6. ClosedSegments(closed) \in Seq({s \in ClosedSegment : s \in Elements(closed)})
  BY <1>4, ClosedSegmentsFacts
<1>7. r \in SessionRange \cup {None}
  <2>1. ClosedSegments(closed) \in Seq(ClosedSegment)
    BY <1>6
  <2> QED  BY <1>a, <2>1, RangeOfType DEF Reasons
<1>8. r # None => Elements(r.segments) \subseteq Elements(closed)
  <2>1. Elements(ClosedSegments(closed)) \subseteq Elements(closed)
    BY <1>6 DEF Elements
  <2> QED  BY <2>1 DEF RangeOf
<1> HIDE DEF r
<1>9. ASSUME NEW i \in 1..n PROVE closed[i].started_at <= closed[i].ended_at
  <2>1. old[i].started_at <= end
    BY <1>b, TimerAssumption DEF IInv, DeadlineSync
  <2>2. CASE IsOpen(old[i])
    BY <2>1, <2>2, <1>1 DEF EndOr
  <2>3. CASE ~IsOpen(old[i])
    BY <2>3, <1>1 DEF EndOr, IInv, SegmentsWellFormed
  <2> QED  BY <2>2, <2>3
<1> QED  BY <1>a, <1>b, <1>1, <1>5, <1>7, <1>8, <1>9, EmittedIsDisjoint
(* Every command and every tick keeps the timer sane.                      *)
LEMMA StepSane == Sane /\ [Next]_vars => Sane'
<1> SUFFICES ASSUME Sane, [Next]_vars PROVE Sane'
  OBVIOUS
<1>t. TypeOK'
  BY StepType DEF Sane
<1>a. /\ timer \in TimerState /\ timer.active_segments \in Seq(Segment)
      /\ wall \in Nat /\ mono \in Nat
      /\ timer.config \in TimerConfig /\ timer.remaining_seconds \in Nat
  BY DEF Sane, TypeOK, TimerState
<1>f. timer' = ResetToIdle(timer) =>
        /\ timer'.phase = "Idle" /\ timer'.running = FALSE /\ timer'.active_segments = <<>>
        /\ timer'.ends_at = None /\ timer'.anchor = None
  BY <1>a, ResetToIdleType
<1>1. CASE Tick
  <2>1. wall' = wall + 1 /\ mono' = mono + 1 /\ timer' = timer
    BY <1>1 DEF Tick
  <2>2. SegmentsWellFormed'
    <3>1. \A i \in 1..Len(timer.active_segments) : timer.active_segments[i] \in Segment
      BY <1>a
    <3>2. \A i \in 1..Len(timer.active_segments) :
             timer.active_segments[i].started_at \in Nat
             /\ timer.active_segments[i].ended_at \in Nat \cup {None}
      BY <3>1 DEF Segment
    <3> QED  BY <2>1, <3>2, <1>a, SMTT(40) DEF Sane, SegmentsWellFormed, IsOpen
  <2>3. DeadlineSync'
    <3>1. timer.anchor # None => timer.anchor.mono \in Nat /\ timer.anchor.value \in Nat
      BY DEF Sane, TypeOK, TimerState, RuntimeAnchor
    <3>2. timer.anchor # None => timer.anchor.value * Tps \in Nat
      BY <3>1, TimesNat, TimerAssumption
    <3>3. timer.ends_at # None => timer.ends_at \in Nat
      BY DEF Sane, TypeOK, TimerState
    <3>4. timer.ends_at # None /\ timer.anchor # None =>
            /\ timer.anchor.mono <= mono + 1
            /\ timer.ends_at + (mono + 1)
                 = (wall + 1) + timer.anchor.value * Tps + timer.anchor.mono
      <4> DEFINE x == timer.anchor.value * Tps
      <4> SUFFICES ASSUME timer.ends_at # None, timer.anchor # None
                   PROVE  /\ timer.anchor.mono <= mono + 1
                          /\ timer.ends_at + (mono + 1) = (wall + 1) + x + timer.anchor.mono
        OBVIOUS
      <4>1. x \in Nat /\ timer.anchor.mono \in Nat /\ timer.ends_at \in Nat
        BY <3>1, <3>2, <3>3
      <4>2. timer.anchor.mono <= mono /\ timer.ends_at + mono = wall + x + timer.anchor.mono
        BY DEF Sane, DeadlineSync
      <4>3. wall \in Nat /\ mono \in Nat
        BY <1>a
      <4>4. \A e, w, m, v, a \in Nat :
               a <= m /\ e + m = w + v + a
               => a <= m + 1 /\ e + (m + 1) = (w + 1) + v + a
        OBVIOUS
      <4> HIDE DEF x
      <4> QED  BY <4>1, <4>2, <4>3, <4>4
    <3> QED  BY <2>1, <3>4 DEF Sane, DeadlineSync
  <2> QED  BY <1>t, <2>2, <2>3 DEF Sane
<1>2. CASE Start
  <2> DEFINE total == IF timer.config.mode = "Endless" THEN 0
                      ELSE Greater(timer.remaining_seconds, 1)
  <2>1. total \in Nat
    BY <1>a DEF Greater
  <2>2. timer.active_segments = <<>> /\ ~timer.running
    BY <1>2, <1>a DEF Start, Sane, SegmentsWellFormed
  <2>3. /\ timer'.active_segments = <<OpenSegment(wall)>>
        /\ timer'.running = TRUE
        /\ timer'.phase = PhaseOfMode(timer.config.mode)
        /\ timer'.ends_at = IF timer.config.mode = "Endless" THEN None
                            ELSE PlusSeconds(wall, total)
        /\ timer'.anchor = [mono |-> mono, value |-> total]
        /\ wall' = wall /\ mono' = mono
    BY <1>2, <1>a DEF Start, TimerState
  <2>4. /\ timer'.phase # "Idle"
        /\ timer'.phase \in Countdowns => timer.config.mode # "Endless"
    BY <2>3, <1>a DEF PhaseOfMode, Countdowns, TimerConfig, Modes
  <2>5. PlusSeconds(wall, total) # None
    <3>1. total * Tps \in Nat
      BY <2>1, TimesNat, TimerAssumption
    <3> QED  BY <3>1, <1>a, TimerAssumption DEF PlusSeconds
  <2>6. timer'.active_segments = Append(timer.active_segments, OpenSegment(wall))
    BY <2>2, <2>3
  <2>7. SegmentsWellFormed'
    BY <2>2, <2>3, <2>4, <2>6, AppendedIsWellFormed
  <2>8. ASSUME NEW i \in 1..Len(timer'.active_segments)
        PROVE  timer'.active_segments[i].started_at \in Nat
               /\ timer'.active_segments[i].started_at <= wall
    BY <2>3, <1>a DEF OpenSegment
  <2> HIDE DEF total
  <2>9. DeadlineSync'
    BY <2>1, <2>3, <2>4, <2>5, <2>8, FreshDeadline DEF Sane
  <2> QED  BY <1>t, <2>3, <2>7, <2>9 DEF Sane
<1>3. CASE Pause
  <2>1. SegmentsWellFormed'
    BY <1>3, PausedIsWellFormed
  <2>2. /\ timer'.running = FALSE /\ timer'.ends_at = None
        /\ wall' = wall
    BY <1>3, <1>a DEF Pause, TimerState
  <2>3. DeadlineSync'
    BY <2>2 DEF DeadlineSync
  <2> QED  BY <1>t, <2>1, <2>2, <2>3 DEF Sane
<1>4. CASE Resume
  <2> DEFINE left == TimeOnResume(timer)
  <2>1. left \in Nat
    BY <1>a, DisplayType DEF TimeOnResume, Greater, Sane
  <2> HIDE DEF left
  <2>2. /\ timer'.active_segments = Append(timer.active_segments, OpenSegment(wall))
        /\ timer'.running = TRUE /\ timer'.phase = timer.phase
        /\ timer.phase # "Idle" /\ ~timer.running
        /\ timer'.ends_at = IF timer.phase = "Stopwatch" THEN None
                            ELSE PlusSeconds(wall, left)
        /\ timer'.anchor = [mono |-> mono, value |-> left]
        /\ wall' = wall /\ mono' = mono
    BY <1>4, <1>a DEF Resume, TimerState, left
  <2>3. SegmentsWellFormed'
    BY <2>2, AppendedIsWellFormed
  <2>4. PlusSeconds(wall, left) # None
    <3>1. left * Tps \in Nat
      BY <2>1, TimesNat, TimerAssumption
    <3> QED  BY <3>1, <1>a, TimerAssumption DEF PlusSeconds
  <2>5. timer'.phase \in Countdowns => timer'.ends_at # None
    BY <2>2, <2>4 DEF Countdowns
  <2>6. ASSUME NEW i \in 1..Len(timer'.active_segments)
        PROVE  timer'.active_segments[i].started_at \in Nat
               /\ timer'.active_segments[i].started_at <= wall
    <3>1. timer'.active_segments[i] \in Segment
      <4>1. timer'.active_segments \in Seq(Segment)
        BY <1>t DEF TypeOK, TimerState
      <4> QED  BY <4>1, <2>6
    <3> QED  BY <3>1, <2>2, <2>3 DEF Segment, SegmentsWellFormed
  <2>7. DeadlineSync'
    BY <2>1, <2>2, <2>5, <2>6, FreshDeadline DEF Sane
  <2> QED  BY <1>t, <2>2, <2>3, <2>7 DEF Sane
<1>5. CASE Reset
  <2>1. timer' = ResetToIdle(timer) /\ wall' = wall
    BY <1>5 DEF Reset
  <2>2. SegmentsWellFormed'
    BY <2>1, <1>f, ClearedIsFine DEF StudyPhases
  <2>3. DeadlineSync'
    BY <2>1, <1>f DEF DeadlineSync
  <2> QED  BY <1>t, <2>1, <2>2, <2>3 DEF Sane
<1>6. CASE CompleteManually
  <2>1. timer' = ResetToIdle(timer)
    BY <1>6 DEF CompleteManually
  <2>3. SegmentsWellFormed'
    BY <2>1, <1>f, ClearedIsFine DEF StudyPhases
  <2>4. DeadlineSync'
    BY <2>1, <1>f DEF DeadlineSync
  <2> QED  BY <1>t, <2>3, <2>4 DEF Sane
<1>7. CASE ObserveTime
  <2> DEFINE segs == CloseOpenSegments(timer.active_segments, BlockEnd(timer))
             start == BreakStart(timer, segs)
  <2>1. timer' = ResetToIdle(timer) \/ timer' = StartBreak(timer, start)
    BY <1>7 DEF ObserveTime
  <2>2. start \in Nat => PlusSeconds(start, timer.config.break_seconds) # None
    <3> HIDE DEF start
    <3>1. timer.config.break_seconds * Tps \in Nat
      BY <1>a, TimesNat, TimerAssumption DEF TimerConfig
    <3> QED  BY <3>1, TimerAssumption DEF PlusSeconds
  <2> HIDE DEF start
  <2>4. CASE timer' = StartBreak(timer, start)
    <3>1. /\ timer'.phase = "Break" /\ timer'.active_segments = <<>>
          /\ timer'.anchor = None /\ timer'.started_at = start
          /\ timer'.ends_at = PlusSeconds(start, timer.config.break_seconds)
      BY <2>4, <1>a DEF StartBreak, TimerState
    <3>2. SegmentsWellFormed'
      BY <3>1, ClearedIsFine DEF StudyPhases
    <3>3. start \in Nat
      <4>1. timer'.started_at \in Nat \cup {None} /\ timer'.ends_at \in Nat \cup {None}
        BY <1>t DEF TypeOK, TimerState
      <4>2. start # None
        <5>1. segs \in Seq(ClosedSegment)
          <6>1. BlockEnd(timer) \in Nat
            BY <1>a DEF BlockEnd, TimerState
          <6> QED  BY <1>a, <6>1, CloseOpenSegmentsFacts
        <5> HIDE DEF segs
        <5>2. CASE segs # <<>>
          <6>1. Last(segs) \in ClosedSegment
            BY <5>1, <5>2 DEF Last
          <6> QED  BY <5>2, <6>1, TimerAssumption, <1>a
                   DEF start, BreakStart, ClosedSegment, TimerState
        <5>3. CASE segs = <<>>
          BY <5>3, TimerAssumption DEF start, BreakStart
        <5> QED  BY <5>2, <5>3
      <4> QED  BY <3>1, <4>1, <4>2
    <3>4. DeadlineSync'
      <4>1. Len(timer'.active_segments) = 0
        BY <3>1
      <4> QED  BY <2>2, <3>1, <3>3, <4>1 DEF DeadlineSync
    <3> QED  BY <1>t, <3>2, <3>4 DEF Sane
  <2>5. CASE timer' = ResetToIdle(timer)
    <3>1. SegmentsWellFormed'
      BY <2>5, <1>f, ClearedIsFine DEF StudyPhases
    <3>2. DeadlineSync'
      BY <2>5, <1>f DEF DeadlineSync
    <3> QED  BY <1>t, <3>1, <3>2 DEF Sane
  <2> QED  BY <2>1, <2>4, <2>5
<1>8. CASE \E m \in Modes : SetMode(m)
  <2>1. /\ timer'.phase = timer.phase /\ timer'.running = timer.running
        /\ timer'.active_segments = timer.active_segments
        /\ timer'.ends_at = timer.ends_at /\ timer'.anchor = timer.anchor
        /\ wall' = wall /\ mono' = mono
    BY <1>8, <1>a DEF SetMode, TimerState
  <2>2. SegmentsWellFormed'
    BY <2>1 DEF Sane, SegmentsWellFormed
  <2>3. DeadlineSync'
    BY <2>1 DEF Sane, DeadlineSync
  <2> QED  BY <1>t, <2>1, <2>2, <2>3 DEF Sane
<1>9. CASE UNCHANGED vars
  BY <1>9, <1>t DEF vars, Sane, SegmentsWellFormed, DeadlineSync
<1> QED  BY <1>1, <1>2, <1>3, <1>4, <1>5, <1>6, <1>7, <1>8, <1>9 DEF Next, Command

LEMMA StepIInv == IInv /\ [Next]_vars => IInv'
<1> SUFFICES ASSUME IInv, [Next]_vars PROVE IInv'
  OBVIOUS
<1>s. Sane'
  BY StepSane DEF IInv, Sane
<1>a. timer \in TimerState /\ wall \in Nat /\ logged \subseteq ClosedSegment
  BY DEF IInv, TypeOK
<1>f. timer' = ResetToIdle(timer) => timer'.active_segments = <<>>
  BY <1>a, ResetToIdleType
<1>l. wall' = wall /\ logged' = logged => LoggedInPast'
  BY DEF IInv, LoggedInPast
<1>c. /\ timer'.active_segments = <<>>
      /\ \A s, t \in logged' : s = t \/ Before(s, t) \/ Before(t, s)
      => NoInstantLoggedTwice'
  BY DEF NoInstantLoggedTwice
<1>1. CASE Tick
  <2>1. wall' = wall + 1 /\ timer' = timer /\ logged' = logged
    BY <1>1 DEF Tick
  <2>2. \A s \in logged : s.ended_at \in Nat
    BY <1>a DEF ClosedSegment
  <2>3. LoggedInPast' /\ NoInstantLoggedTwice'
    BY <2>1, <2>2, <1>a DEF IInv, LoggedInPast, NoInstantLoggedTwice
  <2> QED  BY <1>s, <2>3 DEF IInv, Sane
<1>2. CASE Start
  <2>1. timer.active_segments = <<>>
    BY <1>2, <1>a DEF Start, IInv, SegmentsWellFormed, TimerState
  <2>2. /\ timer'.active_segments = Append(timer.active_segments, OpenSegment(wall))
        /\ wall' = wall /\ logged' = logged
    BY <1>2, <1>a, <2>1 DEF Start, Emit, TimerState
  <2> QED  BY <1>s, <1>l, <2>2, AppendedIsApart DEF IInv, Sane
<1>3. CASE Pause
  <2>1. wall' = wall /\ logged' = logged
    BY <1>3 DEF Pause, Emit
  <2> QED  BY <1>3, <1>s, <1>l, <2>1, PausedIsApart DEF IInv, Sane
<1>4. CASE Resume
  <2>1. /\ timer'.active_segments = Append(timer.active_segments, OpenSegment(wall))
        /\ wall' = wall /\ logged' = logged
    BY <1>4, <1>a DEF Resume, Emit, TimerState
  <2> QED  BY <1>s, <1>l, <2>1, AppendedIsApart DEF IInv, Sane
<1>5. CASE Reset
  <2>1. timer' = ResetToIdle(timer) /\ wall' = wall /\ logged' = logged
    BY <1>5 DEF Reset, Emit
  <2>2. NoInstantLoggedTwice'
    BY <2>1, <1>c, <1>f DEF IInv, NoInstantLoggedTwice
  <2> QED  BY <1>s, <1>l, <2>1, <2>2 DEF IInv, Sane
<1>6. CASE CompleteManually
  <2>1. timer' = ResetToIdle(timer)
    BY <1>6 DEF CompleteManually
  <2>2. LoggedInPast' /\ \A s, t \in logged' : s = t \/ Before(s, t) \/ Before(t, s)
    BY <1>6, SavedIsDisjoint
  <2> QED  BY <1>s, <1>c, <1>f, <2>1, <2>2 DEF IInv, Sane
<1>7. CASE ObserveTime
  <2>1. timer'.active_segments = <<>>
    BY <1>7, <1>a, <1>f DEF ObserveTime, StartBreak, TimerState
  <2>2. LoggedInPast' /\ \A s, t \in logged' : s = t \/ Before(s, t) \/ Before(t, s)
    BY <1>7, ExpiredIsDisjoint
  <2> QED  BY <1>s, <1>c, <2>1, <2>2 DEF IInv, Sane
<1>8. CASE \E m \in Modes : SetMode(m)
  <2>1. /\ timer'.active_segments = timer.active_segments
        /\ wall' = wall /\ logged' = logged
    BY <1>8, <1>a DEF SetMode, Emit, TimerState
  <2>2. NoInstantLoggedTwice'
    BY <2>1 DEF IInv, NoInstantLoggedTwice
  <2> QED  BY <1>s, <1>l, <2>1, <2>2 DEF IInv, Sane
<1>9. CASE UNCHANGED vars
  BY <1>9, <1>s, <1>l DEF vars, IInv, Sane, NoInstantLoggedTwice
<1> QED  BY <1>1, <1>2, <1>3, <1>4, <1>5, <1>6, <1>7, <1>8, <1>9 DEF Next, Command

LEMMA SpecIInv == Spec => []IInv
  BY InitIInv, StepIInv, PTL DEF Spec

(* However starts, pauses, resumes and closings follow one another, the    *)
(* segments of a block are consecutive stretches of the past and the last  *)
(* one is open exactly while the timer runs.                               *)
THEOREM SegmentsStayWellFormed == Spec => []SegmentsWellFormed
<1>1. IInv => SegmentsWellFormed
  BY DEF IInv
<1> QED  BY <1>1, SpecIInv, PTL

(* No countdown is found expired before its deadline on the wall clock,    *)
(* though observe_time decides on the monotonic one.                       *)
THEOREM NeverEndsEarly == Spec => []NeverEarly
<1>1. IInv => NeverEarly
  <2> SUFFICES ASSUME IInv, Expired PROVE timer.ends_at # None /\ timer.ends_at <= wall
    BY DEF NeverEarly
  <2> QED  BY ExpiredIsPast, TimerAssumption DEF IInv
<1> QED  BY <1>1, SpecIInv, PTL

(* No instant of study time is handed to the history twice, for every      *)
(* preset, tick length and sequence of commands.                           *)
THEOREM LoggedOnce == Spec => []NoInstantLoggedTwice
<1>1. IInv => NoInstantLoggedTwice
  BY DEF IInv
<1> QED  BY <1>1, SpecIInv, PTL
----------------------------------------------------------------------------
(* The timer implements the ledger.                                        *)

(* The ticks a block covers at a given time.                               *)
Covers(s, t, end) == s.started_at <= t /\ t < end /\ t < EndOr(s, end)

LEMMA TicksOfFacts ==
    ASSUME NEW segs \in Seq(Segment), NEW end \in Nat
    PROVE  \A t : t \in TicksOf(segs, end)
                    <=> t \in Int /\ \E i \in 1..Len(segs) : Covers(segs[i], t, end)
<1>1. \A i \in 1..Len(segs) : segs[i] \in Segment /\ segs[i].started_at \in Nat
  <2>1. ASSUME NEW i \in 1..Len(segs) PROVE segs[i] \in Segment
    OBVIOUS
  <2> QED  BY <2>1 DEF Segment
<1>2. ASSUME NEW i \in 1..Len(segs), NEW t
      PROVE  t \in Ticks(segs[i], end) <=> t \in Int /\ Covers(segs[i], t, end)
  BY <1>1 DEF Ticks, Covers
<1>3. DOMAIN segs = 1..Len(segs)
  OBVIOUS
<1>4. \A t : t \in TicksOf(segs, end) <=> \E i \in 1..Len(segs) : t \in Ticks(segs[i], end)
  BY <1>3 DEF TicksOf
<1> QED  BY <1>2, <1>4

(* A tick of the clock adds itself to a block that is being worked on.     *)
LEMMA TickIsWorked ==
    ASSUME Sane, timer' = timer, wall' = wall + 1
    PROVE  WorkedTicks' = IF AtWork THEN WorkedTicks \cup {wall} ELSE WorkedTicks
<1> DEFINE old == timer.active_segments
           n == Len(old)
<1>a. /\ old \in Seq(Segment) /\ n \in Nat /\ wall \in Nat /\ wall + 1 \in Nat
      /\ \A i \in 1..n : old[i].started_at \in Nat /\ old[i].ended_at \in Nat \cup {None}
  <2>1. old \in Seq(Segment) /\ n \in Nat /\ wall \in Nat /\ wall + 1 \in Nat
    BY DEF Sane, TypeOK, TimerState
  <2>2. \A i \in 1..n : old[i] \in Segment
    BY <2>1
  <2> QED  BY <2>1, <2>2 DEF Segment
<1>b. \A i \in 1..n : /\ old[i].started_at <= wall
                      /\ ~IsOpen(old[i]) => old[i].ended_at \in Nat /\ old[i].ended_at <= wall
  BY <1>a DEF Sane, SegmentsWellFormed, IsOpen
<1>c. ASSUME NEW i \in 1..n, NEW t \in Int
      PROVE  Covers(old[i], t, wall + 1)
               <=> Covers(old[i], t, wall) \/ (IsOpen(old[i]) /\ t = wall)
  BY <1>a, <1>b DEF Covers, EndOr
<1>d. \A t : /\ t \in TicksOf(old, wall) <=> t \in Int /\ \E i \in 1..n : Covers(old[i], t, wall)
             /\ t \in TicksOf(old, wall + 1)
                  <=> t \in Int /\ \E i \in 1..n : Covers(old[i], t, wall + 1)
  BY <1>a, TicksOfFacts
<1>e. (\E i \in 1..n : IsOpen(old[i])) <=> n > 0 /\ timer.running
  <2>1. n > 0 => (IsOpen(old[n]) <=> timer.running)
    BY DEF Sane, SegmentsWellFormed
  <2>2. ASSUME NEW i \in 1..n, i < n PROVE ~IsOpen(old[i])
    <3>1. n \in 1..n
      BY <1>a, <2>2
    <3>2. Before(old[i], old[n])
      BY <2>2, <3>1 DEF Sane, SegmentsWellFormed
    <3> QED  BY <3>2 DEF Before, IsOpen
  <2> QED  BY <1>a, <2>1, <2>2
<1>f. timer.phase \in StudyPhases => n > 0
  BY DEF Sane, SegmentsWellFormed
<1>g. WorkedTicks' = IF timer.phase \in StudyPhases THEN TicksOf(old, wall + 1) ELSE {}
  BY DEF WorkedTicks, TicksOf, Ticks, EndOr, IsOpen
<1> HIDE DEF old, n
<1>1. CASE timer.phase \in StudyPhases
  <2>1. \A t : t \in TicksOf(old, wall + 1)
                 <=> t \in TicksOf(old, wall) \/ (timer.running /\ t = wall)
    BY <1>a, <1>c, <1>d, <1>e, <1>f, <1>1
  <2>2. TicksOf(old, wall + 1) = IF timer.running THEN TicksOf(old, wall) \cup {wall}
                                                  ELSE TicksOf(old, wall)
    BY <2>1
  <2> QED  BY <2>2, <1>g, <1>1 DEF WorkedTicks, AtWork, old
<1>2. CASE timer.phase \notin StudyPhases
  BY <1>2, <1>g DEF WorkedTicks, AtWork
<1> QED  BY <1>1, <1>2

(* Closing what is open, or opening a segment now, leaves a block what it  *)
(* covers.                                                                 *)
LEMMA ClosingCoversTheSame ==
    ASSUME NEW segs \in Seq(Segment), NEW closed \in Seq(Segment), NEW end \in Nat,
           Len(closed) = Len(segs),
           \A i \in 1..Len(segs) : /\ closed[i].started_at = segs[i].started_at
                                   /\ closed[i].ended_at = EndOr(segs[i], end)
    PROVE  TicksOf(closed, end) = TicksOf(segs, end)
<1>1. ASSUME NEW i \in 1..Len(segs), NEW t
      PROVE  Covers(closed[i], t, end) <=> Covers(segs[i], t, end)
  <2>1. EndOr(segs[i], end) # None
    <3>1. segs[i] \in Segment
      OBVIOUS
    <3> QED  BY <3>1, EndOrType, TimerAssumption
  <2>2. EndOr(closed[i], end) = EndOr(segs[i], end)
    BY <2>1 DEF EndOr, IsOpen
  <2> QED  BY <2>2 DEF Covers
<1>2. \A t : t \in TicksOf(closed, end) <=> t \in TicksOf(segs, end)
  BY <1>1, TicksOfFacts
<1> QED  BY <1>2

LEMMA OpeningCoversTheSame ==
    ASSUME NEW segs \in Seq(Segment), NEW t \in Nat
    PROVE  TicksOf(Append(segs, OpenSegment(t)), t) = TicksOf(segs, t)
<1> DEFINE new == Append(segs, OpenSegment(t))
           n == Len(segs)
<1>1. OpenSegment(t) \in Segment /\ OpenSegment(t).started_at = t
  BY DEF OpenSegment, Segment
<1>2. /\ new \in Seq(Segment) /\ Len(new) = n + 1 /\ n \in Nat
      /\ new[n + 1] = OpenSegment(t)
      /\ \A i \in 1..n : new[i] = segs[i]
  BY <1>1
<1> HIDE DEF new
<1>3. \A u \in Int : ~Covers(new[n + 1], u, t)
  BY <1>1, <1>2 DEF Covers
<1>4. \A i : i \in 1..(n + 1) <=> i \in 1..n \/ i = n + 1
  BY <1>2
<1>5. \A u : /\ u \in TicksOf(new, t) <=> u \in Int /\ \E i \in 1..(n + 1) : Covers(new[i], u, t)
             /\ u \in TicksOf(segs, t) <=> u \in Int /\ \E i \in 1..n : Covers(segs[i], u, t)
  BY <1>2, TicksOfFacts
<1>6. \A u : u \in TicksOf(new, t) <=> u \in TicksOf(segs, t)
  BY <1>2, <1>3, <1>4, <1>5
<1> QED  BY <1>6 DEF new

(* A block that ends is credited for what it covers before its end.        *)
LEMMA BlockIsCredited ==
    ASSUME IInv, NEW end \in Nat, end <= wall,
           NEW segs \in Seq(ClosedSegment), Len(segs) = Len(timer.active_segments),
           \A i \in 1..Len(segs) :
             /\ segs[i].started_at = timer.active_segments[i].started_at
             /\ segs[i].ended_at = EndOr(timer.active_segments[i], end)
             /\ segs[i].ended_at <= end,
           NEW phase \in Phases, NEW reason \in Reasons, Emit(RangeOf(phase, reason, segs))
    PROVE  CreditedTicks' = CreditedTicks
               \cup {t \in TicksOf(timer.active_segments, wall) : t < end}
<1> DEFINE old == timer.active_segments
           n == Len(old)
           r == RangeOf(phase, reason, segs)
<1>a. /\ old \in Seq(Segment) /\ n \in Nat /\ wall \in Nat
      /\ \A i \in 1..n : /\ segs[i].started_at \in Nat /\ segs[i].ended_at \in Nat
                         /\ old[i].started_at \in Nat
  <2>1. old \in Seq(Segment) /\ n \in Nat /\ wall \in Nat
    BY DEF IInv, TypeOK, TimerState
  <2>2. \A i \in 1..n : old[i] \in Segment /\ segs[i] \in ClosedSegment
    BY <2>1
  <2> QED  BY <2>1, <2>2 DEF Segment, ClosedSegment
<1>1. logged' = logged \cup Elements(segs)
  <2>1. CASE segs = <<>>
    <3>1. r = None /\ Elements(segs) = {}
      BY <2>1 DEF RangeOf, Elements
    <3> QED  BY <3>1 DEF Emit
  <2>2. CASE segs # <<>>
    <3>1. r = [phase |-> phase, reason |-> reason, segments |-> segs]
      BY <2>2 DEF RangeOf
    <3>2. r # None /\ r.segments = segs
      BY <3>1, NoneAssumption DEF SessionRange
    <3> QED  BY <3>2 DEF Emit
  <2> QED  BY <2>1, <2>2
<1>2. \A s : s \in Elements(segs) <=> \E i \in 1..n : s = segs[i]
  BY DEF Elements
<1>3. \A t : t \in CreditedTicks' <=>
          t \in CreditedTicks \/ \E i \in 1..n : t \in segs[i].started_at..(segs[i].ended_at - 1)
  BY <1>1, <1>2 DEF CreditedTicks
<1>4. ASSUME NEW i \in 1..n, NEW t
      PROVE  t \in segs[i].started_at..(segs[i].ended_at - 1)
               <=> t \in Int /\ Covers(old[i], t, wall) /\ t < end
  <2>1. t \in segs[i].started_at..(segs[i].ended_at - 1)
          <=> t \in Int /\ segs[i].started_at <= t /\ t < segs[i].ended_at
    BY <1>a
  <2>2. CASE IsOpen(old[i])
    BY <1>a, <2>1, <2>2 DEF Covers, EndOr
  <2>3. CASE ~IsOpen(old[i])
    <3>1. segs[i].ended_at = old[i].ended_at /\ EndOr(old[i], wall) = old[i].ended_at
      BY <2>3 DEF EndOr
    <3> QED  BY <1>a, <2>1, <3>1 DEF Covers
  <2> QED  BY <2>2, <2>3
<1>5. \A t : t \in TicksOf(old, wall) <=> t \in Int /\ \E i \in 1..n : Covers(old[i], t, wall)
  BY <1>a, TicksOfFacts
<1>6. \A t : t \in CreditedTicks' <=>
          t \in CreditedTicks \/ (t \in TicksOf(old, wall) /\ t < end)
  BY <1>3, <1>4, <1>5
<1> QED  BY <1>6

LEMMA LedgerStarts == Init => Ledger!Init
<1> SUFFICES ASSUME Init PROVE Ledger!Init
  OBVIOUS
<1>1. PICK c \in Configs : timer = NewTimer(c)
  BY DEF Init
<1>2. timer.phase = "Idle" /\ timer.running = FALSE /\ timer.active_segments = <<>>
  BY <1>1 DEF NewTimer
<1>3. ~AtWork /\ OpenDeadline = None /\ WorkedTicks = {}
  BY <1>2 DEF AtWork, OpenDeadline, WorkedTicks, StudyPhases
<1>4. CreditedTicks = {} /\ LastNotice = "none" /\ wall \in Nat
  BY DEF Init, CreditedTicks, LastNotice
<1> QED  BY <1>3, <1>4 DEF Ledger!Init, AtWork

(* A timer that went back to idle, or on to a break, has nothing in        *)
(* progress.                                                               *)
LEMMA NothingInProgress ==
    ASSUME timer'.phase \in {"Idle", "Break"}, wall' = wall
    PROVE  Ledger!Close
  BY DEF Ledger!Close, AtWork, OpenDeadline, WorkedTicks, StudyPhases

LEMMA NothingCredited ==
    ASSUME Emit(None)
    PROVE  LastNotice' = "none" /\ CreditedTicks' = CreditedTicks
  BY DEF Emit, LastNotice, CreditedTicks

LEMMA StartIsWork == IInv /\ Start => Ledger!Work
<1> SUFFICES ASSUME IInv, Start PROVE Ledger!Work
  OBVIOUS
<1> DEFINE total == IF timer.config.mode = "Endless" THEN 0
                    ELSE Greater(timer.remaining_seconds, 1)
<1>a. /\ timer \in TimerState /\ wall \in Nat /\ timer.config \in TimerConfig
      /\ timer.remaining_seconds \in Nat
  BY DEF IInv, TypeOK, TimerState
<1>1. /\ timer.phase = "Idle"
      /\ timer'.active_segments = <<OpenSegment(wall)>>
      /\ timer'.running = TRUE
      /\ timer'.phase = PhaseOfMode(timer.config.mode)
      /\ timer'.ends_at = IF timer.config.mode = "Endless" THEN None
                          ELSE PlusSeconds(wall, total)
      /\ wall' = wall /\ Emit(None)
  BY <1>a DEF Start, TimerState
<1>2. timer'.phase \in StudyPhases
  BY <1>1, <1>a DEF PhaseOfMode, StudyPhases, TimerConfig, Modes
<1>3. ~AtWork /\ WorkedTicks = {} /\ AtWork'
  BY <1>1, <1>2 DEF AtWork, WorkedTicks, StudyPhases
<1>4. WorkedTicks' = {}
  <2>1. TicksOf(Append(<<>>, OpenSegment(wall)), wall) = TicksOf(<<>>, wall)
    <3>1. <<>> \in Seq(Segment)
      OBVIOUS
    <3> QED  BY <1>a, <3>1, OpeningCoversTheSame
  <2>2. TicksOf(<<>>, wall) = {}
    BY DEF TicksOf
  <2>3. Append(<<>>, OpenSegment(wall)) = <<OpenSegment(wall)>>
    OBVIOUS
  <2> QED  BY <1>1, <1>2, <2>1, <2>2, <2>3 DEF WorkedTicks, TicksOf, Ticks, EndOr, IsOpen
<1>5. OpenDeadline' = None \/ OpenDeadline' >= wall
  <2>1. total \in Nat
    BY <1>a DEF Greater
  <2>2. total * Tps \in Nat
    BY <2>1, TimesNat, TimerAssumption
  <2>3. PlusSeconds(wall, total) >= wall
    <3>1. PICK x \in Nat : x = total * Tps
      BY <2>2
    <3> HIDE DEF total
    <3>2. PlusSeconds(wall, total) = wall + x
      BY <3>1 DEF PlusSeconds
    <3> QED  BY <3>2, <1>a
  <2> HIDE DEF total
  <2> QED  BY <1>1, <1>2, <2>3 DEF OpenDeadline
<1>6. LastNotice' = "none" /\ CreditedTicks' = CreditedTicks
  BY <1>1, NothingCredited
<1> QED  BY <1>1, <1>3, <1>4, <1>5, <1>6 DEF Ledger!Work, AtWork

LEMMA ResumeIsWork == IInv /\ Resume => Ledger!Work \/ Ledger!Aside
<1> SUFFICES ASSUME IInv, Resume PROVE Ledger!Work \/ Ledger!Aside
  OBVIOUS
<1> DEFINE left == TimeOnResume(timer)
<1>a. /\ timer \in TimerState /\ wall \in Nat /\ timer.active_segments \in Seq(Segment)
      /\ timer.remaining_seconds \in Nat
  BY DEF IInv, TypeOK, TimerState
<1>1. /\ timer'.active_segments = Append(timer.active_segments, OpenSegment(wall))
      /\ timer'.running = TRUE /\ timer'.phase = timer.phase /\ ~timer.running
      /\ timer'.ends_at = IF timer.phase = "Stopwatch" THEN None
                          ELSE PlusSeconds(wall, left)
      /\ wall' = wall /\ Emit(None)
  BY <1>a DEF Resume, TimerState
<1>2. LastNotice' = "none" /\ CreditedTicks' = CreditedTicks
  BY <1>1, NothingCredited
<1>3. CASE timer.phase \in StudyPhases
  <2>1. ~AtWork /\ AtWork'
    BY <1>1, <1>3 DEF AtWork
  <2>2. WorkedTicks' = WorkedTicks
    <3>1. WorkedTicks' = TicksOf(Append(timer.active_segments, OpenSegment(wall)), wall)
      BY <1>1, <1>3 DEF WorkedTicks, TicksOf, Ticks, EndOr, IsOpen
    <3> QED  BY <1>3, <1>a, <3>1, OpeningCoversTheSame DEF WorkedTicks
  <2>3. OpenDeadline' = None \/ OpenDeadline' >= wall
    <3>1. left \in Nat
      BY <1>a, DisplayType DEF TimeOnResume, Greater, IInv
    <3>2. left * Tps \in Nat
      BY <3>1, TimesNat, TimerAssumption
    <3>3. PlusSeconds(wall, left) >= wall
      <4>1. PICK x \in Nat : x = left * Tps
        BY <3>2
      <4> HIDE DEF left
      <4>2. PlusSeconds(wall, left) = wall + x
        BY <4>1 DEF PlusSeconds
      <4> QED  BY <4>2, <1>a
    <3> HIDE DEF left
    <3> QED  BY <1>1, <1>3, <3>3 DEF OpenDeadline
  <2> QED  BY <1>1, <1>2, <2>1, <2>2, <2>3 DEF Ledger!Work, AtWork
<1>4. CASE timer.phase \notin StudyPhases
  <2>1. /\ AtWork' = AtWork /\ OpenDeadline' = OpenDeadline /\ WorkedTicks' = WorkedTicks
    BY <1>1, <1>4 DEF AtWork, OpenDeadline, WorkedTicks
  <2> QED  BY <1>1, <1>2, <2>1 DEF Ledger!Aside
<1> QED  BY <1>3, <1>4

LEMMA PauseIsHold == IInv /\ Pause => Ledger!Hold \/ Ledger!Aside
<1> SUFFICES ASSUME IInv, Pause PROVE Ledger!Hold \/ Ledger!Aside
  OBVIOUS
<1> DEFINE old == timer.active_segments
           closed == CloseOpenSegments(old, wall)
<1>a. timer \in TimerState /\ wall \in Nat /\ old \in Seq(Segment)
  BY DEF IInv, TypeOK, TimerState
<1>1. /\ timer'.active_segments = closed /\ timer'.running = FALSE
      /\ timer'.phase = timer.phase /\ timer.running /\ timer'.ends_at = None
      /\ wall' = wall /\ Emit(None)
  BY <1>a DEF Pause, TimerState
<1>2. LastNotice' = "none" /\ CreditedTicks' = CreditedTicks
  BY <1>1, NothingCredited
<1>3. CASE timer.phase \in StudyPhases
  <2>1. AtWork /\ ~AtWork' /\ OpenDeadline' = None
    BY <1>1, <1>3 DEF AtWork, OpenDeadline
  <2>2. TicksOf(closed, wall) = TicksOf(old, wall)
    <3>1. /\ closed \in Seq(ClosedSegment) /\ Len(closed) = Len(old)
          /\ \A i \in 1..Len(old) : /\ closed[i].started_at = old[i].started_at
                                    /\ closed[i].ended_at = EndOr(old[i], wall)
      BY <1>a, CloseOpenSegmentsFacts
    <3> HIDE DEF closed
    <3>2. closed \in Seq(Segment)
      <4>1. ClosedSegment \subseteq Segment
        BY DEF ClosedSegment, Segment
      <4> QED  BY <3>1, <4>1
    <3> QED  BY <1>a, <3>1, <3>2, ClosingCoversTheSame
  <2>3. WorkedTicks' = WorkedTicks
    <3> HIDE DEF closed
    <3>1. WorkedTicks' = TicksOf(closed, wall)
      BY <1>1, <1>3 DEF WorkedTicks, TicksOf, Ticks, EndOr, IsOpen
    <3> QED  BY <1>3, <2>2, <3>1 DEF WorkedTicks
  <2> QED  BY <1>1, <1>2, <2>1, <2>3 DEF Ledger!Hold, AtWork
<1>4. CASE timer.phase \notin StudyPhases
  <2>1. /\ AtWork' = AtWork /\ OpenDeadline' = OpenDeadline /\ WorkedTicks' = WorkedTicks
    BY <1>1, <1>4 DEF AtWork, OpenDeadline, WorkedTicks
  <2> QED  BY <1>1, <1>2, <2>1 DEF Ledger!Aside
<1> QED  BY <1>3, <1>4

(* What is handed over of a block that has a segment is said to be saved,  *)
(* or expired.                                                             *)
LEMMA NoticeOfRange ==
    ASSUME NEW segs \in Seq(ClosedSegment), segs # <<>>, NEW phase \in Phases,
           NEW reason \in Reasons, Emit(RangeOf(phase, reason, segs))
    PROVE  LastNotice' = IF reason = "ManualSave" THEN "saved" ELSE "expired"
<1>1. RangeOf(phase, reason, segs) = [phase |-> phase, reason |-> reason, segments |-> segs]
  BY DEF RangeOf
<1>2. RangeOf(phase, reason, segs) # None
  BY <1>1, NoneAssumption DEF SessionRange
<1>3. range' # None /\ range'.reason = reason
  BY <1>1, <1>2 DEF Emit
<1> QED  BY <1>3 DEF LastNotice

(* The segments of a block closed at a time none of them is past.          *)
LEMMA ClosedAtEnd ==
    ASSUME Sane, timer.phase \in StudyPhases, NEW end \in Nat, end <= wall,
           NEW closed, closed = CloseOpenSegments(timer.active_segments, end),
           \A i \in 1..Len(timer.active_segments) :
               ~IsOpen(timer.active_segments[i]) => timer.active_segments[i].ended_at <= end
    PROVE  /\ closed \in Seq(ClosedSegment) /\ closed # <<>>
           /\ Len(closed) = Len(timer.active_segments)
           /\ ClosedSegments(closed) = closed
           /\ \A i \in 1..Len(closed) :
                /\ closed[i].started_at = timer.active_segments[i].started_at
                /\ closed[i].ended_at = EndOr(timer.active_segments[i], end)
                /\ closed[i].ended_at <= end
<1> DEFINE old == timer.active_segments
<1>1. old \in Seq(Segment) /\ Len(old) > 0 /\ Len(old) \in Nat
  BY DEF Sane, TypeOK, TimerState, SegmentsWellFormed
<1>2. /\ closed \in Seq(ClosedSegment) /\ Len(closed) = Len(old)
      /\ \A i \in 1..Len(old) : /\ closed[i].started_at = old[i].started_at
                                /\ closed[i].ended_at = EndOr(old[i], end)
  BY <1>1, CloseOpenSegmentsFacts
<1>3. closed # <<>>
  BY <1>1, <1>2
<1>4. ClosedSegments(closed) = closed
  BY <1>2, AllClosedAreKept
<1>5. \A i \in 1..Len(closed) : closed[i].ended_at <= end
  BY <1>2 DEF EndOr
<1> QED  BY <1>2, <1>3, <1>4, <1>5

(* A block saved by hand is handed over closed now.                        *)
LEMMA SavedBlock ==
    ASSUME Sane, CompleteManually
    PROVE  \E closed \in Seq(ClosedSegment) :
             /\ closed # <<>> /\ Len(closed) = Len(timer.active_segments)
             /\ \A i \in 1..Len(closed) :
                  /\ closed[i].started_at = timer.active_segments[i].started_at
                  /\ closed[i].ended_at = EndOr(timer.active_segments[i], wall)
                  /\ closed[i].ended_at <= wall
             /\ Emit(RangeOf(timer.phase, "ManualSave", closed))
<1> DEFINE old == timer.active_segments
           n == Len(old)
<1>a. /\ wall \in Nat /\ timer.phase \in StudyPhases
      /\ old \in Seq(Segment) /\ n \in Nat /\ DOMAIN old = 1..n
  BY DEF CompleteManually, Sane, TypeOK, TimerState
<1>1. PICK closed : closed = CloseOpenSegments(old, wall)
  OBVIOUS
<1>2. \A i \in 1..n : ~IsOpen(old[i]) => old[i].ended_at <= wall
  BY DEF Sane, SegmentsWellFormed
<1>3. /\ closed \in Seq(ClosedSegment) /\ closed # <<>> /\ Len(closed) = n
      /\ ClosedSegments(closed) = closed
      /\ \A i \in 1..Len(closed) : /\ closed[i].started_at = old[i].started_at
                                   /\ closed[i].ended_at = EndOr(old[i], wall)
                                   /\ closed[i].ended_at <= wall
  <2>1. wall <= wall
    BY <1>a
  <2> QED  BY <1>1, <1>2, <1>a, <2>1, ClosedAtEnd
<1>4. ASSUME ~timer.running PROVE old = closed
  <2>1. ASSUME NEW i \in 1..n PROVE closed[i] = old[i]
    <3>1. ~IsOpen(old[i])
      <4>1. n \in 1..n /\ ~IsOpen(old[n])
        BY <1>4, <1>a DEF Sane, SegmentsWellFormed
      <4>2. i = n \/ i < n
        BY <1>a
      <4> QED  BY <4>1, <4>2 DEF Sane, SegmentsWellFormed, Before, IsOpen
    <3>2. old[i] \in Segment /\ closed[i] \in ClosedSegment
      BY <1>a, <1>3
    <3>3. closed[i].started_at = old[i].started_at /\ closed[i].ended_at = old[i].ended_at
      BY <1>3, <3>1 DEF EndOr
    <3> QED  BY <3>2, <3>3 DEF Segment, ClosedSegment
  <2> QED  BY ONLY <1>3, <1>a, <2>1
<1>5. Emit(RangeOf(timer.phase, "ManualSave", closed))
  <2>1. (IF timer.running THEN CloseOpenSegments(old, wall) ELSE old) = closed
    BY <1>1, <1>4
  <2> QED  BY <2>1, <1>3 DEF CompleteManually
<1> QED  BY <1>3, <1>5

LEMMA CompleteIsSave == IInv /\ CompleteManually => Ledger!Save
<1> SUFFICES ASSUME IInv, CompleteManually PROVE Ledger!Save
  OBVIOUS
<1> DEFINE old == timer.active_segments
           n == Len(old)
<1>a. /\ timer \in TimerState /\ wall \in Nat /\ timer.phase \in StudyPhases
      /\ old \in Seq(Segment) /\ n \in Nat /\ timer.phase \in Phases
      /\ timer'.phase = "Idle" /\ wall' = wall
  <2>1. timer \in TimerState /\ timer' = ResetToIdle(timer)
    BY DEF CompleteManually, IInv, TypeOK
  <2>2. timer'.phase = "Idle"
    BY <2>1, ResetToIdleType
  <2> QED  BY <2>1, <2>2 DEF CompleteManually, IInv, TypeOK, TimerState
<1>1. PICK closed \in Seq(ClosedSegment) :
        /\ closed # <<>> /\ Len(closed) = n
        /\ \A i \in 1..Len(closed) : /\ closed[i].started_at = old[i].started_at
                                     /\ closed[i].ended_at = EndOr(old[i], wall)
                                     /\ closed[i].ended_at <= wall
        /\ Emit(RangeOf(timer.phase, "ManualSave", closed))
  BY SavedBlock, IInvIsSane
<1>2. "ManualSave" \in Reasons /\ wall <= wall
  BY <1>a DEF Reasons
<1>3. LastNotice' = "saved"
  BY <1>1, <1>2, <1>a, NoticeOfRange
<1>4. CreditedTicks' = CreditedTicks \cup {t \in TicksOf(old, wall) : t < wall}
  BY <1>1, <1>2, <1>a, BlockIsCredited
<1>5. {t \in TicksOf(old, wall) : t < wall} = WorkedTicks
  <2>1. \A t \in TicksOf(old, wall) : t < wall
    BY <1>a, TicksOfFacts DEF Covers
  <2> QED  BY <2>1, <1>a DEF WorkedTicks
<1>6. Ledger!Close
  BY <1>a, NothingInProgress
<1> QED  BY <1>3, <1>4, <1>5, <1>6 DEF Ledger!Save

(* An expired block is handed over closed at its deadline.                 *)
LEMMA ExpiredBlock ==
    ASSUME Sane, ObserveTime, timer.phase # "Break"
    PROVE  /\ timer.phase \in StudyPhases \ {"Stopwatch"} /\ timer.running
           /\ \E end \in Nat, closed \in Seq(ClosedSegment) :
                /\ end = timer.ends_at /\ end <= wall
                /\ closed # <<>> /\ Len(closed) = Len(timer.active_segments)
                /\ \A i \in 1..Len(closed) :
                     /\ closed[i].started_at = timer.active_segments[i].started_at
                     /\ closed[i].ended_at = EndOr(timer.active_segments[i], end)
                     /\ closed[i].ended_at <= end
                /\ Emit(RangeOf(timer.phase, "CountdownElapsed", closed))
<1> DEFINE old == timer.active_segments
           n == Len(old)
           segs == CloseOpenSegments(old, BlockEnd(timer))
<1>a. /\ wall \in Nat /\ old \in Seq(Segment) /\ n \in Nat /\ timer.phase \in Phases
  BY DEF Sane, TypeOK, TimerState
<1>b. /\ Expired
      /\ Emit(RangeOf(timer.phase, "CountdownElapsed", ClosedSegments(segs)))
  BY DEF ObserveTime
<1>c. timer.ends_at \in Nat /\ timer.ends_at <= wall
  BY <1>b, ExpiredIsPast DEF Sane
<1>d. timer.running /\ timer.phase # "Stopwatch" /\ timer.phase # "Idle"
  BY <1>b DEF Expired, Sane, SegmentsWellFormed
<1>1. timer.phase \in StudyPhases
  BY <1>d, <1>a DEF Phases, StudyPhases
<1>2. PICK end \in Nat : end = timer.ends_at /\ end <= wall /\ BlockEnd(timer) = end
  BY <1>c, TimerAssumption DEF BlockEnd
<1>3. PICK closed : closed = CloseOpenSegments(old, end)
  OBVIOUS
<1>4. \A i \in 1..n : ~IsOpen(old[i]) => old[i].ended_at <= end
  <2>1. n \in 1..n /\ IsOpen(old[n]) /\ old[n].started_at <= end
    <3>1. n > 0 /\ IsOpen(old[n])
      BY <1>1, <1>d DEF Sane, SegmentsWellFormed
    <3>2. n \in 1..n
      BY <3>1, <1>a
    <3>3. timer.ends_at # None
      BY <1>c, TimerAssumption
    <3> QED  BY <3>1, <3>2, <3>3, <1>2 DEF Sane, DeadlineSync
  <2>2. ASSUME NEW i \in 1..n, ~IsOpen(old[i]) PROVE old[i].ended_at <= end
    <3>1. i # n /\ i < n
      BY <2>1, <2>2, <1>a
    <3>2. Before(old[i], old[n])
      BY <2>1, <3>1 DEF Sane, SegmentsWellFormed
    <3>3. old[i].ended_at \in Nat /\ old[n].started_at \in Nat
      <4>1. old[i] \in Segment /\ old[n] \in Segment
        BY <1>a, <2>1
      <4> QED  BY <4>1, <2>2 DEF Segment, IsOpen
    <3> QED  BY <2>1, <3>2, <3>3 DEF Before
  <2> QED  BY <2>2
<1>5. /\ closed \in Seq(ClosedSegment) /\ closed # <<>> /\ Len(closed) = n
      /\ ClosedSegments(closed) = closed
      /\ \A i \in 1..Len(closed) : /\ closed[i].started_at = old[i].started_at
                                   /\ closed[i].ended_at = EndOr(old[i], end)
                                   /\ closed[i].ended_at <= end
  BY <1>1, <1>2, <1>3, <1>4, ClosedAtEnd
<1>6. Emit(RangeOf(timer.phase, "CountdownElapsed", closed))
  BY <1>b, <1>2, <1>3, <1>5
<1> QED  BY <1>d, <1>1, <1>2, <1>5, <1>6

LEMMA ObserveIsExpire == IInv /\ ObserveTime => Ledger!Expire \/ Ledger!Aside
<1> SUFFICES ASSUME IInv, ObserveTime PROVE Ledger!Expire \/ Ledger!Aside
  OBVIOUS
<1> DEFINE old == timer.active_segments
           n == Len(old)
           segs == CloseOpenSegments(old, BlockEnd(timer))
           start == BreakStart(timer, segs)
<1>a. /\ timer \in TimerState /\ wall \in Nat /\ old \in Seq(Segment) /\ n \in Nat
      /\ timer.phase \in Phases
  BY DEF IInv, TypeOK, TimerState
<1>1. /\ timer' = ResetToIdle(timer) \/ timer' = StartBreak(timer, start)
      /\ timer.phase = "Break" => timer' = ResetToIdle(timer)
      /\ Expired /\ wall' = wall
      /\ Emit(IF timer.phase = "Break" THEN None
              ELSE RangeOf(timer.phase, "CountdownElapsed", ClosedSegments(segs)))
  BY DEF ObserveTime
<1>2. timer'.phase \in {"Idle", "Break"} /\ (timer.phase = "Break" => timer'.phase = "Idle")
  <2>1. ResetToIdle(timer).phase = "Idle"
    BY <1>a, ResetToIdleType
  <2>2. StartBreak(timer, start).phase = "Break"
    <3> HIDE DEF start
    <3> QED  BY <1>a DEF StartBreak, TimerState
  <2> HIDE DEF start
  <2> QED  BY <1>1, <2>1, <2>2
<1>3. timer.ends_at \in Nat /\ timer.ends_at <= wall
  BY <1>1, ExpiredIsPast DEF IInv
<1>4. timer.running /\ timer.phase # "Stopwatch" /\ timer.phase # "Idle"
  BY <1>1 DEF Expired, IInv, SegmentsWellFormed
<1>5. Ledger!Close
  BY <1>1, <1>2, NothingInProgress
<1>6. CASE timer.phase = "Break"
  <2>1. LastNotice' = "none" /\ CreditedTicks' = CreditedTicks
    BY <1>1, <1>6, NothingCredited
  <2>2. ~AtWork /\ OpenDeadline = None /\ WorkedTicks = {}
    BY <1>6 DEF AtWork, OpenDeadline, WorkedTicks, StudyPhases
  <2> QED  BY <1>5, <2>1, <2>2 DEF Ledger!Close, Ledger!Aside, AtWork
<1>7. CASE timer.phase # "Break"
  <2>1. timer.phase \in StudyPhases
    BY <1>4, <1>7, <1>a DEF Phases, StudyPhases
  <2>2. PICK end \in Nat, closed \in Seq(ClosedSegment) :
           /\ end = timer.ends_at /\ end <= wall
           /\ closed # <<>> /\ Len(closed) = n
           /\ \A i \in 1..Len(closed) : /\ closed[i].started_at = old[i].started_at
                                        /\ closed[i].ended_at = EndOr(old[i], end)
                                        /\ closed[i].ended_at <= end
           /\ Emit(RangeOf(timer.phase, "CountdownElapsed", closed))
    BY <1>7, ExpiredBlock, IInvIsSane
  <2>7. "CountdownElapsed" \in Reasons
    BY DEF Reasons
  <2>8. LastNotice' = "expired"
    BY <1>a, <2>2, <2>7, NoticeOfRange
  <2>9. CreditedTicks' = CreditedTicks \cup {t \in TicksOf(old, wall) : t < end}
    BY <1>a, <2>2, <2>7, BlockIsCredited
  <2>10. AtWork /\ OpenDeadline = end /\ WorkedTicks = TicksOf(old, wall) /\ end # None
    BY <1>4, <2>1, <2>2, TimerAssumption DEF AtWork, OpenDeadline, WorkedTicks
  <2> QED  BY <1>5, <2>2, <2>8, <2>9, <2>10 DEF Ledger!Expire
<1> QED  BY <1>6, <1>7

LEMMA StepIsLedgerStep == IInv /\ [Next]_vars => [Ledger!Next]_(Ledger!vars)
<1> SUFFICES ASSUME IInv, [Next]_vars PROVE [Ledger!Next]_(Ledger!vars)
  OBVIOUS
<1>1. CASE Tick
  <2>1. timer' = timer /\ wall' = wall + 1 /\ range' = None /\ logged' = logged
    BY <1>1 DEF Tick
  <2>2. WorkedTicks' = IF AtWork THEN WorkedTicks \cup {wall} ELSE WorkedTicks
    BY <2>1, TickIsWorked, IInvIsSane
  <2>3. /\ AtWork' = AtWork /\ OpenDeadline' = OpenDeadline
        /\ CreditedTicks' = CreditedTicks /\ LastNotice' = "none"
    BY <2>1 DEF AtWork, OpenDeadline, CreditedTicks, LastNotice
  <2> QED  BY <2>1, <2>2, <2>3 DEF Ledger!Next, Ledger!Tick, AtWork
<1>2. CASE Start
  BY <1>2, StartIsWork DEF Ledger!Next
<1>3. CASE Pause
  BY <1>3, PauseIsHold DEF Ledger!Next
<1>4. CASE Resume
  BY <1>4, ResumeIsWork DEF Ledger!Next
<1>5. CASE Reset
  <2>1. timer' = ResetToIdle(timer) /\ wall' = wall /\ Emit(None) /\ timer \in TimerState
    BY <1>5 DEF Reset, IInv, TypeOK
  <2>2. timer'.phase = "Idle"
    BY <2>1, ResetToIdleType
  <2> QED  BY <2>1, <2>2, NothingInProgress, NothingCredited
           DEF Ledger!Next, Ledger!Discard
<1>6. CASE CompleteManually
  BY <1>6, CompleteIsSave DEF Ledger!Next
<1>7. CASE ObserveTime
  BY <1>7, ObserveIsExpire DEF Ledger!Next
<1>8. CASE \E m \in Modes : SetMode(m)
  <2>1. /\ timer'.phase = timer.phase /\ timer'.running = timer.running
        /\ timer.phase = "Idle" /\ wall' = wall /\ Emit(None)
    BY <1>8 DEF SetMode, IInv, TypeOK, TimerState
  <2>2. /\ AtWork' = AtWork /\ OpenDeadline' = OpenDeadline /\ WorkedTicks' = WorkedTicks
    BY <2>1 DEF AtWork, OpenDeadline, WorkedTicks, StudyPhases
  <2> QED  BY <2>1, <2>2, NothingCredited DEF Ledger!Next, Ledger!Aside
<1>9. CASE UNCHANGED vars
  <2>1. timer' = timer /\ wall' = wall /\ range' = range /\ logged' = logged
    BY <1>9 DEF vars
  <2>2. /\ AtWork' = AtWork /\ OpenDeadline' = OpenDeadline /\ WorkedTicks' = WorkedTicks
        /\ CreditedTicks' = CreditedTicks /\ LastNotice' = LastNotice
    BY <2>1 DEF AtWork, OpenDeadline, WorkedTicks, CreditedTicks, LastNotice,
                TicksOf, Ticks, EndOr, IsOpen
  <2> QED  BY <2>1, <2>2 DEF Ledger!vars
<1> QED  BY <1>1, <1>2, <1>3, <1>4, <1>5, <1>6, <1>7, <1>8, <1>9 DEF Next, Command

(* Whatever modes, pauses, anchors and missed deadlines do, the history    *)
(* gets what was worked, block by block: the timer implements StudyLedger. *)
THEOREM TimerKeepsTheLedger == Spec => LedgerSpec
<1> QED  BY LedgerStarts, StepIsLedgerStep, SpecIInv, PTL DEF Spec, LedgerSpec, Ledger!Spec
----------------------------------------------------------------------------
(* What is displayed.  A stopwatch never remembers more seconds than its   *)
(* segments add up to, so that switching from one to the other at a resume *)
(* does not turn it back.                                                  *)

StopwatchInOrder ==
    timer.phase = "Stopwatch" =>
        timer.remaining_seconds <= SumSeconds(timer.active_segments, wall)

LEMMA DivMonotone ==
    ASSUME NEW a \in Nat, NEW c \in Nat, NEW b \in Nat \ {0}, a <= c
    PROVE  a \div b <= c \div b
<1>1. PICK q \in Nat : q = a \div b /\ b * q <= a
  BY DivFacts
<1>2. PICK r \in Nat : r = c \div b /\ c < b * r + b
  BY DivFacts
<1>3. CASE r < q
  <2>1. r + 1 <= q
    BY <1>3
  <2>2. b * (r + 1) <= b * q
    BY <2>1
  <2>3. b * (r + 1) = b * r + b
    OBVIOUS
  <2>4. b * q \in Nat /\ b * r \in Nat
    BY TimesNat
  <2> QED  BY <1>1, <1>2, <2>2, <2>3, <2>4
<1> QED  BY <1>1, <1>2, <1>3

LEMMA SegmentSecondsGrow ==
    ASSUME NEW s \in Nat, NEW e \in Nat, NEW f \in Nat, e <= f
    PROVE  SegmentSeconds(s, e) <= SegmentSeconds(s, f)
<1>1. CASE e <= s
  <2>1. SegmentSeconds(s, e) = 0 /\ SegmentSeconds(s, f) \in Nat
    BY <1>1, SegmentSecondsType DEF SegmentSeconds
  <2> QED  BY <2>1
<1>2. CASE e > s
  <2>1. e - s \in Nat /\ f - s \in Nat /\ e - s <= f - s
    BY <1>2
  <2>2. (e - s) \div Tps <= (f - s) \div Tps
    BY <2>1, DivMonotone, TimerAssumption
  <2> QED  BY <1>2, <2>2 DEF SegmentSeconds
<1> QED  BY <1>1, <1>2

(* The seconds of a block, one by one.                                     *)
LEMMA SumSecondsTerms ==
    ASSUME NEW segs \in Seq(Segment), NEW t \in Nat
    PROVE  LET a == [i \in DOMAIN segs |->
                       SegmentSeconds(segs[i].started_at, EndOr(segs[i], t))]
           IN  /\ SumSeconds(segs, t) = Total(a, Len(segs))
               /\ \A i \in 1..Len(segs) :
                    /\ a[i] = SegmentSeconds(segs[i].started_at, EndOr(segs[i], t))
                    /\ a[i] \in Nat
<1>1. ASSUME NEW i \in 1..Len(segs)
      PROVE  SegmentSeconds(segs[i].started_at, EndOr(segs[i], t)) \in Nat
  <2>1. segs[i] \in Segment
    OBVIOUS
  <2>2. segs[i].started_at \in Nat
    BY <2>1 DEF Segment
  <2> QED  BY <2>1, <2>2, EndOrType, SegmentSecondsType
<1>2. DOMAIN segs = 1..Len(segs)
  OBVIOUS
<1> QED  BY <1>1, <1>2 DEF SumSeconds

LEMMA SumSecondsGrow ==
    ASSUME NEW segs \in Seq(Segment), NEW t \in Nat, NEW u \in Nat, t <= u
    PROVE  SumSeconds(segs, t) <= SumSeconds(segs, u)
<1>1. PICK a : a = [i \in DOMAIN segs |->
                      SegmentSeconds(segs[i].started_at, EndOr(segs[i], t))]
  OBVIOUS
<1>2. PICK b : b = [i \in DOMAIN segs |->
                      SegmentSeconds(segs[i].started_at, EndOr(segs[i], u))]
  OBVIOUS
<1>3. /\ SumSeconds(segs, t) = Total(a, Len(segs)) /\ SumSeconds(segs, u) = Total(b, Len(segs))
      /\ \A i \in 1..Len(segs) :
           /\ a[i] = SegmentSeconds(segs[i].started_at, EndOr(segs[i], t)) /\ a[i] \in Nat
           /\ b[i] = SegmentSeconds(segs[i].started_at, EndOr(segs[i], u)) /\ b[i] \in Nat
  BY <1>1, <1>2, SumSecondsTerms
<1>4. ASSUME NEW i \in 1..Len(segs) PROVE a[i] <= b[i]
  <2>1. segs[i] \in Segment
    OBVIOUS
  <2>2. /\ segs[i].started_at \in Nat /\ EndOr(segs[i], t) \in Nat
        /\ EndOr(segs[i], u) \in Nat /\ EndOr(segs[i], t) <= EndOr(segs[i], u)
    BY <2>1, EndOrType DEF Segment, EndOr, IsOpen
  <2> QED  BY <1>3, <2>2, SegmentSecondsGrow
<1>5. Len(segs) \in Nat
  OBVIOUS
<1> QED  BY <1>3, <1>4, <1>5, TotalMonotone

LEMMA SumSecondsOfClosed ==
    ASSUME NEW segs \in Seq(Segment), NEW t \in Nat, NEW closed \in Seq(Segment),
           Len(closed) = Len(segs),
           \A i \in 1..Len(segs) : /\ closed[i].started_at = segs[i].started_at
                                   /\ closed[i].ended_at = EndOr(segs[i], t)
    PROVE  SumSeconds(segs, t) <= SumSeconds(closed, t)
<1>1. PICK a : a = [i \in DOMAIN segs |->
                      SegmentSeconds(segs[i].started_at, EndOr(segs[i], t))]
  OBVIOUS
<1>2. PICK b : b = [i \in DOMAIN closed |->
                      SegmentSeconds(closed[i].started_at, EndOr(closed[i], t))]
  OBVIOUS
<1>3. /\ SumSeconds(segs, t) = Total(a, Len(segs))
      /\ \A i \in 1..Len(segs) :
           a[i] = SegmentSeconds(segs[i].started_at, EndOr(segs[i], t)) /\ a[i] \in Nat
  BY <1>1, SumSecondsTerms
<1>4. /\ SumSeconds(closed, t) = Total(b, Len(segs))
      /\ \A i \in 1..Len(segs) :
           b[i] = SegmentSeconds(closed[i].started_at, EndOr(closed[i], t)) /\ b[i] \in Nat
  BY <1>2, SumSecondsTerms
<1>5. ASSUME NEW i \in 1..Len(segs) PROVE a[i] <= b[i]
  <2>1. EndOr(segs[i], t) \in Nat
    <3>1. segs[i] \in Segment
      OBVIOUS
    <3> QED  BY <3>1, EndOrType
  <2>2. EndOr(closed[i], t) = EndOr(segs[i], t)
    BY <2>1, TimerAssumption DEF EndOr, IsOpen
  <2> QED  BY <1>3, <1>4, <2>2
<1>6. Len(segs) \in Nat
  OBVIOUS
<1> QED  BY <1>3, <1>4, <1>5, <1>6, TotalMonotone

LEMMA SumSecondsOfOpened ==
    ASSUME NEW segs \in Seq(Segment), NEW t \in Nat
    PROVE  SumSeconds(Append(segs, OpenSegment(t)), t) = SumSeconds(segs, t)
<1>1. OpenSegment(t) \in Segment /\ OpenSegment(t).started_at = t /\ EndOr(OpenSegment(t), t) = t
  BY DEF OpenSegment, Segment, EndOr, IsOpen
<1>2. PICK new : new = Append(segs, OpenSegment(t))
  OBVIOUS
<1>3. /\ new \in Seq(Segment) /\ Len(new) = Len(segs) + 1 /\ Len(segs) \in Nat
      /\ new[Len(segs) + 1] = OpenSegment(t)
      /\ \A i \in 1..Len(segs) : new[i] = segs[i] /\ i \in 1..Len(new)
      /\ Len(segs) + 1 \in 1..Len(new)
  BY <1>1, <1>2
<1>4. PICK a : a = [i \in DOMAIN segs |->
                      SegmentSeconds(segs[i].started_at, EndOr(segs[i], t))]
  OBVIOUS
<1>5. PICK b : b = [i \in DOMAIN new |->
                      SegmentSeconds(new[i].started_at, EndOr(new[i], t))]
  OBVIOUS
<1>6. /\ SumSeconds(segs, t) = Total(a, Len(segs))
      /\ \A i \in 1..Len(segs) :
           a[i] = SegmentSeconds(segs[i].started_at, EndOr(segs[i], t)) /\ a[i] \in Nat
  BY <1>4, SumSecondsTerms
<1>7. /\ SumSeconds(new, t) = Total(b, Len(segs) + 1)
      /\ \A i \in 1..Len(new) :
           b[i] = SegmentSeconds(new[i].started_at, EndOr(new[i], t)) /\ b[i] \in Nat
  BY <1>3, <1>5, SumSecondsTerms
<1>8. b[Len(segs) + 1] = 0
  BY <1>1, <1>3, <1>7 DEF SegmentSeconds
<1>9. \A i \in 1..Len(segs) : b[i] = a[i]
  BY <1>3, <1>6, <1>7
<1>10. Total(b, Len(segs) + 1) = Total(a, Len(segs)) + b[Len(segs) + 1]
  <2>1. PICK n \in Nat : n = Len(segs)
    BY <1>3
  <2>2. \A i \in 1..n : a[i] \in Nat /\ b[i] = a[i]
    BY <1>6, <1>9, <2>1
  <2>3. b[n + 1] \in Nat
    BY <1>8, <2>1
  <2>4. Total(b, n + 1) = Total(a, n) + b[n + 1]
    BY ONLY <2>2, <2>3, n \in Nat, TotalExtended
  <2> QED  BY <2>1, <2>4
<1>11. Total(a, Len(segs)) \in Nat
  BY <1>3, <1>6, TotalType
<1> QED  BY <1>2, <1>6, <1>7, <1>8, <1>10, <1>11

LEMMA SumSecondsPrimed ==
    /\ SumSeconds(timer.active_segments, wall)' = SumSeconds(timer'.active_segments, wall')
  BY DEF SumSeconds, SegmentSeconds, EndOr, IsOpen, Total

(* The commands that leave a block in its phase, and the clock.            *)
LEMMA SamePhaseSteps ==
    ASSUME IInv, [Next]_vars, timer'.phase = timer.phase, timer.phase # "Idle"
    PROVE  Tick \/ Pause \/ Resume \/ UNCHANGED vars
<1>1. timer \in TimerState
  BY DEF IInv, TypeOK
<1>2. timer' = ResetToIdle(timer) => timer'.phase = "Idle"
  BY <1>1, ResetToIdleType
<1>3. ObserveTime => timer'.phase # timer.phase
  <2> SUFFICES ASSUME ObserveTime PROVE timer'.phase # timer.phase
    OBVIOUS
  <2> DEFINE start == BreakStart(timer, CloseOpenSegments(timer.active_segments, BlockEnd(timer)))
  <2>1. \/ timer' = ResetToIdle(timer)
        \/ timer' = StartBreak(timer, start) /\ timer.phase = "Study"
    BY DEF ObserveTime
  <2> HIDE DEF start
  <2>2. StartBreak(timer, start).phase = "Break"
    BY <1>1 DEF StartBreak, TimerState
  <2> QED  BY <1>2, <2>1, <2>2
<1> QED  BY <1>2, <1>3 DEF Next, Command, Start, Reset, CompleteManually, SetMode

LEMMA StopwatchStarts == Init => StopwatchInOrder
<1> SUFFICES ASSUME Init PROVE StopwatchInOrder
  OBVIOUS
<1>1. PICK c \in Configs : timer = NewTimer(c)
  BY DEF Init
<1>2. timer.phase = "Idle"
  BY <1>1 DEF NewTimer
<1> QED  BY <1>2 DEF StopwatchInOrder

(* A stopwatch shows what its segments add up to.                          *)
LEMMA StopwatchShows ==
    ASSUME IInv, StopwatchInOrder, timer.phase = "Stopwatch"
    PROVE  /\ ActiveSeconds(timer) = SumSeconds(timer.active_segments, wall)
           /\ SumSeconds(timer.active_segments, wall) \in Nat
<1>1. /\ timer.remaining_seconds \in Nat
      /\ SumSeconds(timer.active_segments, wall) \in Nat
  <2>1. /\ timer.remaining_seconds \in Nat /\ timer.active_segments \in Seq(Segment)
        /\ wall \in Nat
    BY DEF IInv, TypeOK, TimerState
  <2> QED  BY <2>1, SumSecondsType
<1>2. SumSeconds(timer.active_segments, wall) > 0 \/ timer.remaining_seconds = 0
  BY <1>1 DEF StopwatchInOrder
<1> QED  BY <1>1, <1>2 DEF StopwatchInOrder, ActiveSeconds, StudyPhases

LEMMA StopwatchStays ==
    ASSUME IInv, StopwatchInOrder, [Next]_vars
    PROVE  StopwatchInOrder'
<1>a. /\ timer \in TimerState /\ timer.active_segments \in Seq(Segment) /\ wall \in Nat
      /\ timer.remaining_seconds \in Nat /\ timer.config \in TimerConfig
  BY DEF IInv, TypeOK, TimerState
<1> SUFFICES ASSUME timer'.phase = "Stopwatch"
             PROVE  timer'.remaining_seconds <= SumSeconds(timer'.active_segments, wall')
  BY SumSecondsPrimed DEF StopwatchInOrder
<1>1. CASE timer.phase = "Stopwatch"
  <2>1. Tick \/ Pause \/ Resume \/ UNCHANGED vars
    BY <1>1, SamePhaseSteps
  <2>2. PICK total \in Nat : /\ total = SumSeconds(timer.active_segments, wall)
                             /\ ActiveSeconds(timer) = total
                             /\ timer.remaining_seconds <= total
    BY <1>1, StopwatchShows DEF StopwatchInOrder
  <2>3. CASE Tick
    <3>1. timer' = timer /\ wall' = wall + 1
      BY <2>3 DEF Tick
    <3>2. wall + 1 \in Nat /\ wall <= wall + 1
      BY <1>a
    <3>3. total <= SumSeconds(timer.active_segments, wall + 1)
      BY <1>a, <2>2, <3>2, SumSecondsGrow
    <3>4. SumSeconds(timer.active_segments, wall + 1) \in Nat
      BY <1>a, <3>2, SumSecondsType
    <3> QED  BY <1>a, <2>2, <3>1, <3>3, <3>4
  <2>4. CASE Pause
    <3>1. PICK closed : closed = CloseOpenSegments(timer.active_segments, wall)
      OBVIOUS
    <3>2. /\ timer'.active_segments = closed /\ wall' = wall /\ timer.running
          /\ timer'.remaining_seconds = DisplaySeconds(timer)
      BY <1>a, <2>4, <3>1 DEF Pause, TimerState
    <3>3. DisplaySeconds(timer) = total
      BY <1>1, <2>2, <3>2 DEF DisplaySeconds
    <3>4. /\ closed \in Seq(ClosedSegment) /\ Len(closed) = Len(timer.active_segments)
          /\ \A i \in 1..Len(timer.active_segments) :
               /\ closed[i].started_at = timer.active_segments[i].started_at
               /\ closed[i].ended_at = EndOr(timer.active_segments[i], wall)
      BY <1>a, <3>1, CloseOpenSegmentsFacts
    <3>5. closed \in Seq(Segment)
      <4>1. ClosedSegment \subseteq Segment
        BY DEF ClosedSegment, Segment
      <4> QED  BY <3>4, <4>1
    <3>6. total <= SumSeconds(closed, wall)
      BY <1>a, <2>2, <3>4, <3>5, SumSecondsOfClosed
    <3> QED  BY <3>2, <3>3, <3>6
  <2>5. CASE Resume
    <3>1. /\ timer'.active_segments = Append(timer.active_segments, OpenSegment(wall))
          /\ wall' = wall /\ timer'.remaining_seconds = TimeOnResume(timer)
      BY <1>a, <2>5 DEF Resume, TimerState
    <3>2. TimeOnResume(timer) <= total
      BY <1>1, <1>a, <2>2 DEF TimeOnResume, Greater
    <3>3. SumSeconds(timer'.active_segments, wall') = total
      BY <1>a, <2>2, <3>1, SumSecondsOfOpened
    <3> QED  BY <3>1, <3>2, <3>3
  <2>6. CASE UNCHANGED vars
    BY <2>2, <2>6 DEF vars
  <2> QED  BY <2>1, <2>3, <2>4, <2>5, <2>6
<1>2. CASE timer.phase # "Stopwatch"
  <2>1. Start
    <3>1. timer' = ResetToIdle(timer) => timer'.phase = "Idle"
      BY <1>a, ResetToIdleType
    <3>2. ~ObserveTime
      <4> SUFFICES ASSUME ObserveTime PROVE FALSE
        OBVIOUS
      <4> DEFINE start == BreakStart(timer, CloseOpenSegments(timer.active_segments, BlockEnd(timer)))
      <4>1. timer' = ResetToIdle(timer) \/ timer' = StartBreak(timer, start)
        BY DEF ObserveTime
      <4> HIDE DEF start
      <4>2. StartBreak(timer, start).phase = "Break"
        BY <1>a DEF StartBreak, TimerState
      <4> QED  BY <3>1, <4>1, <4>2
    <3>3. /\ Pause \/ Resume \/ (\E m \in Modes : SetMode(m)) => timer'.phase = timer.phase
      BY <1>a DEF Pause, Resume, SetMode, TimerState
    <3>4. Tick \/ UNCHANGED vars => timer'.phase = timer.phase
      BY DEF Tick, vars
    <3> QED  BY <1>2, <3>1, <3>2, <3>3, <3>4 DEF Next, Command, Reset, CompleteManually
  <2>2. /\ timer'.phase = PhaseOfMode(timer.config.mode) /\ wall' = wall
        /\ timer'.remaining_seconds = IF timer.config.mode = "Endless" THEN 0
                                      ELSE Greater(timer.remaining_seconds, 1)
        /\ timer'.active_segments = <<OpenSegment(wall)>>
    BY <1>a, <2>1 DEF Start, TimerState
  <2>3. timer.config.mode = "Endless"
    BY <1>a, <2>2 DEF PhaseOfMode, TimerConfig, Modes
  <2>4. <<OpenSegment(wall)>> \in Seq(Segment)
    BY <1>a DEF OpenSegment, Segment
  <2>5. SumSeconds(<<OpenSegment(wall)>>, wall) \in Nat
    BY <1>a, <2>4, SumSecondsType
  <2> QED  BY <2>2, <2>3, <2>5
<1> QED  BY <1>1, <1>2

(* What is left of a countdown does not grow while the clocks advance.     *)
LEMMA CountdownRunsDown ==
    ASSUME IInv, timer.running, timer.phase # "Stopwatch",
           timer' = timer, wall' = wall + 1, mono' = mono + 1
    PROVE  RemainingFromRuntime(timer)' <= RemainingFromRuntime(timer)
<1>a. /\ wall \in Nat /\ mono \in Nat /\ timer.phase \in Phases
      /\ timer.ends_at \in Nat \cup {None} /\ timer.anchor \in RuntimeAnchor \cup {None}
  BY DEF IInv, TypeOK, TimerState
<1>1. timer.phase \in Countdowns
  BY <1>a DEF Phases, Countdowns, IInv, SegmentsWellFormed
<1>2. timer.ends_at \in Nat /\ timer.ends_at # None
  BY <1>1, <1>a DEF IInv, DeadlineSync
<1>3. CASE timer.anchor = None
  <2>1. PICK e \in Nat : e = timer.ends_at
    BY <1>2
  <2>2. SecondsUntil(e, wall + 1) <= SecondsUntil(e, wall)
    <3>1. CASE e <= wall
      <4>1. e <= wall + 1
        BY <3>1, <1>a
      <4> QED  BY <3>1, <4>1 DEF SecondsUntil
    <3>2. CASE e > wall
      <4>1. /\ e - wall + Tps - 1 \in Nat /\ e - wall \in Nat \ {0} /\ Tps \in Nat \ {0}
        BY <3>2, <1>a, TimerAssumption
      <4>2. (e - wall + Tps - 1) \div Tps \in Nat
        BY <4>1, DivFacts
      <4>3. CASE e <= wall + 1
        BY <4>2, <4>3, <3>2, <1>a DEF SecondsUntil
      <4>4. CASE ~(e <= wall + 1)
        <5>1. /\ e - (wall + 1) + Tps - 1 \in Nat
              /\ e - (wall + 1) + Tps - 1 <= e - wall + Tps - 1
          BY <4>1, <4>4, <1>a
        <5>2. (e - (wall + 1) + Tps - 1) \div Tps <= (e - wall + Tps - 1) \div Tps
          BY <4>1, <5>1, DivMonotone
        <5> QED  BY <3>2, <4>4, <5>2, <1>a DEF SecondsUntil
      <4> QED  BY <4>3, <4>4
    <3> QED  BY <3>1, <3>2, <1>a
  <2> QED  BY <1>2, <1>3, <2>1, <2>2 DEF RemainingFromRuntime, SecondsUntil
<1>4. CASE timer.anchor # None
  <2>1. PICK v \in Nat, a \in Nat : v = timer.anchor.value /\ a = timer.anchor.mono
    BY <1>4, <1>a DEF RuntimeAnchor
  <2>2. a <= mono
    BY <1>2, <1>4, <2>1 DEF IInv, DeadlineSync
  <2>3. /\ Minus(mono, a) = mono - a /\ Minus(mono + 1, a) = mono + 1 - a
        /\ mono - a \in Nat /\ mono + 1 - a \in Nat /\ mono - a <= mono + 1 - a
    BY <1>a, <2>1, <2>2 DEF Minus
  <2>4. PICK p \in Nat, q \in Nat : /\ p = (mono - a) \div Tps /\ q = (mono + 1 - a) \div Tps
                                    /\ p <= q
    BY <2>3, DivFacts, DivMonotone, TimerAssumption
  <2>5. Minus(v, q) <= Minus(v, p)
    BY <2>1, <2>4 DEF Minus
  <2>6. RemainingFromRuntime(timer) = Minus(v, p)
    BY <1>4, <2>1, <2>3, <2>4 DEF RemainingFromRuntime
  <2>7. RemainingFromRuntime(timer)' = Minus(v, q)
    <3>1. RemainingFromRuntime(timer)'
            = Minus(timer.anchor.value, Minus(mono + 1, timer.anchor.mono) \div Tps)
      BY <1>4 DEF RemainingFromRuntime, Minus
    <3> QED  BY <2>1, <2>3, <2>4, <3>1
  <2> QED  BY <2>5, <2>6, <2>7
<1> QED  BY <1>3, <1>4

LEMMA DisplayStep ==
    ASSUME IInv, StopwatchInOrder, [Next]_vars,
           timer.phase = timer'.phase, timer.phase # "Idle"
    PROVE  IF timer.phase = "Stopwatch"
           THEN DisplaySeconds(timer)' >= DisplaySeconds(timer)
           ELSE DisplaySeconds(timer)' <= DisplaySeconds(timer)
<1>a. /\ timer \in TimerState /\ timer.active_segments \in Seq(Segment) /\ wall \in Nat
      /\ mono \in Nat /\ timer.remaining_seconds \in Nat
  BY DEF IInv, TypeOK, TimerState
<1>b. DisplaySeconds(timer) \in Nat /\ ActiveSeconds(timer) \in Nat
  BY DisplayType DEF IInv
<1>c. ASSUME timer.phase = "Stopwatch"
      PROVE  ActiveSeconds(timer)' = IF SumSeconds(timer'.active_segments, wall') > 0
                                     THEN SumSeconds(timer'.active_segments, wall')
                                     ELSE timer'.remaining_seconds
  BY <1>c, SumSecondsPrimed DEF ActiveSeconds, StudyPhases
<1>d. ASSUME ~timer'.running PROVE DisplaySeconds(timer)' = timer'.remaining_seconds
  BY <1>d DEF DisplaySeconds
<1>e. ASSUME timer'.running, timer.phase = "Stopwatch"
      PROVE  DisplaySeconds(timer)' = ActiveSeconds(timer)'
  BY <1>e DEF DisplaySeconds
<1>f. ASSUME timer'.running, timer.phase # "Stopwatch"
      PROVE  DisplaySeconds(timer)' = RemainingFromRuntime(timer)'
  BY <1>f DEF DisplaySeconds
<1>1. CASE Tick
  <2>1. timer' = timer /\ wall' = wall + 1 /\ mono' = mono + 1
    BY <1>1 DEF Tick
  <2>2. CASE ~timer.running
    BY <1>b, <1>d, <2>1, <2>2 DEF DisplaySeconds
  <2>3. CASE timer.running /\ timer.phase = "Stopwatch"
    <3>1. PICK total \in Nat : /\ total = SumSeconds(timer.active_segments, wall)
                               /\ DisplaySeconds(timer) = total
      BY <2>3, StopwatchShows DEF DisplaySeconds
    <3>2. wall + 1 \in Nat /\ wall <= wall + 1
      BY <1>a
    <3>3. PICK more \in Nat : more = SumSeconds(timer.active_segments, wall + 1)
      BY <1>a, <3>2, SumSecondsType
    <3>4. total <= more
      BY <1>a, <3>1, <3>2, <3>3, SumSecondsGrow
    <3>5. DisplaySeconds(timer)' = IF more > 0 THEN more ELSE timer.remaining_seconds
      BY <1>c, <1>e, <2>1, <2>3, <3>3
    <3> QED  BY <1>a, <2>3, <3>1, <3>4, <3>5
  <2>4. CASE timer.running /\ timer.phase # "Stopwatch"
    <3>1. RemainingFromRuntime(timer)' <= RemainingFromRuntime(timer)
      BY <2>1, <2>4, CountdownRunsDown
    <3>2. DisplaySeconds(timer) = RemainingFromRuntime(timer)
      BY <2>4 DEF DisplaySeconds
    <3> QED  BY <1>f, <2>1, <2>4, <3>1, <3>2
  <2> QED  BY <2>2, <2>3, <2>4
<1>2. CASE Pause
  <2>1. timer'.remaining_seconds = DisplaySeconds(timer) /\ ~timer'.running
    BY <1>2, <1>a DEF Pause, TimerState
  <2>2. DisplaySeconds(timer)' = DisplaySeconds(timer)
    BY <1>d, <2>1
  <2> QED  BY <1>b, <2>2
<1>3. CASE Resume
  <2>1. /\ timer'.active_segments = Append(timer.active_segments, OpenSegment(wall))
        /\ wall' = wall /\ mono' = mono /\ timer'.running /\ ~timer.running
        /\ timer'.remaining_seconds = TimeOnResume(timer)
        /\ timer'.anchor = [mono |-> mono, value |-> TimeOnResume(timer)]
    BY <1>a, <1>3 DEF Resume, TimerState
  <2>2. DisplaySeconds(timer) = timer.remaining_seconds
    BY <2>1 DEF DisplaySeconds
  <2>3. CASE timer.phase = "Stopwatch"
    <3>1. PICK total \in Nat : /\ total = SumSeconds(timer.active_segments, wall)
                               /\ ActiveSeconds(timer) = total
                               /\ timer.remaining_seconds <= total
      BY <2>3, StopwatchShows DEF StopwatchInOrder
    <3>2. SumSeconds(timer'.active_segments, wall') = total
      BY <1>a, <2>1, <3>1, SumSecondsOfOpened
    <3>3. TimeOnResume(timer) = total
      BY <1>a, <2>3, <3>1 DEF TimeOnResume, Greater
    <3>4. DisplaySeconds(timer)' = total
      BY <1>c, <1>e, <2>1, <2>3, <3>1, <3>2, <3>3
    <3> QED  BY <1>a, <2>2, <2>3, <3>1, <3>4
  <2>4. CASE timer.phase # "Stopwatch"
    <3>1. PICK left \in Nat : left = timer.remaining_seconds /\ TimeOnResume(timer) = left
      BY <1>a, <2>4 DEF TimeOnResume
    <3>2. timer'.anchor # None
      <4>1. timer'.anchor \in RuntimeAnchor
        BY <1>a, <2>1, <3>1 DEF RuntimeAnchor
      <4> QED  BY <4>1, NoneAssumption
    <3>3. timer'.anchor.value = left /\ timer'.anchor.mono = mono
      BY <2>1, <3>1
    <3>4. RemainingFromRuntime(timer)' = Minus(left, Minus(mono, mono) \div Tps)
      <4>1. RemainingFromRuntime(timer)'
              = Minus(timer'.anchor.value, Minus(mono', timer'.anchor.mono) \div Tps)
        BY <3>2 DEF RemainingFromRuntime, Minus
      <4> QED  BY <2>1, <3>3, <4>1
    <3>5. Minus(mono, mono) = 0
      BY <1>a DEF Minus
    <3>6. 0 \div Tps \in Nat
      BY DivFacts, TimerAssumption
    <3>7. Minus(left, 0 \div Tps) <= left
      BY <3>6 DEF Minus
    <3> QED  BY <1>f, <2>1, <2>2, <2>4, <3>1, <3>4, <3>5, <3>7
  <2> QED  BY <2>3, <2>4
<1>4. CASE UNCHANGED vars
  <2>1. timer' = timer /\ wall' = wall /\ mono' = mono
    BY <1>4 DEF vars
  <2>2. DisplaySeconds(timer)' = DisplaySeconds(timer)
    <3>1. CASE ~timer.running
      BY <1>d, <2>1, <3>1 DEF DisplaySeconds
    <3>2. CASE timer.running /\ timer.phase = "Stopwatch"
      BY <1>c, <1>e, <2>1, <3>2, StopwatchShows DEF DisplaySeconds, ActiveSeconds, StudyPhases
    <3>3. CASE timer.running /\ timer.phase # "Stopwatch"
      BY <1>f, <2>1, <3>3 DEF DisplaySeconds, RemainingFromRuntime, SecondsUntil, Minus
    <3> QED  BY <3>1, <3>2, <3>3
  <2> QED  BY <1>b, <2>2
<1> QED  BY <1>1, <1>2, <1>3, <1>4, SamePhaseSteps

(* Through every pause, resume and tick of one block the countdown shown   *)
(* never goes up and the stopwatch never goes down, though display_seconds *)
(* is read from the field, the anchor or the segments in turn.             *)
THEOREM DisplayNeverTurnsBack == Spec => DisplayMonotone
<1>1. Spec => [](IInv /\ StopwatchInOrder)
  <2>1. Init => IInv /\ StopwatchInOrder
    BY InitIInv, StopwatchStarts
  <2>2. IInv /\ StopwatchInOrder /\ [Next]_vars => IInv' /\ StopwatchInOrder'
    BY StepIInv, StopwatchStays
  <2> QED  BY <2>1, <2>2, PTL DEF Spec
<1>2. IInv /\ StopwatchInOrder /\ [Next]_vars =>
        [timer.phase = timer'.phase /\ timer.phase # "Idle" =>
           IF timer.phase = "Stopwatch"
           THEN DisplaySeconds(timer)' >= DisplaySeconds(timer)
           ELSE DisplaySeconds(timer)' <= DisplaySeconds(timer)]_vars
  BY DisplayStep
<1> QED  BY <1>1, <1>2, PTL DEF Spec, DisplayMonotone
----------------------------------------------------------------------------
(* A countdown is worked to its end: what was worked before the deadline   *)
(* and what is left until it (what was worked and what is remembered, of a *)
(* paused one) never add up to less than the whole countdown.              *)

Whole == Tps * Greater(IdleSeconds(timer.config), 1)
WorkedBefore(end) == {t \in WorkedTicks : t < end}

CountsDown ==
    /\ timer.phase = "Idle" => timer.remaining_seconds = IdleSeconds(timer.config)
    /\ timer.phase \in {"Study", "Exam"} =>
         IF timer.running
         THEN Cardinality(WorkedBefore(timer.ends_at)) + Minus(timer.ends_at, wall)
                  >= Whole
         ELSE Cardinality(WorkedTicks) + Tps * timer.remaining_seconds >= Whole

LEMMA WorkedIsFinite ==
    ASSUME IInv
    PROVE  /\ IsFiniteSet(WorkedTicks) /\ Cardinality(WorkedTicks) \in Nat
           /\ wall \in Nat
           /\ \A t \in WorkedTicks : t \in Nat /\ t < wall
           /\ \A end : /\ IsFiniteSet(WorkedBefore(end))
                       /\ Cardinality(WorkedBefore(end)) \in Nat
                       /\ Cardinality(WorkedBefore(end)) <= Cardinality(WorkedTicks)
<1>1. timer.active_segments \in Seq(Segment) /\ wall \in Nat
  BY DEF IInv, TypeOK, TimerState
<1>2. \A t \in TicksOf(timer.active_segments, wall) : t \in Nat /\ t < wall
  <2> SUFFICES ASSUME NEW t \in TicksOf(timer.active_segments, wall)
               PROVE  t \in Nat /\ t < wall
    OBVIOUS
  <2>1. PICK i \in 1..Len(timer.active_segments) : Covers(timer.active_segments[i], t, wall)
    BY <1>1, TicksOfFacts
  <2>2. timer.active_segments[i] \in Segment /\ t \in Int
    BY <1>1, TicksOfFacts
  <2> QED  BY <2>1, <2>2, <1>1 DEF Covers, Segment
<1>3. \A t \in WorkedTicks : t \in Nat /\ t < wall
  BY <1>2 DEF WorkedTicks
<1>4. WorkedTicks \in SUBSET (0..wall)
  BY <1>1, <1>3
<1>5. IsFiniteSet(0..wall)
  BY <1>1, FS_Interval
<1>6. IsFiniteSet(WorkedTicks)
  BY <1>4, <1>5, FS_Subset
<1>7. \A end : WorkedBefore(end) \in SUBSET WorkedTicks
  BY DEF WorkedBefore
<1>8. \A end : /\ IsFiniteSet(WorkedBefore(end))
               /\ Cardinality(WorkedBefore(end)) <= Cardinality(WorkedTicks)
  BY <1>6, <1>7, FS_Subset
<1> QED  BY <1>1, <1>3, <1>6, <1>8, FS_CardinalityType

(* The remaining time kept at a pause is no less than what was left.       *)
LEMMA PauseGivesTime ==
    ASSUME IInv, timer.running, timer.phase \in {"Study", "Exam"}
    PROVE  /\ timer.ends_at \in Nat
           /\ DisplaySeconds(timer) \in Nat
           /\ Tps * DisplaySeconds(timer) >= Minus(timer.ends_at, wall)
<1>a. /\ wall \in Nat /\ mono \in Nat /\ Tps \in Nat \ {0}
      /\ timer.ends_at \in Nat \cup {None} /\ timer.anchor \in RuntimeAnchor \cup {None}
  BY TimerAssumption DEF IInv, TypeOK, TimerState
<1>1. timer.ends_at \in Nat /\ timer.ends_at # None
  BY <1>a DEF IInv, DeadlineSync, Countdowns
<1>2. PICK e \in Nat : e = timer.ends_at
  BY <1>1
<1>3. PICK d \in Nat : d = DisplaySeconds(timer)
  BY DisplayType DEF IInv
<1>4. d = RemainingFromRuntime(timer)
  BY <1>3 DEF DisplaySeconds
<1>5. Tps * d >= Minus(e, wall)
  <2>0. Tps * d \in Nat
    BY <1>a, <1>3, TimesNat
  <2>1. CASE e <= wall
    BY <2>0, <2>1 DEF Minus
  <2>2. CASE e > wall /\ timer.anchor = None
    <3>1. d = SecondsUntil(e, wall)
      BY <1>1, <1>2, <1>4, <2>2 DEF RemainingFromRuntime
    <3>2. d = (e - wall + Tps - 1) \div Tps
      BY <1>a, <2>2, <3>1 DEF SecondsUntil
    <3>3. e - wall + Tps - 1 \in Nat
      BY <1>a, <2>2
    <3>4. e - wall + Tps - 1 < Tps * d + Tps
      BY <3>2, <3>3, <1>a, DivFacts
    <3> QED  BY <1>a, <2>0, <2>2, <3>4 DEF Minus
  <2>3. CASE e > wall /\ timer.anchor # None
    <3>1. PICK v \in Nat, a \in Nat : v = timer.anchor.value /\ a = timer.anchor.mono
      BY <1>a, <2>3 DEF RuntimeAnchor
    <3>2. a <= mono /\ e + mono = wall + v * Tps + a
      BY <1>1, <1>2, <2>3, <3>1 DEF IInv, DeadlineSync
    <3>3. PICK m \in Nat : m = mono - a
      BY <1>a, <3>2
    <3>4. PICK q \in Nat : q = m \div Tps /\ Tps * q <= m
      BY <1>a, <3>3, DivFacts
    <3>5. d = Minus(v, q)
      <4>1. Minus(mono, a) = m
        BY <1>a, <3>2, <3>3 DEF Minus
      <4> QED  BY <1>4, <2>3, <3>1, <3>4, <4>1 DEF RemainingFromRuntime
    <3>6. v * Tps \in Nat /\ Tps * q \in Nat
      BY <1>a, TimesNat
    <3>7. e - wall = v * Tps - m
      BY <1>a, <3>2, <3>3, <3>6
    <3>8. Tps * d >= v * Tps - Tps * q
      <4>1. CASE v <= q
        <5>1. v * Tps <= Tps * q
          BY <1>a, <4>1
        <5> QED  BY <2>0, <3>6, <5>1
      <4>2. CASE ~(v <= q)
        <5>1. d = v - q
          BY <3>5, <4>2 DEF Minus
        <5>2. Tps * (v - q) = v * Tps - Tps * q
          BY <1>a
        <5> QED  BY <2>0, <3>6, <5>1, <5>2
      <4> QED  BY <4>1, <4>2
    <3> QED  BY <1>a, <2>0, <2>3, <3>4, <3>6, <3>7, <3>8 DEF Minus
  <2> QED  BY <1>a, <2>1, <2>2, <2>3
<1> QED  BY <1>1, <1>2, <1>3, <1>5

(* What a started or resumed countdown has to go.                          *)
LEMMA ResumedFor ==
    ASSUME NEW t \in Nat, NEW s \in Nat
    PROVE  /\ PlusSeconds(t, s) \in Nat /\ PlusSeconds(t, s) >= t
           /\ Minus(PlusSeconds(t, s), t) = Tps * s
<1>1. PICK x \in Nat : x = s * Tps /\ x = Tps * s
  <2>1. s * Tps \in Nat /\ s * Tps = Tps * s
    BY TimesNat, TimerAssumption
  <2> QED  BY <2>1
<1>2. PlusSeconds(t, s) = t + x
  BY <1>1 DEF PlusSeconds
<1> QED  BY <1>1, <1>2 DEF Minus

(* A block that expired was worked for the whole of its countdown.         *)
LEMMA ExpiredWasWhole ==
    ASSUME IInv, CountsDown, ObserveTime
    PROVE  FullCountdown'
<1>1. timer'.config = timer.config /\ wall' = wall
  <2>1. timer \in TimerState
    BY DEF IInv, TypeOK
  <2>2. ResetToIdle(timer).config = timer.config
    <3> DEFINE fresh == NewTimer(timer.config)
    <3>1. timer.config \in TimerConfig
      BY <2>1 DEF TimerState
    <3>2. fresh \in TimerState /\ fresh.config = timer.config
      BY <3>1, NewTimerType DEF NewTimer
    <3>3. ResetToIdle(timer) = [fresh EXCEPT !.last_alive_at = timer.last_alive_at]
      BY DEF ResetToIdle
    <3> HIDE DEF fresh
    <3> QED  BY <3>2, <3>3 DEF TimerState
  <2>3. \A start : StartBreak(timer, start).config = timer.config
    BY <2>1 DEF StartBreak, TimerState
  <2> QED  BY <2>2, <2>3 DEF ObserveTime
<1>2. CASE timer.phase = "Break"
  <2>1. range' = None
    BY <1>2 DEF ObserveTime, Emit
  <2> QED  BY <2>1 DEF FullCountdown
<1>3. CASE timer.phase # "Break"
  <2> DEFINE old == timer.active_segments
  <2>1. /\ timer.phase \in {"Study", "Exam"} /\ timer.running
    BY <1>3, ExpiredBlock, IInvIsSane DEF StudyPhases
  <2>2. PICK end \in Nat, closed \in Seq(ClosedSegment) :
           /\ end = timer.ends_at /\ end <= wall
           /\ closed # <<>> /\ Len(closed) = Len(old)
           /\ \A i \in 1..Len(closed) : /\ closed[i].started_at = old[i].started_at
                                        /\ closed[i].ended_at = EndOr(old[i], end)
                                        /\ closed[i].ended_at <= end
           /\ Emit(RangeOf(timer.phase, "CountdownElapsed", closed))
    BY <1>3, ExpiredBlock, IInvIsSane
  <2>3. range' = [phase |-> timer.phase, reason |-> "CountdownElapsed",
                  segments |-> closed]
    BY <2>2 DEF Emit, RangeOf
  <2>4. range'.segments = closed
    BY <2>3
  <2>5. old \in Seq(Segment) /\ wall \in Nat /\ closed \in Seq(Segment)
    <3>1. ClosedSegment \subseteq Segment
      BY DEF ClosedSegment, Segment
    <3> QED  BY <2>2, <3>1 DEF IInv, TypeOK, TimerState
  <2>6. WorkedBefore(end) \subseteq TicksOf(closed, wall)
    <3> SUFFICES ASSUME NEW t \in WorkedBefore(end)  PROVE t \in TicksOf(closed, wall)
      OBVIOUS
    <3>1. t \in TicksOf(old, wall) /\ t < end
      BY <2>1 DEF WorkedBefore, WorkedTicks, StudyPhases
    <3>2. PICK i \in 1..Len(old) : t \in Int /\ Covers(old[i], t, wall)
      BY <2>5, <3>1, TicksOfFacts
    <3>3. /\ closed[i].started_at = old[i].started_at
          /\ closed[i].ended_at = EndOr(old[i], end)
      BY <2>2, <3>2
    <3>4. closed[i].ended_at \in Nat
      <4>1. closed[i] \in ClosedSegment
        BY <2>2, <3>2
      <4> QED  BY <4>1 DEF ClosedSegment
    <3>5. EndOr(closed[i], wall) = EndOr(old[i], end)
      BY <3>3, <3>4, TimerAssumption DEF EndOr, IsOpen
    <3>6. t < EndOr(old[i], end)
      BY <3>1, <3>2 DEF Covers, EndOr
    <3>7. Covers(closed[i], t, wall)
      BY <3>2, <3>3, <3>5, <3>6 DEF Covers
    <3> QED  BY <2>2, <2>5, <3>2, <3>7, TicksOfFacts
  <2>7. IsFiniteSet(TicksOf(closed, wall)) /\ Cardinality(TicksOf(closed, wall)) \in Nat
    <3>1. \A t \in TicksOf(closed, wall) : t \in 0..wall
      <4> SUFFICES ASSUME NEW t \in TicksOf(closed, wall)  PROVE t \in 0..wall
        OBVIOUS
      <4>1. PICK i \in 1..Len(closed) : t \in Int /\ Covers(closed[i], t, wall)
        BY <2>5, TicksOfFacts
      <4>2. closed[i] \in Segment
        BY <2>5
      <4> QED  BY <2>5, <4>1, <4>2 DEF Covers, Segment
    <3>2. TicksOf(closed, wall) \in SUBSET (0..wall) /\ IsFiniteSet(0..wall)
      BY <2>5, <3>1, FS_Interval
    <3> QED  BY <3>2, FS_Subset, FS_CardinalityType
  <2>8. Cardinality(WorkedBefore(end)) <= Cardinality(TicksOf(closed, wall))
    BY <2>6, <2>7, FS_Subset
  <2>9. Cardinality(WorkedBefore(end)) >= Whole
    <3>1. Minus(end, wall) = 0
      BY <2>2, <2>5 DEF Minus
    <3>2. Cardinality(WorkedBefore(end)) + 0 >= Whole
      BY <2>1, <2>2, <3>1 DEF CountsDown
    <3>3. Cardinality(WorkedBefore(end)) \in Nat
      BY WorkedIsFinite
    <3> QED  BY <3>2, <3>3
  <2>10. Whole \in Nat
    <3>1. timer.config \in TimerConfig
      BY DEF IInv, TypeOK, TimerState
    <3>2. Greater(IdleSeconds(timer.config), 1) \in Nat
      BY <3>1, IdleSecondsType DEF Greater
    <3> QED  BY <3>2, TimesNat, TimerAssumption DEF Whole
  <2>11. Cardinality(TicksOf(closed, wall)) >= Whole
    BY <2>7, <2>8, <2>9, <2>10, WorkedIsFinite
  <2>12. Cardinality(TicksOf(range.segments, wall))'
           = Cardinality(TicksOf(closed, wall))
    BY <1>1, <2>4 DEF TicksOf, Ticks, EndOr, IsOpen
  <2>13. (Tps * Greater(IdleSeconds(timer.config), 1))' = Whole
    BY <1>1 DEF Whole, Greater, IdleSeconds
  <2> QED  BY <2>11, <2>12, <2>13 DEF FullCountdown
<1> QED  BY <1>2, <1>3

LEMMA CountsDownStarts == Init => CountsDown
<1> SUFFICES ASSUME Init PROVE CountsDown
  OBVIOUS
<1>1. PICK c \in Configs : timer = NewTimer(c)
  BY DEF Init
<1>2. timer.phase = "Idle" /\ timer.remaining_seconds = IdleSeconds(timer.config)
  BY <1>1 DEF NewTimer
<1> QED  BY <1>2 DEF CountsDown

(* A timer back at idle shows the time its preset gives.                   *)
LEMMA IdleShowsThePreset ==
    ASSUME timer \in TimerState, timer' = ResetToIdle(timer)
    PROVE  CountsDown'
<1> DEFINE fresh == NewTimer(timer.config)
<1>1. timer.config \in TimerConfig
  BY DEF TimerState
<1>2. /\ fresh \in TimerState /\ fresh.config = timer.config
      /\ fresh.phase = "Idle" /\ fresh.remaining_seconds = IdleSeconds(timer.config)
  BY <1>1, NewTimerType DEF NewTimer
<1>3. timer' = [fresh EXCEPT !.last_alive_at = timer.last_alive_at]
  BY DEF ResetToIdle
<1> HIDE DEF fresh
<1>4. /\ timer'.config = timer.config /\ timer'.phase = "Idle"
      /\ timer'.remaining_seconds = IdleSeconds(timer.config)
  BY <1>2, <1>3 DEF TimerState
<1> QED  BY <1>4 DEF CountsDown, IdleSeconds

(* Work that begins or resumes has its whole rest before its deadline.     *)
LEMMA BeginsWhole ==
    ASSUME IInv, WorkedTicks' = WorkedTicks, wall' = wall, timer'.running,
           timer'.config = timer.config, timer'.phase # "Idle",
           timer'.phase # "Stopwatch", NEW s \in Nat,
           timer'.ends_at = PlusSeconds(wall, s),
           Cardinality(WorkedTicks) + Tps * s >= Whole
    PROVE  CountsDown'
<1>1. wall \in Nat /\ Cardinality(WorkedTicks) \in Nat
  BY WorkedIsFinite
<1>2. /\ timer'.ends_at \in Nat /\ timer'.ends_at >= wall
      /\ Minus(timer'.ends_at, wall) = Tps * s
  BY <1>1, ResumedFor
<1>3. WorkedBefore(timer.ends_at)' = WorkedTicks
  <2>1. \A t \in WorkedTicks : t \in Nat /\ t < wall
    BY WorkedIsFinite
  <2>2. \A t \in WorkedTicks : t < timer'.ends_at
    BY <1>1, <1>2, <2>1
  <2>3. WorkedBefore(timer.ends_at)' = {t \in WorkedTicks : t < timer'.ends_at}
    BY DEF WorkedBefore
  <2> QED  BY <2>2, <2>3
<1>4. Whole' = Whole
  BY DEF Whole, Greater, IdleSeconds
<1>5. Cardinality(WorkedBefore(timer.ends_at))' + Minus(timer.ends_at, wall)' >= Whole'
  <2>1. Minus(timer.ends_at, wall)' = Minus(timer'.ends_at, wall)
    BY DEF Minus
  <2> QED  BY <1>2, <1>3, <1>4, <2>1
<1> QED  BY <1>5 DEF CountsDown

LEMMA CountsDownStep ==
    ASSUME IInv, CountsDown, [Next]_vars
    PROVE  CountsDown'
<1>a. /\ timer \in TimerState /\ wall \in Nat /\ timer.phase \in Phases
      /\ timer.config \in TimerConfig /\ timer.remaining_seconds \in Nat
      /\ Cardinality(WorkedTicks) \in Nat
  BY WorkedIsFinite DEF IInv, TypeOK, TimerState
<1>w. Whole \in Nat
  <2>1. Greater(IdleSeconds(timer.config), 1) \in Nat
    BY <1>a, IdleSecondsType DEF Greater
  <2> QED  BY <2>1, TimesNat, TimerAssumption DEF Whole
<1>1. CASE Tick
  <2>1. timer' = timer /\ wall' = wall + 1
    BY <1>1 DEF Tick
  <2>2. WorkedTicks' = IF AtWork THEN WorkedTicks \cup {wall} ELSE WorkedTicks
    BY <2>1, TickIsWorked, IInvIsSane
  <2>3. Whole' = Whole
    BY <2>1 DEF Whole, Greater, IdleSeconds
  <2>4. CASE ~AtWork
    <3>1. timer.phase \in {"Study", "Exam"} => ~timer.running
      BY <2>4 DEF AtWork, StudyPhases
    <3>2. CountsDown' <=>
            /\ timer.phase = "Idle" => timer.remaining_seconds = IdleSeconds(timer.config)
            /\ timer.phase \in {"Study", "Exam"} =>
                 Cardinality(WorkedTicks)' + Tps * timer.remaining_seconds >= Whole'
      BY <2>1, <3>1 DEF CountsDown, IdleSeconds
    <3>3. Cardinality(WorkedTicks)' = Cardinality(WorkedTicks)
      BY <2>2, <2>4
    <3> QED  BY <2>3, <3>1, <3>2, <3>3 DEF CountsDown
  <2>5. CASE AtWork /\ timer.phase \notin {"Study", "Exam"}
    BY <2>1, <2>5 DEF CountsDown, AtWork, StudyPhases
  <2>6. CASE AtWork /\ timer.phase \in {"Study", "Exam"}
    <3>1. timer.running /\ timer.ends_at \in Nat
      BY <2>6, PauseGivesTime DEF AtWork
    <3>2. PICK e \in Nat : e = timer.ends_at
      BY <3>1
    <3>3. /\ Cardinality(WorkedBefore(e)) + Minus(e, wall) >= Whole
          /\ Cardinality(WorkedBefore(e)) \in Nat /\ IsFiniteSet(WorkedBefore(e))
      BY <2>6, <3>1, <3>2, WorkedIsFinite DEF CountsDown
    <3>4. WorkedBefore(timer.ends_at)'
            = IF wall < e THEN WorkedBefore(e) \cup {wall} ELSE WorkedBefore(e)
      <4>1. WorkedBefore(timer.ends_at)' = {t \in WorkedTicks \cup {wall} : t < e}
        BY <2>1, <2>2, <2>6, <3>2 DEF WorkedBefore
      <4> QED  BY <4>1 DEF WorkedBefore
    <3>5. wall \notin WorkedBefore(e)
      BY <1>a, WorkedIsFinite DEF WorkedBefore
    <3>6. Cardinality(WorkedBefore(timer.ends_at)')
            = IF wall < e THEN Cardinality(WorkedBefore(e)) + 1
              ELSE Cardinality(WorkedBefore(e))
      BY <3>3, <3>4, <3>5, FS_AddElement
    <3>7. Minus(e, wall) = IF wall < e THEN Minus(e, wall + 1) + 1
                           ELSE Minus(e, wall + 1)
      BY <1>a DEF Minus
    <3>8. Minus(e, wall + 1) \in Nat
      BY <1>a DEF Minus
    <3>9. Cardinality(WorkedBefore(timer.ends_at)') + Minus(e, wall + 1) >= Whole
      BY <1>a, <1>w, <3>3, <3>6, <3>7, <3>8
    <3>10. Minus(timer.ends_at, wall)' = Minus(e, wall + 1)
      BY <2>1, <3>2 DEF Minus
    <3> QED  BY <2>1, <2>3, <2>6, <3>1, <3>9, <3>10 DEF CountsDown
  <2> QED  BY <2>4, <2>5, <2>6
<1>2. CASE Start
  <2> DEFINE total == Greater(timer.remaining_seconds, 1)
  <2>1. /\ timer.phase = "Idle" /\ timer'.running /\ timer'.config = timer.config
        /\ timer'.phase = PhaseOfMode(timer.config.mode) /\ wall' = wall
        /\ timer.config.mode # "Endless" => timer'.ends_at = PlusSeconds(wall, total)
    BY <1>2, <1>a DEF Start, TimerState
  <2>2. WorkedTicks' = WorkedTicks
    BY <1>2, StartIsWork DEF Ledger!Work
  <2>3. CASE timer.config.mode = "Endless"
    <3>1. timer'.phase = "Stopwatch"
      BY <2>1, <2>3 DEF PhaseOfMode
    <3> QED  BY <3>1 DEF CountsDown
  <2>4. CASE timer.config.mode # "Endless"
    <3>1. timer'.phase # "Idle" /\ timer'.phase # "Stopwatch"
      BY <1>a, <2>1, <2>4 DEF PhaseOfMode, TimerConfig, Modes
    <3>2. total \in Nat /\ Whole = Tps * total
      BY <1>a, <2>1 DEF CountsDown, Whole, Greater
    <3>3. timer'.ends_at = PlusSeconds(wall, total)
      BY <2>1, <2>4
    <3> HIDE DEF total
    <3>4. Cardinality(WorkedTicks) + Tps * total >= Whole
      BY <1>a, <1>w, <3>2
    <3> QED  BY <2>1, <2>2, <3>1, <3>2, <3>3, <3>4, BeginsWhole
  <2> QED  BY <2>3, <2>4
<1>3. CASE Pause
  <2>1. /\ timer.running /\ timer.phase # "Idle" /\ timer'.running = FALSE
        /\ timer'.phase = timer.phase /\ timer'.config = timer.config
        /\ timer'.remaining_seconds = DisplaySeconds(timer) /\ wall' = wall
    BY <1>3, <1>a DEF Pause, TimerState
  <2>2. WorkedTicks' = WorkedTicks
    BY <1>3, PauseIsHold DEF Ledger!Hold, Ledger!Aside
  <2>3. Whole' = Whole
    BY <2>1 DEF Whole, Greater, IdleSeconds
  <2>4. CASE timer.phase \notin {"Study", "Exam"}
    BY <2>1, <2>4 DEF CountsDown
  <2>5. CASE timer.phase \in {"Study", "Exam"}
    <3>1. PICK d \in Nat, e \in Nat :
             /\ d = DisplaySeconds(timer) /\ e = timer.ends_at
             /\ Tps * d >= Minus(e, wall)
      BY <2>1, <2>5, PauseGivesTime
    <3>2. /\ Cardinality(WorkedBefore(e)) + Minus(e, wall) >= Whole
          /\ Cardinality(WorkedBefore(e)) \in Nat
          /\ Cardinality(WorkedBefore(e)) <= Cardinality(WorkedTicks)
      BY <2>1, <2>5, <3>1, WorkedIsFinite DEF CountsDown
    <3>3. Minus(e, wall) \in Nat /\ Tps * d \in Nat
      BY <1>a, TimesNat, TimerAssumption DEF Minus
    <3>4. Cardinality(WorkedTicks) + Tps * d >= Whole
      BY <1>a, <1>w, <3>1, <3>2, <3>3
    <3>5. Cardinality(WorkedTicks)' + Tps * timer'.remaining_seconds >= Whole'
      BY <2>1, <2>2, <2>3, <3>1, <3>4
    <3> QED  BY <2>1, <2>5, <3>5 DEF CountsDown
  <2> QED  BY <2>4, <2>5
<1>4. CASE Resume
  <2>1. /\ ~timer.running /\ timer.phase # "Idle" /\ timer'.running = TRUE
        /\ timer'.phase = timer.phase /\ timer'.config = timer.config /\ wall' = wall
        /\ timer.phase # "Stopwatch" =>
             timer'.ends_at = PlusSeconds(wall, timer.remaining_seconds)
    BY <1>4, <1>a DEF Resume, TimeOnResume, TimerState
  <2>2. WorkedTicks' = WorkedTicks
    BY <1>4, ResumeIsWork DEF Ledger!Work, Ledger!Aside
  <2>3. CASE timer.phase \notin {"Study", "Exam"}
    BY <2>1, <2>3 DEF CountsDown
  <2>4. CASE timer.phase \in {"Study", "Exam"}
    <3>1. Cardinality(WorkedTicks) + Tps * timer.remaining_seconds >= Whole
      BY <2>1, <2>4 DEF CountsDown
    <3> QED  BY <1>a, <2>1, <2>2, <2>4, <3>1, BeginsWhole
  <2> QED  BY <2>3, <2>4
<1>5. CASE Reset
  BY <1>5, <1>a, IdleShowsThePreset DEF Reset
<1>6. CASE CompleteManually
  BY <1>6, <1>a, IdleShowsThePreset DEF CompleteManually
<1>7. CASE ObserveTime
  <2>1. CASE timer' = ResetToIdle(timer)
    BY <1>a, <2>1, IdleShowsThePreset
  <2>2. CASE \E start : timer' = StartBreak(timer, start)
    <3>1. timer'.phase = "Break"
      BY <1>a, <2>2 DEF StartBreak, TimerState
    <3> QED  BY <3>1 DEF CountsDown
  <2> QED  BY <1>7, <2>1, <2>2 DEF ObserveTime
<1>8. CASE \E m \in Modes : SetMode(m)
  <2>1. PICK m \in Modes : SetMode(m)
    BY <1>8
  <2>2. /\ timer'.phase = "Idle"
        /\ timer'.config = [timer.config EXCEPT !.mode = m]
        /\ timer'.remaining_seconds = IdleSeconds([timer.config EXCEPT !.mode = m])
    BY <2>1, <1>a DEF SetMode, TimerState
  <2>3. timer'.remaining_seconds = IdleSeconds(timer.config)'
    BY <2>2 DEF IdleSeconds
  <2> QED  BY <2>2, <2>3 DEF CountsDown
<1>9. CASE UNCHANGED vars
  <2>1. timer' = timer /\ wall' = wall
    BY <1>9 DEF vars
  <2>2. WorkedTicks' = WorkedTicks
    BY <2>1 DEF WorkedTicks, TicksOf, Ticks, EndOr, IsOpen
  <2>3. Whole' = Whole
    BY <2>1 DEF Whole, Greater, IdleSeconds
  <2>4. WorkedBefore(timer.ends_at)' = WorkedBefore(timer.ends_at)
    BY <2>1, <2>2 DEF WorkedBefore
  <2> QED  BY <2>1, <2>2, <2>3, <2>4 DEF CountsDown, Minus, IdleSeconds
<1> QED  BY <1>1, <1>2, <1>3, <1>4, <1>5, <1>6, <1>7, <1>8, <1>9 DEF Next, Command

(* Only an expiry hands over a range that says it ran to its end.          *)
LEMMA FullCountdownStep ==
    ASSUME IInv, CountsDown, FullCountdown, [Next]_vars
    PROVE  FullCountdown'
<1>1. CASE ObserveTime
  BY <1>1, ExpiredWasWhole
<1>2. CASE CompleteManually
  <2> DEFINE segs == IF timer.running
                     THEN CloseOpenSegments(timer.active_segments, wall)
                     ELSE timer.active_segments
             r == RangeOf(timer.phase, "ManualSave", ClosedSegments(segs))
  <2>1. range' = r
    BY <1>2 DEF CompleteManually, Emit
  <2>2. r = None \/ r.reason = "ManualSave"
    BY DEF RangeOf
  <2> HIDE DEF r
  <2> QED  BY <2>1, <2>2 DEF FullCountdown
<1>3. CASE Tick \/ Start \/ Pause \/ Resume \/ Reset \/ \E m \in Modes : SetMode(m)
  <2>1. range' = None
    BY <1>3 DEF Tick, Start, Pause, Resume, Reset, SetMode, Emit
  <2> QED  BY <2>1 DEF FullCountdown
<1>4. CASE UNCHANGED vars
  <2>1. timer' = timer /\ wall' = wall /\ range' = range
    BY <1>4 DEF vars
  <2>2. TicksOf(range.segments, wall)' = TicksOf(range.segments, wall)
    BY <2>1 DEF TicksOf, Ticks, EndOr, IsOpen
  <2>3. Greater(IdleSeconds(timer.config), 1)' = Greater(IdleSeconds(timer.config), 1)
    BY <2>1 DEF Greater, IdleSeconds
  <2>4. Cardinality(TicksOf(range.segments, wall))'
          = Cardinality(TicksOf(range.segments, wall))
    BY <2>2
  <2> QED  BY <2>1, <2>3, <2>4 DEF FullCountdown
<1> QED  BY <1>1, <1>2, <1>3, <1>4 DEF Next, Command

(* A countdown that runs out was worked to the last tick, however often it *)
(* was paused and however its remaining time was rounded.                  *)
THEOREM CountdownsAreWorkedOut == Spec => []FullCountdown
<1>1. Init => FullCountdown
  BY DEF Init, FullCountdown
<1> QED  BY <1>1, CountsDownStarts, CountsDownStep, FullCountdownStep, SpecIInv, PTL DEF Spec
=============================================================================
