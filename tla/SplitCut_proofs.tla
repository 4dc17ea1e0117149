--------------------------- MODULE SplitCut_proofs ---------------------------
(***************************************************************************)
(* Where a split cuts, for boxes of any size in any number of dimensions,  *)
(* any number of buckets and any finite number of entities.  The zone's    *)
(* bucket and the head's endOfBucket are exact inverses, the running sum   *)
(* over a histogram counts the people below a boundary, so that each of    *)
(* the three tiers chooses a cut that gives every chunk to a side; and as  *)
(* long as no bucket holds two chunks, the boundaries are all the cuts     *)
(* there are, and no cut divides the people more evenly.                   *)
(***************************************************************************)
EXTENDS SplitCut, WellFoundedInduction, FiniteSetTheorems, TLAPS

-----------------------------------------------------------------------------
(* Cutting a box *)

(* A box resized on an axis is a box. *)
LEMMA ResizeType ==
    ASSUME NEW b \in Box, NEW a \in Axes, NEW i \in Interval
    PROVE  Resize(b, a, i) \in Box
  BY DEF Resize, Box

(* The cuts of a box, geometric or from the population, are cuts. *)
LEMMA CutsType ==
    ASSUME NEW b \in Box
    PROVE  PopulationCuts(b) \cup GeometricCuts(b) \subseteq Cut
  <1>1. PopulationCuts(b) \subseteq Cut
    BY DEF PopulationCuts, Cut, Box, Interval
  <1>2. ASSUME NEW a \in LongestAxes(b)
        PROVE  Half(b[a].lo + b[a].hi) \in Int /\ Half(b[a].lo + b[a].hi + 1) \in Int
    <2>1. \A n \in Int : Half(n) \in Int
      BY DEF Half
    <2>2. a \in Axes /\ b[a].lo \in Int /\ b[a].hi \in Int
      BY DEF LongestAxes, Box, Interval
    <2> QED BY <2>1, <2>2
  <1>3. GeometricCuts(b) \subseteq Cut
    BY <1>2 DEF GeometricCuts, Cut, LongestAxes
  <1> QED BY <1>1, <1>3

(* The parts of a zone cut by its population are not inverted.             *)
LEMMA ProperParts ==
    ASSUME NEW b \in ProperBox
    PROVE  \A k \in PopulationCuts(b) : ParentBox(b, k) \in ProperBox /\ ChildBox(b, k) \in ProperBox
  <1>1. b \in Box /\ \A a \in Axes : b[a] \in Interval /\ b[a].lo <= b[a].hi
    BY DEF ProperBox, Box
  <1>2. ASSUME NEW a \in Axes, NEW i \in Interval, i.lo <= i.hi
        PROVE  Resize(b, a, i) \in ProperBox
    <2>1. Resize(b, a, i) \in Box
      BY <1>1, ResizeType
    <2>2. \A o \in Axes : Resize(b, a, i)[o] = IF o = a THEN i ELSE b[o]
      BY <1>1 DEF Resize, Box
    <2> QED BY <1>1, <1>2, <2>1, <2>2 DEF ProperBox
  <1>3. ASSUME NEW k \in PopulationCuts(b)
        PROVE  ParentBox(b, k) \in ProperBox /\ ChildBox(b, k) \in ProperBox
    <2>1. k.axis \in Axes /\ k.low \in Int /\ k.high \in Int
      BY <1>1, CutsType DEF Cut
    <2>2. b[k.axis].lo <= k.low /\ k.low < b[k.axis].hi /\ k.high = k.low + 1
      BY DEF PopulationCuts
    <2>3. PICK i, j : i = [lo |-> b[k.axis].lo, hi |-> k.low] /\ j = [lo |-> k.high, hi |-> b[k.axis].hi]
      OBVIOUS
    <2>4. b[k.axis].lo \in Int /\ b[k.axis].hi \in Int
      BY <1>1, <2>1 DEF Interval
    <2>5. i \in Interval /\ i.lo <= i.hi /\ j \in Interval /\ j.lo <= j.hi
      BY <2>1, <2>2, <2>3, <2>4 DEF Interval
    <2> QED BY <1>2, <2>1, <2>3, <2>5 DEF ParentBox, ChildBox
  <1> QED BY <1>3

(* trySplitDown with a cut from the population: every chunk of the zone    *)
(* goes to the parent or to the child, none to both, and neither gets a    *)
(* chunk the zone did not have.                                            *)
THEOREM PopulationCutPartitions ==
    ASSUME NEW b \in ProperBox, NEW k \in PopulationCuts(b), NEW c \in Chunk
    PROVE  /\ Covers(b, c) <=> Covers(ParentBox(b, k), c) \/ Covers(ChildBox(b, k), c)
           /\ ~(Covers(ParentBox(b, k), c) /\ Covers(ChildBox(b, k), c))
  <1> DEFINE a == k.axis
             p == ParentBox(b, k)
             d == ChildBox(b, k)
  <1>1. b \in Box /\ a \in Axes /\ k.low \in Int /\ k.high = k.low + 1
    BY CutsType DEF PopulationCuts, Cut, ProperBox
  <1>2. /\ b[a].lo \in Int /\ b[a].hi \in Int /\ c[a] \in Int
        /\ b[a].lo <= k.low /\ k.low < b[a].hi
    BY <1>1 DEF Box, Interval, Chunk, PopulationCuts
  <1>3. /\ \A o \in Axes \ {a} : p[o] = b[o] /\ d[o] = b[o]
        /\ p[a] = [lo |-> b[a].lo, hi |-> k.low]
        /\ d[a] = [lo |-> k.high, hi |-> b[a].hi]
    BY <1>1 DEF ParentBox, ChildBox, Resize, Box
  <1> DEFINE others == \A o \in Axes \ {a} : b[o].lo <= c[o] /\ c[o] <= b[o].hi
  <1>4. Covers(b, c) <=> b[a].lo <= c[a] /\ c[a] <= b[a].hi /\ others
    BY <1>1 DEF Covers
  <1>5. Covers(p, c) <=> b[a].lo <= c[a] /\ c[a] <= k.low /\ others
    BY <1>1, <1>3 DEF Covers
  <1>6. Covers(d, c) <=> k.low + 1 <= c[a] /\ c[a] <= b[a].hi /\ others
    BY <1>1, <1>3 DEF Covers
  <1>7. /\ (b[a].lo <= c[a] /\ c[a] <= b[a].hi)
               <=> \/ b[a].lo <= c[a] /\ c[a] <= k.low
                   \/ k.low + 1 <= c[a] /\ c[a] <= b[a].hi
        /\ ~(c[a] <= k.low /\ k.low + 1 <= c[a])
    BY <1>1, <1>2
  <1> HIDE DEF others
  <1> QED BY <1>4, <1>5, <1>6, <1>7

(* trySplitDown down the geometric middle: a zone of more than one chunk   *)
(* is cut into two boxes that are not inverted, that leave no chunk of the *)
(* zone out and reach no chunk beyond it, and that share at most the plane *)
(* of chunks where the cut rounds.                                         *)
THEOREM GeometricCutCovers ==
    ASSUME NEW b \in ProperBox, NEW k \in GeometricCuts(b), \E a \in Axes : Width(b, a) >= 1
    PROVE  /\ ParentBox(b, k) \in ProperBox /\ ChildBox(b, k) \in ProperBox
           /\ \A c \in Chunk :
                /\ Covers(b, c) <=> Covers(ParentBox(b, k), c) \/ Covers(ChildBox(b, k), c)
                /\ Covers(ParentBox(b, k), c) /\ Covers(ChildBox(b, k), c) => c[k.axis] = k.low
  <1>1. b \in Box /\ \A o \in Axes : b[o].lo \in Int /\ b[o].hi \in Int /\ b[o].lo <= b[o].hi
    BY DEF ProperBox, Box, Interval
  <1>2. PICK a \in LongestAxes(b) : k = [axis |-> a, low |-> Half(b[a].lo + b[a].hi),
                                         high |-> Half(b[a].lo + b[a].hi + 1)]
    BY DEF GeometricCuts
  (* The longest axis has at least two chunks. *)
  <1>3. a \in Axes /\ b[a].lo < b[a].hi
    <2>1. PICK w \in Axes : Width(b, w) >= 1
      OBVIOUS
    <2>2. a \in Axes /\ (Width(b, w) < Width(b, a) \/ Width(b, w) = Width(b, a))
      BY <1>2 DEF LongestAxes
    <2> QED BY <1>1, <2>1, <2>2 DEF Width
  <1>4. PICK x, y, l, h : x = b[a].lo /\ y = b[a].hi /\ l = k.low /\ h = k.high
    OBVIOUS
  (* Rounding towards zero keeps both ends inside and leaves no gap. *)
  <1>5. /\ l \in Int /\ h \in Int /\ x \in Int /\ y \in Int
        /\ x <= l /\ l <= y /\ x <= h /\ h <= y
        /\ h = l \/ h = l + 1
    <2>1. x \in Int /\ y \in Int /\ x < y /\ l = Half(x + y) /\ h = Half(x + y + 1)
      BY <1>1, <1>2, <1>3, <1>4
    <2> QED BY <2>1 DEF Half
  <1>6. /\ ParentBox(b, k) = [b EXCEPT ![a] = [lo |-> x, hi |-> l]]
        /\ ChildBox(b, k) = [b EXCEPT ![a] = [lo |-> h, hi |-> y]]
        /\ k.axis = a
    BY <1>2, <1>4 DEF ParentBox, ChildBox, Resize
  <1>7. PICK p, d : p = ParentBox(b, k) /\ d = ChildBox(b, k)
    OBVIOUS
  <1>8. /\ p \in Box /\ d \in Box
        /\ p[a].lo = x /\ p[a].hi = l /\ d[a].lo = h /\ d[a].hi = y
        /\ \A o \in Axes \ {a} : p[o] = b[o] /\ d[o] = b[o]
    <2>1. [lo |-> x, hi |-> l] \in Interval /\ [lo |-> h, hi |-> y] \in Interval
      BY <1>5 DEF Interval
    <2> QED BY <1>1, <1>3, <1>6, <1>7, <2>1 DEF Box
  <1>9. p \in ProperBox /\ d \in ProperBox
    BY <1>1, <1>5, <1>8 DEF ProperBox
  <1>10. ASSUME NEW c \in Chunk
         PROVE  /\ Covers(b, c) <=> Covers(p, c) \/ Covers(d, c)
                /\ Covers(p, c) /\ Covers(d, c) => c[a] = l
    <2> DEFINE others == \A o \in Axes \ {a} : b[o].lo <= c[o] /\ c[o] <= b[o].hi
    <2>1. PICK v : v = c[a]
      OBVIOUS
    <2>2. v \in Int
      BY <1>3, <2>1 DEF Chunk
    <2>3. /\ Covers(b, c) <=> x <= v /\ v <= y /\ others
          /\ Covers(p, c) <=> x <= v /\ v <= l /\ others
          /\ Covers(d, c) <=> h <= v /\ v <= y /\ others
      BY <1>3, <1>4, <1>8, <2>1 DEF Covers
    <2>4. /\ (x <= v /\ v <= y) <=> (x <= v /\ v <= l) \/ (h <= v /\ v <= y)
          /\ (v <= l /\ h <= v) => v = l
      BY <1>5, <2>2
    <2> HIDE DEF others
    <2> QED BY <2>1, <2>3, <2>4
  <1> QED BY <1>4, <1>6, <1>7, <1>9, <1>10

-----------------------------------------------------------------------------
(* Running sums *)

(* A set of natural numbers that is not empty has a least element. *)
LEMMA LeastNatural ==
    ASSUME NEW T \in SUBSET Nat, T # {}
    PROVE  \E x \in T : \A y \in T : x <= y
  <1>1. PICK R : R = OpToRel(<, Nat)
    OBVIOUS
  <1>2. IsWellFoundedOn(R, Nat)
    BY <1>1, NatLessThanWellFounded
  <1>3. PICK x \in T : \A y \in T : ~(<<y, x>> \in R)
    BY <1>2, WFMin
  <1>4. \A y \in Nat : y < x => <<y, x>> \in R
    BY <1>1 DEF OpToRel
  <1>5. ASSUME NEW y \in T PROVE x <= y
    <2>1. x \in Nat /\ y \in Nat /\ ~(y < x)
      BY <1>3, <1>4
    <2> QED BY <2>1
  <1> QED BY <1>5

(* f is the running sum of h over the buckets 0..n. *)
Running(h, n, f) ==
    /\ f \in [0..n -> Nat]
    /\ \A k \in 0..n : f[k] = IF k = 0 THEN h[0] ELSE f[k - 1] + h[k]

(* A running sum of naturals exists, up to any bucket. *)
LEMMA RunningSum ==
    ASSUME NEW N \in Nat, NEW h \in [0..N -> Nat]
    PROVE  \E f : Running(h, N, f)
  <1>1. PICK T : T = {n \in Nat : n <= N /\ ~\E f : Running(h, n, f)}
    OBVIOUS
  <1>2. ASSUME T # {} PROVE FALSE
    <2>1. PICK n \in T : \A m \in T : n <= m
      BY <1>1, <1>2, LeastNatural
    <2>2. n \in Nat /\ n <= N /\ ~\E f : Running(h, n, f)
      BY <1>1
    <2>3. CASE n = 0
      <3>1. Running(h, 0, [k \in 0..0 |-> h[0]])
        BY DEF Running
      <3> QED BY <2>2, <2>3, <3>1
    <2>4. CASE n # 0
      <3>1. n - 1 \in Nat /\ n - 1 \notin T
        BY <2>1, <2>2, <2>4
      <3>2. PICK f : Running(h, n - 1, f)
        BY <1>1, <2>2, <3>1
      <3>3. PICK g : g = [k \in 0..n |-> IF k = n THEN f[n - 1] + h[n] ELSE f[k]]
        OBVIOUS
      <3>4. g \in [0..n -> Nat]
        BY <2>2, <2>4, <3>2, <3>3 DEF Running
      <3>5. ASSUME NEW k \in 0..n
            PROVE  g[k] = IF k = 0 THEN h[0] ELSE g[k - 1] + h[k]
        BY <2>2, <2>4, <3>2, <3>3 DEF Running
      <3> QED BY <2>2, <3>4, <3>5 DEF Running
    <2> QED BY <2>3, <2>4
  <1> QED BY <1>1, <1>2

(* cum is the running sum. *)
LEMMA UpToUnfolds ==
    ASSUME NEW h \in [0..Buckets - 1 -> Nat]
    PROVE  \A k \in 0..Buckets - 1 :
              /\ UpTo(h, k) \in Nat
              /\ UpTo(h, k) = IF k = 0 THEN h[0] ELSE UpTo(h, k - 1) + h[k]
  <1> DEFINE Eqn(c) == c = [b \in 0..Buckets - 1 |-> IF b = 0 THEN h[0] ELSE c[b - 1] + h[b]]
             cum == CHOOSE c : Eqn(c)
  <1>1. Buckets - 1 \in Nat
    BY BucketsAssumption
  <1>2. PICK f : Running(h, Buckets - 1, f)
    BY <1>1, RunningSum
  <1>3. Eqn(f)
    BY <1>2 DEF Running
  <1>4. Eqn(cum)
    <2> HIDE DEF Eqn
    <2> QED BY <1>3
  <1>5. \A k : UpTo(h, k) = cum[k]
    BY DEF UpTo
  <1> HIDE DEF cum
  <1>6. \A k \in 0..Buckets - 1 : UpTo(h, k) = IF k = 0 THEN h[0] ELSE UpTo(h, k - 1) + h[k]
    BY <1>4, <1>5
  <1>7. PICK T : T = {n \in Nat : n <= Buckets - 1 /\ UpTo(h, n) \notin Nat}
    OBVIOUS
  <1>8. ASSUME T # {} PROVE FALSE
    <2>1. PICK n \in T : \A m \in T : n <= m
      BY <1>7, <1>8, LeastNatural
    <2>2. n \in Nat /\ n \in 0..Buckets - 1 /\ UpTo(h, n) \notin Nat
      BY <1>1, <1>7
    <2>3. n # 0 => n - 1 \in Nat /\ n - 1 \notin T
      BY <2>1, <2>2
    <2>4. n # 0 => UpTo(h, n - 1) \in Nat
      BY <1>1, <1>7, <2>2, <2>3
    <2> QED BY <1>6, <2>2, <2>4
  <1> QED BY <1>1, <1>6, <1>7, <1>8

-----------------------------------------------------------------------------
(* Buckets *)

(* Multiplication by a number that is not negative keeps the order. *)
LEMMA TimesMonotone ==
    ASSUME NEW x \in Int, NEW y \in Int, NEW m \in Nat
    PROVE  /\ x <= y => x * m <= y * m
           /\ x * m < y * m => x < y
  <1>1. ASSUME NEW u \in Int, NEW v \in Int, u <= v PROVE u * m <= v * m
    <2>1. v - u \in Nat
      BY <1>1
    <2>2. (v - u) * m \in Nat
      BY <2>1
    <2>3. (v - u) * m = v * m - u * m
      OBVIOUS
    <2>4. u * m \in Int /\ v * m \in Int
      OBVIOUS
    <2> QED BY <2>2, <2>3, <2>4
  <1>2. x * m < y * m => x < y
    <2> SUFFICES ASSUME x * m < y * m, ~(x < y) PROVE FALSE
      OBVIOUS
    <2>1. y * m <= x * m
      BY <1>1
    <2>2. y * m \in Int /\ x * m \in Int
      OBVIOUS
    <2> QED BY <2>1, <2>2
  <1> QED BY <1>1, <1>2

(* A quotient is at most k when the dividend is below (k + 1) divisors. *)
LEMMA QuotientBound ==
    ASSUME NEW x \in Int, NEW d \in Nat, d > 0, NEW k \in Int
    PROVE  /\ x \div d \in Int
           /\ x \div d <= k <=> x < (k + 1) * d
           /\ k <= x \div d <=> k * d <= x
  <1>1. PICK q : q = x \div d
    OBVIOUS
  <1>2. q \in Int /\ q * d <= x /\ x < q * d + d
    BY <1>1
  <1>3. (k + 1) * d = k * d + d /\ (q + 1) * d = q * d + d /\ q * d \in Int /\ k * d \in Int
    BY <1>2
  <1>4. q <= k <=> x < (k + 1) * d
    <2>1. ASSUME q <= k PROVE x < (k + 1) * d
      <3>1. q * d <= k * d
        BY <1>2, <2>1, TimesMonotone
      <3> QED BY <1>2, <1>3, <3>1
    <2>2. ASSUME x < (k + 1) * d PROVE q <= k
      <3>1. q * d < (k + 1) * d
        BY <1>2, <1>3, <2>2
      <3>2. q < k + 1
        BY <1>2, <3>1, TimesMonotone
      <3> QED BY <1>2, <3>2
    <2> QED BY <2>1, <2>2
  <1>5. k <= q <=> k * d <= x
    <2>1. ASSUME k <= q PROVE k * d <= x
      <3>1. k * d <= q * d
        BY <1>2, <2>1, TimesMonotone
      <3> QED BY <1>2, <1>3, <3>1
    <2>2. ASSUME k * d <= x PROVE k <= q
      <3>1. k * d < (q + 1) * d
        BY <1>2, <1>3, <2>2
      <3>2. k < q + 1
        BY <1>2, <3>1, TimesMonotone
      <3> QED BY <1>2, <3>2
    <2> QED BY <2>1, <2>2
  <1> QED BY <1>1, <1>2, <1>4, <1>5

(* The head's endOfBucket is the exact inverse of the zone's bucket, for   *)
(* any span and any number of buckets: the chunks of buckets 0 to k are    *)
(* those up to the end of bucket k.                                        *)
THEOREM EndOfBucketIsExact ==
    ASSUME NEW i \in Interval, i.lo <= i.hi, NEW v \in i.lo .. i.hi
    PROVE  /\ bucket(v, i) \in 0..Buckets - 1
           /\ \A k \in 0..Buckets - 1 :
                /\ endOfBucket(i, k) \in Int
                /\ bucket(v, i) <= k <=> v <= endOfBucket(i, k)
  <1>1. PICK x, n : x = v - i.lo /\ n = Span(i)
    OBVIOUS
  <1>2. /\ i.lo \in Int /\ i.hi \in Int /\ v \in Int
        /\ x \in Nat /\ n \in Nat /\ n > 0 /\ x <= n - 1 /\ n = i.hi - i.lo + 1
        /\ Buckets \in Nat /\ Buckets >= 2
    BY <1>1, BucketsAssumption DEF Interval, Span
  <1>3. x * Buckets \in Nat
    BY <1>2
  <1>4. (x * Buckets) \div n \in 0..Buckets - 1
    <2>1. 0 * n <= x * Buckets
      BY <1>2, <1>3
    <2>2. x * Buckets < Buckets * n
      <3>1. x * Buckets <= (n - 1) * Buckets
        BY <1>2, TimesMonotone
      <3>2. (n - 1) * Buckets = Buckets * n - Buckets /\ Buckets * n \in Int
        BY <1>2
      <3> QED BY <1>2, <1>3, <3>1, <3>2
    <2>3. 0 <= (x * Buckets) \div n
      BY <1>2, <1>3, <2>1, QuotientBound
    <2>4. (x * Buckets) \div n <= Buckets - 1
      <3>1. (Buckets - 1 + 1) * n = Buckets * n
        BY <1>2
      <3> QED BY <1>2, <1>3, <2>2, <3>1, QuotientBound
    <2>5. (x * Buckets) \div n \in Int
      BY <1>2, <1>3, QuotientBound
    <2> QED BY <1>2, <2>3, <2>4, <2>5
  (* The cap never bites, and a span of one chunk is no special case. *)
  <1>5. bucket(v, i) = (x * Buckets) \div n
    <2>1. CASE n = 1
      <3>1. x = 0 /\ x * Buckets = 0
        BY <1>2, <2>1
      <3>2. 0 \div 1 = 0
        OBVIOUS
      <3> QED BY <1>1, <2>1, <3>1, <3>2 DEF bucket
    <2>2. CASE n # 1
      <3>1. ~(n <= 1) /\ ~(v < i.lo)
        BY <1>2, <2>2
      <3>2. bucket(v, i) = Lesser((x * Buckets) \div n, Buckets - 1)
        BY <1>1, <3>1 DEF bucket
      <3> QED BY <1>2, <1>4, <3>2 DEF Lesser
    <2> QED BY <2>1, <2>2
  <1>6. ASSUME NEW k \in 0..Buckets - 1
        PROVE  endOfBucket(i, k) \in Int /\ (bucket(v, i) <= k <=> v <= endOfBucket(i, k))
    <2>1. PICK m : m = (k + 1) * n
      OBVIOUS
    <2>2. k \in Int /\ m \in Int
      BY <1>2, <2>1
    <2>3. (m - 1) \div Buckets \in Int /\ (x <= (m - 1) \div Buckets <=> x * Buckets <= m - 1)
      BY <1>2, <2>2, QuotientBound
    <2>4. (x * Buckets) \div n <= k <=> x * Buckets < m
      BY <1>2, <1>3, <2>1, <2>2, QuotientBound
    <2>5. endOfBucket(i, k) = i.lo + (m - 1) \div Buckets
      BY <1>1, <2>1 DEF endOfBucket
    <2>6. v <= endOfBucket(i, k) <=> x <= (m - 1) \div Buckets
      BY <1>1, <1>2, <2>3, <2>5
    <2> QED BY <1>2, <1>3, <1>5, <2>2, <2>3, <2>4, <2>5, <2>6
  <1> QED BY <1>4, <1>5, <1>6

(* With no more chunks than buckets, chunks are told apart: the next chunk *)
(* is in a later bucket.                                                   *)
LEMMA ChunksToldApart ==
    ASSUME NEW i \in Interval, i.lo <= i.hi, Span(i) <= Buckets, NEW v \in i.lo .. i.hi - 1
    PROVE  bucket(v, i) < bucket(v + 1, i)
  <1>1. PICK x, n, k : x = v - i.lo /\ n = Span(i) /\ k = bucket(v, i)
    OBVIOUS
  <1>2. /\ i.lo \in Int /\ i.hi \in Int /\ v \in Int
        /\ x \in Nat /\ n \in Nat /\ n > 0 /\ x <= n - 2 /\ n = i.hi - i.lo + 1 /\ n <= Buckets
        /\ Buckets \in Nat /\ Buckets >= 2
        /\ v \in i.lo .. i.hi /\ v + 1 \in i.lo .. i.hi
    BY <1>1, BucketsAssumption DEF Interval, Span
  <1>3. k \in 0..Buckets - 1 /\ bucket(v + 1, i) \in 0..Buckets - 1
    BY <1>1, <1>2, EndOfBucketIsExact
  <1>4. endOfBucket(i, k) <= v
    <2>1. PICK m : m = k * n
      OBVIOUS
    <2>2. m \in Int /\ (k + 1) * n = m + n /\ x * Buckets \in Nat /\ (x + 1) * Buckets = x * Buckets + Buckets
      BY <1>2, <1>3, <2>1
    (* Bucket k begins at or below chunk v. *)
    <2>3. m <= x * Buckets
      <3>1. CASE k = 0
        BY <1>2, <2>1, <2>2, <3>1
      <3>2. CASE k # 0
        <4>1. k - 1 \in 0..Buckets - 1 /\ ~(bucket(v, i) <= k - 1)
          BY <1>1, <1>2, <1>3, <3>2
        <4>2. endOfBucket(i, k - 1) \in Int /\ ~(v <= endOfBucket(i, k - 1))
          BY <1>2, <4>1, EndOfBucketIsExact
        <4>3. endOfBucket(i, k - 1) = i.lo + (m - 1) \div Buckets
          <5>1. k - 1 + 1 = k
            BY <1>2, <1>3
          <5> QED BY <1>1, <2>1, <5>1 DEF endOfBucket
        <4>4. (m - 1) \div Buckets \in Int /\ (x <= (m - 1) \div Buckets <=> x * Buckets <= m - 1)
          BY <1>2, <2>2, QuotientBound
        <4>5. ~(x <= (m - 1) \div Buckets)
          BY <1>1, <1>2, <4>2, <4>3, <4>4
        <4> QED BY <2>2, <4>4, <4>5
      <3> QED BY <3>1, <3>2
    <2>4. PICK e : e = (k + 1) * n
      OBVIOUS
    <2>5. e \in Int /\ e - 1 < (x + 1) * Buckets
      BY <1>2, <2>2, <2>3, <2>4
    <2>6. (e - 1) \div Buckets \in Int /\ (e - 1) \div Buckets <= x
      BY <1>2, <2>5, QuotientBound
    <2>7. endOfBucket(i, k) = i.lo + (e - 1) \div Buckets
      BY <1>1, <2>4 DEF endOfBucket
    <2> QED BY <1>1, <1>2, <2>6, <2>7
  <1>5. ~(v + 1 <= endOfBucket(i, k)) /\ endOfBucket(i, k) \in Int
    BY <1>2, <1>3, <1>4, EndOfBucketIsExact
  <1>6. ~(bucket(v + 1, i) <= k)
    BY <1>2, <1>3, <1>5, EndOfBucketIsExact
  <1> QED BY <1>1, <1>3, <1>6

-----------------------------------------------------------------------------
(* Counting *)

(* Those of D that f puts into bucket k, and into a bucket up to k. *)
Those(D, f, k) == {e \in D : f[e] = k}
ThoseUpTo(D, f, k) == {e \in D : f[e] <= k}

(* The running sum over a histogram counts everybody up to a bucket. *)
LEMMA RunningCount ==
    ASSUME NEW D, IsFiniteSet(D), NEW f \in [D -> 0..Buckets - 1], NEW h,
           h = [k \in 0..Buckets - 1 |-> Cardinality(Those(D, f, k))]
    PROVE  /\ h \in [0..Buckets - 1 -> Nat]
           /\ \A k \in 0..Buckets - 1 : UpTo(h, k) = Cardinality(ThoseUpTo(D, f, k))
  <1> DEFINE In(k) == Those(D, f, k)
             To(k) == ThoseUpTo(D, f, k)
  <1> USE DEF Those, ThoseUpTo
  <1>1. \A k : /\ IsFiniteSet(In(k)) /\ Cardinality(In(k)) \in Nat
               /\ IsFiniteSet(To(k)) /\ Cardinality(To(k)) \in Nat
    <2> TAKE k
    <2>1. In(k) \in SUBSET D /\ To(k) \in SUBSET D
      OBVIOUS
    <2>2. IsFiniteSet(In(k)) /\ IsFiniteSet(To(k))
      BY <2>1, FS_Subset
    <2> QED BY <2>2, FS_CardinalityType
  <1>2. h \in [0..Buckets - 1 -> Nat]
    BY <1>1
  <1>3. Buckets - 1 \in Nat
    BY BucketsAssumption
  <1>4. ASSUME NEW k \in 0..Buckets - 1, k # 0
        PROVE  Cardinality(To(k)) = Cardinality(To(k - 1)) + Cardinality(In(k))
    <2>1. To(k) = To(k - 1) \cup In(k) /\ To(k - 1) \cap In(k) = {}
      BY <1>3, <1>4
    <2>2. Cardinality(To(k - 1) \cup In(k)) =
             Cardinality(To(k - 1)) + Cardinality(In(k)) - Cardinality(To(k - 1) \cap In(k))
      <3> HIDE DEF In, To
      <3> QED BY <1>1, FS_Union
    <2>3. Cardinality({}) = 0
      BY FS_EmptySet
    <2>4. Cardinality(To(k - 1)) \in Nat /\ Cardinality(In(k)) \in Nat
      BY <1>1
    <2> HIDE DEF In, To
    <2>5. Cardinality(To(k)) = Cardinality(To(k - 1)) + Cardinality(In(k)) - 0
      BY <2>1, <2>2, <2>3
    <2> QED BY <2>4, <2>5
  <1>5. To(0) = In(0)
    BY <1>3
  <1> HIDE DEF In, To
  <1>6. \A k \in 0..Buckets - 1 : h[k] = Cardinality(In(k))
    BY DEF In
  <1>7. PICK T : T = {k \in Nat : k <= Buckets - 1 /\ UpTo(h, k) # Cardinality(To(k))}
    OBVIOUS
  <1>8. ASSUME T # {} PROVE FALSE
    <2>1. PICK k \in T : \A m \in T : k <= m
      BY <1>7, <1>8, LeastNatural
    <2>2. k \in Nat /\ k \in 0..Buckets - 1 /\ UpTo(h, k) # Cardinality(To(k))
      BY <1>3, <1>7
    <2>3. CASE k = 0
      BY <1>2, <1>5, <1>6, <2>2, <2>3, UpToUnfolds
    <2>4. CASE k # 0
      <3>1. k - 1 \in Nat /\ k - 1 \in 0..Buckets - 1 /\ k - 1 \notin T
        BY <1>3, <2>1, <2>2, <2>4
      <3>2. UpTo(h, k - 1) = Cardinality(To(k - 1))
        BY <1>3, <1>7, <3>1
      <3>3. UpTo(h, k) = UpTo(h, k - 1) + h[k]
        BY <1>2, <2>2, <2>4, UpToUnfolds
      <3> QED BY <1>4, <1>6, <2>2, <2>4, <3>2, <3>3
    <2> QED BY <2>3, <2>4
  <1>9. \A k \in 0..Buckets - 1 : UpTo(h, k) = Cardinality(To(k))
    <2> TAKE k \in 0..Buckets - 1
    <2>1. k \in Nat /\ k <= Buckets - 1
      BY <1>3
    <2> QED BY <1>7, <1>8, <2>1
  <1> QED BY <1>2, <1>9 DEF To

(* The entities of a registry: they stand in chunks, in or out of the box. *)
Placed(ppl) ==
    /\ DOMAIN ppl \subseteq Entities /\ ppl = [e \in DOMAIN ppl |-> ppl[e]]
    /\ \A e \in DOMAIN ppl : ppl[e] \in Chunk

(* All of them stand inside the box. *)
Inside(b, ppl) == Placed(ppl) /\ Outside(b, ppl) = {}

(* Those of a bucket, and those on the lower side of a cut. *)
InBucket(b, ppl, a, k) == {e \in DOMAIN ppl : bucket(ppl[e][a], b[a]) = k}
Lower(ppl, a, v) == {e \in DOMAIN ppl : ppl[e][a] <= v}

(* An axis of more than one chunk has chunks in the first bucket and in    *)
(* another one.                                                            *)
LEMMA FirstAndLastBucket ==
    ASSUME NEW i \in Interval, i.lo <= i.hi
    PROVE  /\ bucket(i.lo, i) = 0
           /\ Span(i) >= 2 => bucket(i.hi, i) >= 1
  <1>1. PICK n : n = Span(i)
    OBVIOUS
  <1>2. /\ i.lo \in Int /\ i.hi \in Int /\ n \in Nat /\ n > 0 /\ n = i.hi - i.lo + 1
        /\ Buckets \in Nat /\ Buckets >= 2 /\ i.lo \in i.lo .. i.hi /\ i.hi \in i.lo .. i.hi
    BY <1>1, BucketsAssumption DEF Interval, Span
  <1>3. bucket(i.lo, i) = 0
    <2>1. endOfBucket(i, 0) = i.lo + (n - 1) \div Buckets
      <3>1. (0 + 1) * n = n
        BY <1>2
      <3> QED BY <1>1, <3>1 DEF endOfBucket
    <2>2. (n - 1) \div Buckets \in Int /\ 0 <= (n - 1) \div Buckets
      <3>1. 0 * Buckets <= n - 1
        BY <1>2
      <3> QED BY <1>2, <3>1, QuotientBound
    <2>3. i.lo <= endOfBucket(i, 0) /\ 0 \in 0..Buckets - 1
      BY <1>2, <2>1, <2>2
    <2>4. bucket(i.lo, i) \in 0..Buckets - 1 /\ bucket(i.lo, i) <= 0
      BY <1>2, <2>3, EndOfBucketIsExact
    <2> QED BY <1>2, <2>4
  <1>4. ASSUME n >= 2 PROVE bucket(i.hi, i) >= 1
    <2>1. endOfBucket(i, 0) = i.lo + (n - 1) \div Buckets
      <3>1. (0 + 1) * n = n
        BY <1>2
      <3> QED BY <1>1, <3>1 DEF endOfBucket
    <2>2. (n - 1) \div Buckets \in Int /\ (n - 1) \div Buckets <= n - 2
      <3>1. (n - 2 + 1) * Buckets = (n - 1) * Buckets /\ (n - 1) * 2 = n - 1 + n - 1
        BY <1>2
      <3>2. 2 * (n - 1) <= Buckets * (n - 1) /\ Buckets * (n - 1) = (n - 1) * Buckets
        BY <1>2, TimesMonotone
      <3>3. n - 1 < (n - 2 + 1) * Buckets
        BY <1>2, <1>4, <3>1, <3>2
      <3> QED BY <1>2, <1>4, <3>3, QuotientBound
    <2>3. ~(i.hi <= endOfBucket(i, 0)) /\ 0 \in 0..Buckets - 1
      BY <1>2, <2>1, <2>2
    <2>4. bucket(i.hi, i) \in 0..Buckets - 1 /\ ~(bucket(i.hi, i) <= 0)
      BY <1>2, <2>3, EndOfBucketIsExact
    <2> QED BY <1>2, <2>4
  <1> QED BY <1>1, <1>3, <1>4

(* What is clamped stays on its side: for an axis of several chunks the    *)
(* boundaries between two buckets separate the chunks outside the box as   *)
(* they separate those inside.                                             *)
LEMMA ClampedBuckets ==
    ASSUME NEW i \in Interval, i.lo <= i.hi, NEW v \in Int
    PROVE  /\ bucket(v, i) \in 0..Buckets - 1
           /\ Span(i) >= 2 => \A k \in 0..Buckets - 2 : bucket(v, i) <= k <=> v <= endOfBucket(i, k)
  <1>1. PICK n : n = Span(i)
    OBVIOUS
  <1>2. /\ i.lo \in Int /\ i.hi \in Int /\ n \in Nat /\ n > 0 /\ n = i.hi - i.lo + 1
        /\ Buckets \in Nat /\ Buckets >= 2 /\ i.lo \in i.lo .. i.hi /\ i.hi \in i.lo .. i.hi
    BY <1>1, BucketsAssumption DEF Interval, Span
  <1>3. \A k \in 0..Buckets - 1 :
            /\ endOfBucket(i, k) \in Int
            /\ bucket(i.lo, i) <= k <=> i.lo <= endOfBucket(i, k)
    BY <1>2, EndOfBucketIsExact
  <1>4. CASE v \in i.lo .. i.hi
    BY <1>2, <1>4, EndOfBucketIsExact
  <1>5. CASE v < i.lo
    <2>1. bucket(v, i) = 0
      BY <1>5 DEF bucket
    <2>2. bucket(i.lo, i) = 0
      BY <1>2, FirstAndLastBucket
    <2>3. \A k \in 0..Buckets - 1 : v <= endOfBucket(i, k)
      BY <1>2, <1>3, <1>5, <2>2
    <2> QED BY <1>2, <2>1, <2>3
  <1>6. CASE v > i.hi
    <2>1. CASE n <= 1
      BY <1>1, <1>2, <2>1 DEF bucket
    <2>2. CASE n > 1
      <3>1. PICK q : q = ((v - i.lo) * Buckets) \div n
        OBVIOUS
      <3>2. Buckets <= q /\ q \in Int
        <4>1. n * Buckets <= (v - i.lo) * Buckets /\ n * Buckets = Buckets * n
          <5>1. n \in Int /\ v - i.lo \in Int /\ n <= v - i.lo
            BY <1>2, <1>6
          <5>2. n * Buckets <= (v - i.lo) * Buckets
            BY <1>2, <5>1, TimesMonotone
          <5> QED BY <1>2, <5>2
        <4>2. (v - i.lo) * Buckets \in Int /\ Buckets * n <= (v - i.lo) * Buckets
          BY <1>2, <4>1
        <4> QED BY <1>2, <3>1, <4>2, QuotientBound
      <3>3. bucket(v, i) = Lesser(q, Buckets - 1)
        BY <1>1, <1>2, <1>6, <2>2, <3>1 DEF bucket
      <3>4. bucket(v, i) = Buckets - 1
        BY <1>2, <3>2, <3>3 DEF Lesser
      <3>5. \A k \in 0..Buckets - 2 : ~(v <= endOfBucket(i, k))
        <4> SUFFICES ASSUME NEW k \in 0..Buckets - 2 PROVE ~(v <= endOfBucket(i, k))
          OBVIOUS
        <4>1. PICK x : x = (k + 1) * n - 1
          OBVIOUS
        <4>2. endOfBucket(i, k) = i.lo + x \div Buckets
          BY <1>1, <4>1 DEF endOfBucket
        <4>3. x \in Int /\ x < n * Buckets
          <5>1. k + 1 \in Int /\ Buckets \in Int /\ k + 1 <= Buckets
            BY <1>2
          <5>2. (k + 1) * n <= Buckets * n
            BY <1>2, <5>1, TimesMonotone
          <5>3. Buckets * n = n * Buckets /\ (k + 1) * n \in Int /\ n * Buckets \in Int
            BY <1>2, <5>1
          <5> QED BY <4>1, <5>2, <5>3
        <4>4. x \div Buckets \in Int /\ x \div Buckets <= n - 1
          <5>1. x < (n - 1 + 1) * Buckets
            BY <1>2, <4>3
          <5> QED BY <1>2, <4>3, <5>1, QuotientBound
        <4> QED BY <1>2, <1>6, <4>2, <4>4
      <3> QED BY <1>2, <3>4, <3>5
    <2> QED BY <1>2, <2>1, <2>2
  <1> QED BY <1>2, <1>4, <1>5, <1>6

(* What the head reads off a histogram, whatever the axis: up to a bucket  *)
(* that is not the last, as many as stand up to its last chunk; in all,    *)
(* everybody.                                                              *)
LEMMA HistogramCounts ==
    ASSUME NEW b \in ProperBox, NEW ppl, Placed(ppl), NEW a \in Axes
    PROVE  /\ Histogram(b, ppl)[a] \in [0..Buckets - 1 -> Nat]
           /\ IsFiniteSet(DOMAIN ppl)
           /\ \A k \in 0..Buckets - 1 :
                Histogram(b, ppl)[a][k] = Cardinality(InBucket(b, ppl, a, k))
           /\ Span(b[a]) >= 2 => \A k \in 0..Buckets - 2 :
                UpTo(Histogram(b, ppl)[a], k) = Cardinality(Lower(ppl, a, endOfBucket(b[a], k)))
           /\ UpTo(Histogram(b, ppl)[a], Buckets - 1) = Cardinality(DOMAIN ppl)
  <1>1. PICK D : D = DOMAIN ppl
    OBVIOUS
  <1>2. IsFiniteSet(D)
    BY <1>1, EntitiesAssumption, FS_Subset DEF Placed
  <1>3. b[a] \in Interval /\ b[a].lo <= b[a].hi /\ \A e \in D : ppl[e][a] \in Int
    BY <1>1 DEF ProperBox, Box, Placed, Chunk, Interval
  <1>4. PICK f : f = [e \in D |-> bucket(ppl[e][a], b[a])]
    OBVIOUS
  <1>5. f \in [D -> 0..Buckets - 1]
    BY <1>3, <1>4, ClampedBuckets
  <1>6. PICK h : h = Histogram(b, ppl)[a]
    OBVIOUS
  (* No bucket is full. *)
  <1>7. h = [k \in 0..Buckets - 1 |-> Cardinality(Those(D, f, k))]
    <2>1. h = [k \in 0..Buckets - 1 |->
                 Lesser(Cardinality({e \in D : bucket(ppl[e][a], b[a]) = k}), Saturation)]
      BY <1>1, <1>6 DEF Histogram
    <2>2. \A k : {e \in D : bucket(ppl[e][a], b[a]) = k} = Those(D, f, k)
      BY <1>4 DEF Those
    <2>3. \A k : Lesser(Cardinality(Those(D, f, k)), Saturation) = Cardinality(Those(D, f, k))
      <3> TAKE k
      <3>1. Those(D, f, k) \in SUBSET Entities
        BY <1>1 DEF Those, Placed
      <3>2. /\ IsFiniteSet(Those(D, f, k))
            /\ Cardinality(Those(D, f, k)) <= Cardinality(Entities)
        BY <3>1, EntitiesAssumption, FS_Subset
      <3>3. Cardinality(Those(D, f, k)) \in Nat /\ Cardinality(Entities) \in Nat
        BY <3>2, EntitiesAssumption, FS_CardinalityType
      <3> QED BY <3>2, <3>3, EntitiesAssumption DEF Lesser, Saturation
    <2> QED BY <2>1, <2>2, <2>3
  <1>8. /\ h \in [0..Buckets - 1 -> Nat]
        /\ \A k \in 0..Buckets - 1 : UpTo(h, k) = Cardinality(ThoseUpTo(D, f, k))
    BY <1>2, <1>5, <1>7, RunningCount
  <1>9. ASSUME Span(b[a]) >= 2, NEW k \in 0..Buckets - 2
        PROVE  k \in 0..Buckets - 1 /\ ThoseUpTo(D, f, k) = Lower(ppl, a, endOfBucket(b[a], k))
    <2>1. \A e \in D : f[e] <= k <=> ppl[e][a] <= endOfBucket(b[a], k)
      BY <1>3, <1>4, <1>9, ClampedBuckets
    <2> QED BY <1>1, <2>1, BucketsAssumption DEF Lower, ThoseUpTo
  <1>10. Buckets - 1 \in 0..Buckets - 1 /\ ThoseUpTo(D, f, Buckets - 1) = D
    BY <1>5, BucketsAssumption DEF ThoseUpTo
  <1>11. \A k : InBucket(b, ppl, a, k) = Those(D, f, k)
    BY <1>1, <1>4 DEF Those, InBucket
  <1> QED BY <1>1, <1>2, <1>6, <1>7, <1>8, <1>9, <1>10, <1>11

-----------------------------------------------------------------------------
(* Choices *)

(* Of finitely many numbers one is largest, and one of these the first. *)
LEMMA FirstOfLargest ==
    ASSUME NEW N \in Nat, NEW f, \A j \in 0..N : f[j] \in Int
    PROVE  \E k \in 0..N : \A j \in 0..N : f[j] < f[k] \/ (f[j] = f[k] /\ k <= j)
  <1> DEFINE First(n, k) == \A j \in 0..n : f[j] < f[k] \/ (f[j] = f[k] /\ k <= j)
  <1>1. PICK T : T = {n \in Nat : n <= N /\ ~\E k \in 0..n : First(n, k)}
    OBVIOUS
  <1>2. ASSUME T # {} PROVE FALSE
    <2>1. PICK n \in T : \A m \in T : n <= m
      BY <1>1, <1>2, LeastNatural
    <2>2. n \in Nat /\ n <= N /\ ~\E k \in 0..n : First(n, k)
      BY <1>1
    <2>3. CASE n = 0
      <3>1. 0 \in 0..0 /\ First(0, 0)
        OBVIOUS
      <3> QED BY <2>2, <2>3, <3>1
    <2>4. CASE n # 0
      <3>1. n - 1 \in Nat /\ n - 1 <= N /\ n - 1 \notin T
        BY <2>1, <2>2, <2>4
      <3>2. PICK k \in 0..n - 1 : First(n - 1, k)
        BY <1>1, <3>1
      <3>3. \A j \in 0..n : f[j] \in Int
        BY <2>2
      <3>4. CASE f[n] <= f[k]
        <4>1. First(n, k)
          BY <2>2, <2>4, <3>2, <3>3, <3>4
        <4> QED BY <2>2, <3>2, <4>1
      <3>5. CASE ~(f[n] <= f[k])
        <4>1. First(n, n)
          BY <2>2, <2>4, <3>2, <3>3, <3>5
        <4> QED BY <2>2, <4>1
      <3> QED BY <3>4, <3>5
    <2> QED BY <2>3, <2>4
  <1>3. \E k \in 0..N : First(N, k)
    BY <1>1, <1>2
  <1> QED BY <1>3

(* A zone has a longest axis. *)
LEMMA LongestAxisExists ==
    ASSUME NEW b \in ProperBox
    PROVE  LongestAxes(b) # {}
  <1>1. PICK N, f : N = NAxes - 1 /\ f = [j \in 0..N |-> Width(b, j + 1)]
    OBVIOUS
  <1>2. N \in Nat /\ NAxes = N + 1
    BY <1>1, NAxesAssumption
  <1>3. \A a \in Axes : Width(b, a) \in Int
    BY DEF ProperBox, Box, Interval, Width
  <1>4. \A j \in 0..N : j + 1 \in Axes /\ f[j] = Width(b, j + 1)
    BY <1>1, <1>2 DEF Axes
  <1>5. PICK k \in 0..N : \A j \in 0..N : f[j] < f[k] \/ (f[j] = f[k] /\ k <= j)
    <2>1. \A j \in 0..N : f[j] \in Int
      BY <1>3, <1>4
    <2> QED BY <1>2, <2>1, FirstOfLargest
  <1>6. ASSUME NEW o \in Axes
        PROVE  Width(b, o) < Width(b, k + 1) \/ (Width(b, o) = Width(b, k + 1) /\ k + 1 <= o)
    <2>1. o - 1 \in 0..N /\ o - 1 + 1 = o
      BY <1>2 DEF Axes
    <2> QED BY <1>2, <1>4, <1>5, <2>1
  <1> QED BY <1>4, <1>5, <1>6 DEF LongestAxes

(* The fullest bucket is well defined. *)
LEMMA HeaviestExists ==
    ASSUME NEW h \in [0..Buckets - 1 -> Nat]
    PROVE  /\ heaviest(h) \in 0..Buckets - 1
           /\ \A j \in 0..Buckets - 1 : h[j] <= h[heaviest(h)]
  <1>1. Buckets - 1 \in Nat /\ \A j \in 0..Buckets - 1 : h[j] \in Int
    BY BucketsAssumption
  <1> DEFINE First(k) == \A j \in 0..Buckets - 1 : h[j] < h[k] \/ (h[j] = h[k] /\ k <= j)
  <1>2. \E k \in 0..Buckets - 1 : First(k)
    BY <1>1, FirstOfLargest
  <1>3. heaviest(h) = CHOOSE k \in 0..Buckets - 1 : First(k)
    BY DEF heaviest
  <1> HIDE DEF First
  <1>4. heaviest(h) \in 0..Buckets - 1 /\ First(heaviest(h))
    BY <1>2, <1>3
  <1> QED BY <1>1, <1>4 DEF First

(* Of boundaries one is the fairest. *)
LEMMA FairestExists ==
    ASSUME NEW S, S # {}, \A x \in S : x[1] \in Nat /\ x[2] \in Nat /\ x[3] \in Nat
    PROVE  \E x \in S : \A y \in S : Fairer(x, y)
  <1>1. PICK m \in {x[1] : x \in S} : \A n \in {x[1] : x \in S} : m <= n
    BY LeastNatural
  <1>2. PICK U : U = {x \in S : x[1] = m}
    OBVIOUS
  <1>3. PICK p \in {x[2] : x \in U} : \A n \in {x[2] : x \in U} : p <= n
    BY <1>1, <1>2, LeastNatural
  <1>4. PICK V : V = {x \in U : x[2] = p}
    OBVIOUS
  <1>5. PICK q \in {x[3] : x \in V} : \A n \in {x[3] : x \in V} : q <= n
    <2>1. {x[3] : x \in V} \in SUBSET Nat /\ {x[3] : x \in V} # {}
      BY <1>2, <1>3, <1>4
    <2> QED BY <2>1, LeastNatural
  <1>6. PICK x \in V : x[3] = q
    BY <1>5
  <1>7. x \in S /\ x[1] = m /\ x[2] = p
    BY <1>2, <1>4, <1>6
  <1>8. ASSUME NEW y \in S PROVE Fairer(x, y)
    <2>1. m <= y[1] /\ m \in Nat /\ p \in Nat /\ q \in Nat /\ y[1] \in Nat /\ y[2] \in Nat /\ y[3] \in Nat
      BY <1>1, <1>6, <1>7
    <2>2. y[1] = m => p <= y[2]
      BY <1>2, <1>3
    <2>3. y[1] = m /\ y[2] = p => q <= y[3]
      BY <1>2, <1>4, <1>5
    <2> QED BY <1>6, <1>7, <2>1, <2>2, <2>3 DEF Fairer
  <1> QED BY <1>7, <1>8

-----------------------------------------------------------------------------
(* The cut *)

(* A cut with chunks on both sides that leaves none out. *)
Clean(b, k) ==
    /\ k = [axis |-> k.axis, low |-> k.low, high |-> k.low + 1]
    /\ k.axis \in Axes /\ k.high = k.low + 1
    /\ k.low \in b[k.axis].lo .. b[k.axis].hi - 1

(* The boundaries, in terms of the entities rather than of the histogram. *)
LEMMA BoundaryMeaning ==
    ASSUME NEW b \in ProperBox, NEW ppl, Placed(ppl), NEW a \in Axes, Span(b[a]) >= 2, NEW k \in 0..Buckets - 2,
           NEW m, m = Distance(2 * Cardinality(Lower(ppl, a, endOfBucket(b[a], k))), Cardinality(DOMAIN ppl))
    PROVE  /\ m \in Nat /\ Imbalance(Histogram(b, ppl)[a], k) = m
           /\ <<m, a, k>> \in Boundaries(b, Histogram(b, ppl)) <=>
                /\ endOfBucket(b[a], k) \in b[a].lo .. b[a].hi - 1
                /\ m < Cardinality(DOMAIN ppl)
  <1>1. PICK h, n, c : /\ h = Histogram(b, ppl)[a] /\ n = Cardinality(DOMAIN ppl)
                       /\ c = Cardinality(Lower(ppl, a, endOfBucket(b[a], k)))
    OBVIOUS
  <1>2. k \in 0..Buckets - 1 /\ Buckets - 1 \in 0..Buckets - 1
    BY BucketsAssumption
  <1>3. UpTo(h, k) = c /\ UpTo(h, Buckets - 1) = n /\ c \in Nat /\ n \in Nat
    <2>1. h \in [0..Buckets - 1 -> Nat] /\ UpTo(h, Buckets - 1) = n
      BY <1>1, HistogramCounts
    <2>2. \A j \in 0..Buckets - 2 :
            UpTo(Histogram(b, ppl)[a], j) = Cardinality(Lower(ppl, a, endOfBucket(b[a], j)))
      BY HistogramCounts
    <2>3. UpTo(h, k) = c
      BY <1>1, <2>2
    <2> QED BY <1>2, <2>1, <2>3, UpToUnfolds
  <1>4. Imbalance(h, k) = m /\ m \in Nat
    BY <1>1, <1>3 DEF Imbalance, Distance
  <1>5. <<m, a, k>> \in {<<Imbalance(Histogram(b, ppl)[d], j), d, j>> : d \in Axes, j \in 0..Buckets - 2}
    BY <1>1, <1>4
  <1>6. b[a].lo \in Int /\ b[a].hi \in Int
    BY DEF ProperBox, Box, Interval
  <1>7. endOfBucket(b[a], k) \in b[a].lo .. b[a].hi - 1 => Span(b[a]) >= 2
    BY <1>6 DEF Span
  <1> QED BY <1>1, <1>3, <1>4, <1>5, <1>7 DEF Boundaries

(* Every boundary is one of those. *)
LEMMA BoundaryShape ==
    ASSUME NEW b \in ProperBox, NEW ppl, Placed(ppl), NEW x \in Boundaries(b, Histogram(b, ppl))
    PROVE  /\ x[1] \in Nat /\ x[2] \in Axes /\ x[3] \in 0..Buckets - 2 /\ Span(b[x[2]]) >= 2
           /\ x[1] = Distance(2 * Cardinality(Lower(ppl, x[2], endOfBucket(b[x[2]], x[3]))),
                              Cardinality(DOMAIN ppl))
           /\ endOfBucket(b[x[2]], x[3]) \in b[x[2]].lo .. b[x[2]].hi - 1
           /\ x[1] < Cardinality(DOMAIN ppl)
  <1>1. PICK a \in Axes, k \in 0..Buckets - 2 :
            x = <<Imbalance(Histogram(b, ppl)[a], k), a, k>> /\ Span(b[a]) >= 2
    BY DEF Boundaries
  <1>2. PICK m : m = Distance(2 * Cardinality(Lower(ppl, a, endOfBucket(b[a], k))), Cardinality(DOMAIN ppl))
    OBVIOUS
  <1>3. m \in Nat /\ Imbalance(Histogram(b, ppl)[a], k) = m
    BY <1>1, <1>2, BoundaryMeaning
  <1>4. x = <<m, a, k>> /\ x[1] = m /\ x[2] = a /\ x[3] = k
    BY <1>1, <1>3
  <1>5. /\ endOfBucket(b[a], k) \in b[a].lo .. b[a].hi - 1
        /\ m < Cardinality(DOMAIN ppl)
    BY <1>1, <1>2, <1>4, BoundaryMeaning
  <1> QED BY <1>1, <1>2, <1>3, <1>4, <1>5

(* The cut that halves the population is clean, and no boundary divides it *)
(* more evenly.                                                            *)
LEMMA HalvingIsFairest ==
    ASSUME NEW b \in ProperBox, NEW ppl, Placed(ppl),
           NEW S, S = Boundaries(b, Histogram(b, ppl)), S # {}
    PROVE  /\ Clean(b, HalvingCut(b, S))
           /\ \A y \in S : Unevenness(ppl, HalvingCut(b, S)) <= y[1]
  <1>1. \A x \in S : x[1] \in Nat /\ x[2] \in Axes /\ x[3] \in 0..Buckets - 2
    BY BoundaryShape
  <1>2. \A x \in S : x[1] \in Nat /\ x[2] \in Nat /\ x[3] \in Nat
    BY <1>1, BucketsAssumption DEF Axes
  <1>3. \E x \in S : \A y \in S : Fairer(x, y)
    BY <1>2, FairestExists
  <1>4. PICK x : x = CHOOSE z \in S : \A y \in S : Fairer(z, y)
    OBVIOUS
  <1>5. x \in S /\ \A y \in S : Fairer(x, y)
    BY <1>3, <1>4
  <1>6. PICK l : l = endOfBucket(b[x[2]], x[3])
    OBVIOUS
  <1>7. HalvingCut(b, S) = [axis |-> x[2], low |-> l, high |-> l + 1]
    BY <1>4, <1>6 DEF HalvingCut
  <1>8. /\ x[2] \in Axes /\ l \in b[x[2]].lo .. b[x[2]].hi - 1
        /\ x[1] = Distance(2 * Cardinality(Lower(ppl, x[2], l)), Cardinality(DOMAIN ppl))
    BY <1>5, <1>6, BoundaryShape
  <1>9. \A y \in S : x[1] <= y[1]
    BY <1>2, <1>5 DEF Fairer
  <1>10. Unevenness(ppl, HalvingCut(b, S)) = x[1]
    BY <1>7, <1>8 DEF Unevenness, Lower
  <1> QED BY <1>7, <1>8, <1>9, <1>10 DEF Clean

(* An inhabited zone: its fullest bucket has somebody in it. *)
LEMMA SomebodyInHeaviest ==
    ASSUME NEW b \in ProperBox, NEW ppl, Placed(ppl), DOMAIN ppl # {}, NEW a \in Axes,
           NEW h, h = Histogram(b, ppl)[a]
    PROVE  /\ h \in [0..Buckets - 1 -> Nat]
           /\ heaviest(h) \in 0..Buckets - 1 /\ h[heaviest(h)] > 0
           /\ \E e \in DOMAIN ppl : bucket(ppl[e][a], b[a]) = heaviest(h)
  <1>1. h \in [0..Buckets - 1 -> Nat] /\ IsFiniteSet(DOMAIN ppl)
    BY HistogramCounts
  <1>2. \A k \in 0..Buckets - 1 : h[k] = Cardinality(InBucket(b, ppl, a, k))
    BY HistogramCounts
  <1>3. \A k : IsFiniteSet(InBucket(b, ppl, a, k))
    <2> TAKE k
    <2>1. InBucket(b, ppl, a, k) \in SUBSET DOMAIN ppl
      BY DEF InBucket
    <2> QED BY <1>1, <2>1, FS_Subset
  <1>4. \A k \in 0..Buckets - 1 : h[k] = 0 <=> InBucket(b, ppl, a, k) = {}
    BY <1>2, <1>3, FS_EmptySet
  <1>5. PICK e \in DOMAIN ppl : TRUE
    OBVIOUS
  <1>6. PICK k : k = bucket(ppl[e][a], b[a])
    OBVIOUS
  <1>7. k \in 0..Buckets - 1 /\ e \in InBucket(b, ppl, a, k)
    <2>1. b[a] \in Interval /\ b[a].lo <= b[a].hi /\ ppl[e][a] \in Int
      BY DEF ProperBox, Box, Placed, Chunk, Interval
    <2> QED BY <1>6, <2>1, ClampedBuckets DEF InBucket
  <1>8. heaviest(h) \in 0..Buckets - 1 /\ h[k] <= h[heaviest(h)]
    BY <1>1, <1>7, HeaviestExists
  <1>9. h[k] \in Nat /\ h[k] # 0 /\ h[heaviest(h)] \in Nat
    BY <1>1, <1>4, <1>7, <1>8
  <1>10. h[heaviest(h)] > 0 /\ InBucket(b, ppl, a, heaviest(h)) # {}
    BY <1>4, <1>8, <1>9
  <1> QED BY <1>1, <1>8, <1>10 DEF InBucket

(* Cutting around the crowd is clean on every axis of more than one chunk. *)
LEMMA CrowdCutIsClean ==
    ASSUME NEW b \in ProperBox, NEW ppl, Inside(b, ppl), DOMAIN ppl # {},
           NEW a \in Axes, Span(b[a]) >= 2, NEW h, h = Histogram(b, ppl)[a], NEW v, NEW k,
           v = heaviest(h), k = CrowdCut(b[a], a, h)
    PROVE  /\ Clean(b, k) /\ k.axis = a
           /\ k.low = endOfBucket(b[a], IF v > 0 THEN v - 1 ELSE v)
  <1>1. PICK i : i = b[a]
    OBVIOUS
  <1>2. i \in Interval /\ i.lo <= i.hi /\ i.lo \in Int /\ i.hi \in Int /\ Span(i) >= 2
        /\ i.lo \in i.lo .. i.hi /\ i.hi \in i.lo .. i.hi
    BY <1>1 DEF ProperBox, Box, Interval
  <1>3. v \in 0..Buckets - 1 /\ v \in Int
    BY SomebodyInHeaviest, BucketsAssumption DEF Inside
  <1>4. PICK e \in DOMAIN ppl : bucket(ppl[e][a], i) = v
    BY <1>1, SomebodyInHeaviest DEF Inside
  <1>5. PICK w : w = ppl[e][a]
    OBVIOUS
  <1>6. w \in i.lo .. i.hi
    BY <1>1, <1>2, <1>5 DEF Inside, Placed, Outside, Covers, Chunk
  <1>7. bucket(i.lo, i) = 0 /\ bucket(i.hi, i) >= 1
    BY <1>2, FirstAndLastBucket
  <1>8. CASE v > 0
    <2>1. PICK l : l = endOfBucket(i, v - 1)
      OBVIOUS
    <2>2. v - 1 \in 0..Buckets - 1 /\ ~(bucket(w, i) <= v - 1) /\ bucket(i.lo, i) <= v - 1
      BY <1>3, <1>4, <1>5, <1>7, <1>8, BucketsAssumption
    <2>3. l \in Int /\ ~(w <= l) /\ i.lo <= l
      BY <1>2, <1>6, <2>1, <2>2, EndOfBucketIsExact
    <2>4. l \in i.lo .. i.hi - 1
      BY <1>2, <1>6, <2>3
    <2>5. k = [axis |-> a, low |-> l, high |-> l + 1]
      BY <1>1, <1>8, <2>1, <2>4 DEF CrowdCut
    <2> QED BY <1>1, <1>8, <2>1, <2>4, <2>5 DEF Clean
  <1>9. CASE ~(v > 0)
    <2>1. PICK l : l = endOfBucket(i, v)
      OBVIOUS
    <2>2. v = 0 /\ ~(bucket(i.hi, i) <= v) /\ bucket(i.lo, i) <= v
      <3>1. bucket(i.hi, i) \in 0..Buckets - 1
        BY <1>2, EndOfBucketIsExact
      <3> QED BY <1>3, <1>7, <1>9, <3>1, BucketsAssumption
    <2>3. l \in Int /\ ~(i.hi <= l) /\ i.lo <= l
      BY <1>2, <1>3, <2>1, <2>2, EndOfBucketIsExact
    <2>4. l \in i.lo .. i.hi - 1 /\ i.lo - 1 \notin i.lo .. i.hi - 1
      BY <1>2, <2>3
    <2>5. k = [axis |-> a, low |-> l, high |-> l + 1]
      BY <1>1, <1>9, <2>1, <2>4 DEF CrowdCut
    <2> QED BY <1>1, <1>9, <2>1, <2>4, <2>5 DEF Clean
  <1> QED BY <1>8, <1>9

(* One of the three tiers has chosen the cut.  The first two cut cleanly   *)
(* whoever is there, and they suffice where people stand inside the box.   *)
LEMMA CutChosen ==
    ASSUME NEW b \in ProperBox, NEW ppl, Placed(ppl), \E a \in Axes : Width(b, a) >= 1,
           NEW h, h = Histogram(b, ppl), NEW k, k = ChooseCut(b, h)
    PROVE  /\ Clean(b, k) \/ k \in GeometricCuts(b)
           /\ Boundaries(b, h) # {} => Clean(b, k) /\ k = HalvingCut(b, Boundaries(b, h))
           /\ Boundaries(b, h) = {} /\ DOMAIN ppl # {} /\ Inside(b, ppl) =>
                /\ Clean(b, k)
                /\ \E a \in Axes : Span(b[a]) >= 2 /\ k = CrowdCut(b[a], a, h[a])
  <1>1. PICK S, C : S = Boundaries(b, h) /\ C = CrowdAxes(b, h)
    OBVIOUS
  <1>2. ASSUME S # {}
        PROVE  Clean(b, k) /\ k = HalvingCut(b, S)
    <2>1. k = HalvingCut(b, S)
      BY <1>1, <1>2 DEF ChooseCut
    <2> QED BY <1>1, <1>2, <2>1, HalvingIsFairest
  <1>3. ASSUME S = {}, C # {}
        PROVE  Clean(b, k) /\ \E a \in Axes : Span(b[a]) >= 2 /\ k = CrowdCut(b[a], a, h[a])
    <2>1. \E x \in C : \A y \in C : x <= y
      <3>1. C \in SUBSET Nat
        BY <1>1 DEF CrowdAxes, Axes
      <3> QED BY <1>3, <3>1, LeastNatural
    <2>2. PICK x : x = CHOOSE z \in C : \A y \in C : z <= y
      OBVIOUS
    <2>3. x \in C
      BY <2>1, <2>2
    <2>4. PICK q : q = CrowdCut(b[x], x, h[x])
      OBVIOUS
    <2>5. x \in Axes /\ Span(b[x]) >= 2 /\ q.low \in b[x].lo .. b[x].hi - 1
      BY <1>1, <2>3, <2>4 DEF CrowdAxes
    <2>6. q = [axis |-> x, low |-> q.low, high |-> q.low + 1] /\ q.axis = x /\ q.high = q.low + 1
      BY <2>4 DEF CrowdCut
    <2>7. k = q
      BY <1>1, <1>3, <2>2, <2>4 DEF ChooseCut
    <2> QED BY <2>4, <2>5, <2>6, <2>7 DEF Clean
  <1>4. ASSUME S = {}, C = {} PROVE k \in GeometricCuts(b)
    <2>1. k = CHOOSE g \in GeometricCuts(b) : TRUE
      BY <1>1, <1>4 DEF ChooseCut
    <2>2. GeometricCuts(b) # {}
      BY LongestAxisExists DEF GeometricCuts
    <2> QED BY <2>1, <2>2
  <1>5. ASSUME DOMAIN ppl # {}, Inside(b, ppl) PROVE C # {}
    <2>1. PICK a \in Axes : Width(b, a) >= 1
      OBVIOUS
    <2>2. Span(b[a]) >= 2
      BY <2>1 DEF Span, Width, ProperBox, Box, Interval
    <2>3. /\ Clean(b, CrowdCut(b[a], a, h[a])) /\ CrowdCut(b[a], a, h[a]).axis = a
          /\ h[a][heaviest(h[a])] > 0
      BY <1>5, <2>2, CrowdCutIsClean, SomebodyInHeaviest
    <2> QED BY <1>1, <2>2, <2>3 DEF CrowdAxes, Clean
  <1> QED BY <1>1, <1>2, <1>3, <1>4, <1>5

(* With no more chunks than buckets the boundaries are all the cuts there  *)
(* are between two chunks.                                                 *)
LEMMA EveryCutIsABoundary ==
    ASSUME NEW i \in Interval, i.lo <= i.hi, Span(i) <= Buckets, NEW v \in i.lo .. i.hi - 1
    PROVE  \E k \in 0..Buckets - 2 : endOfBucket(i, k) = v
  <1>1. i.lo \in Int /\ i.hi \in Int /\ v \in i.lo .. i.hi /\ v + 1 \in i.lo .. i.hi /\ Buckets \in Nat
    BY BucketsAssumption DEF Interval
  <1>2. PICK k : k = bucket(v, i)
    OBVIOUS
  <1>3. k \in 0..Buckets - 1 /\ bucket(v + 1, i) \in 0..Buckets - 1 /\ k < bucket(v + 1, i)
    BY <1>1, <1>2, EndOfBucketIsExact, ChunksToldApart
  <1>4. k \in 0..Buckets - 2 /\ k <= k /\ ~(bucket(v + 1, i) <= k)
    BY <1>1, <1>3
  <1>5. endOfBucket(i, k) \in Int /\ v <= endOfBucket(i, k) /\ ~(v + 1 <= endOfBucket(i, k))
    BY <1>1, <1>2, <1>3, <1>4, EndOfBucketIsExact
  <1>6. endOfBucket(i, k) = v
    BY <1>1, <1>5
  <1> QED BY <1>4, <1>6

(* A cut that has somebody on both sides is better than none. *)
LEMMA SeparatingCounts ==
    ASSUME NEW D, IsFiniteSet(D), NEW L \in SUBSET D
    PROVE  /\ Cardinality(D) \in Nat /\ Cardinality(L) \in Nat
           /\ L # {} /\ L # D => Distance(2 * Cardinality(L), Cardinality(D)) < Cardinality(D)
           /\ L = {} \/ L = D => Distance(2 * Cardinality(L), Cardinality(D)) = Cardinality(D)
  <1>1. IsFiniteSet(L) /\ Cardinality(L) <= Cardinality(D) /\ (Cardinality(L) = Cardinality(D) => L = D)
    BY FS_Subset
  <1>2. Cardinality(L) \in Nat /\ Cardinality(D) \in Nat
    BY <1>1, FS_CardinalityType
  <1>3. Cardinality(L) = 0 <=> L = {}
    BY <1>1, FS_EmptySet
  <1> QED BY <1>1, <1>2, <1>3 DEF Distance

(* No cut between two chunks divides the entities more evenly. *)
LEMMA FairestCut ==
    ASSUME NEW b \in ProperBox, NEW ppl, Placed(ppl),
           \E a \in Axes : Width(b, a) >= 1, FineGrained(b),
           NEW k, k = ChooseCut(b, Histogram(b, ppl)), NEW q \in Separating(b, ppl)
    PROVE  Unevenness(ppl, k) <= Unevenness(ppl, q)
  <1>1. PICK S : S = Boundaries(b, Histogram(b, ppl))
    OBVIOUS
  <1>2. PICK a, v : a = q.axis /\ v = q.low
    OBVIOUS
  <1>3. /\ a \in Axes /\ b[a].lo <= v /\ v < b[a].hi /\ v \in Int
        /\ \E e \in DOMAIN ppl : ppl[e][a] <= v
        /\ \E e \in DOMAIN ppl : ppl[e][a] > v
    <2>1. q \in PopulationCuts(b) /\ b \in Box
      BY DEF Separating, ProperBox
    <2>2. q \in Cut
      BY <2>1, CutsType
    <2> QED BY <1>2, <2>1, <2>2 DEF Separating, PopulationCuts, Cut
  <1>4. b[a] \in Interval /\ b[a].lo <= b[a].hi /\ b[a].lo \in Int /\ b[a].hi \in Int /\ Span(b[a]) <= Buckets
    BY <1>3 DEF ProperBox, Box, Interval, FineGrained
  <1>5. v \in b[a].lo .. b[a].hi - 1 /\ Span(b[a]) >= 2
    BY <1>3, <1>4 DEF Span
  <1>6. PICK j \in 0..Buckets - 2 : endOfBucket(b[a], j) = v
    BY <1>4, <1>5, EveryCutIsABoundary
  <1>7. PICK m : m = Distance(2 * Cardinality(Lower(ppl, a, v)), Cardinality(DOMAIN ppl))
    OBVIOUS
  <1>8. Unevenness(ppl, q) = m
    BY <1>2, <1>7 DEF Unevenness, Lower
  <1>9. m < Cardinality(DOMAIN ppl)
    <2>1. IsFiniteSet(DOMAIN ppl)
      BY <1>3, HistogramCounts
    <2>2. Lower(ppl, a, v) \in SUBSET DOMAIN ppl /\ Lower(ppl, a, v) # {}
      BY <1>3 DEF Lower
    <2>3. Lower(ppl, a, v) # DOMAIN ppl
      <3>1. PICK e \in DOMAIN ppl : ppl[e][a] > v
        BY <1>3
      <3>2. ppl[e][a] \in Int
        BY <1>3 DEF Placed, Chunk
      <3> QED BY <1>3, <3>1, <3>2 DEF Lower
    <2> QED BY <1>7, <2>1, <2>2, <2>3, SeparatingCounts
  <1>10. <<m, a, j>> \in S
    BY <1>1, <1>3, <1>5, <1>6, <1>7, <1>9, BoundaryMeaning
  <1>11. k = HalvingCut(b, S)
    BY <1>1, <1>10, CutChosen
  <1>12. \A y \in S : Unevenness(ppl, HalvingCut(b, S)) <= y[1]
    BY <1>1, <1>10, HalvingIsFairest
  <1> QED BY <1>8, <1>10, <1>11, <1>12

(* A crowd in one chunk is cut right beside. *)
LEMMA CrowdHugged ==
    ASSUME NEW b \in ProperBox, NEW ppl, Inside(b, ppl), OneChunk(ppl),
           \E a \in Axes : Width(b, a) >= 1, FineGrained(b),
           NEW k, k = ChooseCut(b, Histogram(b, ppl)), NEW e \in DOMAIN ppl
    PROVE  ppl[e][k.axis] \in {k.low, k.high}
  <1>1. DOMAIN ppl # {} /\ Placed(ppl)
    BY DEF Inside
  (* No boundary has somebody on each side. *)
  <1>2. Boundaries(b, Histogram(b, ppl)) = {}
    <2> SUFFICES ASSUME NEW x \in Boundaries(b, Histogram(b, ppl)) PROVE FALSE
      OBVIOUS
    <2>1. PICK L : L = Lower(ppl, x[2], endOfBucket(b[x[2]], x[3]))
      OBVIOUS
    <2>2. /\ x[2] \in Axes
          /\ x[1] = Distance(2 * Cardinality(L), Cardinality(DOMAIN ppl))
          /\ x[1] < Cardinality(DOMAIN ppl)
      BY <1>1, <2>1, BoundaryShape
    <2>3. L \in SUBSET DOMAIN ppl /\ (L = {} \/ L = DOMAIN ppl)
      BY <2>1 DEF Lower, OneChunk
    <2>4. IsFiniteSet(DOMAIN ppl)
      BY <1>1, <2>2, HistogramCounts
    <2>5. Cardinality(DOMAIN ppl) \in Nat /\ x[1] = Cardinality(DOMAIN ppl)
      BY <2>2, <2>3, <2>4, SeparatingCounts
    <2> QED BY <2>2, <2>5
  <1>3. PICK a \in Axes : Span(b[a]) >= 2 /\ k = CrowdCut(b[a], a, Histogram(b, ppl)[a])
    BY <1>1, <1>2, CutChosen
  <1>4. PICK i, v, c : i = b[a] /\ v = heaviest(Histogram(b, ppl)[a]) /\ c = ppl[e][a]
    OBVIOUS
  <1>5. /\ k.axis = a /\ k.high = k.low + 1 /\ k.low \in i.lo .. i.hi - 1
        /\ k.low = endOfBucket(i, IF v > 0 THEN v - 1 ELSE v)
    BY <1>1, <1>3, <1>4, CrowdCutIsClean DEF Clean
  <1>6. /\ i \in Interval /\ i.lo <= i.hi /\ i.lo \in Int /\ i.hi \in Int /\ Span(i) <= Buckets
        /\ c \in i.lo .. i.hi /\ c \in Int
    BY <1>4 DEF ProperBox, Box, Interval, FineGrained, Inside, Placed, Outside, Covers, Chunk
  <1>7. v \in 0..Buckets - 1 /\ bucket(c, i) = v
    <2>1. /\ v \in 0..Buckets - 1
          /\ \E f \in DOMAIN ppl : bucket(ppl[f][a], b[a]) = v
      BY <1>1, <1>4, SomebodyInHeaviest
    <2> QED BY <1>4, <2>1 DEF OneChunk
  <1>8. bucket(i.lo, i) = 0
    BY <1>6, FirstAndLastBucket
  <1>9. CASE v > 0
    <2>1. v - 1 \in 0..Buckets - 1 /\ ~(v <= v - 1)
      BY <1>7, <1>9, BucketsAssumption
    <2>2. endOfBucket(i, v - 1) \in Int /\ ~(c <= endOfBucket(i, v - 1))
      BY <1>6, <1>7, <2>1, EndOfBucketIsExact
    <2>3. c # i.lo
      BY <1>7, <1>8, <1>9
    <2>4. c - 1 \in i.lo .. i.hi - 1 /\ c - 1 \in i.lo .. i.hi /\ c - 1 + 1 = c
      BY <1>6, <2>3
    <2>5. bucket(c - 1, i) < v /\ bucket(c - 1, i) \in 0..Buckets - 1
      BY <1>6, <1>7, <2>4, ChunksToldApart, EndOfBucketIsExact
    <2>6. bucket(c - 1, i) <= v - 1
      BY <1>7, <2>5, BucketsAssumption
    <2>7. c - 1 <= endOfBucket(i, v - 1)
      BY <1>6, <2>1, <2>4, <2>6, EndOfBucketIsExact
    <2>8. k.low = endOfBucket(i, v - 1)
      BY <1>5, <1>9
    <2>9. k.high = c
      BY <1>5, <1>6, <2>2, <2>7, <2>8
    <2> QED BY <1>4, <1>5, <2>9
  <1>10. CASE ~(v > 0)
    <2>1. v = 0 /\ 0 \in 0..Buckets - 1
      BY <1>7, <1>10, BucketsAssumption
    <2>2. k.low = endOfBucket(i, 0)
      BY <1>5, <2>1
    <2>3. c <= k.low /\ k.low \in Int
      BY <1>6, <1>7, <2>1, <2>2, EndOfBucketIsExact
    <2>4. ASSUME c # k.low PROVE FALSE
      <3>1. c \in i.lo .. i.hi - 1 /\ c + 1 \in i.lo .. i.hi /\ c + 1 <= endOfBucket(i, 0)
        BY <1>5, <1>6, <2>2, <2>3, <2>4
      <3>2. bucket(c + 1, i) <= 0 /\ bucket(c + 1, i) \in 0..Buckets - 1
        BY <1>6, <2>1, <3>1, EndOfBucketIsExact
      <3>3. 0 < bucket(c + 1, i)
        BY <1>6, <1>7, <2>1, <3>1, ChunksToldApart
      <3> QED BY <3>2, <3>3, BucketsAssumption
    <2> QED BY <1>4, <1>5, <2>4
  <1> QED BY <1>9, <1>10

-----------------------------------------------------------------------------
(* The machine *)

(* A clean cut is a cut from the population. *)
LEMMA CleanCutFromPopulation ==
    ASSUME NEW b \in ProperBox, NEW k, Clean(b, k)
    PROVE  k \in PopulationCuts(b)
  <1>1. PICK a, v : a = k.axis /\ v = k.low
    OBVIOUS
  <1>2. /\ a \in Axes /\ b[a].lo \in Int /\ b[a].hi \in Int /\ v \in b[a].lo .. b[a].hi - 1
        /\ k = [axis |-> a, low |-> v, high |-> v + 1]
    BY <1>1 DEF Clean, ProperBox, Box, Interval
  <1>3. v \in b[a].lo .. b[a].hi /\ v + 1 \in b[a].lo .. b[a].hi /\ b[a].lo <= v /\ v < b[a].hi
    BY <1>2
  <1>4. /\ v \in UNION {b[o].lo .. b[o].hi : o \in Axes}
        /\ v + 1 \in UNION {b[o].lo .. b[o].hi : o \in Axes}
    BY <1>2, <1>3
  <1> QED BY <1>2, <1>3, <1>4 DEF PopulationCuts

(* Whoever is in the registry, the two parts of a split are boxes a zone   *)
(* can own.                                                                *)
LEMMA PartsAreProper ==
    ASSUME NEW b \in ProperBox, NEW ppl, Placed(ppl), \E a \in Axes : Width(b, a) >= 1,
           NEW k, k = ChooseCut(b, Histogram(b, ppl))
    PROVE  ParentBox(b, k) \in ProperBox /\ ChildBox(b, k) \in ProperBox
  <1>1. CASE Clean(b, k)
    BY <1>1, CleanCutFromPopulation, ProperParts
  <1>2. CASE k \in GeometricCuts(b)
    BY <1>2, GeometricCutCovers
  <1> QED BY <1>1, <1>2, CutChosen

(* The split that was made last: of a zone that could be split, by the cut *)
(* its histogram gave.                                                     *)
Recorded(l) ==
    /\ l.box \in ProperBox /\ Placed(l.people)
    /\ \E a \in Axes : Width(l.box, a) >= 1
    /\ l.cut = ChooseCut(l.box, Histogram(l.box, l.people))

(* The inductive invariant: the zone has a box it can own, and the profile *)
(* the head keeps is that of the people who are in the registry.           *)
IInv ==
    /\ box \in ProperBox /\ Placed(people)
    /\ profile # NoProfile => profile = Histogram(box, people)
    /\ last # NoSplit => Recorded(last)

(* The chunks of a box are chunks inside it. *)
LEMMA ChunksInside ==
    ASSUME NEW b, NEW c \in ChunksOf(b)
    PROVE  c \in Chunk /\ Covers(b, c)
  <1>1. -ChunkLimit..ChunkLimit \subseteq Int
    BY ChunkLimitAssumption
  <1> QED BY <1>1 DEF ChunksOf, Chunk

(* Some of the entities of a registry, where they stood. *)
LEMMA SomePlaced ==
    ASSUME NEW ppl, Placed(ppl), NEW S \in SUBSET DOMAIN ppl
    PROVE  Placed([e \in S |-> ppl[e]])
  BY DEF Placed

(* A zone starts with its entities inside its box and nothing reported. *)
LEMMA Start == Init => IInv
  <1> SUFFICES ASSUME Init PROVE IInv
    OBVIOUS
  <1>1. PICK S \in SUBSET Entities : people \in [S -> ChunksOf(box)]
    BY DEF Init
  <1>2. Placed(people)
    BY <1>1, ChunksInside DEF Placed
  <1> QED BY <1>2, StartBoxesAssumption DEF Init, IInv

(* A report, a split, a walk and a hand-off keep the invariant. *)
LEMMA Step == IInv /\ [Next]_vars => IInv'
  <1> SUFFICES ASSUME IInv, [Next]_vars PROVE IInv'
    OBVIOUS
  <1>1. CASE Report
    <2>1. box' = box /\ people' = people /\ profile' = Histogram(box, people) /\ last' = NoSplit
      BY <1>1 DEF Report
    <2> QED BY <2>1 DEF IInv, Histogram
  <1>2. CASE Split
    <2>1. PICK k, S : /\ k = ChooseCut(box, profile)
                      /\ box' \in {ParentBox(box, k), ChildBox(box, k)}
                      /\ S \in SUBSET DOMAIN people /\ people' = [e \in S |-> people[e]]
                      /\ last' = [box |-> box, people |-> people, cut |-> k]
      <3>1. PICK k : /\ k = ChooseCut(box, profile)
                     /\ \/ /\ box' = ParentBox(box, k)
                           /\ \E S \in SUBSET Outside(ParentBox(box, k), people) : people' =
                                [e \in {x \in DOMAIN people : Covers(ParentBox(box, k), people[x])} \cup S
                                    |-> people[e]]
                        \/ /\ box' = ChildBox(box, k)
                           /\ people' = [e \in {x \in Outside(ParentBox(box, k), people) :
                                        Covers(ChildBox(box, k), people[x])} |-> people[e]]
                     /\ last' = [box |-> box, people |-> people, cut |-> k]
        BY <1>2 DEF Split
      <3>2. Outside(ParentBox(box, k), people) \in SUBSET DOMAIN people
        BY DEF Outside
      <3>3. \E S \in SUBSET DOMAIN people : people' = [e \in S |-> people[e]]
        <4>1. CASE box' = ParentBox(box, k)
                   /\ \E S \in SUBSET Outside(ParentBox(box, k), people) : people' =
                        [e \in {x \in DOMAIN people : Covers(ParentBox(box, k), people[x])} \cup S
                            |-> people[e]]
          <5>1. PICK S \in SUBSET Outside(ParentBox(box, k), people) : people' =
                  [e \in {x \in DOMAIN people : Covers(ParentBox(box, k), people[x])} \cup S |-> people[e]]
            BY <4>1
          <5>2. {x \in DOMAIN people : Covers(ParentBox(box, k), people[x])} \cup S \in SUBSET DOMAIN people
            BY <3>2
          <5> QED BY <5>1, <5>2
        <4>2. CASE people' = [e \in {x \in Outside(ParentBox(box, k), people) :
                                        Covers(ChildBox(box, k), people[x])} |-> people[e]]
          <5>1. {x \in Outside(ParentBox(box, k), people) : Covers(ChildBox(box, k), people[x])}
                    \in SUBSET DOMAIN people
            BY <3>2
          <5> QED BY <4>2, <5>1
        <4> QED BY <3>1, <4>1, <4>2
      <3> QED BY <3>1, <3>3
    <2>2. profile' = NoProfile /\ profile = Histogram(box, people) /\ ~AtFloor
      BY <1>2 DEF Split, IInv
    <2>3. \E a \in Axes : Width(box, a) >= 1
      <3>1. PICK a \in Axes : ~(Width(box, a) < 1)
        BY <2>2 DEF AtFloor
      <3>2. Width(box, a) \in Int
        BY DEF Width, IInv, ProperBox, Box, Interval
      <3> QED BY <3>1, <3>2
    <2>4. box' \in ProperBox
      BY <2>1, <2>2, <2>3, PartsAreProper DEF IInv
    <2>5. Placed(people')
      BY <2>1, SomePlaced DEF IInv
    <2>6. Recorded(last')
      BY <2>1, <2>2, <2>3 DEF Recorded, IInv
    <2> QED BY <2>2, <2>4, <2>5, <2>6 DEF IInv
  <1>3. CASE Walk
    <2>1. PICK e \in DOMAIN people, c \in Around(box) : people' = [people EXCEPT ![e] = c]
      BY <1>3 DEF Walk
    <2>2. box' = box /\ profile' = NoProfile /\ last' = NoSplit
      BY <1>3 DEF Walk
    <2>3. c \in Chunk
      <3>1. -ChunkLimit..ChunkLimit \subseteq Int
        BY ChunkLimitAssumption
      <3> QED BY <2>1, <3>1 DEF Around, Chunk
    <2>4. Placed(people')
      BY <2>1, <2>3 DEF IInv, Placed
    <2> QED BY <2>2, <2>4 DEF IInv
  <1>4. CASE HandedOff
    <2>1. PICK g \in Outside(box, people) : people' = [e \in DOMAIN people \ {g} |-> people[e]]
      BY <1>4 DEF HandedOff
    <2>2. box' = box /\ profile' = NoProfile /\ last' = NoSplit
      BY <1>4 DEF HandedOff
    <2>3. Placed(people')
      BY <2>1, SomePlaced DEF IInv
    <2> QED BY <2>2, <2>3 DEF IInv
  <1>5. CASE UNCHANGED vars
    BY <1>5 DEF vars, IInv, Recorded
  <1> QED BY <1>1, <1>2, <1>3, <1>4, <1>5 DEF Next

(* However a zone is cut, and whoever walks out of it, its box stays one a *)
(* zone can own, and trySplitDown cuts by the profile of its registry.     *)
THEOREM Invariance == Spec => []IInv
  BY Start, Step, PTL DEF Spec

(* TypeOK: cuts taken again and again (trySplitDown) never leave a zone    *)
(* with an inverted box, and the entities stay where chunks are.           *)
THEOREM TypeCorrectness == Spec => []TypeOK
  <1>1. IInv => TypeOK
    BY DEF IInv, Placed, TypeOK
  <1> QED BY <1>1, Invariance, PTL

(* PopulatedSplitPartitions: wherever in its box the people of a zone      *)
(* stand, the cut trySplitDown computes from their buckets has at least    *)
(* one chunk on each side, and the sides meet without a chunk shared or    *)
(* left out.                                                               *)
THEOREM PopulatedZonesArePartitioned == Spec => []PopulatedSplitPartitions
  <1>1. IInv => PopulatedSplitPartitions
    <2> SUFFICES ASSUME IInv, Crowded, Settled
                 PROVE  /\ last.cut.high = last.cut.low + 1
                        /\ last.cut.low \in last.box[last.cut.axis].lo .. last.box[last.cut.axis].hi - 1
      BY DEF PopulatedSplitPartitions
    <2>1. Recorded(last) /\ DOMAIN last.people # {} /\ Inside(last.box, last.people)
      BY DEF IInv, Crowded, Settled, Recorded, Inside
    <2>2. Clean(last.box, last.cut)
      BY <2>1, CutChosen DEF Recorded
    <2> QED BY <2>2 DEF Clean
  <1> QED BY <1>1, Invariance, PTL

(* SplitLeavesNothingOut: trySplitDown gives every chunk of the zone it    *)
(* splits to the parent or to the child, populated or not.                 *)
THEOREM NothingIsLeftOut == Spec => []SplitLeavesNothingOut
  <1>1. IInv => SplitLeavesNothingOut
    <2> SUFFICES ASSUME IInv, last # NoSplit, NEW c \in ChunksOf(last.box)
                 PROVE  Covers(ParentBox(last.box, last.cut), c) \/ Covers(ChildBox(last.box, last.cut), c)
      BY DEF SplitLeavesNothingOut
    <2>1. Recorded(last)
      BY DEF IInv
    <2>2. c \in Chunk /\ Covers(last.box, c)
      BY ChunksInside
    <2>3. CASE Clean(last.box, last.cut)
      <3>1. last.cut \in PopulationCuts(last.box)
        BY <2>1, <2>3, CleanCutFromPopulation DEF Recorded
      <3> QED BY <2>1, <2>2, <3>1, PopulationCutPartitions DEF Recorded
    <2>4. CASE last.cut \in GeometricCuts(last.box)
      BY <2>1, <2>2, <2>4, GeometricCutCovers DEF Recorded
    <2> QED BY <2>1, <2>3, <2>4, CutChosen DEF Recorded
  <1> QED BY <1>1, Invariance, PTL

(* CutIsFairest: for any number of buckets, of entities and of axes, a     *)
(* zone with no more chunks than buckets on an axis is cut as evenly as it *)
(* can be cut, whoever has left it: the reconstruction of trySplitDown     *)
(* from the histogram loses nothing.                                       *)
THEOREM NoFairerCut == Spec => []CutIsFairest
  <1>1. IInv => CutIsFairest
    <2> SUFFICES ASSUME IInv, Crowded, FineGrained(last.box),
                        NEW k \in Separating(last.box, last.people)
                 PROVE  Unevenness(last.people, last.cut) <= Unevenness(last.people, k)
      BY DEF CutIsFairest
    <2>1. Recorded(last)
      BY DEF IInv, Crowded
    <2> QED BY <2>1, FairestCut DEF Recorded
  <1> QED BY <1>1, Invariance, PTL

(* CutHugsCrowd: people who all stand in one chunk of the zone cannot be   *)
(* divided, and trySplitDown cuts right beside their chunk.                *)
THEOREM CrowdsAreHugged == Spec => []CutHugsCrowd
  <1>1. IInv => CutHugsCrowd
    <2> SUFFICES ASSUME IInv, Crowded, Settled, OneChunk(last.people), FineGrained(last.box),
                        NEW e \in DOMAIN last.people
                 PROVE  last.people[e][last.cut.axis] \in {last.cut.low, last.cut.high}
      BY DEF CutHugsCrowd
    <2>1. Recorded(last) /\ Inside(last.box, last.people)
      BY DEF IInv, Crowded, Settled, Recorded, Inside
    <2> QED BY <2>1, CrowdHugged DEF Recorded
  <1> QED BY <1>1, Invariance, PTL
=============================================================================
