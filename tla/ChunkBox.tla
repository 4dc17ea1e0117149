------------------------------ MODULE ChunkBox ------------------------------
(***************************************************************************)
(* The chunk geometry of the orchestrator: a zone owns a box, a closed     *)
(* interval of whole chunks on every axis.  The axes are numbered in the   *)
(* order the code tries them (AXIS_X first), and nothing here depends on   *)
(* there being three of them.                                              *)
(***************************************************************************)
EXTENDS Integers

CONSTANTS
    NAxes,       \* the number of axes (three in the code)
    ChunkLimit   \* CHUNK_COORD_LIMIT: no coordinate leaves -limit..limit

ASSUME NAxesAssumption == NAxes \in Nat \ {0}
ASSUME ChunkLimitAssumption == ChunkLimit \in Nat

Axes == 1..NAxes
Interval == [lo : Int, hi : Int]
Box == [Axes -> Interval]
Chunk == [Axes -> Int]

(* A box a zone can own: no interval of it is inverted. *)
ProperBox == {b \in Box : \A a \in Axes : b[a].lo <= b[a].hi}

Lesser(m, n) == IF m < n THEN m ELSE n
Greater(m, n) == IF m > n THEN m ELSE n
Clamp(v) == Lesser(Greater(v, -ChunkLimit), ChunkLimit)

-----------------------------------------------------------------------------
(* Covering, touching, width and volume *)

Covers(b, c) == \A a \in Axes : b[a].lo <= c[a] /\ c[a] <= b[a].hi

Touch(i, j) == i.hi + 1 = j.lo \/ j.hi + 1 = i.lo

Width(b, a) == b[a].hi - b[a].lo

(* Face neighbours: the boxes meet or overlap on every axis and their      *)
(* intervals touch end to end on exactly one.                              *)
FaceNeighbours(b, d) ==
    /\ \A a \in Axes : b[a].lo <= d[a].hi + 1 /\ d[a].lo <= b[a].hi + 1
    /\ \E a \in Axes : \A o \in Axes : Touch(b[o], d[o]) <=> o = a

zoneVolume(b) ==
    LET prefix[n \in 0..NAxes] ==
            IF n = 0 THEN 1 ELSE prefix[n - 1] * (Width(b, n) + 1)
    IN  prefix[NAxes]

-----------------------------------------------------------------------------
(* Merging two boxes *)

(* The axes along which the union of two boxes is again a box: they agree  *)
(* on every other axis and touch on this one.  Empty is the code's -1.     *)
mergeableAxes(b, d) ==
    {a \in Axes : Touch(b[a], d[a]) /\ \A o \in Axes \ {a} : b[o] = d[o]}

(* The interval the survivor of a merge is resized to. *)
Hull(i, j) == [lo |-> Lesser(i.lo, j.lo), hi |-> Greater(i.hi, j.hi)]

Resize(b, a, i) == [b EXCEPT ![a] = i]

(* A relocation stretches the box to a chunk, axis by axis, and never      *)
(* beyond the coordinate limit.                                            *)
Stretch(b, c) ==
    [a \in Axes |-> [lo |-> Clamp(Lesser(b[a].lo, c[a])),
                     hi |-> Clamp(Greater(b[a].hi, c[a]))]]

-----------------------------------------------------------------------------
(* Cutting a box in two *)

(* Integer division by two as C++ does it: towards zero. *)
Half(n) == IF n >= 0 THEN n \div 2 ELSE -((-n) \div 2)

(* The longest axis, the first one when several are equally long. *)
LongestAxes(b) ==
    {a \in Axes : \A o \in Axes : \/ Width(b, o) < Width(b, a)
                                 \/ (Width(b, o) = Width(b, a) /\ a <= o)}

(* A cut is an axis, the last chunk the parent keeps and the first chunk   *)
(* the child gets.                                                         *)
Cut == [axis : Axes, low : Int, high : Int]

GeometricCuts_apart(b) ==
    {[axis |-> a, low |-> Half(b[a].lo + b[a].hi - 1),
                  high |-> Half(b[a].lo + b[a].hi + 2)] : a \in LongestAxes(b)}

GeometricCuts(b) ==
    {[axis |-> a, low |-> Half(b[a].lo + b[a].hi),
                  high |-> Half(b[a].lo + b[a].hi + 1)] : a \in LongestAxes(b)}

(* A cut taken from the population leaves at least one chunk on each side. *)
PopulationCuts(b) ==
    {k \in [axis : Axes, low : UNION {b[a].lo .. b[a].hi : a \in Axes},
            high : UNION {b[a].lo .. b[a].hi : a \in Axes}] :
        /\ b[k.axis].lo <= k.low
        /\ k.low < b[k.axis].hi
        /\ k.high = k.low + 1}

ParentBox(b, k) == Resize(b, k.axis, [lo |-> b[k.axis].lo, hi |-> k.low])
ChildBox_late(b, k) == Resize(b, k.axis, [lo |-> k.high + 1, hi |-> b[k.axis].hi])

ChildBox(b, k) == Resize(b, k.axis, [lo |-> k.high, hi |-> b[k.axis].hi])
=============================================================================
