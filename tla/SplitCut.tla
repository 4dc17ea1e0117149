------------------------------ MODULE SplitCut ------------------------------
(***************************************************************************)
(* Where a split cuts.  The zone buckets the entities it simulates into    *)
(* one coarse histogram per axis; the head turns the histograms back into  *)
(* chunk coordinates and cuts where the population divides most evenly,    *)
(* else around the crowd, else down the geometric middle.                  *)
(*                                                                         *)
(* The machine follows one overloaded region through successive splits:    *)
(* box is the zone being split, people where the entities of its registry  *)
(* stand, some of them outside the box: they have walked out, or the box   *)
(* was cut, and the zone that gets them has not acknowledged them yet.     *)
(* After a split either part may be the next one to split.                 *)
(***************************************************************************)
EXTENDS ChunkBox, FiniteSets

CONSTANTS
    Entities,   \* the entities the zone simulates
    Buckets,    \* MAX_SPLIT_BUCKETS
    MaxStray,   \* bound: entities outside the box at a time
    StartBoxes  \* the boxes a zone may be deployed with

(* A bucket counts up to 0xFFFF; a zone serves fewer entities than that.   *)
Saturation == 65535

ASSUME EntitiesAssumption == IsFiniteSet(Entities) /\ Cardinality(Entities) <= Saturation
ASSUME BucketsAssumption == Buckets \in Nat /\ Buckets >= 2
ASSUME StartBoxesAssumption == StartBoxes \subseteq ProperBox

VARIABLES
    box,        \* the box of the zone that reports
    people,     \* the chunk each entity of its registry stands in
    profile,    \* the histograms of its last metrics sample (popProfiles)
    last        \* the last split: the box it cut, the people and the cut

vars == <<box, people, profile, last>>

Span(i) == i.hi - i.lo + 1

-----------------------------------------------------------------------------
(* The zone's half: the histogram it reports *)

bucket(v, i) ==
    IF Span(i) <= 1 THEN 0
    ELSE IF v < i.lo THEN 0
    ELSE Lesser(((v - i.lo) * Buckets) \div Span(i), Buckets - 1)

(* popX, popY and popZ of one metrics sample: every entity of the          *)
(* registry counts, one outside the box in the first or the last bucket.   *)
Histogram(b, ppl) ==
    [a \in Axes |-> [k \in 0..Buckets - 1 |->
        Lesser(Cardinality({e \in DOMAIN ppl : bucket(ppl[e][a], b[a]) = k}), Saturation)]]

-----------------------------------------------------------------------------
(* The head's half: the histogram turned back into a cut *)

endOfBucket(i, k) == i.lo + ((k + 1) * Span(i) - 1) \div Buckets

(* How many of a histogram's people are in its buckets 0..k: the walk over *)
(* the buckets keeps a running sum.                                        *)
UpTo(h, k) ==
    LET cum[b \in 0..Buckets - 1] == IF b = 0 THEN h[0] ELSE cum[b - 1] + h[b]
    IN  cum[k]

Distance(m, n) == IF m < n THEN n - m ELSE m - n

(* |cum - (total - cum)|: the imbalance of a cut after bucket k, times the *)
(* population.                                                             *)
Imbalance(h, k) == Distance(2 * UpTo(h, k), UpTo(h, Buckets - 1))

(* The bucket boundaries with chunks and people on both sides, each with   *)
(* its imbalance.  All the axes count the same people, so the imbalances   *)
(* compare as they are.                                                    *)
Boundaries(b, hist) ==
    {x \in {<<Imbalance(hist[a], k), a, k>> : a \in Axes, k \in 0..Buckets - 2} :
        /\ Span(b[x[2]]) >= 2
        /\ endOfBucket(b[x[2]], x[3]) \in b[x[2]].lo .. b[x[2]].hi - 1
        /\ x[1] < UpTo(hist[x[2]], Buckets - 1)}

Fairer_widest(x, y) == x[1] >= y[1]

(* Boundary x is preferred to y: it halves the population better or as     *)
(* well, and then the walk over axes and buckets meets it first.           *)
Fairer(x, y) ==
    \/ x[1] < y[1]
    \/ x[1] = y[1] /\ x[2] < y[2]
    \/ x[1] = y[1] /\ x[2] = y[2] /\ x[3] <= y[3]

HalvingCut_shared(b, boundaries) ==
    LET best == CHOOSE x \in boundaries : \A y \in boundaries : Fairer(x, y)
        low  == endOfBucket(b[best[2]], best[3])
    IN  [axis |-> best[2], low |-> low, high |-> low]

HalvingCut(b, boundaries) ==
    LET best == CHOOSE x \in boundaries : \A y \in boundaries : Fairer(x, y)
        low  == endOfBucket(b[best[2]], best[3])
    IN  [axis |-> best[2], low |-> low, high |-> low + 1]

(* The first of the fullest buckets. *)
heaviest(h) ==
    CHOOSE k \in 0..Buckets - 1 : \A j \in 0..Buckets - 1 :
        \/ h[j] < h[k]
        \/ h[j] = h[k] /\ k <= j

CrowdCut_early(i, a, h) ==
    LET below == IF heaviest(h) > 1 THEN endOfBucket(i, heaviest(h) - 2) ELSE i.lo - 1
        above == endOfBucket(i, heaviest(h))
        pick  == IF below \in i.lo .. i.hi - 1 THEN below
                 ELSE IF above \in i.lo .. i.hi - 1 THEN above ELSE i.lo - 1
    IN  [axis |-> a, low |-> pick, high |-> pick + 1]

(* Cutting around the crowd: below its bucket, else above it. *)
CrowdCut(i, a, h) ==
    LET below == IF heaviest(h) > 0 THEN endOfBucket(i, heaviest(h) - 1) ELSE i.lo - 1
        above == endOfBucket(i, heaviest(h))
        pick  == IF below \in i.lo .. i.hi - 1 THEN below
                 ELSE IF above \in i.lo .. i.hi - 1 THEN above ELSE i.lo - 1
    IN  [axis |-> a, low |-> pick, high |-> pick + 1]

CrowdAxes(b, hist) ==
    {a \in Axes : /\ Span(b[a]) >= 2
                  /\ hist[a][heaviest(hist[a])] > 0
                  /\ CrowdCut(b[a], a, hist[a]).low \in b[a].lo .. b[a].hi - 1}

(* The three tiers of trySplitDown. *)
ChooseCut(b, hist) ==
    LET boundaries == Boundaries(b, hist)
        crowded    == CrowdAxes(b, hist)
    IN  IF boundaries # {} THEN HalvingCut(b, boundaries)
        ELSE IF crowded # {}
             THEN LET a == CHOOSE x \in crowded : \A y \in crowded : x <= y
                  IN  CrowdCut(b[a], a, hist[a])
             ELSE CHOOSE k \in GeometricCuts(b) : TRUE

-----------------------------------------------------------------------------
(* The chunks of a box, and those an entity that leaves it steps into. *)
ChunksOf(b) == {c \in [Axes -> -ChunkLimit..ChunkLimit] : Covers(b, c)}
Around(b) ==
    {c \in [Axes -> -ChunkLimit..ChunkLimit] : \A a \in Axes : c[a] \in b[a].lo - 1 .. b[a].hi + 1}

(* Entities whose hand-off to another zone is not acknowledged yet. *)
Outside(b, ppl) == {e \in DOMAIN ppl : ~Covers(b, ppl[e])}

NoSplit == [box |-> <<>>, people |-> <<>>, cut |-> <<>>]
NoProfile == <<>>

Init ==
    /\ box \in StartBoxes
    /\ \E S \in SUBSET Entities : people \in [S -> ChunksOf(box)]
    /\ profile = NoProfile
    /\ last = NoSplit

AtFloor == \A a \in Axes : Width(box, a) < 1

(* The zone's metrics reach the head, which keeps the profile. *)
Report ==
    /\ profile = NoProfile
    /\ profile' = Histogram(box, people)
    /\ last' = NoSplit
    /\ UNCHANGED <<box, people>>

(* trySplitDown on a loaded zone: choose the cut, keep the lower side and  *)
(* give the child the upper one.  The parent keeps whoever it covers, and  *)
(* some of the others until they are acknowledged; the child gets those    *)
(* that only it covers.                                                    *)
Split ==
    /\ profile # NoProfile
    /\ ~AtFloor
    /\ \E cut \in {ChooseCut(box, profile)} :
        /\ \/ /\ box' = ParentBox(box, cut)
              /\ \E S \in SUBSET Outside(ParentBox(box, cut), people) :
                    /\ Cardinality(S) <= MaxStray
                    /\ people' = [e \in {x \in DOMAIN people : Covers(ParentBox(box, cut), people[x])} \cup S
                                    |-> people[e]]
           \/ /\ box' = ChildBox(box, cut)
              /\ people' = [e \in {x \in Outside(ParentBox(box, cut), people) :
                                        Covers(ChildBox(box, cut), people[x])} |-> people[e]]
        /\ last' = [box |-> box, people |-> people, cut |-> cut]
    /\ profile' = NoProfile

(* An entity walks to another chunk, of the zone or just outside it, and   *)
(* the next sample is awaited: the head decides on the sample it has just  *)
(* received.                                                               *)
Walk ==
    /\ \E e \in DOMAIN people, c \in Around(box) :
        /\ c # people[e]
        /\ people' = [people EXCEPT ![e] = c]
    /\ Cardinality(Outside(box, people')) <= MaxStray
    /\ last' = NoSplit
    /\ profile' = NoProfile
    /\ UNCHANGED box

(* The zone that gets an entity acknowledges it, and it leaves the         *)
(* registry.                                                               *)
HandedOff ==
    /\ \E g \in Outside(box, people) :
        people' = [e \in DOMAIN people \ {g} |-> people[e]]
    /\ last' = NoSplit
    /\ profile' = NoProfile
    /\ UNCHANGED box

Next == Report \/ Split \/ Walk \/ HandedOff

Spec == Init /\ [][Next]_vars

-----------------------------------------------------------------------------
(* Properties *)

(* Cuts taken again and again never leave a zone with an inverted box, and *)
(* the entities stay where chunks are.                                     *)
TypeOK ==
    /\ box \in ProperBox
    /\ DOMAIN people \subseteq Entities
    /\ \A e \in DOMAIN people : people[e] \in Chunk

Crowded == last # NoSplit /\ DOMAIN last.people # {}

(* Nobody the last split was decided on stood outside the box.             *)
Settled == Outside(last.box, last.people) = {}

(* trySplitDown cuts a zone whose people stand inside its box into two     *)
(* boxes that share no chunk and leave none out.  (Where the fullest       *)
(* bucket counts people outside the box there may be no chunk to cut at,   *)
(* and the cut is the one down the middle.)                                *)
PopulatedSplitPartitions ==
    Crowded /\ Settled =>
        /\ last.cut.high = last.cut.low + 1
        /\ last.cut.low \in last.box[last.cut.axis].lo .. last.box[last.cut.axis].hi - 1

(* However a zone is cut, an empty one down its middle included, every     *)
(* chunk of it is in the box trySplitDown resizes the parent to or in the  *)
(* one it gives the child, also where rounding makes both own the middle.  *)
SplitLeavesNothingOut ==
    last # NoSplit =>
        \A c \in ChunksOf(last.box) :
            Covers(ParentBox(last.box, last.cut), c) \/ Covers(ChildBox(last.box, last.cut), c)

(* A chunk cut that has people on both sides. *)
Separating(b, ppl) ==
    {k \in PopulationCuts(b) :
        /\ \E e \in DOMAIN ppl : ppl[e][k.axis] <= k.low
        /\ \E e \in DOMAIN ppl : ppl[e][k.axis] > k.low}

Unevenness(ppl, k) ==
    LET n == Cardinality({e \in DOMAIN ppl : ppl[e][k.axis] <= k.low})
    IN  Distance(2 * n, Cardinality(DOMAIN ppl))

FineGrained(b) == \A a \in Axes : Span(b[a]) <= Buckets

(* With no more chunks than buckets on an axis the histogram loses         *)
(* nothing: no cut between two chunks of the box divides the entities of   *)
(* the registry, those outside the box included, more evenly than the one  *)
(* trySplitDown chose from the buckets.                                    *)
CutIsFairest ==
    Crowded /\ FineGrained(last.box) =>
        \A k \in Separating(last.box, last.people) :
            Unevenness(last.people, last.cut) <= Unevenness(last.people, k)

OneChunk(ppl) == \A e, f \in DOMAIN ppl : ppl[e] = ppl[f]

(* When everybody stands in one chunk of the box no cut divides them, and  *)
(* trySplitDown cuts right beside them: on the axis it cuts, their chunk   *)
(* becomes the first or the last of the zone they are left in.  Two such   *)
(* cuts an axis bring that zone down to the chunk itself.                  *)
CutHugsCrowd ==
    Crowded /\ Settled /\ OneChunk(last.people) /\ FineGrained(last.box) =>
        \A e \in DOMAIN last.people :
            last.people[e][last.cut.axis] \in {last.cut.low, last.cut.high}
=============================================================================
