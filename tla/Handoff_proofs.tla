---------------------------- MODULE Handoff_proofs ----------------------------
(***************************************************************************)
(* Proofs about Handoff, for any number of zones, any boxes and any number *)
(* of moves, splits and merges: the only step that gives a zone a ghost of *)
(* its own object is a verdict that comes after the hand-off, and the only *)
(* one that can lose the object is the head's, when it finds no zone for   *)
(* the state it is to forward.                                             *)
(***************************************************************************)
EXTENDS Handoff, WellFoundedInduction, TLAPS

-----------------------------------------------------------------------------
(* Numbers and boxes *)

(* A set of natural numbers that is not empty has a least element. *)
LEMMA LeastNatural ==
    ASSUME NEW T \in SUBSET Nat, T # {}
    PROVE  \E x \in T : \A y \in T : x <= y
  <1>1. PICK R : R = OpToRel(<, Nat)
    OBVIOUS
  <1>2. IsWellFoundedOn(R, Nat)
    BY <1>1, NatLessThanWellFounded
  <1>3. PICK x \in T : \A y \in T : ~(<<y, x>> \in R)
    BY <1>2, WFMin
  <1>4. \A y \in Nat : y < x => <<y, x>> \in R
    BY <1>1 DEF OpToRel
  <1>5. ASSUME NEW y \in T PROVE x <= y
    <2>1. x \in Nat /\ y \in Nat /\ ~(y < x)
      BY <1>3, <1>4
    <2> QED BY <2>1
  <1> QED BY <1>5

(* Lesser, Greater and Clamp stay within the integers; Clamp also stays    *)
(* within the coordinate limit.                                            *)
LEMMA BoundsType ==
    ASSUME NEW m \in Int, NEW n \in Int
    PROVE  /\ Lesser(m, n) \in Int
           /\ Greater(m, n) \in Int
           /\ Clamp(m) \in -ChunkLimit..ChunkLimit
  BY ChunkLimitAssumption DEF Lesser, Greater, Clamp

(* The interval a merge resizes to is an interval. *)
LEMMA HullType ==
    ASSUME NEW i \in Interval, NEW j \in Interval
    PROVE  Hull(i, j) \in Interval
  BY BoundsType DEF Hull, Interval

(* A box resized on an axis is a box. *)
LEMMA ResizeType ==
    ASSUME NEW b \in Box, NEW a \in Axes, NEW i \in Interval
    PROVE  Resize(b, a, i) \in Box
  BY DEF Resize, Box

(* The cuts of a box, geometric or from the population, are cuts. *)
LEMMA CutsType ==
    ASSUME NEW b \in Box
    PROVE  PopulationCuts(b) \cup GeometricCuts(b) \subseteq Cut
  <1>1. PopulationCuts(b) \subseteq Cut
    BY DEF PopulationCuts, Cut, Box, Interval
  <1>2. ASSUME NEW a \in LongestAxes(b)
        PROVE  Half(b[a].lo + b[a].hi) \in Int /\ Half(b[a].lo + b[a].hi + 1) \in Int
    <2>1. \A n \in Int : Half(n) \in Int
      BY DEF Half
    <2>2. a \in Axes /\ b[a].lo \in Int /\ b[a].hi \in Int
      BY DEF LongestAxes, Box, Interval
    <2> QED BY <2>1, <2>2
  <1>3. GeometricCuts(b) \subseteq Cut
    BY <1>2 DEF GeometricCuts, Cut, LongestAxes
  <1> QED BY <1>1, <1>3

(* The parts of a zone cut by its population, and the union of two zones   *)
(* that touch, are boxes that are not inverted.                            *)
LEMMA ProperParts ==
    ASSUME NEW b \in ProperBox
    PROVE  /\ \A k \in PopulationCuts(b) : ParentBox(b, k) \in ProperBox /\ ChildBox(b, k) \in ProperBox
           /\ \A d \in ProperBox, a \in Axes : Resize(b, a, Hull(b[a], d[a])) \in ProperBox
  <1>1. b \in Box /\ \A a \in Axes : b[a] \in Interval /\ b[a].lo <= b[a].hi
    BY DEF ProperBox, Box
  <1>2. ASSUME NEW a \in Axes, NEW i \in Interval, i.lo <= i.hi
        PROVE  Resize(b, a, i) \in ProperBox
    <2>1. Resize(b, a, i) \in Box
      BY <1>1, ResizeType
    <2>2. \A o \in Axes : Resize(b, a, i)[o] = IF o = a THEN i ELSE b[o]
      BY <1>1 DEF Resize, Box
    <2> QED BY <1>1, <1>2, <2>1, <2>2 DEF ProperBox
  <1>3. ASSUME NEW k \in PopulationCuts(b)
        PROVE  ParentBox(b, k) \in ProperBox /\ ChildBox(b, k) \in ProperBox
    <2>1. k.axis \in Axes /\ k.low \in Int /\ k.high \in Int
      BY <1>1, CutsType DEF Cut
    <2>2. b[k.axis].lo <= k.low /\ k.low < b[k.axis].hi /\ k.high = k.low + 1
      BY DEF PopulationCuts
    <2>3. PICK i, j : i = [lo |-> b[k.axis].lo, hi |-> k.low] /\ j = [lo |-> k.high, hi |-> b[k.axis].hi]
      OBVIOUS
    <2>4. b[k.axis].lo \in Int /\ b[k.axis].hi \in Int
      BY <1>1, <2>1 DEF Interval
    <2>5. i \in Interval /\ i.lo <= i.hi /\ j \in Interval /\ j.lo <= j.hi
      BY <2>1, <2>2, <2>3, <2>4 DEF Interval
    <2> QED BY <1>2, <2>1, <2>3, <2>5 DEF ParentBox, ChildBox
  <1>4. ASSUME NEW d \in ProperBox, NEW a \in Axes
        PROVE  Resize(b, a, Hull(b[a], d[a])) \in ProperBox
    <2>1. d[a] \in Interval /\ d[a].lo <= d[a].hi /\ b[a] \in Interval /\ b[a].lo <= b[a].hi
      BY <1>1 DEF ProperBox, Box
    <2>2. Hull(b[a], d[a]) \in Interval
      BY <2>1, HullType
    <2>3. Hull(b[a], d[a]).lo <= Hull(b[a], d[a]).hi
      BY <2>1 DEF Hull, Lesser, Greater, Interval
    <2> QED BY <1>2, <2>2, <2>3
  <1> QED BY <1>3, <1>4

-----------------------------------------------------------------------------
(* What is on the way *)

ZoneStates == {"spare", "booting", "ready", "draining", "destroyed"}
HeadBound == Offers \cup Reports \cup [type : {"drained"}]
ZoneBound == Offers \cup Commands \cup [type : {"routed", "unrouted", "drain", "delete"}]

Types ==
    /\ box \in [Zones -> ProperBox \cup {NoBox}]
    /\ copy \in [Zones -> Chunk \cup {NoChunk}]
    /\ leased \subseteq Zones /\ ghost \subseteq Zones /\ draining \subseteq Zones
    /\ table \in [Zones -> ProperBox \cup {NoBox}]
    /\ state \in [Zones -> ZoneStates]
    /\ \A z \in Zones : state[z] = "ready" => table[z] \in ProperBox
    /\ toHead \in [Zones -> Seq(HeadBound)]
    /\ toZone \in [Zones -> Seq(ZoneBound)]

(* A zone that does not drain holds a lease on what it holds: a drain will *)
(* publish it.                                                             *)
Leases == \A z \in Zones \ draining : Holds(z) => z \in leased

HasType(q, t) == \E i \in DOMAIN q : q[i].type = t

(* A zone is deleted after it has drained ... *)
DeletedAfterDrain ==
    \A z \in Zones :
        HasType(toHead[z], "drained") \/ HasType(toZone[z], "delete") => z \in draining

(* ... and the head routes nothing to a zone it has told to drain. *)
RoutedAreUndrained ==
    \A z \in Zones : state[z] \in {"spare", "booting", "ready"} =>
        z \notin draining /\ ~HasType(toZone[z], "drain")

(* The state of the object follows the reassignment it belongs to. *)
Whole(q) ==
    \A i \in DOMAIN q : q[i].type = "reassign" => i + 1 \in DOMAIN q /\ q[i + 1].type = "entity"

OffersWhole == \A z \in Zones : Whole(toHead[z])

(* A player asks for a chunk. *)
Requests == asked \in [Zones -> World \cup {NoChunk}]

Core == Types /\ Leases /\ DeletedAfterDrain /\ RoutedAreUndrained /\ OffersWhole

IInv == Core /\ Requests

-----------------------------------------------------------------------------
(* Messages and queues *)

(* What the fields of a message are follows from its type. *)
LEMMA MessageFields ==
    /\ \A m \in ZoneBound : /\ m.type \in {"entity", "ghost", "reassign"} => m.chunk \in Chunk
                            /\ m.type = "resize" => m.box \in ProperBox
    /\ \A m \in HeadBound : /\ m.type \in {"entity", "ghost", "reassign"} =>
                                   m.chunk \in Chunk /\ m \in Offers /\ m \in ZoneBound
                            /\ m.type = "report" => m.box \in ProperBox
    /\ \A t \in {"routed", "unrouted", "drain", "delete"} : [type |-> t] \in ZoneBound
    /\ \A b \in ProperBox : /\ [type |-> "resize", box |-> b] \in ZoneBound
                            /\ [type |-> "report", box |-> b] \in HeadBound
    /\ \A c \in Chunk, t \in {"entity", "ghost", "reassign"} :
            [type |-> t, chunk |-> c] \in HeadBound
    /\ [type |-> "drained"] \in HeadBound
  BY DEF ZoneBound, HeadBound, Offers, Reports, Commands

(* No chunk and no box is the empty sequence. *)
LEMMA NothingIsEmpty == NoChunk \notin Chunk /\ NoBox \notin ProperBox
  <1>1. \A f \in Chunk \cup Box : 1 \in DOMAIN f
    BY NAxesAssumption DEF Chunk, Box, Axes
  <1>2. 1 \notin DOMAIN <<>>
    OBVIOUS
  <1> QED BY <1>1, <1>2 DEF NoChunk, NoBox, ProperBox

(* The elements of a queue with one more element. *)
LEMMA AppendElements ==
    ASSUME NEW S, NEW q \in Seq(S), NEW m \in S
    PROVE  /\ Append(q, m) \in Seq(S) /\ Len(q) \in Nat
           /\ DOMAIN q = 1..Len(q) /\ DOMAIN Append(q, m) = 1..Len(q) + 1
           /\ \A i \in 1..Len(q) : Append(q, m)[i] = q[i]
           /\ Append(q, m)[Len(q) + 1] = m
           /\ Len(Append(q, m)) = Len(q) + 1
  OBVIOUS

(* The elements of a queue whose first one was taken. *)
LEMMA TailElements ==
    ASSUME NEW S, NEW q \in Seq(S), q # <<>>
    PROVE  /\ Tail(q) \in Seq(S) /\ Len(q) \in Nat \ {0} /\ Len(Tail(q)) = Len(q) - 1
           /\ DOMAIN q = 1..Len(q) /\ DOMAIN Tail(q) = 1..Len(q) - 1
           /\ \A i \in 1..Len(q) - 1 : Tail(q)[i] = q[i + 1]
           /\ Head(q) = q[1] /\ Head(q) \in S
  OBVIOUS

(* Types of messages in a queue that grows or shrinks. *)
LEMMA TypesInQueue ==
    ASSUME NEW S, NEW q \in Seq(S)
    PROVE  /\ \A m \in S : \A t : HasType(Append(q, m), t) <=> HasType(q, t) \/ m.type = t
           /\ q # <<>> => \A t : HasType(q, t) <=> HasType(Tail(q), t) \/ Head(q).type = t
  <1>1. ASSUME NEW m \in S, NEW t PROVE HasType(Append(q, m), t) <=> HasType(q, t) \/ m.type = t
    <2>1. PICK r : r = Append(q, m)
      OBVIOUS
    <2>2. /\ DOMAIN q = 1..Len(q) /\ DOMAIN r = 1..Len(q) + 1 /\ Len(q) \in Nat
          /\ \A i \in 1..Len(q) : r[i] = q[i]
          /\ r[Len(q) + 1] = m
      BY <2>1, AppendElements
    <2>3. HasType(r, t) <=> HasType(q, t) \/ m.type = t
      BY <2>2 DEF HasType
    <2> QED BY <2>1, <2>3
  <1>2. ASSUME q # <<>>, NEW t PROVE HasType(q, t) <=> HasType(Tail(q), t) \/ Head(q).type = t
    <2>1. PICK r : r = Tail(q)
      OBVIOUS
    <2>2. /\ DOMAIN q = 1..Len(q) /\ DOMAIN r = 1..Len(q) - 1 /\ Len(q) \in Nat \ {0}
          /\ \A i \in 1..Len(q) - 1 : r[i] = q[i + 1]
          /\ Head(q) = q[1]
      BY <1>2, <2>1, TailElements
    <2>3. ASSUME HasType(q, t) PROVE HasType(r, t) \/ Head(q).type = t
      <3>1. PICK i \in 1..Len(q) : q[i].type = t
        BY <2>2, <2>3 DEF HasType
      <3>2. CASE i = 1
        BY <2>2, <3>1, <3>2
      <3>3. CASE i # 1
        <4>1. i - 1 \in DOMAIN r /\ r[i - 1] = q[i]
          BY <2>2, <3>1, <3>3
        <4> QED BY <3>1, <4>1 DEF HasType
      <3> QED BY <3>2, <3>3
    <2>4. ASSUME HasType(r, t) \/ Head(q).type = t PROVE HasType(q, t)
      <3>1. CASE Head(q).type = t
        BY <2>2, <3>1 DEF HasType
      <3>2. CASE HasType(r, t)
        <4>1. PICK i \in 1..Len(q) - 1 : r[i].type = t
          BY <2>2, <3>2 DEF HasType
        <4>2. i + 1 \in DOMAIN q /\ q[i + 1].type = t
          BY <2>2, <4>1
        <4> QED BY <4>2 DEF HasType
      <3> QED BY <2>4, <3>1, <3>2
    <2> QED BY <2>1, <2>3, <2>4
  <1>3. \A m \in S : \A t : HasType(Append(q, m), t) <=> HasType(q, t) \/ m.type = t
    BY <1>1
  <1>4. q # <<>> => \A t : HasType(q, t) <=> HasType(Tail(q), t) \/ Head(q).type = t
    BY <1>2
  <1> QED BY <1>3, <1>4

(* An offer stays whole when other messages follow and when the head       *)
(* handles those before it.                                                *)
LEMMA WholeQueue ==
    ASSUME NEW S, NEW q \in Seq(S), Whole(q)
    PROVE  /\ \A m \in S : m.type # "reassign" => Whole(Append(q, m))
           /\ q # <<>> => Whole(Tail(q))
           /\ q # <<>> /\ Head(q).type = "reassign" => HasType(Tail(q), "entity")
           /\ \A m, n \in S : n.type = "entity" => Whole(Append(Append(q, m), n))
  <1>1. ASSUME NEW m \in S, m.type # "reassign" PROVE Whole(Append(q, m))
    BY <1>1, AppendElements DEF Whole
  <1>2. ASSUME q # <<>> PROVE Whole(Tail(q))
    <2>1. PICK r : r = Tail(q)
      OBVIOUS
    <2>2. /\ DOMAIN q = 1..Len(q) /\ DOMAIN r = 1..Len(q) - 1 /\ Len(q) \in Nat \ {0}
          /\ \A i \in 1..Len(q) - 1 : r[i] = q[i + 1]
      BY <1>2, <2>1, TailElements
    <2>3. ASSUME NEW i \in DOMAIN r, r[i].type = "reassign"
          PROVE  i + 1 \in DOMAIN r /\ r[i + 1].type = "entity"
      <3>1. i + 1 \in DOMAIN q /\ q[i + 1].type = "reassign"
        BY <2>2, <2>3
      <3>2. i + 1 + 1 \in DOMAIN q /\ q[i + 1 + 1].type = "entity"
        BY <3>1 DEF Whole
      <3>3. i + 1 \in 1..Len(q) - 1 /\ r[i + 1] = q[i + 1 + 1]
        BY <2>2, <3>2
      <3> QED BY <2>2, <3>2, <3>3
    <2> QED BY <2>1, <2>3 DEF Whole
  <1>3. ASSUME q # <<>>, Head(q).type = "reassign" PROVE HasType(Tail(q), "entity")
    <2>1. PICK r : r = Tail(q)
      OBVIOUS
    <2>2. /\ DOMAIN q = 1..Len(q) /\ DOMAIN r = 1..Len(q) - 1 /\ Len(q) \in Nat \ {0}
          /\ \A i \in 1..Len(q) - 1 : r[i] = q[i + 1]
          /\ Head(q) = q[1]
      BY <1>3, <2>1, TailElements
    <2>3. 1 \in DOMAIN q /\ q[1].type = "reassign"
      BY <1>3, <2>2
    <2>4. 1 + 1 \in DOMAIN q /\ q[1 + 1].type = "entity"
      BY <2>3 DEF Whole
    <2>5. 1 \in DOMAIN r /\ r[1] = q[1 + 1]
      BY <2>2, <2>4
    <2> QED BY <2>1, <2>4, <2>5 DEF HasType
  <1>4. ASSUME NEW m \in S, NEW n \in S, n.type = "entity" PROVE Whole(Append(Append(q, m), n))
    <2>1. PICK r : r = Append(q, m)
      OBVIOUS
    <2>2. /\ r \in Seq(S) /\ Len(r) = Len(q) + 1 /\ DOMAIN r = 1..Len(q) + 1
          /\ DOMAIN q = 1..Len(q) /\ Len(q) \in Nat
          /\ \A i \in 1..Len(q) : r[i] = q[i]
      BY <2>1, AppendElements
    <2>3. /\ DOMAIN Append(r, n) = 1..Len(q) + 2 /\ Append(r, n)[Len(q) + 2] = n
          /\ \A i \in 1..Len(q) + 1 : Append(r, n)[i] = r[i]
      BY <2>2, AppendElements
    <2> QED BY <1>4, <2>1, <2>2, <2>3 DEF Whole
  <1> QED BY <1>1, <1>2, <1>3, <1>4

(* The zone the head routes to is routable. *)
LEMMA TargetIsRoutable ==
    ASSUME NEW c, findTargetNode(c) # NoZone
    PROVE  findTargetNode(c) \in Zones /\ state[findTargetNode(c)] = "ready"
  <1> DEFINE S == {z \in Zones : isRoutable(z) /\ Covers(table[z], c)}
  <1>1. S # {} /\ findTargetNode(c) = CHOOSE z \in S : \A o \in S : z <= o
    BY DEF findTargetNode
  <1>2. S \in SUBSET Nat
    BY NZonesAssumption DEF Zones
  <1>3. \E z \in S : \A o \in S : z <= o
    <2> HIDE DEF S
    <2> QED BY <1>1, <1>2, LeastNatural
  <1>4. findTargetNode(c) \in S
    BY <1>1, <1>3
  <1> QED BY <1>4 DEF isRoutable
-----------------------------------------------------------------------------
(* What reading, handling and sending do to the queues *)

(* A zone reads a packet. *)
LEMMA ReadsEffect ==
    ASSUME Types, NEW z \in Zones, NEW t, Reads(z, t)
    PROVE  /\ toZone' \in [Zones -> Seq(ZoneBound)]
           /\ toZone[z] \in Seq(ZoneBound) /\ toZone[z] # <<>> /\ toZone'[z] = Tail(toZone[z])
           /\ Head(toZone[z]) \in ZoneBound /\ Head(toZone[z]).type = t /\ HasType(toZone[z], t)
           /\ \A n \in Zones \ {z} : toZone'[n] = toZone[n]
           /\ \A n \in Zones : \A u : HasType(toZone'[n], u) => HasType(toZone[n], u)
  <1>1. /\ toZone[z] \in Seq(ZoneBound) /\ toZone[z] # <<>> /\ Head(toZone[z]).type = t
        /\ toZone' = [toZone EXCEPT ![z] = Tail(toZone[z])]
    BY DEF Types, Reads
  <1>2. Tail(toZone[z]) \in Seq(ZoneBound) /\ Head(toZone[z]) \in ZoneBound
    BY <1>1, TailElements
  <1>3. \A u : HasType(toZone[z], u) <=> HasType(Tail(toZone[z]), u) \/ Head(toZone[z]).type = u
    BY <1>1, TypesInQueue
  <1> QED BY <1>1, <1>2, <1>3 DEF Types

(* The head handles a packet. *)
LEMMA ArrivesEffect ==
    ASSUME Types, OffersWhole, NEW z \in Zones, NEW t, Arrives(z, t)
    PROVE  /\ toHead' \in [Zones -> Seq(HeadBound)] /\ OffersWhole'
           /\ Head(toHead[z]) \in HeadBound /\ Head(toHead[z]).type = t /\ HasType(toHead[z], t)
           /\ \A n \in Zones : \A u : HasType(toHead'[n], u) => HasType(toHead[n], u)
           /\ \A n \in Zones : \A u : u # t => (HasType(toHead'[n], u) <=> HasType(toHead[n], u))
           /\ t = "reassign" => HasType(toHead'[z], "entity")
  <1>1. /\ toHead[z] \in Seq(HeadBound) /\ toHead[z] # <<>> /\ Head(toHead[z]).type = t
        /\ toHead' = [toHead EXCEPT ![z] = Tail(toHead[z])] /\ Whole(toHead[z])
    BY DEF Types, Arrives, OffersWhole
  <1>2. Tail(toHead[z]) \in Seq(HeadBound) /\ Head(toHead[z]) \in HeadBound
    BY <1>1, TailElements
  <1>3. \A u : HasType(toHead[z], u) <=> HasType(Tail(toHead[z]), u) \/ Head(toHead[z]).type = u
    BY <1>1, TypesInQueue
  <1>4. Whole(Tail(toHead[z])) /\ (t = "reassign" => HasType(Tail(toHead[z]), "entity"))
    BY <1>1, WholeQueue
  <1>5. OffersWhole'
    BY <1>1, <1>4 DEF OffersWhole, Types
  <1> QED BY <1>1, <1>2, <1>3, <1>4, <1>5 DEF Types

(* A zone sends a packet that is no reassignment. *)
LEMMA ToHeadEffect ==
    ASSUME Types, OffersWhole, NEW z \in Zones, NEW m \in HeadBound, m.type # "reassign",
           toHead' = [toHead EXCEPT ![z] = Append(@, m)]
    PROVE  /\ toHead' \in [Zones -> Seq(HeadBound)] /\ OffersWhole'
           /\ \A n \in Zones : \A u : HasType(toHead[n], u) => HasType(toHead'[n], u)
           /\ \A n \in Zones : \A u : u # m.type => (HasType(toHead'[n], u) <=> HasType(toHead[n], u))
           /\ HasType(toHead'[z], m.type)
  <1>1. /\ toHead[z] \in Seq(HeadBound) /\ Whole(toHead[z])
        /\ toHead' = [toHead EXCEPT ![z] = Append(toHead[z], m)]
    BY DEF Types, OffersWhole
  <1>2. Append(toHead[z], m) \in Seq(HeadBound)
    BY <1>1
  <1>3. \A u : HasType(Append(toHead[z], m), u) <=> HasType(toHead[z], u) \/ m.type = u
    BY <1>1, TypesInQueue
  <1>4. Whole(Append(toHead[z], m))
    BY <1>1, WholeQueue
  <1>5. OffersWhole'
    BY <1>1, <1>4 DEF OffersWhole, Types
  <1> QED BY <1>1, <1>2, <1>3, <1>5 DEF Types

(* A step of the head that may write one packet to every zone: drains only *)
(* to zones it stops routing to, deletions only to zones that have         *)
(* drained.                                                                *)
Deliveries ==
    /\ toZone' = [n \in Zones |-> toZone'[n]]
    /\ \A n \in Zones : \/ toZone'[n] = toZone[n]
                        \/ \E m \in ZoneBound : /\ toZone'[n] = Append(toZone[n], m)
                                                /\ m.type = "delete" => n \in draining
                                                /\ m.type = "drain" => state'[n] = "draining"

(* What the head writes to the zones in one step breaks neither the order  *)
(* of drains and deletions nor the types.                                  *)
LEMMA DeliveriesEffect ==
    ASSUME Core, Deliveries, draining' = draining,
           \A n \in Zones : HasType(toHead'[n], "drained") => HasType(toHead[n], "drained"),
           \A n \in Zones : state'[n] \in {"spare", "booting", "ready"} =>
                                state[n] \in {"spare", "booting", "ready"}
    PROVE  toZone' \in [Zones -> Seq(ZoneBound)] /\ DeletedAfterDrain' /\ RoutedAreUndrained'
  <1>1. ASSUME NEW n \in Zones
        PROVE  /\ toZone'[n] \in Seq(ZoneBound)
               /\ HasType(toZone'[n], "delete") => HasType(toZone[n], "delete") \/ n \in draining
               /\ HasType(toZone'[n], "drain") => HasType(toZone[n], "drain") \/ state'[n] = "draining"
    <2>1. toZone[n] \in Seq(ZoneBound)
      BY DEF Core, Types
    <2>2. CASE toZone'[n] = toZone[n]
      BY <2>1, <2>2
    <2>3. CASE toZone'[n] # toZone[n]
      <3>1. PICK m \in ZoneBound : /\ toZone'[n] = Append(toZone[n], m)
                                   /\ m.type = "delete" => n \in draining
                                   /\ m.type = "drain" => state'[n] = "draining"
        BY <2>3 DEF Deliveries
      <3>2. \A u : HasType(Append(toZone[n], m), u) <=> HasType(toZone[n], u) \/ m.type = u
        BY <2>1, TypesInQueue
      <3>3. Append(toZone[n], m) \in Seq(ZoneBound)
        BY <2>1
      <3> QED BY <3>1, <3>2, <3>3
    <2> QED BY <2>2, <2>3
  <1>2. toZone' \in [Zones -> Seq(ZoneBound)]
    BY <1>1 DEF Deliveries
  <1>3. DeletedAfterDrain'
    BY <1>1 DEF Core, DeletedAfterDrain
  <1>4. RoutedAreUndrained'
    BY <1>1 DEF Core, RoutedAreUndrained
  <1> QED BY <1>2, <1>3, <1>4

-----------------------------------------------------------------------------
(* The steps of a zone preserve the invariant *)

(* What the box, the table and the registry are is left alone. *)
LEMMA OwnStep ==
    ASSUME Core, Requests, NEW z \in Zones,
           \/ AskMove(z) \/ MoveObject(z) \/ checkAndTransfer(z) \/ RetryIsDue(z)
           \/ emitGhostDeltas(z) \/ GhostExpires(z) \/ Report(z)
    PROVE  Core'
  <1>1. CASE MoveObject(z)
    <2>1. PICK c \in World : copy' = [copy EXCEPT ![z] = c]
      BY <1>1 DEF MoveObject, Requests
    <2>2. Types'
      BY <1>1, <2>1, WorldAssumption DEF MoveObject, Core, Types, headVars
    <2>3. Leases'
      BY <1>1, <2>1, WorldAssumption, NothingIsEmpty DEF MoveObject, Core, Types, Leases, Holds
    <2>4. DeletedAfterDrain' /\ RoutedAreUndrained' /\ OffersWhole'
      BY <1>1 DEF MoveObject, Core, DeletedAfterDrain, RoutedAreUndrained, OffersWhole, headVars
    <2> QED BY <2>2, <2>3, <2>4 DEF Core
  <1>2. CASE checkAndTransfer(z)
    <2>1. UNCHANGED <<box, copy, leased, ghost, draining, table, state, toZone>>
      BY <1>2 DEF checkAndTransfer, headVars
    <2>2. PICK r, e : /\ r = [type |-> "reassign", chunk |-> copy[z]]
                      /\ e = [type |-> "entity", chunk |-> copy[z]]
      OBVIOUS
    <2>3. copy[z] \in Chunk /\ toHead[z] \in Seq(HeadBound) /\ Whole(toHead[z])
      BY <1>2 DEF checkAndTransfer, Offer, Holds, Core, Types, OffersWhole
    <2>4. r \in HeadBound /\ e \in HeadBound /\ r.type = "reassign" /\ e.type = "entity"
      BY <2>2, <2>3, MessageFields
    <2>5. toHead' = [toHead EXCEPT ![z] = Append(Append(toHead[z], r), e)]
      <3>1. toHead' = [toHead EXCEPT ![z] = toHead[z] \o <<r, e>>]
        BY <1>2, <2>2 DEF checkAndTransfer, Offer
      <3>2. toHead[z] \o <<r, e>> = Append(Append(toHead[z], r), e)
        BY <2>3, <2>4
      <3> QED BY <3>1, <3>2
    <2>6. Append(toHead[z], r) \in Seq(HeadBound) /\ Append(Append(toHead[z], r), e) \in Seq(HeadBound)
      BY <2>3, <2>4
    <2>7. \A t : HasType(Append(Append(toHead[z], r), e), t) <=>
                    HasType(toHead[z], t) \/ r.type = t \/ e.type = t
      <3>1. \A t : HasType(Append(toHead[z], r), t) <=> HasType(toHead[z], t) \/ r.type = t
        BY <2>3, <2>4, TypesInQueue
      <3>2. PICK w : w = Append(toHead[z], r)
        OBVIOUS
      <3>3. w \in Seq(HeadBound)
        BY <2>6, <3>2
      <3>4. \A t : HasType(Append(w, e), t) <=> HasType(w, t) \/ e.type = t
        BY <2>4, <3>3, TypesInQueue
      <3> QED BY <3>1, <3>2, <3>4
    <2>8. Whole(Append(Append(toHead[z], r), e))
      BY <2>3, <2>4, WholeQueue
    <2>9. \A n \in Zones : HasType(toHead'[n], "drained") => HasType(toHead[n], "drained")
      BY <2>4, <2>5, <2>7 DEF Core, Types
    <2>10. Types'
      BY <2>1, <2>5, <2>6 DEF Core, Types
    <2>11. OffersWhole'
      BY <2>5, <2>8 DEF Core, Types, OffersWhole
    <2>12. DeletedAfterDrain' /\ RoutedAreUndrained'
      BY <2>1, <2>9 DEF Core, DeletedAfterDrain, RoutedAreUndrained
    <2>13. Leases'
      BY <2>1 DEF Core, Leases, Holds
    <2> QED BY <2>10, <2>11, <2>12, <2>13 DEF Core
  <1>3. CASE AskMove(z) \/ RetryIsDue(z)
    BY <1>3 DEF AskMove, RetryIsDue, zoneVars, headVars, Core, Types, Leases, DeletedAfterDrain, RoutedAreUndrained,
                OffersWhole, Holds
  <1>4. CASE GhostExpires(z)
    BY <1>4 DEF GhostExpires, headVars, Core, Types, Leases, DeletedAfterDrain, RoutedAreUndrained,
                OffersWhole, Holds
  <1>5. ASSUME NEW m \in HeadBound, m.type \notin {"reassign", "drained"},
               toHead' = [toHead EXCEPT ![z] = Append(@, m)],
               UNCHANGED <<box, copy, leased, ghost, draining, table, state, toZone>>
        PROVE  Core'
    <2>1. /\ toHead' \in [Zones -> Seq(HeadBound)] /\ OffersWhole'
          /\ \A n \in Zones : HasType(toHead'[n], "drained") => HasType(toHead[n], "drained")
      BY <1>5, ToHeadEffect DEF Core
    <2>2. Types'
      BY <1>5, <2>1 DEF Core, Types
    <2>3. DeletedAfterDrain' /\ RoutedAreUndrained'
      BY <1>5, <2>1 DEF Core, DeletedAfterDrain, RoutedAreUndrained
    <2>4. Leases'
      BY <1>5 DEF Core, Leases, Holds
    <2> QED BY <2>1, <2>2, <2>3, <2>4 DEF Core
  <1>6. CASE emitGhostDeltas(z)
    <2>1. copy[z] \in Chunk
      BY <1>6 DEF emitGhostDeltas, Holds, Core, Types
    <2>2. PICK m : m = [type |-> "ghost", chunk |-> copy[z]]
      OBVIOUS
    <2>3. m \in HeadBound /\ m.type = "ghost"
      BY <2>1, <2>2, MessageFields
    <2> QED BY <1>5, <1>6, <2>2, <2>3 DEF emitGhostDeltas, headVars
  <1>7. CASE Report(z)
    <2>1. box[z] \in ProperBox
      BY <1>7 DEF Report, Running, Core, Types
    <2>2. PICK m : m = [type |-> "report", box |-> box[z]]
      OBVIOUS
    <2>3. m \in HeadBound /\ m.type = "report"
      BY <2>1, <2>2, MessageFields
    <2> QED BY <1>5, <1>7, <2>2, <2>3 DEF Report, zoneVars, headVars
  <1> QED BY <1>1, <1>2, <1>3, <1>4, <1>6, <1>7

(* A packet of the head read by a zone. *)
LEMMA ReadStep ==
    ASSUME Core, NEW z \in Zones, ZoneReads(z)
    PROVE  Core'
  <1>1. ASSUME NEW t, Reads(z, t), toHead' = toHead, draining' = draining, state' = state
        PROVE  /\ toZone' \in [Zones -> Seq(ZoneBound)]
               /\ DeletedAfterDrain' /\ RoutedAreUndrained' /\ OffersWhole'
    <2>1. /\ toZone' \in [Zones -> Seq(ZoneBound)]
          /\ \A n \in Zones : \A u : HasType(toZone'[n], u) => HasType(toZone[n], u)
      BY <1>1, ReadsEffect DEF Core
    <2> QED BY <1>1, <2>1 DEF Core, DeletedAfterDrain, RoutedAreUndrained, OffersWhole
  <1>2. ASSUME NEW t, Reads(z, t)
        PROVE  Head(toZone[z]) \in ZoneBound /\ Head(toZone[z]).type = t /\ HasType(toZone[z], t)
    BY <1>2, ReadsEffect DEF Core
  <1>3. CASE ZoneEntity(z)
    <2>1. Head(toZone[z]).chunk \in Chunk
      BY <1>2, <1>3, MessageFields DEF ZoneEntity
    <2>2. Leases'
      BY <1>3 DEF ZoneEntity, Core, Types, Leases, Holds
    <2> QED BY <1>1, <1>3, <2>1, <2>2 DEF ZoneEntity, headVars, Core, Types
  <1>4. CASE ZoneGhost(z)
    <2>1. Leases' /\ ghost' \subseteq Zones
      BY <1>4 DEF ZoneGhost, Core, Types, Leases, Holds
    <2> QED BY <1>1, <1>4, <2>1 DEF ZoneGhost, headVars, Core, Types
  <1>5. CASE ZoneReassign(z)
    <2>1. Leases' /\ leased' \subseteq Zones
      BY <1>5 DEF ZoneReassign, Core, Types, Leases, Holds
    <2> QED BY <1>1, <1>5, <2>1 DEF ZoneReassign, headVars, Core, Types
  <1>6. CASE ZoneRouted(z)
    <2>1. Leases'
      BY <1>6 DEF ZoneRouted, Core, Types, Leases, Holds
    <2> QED BY <1>1, <1>6, <2>1 DEF ZoneRouted, headVars, Core, Types
  <1>7. CASE ZoneUnrouted(z)
    <2>1. Leases'
      BY <1>7 DEF ZoneUnrouted, Core, Leases, Holds, zoneVars
    <2> QED BY <1>1, <1>7, <2>1 DEF ZoneUnrouted, zoneVars, headVars, Core, Types
  <1>8. CASE ZoneResize(z)
    <2>1. Head(toZone[z]).box \in ProperBox
      BY <1>2, <1>8, MessageFields DEF ZoneResize
    <2>2. Leases'
      BY <1>8 DEF ZoneResize, Core, Leases, Holds
    <2> QED BY <1>1, <1>8, <2>1, <2>2 DEF ZoneResize, headVars, Core, Types
  <1>9. CASE ZoneDelete(z)
    <2>1. Leases'
      BY <1>9 DEF ZoneDelete, Core, Types, Leases, Holds
    <2> QED BY <1>1, <1>9, <2>1 DEF ZoneDelete, headVars, Core, Types
  <1>10. CASE ZoneDrain(z)
    <2>1. UNCHANGED <<box, copy, ghost, table, state>> /\ Reads(z, "drain")
          /\ draining' = draining \cup {z} /\ leased' = leased \ {z}
      BY <1>10 DEF ZoneDrain, headVars
    <2>2. /\ toZone' \in [Zones -> Seq(ZoneBound)] /\ HasType(toZone[z], "drain")
          /\ \A n \in Zones : \A u : HasType(toZone'[n], u) => HasType(toZone[n], u)
      BY <2>1, ReadsEffect DEF Core
    <2>3. PICK d : d = [type |-> "drained"]
      OBVIOUS
    <2>4. d \in HeadBound /\ d.type = "drained" /\ toHead[z] \in Seq(HeadBound) /\ Whole(toHead[z])
      BY <2>3, MessageFields DEF Core, Types, OffersWhole
    <2>5. PICK q \in Seq(HeadBound) : Whole(q) /\ toHead' = [toHead EXCEPT ![z] = Append(q, d)]
      <3>1. CASE Holds(z) /\ z \in leased
        <4>1. PICK e : e = [type |-> "entity", chunk |-> copy[z]]
          OBVIOUS
        <4>2. e \in HeadBound /\ e.type = "entity"
          BY <3>1, <4>1, MessageFields DEF Core, Types, Holds
        <4>3. toHead' = [toHead EXCEPT ![z] = toHead[z] \o <<e>> \o <<d>>]
          BY <1>10, <2>3, <3>1, <4>1 DEF ZoneDrain
        <4>4. toHead[z] \o <<e>> \o <<d>> = Append(Append(toHead[z], e), d)
          BY <2>4, <4>2
        <4>5. Append(toHead[z], e) \in Seq(HeadBound) /\ Whole(Append(toHead[z], e))
          BY <2>4, <4>2, WholeQueue
        <4> QED BY <4>3, <4>4, <4>5
      <3>2. CASE ~(Holds(z) /\ z \in leased)
        <4>1. toHead' = [toHead EXCEPT ![z] = toHead[z] \o <<>> \o <<d>>]
          BY <1>10, <2>3, <3>2 DEF ZoneDrain
        <4>2. toHead[z] \o <<>> \o <<d>> = Append(toHead[z], d)
          BY <2>4
        <4> QED BY <2>4, <4>1, <4>2
      <3> QED BY <3>1, <3>2
    <2>6. Append(q, d) \in Seq(HeadBound) /\ Whole(Append(q, d))
      BY <2>4, <2>5, WholeQueue
    <2>7. Types'
      BY <2>1, <2>2, <2>5, <2>6 DEF Core, Types
    <2>8. OffersWhole'
      BY <2>5, <2>6 DEF Core, Types, OffersWhole
    <2>9. Leases'
      BY <2>1 DEF Core, Types, Leases, Holds
    <2>10. \A n \in Zones \ {z} : toHead'[n] = toHead[n]
      BY <2>5 DEF Core, Types
    <2>11. DeletedAfterDrain'
      BY <2>1, <2>2, <2>10 DEF Core, DeletedAfterDrain
    <2>12. RoutedAreUndrained'
      BY <2>1, <2>2 DEF Core, RoutedAreUndrained
    <2> QED BY <2>7, <2>8, <2>9, <2>11, <2>12 DEF Core
  <1> QED BY <1>3, <1>4, <1>5, <1>6, <1>7, <1>8, <1>9, <1>10 DEF ZoneReads

-----------------------------------------------------------------------------
(* The steps of the head preserve the invariant *)

(* A step of the head that only writes to the zones and changes its table  *)
(* keeps the invariant.                                                    *)
LEMMA HeadStep ==
    ASSUME Core, Deliveries, UNCHANGED <<copy, leased, ghost, draining>>,
           box' \in [Zones -> ProperBox \cup {NoBox}],
           table' \in [Zones -> ProperBox \cup {NoBox}], state' \in [Zones -> ZoneStates],
           \A n \in Zones : state'[n] = "ready" => table'[n] \in ProperBox,
           \A n \in Zones : state'[n] \in {"spare", "booting", "ready"} =>
                                state[n] \in {"spare", "booting", "ready"},
           toHead' \in [Zones -> Seq(HeadBound)], OffersWhole',
           \A n \in Zones : HasType(toHead'[n], "drained") => HasType(toHead[n], "drained")
    PROVE  Core'
  <1>1. toZone' \in [Zones -> Seq(ZoneBound)] /\ DeletedAfterDrain' /\ RoutedAreUndrained'
    BY DeliveriesEffect
  <1>2. Types'
    BY <1>1 DEF Core, Types
  <1>3. Leases'
    BY DEF Core, Leases, Holds
  <1> QED BY <1>1, <1>2, <1>3 DEF Core

(* A packet of a zone handled by the head. *)
LEMMA HandleStep ==
    ASSUME Core, NEW z \in Zones, HeadHandles(z)
    PROVE  Core'
  <1> DEFINE m == Head(toHead[z])
  <1>1. ASSUME NEW t, Arrives(z, t)
        PROVE  /\ toHead' \in [Zones -> Seq(HeadBound)] /\ OffersWhole'
               /\ \A n \in Zones : HasType(toHead'[n], "drained") => HasType(toHead[n], "drained")
               /\ m \in HeadBound /\ m.type = t /\ HasType(toHead[z], t)
    BY <1>1, ArrivesEffect DEF Core
  <1>2. ASSUME UNCHANGED <<zoneVars, headVars>>, Deliveries,
               toHead' \in [Zones -> Seq(HeadBound)], OffersWhole',
               \A n \in Zones : HasType(toHead'[n], "drained") => HasType(toHead[n], "drained")
        PROVE  Core'
    BY <1>2, HeadStep DEF Core, Types, zoneVars, headVars
  <1>3. ASSUME NEW receivers, NEW t, Arrives(z, t), t \in {"ghost", "entity"},
               toZone' = Delivered(receivers, m)
        PROVE  Deliveries
    <2>1. m \in ZoneBound /\ m.type \notin {"delete", "drain"}
      BY <1>1, <1>3, MessageFields
    <2> HIDE DEF m
    <2> QED BY <1>3, <2>1 DEF Deliveries, Delivered
  <1>4. CASE HeadGhost(z)
    <2>1. Deliveries
      BY <1>3, <1>4 DEF HeadGhost
    <2> QED BY <1>1, <1>2, <1>4, <2>1 DEF HeadGhost
  <1>5. CASE HeadEntity(z)
    <2>1. Deliveries
      BY <1>3, <1>5 DEF HeadEntity
    <2> QED BY <1>1, <1>2, <1>5, <2>1 DEF HeadEntity
  <1>6. CASE HeadReassign(z)
    <2> DEFINE target == findTargetNode(m.chunk)
               routed == target # NoZone /\ target # z
               answer == [type |-> IF routed THEN "routed" ELSE "unrouted"]
    <2>1. /\ toZone' = [n \in Zones |-> CASE n = z -> Append(toZone[n], answer)
                                          [] routed /\ n = target -> Append(toZone[n], m)
                                          [] OTHER -> toZone[n]]
          /\ answer = [type |-> "routed"] \/ answer = [type |-> "unrouted"]
      BY <1>6 DEF HeadReassign
    <2> HIDE DEF target, routed, answer
    <2>2. answer \in ZoneBound /\ answer.type \notin {"delete", "drain"}
      BY <2>1, MessageFields
    <2>3. m \in ZoneBound /\ m.type \notin {"delete", "drain"}
      BY <1>1, <1>6, MessageFields DEF HeadReassign
    <2>4. Deliveries
      <3> HIDE DEF m
      <3> QED BY <2>1, <2>2, <2>3 DEF Deliveries
    <2> QED BY <1>1, <1>2, <1>6, <2>4 DEF HeadReassign
  <1>7. CASE HeadReport(z)
    <2>1. Deliveries
      BY <1>7 DEF HeadReport, Deliveries, Core, Types
    <2>2. m.box \in ProperBox
      BY <1>1, <1>7, MessageFields DEF HeadReport
    <2>3. CASE state[z] \notin {"booting", "ready"}
      BY <1>1, <1>2, <1>7, <2>1, <2>3 DEF HeadReport, headVars
    <2>4. CASE state[z] \in {"booting", "ready"}
      <3>1. /\ table' = [table EXCEPT ![z] = m.box] /\ state' = [state EXCEPT ![z] = "ready"]
            /\ UNCHANGED <<box, copy, leased, ghost, draining>>
        BY <1>7, <2>4 DEF HeadReport, zoneVars
      <3>2. /\ table' \in [Zones -> ProperBox \cup {NoBox}] /\ state' \in [Zones -> ZoneStates]
            /\ \A n \in Zones : state'[n] = "ready" => table'[n] \in ProperBox
            /\ \A n \in Zones : state'[n] \in {"spare", "booting", "ready"} =>
                                    state[n] \in {"spare", "booting", "ready"}
        BY <2>2, <2>4, <3>1 DEF Core, Types, ZoneStates
      <3>3. box' \in [Zones -> ProperBox \cup {NoBox}]
        BY <3>1 DEF Core, Types
      <3> QED BY <1>1, <1>7, <2>1, <3>1, <3>2, <3>3, HeadStep DEF HeadReport
    <2> QED BY <2>3, <2>4
  <1>8. CASE HeadDrained(z)
    <2>1. /\ table' = [table EXCEPT ![z] = NoBox] /\ state' = [state EXCEPT ![z] = "destroyed"]
          /\ UNCHANGED <<box, copy, leased, ghost, draining>>
      BY <1>8 DEF HeadDrained, zoneVars
    <2>2. z \in draining
      BY <1>1, <1>8 DEF HeadDrained, Core, DeletedAfterDrain
    <2>3. Deliveries
      <3>1. [type |-> "delete"] \in ZoneBound /\ [type |-> "delete"].type = "delete"
        BY MessageFields
      <3>2. toZone' = Delivered({z}, [type |-> "delete"])
        BY <1>8 DEF HeadDrained
      <3> QED BY <2>2, <3>1, <3>2 DEF Deliveries, Delivered
    <2>4. /\ table' \in [Zones -> ProperBox \cup {NoBox}] /\ state' \in [Zones -> ZoneStates]
          /\ \A n \in Zones : state'[n] = "ready" => table'[n] \in ProperBox
          /\ \A n \in Zones : state'[n] \in {"spare", "booting", "ready"} =>
                                  state[n] \in {"spare", "booting", "ready"}
      BY <2>1 DEF Core, Types, ZoneStates
    <2>5. box' \in [Zones -> ProperBox \cup {NoBox}]
      BY <2>1 DEF Core, Types
    <2> QED BY <1>1, <1>8, <2>1, <2>3, <2>4, <2>5, HeadStep DEF HeadDrained
  <1> QED BY <1>4, <1>5, <1>6, <1>7, <1>8 DEF HeadHandles

(* A split: both halves are boxes. *)
LEMMA SplitStep ==
    ASSUME Core, NEW p \in Zones, NEW child \in Zones, Split(p, child)
    PROVE  Core'
  <1>1. state[p] = "ready" /\ state[child] = "spare" /\ table[p] \in ProperBox
    BY DEF Split, isRoutable, Core, Types
  <1>2. PICK k \in PopulationCuts(table[p]) :
            /\ toZone' = Delivered({p}, [type |-> "resize", box |-> ParentBox(table[p], k)])
            /\ box' = [box EXCEPT ![child] = ChildBox(table[p], k)]
    BY DEF Split
  <1>3. ParentBox(table[p], k) \in ProperBox /\ ChildBox(table[p], k) \in ProperBox
    BY <1>1, ProperParts
  <1>4. PICK m : m = [type |-> "resize", box |-> ParentBox(table[p], k)]
    OBVIOUS
  <1>5. m \in ZoneBound /\ m.type = "resize"
    BY <1>3, <1>4, MessageFields
  <1>6. Deliveries
    BY <1>2, <1>4, <1>5 DEF Deliveries, Delivered
  <1>7. /\ UNCHANGED <<copy, leased, ghost, draining, table, toHead>>
        /\ state' = [state EXCEPT ![child] = "booting"]
    BY DEF Split
  <1>8. /\ state' \in [Zones -> ZoneStates]
        /\ \A n \in Zones : state'[n] = "ready" => table'[n] \in ProperBox
        /\ \A n \in Zones : state'[n] \in {"spare", "booting", "ready"} =>
                                state[n] \in {"spare", "booting", "ready"}
    BY <1>1, <1>7 DEF Core, Types, ZoneStates
  <1>9. /\ box' \in [Zones -> ProperBox \cup {NoBox}] /\ table' \in [Zones -> ProperBox \cup {NoBox}]
        /\ toHead' \in [Zones -> Seq(HeadBound)] /\ OffersWhole'
    BY <1>2, <1>3, <1>7 DEF Core, Types, OffersWhole
  <1> QED BY <1>6, <1>7, <1>8, <1>9, HeadStep

(* What a merge writes: a resize to the survivor, a drain to the victim. *)
LEMMA MergeWrites ==
    ASSUME Core, NEW victim \in Zones, NEW survivor \in Zones, Merge(victim, survivor)
    PROVE  /\ state[victim] = "ready" /\ state[survivor] = "ready" /\ victim # survivor
           /\ \E wider \in ProperBox :
                /\ table' = [table EXCEPT ![survivor] = wider]
                /\ toZone' = [n \in Zones |->
                        CASE n = survivor -> Append(toZone[n], [type |-> "resize", box |-> wider])
                          [] n = victim -> Append(toZone[n], [type |-> "drain"])
                          [] OTHER -> toZone[n]]
  <1>1. /\ state[victim] = "ready" /\ state[survivor] = "ready" /\ victim # survivor
        /\ table[victim] \in ProperBox /\ table[survivor] \in ProperBox
    BY DEF Merge, isRoutable, Core, Types
  <1>a. PICK a \in mergeableAxes(table[survivor], table[victim]) :
            \E wider :
                /\ wider = Resize(table[survivor], a, Hull(table[survivor][a], table[victim][a]))
                /\ table' = [table EXCEPT ![survivor] = wider]
                /\ toZone' = [n \in Zones |->
                        CASE n = survivor -> Append(toZone[n], [type |-> "resize", box |-> wider])
                          [] n = victim -> Append(toZone[n], [type |-> "drain"])
                          [] OTHER -> toZone[n]]
    BY DEF Merge
  <1>2. PICK wider :
            /\ wider = Resize(table[survivor], a, Hull(table[survivor][a], table[victim][a]))
            /\ table' = [table EXCEPT ![survivor] = wider]
            /\ toZone' = [n \in Zones |->
                    CASE n = survivor -> Append(toZone[n], [type |-> "resize", box |-> wider])
                      [] n = victim -> Append(toZone[n], [type |-> "drain"])
                      [] OTHER -> toZone[n]]
    BY <1>a
  <1>3. wider \in ProperBox
    BY <1>1, <1>a, <1>2, ProperParts DEF mergeableAxes
  <1> QED BY <1>1, <1>2, <1>3

(* A merge: the head stops routing to the victim in the step that tells it *)
(* to drain.                                                               *)
LEMMA MergeStep ==
    ASSUME Core, NEW victim \in Zones, NEW survivor \in Zones, Merge(victim, survivor)
    PROVE  Core'
  <1>1. state[victim] = "ready" /\ state[survivor] = "ready" /\ victim # survivor
    BY MergeWrites
  <1>2. PICK wider \in ProperBox :
            /\ table' = [table EXCEPT ![survivor] = wider]
            /\ toZone' = [n \in Zones |->
                    CASE n = survivor -> Append(toZone[n], [type |-> "resize", box |-> wider])
                      [] n = victim -> Append(toZone[n], [type |-> "drain"])
                      [] OTHER -> toZone[n]]
    BY MergeWrites
  <1>4. PICK m, d : m = [type |-> "resize", box |-> wider] /\ d = [type |-> "drain"]
    OBVIOUS
  <1>5. m \in ZoneBound /\ m.type = "resize" /\ d \in ZoneBound /\ d.type = "drain"
    BY <1>4, MessageFields
  <1>6. /\ UNCHANGED <<box, copy, leased, ghost, draining, toHead>>
        /\ state' = [state EXCEPT ![victim] = "draining"]
    BY DEF Merge, zoneVars
  <1>7. /\ state' \in [Zones -> ZoneStates] /\ state'[victim] = "draining"
        /\ table' \in [Zones -> ProperBox \cup {NoBox}]
        /\ \A n \in Zones : state'[n] = "ready" => table'[n] \in ProperBox
        /\ \A n \in Zones : state'[n] \in {"spare", "booting", "ready"} =>
                                state[n] \in {"spare", "booting", "ready"}
    BY <1>1, <1>2, <1>6 DEF Core, Types, ZoneStates
  <1>8. Deliveries
    BY <1>2, <1>4, <1>5, <1>7 DEF Deliveries
  <1>9. /\ box' \in [Zones -> ProperBox \cup {NoBox}]
        /\ toHead' \in [Zones -> Seq(HeadBound)] /\ OffersWhole'
    BY <1>6 DEF Core, Types, OffersWhole
  <1> QED BY <1>6, <1>7, <1>8, <1>9, HeadStep

(* A zone that has the object is asked to move it to a chunk. *)
LEMMA RequestStep == Requests /\ [Next]_vars => Requests'
  <1> SUFFICES ASSUME Requests, [Next]_vars PROVE Requests'
    OBVIOUS
  <1>1. CASE asked' = asked
    BY <1>1 DEF Requests
  <1>2. ASSUME NEW z \in Zones, AskMove(z) PROVE Requests'
    BY <1>2 DEF AskMove, Requests
  <1>3. ASSUME NEW z \in Zones, MoveObject(z) PROVE Requests'
    BY <1>3 DEF MoveObject, Requests
  <1>4. ASSUME NEW z \in Zones, ZoneDelete(z) PROVE Requests'
    BY <1>4 DEF ZoneDelete, Requests
  <1>5. ASSUME NEW z \in Zones, \/ checkAndTransfer(z) \/ RetryIsDue(z)
                                \/ emitGhostDeltas(z) \/ GhostExpires(z) \/ Report(z)
        PROVE  asked' = asked
    BY <1>5 DEF checkAndTransfer, RetryIsDue, emitGhostDeltas, GhostExpires, Report, counters,
                requests
  <1>6. ASSUME NEW z \in Zones, ZoneReads(z), ~ZoneDelete(z) PROVE asked' = asked
    BY <1>6 DEF ZoneReads, ZoneEntity, ZoneGhost, ZoneReassign, ZoneRouted, ZoneUnrouted,
                ZoneResize, ZoneDrain, counters, requests
  <1>7. ASSUME NEW z \in Zones, HeadHandles(z) PROVE asked' = asked
    BY <1>7 DEF HeadHandles, HeadGhost, HeadReassign, HeadEntity, HeadReport, HeadDrained,
                counters, requests
  <1>8. ASSUME NEW z \in Zones, NEW o \in Zones, Split(z, o) \/ Merge(z, o) PROVE asked' = asked
    BY <1>8 DEF Split, Merge, requests
  <1>9. CASE UNCHANGED vars
    BY <1>1, <1>9 DEF vars, counters, requests
  <1> QED BY <1>1, <1>2, <1>3, <1>4, <1>5, <1>6, <1>7, <1>8, <1>9 DEF Next

(* Every step keeps the invariant. *)
LEMMA Step == IInv /\ [Next]_vars => IInv'
  <1> SUFFICES ASSUME Core, Requests, [Next]_vars PROVE Core'
    BY RequestStep DEF IInv
  <1>1. CASE Next
    <2>1. PICK z \in Zones :
            \/ AskMove(z) \/ MoveObject(z) \/ checkAndTransfer(z) \/ RetryIsDue(z)
            \/ emitGhostDeltas(z) \/ GhostExpires(z) \/ Report(z)
            \/ ZoneReads(z) \/ HeadHandles(z)
            \/ \E o \in Zones : Split(z, o) \/ Merge(z, o)
      BY <1>1 DEF Next
    <2> QED BY <2>1, OwnStep, ReadStep, HandleStep, SplitStep, MergeStep
  <1>2. CASE UNCHANGED vars
    BY <1>2 DEF vars, zoneVars, headVars, Core, Types, Leases, DeletedAfterDrain,
                RoutedAreUndrained, OffersWhole, Holds
  <1> QED BY <1>1, <1>2

(* The system starts in the invariant. *)
LEMMA Start == Init => IInv
  <1> SUFFICES ASSUME Init PROVE IInv
    OBVIOUS
  <1>1. \A z \in Zones : toHead[z] = <<>> /\ toZone[z] = <<>>
    BY DEF Init
  <1>2. \A t : ~HasType(<<>>, t)
    BY DEF HasType
  <1>3. Whole(<<>>)
    BY DEF Whole
  <1>4. Types
    <2>1. /\ table \in [Zones -> ProperBox \cup {NoBox}] /\ box \in [Zones -> ProperBox \cup {NoBox}]
          /\ state \in [Zones -> ZoneStates]
          /\ \A z \in Zones : state[z] = "ready" => table[z] \in ProperBox
      BY BootAssumption DEF Init, ZoneStates
    <2>2. copy \in [Zones -> Chunk \cup {NoChunk}]
      BY WorldAssumption DEF Init
    <2>3. leased \subseteq Zones /\ ghost \subseteq Zones /\ draining \subseteq Zones
      BY DEF Init
    <2>4. toHead \in [Zones -> Seq(HeadBound)] /\ toZone \in [Zones -> Seq(ZoneBound)]
      BY DEF Init
    <2> QED BY <2>1, <2>2, <2>3, <2>4 DEF Types
  <1>5. Leases
    BY DEF Init, Leases, Holds
  <1>6. DeletedAfterDrain /\ RoutedAreUndrained /\ OffersWhole
    BY <1>1, <1>2, <1>3 DEF Init, DeletedAfterDrain, RoutedAreUndrained, OffersWhole
  <1>7. Requests
    BY DEF Init, Requests
  <1> QED BY <1>4, <1>5, <1>6, <1>7 DEF IInv, Core

(* Every reachable state satisfies the inductive invariant: packets,       *)
(* boxes and the registry have their types, a zone that does not drain     *)
(* holds a lease on what it holds, only zones that have drained are        *)
(* deleted, nothing is routed to a zone told to drain, and every           *)
(* reassignment is followed by its state.                                  *)
THEOREM Invariance == Spec => []IInv
  BY Start, Step, PTL DEF Spec

(* Of all steps, only the verdict on a request that outlived the hand-off  *)
(* leaves a zone with a ghost of an object that it simulates itself        *)
(* (the branch of processValidations that adds the object, the ghost and   *)
(* entity handlers).                                                       *)
THEOREM NoGhostOfOnesOwn == Spec => OnlyLateVerdictShadows
  <1>1. ASSUME Core, Next, NEW n \in Zones, Shadowed(n)', ~Shadowed(n)
        PROVE  MoveObject(n) /\ ~Holds(n)
    <2>1. copy \in [Zones -> Chunk \cup {NoChunk}] /\ ghost \subseteq Zones
      BY <1>1 DEF Core, Types
    <2>2. n \in ghost' /\ copy'[n] # NoChunk /\ ~(n \in ghost /\ copy[n] # NoChunk)
      BY <1>1 DEF Shadowed, Holds
    <2>3. PICK z \in Zones :
            \/ AskMove(z) \/ MoveObject(z) \/ checkAndTransfer(z) \/ RetryIsDue(z)
            \/ emitGhostDeltas(z) \/ GhostExpires(z) \/ Report(z)
            \/ ZoneReads(z) \/ HeadHandles(z)
            \/ \E o \in Zones : Split(z, o) \/ Merge(z, o)
      BY <1>1 DEF Next
    <2>4. CASE MoveObject(z)
      <3>1. ghost' = ghost /\ copy' = [copy EXCEPT ![z] = asked[z]]
        BY <2>4 DEF MoveObject
      <3>2. n = z
        BY <2>1, <2>2, <3>1
      <3> QED BY <2>2, <2>4, <3>1, <3>2 DEF Holds
    <2>5. CASE AskMove(z) \/ checkAndTransfer(z) \/ RetryIsDue(z) \/ emitGhostDeltas(z) \/ Report(z)
      BY <2>2, <2>5 DEF AskMove, checkAndTransfer, RetryIsDue, emitGhostDeltas, Report, zoneVars
    <2>6. CASE GhostExpires(z)
      BY <2>2, <2>6 DEF GhostExpires
    <2>7. CASE ZoneReads(z)
      <3>1. CASE ZoneEntity(z)
        BY <2>1, <2>2, <3>1 DEF ZoneEntity
      <3>2. CASE ZoneGhost(z)
        BY <2>2, <3>2 DEF ZoneGhost, Holds
      <3>3. CASE ZoneRouted(z) \/ ZoneDelete(z)
        BY <2>1, <2>2, <3>3 DEF ZoneRouted, ZoneDelete
      <3>4. CASE ZoneReassign(z) \/ ZoneUnrouted(z) \/ ZoneResize(z) \/ ZoneDrain(z)
        BY <2>2, <3>4 DEF ZoneReassign, ZoneUnrouted, ZoneResize, ZoneDrain, zoneVars
      <3> QED BY <2>7, <3>1, <3>2, <3>3, <3>4 DEF ZoneReads
    <2>8. CASE HeadHandles(z)
      BY <2>2, <2>8 DEF HeadHandles, HeadGhost, HeadReassign, HeadEntity, HeadReport, HeadDrained,
                        zoneVars
    <2>9. CASE \E o \in Zones : Split(z, o) \/ Merge(z, o)
      BY <2>2, <2>9 DEF Split, Merge, zoneVars
    <2> QED BY <2>3, <2>4, <2>5, <2>6, <2>7, <2>8, <2>9
  <1>2. IInv /\ [Next]_vars =>
            [\A z \in Zones : Shadowed(z)' /\ ~Shadowed(z) => MoveObject(z) /\ ~Holds(z)]_vars
    BY <1>1 DEF IInv
  <1> QED BY Invariance, <1>2, PTL DEF Spec, OnlyLateVerdictShadows

-----------------------------------------------------------------------------
(* Keeping the object *)

(* KeepsFrom, for a queue q of a zone that holds the object or does not. *)
Keeps(q, i, held) ==
    /\ IF i = 0 THEN held ELSE q[i].type = "entity"
    /\ ~\E n \in 1..i : q[n].type = "drain"
    /\ \A j \in i + 1..Len(q) : q[j].type = "routed" => \E n \in i + 1..j : q[n].type = "drain"

(* What makes an object secure: its state is on the way to the head, or a  *)
(* zone keeps it.                                                          *)
Kept ==
    \E z \in Zones :
        \/ HasType(toHead[z], "entity")
        \/ z \notin draining /\ \E i \in 0..Len(toZone[z]) : Keeps(toZone[z], i, Holds(z))

(* Secure says that an offer is on its way or that a zone keeps the        *)
(* object.                                                                 *)
LEMMA SecureMeans == Secure <=> Kept
  <1>1. \A z, i : KeepsFrom(z, i) <=> z \notin draining /\ Keeps(toZone[z], i, Holds(z))
    BY DEF KeepsFrom, Keeps
  <1> QED BY <1>1 DEF Secure, Kept, HasType

(* So it does after a step. *)
LEMMA SecureMeansNext == Secure' <=> Kept'
  BY SecureMeans, PTL

(* A later packet does not take the object away, unless it says that an    *)
(* offer was routed.                                                       *)
LEMMA KeepsAppend ==
    ASSUME NEW S, NEW q \in Seq(S), NEW m \in S, m.type # "routed",
           NEW held, NEW i \in 0..Len(q), Keeps(q, i, held)
    PROVE  i \in 0..Len(Append(q, m)) /\ Keeps(Append(q, m), i, held)
  <1>1. PICK r : r = Append(q, m)
    OBVIOUS
  <1>2. /\ Len(q) \in Nat /\ Len(r) = Len(q) + 1
        /\ \A k \in 1..Len(q) : r[k] = q[k]
        /\ r[Len(q) + 1] = m
    BY <1>1, AppendElements
  <1>3. IF i = 0 THEN held ELSE r[i].type = "entity"
    BY <1>2 DEF Keeps
  <1>4. ~\E n \in 1..i : r[n].type = "drain"
    <2>1. \A n \in 1..i : r[n] = q[n]
      BY <1>2
    <2> QED BY <2>1 DEF Keeps
  <1>5. ASSUME NEW j \in i + 1..Len(r), r[j].type = "routed"
        PROVE  \E n \in i + 1..j : r[n].type = "drain"
    <2>1. j \in i + 1..Len(q) /\ q[j].type = "routed"
      BY <1>2, <1>5
    <2>2. PICK n \in i + 1..j : q[n].type = "drain"
      BY <2>1 DEF Keeps
    <2> QED BY <1>2, <2>1, <2>2
  <1>6. Keeps(r, i, held)
    BY <1>3, <1>4, <1>5 DEF Keeps
  <1>7. i \in 0..Len(r)
    BY <1>2
  <1> QED BY <1>1, <1>6, <1>7

(* A state sent to a zone that is not told to drain will be kept. *)
LEMMA KeepsNew ==
    ASSUME NEW S, NEW q \in Seq(S), NEW m \in S, m.type = "entity", ~HasType(q, "drain"), NEW held
    PROVE  \E i \in 0..Len(Append(q, m)) : Keeps(Append(q, m), i, held)
  <1>1. PICK r : r = Append(q, m)
    OBVIOUS
  <1>2. /\ Len(q) \in Nat /\ Len(r) = Len(q) + 1 /\ DOMAIN q = 1..Len(q)
        /\ \A k \in 1..Len(q) : r[k] = q[k]
        /\ r[Len(q) + 1] = m
    BY <1>1, AppendElements
  <1>3. \A k \in 1..Len(q) : r[k].type # "drain"
    BY <1>2 DEF HasType
  <1>4. Len(r) # 0 /\ r[Len(r)].type = "entity" /\ Len(r) \in 0..Len(r)
    BY <1>2
  <1>5. ~\E n \in 1..Len(r) : r[n].type = "drain"
    BY <1>2, <1>3
  <1>6. ~\E j \in Len(r) + 1..Len(r) : TRUE
    BY <1>2
  <1>7. Keeps(r, Len(r), held)
    BY <1>4, <1>5, <1>6 DEF Keeps
  <1> QED BY <1>1, <1>4, <1>7

(* The zone reads a packet before it has the object, or the object itself. *)
LEMMA KeepsLater ==
    ASSUME NEW S, NEW q \in Seq(S), q # <<>>, NEW held, NEW i \in 1..Len(q), Keeps(q, i, held)
    PROVE  /\ Head(q).type # "drain" /\ (i = 1 => Head(q).type = "entity")
           /\ i - 1 \in 0..Len(Tail(q))
           /\ \A h : (i = 1 => h) => Keeps(Tail(q), i - 1, h)
  <1>1. PICK r : r = Tail(q)
    OBVIOUS
  <1>2. /\ Len(q) \in Nat \ {0} /\ Len(r) = Len(q) - 1
        /\ \A k \in 1..Len(q) - 1 : r[k] = q[k + 1]
        /\ Head(q) = q[1]
    BY <1>1, TailElements
  <1>3. /\ q[i].type = "entity" /\ \A n \in 1..i : q[n].type # "drain"
        /\ \A j \in i + 1..Len(q) : q[j].type = "routed" => \E n \in i + 1..j : q[n].type = "drain"
    BY DEF Keeps
  <1>4. Head(q).type # "drain" /\ (i = 1 => Head(q).type = "entity")
    BY <1>2, <1>3
  <1>5. i - 1 # 0 => r[i - 1].type = "entity"
    BY <1>2, <1>3
  <1>6. \A n \in 1..i - 1 : r[n].type # "drain"
    <2>1. \A n \in 1..i - 1 : n + 1 \in 1..i /\ r[n] = q[n + 1]
      BY <1>2
    <2> QED BY <1>3, <2>1
  <1>7. ASSUME NEW j \in i - 1 + 1..Len(r), r[j].type = "routed"
        PROVE  \E n \in i - 1 + 1..j : r[n].type = "drain"
    <2>1. j + 1 \in i + 1..Len(q) /\ q[j + 1].type = "routed"
      BY <1>2, <1>7
    <2>2. PICK n \in i + 1..j + 1 : q[n].type = "drain"
      BY <1>3, <2>1
    <2>3. n - 1 \in i - 1 + 1..j /\ r[n - 1] = q[n]
      BY <1>2, <2>1, <2>2
    <2> QED BY <2>2, <2>3
  <1>8. ASSUME NEW h, i = 1 => h PROVE Keeps(r, i - 1, h)
    <2>1. IF i - 1 = 0 THEN h ELSE r[i - 1].type = "entity"
      BY <1>5, <1>8
    <2> QED BY <1>6, <1>7, <2>1 DEF Keeps
  <1>9. i - 1 \in 0..Len(r)
    BY <1>2
  <1> QED BY <1>1, <1>4, <1>8, <1>9

(* A zone that has the object reads a packet that is no drain. *)
LEMMA KeepsOn ==
    ASSUME NEW S, NEW q \in Seq(S), q # <<>>, NEW held, Keeps(q, 0, held), Head(q).type # "drain"
    PROVE  /\ held /\ Head(q).type # "routed"
           /\ \A h : h => Keeps(Tail(q), 0, h)
  <1>1. PICK r : r = Tail(q)
    OBVIOUS
  <1>2. /\ Len(q) \in Nat \ {0} /\ Len(r) = Len(q) - 1
        /\ \A k \in 1..Len(q) - 1 : r[k] = q[k + 1]
        /\ Head(q) = q[1]
    BY <1>1, TailElements
  <1>3. /\ held
        /\ \A j \in 0 + 1..Len(q) : q[j].type = "routed" => \E n \in 0 + 1..j : q[n].type = "drain"
    BY DEF Keeps
  <1>4. q[1].type # "routed"
    <2> SUFFICES ASSUME q[1].type = "routed" PROVE FALSE
      OBVIOUS
    <2>1. 1 \in 0 + 1..Len(q)
      BY <1>2
    <2>2. PICK n \in 0 + 1..1 : q[n].type = "drain"
      BY <1>3, <2>1
    <2>3. n = 1
      BY <2>2
    <2> QED BY <1>2, <2>2, <2>3
  <1>5. ASSUME NEW j \in 0 + 1..Len(r), r[j].type = "routed"
        PROVE  \E n \in 0 + 1..j : r[n].type = "drain"
    <2>1. j + 1 \in 0 + 1..Len(q) /\ q[j + 1].type = "routed"
      BY <1>2, <1>5
    <2>2. PICK n \in 0 + 1..j + 1 : q[n].type = "drain"
      BY <1>3, <2>1
    <2>3. n # 1
      BY <1>2, <2>2
    <2>4. n - 1 \in 0 + 1..j /\ r[n - 1] = q[n]
      BY <1>2, <2>1, <2>2, <2>3
    <2> QED BY <2>2, <2>4
  <1>6. ~\E n \in 1..0 : r[n].type = "drain"
    OBVIOUS
  <1>7. ASSUME NEW h, h PROVE Keeps(r, 0, h)
    BY <1>5, <1>6, <1>7 DEF Keeps
  <1> QED BY <1>1, <1>2, <1>3, <1>4, <1>7

-----------------------------------------------------------------------------
(* Steps that may not lose the object *)

(* A zone that keeps the object goes on keeping it when packets follow. *)
LEMMA KeptWhenMoreFollows ==
    ASSUME Core, NEW z \in Zones, z \notin draining, z \notin draining',
           NEW i \in 0..Len(toZone[z]), Keeps(toZone[z], i, Holds(z)),
           Holds(z) => Holds(z)',
           \/ toZone'[z] = toZone[z]
           \/ \E m \in ZoneBound : m.type # "routed" /\ toZone'[z] = Append(toZone[z], m)
    PROVE  Secure'
  <1>1. toZone[z] \in Seq(ZoneBound) /\ Keeps(toZone[z], i, Holds(z)')
    BY DEF Core, Types, Keeps
  <1>2. CASE toZone'[z] = toZone[z]
    BY <1>1, <1>2, SecureMeansNext DEF Kept
  <1>3. ASSUME NEW m \in ZoneBound, m.type # "routed", toZone'[z] = Append(toZone[z], m)
        PROVE  Secure'
    <2>1. i \in 0..Len(toZone'[z]) /\ Keeps(toZone'[z], i, Holds(z)')
      BY <1>1, <1>3, KeepsAppend
    <2> QED BY <2>1, SecureMeansNext DEF Kept
  <1> QED BY <1>2, <1>3

(* A zone reads a packet that is neither a drain nor a deletion and loses  *)
(* the object only when that packet says so.                               *)
LEMMA KeptWhenRead ==
    ASSUME Core, NEW z \in Zones, z \notin draining, z \notin draining',
           NEW i \in 0..Len(toZone[z]), Keeps(toZone[z], i, Holds(z)),
           NEW t, Reads(z, t), t # "drain",
           t = "entity" => Holds(z)', t \notin {"entity", "routed"} => Holds(z)' = Holds(z)
    PROVE  Secure'
  <1>1. /\ toZone[z] \in Seq(ZoneBound) /\ toZone[z] # <<>> /\ toZone'[z] = Tail(toZone[z])
        /\ Head(toZone[z]).type = t
    BY ReadsEffect DEF Core
  <1>2. Len(toZone[z]) \in Nat
    BY <1>1
  <1>3. CASE i = 0
    <2>1. Holds(z) /\ t # "routed" /\ \A h : h => Keeps(Tail(toZone[z]), 0, h)
      BY <1>1, <1>3, KeepsOn
    <2>2. Holds(z)'
      BY <2>1
    <2>3. Keeps(toZone'[z], 0, Holds(z)')
      BY <1>1, <2>1, <2>2
    <2>4. 0 \in 0..Len(toZone'[z])
      BY <1>1, TailElements
    <2> QED BY <2>3, <2>4, SecureMeansNext DEF Kept
  <1>4. CASE i # 0
    <2>1. i \in 1..Len(toZone[z])
      BY <1>2, <1>4
    <2>2. /\ i = 1 => t = "entity"
          /\ i - 1 \in 0..Len(Tail(toZone[z]))
          /\ \A h : (i = 1 => h) => Keeps(Tail(toZone[z]), i - 1, h)
      BY <1>1, <2>1, KeepsLater
    <2>3. i - 1 \in 0..Len(toZone'[z]) /\ Keeps(toZone'[z], i - 1, Holds(z)')
      BY <1>1, <2>2
    <2> QED BY <2>3, SecureMeansNext DEF Kept
  <1> QED BY <1>3, <1>4

(* What is on its way to the head stays so, until the head handles it. *)
LEMMA StateWaits ==
    ASSUME Core, NEW z \in Zones,
           \/ AskMove(z) \/ MoveObject(z) \/ checkAndTransfer(z) \/ RetryIsDue(z)
           \/ emitGhostDeltas(z) \/ GhostExpires(z) \/ Report(z) \/ ZoneReads(z)
    PROVE  \A n \in Zones : HasType(toHead[n], "entity") => HasType(toHead'[n], "entity")
  <1>1. CASE toHead' = toHead
    BY <1>1
  <1>2. ASSUME NEW m \in HeadBound, toHead' = [toHead EXCEPT ![z] = Append(toHead[z], m)]
        PROVE  \A n \in Zones : HasType(toHead[n], "entity") => HasType(toHead'[n], "entity")
    <2>1. \A t : HasType(Append(toHead[z], m), t) <=> HasType(toHead[z], t) \/ m.type = t
      BY TypesInQueue DEF Core, Types
    <2> QED BY <1>2, <2>1 DEF Core, Types
  <1>3. ASSUME NEW m \in HeadBound, NEW l \in HeadBound,
               toHead' = [toHead EXCEPT ![z] = Append(Append(toHead[z], m), l)]
        PROVE  \A n \in Zones : HasType(toHead[n], "entity") => HasType(toHead'[n], "entity")
    <2>1. PICK w : w = Append(toHead[z], m)
      OBVIOUS
    <2>2. w \in Seq(HeadBound) /\ toHead[z] \in Seq(HeadBound)
      BY <2>1 DEF Core, Types
    <2>3. \A t : HasType(w, t) <=> HasType(toHead[z], t) \/ m.type = t
      BY <2>1, <2>2, TypesInQueue
    <2>4. \A t : HasType(Append(w, l), t) <=> HasType(w, t) \/ l.type = t
      BY <2>2, TypesInQueue
    <2> QED BY <1>3, <2>1, <2>3, <2>4 DEF Core, Types
  <1>4. CASE AskMove(z) \/ MoveObject(z) \/ RetryIsDue(z) \/ GhostExpires(z)
    BY <1>1, <1>4 DEF AskMove, MoveObject, RetryIsDue, GhostExpires
  <1>5. CASE checkAndTransfer(z)
    <2>1. PICK r, e : /\ r = [type |-> "reassign", chunk |-> copy[z]]
                      /\ e = [type |-> "entity", chunk |-> copy[z]]
      OBVIOUS
    <2>2. r \in HeadBound /\ e \in HeadBound /\ toHead[z] \in Seq(HeadBound)
      BY <1>5, <2>1, MessageFields DEF checkAndTransfer, Offer, Holds, Core, Types
    <2>3. toHead' = [toHead EXCEPT ![z] = toHead[z] \o <<r, e>>]
      BY <1>5, <2>1 DEF checkAndTransfer, Offer
    <2>4. toHead[z] \o <<r, e>> = Append(Append(toHead[z], r), e)
      BY <2>2
    <2> QED BY <1>3, <2>2, <2>3, <2>4
  <1>6. CASE emitGhostDeltas(z)
    <2>1. PICK m : m = [type |-> "ghost", chunk |-> copy[z]]
      OBVIOUS
    <2>2. m \in HeadBound
      BY <1>6, <2>1, MessageFields DEF emitGhostDeltas, Holds, Core, Types
    <2> QED BY <1>2, <1>6, <2>1, <2>2 DEF emitGhostDeltas
  <1>7. CASE Report(z)
    <2>1. PICK m : m = [type |-> "report", box |-> box[z]]
      OBVIOUS
    <2>2. m \in HeadBound
      BY <1>7, <2>1, MessageFields DEF Report, Running, Core, Types
    <2> QED BY <1>2, <1>7, <2>1, <2>2 DEF Report
  <1>8. CASE ZoneDrain(z)
    <2>1. PICK d : d = [type |-> "drained"]
      OBVIOUS
    <2>2. d \in HeadBound /\ toHead[z] \in Seq(HeadBound)
      BY <2>1, MessageFields DEF Core, Types
    <2>3. CASE Holds(z) /\ z \in leased
      <3>1. PICK e : e = [type |-> "entity", chunk |-> copy[z]]
        OBVIOUS
      <3>2. e \in HeadBound
        BY <2>3, <3>1, MessageFields DEF Core, Types, Holds
      <3>3. toHead' = [toHead EXCEPT ![z] = toHead[z] \o <<e>> \o <<d>>]
        BY <1>8, <2>1, <2>3, <3>1 DEF ZoneDrain
      <3>4. toHead[z] \o <<e>> \o <<d>> = Append(Append(toHead[z], e), d)
        BY <2>2, <3>2
      <3> QED BY <1>3, <2>2, <3>2, <3>3, <3>4
    <2>4. CASE ~(Holds(z) /\ z \in leased)
      <3>1. toHead' = [toHead EXCEPT ![z] = toHead[z] \o <<>> \o <<d>>]
        BY <1>8, <2>1, <2>4 DEF ZoneDrain
      <3>2. toHead[z] \o <<>> \o <<d>> = Append(toHead[z], d)
        BY <2>2
      <3> QED BY <1>2, <2>2, <3>1, <3>2
    <2> QED BY <2>3, <2>4
  <1>9. CASE ZoneReads(z) /\ ~ZoneDrain(z)
    BY <1>1, <1>9 DEF ZoneReads, ZoneEntity, ZoneGhost, ZoneReassign, ZoneRouted, ZoneUnrouted,
                      ZoneResize, ZoneDelete
  <1> QED BY <1>4, <1>5, <1>6, <1>7, <1>8, <1>9

(* A zone that drains publishes the object it holds. *)
LEMMA DrainPublishes ==
    ASSUME Core, NEW z \in Zones, ZoneDrain(z), Holds(z), z \in leased
    PROVE  HasType(toHead'[z], "entity")
  <1>1. PICK e, d : e = [type |-> "entity", chunk |-> copy[z]] /\ d = [type |-> "drained"]
    OBVIOUS
  <1>2. e \in HeadBound /\ d \in HeadBound /\ toHead[z] \in Seq(HeadBound) /\ e.type = "entity"
    BY <1>1, MessageFields DEF Core, Types, Holds
  <1>3. toHead' = [toHead EXCEPT ![z] = toHead[z] \o <<e>> \o <<d>>]
    BY <1>1 DEF ZoneDrain
  <1>4. toHead[z] \o <<e>> \o <<d>> = Append(Append(toHead[z], e), d)
    BY <1>2
  <1>5. PICK w : w = Append(toHead[z], e)
    OBVIOUS
  <1>6. w \in Seq(HeadBound)
    BY <1>2, <1>5
  <1>7. HasType(w, "entity")
    BY <1>2, <1>5, TypesInQueue
  <1>8. HasType(Append(w, d), "entity")
    BY <1>2, <1>6, <1>7, TypesInQueue
  <1>9. toHead'[z] = Append(w, d)
    BY <1>3, <1>4, <1>5 DEF Core, Types
  <1> QED BY <1>8, <1>9

(* The steps a zone takes on its own lose nothing. *)
LEMMA OwnStepKeeps ==
    ASSUME Core, Requests, Secure, NEW z \in Zones,
           \/ AskMove(z) \/ MoveObject(z) \/ checkAndTransfer(z) \/ RetryIsDue(z)
           \/ emitGhostDeltas(z) \/ GhostExpires(z) \/ Report(z)
    PROVE  Secure'
  <1>1. PICK o \in Zones :
            \/ HasType(toHead[o], "entity")
            \/ o \notin draining /\ \E i \in 0..Len(toZone[o]) : Keeps(toZone[o], i, Holds(o))
    BY SecureMeans DEF Kept
  <1>2. CASE HasType(toHead[o], "entity")
    BY <1>2, StateWaits, SecureMeansNext DEF Kept
  <1>3. ASSUME o \notin draining, NEW i \in 0..Len(toZone[o]), Keeps(toZone[o], i, Holds(o))
        PROVE  Secure'
    <2>1. toZone' = toZone /\ draining' = draining
      BY DEF AskMove, MoveObject, checkAndTransfer, RetryIsDue, emitGhostDeltas, GhostExpires,
             Report, zoneVars
    <2>2. Holds(o) => Holds(o)'
      <3>1. CASE MoveObject(z)
        <4>1. PICK c \in World : copy' = [copy EXCEPT ![z] = c]
          BY <3>1 DEF MoveObject, Requests
        <4>2. c # NoChunk
          BY WorldAssumption, NothingIsEmpty
        <4> QED BY <4>1, <4>2 DEF Holds, Core, Types
      <3>2. CASE ~MoveObject(z)
        BY <3>2 DEF AskMove, checkAndTransfer, RetryIsDue, emitGhostDeltas, GhostExpires, Report, zoneVars,
                    Holds
      <3> QED BY <3>1, <3>2
    <2> QED BY <1>3, <2>1, <2>2, KeptWhenMoreFollows
  <1> QED BY <1>1, <1>2, <1>3

(* Nor does what a zone reads: it lets go of the object when the head says *)
(* that it was routed, and by then it or another zone has the state.       *)
LEMMA ReadStepKeeps ==
    ASSUME Core, Secure, NEW z \in Zones, ZoneReads(z)
    PROVE  Secure'
  <1>1. PICK o \in Zones :
            \/ HasType(toHead[o], "entity")
            \/ o \notin draining /\ \E i \in 0..Len(toZone[o]) : Keeps(toZone[o], i, Holds(o))
    BY SecureMeans DEF Kept
  <1>2. CASE HasType(toHead[o], "entity")
    BY <1>2, StateWaits, SecureMeansNext DEF Kept
  <1>3. ASSUME o \notin draining, NEW i \in 0..Len(toZone[o]), Keeps(toZone[o], i, Holds(o)), o # z
        PROVE  Secure'
    <2>1. /\ \E t : Reads(z, t)
          /\ draining' \in {draining, draining \cup {z}}
      BY DEF ZoneReads, ZoneEntity, ZoneGhost, ZoneReassign, ZoneRouted, ZoneUnrouted,
             ZoneResize, ZoneDrain, ZoneDelete, zoneVars
    <2>2. copy' = copy \/ \E c : copy' = [copy EXCEPT ![z] = c]
      BY DEF ZoneReads, ZoneEntity, ZoneGhost, ZoneReassign, ZoneRouted, ZoneUnrouted,
             ZoneResize, ZoneDrain, ZoneDelete, zoneVars
    <2>3. o \notin draining' /\ toZone'[o] = toZone[o]
      BY <1>3, <2>1, ReadsEffect DEF Core
    <2>4. Holds(o)' = Holds(o)
      BY <1>3, <2>2 DEF Holds, Core, Types
    <2> QED BY <1>3, <2>3, <2>4, KeptWhenMoreFollows
  <1>4. ASSUME z \notin draining, NEW i \in 0..Len(toZone[z]), Keeps(toZone[z], i, Holds(z))
        PROVE  Secure'
    <2>1. CASE ZoneEntity(z)
      <3>1. Reads(z, "entity") /\ draining' = draining
        BY <2>1 DEF ZoneEntity
      <3>2. Head(toZone[z]).chunk # NoChunk
        BY <3>1, ReadsEffect, MessageFields, NothingIsEmpty DEF Core
      <3>3. Holds(z)'
        BY <2>1, <3>2 DEF ZoneEntity, Holds, Core, Types
      <3> QED BY <1>4, <3>1, <3>3, KeptWhenRead
    <2>2. ASSUME NEW t, Reads(z, t), t \notin {"entity", "routed", "drain"},
                 copy' = copy, draining' = draining
          PROVE  Secure'
      BY <1>4, <2>2, KeptWhenRead DEF Holds
    <2>3. CASE ZoneGhost(z) \/ ZoneReassign(z) \/ ZoneUnrouted(z) \/ ZoneResize(z)
      BY <2>2, <2>3 DEF ZoneGhost, ZoneReassign, ZoneUnrouted, ZoneResize, zoneVars
    <2>4. CASE ZoneRouted(z)
      <3>1. Reads(z, "routed") /\ draining' = draining
        BY <2>4 DEF ZoneRouted
      <3> QED BY <1>4, <3>1, KeptWhenRead
    <2>5. CASE ZoneDelete(z)
      BY <1>4, <2>5, ReadsEffect DEF ZoneDelete, Core, DeletedAfterDrain
    <2>6. CASE ZoneDrain(z)
      <3>1. /\ toZone[z] \in Seq(ZoneBound) /\ toZone[z] # <<>> /\ Head(toZone[z]).type = "drain"
        BY <2>6, ReadsEffect DEF ZoneDrain, Core
      <3>2. Len(toZone[z]) \in Nat
        BY <3>1
      <3>3. CASE i # 0
        <4>1. i \in 1..Len(toZone[z])
          BY <3>2, <3>3
        <4> QED BY <1>4, <3>1, <4>1, KeepsLater
      <3>4. CASE i = 0
        <4>1. Holds(z)
          BY <1>4, <3>4 DEF Keeps
        <4>2. z \in leased
          BY <1>4, <4>1 DEF Core, Leases
        <4>3. HasType(toHead'[z], "entity")
          BY <2>6, <4>1, <4>2, DrainPublishes
        <4> QED BY <4>3, SecureMeansNext DEF Kept
      <3> QED BY <3>3, <3>4
    <2> QED BY <2>1, <2>3, <2>4, <2>5, <2>6 DEF ZoneReads
  <1> QED BY <1>1, <1>2, <1>3, <1>4

(* A step of the head that leaves the packets to it, or takes one that is  *)
(* no state, and answers no offer, loses nothing.                          *)
LEMMA DeliveryKeeps ==
    ASSUME Core, Secure, UNCHANGED <<copy, draining>>,
           \A n \in Zones : HasType(toHead[n], "entity") => HasType(toHead'[n], "entity"),
           \A n \in Zones : \/ toZone'[n] = toZone[n]
                            \/ \E m \in ZoneBound : /\ m.type # "routed"
                                                    /\ toZone'[n] = Append(toZone[n], m)
    PROVE  Secure'
  <1>1. PICK o \in Zones :
            \/ HasType(toHead[o], "entity")
            \/ o \notin draining /\ \E i \in 0..Len(toZone[o]) : Keeps(toZone[o], i, Holds(o))
    BY SecureMeans DEF Kept
  <1>2. CASE HasType(toHead[o], "entity")
    BY <1>2, SecureMeansNext DEF Kept
  <1>3. ASSUME o \notin draining, NEW i \in 0..Len(toZone[o]), Keeps(toZone[o], i, Holds(o))
        PROVE  Secure'
    <2>1. o \notin draining' /\ Holds(o)' = Holds(o)
      BY <1>3 DEF Holds
    <2>2. \/ toZone'[o] = toZone[o]
          \/ \E m \in ZoneBound : m.type # "routed" /\ toZone'[o] = Append(toZone[o], m)
      OBVIOUS
    <2> QED BY <1>3, <2>1, <2>2, KeptWhenMoreFollows
  <1> QED BY <1>1, <1>2, <1>3

(* The head loses the object only when it has no zone for its state: the   *)
(* answer "routed" goes out while the state is still in the queue, and a   *)
(* state it forwards reaches a zone that is not to drain.                  *)
LEMMA HandleStepKeeps ==
    ASSUME Core, Secure, NEW z \in Zones, HeadHandles(z),
           ~(HeadEntity(z) /\ findTargetNode(Head(toHead[z]).chunk) = NoZone)
    PROVE  Secure'
  <1> DEFINE m == Head(toHead[z])
  <1>1. ASSUME NEW t, Arrives(z, t)
        PROVE  /\ t # "entity" => \A n \in Zones : HasType(toHead[n], "entity") => HasType(toHead'[n], "entity")
               /\ m \in HeadBound /\ m.type = t
               /\ t = "reassign" => HasType(toHead'[z], "entity")
    BY <1>1, ArrivesEffect DEF Core
  <1>2. CASE HeadGhost(z)
    <2>1. m \in ZoneBound /\ m.type = "ghost"
      BY <1>1, <1>2, MessageFields DEF HeadGhost
    <2>2. \A n \in Zones : HasType(toHead[n], "entity") => HasType(toHead'[n], "entity")
      BY <1>1, <1>2 DEF HeadGhost
    <2>3. UNCHANGED <<copy, draining>> /\ toZone' = Delivered(findNeighbors(z), m)
      BY <1>2 DEF HeadGhost, zoneVars
    <2> HIDE DEF m
    <2>4. \A n \in Zones : toZone'[n] = toZone[n] \/ toZone'[n] = Append(toZone[n], m)
      BY <2>3 DEF Delivered
    <2> QED BY <2>1, <2>2, <2>3, <2>4, DeliveryKeeps
  <1>3. CASE HeadReassign(z)
    BY <1>1, <1>3, SecureMeansNext DEF HeadReassign, Kept
  <1>4. CASE HeadEntity(z)
    <2>1. PICK target : target = findTargetNode(m.chunk)
      OBVIOUS
    <2>2. target \in Zones /\ state[target] = "ready" /\ target # NoZone
      BY <1>4, <2>1, TargetIsRoutable
    <2>3. target \notin draining /\ ~HasType(toZone[target], "drain")
      BY <2>2 DEF Core, RoutedAreUndrained
    <2>4. m \in ZoneBound /\ m.type = "entity"
      BY <1>1, <1>4, MessageFields DEF HeadEntity
    <2>5. toZone'[target] = Append(toZone[target], m) /\ draining' = draining
      BY <1>4, <2>1, <2>2 DEF HeadEntity, Delivered, zoneVars
    <2>6. \E i \in 0..Len(toZone'[target]) : Keeps(toZone'[target], i, Holds(target)')
      <3>1. toZone[target] \in Seq(ZoneBound)
        BY <2>2 DEF Core, Types
      <3> HIDE DEF m
      <3>2. \A h : \E i \in 0..Len(Append(toZone[target], m)) : Keeps(Append(toZone[target], m), i, h)
        BY <2>3, <2>4, <3>1, KeepsNew
      <3> QED BY <2>5, <3>2
    <2> QED BY <2>2, <2>3, <2>5, <2>6, SecureMeansNext DEF Kept
  <1>5. CASE HeadReport(z)
    <2>1. \A n \in Zones : HasType(toHead[n], "entity") => HasType(toHead'[n], "entity")
      BY <1>1, <1>5 DEF HeadReport
    <2>2. UNCHANGED <<copy, draining, toZone>>
      BY <1>5 DEF HeadReport, zoneVars
    <2> QED BY <2>1, <2>2, DeliveryKeeps
  <1>6. CASE HeadDrained(z)
    <2>1. \A n \in Zones : HasType(toHead[n], "entity") => HasType(toHead'[n], "entity")
      BY <1>1, <1>6 DEF HeadDrained
    <2>2. PICK d : d = [type |-> "delete"]
      OBVIOUS
    <2>3. d \in ZoneBound /\ d.type = "delete"
      BY <2>2, MessageFields
    <2>4. UNCHANGED <<copy, draining>> /\ toZone' = Delivered({z}, d)
      BY <1>6, <2>2 DEF HeadDrained, zoneVars
    <2>5. \A n \in Zones : toZone'[n] = toZone[n] \/ toZone'[n] = Append(toZone[n], d)
      BY <2>4 DEF Delivered
    <2> QED BY <2>1, <2>3, <2>4, <2>5, DeliveryKeeps
  <1> QED BY <1>2, <1>3, <1>4, <1>5, <1>6 DEF HeadHandles

(* Splits and merges lose nothing. *)
LEMMA ChangeStepKeeps ==
    ASSUME Core, Secure, NEW z \in Zones, NEW o \in Zones, Split(z, o) \/ Merge(z, o)
    PROVE  Secure'
  <1>1. UNCHANGED <<copy, draining, toHead>>
    BY DEF Split, Merge, zoneVars
  <1>2. CASE Split(z, o)
    <2>1. table[z] \in ProperBox
      BY <1>2 DEF Split, isRoutable, Core, Types
    <2>2. PICK k \in PopulationCuts(table[z]) :
            toZone' = Delivered({z}, [type |-> "resize", box |-> ParentBox(table[z], k)])
      BY <1>2 DEF Split
    <2>3. PICK m : m = [type |-> "resize", box |-> ParentBox(table[z], k)]
      OBVIOUS
    <2>4. m \in ZoneBound /\ m.type = "resize"
      BY <2>1, <2>3, ProperParts, MessageFields
    <2>5. \A n \in Zones : toZone'[n] = toZone[n] \/ toZone'[n] = Append(toZone[n], m)
      BY <2>2, <2>3 DEF Delivered
    <2> QED BY <1>1, <2>4, <2>5, DeliveryKeeps
  <1>3. CASE Merge(z, o)
    <2>1. PICK wider \in ProperBox :
            /\ table' = [table EXCEPT ![o] = wider]
            /\ toZone' = [n \in Zones |->
                    CASE n = o -> Append(toZone[n], [type |-> "resize", box |-> wider])
                      [] n = z -> Append(toZone[n], [type |-> "drain"])
                      [] OTHER -> toZone[n]]
      BY <1>3, MergeWrites
    <2>2. PICK m, d : m = [type |-> "resize", box |-> wider] /\ d = [type |-> "drain"]
      OBVIOUS
    <2>3. m \in ZoneBound /\ m.type = "resize" /\ d \in ZoneBound /\ d.type = "drain"
      BY <2>2, MessageFields
    <2>4. \A n \in Zones : \/ toZone'[n] = toZone[n] \/ toZone'[n] = Append(toZone[n], m)
                           \/ toZone'[n] = Append(toZone[n], d)
      BY <2>1, <2>2
    <2> QED BY <1>1, <2>3, <2>4, DeliveryKeeps
  <1> QED BY <1>2, <1>3

(* The hand-off is at-least-once: of all steps, only the head's can leave  *)
(* the object without a zone to keep it, and only when it finds no zone    *)
(* for the state it is to forward (checkAndTransfer, the head's            *)
(* PKT_REASSIGN and PKT_ENTITY_TRANSFER, drains, splits and merges).       *)
THEOREM HandoffIsAtLeastOnce == Spec => OnlyUnroutableIsLost
  <1>1. ASSUME Core, Requests, Next, Secure, ~Secure'
        PROVE  \E z \in Zones : HeadEntity(z) /\ findTargetNode(Head(toHead[z]).chunk) = NoZone
    <2> SUFFICES ASSUME ~\E z \in Zones : /\ HeadEntity(z)
                                          /\ findTargetNode(Head(toHead[z]).chunk) = NoZone
                 PROVE  FALSE
      OBVIOUS
    <2>1. PICK z \in Zones :
            \/ AskMove(z) \/ MoveObject(z) \/ checkAndTransfer(z) \/ RetryIsDue(z)
            \/ emitGhostDeltas(z) \/ GhostExpires(z) \/ Report(z)
            \/ ZoneReads(z) \/ HeadHandles(z)
            \/ \E o \in Zones : Split(z, o) \/ Merge(z, o)
      BY <1>1 DEF Next
    <2> QED BY <1>1, <2>1, OwnStepKeeps, ReadStepKeeps, HandleStepKeeps, ChangeStepKeeps
  <1>2. IInv /\ [Next]_vars => [Secure /\ ~Secure' =>
            \E z \in Zones :
                HeadEntity(z) /\ findTargetNode(Head(toHead[z]).chunk) = NoZone]_vars
    BY <1>1 DEF IInv
  <1> QED BY Invariance, <1>2, PTL DEF Spec, OnlyUnroutableIsLost
==============================================================================
