---------------------------- MODULE Cluster_proofs ----------------------------
(***************************************************************************)
(* The head's registry and its drains stay sound, for any number of zones, *)
(* connections, ports, samples, queries and faults, and in every           *)
(* interleaving of what they send each other.  The first part shows that   *)
(* every method of the orchestrator keeps it sound: its state well typed,  *)
(* its registry free of retired and of duplicate zones, its drains         *)
(* recorded exactly while they run.  The second follows the head and the   *)
(* zones.  The third follows the drains and their acknowledgements through *)
(* the connections: what a method does to them is one of three things      *)
(* (Quiet, Drains, Ends), and so is what it does to the zones in service.  *)
(***************************************************************************)
EXTENDS Cluster, WellFoundedInduction, SequenceTheorems, FiniteSetTheorems, TLAPS

-----------------------------------------------------------------------------
(* Numbers and boxes *)

(* A set of natural numbers that is not empty has a least element. *)
LEMMA LeastNatural ==
    ASSUME NEW T \in SUBSET Nat, T # {}
    PROVE  \E x \in T : \A y \in T : x <= y
  <1>1. PICK R : R = OpToRel(<, Nat)
    OBVIOUS
  <1>2. IsWellFoundedOn(R, Nat)
    BY <1>1, NatLessThanWellFounded
  <1>3. PICK x \in T : \A y \in T : ~(<<y, x>> \in R)
    BY <1>2, WFMin
  <1>4. \A y \in Nat : y < x => <<y, x>> \in R
    BY <1>1 DEF OpToRel
  <1>5. ASSUME NEW y \in T PROVE x <= y
    <2>1. x \in Nat /\ y \in Nat /\ ~(y < x)
      BY <1>3, <1>4
    <2> QED BY <2>1
  <1> QED BY <1>5

(* Lesser, Greater and Clamp stay within the integers; Clamp also stays    *)
(* within the coordinate limit.                                            *)
LEMMA BoundsType ==
    ASSUME NEW m \in Int, NEW n \in Int
    PROVE  /\ Lesser(m, n) \in Int
           /\ Greater(m, n) \in Int
           /\ Clamp(m) \in -ChunkLimit..ChunkLimit
  BY ChunkLimitAssumption DEF Lesser, Greater, Clamp

(* The interval a merge resizes to is an interval. *)
LEMMA HullType ==
    ASSUME NEW i \in Interval, NEW j \in Interval
    PROVE  Hull(i, j) \in Interval
  BY BoundsType DEF Hull, Interval

(* A box resized on an axis is a box. *)
LEMMA ResizeType ==
    ASSUME NEW b \in Box, NEW a \in Axes, NEW i \in Interval
    PROVE  Resize(b, a, i) \in Box
  BY DEF Resize, Box

(* A box stretched to a chunk is a box. *)
LEMMA StretchType ==
    ASSUME NEW b \in Box, NEW c \in Chunk
    PROVE  Stretch(b, c) \in Box
  <1> SUFFICES ASSUME NEW a \in Axes
               PROVE  [lo |-> Clamp(Lesser(b[a].lo, c[a])),
                       hi |-> Clamp(Greater(b[a].hi, c[a]))] \in Interval
    BY DEF Stretch, Box
  <1>1. b[a].lo \in Int /\ b[a].hi \in Int /\ c[a] \in Int
    BY DEF Box, Interval, Chunk
  <1>2. Lesser(b[a].lo, c[a]) \in Int /\ Greater(b[a].hi, c[a]) \in Int
    BY <1>1, BoundsType
  <1>3. \A m \in Int : Clamp(m) \in Int
    BY BoundsType, ChunkLimitAssumption
  <1> QED BY <1>2, <1>3 DEF Interval

(* The cuts of a box, geometric or from the population, are cuts. *)
LEMMA CutsType ==
    ASSUME NEW b \in Box
    PROVE  PopulationCuts(b) \cup GeometricCuts(b) \subseteq Cut
  <1>1. PopulationCuts(b) \subseteq Cut
    BY DEF PopulationCuts, Cut, Box, Interval
  <1>2. ASSUME NEW a \in LongestAxes(b)
        PROVE  Half(b[a].lo + b[a].hi) \in Int /\ Half(b[a].lo + b[a].hi + 1) \in Int
    <2>1. \A n \in Int : Half(n) \in Int
      BY DEF Half
    <2>2. a \in Axes /\ b[a].lo \in Int /\ b[a].hi \in Int
      BY DEF LongestAxes, Box, Interval
    <2> QED BY <2>1, <2>2
  <1>3. GeometricCuts(b) \subseteq Cut
    BY <1>2 DEF GeometricCuts, Cut, LongestAxes
  <1> QED BY <1>1, <1>3

(* absorbRegion: when mergeableAxis accepts two zones, the box the         *)
(* survivor is resized to covers the chunks of the two and no other.  The  *)
(* bounding box of two zones in general covers more.                       *)
THEOREM MergeIsUnion ==
    ASSUME NEW s \in ProperBox, NEW v \in ProperBox, NEW a \in mergeableAxes(s, v),
           NEW c \in Chunk
    PROVE  Covers(Resize(s, a, Hull(s[a], v[a])), c) <=> Covers(s, c) \/ Covers(v, c)
  <1> DEFINE m == Resize(s, a, Hull(s[a], v[a]))
  <1>1. /\ a \in Axes
        /\ Touch(s[a], v[a])
        /\ \A o \in Axes \ {a} : s[o] = v[o]
    BY DEF mergeableAxes
  <1>2. \A o \in Axes : /\ s[o].lo \in Int /\ s[o].hi \in Int /\ s[o].lo <= s[o].hi
                        /\ v[o].lo \in Int /\ v[o].hi \in Int /\ v[o].lo <= v[o].hi
                        /\ c[o] \in Int
    BY DEF ProperBox, Box, Interval, Chunk
  <1>3. /\ \A o \in Axes \ {a} : m[o] = s[o]
        /\ m[a] = Hull(s[a], v[a])
    BY <1>1 DEF Resize, ProperBox, Box
  (* On the axis of the merge the two intervals touch, so their hull has   *)
  (* nothing between them.                                                 *)
  <1>4. m[a].lo <= c[a] /\ c[a] <= m[a].hi
            <=> \/ s[a].lo <= c[a] /\ c[a] <= s[a].hi
                \/ v[a].lo <= c[a] /\ c[a] <= v[a].hi
    <2> DEFINE x == s[a].lo  y == s[a].hi  z == v[a].lo  w == v[a].hi  k == c[a]
    <2>1. /\ x \in Int /\ y \in Int /\ z \in Int /\ w \in Int /\ k \in Int
          /\ x <= y /\ z <= w
          /\ y + 1 = z \/ w + 1 = x
      BY <1>1, <1>2 DEF Touch
    <2>2. m[a].lo = Lesser(x, z) /\ m[a].hi = Greater(y, w)
      BY <1>3 DEF Hull
    <2> HIDE DEF x, y, z, w, k
    <2>3. (Lesser(x, z) <= k /\ k <= Greater(y, w))
              <=> (x <= k /\ k <= y) \/ (z <= k /\ k <= w)
      BY <2>1 DEF Lesser, Greater
    <2> QED BY <2>2, <2>3 DEF x, y, z, w, k
  <1>5. Covers(m, c) <=> /\ m[a].lo <= c[a] /\ c[a] <= m[a].hi
                         /\ \A o \in Axes \ {a} : s[o].lo <= c[o] /\ c[o] <= s[o].hi
    BY <1>1, <1>3 DEF Covers
  <1>6. Covers(s, c) <=> /\ s[a].lo <= c[a] /\ c[a] <= s[a].hi
                         /\ \A o \in Axes \ {a} : s[o].lo <= c[o] /\ c[o] <= s[o].hi
    BY <1>1 DEF Covers
  <1>7. Covers(v, c) <=> /\ v[a].lo <= c[a] /\ c[a] <= v[a].hi
                         /\ \A o \in Axes \ {a} : s[o].lo <= c[o] /\ c[o] <= s[o].hi
    BY <1>1 DEF Covers
  <1> QED BY <1>4, <1>5, <1>6, <1>7

-----------------------------------------------------------------------------
(* What every method of the orchestrator keeps *)

Sound(h) == h \in Orchestrators /\ Registered(h) /\ DrainsRecorded(h)

-----------------------------------------------------------------------------
(* The registry *)

(* Soundness speaks of four fields; a method that leaves them alone has    *)
(* only its types to answer for.                                           *)
LEMMA SameRegistry ==
    ASSUME NEW h, NEW g \in Orchestrators, Sound(h),
           g.zones = h.zones, g.state = h.state, g.drain = h.drain, g.lcSeq = h.lcSeq
    PROVE  Sound(g)
  BY DEF Sound, Registered, DrainsRecorded, Listed

(* A descriptor of the registry has an entry, which is its own. *)
LEMMA EntryOf ==
    ASSUME NEW h \in Orchestrators, NEW fd \in Listed(h)
    PROVE  /\ IndexOf(h, fd) \in DOMAIN h.zones
           /\ h.zones[IndexOf(h, fd)].fd = fd
           /\ findZoneInfo(h, fd) \in ZoneInfo
           /\ findZoneInfo(h, fd).fd = fd
           /\ fd \in Fds
  <1>1. h.zones \in Seq(ZoneInfo)
    BY DEF Orchestrators
  <1>2. IndexOf(h, fd) \in DOMAIN h.zones /\ h.zones[IndexOf(h, fd)].fd = fd
    BY DEF Listed, IndexOf
  <1>3. h.zones[IndexOf(h, fd)] \in ZoneInfo
    BY <1>1, <1>2
  <1> QED BY <1>2, <1>3 DEF findZoneInfo, ZoneInfo

(* Writing an entry anew keeps the registry's descriptors. *)
LEMMA WriteEntry ==
    ASSUME NEW h \in Orchestrators, Registered(h), NEW fd \in Listed(h),
           NEW z \in ZoneInfo, z.fd = fd
    PROVE  LET t == [h.zones EXCEPT ![IndexOf(h, fd)] = z]
           IN  /\ t \in Seq(ZoneInfo)
               /\ {t[i].fd : i \in DOMAIN t} = Listed(h)
               /\ \A i, j \in DOMAIN t : t[i].fd = t[j].fd => i = j
  <1> DEFINE t == [h.zones EXCEPT ![IndexOf(h, fd)] = z]
  <1>1. h.zones \in Seq(ZoneInfo)
    BY DEF Orchestrators
  <1>2. IndexOf(h, fd) \in DOMAIN h.zones /\ h.zones[IndexOf(h, fd)].fd = fd
    BY EntryOf
  <1>3. t \in Seq(ZoneInfo) /\ DOMAIN t = DOMAIN h.zones
    BY <1>1, <1>2, ExceptSeq
  <1>4. \A i \in DOMAIN h.zones : t[i].fd = h.zones[i].fd
    BY <1>1, <1>2
  <1> HIDE DEF t
  <1>5. {t[i].fd : i \in DOMAIN t} = Listed(h)
    BY <1>3, <1>4 DEF Listed
  <1>6. \A i, j \in DOMAIN t : t[i].fd = t[j].fd => i = j
    BY <1>3, <1>4 DEF Registered
  <1> QED BY <1>3, <1>5, <1>6 DEF t

(* A method that rewrites entries but lists the same descriptors keeps the *)
(* orchestrator sound.                                                     *)
LEMMA SameListed ==
    ASSUME NEW h, NEW g \in Orchestrators, Sound(h),
           Listed(g) = Listed(h),
           \A i, j \in DOMAIN g.zones : g.zones[i].fd = g.zones[j].fd => i = j,
           g.state = h.state, g.drain = h.drain, g.lcSeq = h.lcSeq
    PROVE  Sound(g)
  BY DEF Sound, Registered, DrainsRecorded

(* So does one that replaces the whole registry by such entries. *)
LEMMA NewZonesSound ==
    ASSUME NEW h, Sound(h), NEW t \in Seq(ZoneInfo),
           {t[i].fd : i \in DOMAIN t} = Listed(h),
           \A i, j \in DOMAIN t : t[i].fd = t[j].fd => i = j
    PROVE  Sound([h EXCEPT !.zones = t])
  <1>1. PICK g : g = [h EXCEPT !.zones = t]
    OBVIOUS
  <1>2. h \in Orchestrators
    BY DEF Sound
  <1>3. /\ g \in Orchestrators /\ g.zones = t
        /\ g.state = h.state /\ g.drain = h.drain /\ g.lcSeq = h.lcSeq
    BY <1>1, <1>2 DEF Orchestrators
  <1>4. Listed(g) = Listed(h)
    BY <1>3 DEF Listed
  <1>5. Sound(g)
    BY <1>3, <1>4, SameListed
  <1> QED BY <1>1, <1>5

(* The head's copy of a listed zone's box is rewritten. *)
LEMMA SetBoxSound ==
    ASSUME NEW h, Sound(h), NEW fd \in Listed(h), NEW b \in Box
    PROVE  Sound(SetBox(h, fd, b))
  <1> DEFINE z == [findZoneInfo(h, fd) EXCEPT !.box = b]
             t == [h.zones EXCEPT ![IndexOf(h, fd)] = z]
  <1>1. h \in Orchestrators /\ Registered(h)
    BY DEF Sound
  <1>2. z \in ZoneInfo /\ z.fd = fd
    BY <1>1, EntryOf DEF ZoneInfo
  <1>3. SetBox(h, fd, b) = [h EXCEPT !.zones = t]
    BY DEF SetBox, findZoneInfo
  <1>4. /\ t \in Seq(ZoneInfo) /\ {t[i].fd : i \in DOMAIN t} = Listed(h)
        /\ \A i, j \in DOMAIN t : t[i].fd = t[j].fd => i = j
    <2> HIDE DEF z
    <2> QED BY <1>1, <1>2, WriteEntry
  <1> HIDE DEF t
  <1> QED BY <1>1, <1>3, <1>4, NewZonesSound

(* A packet is written to a zone. *)
LEMMA SendSound ==
    ASSUME NEW h, Sound(h), NEW fd \in Fds, NEW m \in Message
    PROVE  Sound(Send(h, fd, m))
  <1>1. h \in Orchestrators /\ h.out[fd] \in Seq(Message)
    BY DEF Sound, Orchestrators
  <1>2. Append(h.out[fd], m) \in Seq(Message)
    BY <1>1
  <1> DEFINE g == [h EXCEPT !.out[fd] = Append(@, m)]
  <1>3. g \in Orchestrators
    BY <1>1, <1>2 DEF Orchestrators
  <1>4. g.zones = h.zones /\ g.state = h.state /\ g.drain = h.drain /\ g.lcSeq = h.lcSeq
    BY <1>1 DEF Orchestrators
  <1>5. Sound(g)
    BY <1>3, <1>4, SameRegistry
  <1> QED BY <1>5 DEF Send

(* PKT_METRICS registers a zone or refreshes its entry; a retired zone is  *)
(* not put back.                                                           *)
LEMMA updateNodeTopologySound ==
    ASSUME NEW h, Sound(h), NEW fd \in Fds, NEW p \in Ports, NEW b \in Box
    PROVE  Sound(updateNodeTopology(h, fd, p, b))
  <1> DEFINE z == [fd |-> fd, port |-> p, box |-> b]
             seen == [h EXCEPT !.stale = @ \ {fd}]
  <1>1. h \in Orchestrators /\ Registered(h) /\ h.zones \in Seq(ZoneInfo)
    BY DEF Sound, Orchestrators
  <1>2. z \in ZoneInfo /\ z.fd = fd
    BY DEF ZoneInfo
  <1>3. /\ seen \in Orchestrators
        /\ seen.zones = h.zones /\ seen.state = h.state
        /\ seen.drain = h.drain /\ seen.lcSeq = h.lcSeq
    BY <1>1 DEF Orchestrators
  <1>4. Sound(seen)
    BY <1>3, SameRegistry
  <1>5. CASE fd \in Listed(h)
    <2> DEFINE t == [h.zones EXCEPT ![IndexOf(h, fd)] = z]
    <2>1. updateNodeTopology(h, fd, p, b) = [seen EXCEPT !.zones = t]
      BY <1>3, <1>5 DEF updateNodeTopology
    <2>2. /\ t \in Seq(ZoneInfo) /\ {t[i].fd : i \in DOMAIN t} = Listed(h)
          /\ \A i, j \in DOMAIN t : t[i].fd = t[j].fd => i = j
      <3> HIDE DEF z
      <3> QED BY <1>1, <1>2, <1>5, WriteEntry
    <2>3. Listed(seen) = Listed(h)
      BY <1>3 DEF Listed
    <2> HIDE DEF t, seen
    <2> QED BY <1>4, <2>1, <2>2, <2>3, NewZonesSound
  <1>6. CASE fd \notin Listed(h) /\ isRoutable(h, fd)
    <2> DEFINE g == [seen EXCEPT !.zones = Append(@, z)]
    <2>1. g.zones = Append(h.zones, z)
      BY <1>3 DEF Orchestrators
    <2>2. /\ g.zones \in Seq(ZoneInfo)
          /\ DOMAIN g.zones = DOMAIN h.zones \cup {Len(h.zones) + 1}
          /\ \A i \in DOMAIN h.zones : g.zones[i] = h.zones[i]
          /\ g.zones[Len(h.zones) + 1] = z
      <3> HIDE DEF g, z
      <3> QED BY <1>1, <1>2, <2>1
    <2>3. Listed(g) = Listed(h) \cup {fd}
      <3> HIDE DEF g, z
      <3> QED BY <1>2, <2>2 DEF Listed
    <2>4. \A i, j \in DOMAIN g.zones : g.zones[i].fd = g.zones[j].fd => i = j
      <3> HIDE DEF g, z
      <3> QED BY <1>1, <1>2, <1>6, <2>2 DEF Listed, Registered
    <2>5. g \in Orchestrators /\ g.state = h.state /\ g.drain = h.drain /\ g.lcSeq = h.lcSeq
      BY <1>3, <2>1, <2>2 DEF Orchestrators
    <2>6. h.state[fd] \in {"READY", "DRAINING"}
      BY <1>1, <1>6 DEF isRoutable, Orchestrators, ZoneState
    <2>7. Registered(g)
      <3> HIDE DEF g, z
      <3> QED BY <1>1, <2>3, <2>4, <2>5, <2>6 DEF Registered
    <2>8. DrainsRecorded(g)
      <3> HIDE DEF g, z
      <3> QED BY <2>3, <2>5 DEF Sound, DrainsRecorded
    <2>9. Sound(g)
      BY <2>5, <2>7, <2>8 DEF Sound
    <2> QED BY <1>6, <2>9 DEF updateNodeTopology
  <1>7. CASE fd \notin Listed(h) /\ ~isRoutable(h, fd)
    BY <1>4, <1>7 DEF updateNodeTopology
  <1> QED BY <1>5, <1>6, <1>7

(* The descriptors of a list of entries. *)
FdsOf(s) == {s[i].fd : i \in DOMAIN s}

(* Erasing the entry at k leaves the others, once each. *)
LEMMA WithoutEffect ==
    ASSUME NEW s \in Seq(ZoneInfo), NEW k \in DOMAIN s,
           \A i, j \in DOMAIN s : s[i].fd = s[j].fd => i = j
    PROVE  LET t == Without(s, k)
           IN  /\ t \in Seq(ZoneInfo)
               /\ FdsOf(t) = FdsOf(s) \ {s[k].fd}
               /\ \A i, j \in DOMAIN t : t[i].fd = t[j].fd => i = j
  <1> DEFINE t == Without(s, k)
             n == Len(s) - 1
             from(j) == IF j < k THEN j ELSE j + 1
  <1>1. Len(s) \in Nat /\ DOMAIN s = 1..Len(s) /\ k \in 1..Len(s) /\ n \in Nat
    OBVIOUS
  <1>2. /\ DOMAIN t = 1..n
        /\ \A j \in 1..n : t[j] = s[from(j)]
    BY DEF Without
  <1>3. \A j \in 1..n : from(j) \in 1..Len(s) /\ from(j) # k
    BY <1>1
  <1>4. \A i, j \in 1..n : from(i) = from(j) => i = j
    BY <1>1
  <1>5. \A j \in 1..Len(s) : j # k => \E i \in 1..n : from(i) = j
    <2> SUFFICES ASSUME NEW j \in 1..Len(s), j # k
                 PROVE  \E i \in 1..n : from(i) = j
      OBVIOUS
    <2>1. CASE j < k
      BY <1>1, <2>1
    <2>2. CASE j > k
      <3>1. j - 1 \in 1..n /\ from(j - 1) = j
        BY <1>1, <2>2
      <3> QED BY <3>1
    <2> QED BY <1>1, <2>1, <2>2
  <1> HIDE DEF n, from
  <1>6. t \in Seq(ZoneInfo)
    <2>1. \A j \in 1..n : t[j] \in ZoneInfo
      BY <1>1, <1>2, <1>3
    <2>2. t = [j \in 1..n |-> t[j]]
      BY DEF Without, n
    <2>3. t \in [1..n -> ZoneInfo]
      BY <2>1, <2>2
    <2> HIDE DEF t
    <2> QED BY <1>1, <2>3, SeqDef
  <1> HIDE DEF t
  <1>7. FdsOf(t) = FdsOf(s) \ {s[k].fd}
    <2> DEFINE T == {t[i].fd : i \in DOMAIN t}
               S == {s[i].fd : i \in DOMAIN s} \ {s[k].fd}
    <2>1. ASSUME NEW i \in 1..n PROVE t[i].fd \in S
      BY <1>1, <1>2, <1>3
    <2>2. T \subseteq S
      BY <1>2, <2>1
    <2>3. ASSUME NEW j \in 1..Len(s), j # k PROVE s[j].fd \in T
      <3>1. PICK i \in 1..n : from(i) = j
        BY <1>5, <2>3
      <3> QED BY <1>2, <3>1
    <2>4. S \subseteq T
      <3> SUFFICES ASSUME NEW x \in S PROVE x \in T
        OBVIOUS
      <3>1. PICK j \in 1..Len(s) : x = s[j].fd
        BY <1>1
      <3>2. j # k
        BY <3>1
      <3> HIDE DEF T
      <3> QED BY <2>3, <3>1, <3>2
    <2> QED BY <2>2, <2>4 DEF FdsOf
  <1>8. \A i, j \in DOMAIN t : t[i].fd = t[j].fd => i = j
    BY <1>1, <1>2, <1>3, <1>4
  <1> QED BY <1>6, <1>7, <1>8 DEF t

-----------------------------------------------------------------------------
(* Retiring a zone *)

(* Erasing a zone takes its descriptor, and nothing else, off the list. *)
LEMMA RemoveEffect ==
    ASSUME NEW h, Sound(h), NEW fd \in Fds
    PROVE  LET g == removeFromActiveZones(h, fd)
           IN  /\ g \in Orchestrators
               /\ Listed(g) = Listed(h) \ {fd}
               /\ \A i, j \in DOMAIN g.zones : g.zones[i].fd = g.zones[j].fd => i = j
               /\ g.state = h.state /\ g.drain = h.drain /\ g.lcSeq = h.lcSeq
  <1> DEFINE t == IF fd \in Listed(h) THEN Without(h.zones, IndexOf(h, fd)) ELSE h.zones
  <1>1. /\ h \in Orchestrators /\ h.zones \in Seq(ZoneInfo)
        /\ \A i, j \in DOMAIN h.zones : h.zones[i].fd = h.zones[j].fd => i = j
    BY DEF Sound, Orchestrators, Registered
  <1>2. /\ t \in Seq(ZoneInfo)
        /\ {t[i].fd : i \in DOMAIN t} = Listed(h) \ {fd}
        /\ \A i, j \in DOMAIN t : t[i].fd = t[j].fd => i = j
    <2>1. CASE fd \in Listed(h)
      <3>1. IndexOf(h, fd) \in DOMAIN h.zones /\ h.zones[IndexOf(h, fd)].fd = fd
        BY <1>1, <2>1, EntryOf
      <3>2. t = Without(h.zones, IndexOf(h, fd))
        BY <2>1
      <3> HIDE DEF t
      <3>3. PICK s, k : s = h.zones /\ k = IndexOf(h, fd)
        OBVIOUS
      <3>4. /\ s \in Seq(ZoneInfo) /\ k \in DOMAIN s /\ s[k].fd = fd
            /\ \A i, j \in DOMAIN s : s[i].fd = s[j].fd => i = j
            /\ t = Without(s, k)
        BY <1>1, <3>1, <3>2, <3>3
      <3>5. /\ t \in Seq(ZoneInfo)
            /\ FdsOf(t) = FdsOf(s) \ {s[k].fd}
            /\ \A i, j \in DOMAIN t : t[i].fd = t[j].fd => i = j
        BY <3>4, WithoutEffect
      <3>6. {t[i].fd : i \in DOMAIN t} = FdsOf(t) /\ FdsOf(s) = Listed(h)
        BY <3>3 DEF Listed, FdsOf
      <3> QED BY <3>4, <3>5, <3>6
    <2>2. CASE fd \notin Listed(h)
      <3>1. t = h.zones
        BY <2>2
      <3> HIDE DEF t
      <3> QED BY <1>1, <2>2, <3>1 DEF Listed
    <2> QED BY <2>1, <2>2
  <1>3. PICK g : g = removeFromActiveZones(h, fd)
    OBVIOUS
  <1>4. g = [h EXCEPT !.floor = @ \ {fd}, !.zones = t]
    BY <1>1, <1>3 DEF removeFromActiveZones, Orchestrators
  <1> HIDE DEF t
  <1>5. /\ g \in Orchestrators /\ g.zones = t
        /\ g.state = h.state /\ g.drain = h.drain /\ g.lcSeq = h.lcSeq
    BY <1>1, <1>2, <1>4 DEF Orchestrators
  <1>6. Listed(g) = Listed(h) \ {fd}
    BY <1>2, <1>5 DEF Listed
  <1> QED BY <1>2, <1>3, <1>5, <1>6

(* A zone that leaves the list as DEAD or DESTROYED takes its drain with   *)
(* it.                                                                     *)
LEMMA RetireSound ==
    ASSUME NEW h, Sound(h), NEW fd \in Fds, NEW s \in {"DEAD", "DESTROYED"}
    PROVE  Sound(Retire(h, fd, s))
  <1>1. PICK r : r = removeFromActiveZones(h, fd)
    OBVIOUS
  <1>2. /\ r \in Orchestrators
        /\ Listed(r) = Listed(h) \ {fd}
        /\ \A i, j \in DOMAIN r.zones : r.zones[i].fd = r.zones[j].fd => i = j
        /\ r.state = h.state /\ r.drain = h.drain /\ r.lcSeq = h.lcSeq
    BY <1>1, RemoveEffect
  <1>3. PICK g : g = Retire(h, fd, s)
    OBVIOUS
  <1>4. g = [r EXCEPT !.state[fd] = s, !.drain[fd] = NoDrain,
                      !.replicas = IF @ > 0 THEN @ - 1 ELSE @]
    BY <1>1, <1>3 DEF Retire
  <1>5. NoDrain \in Drain /\ s \in ZoneState
    BY DEF NoDrain, Drain, ZoneState
  <1>6. (IF r.replicas > 0 THEN r.replicas - 1 ELSE r.replicas) \in Nat
    BY <1>2 DEF Orchestrators
  <1>7. /\ g \in Orchestrators /\ g.zones = r.zones /\ g.lcSeq = h.lcSeq
        /\ g.state = [h.state EXCEPT ![fd] = s]
        /\ g.drain = [h.drain EXCEPT ![fd] = NoDrain]
    BY <1>2, <1>4, <1>5, <1>6 DEF Orchestrators
  <1>8. Listed(g) = Listed(h) \ {fd}
    BY <1>2, <1>7 DEF Listed
  <1>9. h.state \in [Fds -> ZoneState] /\ h.drain \in [Fds -> Drain]
    BY DEF Sound, Orchestrators
  <1>10. /\ g.state[fd] = s /\ g.drain[fd] = NoDrain
         /\ \A o \in Fds \ {fd} : g.state[o] = h.state[o] /\ g.drain[o] = h.drain[o]
    BY <1>7, <1>9
  <1>11. Registered(g)
    <2>1. Listed(h) \subseteq Fds
      BY EntryOf DEF Sound
    <2> QED BY <1>2, <1>7, <1>8, <1>10, <2>1 DEF Registered, Sound
  <1>12. DrainsRecorded(g)
    <2>1. DrainsRecorded(h) /\ NoDrain.req = 0 /\ g.state[fd] # "DRAINING"
      BY <1>10 DEF Sound, NoDrain
    <2>2. \A o \in Fds : g.state[o] = "DRAINING" <=> g.drain[o] # NoDrain
      BY <1>10, <2>1 DEF DrainsRecorded
    <2>3. \A o \in Fds : g.state[o] = "DRAINING" => o # fd /\ h.state[o] = "DRAINING"
      BY <1>10, <2>1
    <2>4. \A o \in Fds : g.state[o] = "DRAINING" =>
              /\ o \in Listed(g)
              /\ g.drain[o].req \in 1..g.lcSeq - 1
              /\ g.drain[o].target # o
      BY <1>7, <1>8, <1>10, <2>1, <2>3 DEF DrainsRecorded
    <2>5. ASSUME NEW o \in Fds, NEW q \in Fds, g.state[o] = "DRAINING",
                 g.drain[o].req = g.drain[q].req
          PROVE  o = q
      <3>1. o # fd /\ h.state[o] = "DRAINING" /\ g.drain[o] = h.drain[o]
        BY <1>10, <2>3, <2>5
      <3>2. g.drain[o].req # 0
        BY <2>4, <2>5, <1>2, <1>7 DEF Orchestrators
      <3>3. q # fd
        BY <1>10, <2>1, <2>5, <3>2
      <3> QED BY <1>10, <2>1, <2>5, <3>1, <3>3 DEF DrainsRecorded
    <2> QED BY <2>2, <2>4, <2>5 DEF DrainsRecorded
  <1> QED BY <1>3, <1>7, <1>11, <1>12 DEF Sound

(* The deployment of a zone is deleted. *)
LEMMA deleteZoneNodeSound ==
    ASSUME NEW h, Sound(h), NEW fd \in Fds
    PROVE  Sound(deleteZoneNode(h, fd))
  <1>1. PICK g : g = deleteZoneNode(h, fd)
    OBVIOUS
  <1>2. h \in Orchestrators
    BY DEF Sound
  <1>3. CASE fd \in Listed(h)
    <2>1. findZoneInfo(h, fd).port \in Ports
      BY <1>2, <1>3, EntryOf DEF ZoneInfo
    <2>2. g = [h EXCEPT !.deployed[findZoneInfo(h, fd).port] = NoBox]
      BY <1>1, <1>3 DEF deleteZoneNode
    <2>3. /\ g \in Orchestrators /\ g.zones = h.zones
          /\ g.state = h.state /\ g.drain = h.drain /\ g.lcSeq = h.lcSeq
      BY <1>2, <2>1, <2>2 DEF Orchestrators
    <2> QED BY <1>1, <2>3, SameRegistry
  <1>4. CASE fd \notin Listed(h)
    BY <1>4 DEF deleteZoneNode
  <1> QED BY <1>3, <1>4

(* An eviction. *)
LEMMA evictStaleZoneSound ==
    ASSUME NEW h, Sound(h), NEW fd \in Fds
    PROVE  Sound(evictStaleZone(h, fd))
  <1>1. PICK g : g = IF h.state[fd] = "DESTROYED" THEN h ELSE deleteZoneNode(h, fd)
    OBVIOUS
  <1>2. Sound(g)
    BY <1>1, deleteZoneNodeSound
  <1> QED BY <1>1, <1>2, RetireSound DEF evictStaleZone

(* The acknowledgement of a drain, whatever request it names. *)
LEMMA handleZoneLifecycleSound ==
    ASSUME NEW h, Sound(h), NEW fd \in Fds, NEW req \in Nat
    PROVE  Sound(handleZoneLifecycle(h, fd, req))
  <1>1. PICK r : r = Retire(deleteZoneNode(h, fd), fd, "DESTROYED")
    OBVIOUS
  <1>2. Sound(r)
    BY <1>1, deleteZoneNodeSound, RetireSound
  <1>3. PICK g : g = [r EXCEPT !.age[fd] = "settling"]
    OBVIOUS
  <1>4. /\ g \in Orchestrators /\ g.zones = r.zones
        /\ g.state = r.state /\ g.drain = r.drain /\ g.lcSeq = r.lcSeq
    BY <1>2, <1>3 DEF Sound, Orchestrators
  <1>5. Sound(g)
    BY <1>2, <1>4, SameRegistry
  <1>6. [type |-> "delete", req |-> req] \in Message
    BY DEF Message
  <1>7. Sound(Send(g, fd, [type |-> "delete", req |-> req]))
    BY <1>5, <1>6, SendSound
  <1> QED BY <1>1, <1>3, <1>7 DEF handleZoneLifecycle

-----------------------------------------------------------------------------
(* Starting a drain *)

(* A range command is written to a zone. *)
LEMMA sendResizeCommandSound ==
    ASSUME NEW h, Sound(h), NEW fd \in Fds, NEW a \in Axes, NEW i \in Interval
    PROVE  Sound(sendResizeCommand(h, fd, a, i))
  <1>1. PICK m : m = [type |-> "resize", axis |-> a, to |-> i]
    OBVIOUS
  <1>2. m \in Message
    BY <1>1 DEF Message
  <1> QED BY <1>1, <1>2, SendSound DEF sendResizeCommand

(* The survivor takes the range of the victim, or is left as it is. *)
LEMMA absorbRegionSound ==
    ASSUME NEW h, Sound(h), NEW survivor \in Listed(h), NEW victim \in Listed(h)
    PROVE  Sound(absorbRegion(h, survivor, victim))
  <1>1. PICK s, v : s = findZoneInfo(h, survivor).box /\ v = findZoneInfo(h, victim).box
    OBVIOUS
  <1>2. s \in Box /\ v \in Box /\ survivor \in Fds
    BY <1>1, EntryOf DEF ZoneInfo, Sound
  <1>3. CASE mergeableAxes(s, v) = {}
    BY <1>1, <1>3 DEF absorbRegion
  <1>4. CASE mergeableAxes(s, v) # {}
    <2>1. PICK a : a = CHOOSE x \in mergeableAxes(s, v) : TRUE
      OBVIOUS
    <2>2. a \in mergeableAxes(s, v)
      BY <1>4, <2>1
    <2>3. a \in Axes
      BY <2>2 DEF mergeableAxes
    <2>4. PICK i : i = Hull(s[a], v[a])
      OBVIOUS
    <2>5. i \in Interval
      BY <1>2, <2>3, <2>4, HullType DEF Box
    <2>6. Resize(s, a, i) \in Box
      BY <1>2, <2>3, <2>5, ResizeType
    <2>7. Sound(SetBox(h, survivor, Resize(s, a, i)))
      BY <2>6, SetBoxSound
    <2>8. absorbRegion(h, survivor, victim)
            = sendResizeCommand(SetBox(h, survivor, Resize(s, a, i)), survivor, a, i)
      BY <1>1, <1>4, <2>1, <2>4 DEF absorbRegion
    <2> QED BY <1>2, <2>3, <2>5, <2>7, <2>8, sendResizeCommandSound
  <1> QED BY <1>3, <1>4

(* The state a drain of victim starts in: the request is recorded and the  *)
(* victim no longer routable.                                              *)
MarkDrain(h, victim, survivor) ==
    [h EXCEPT !.lcSeq = @ + 1,
              !.drain[victim] = [req |-> h.lcSeq, target |-> survivor, late |-> FALSE],
              !.state = [@ EXCEPT ![victim] = "DRAINING", ![survivor] = "READY"],
              !.age = [@ EXCEPT ![victim] = "settling", ![survivor] = "settling"]]

(* A new request id is greater than every recorded one, so recording it    *)
(* keeps the drains apart.                                                 *)
LEMMA MarkDrainSound ==
    ASSUME NEW h, Sound(h), NEW victim \in Listed(h), NEW survivor \in Listed(h),
           victim # survivor, h.state[victim] = "READY", h.state[survivor] = "READY"
    PROVE  Sound(MarkDrain(h, victim, survivor)) /\ Listed(MarkDrain(h, victim, survivor)) = Listed(h)
  <1>1. h \in Orchestrators /\ Registered(h) /\ DrainsRecorded(h)
    BY DEF Sound
  <1>2. victim \in Fds /\ survivor \in Fds
    BY <1>1, EntryOf
  <1>3. PICK d : d = [req |-> h.lcSeq, target |-> survivor, late |-> FALSE]
    OBVIOUS
  <1>4. h.lcSeq \in Nat /\ h.lcSeq > 0
    BY <1>1 DEF Orchestrators
  <1>5. d \in Drain /\ d # NoDrain /\ d.req = h.lcSeq /\ d.target = survivor
    BY <1>2, <1>3, <1>4 DEF Drain, NoDrain
  <1>6. PICK g : g = MarkDrain(h, victim, survivor)
    OBVIOUS
  <1>7. /\ g \in Orchestrators /\ g.zones = h.zones /\ g.lcSeq = h.lcSeq + 1
        /\ g.drain = [h.drain EXCEPT ![victim] = d]
        /\ g.state = [h.state EXCEPT ![victim] = "DRAINING", ![survivor] = "READY"]
    <2>1. PICK st, ag, dr, n :
              /\ n = h.lcSeq + 1
              /\ st = [h.state EXCEPT ![victim] = "DRAINING", ![survivor] = "READY"]
              /\ ag = [h.age EXCEPT ![victim] = "settling", ![survivor] = "settling"]
              /\ dr = [h.drain EXCEPT ![victim] = d]
      OBVIOUS
    <2>2. /\ st \in [Fds -> ZoneState]
          /\ ag \in [Fds -> {"settling", "window", "clear"}]
          /\ dr \in [Fds -> Drain]
      BY <1>1, <1>2, <1>5, <2>1 DEF Orchestrators, ZoneState
    <2>3. n \in Nat \ {0}
      BY <1>4, <2>1
    <2>4. g = [h EXCEPT !.lcSeq = n, !.drain = dr, !.state = st, !.age = ag]
      BY <1>1, <1>3, <1>6, <2>1 DEF MarkDrain, Orchestrators
    <2>5. /\ g \in Orchestrators /\ g.zones = h.zones /\ g.lcSeq = h.lcSeq + 1
          /\ g.drain = dr /\ g.state = st
      BY <1>1, <2>1, <2>2, <2>3, <2>4 DEF Orchestrators
    <2> QED BY <2>1, <2>5
  <1>8. h.state \in [Fds -> ZoneState] /\ h.drain \in [Fds -> Drain]
    BY <1>1 DEF Orchestrators
  <1>9. /\ g.state[victim] = "DRAINING" /\ g.drain[victim] = d
        /\ \A o \in Fds \ {victim} : g.state[o] = h.state[o] /\ g.drain[o] = h.drain[o]
    BY <1>2, <1>7, <1>8
  <1>10. Listed(g) = Listed(h) /\ Listed(h) \subseteq Fds
    BY <1>1, <1>7, EntryOf DEF Listed
  <1>11. Registered(g)
    BY <1>1, <1>7, <1>9, <1>10 DEF Registered
  <1>12. DrainsRecorded(g)
    <2>1. \A o \in Fds : g.state[o] = "DRAINING" <=> g.drain[o] # NoDrain
      BY <1>1, <1>5, <1>9 DEF DrainsRecorded
    <2>2. \A o \in Fds \ {victim} : g.drain[o].req \in 0..h.lcSeq - 1
      <3> SUFFICES ASSUME NEW o \in Fds \ {victim} PROVE h.drain[o].req \in 0..h.lcSeq - 1
        BY <1>9
      <3>1. CASE h.state[o] = "DRAINING"
        BY <1>1, <1>4, <3>1 DEF DrainsRecorded
      <3>2. CASE h.state[o] # "DRAINING"
        <4>1. h.drain[o] = NoDrain
          BY <1>1, <3>2 DEF DrainsRecorded
        <4> QED BY <1>4, <4>1 DEF NoDrain
      <3> QED BY <3>1, <3>2
    <2>3. \A o \in Fds : g.state[o] = "DRAINING" =>
              /\ o \in Listed(g)
              /\ g.drain[o].req \in 1..g.lcSeq - 1
              /\ g.drain[o].target # o
      BY <1>1, <1>4, <1>5, <1>7, <1>9, <1>10 DEF DrainsRecorded
    <2>4. ASSUME NEW o \in Fds, NEW q \in Fds, g.state[o] = "DRAINING",
                 g.drain[o].req = g.drain[q].req
          PROVE  o = q
      <3>1. CASE o = victim \/ q = victim
        BY <1>4, <1>5, <1>9, <2>2, <2>4, <3>1
      <3>2. CASE o # victim /\ q # victim
        BY <1>1, <1>9, <2>4, <3>2 DEF DrainsRecorded
      <3> QED BY <3>1, <3>2
    <2> QED BY <2>1, <2>3, <2>4 DEF DrainsRecorded
  <1> QED BY <1>6, <1>7, <1>10, <1>11, <1>12 DEF Sound

(* tryMergeDown and tryReassign start the drain of a zone in favour of     *)
(* another.                                                                *)
LEMMA StartDrainSound ==
    ASSUME NEW h, Sound(h), NEW victim \in Listed(h), NEW survivor \in Listed(h),
           victim # survivor, h.state[victim] = "READY", h.state[survivor] = "READY"
    PROVE  Sound(StartDrain(h, victim, survivor))
  <1>1. PICK g : g = MarkDrain(h, victim, survivor)
    OBVIOUS
  <1>2. Sound(g) /\ Listed(g) = Listed(h)
    BY <1>1, MarkDrainSound
  <1>3. Sound(absorbRegion(g, survivor, victim))
    BY <1>2, absorbRegionSound
  <1>4. PICK m : m = [type |-> "drain", req |-> h.lcSeq]
    OBVIOUS
  <1>5. victim \in Fds /\ m \in Message
    BY <1>4, EntryOf DEF Sound, Orchestrators, Message
  <1> QED BY <1>1, <1>3, <1>4, <1>5, SendSound DEF StartDrain, MarkDrain

(* Zones that a merge or a reassignment can pair with fd. *)
LEMMA NeighboursReady ==
    ASSUME NEW h, NEW fd, NEW n \in Neighbours(h, fd)
    PROVE  n \in Listed(h) /\ n # fd /\ h.state[n] = "READY"
  BY DEF Neighbours, Routable

(* tryMergeDown in each of its outcomes. *)
LEMMA tryMergeDownSound ==
    ASSUME NEW h, Sound(h), NEW fd \in Fds, NEW r \in tryMergeDown(h, fd)
    PROVE  Sound(r.h)
  <1>1. ASSUME NEW v \in {"none", "counting", "elapsed"}
        PROVE  /\ Sound([h EXCEPT !.low[fd] = v])
               /\ Listed([h EXCEPT !.low[fd] = v]) = Listed(h)
               /\ [h EXCEPT !.low[fd] = v].state = h.state
    <2>1. PICK g : g = [h EXCEPT !.low[fd] = v]
      OBVIOUS
    <2>2. /\ g \in Orchestrators /\ g.zones = h.zones
          /\ g.state = h.state /\ g.drain = h.drain /\ g.lcSeq = h.lcSeq
      BY <2>1 DEF Sound, Orchestrators
    <2> QED BY <2>1, <2>2, SameRegistry DEF Listed
  <1>2. CASE r \in {Outcome(h, FALSE)}
    BY <1>2 DEF Outcome
  <1>3. CASE \E v \in {"none", "counting"} : r = Outcome([h EXCEPT !.low[fd] = v], FALSE)
    BY <1>1, <1>3 DEF Outcome
  <1>4. CASE /\ CanGiveUpZone(h, fd)
             /\ \E victim \in Smallest(h, Neighbours(h, fd)) :
                    r = Outcome(StartDrain([h EXCEPT !.low[fd] = "none"], victim, fd), TRUE)
    <2>1. PICK victim \in Smallest(h, Neighbours(h, fd)) :
              r = Outcome(StartDrain([h EXCEPT !.low[fd] = "none"], victim, fd), TRUE)
      BY <1>4
    <2>2. PICK g : g = [h EXCEPT !.low[fd] = "none"]
      OBVIOUS
    <2>3. Sound(g) /\ Listed(g) = Listed(h) /\ g.state = h.state
      BY <1>1, <2>2
    <2>4. victim \in Neighbours(h, fd)
      BY DEF Smallest
    <2>5. victim \in Listed(h) /\ victim # fd /\ h.state[victim] = "READY"
      BY <2>4, NeighboursReady
    <2>6. fd \in Listed(h) /\ h.state[fd] = "READY"
      BY <1>4 DEF CanGiveUpZone
    <2>7. Sound(StartDrain(g, victim, fd))
      BY <2>3, <2>5, <2>6, StartDrainSound
    <2> QED BY <2>1, <2>2, <2>7 DEF Outcome
  <1> QED BY <1>2, <1>3, <1>4 DEF tryMergeDown

(* tryReassign in each of its outcomes. *)
LEMMA tryReassignSound ==
    ASSUME NEW h, Sound(h), NEW fd \in Fds, NEW r \in tryReassign(h, fd)
    PROVE  Sound(r.h)
  <1>1. CASE r = Outcome(h, TRUE)
    BY <1>1 DEF Outcome
  <1>2. CASE /\ CanGiveUpZone(h, fd)
             /\ \E survivor \in Largest(h, Neighbours(h, fd)) :
                    r = Outcome(StartDrain(h, fd, survivor), TRUE)
    <2>1. PICK survivor \in Largest(h, Neighbours(h, fd)) :
              r = Outcome(StartDrain(h, fd, survivor), TRUE)
      BY <1>2
    <2>2. survivor \in Neighbours(h, fd)
      BY DEF Largest
    <2>3. survivor \in Listed(h) /\ survivor # fd /\ h.state[survivor] = "READY"
      BY <2>2, NeighboursReady
    <2>4. fd \in Listed(h) /\ h.state[fd] = "READY"
      BY <1>2 DEF CanGiveUpZone
    <2>5. Sound(StartDrain(h, fd, survivor))
      BY <2>3, <2>4, StartDrainSound
    <2> QED BY <2>1, <2>5 DEF Outcome
  <1> QED BY <1>1, <1>2 DEF tryReassign

-----------------------------------------------------------------------------
(* Splitting a zone *)

(* A zone is spawned for the child of a split. *)
LEMMA SpawnZoneNodeSound ==
    ASSUME NEW h, Sound(h), NEW b \in Box, NEW g \in SpawnZoneNode(h, b)
    PROVE  Sound(g)
  <1>1. h \in Orchestrators
    BY DEF Sound
  <1>2. PICK p \in Ports :
            g = [h EXCEPT !.deployed[p] = b, !.nextPort = @ + 1, !.replicas = @ + 1]
    BY DEF SpawnZoneNode
  <1>3. h.nextPort + 1 \in Nat /\ h.replicas + 1 \in Nat
    BY <1>1 DEF Orchestrators
  <1>4. /\ g \in Orchestrators /\ g.zones = h.zones
        /\ g.state = h.state /\ g.drain = h.drain /\ g.lcSeq = h.lcSeq
    BY <1>1, <1>2, <1>3 DEF Orchestrators
  <1> QED BY <1>4, SameRegistry

(* trySplitDown in each of its outcomes. *)
LEMMA trySplitDownSound ==
    ASSUME NEW h, Sound(h), NEW fd \in Fds, NEW r \in trySplitDown(h, fd)
    PROVE  Sound(r.h)
  <1> DEFINE b == findZoneInfo(h, fd).box
             roomy == [h EXCEPT !.floor = @ \ {fd}]
             tight == [h EXCEPT !.floor = @ \cup {fd}]
  <1>1. h \in Orchestrators
    BY DEF Sound
  <1>2. Sound(roomy) /\ Sound(tight)
    <2>1. PICK g, k : g = roomy /\ k = tight
      OBVIOUS
    <2>2. /\ g \in Orchestrators /\ g.zones = h.zones
          /\ g.state = h.state /\ g.drain = h.drain /\ g.lcSeq = h.lcSeq
      BY <1>1, <2>1 DEF Orchestrators
    <2>3. /\ k \in Orchestrators /\ k.zones = h.zones
          /\ k.state = h.state /\ k.drain = h.drain /\ k.lcSeq = h.lcSeq
      BY <1>1, <2>1 DEF Orchestrators
    <2> HIDE DEF roomy, tight
    <2> QED BY <2>1, <2>2, <2>3, SameRegistry
  <1>3. CASE r = Outcome(h, FALSE)
    BY <1>3 DEF Outcome
  <1>4. CASE r = Outcome(tight, FALSE) \/ r = Outcome(roomy, FALSE)
    <2> HIDE DEF roomy, tight
    <2> QED BY <1>2, <1>4 DEF Outcome
  <1>5. CASE /\ fd \in Listed(h)
             /\ \E k \in Cuts(b) : \E s \in SpawnZoneNode(roomy, ChildBox(b, k)) :
                    r = Outcome(sendResizeCommand([s EXCEPT !.cooling = @ \cup {fd}],
                                    fd, k.axis, ParentBox(b, k)[k.axis]), TRUE)
    <2> HIDE DEF roomy
    <2>1. b \in Box
      BY <1>1, <1>5, EntryOf DEF ZoneInfo
    <2> HIDE DEF b
    <2>2. PICK k \in Cuts(b) : \E s \in SpawnZoneNode(roomy, ChildBox(b, k)) :
              r = Outcome(sendResizeCommand([s EXCEPT !.cooling = @ \cup {fd}],
                              fd, k.axis, ParentBox(b, k)[k.axis]), TRUE)
      BY <1>5
    <2>3. PICK s \in SpawnZoneNode(roomy, ChildBox(b, k)) :
              r = Outcome(sendResizeCommand([s EXCEPT !.cooling = @ \cup {fd}],
                              fd, k.axis, ParentBox(b, k)[k.axis]), TRUE)
      BY <2>2
    <2>4. /\ k.axis \in Axes /\ k.low \in Int /\ k.high \in Int
          /\ b[k.axis].lo \in Int /\ b[k.axis].hi \in Int
      BY <2>1, CutsType DEF Cuts, Cut, Box, Interval
    <2>5. [lo |-> b[k.axis].lo, hi |-> k.low] \in Interval
          /\ [lo |-> k.high, hi |-> b[k.axis].hi] \in Interval
      BY <2>4 DEF Interval
    <2>6. ParentBox(b, k) \in Box /\ ChildBox(b, k) \in Box
      BY <2>1, <2>4, <2>5, ResizeType DEF ParentBox, ChildBox
    <2>7. Sound(s)
      BY <1>2, <2>3, <2>6, SpawnZoneNodeSound
    <2>8. PICK g : g = [s EXCEPT !.cooling = @ \cup {fd}]
      OBVIOUS
    <2>9. /\ g \in Orchestrators /\ g.zones = s.zones
          /\ g.state = s.state /\ g.drain = s.drain /\ g.lcSeq = s.lcSeq
      <3>1. s \in Orchestrators
        BY <2>7 DEF Sound
      <3> QED BY <2>8, <3>1 DEF Orchestrators
    <2>10. Sound(g)
      BY <2>7, <2>9, SameRegistry
    <2>11. ParentBox(b, k)[k.axis] \in Interval
      BY <2>4, <2>6 DEF Box
    <2>12. Sound(sendResizeCommand(g, fd, k.axis, ParentBox(b, k)[k.axis]))
      BY <2>4, <2>10, <2>11, sendResizeCommandSound
    <2> QED BY <2>3, <2>8, <2>12 DEF Outcome
  <1> HIDE DEF roomy, tight, b
  <1>6. \/ r = Outcome(h, FALSE)
        \/ r = Outcome(tight, FALSE) \/ r = Outcome(roomy, FALSE)
        \/ /\ fd \in Listed(h)
           /\ \E k \in Cuts(b) : \E s \in SpawnZoneNode(roomy, ChildBox(b, k)) :
                    r = Outcome(sendResizeCommand([s EXCEPT !.cooling = @ \cup {fd}],
                                    fd, k.axis, ParentBox(b, k)[k.axis]), TRUE)
    BY DEF trySplitDown, roomy, tight, b
  <1> QED BY <1>3, <1>4, <1>5, <1>6

-----------------------------------------------------------------------------
(* The lifecycle queue *)

(* The operation at the head of the queue, whichever it is. *)
LEMMA RunOpSound ==
    ASSUME NEW h, Sound(h), NEW fd \in Fds, NEW op \in LifecycleOp, NEW r \in RunOp(h, fd, op)
    PROVE  Sound(r.h)
  <1>1. CASE op = "EVICT"
    <2>1. r = Outcome(evictStaleZone(h, fd), TRUE)
      BY <1>1 DEF RunOp
    <2> QED BY <2>1, evictStaleZoneSound DEF Outcome
  <1>2. CASE op = "REASSIGN"
    <2>1. r \in tryReassign(h, fd)
      BY <1>2 DEF RunOp
    <2> QED BY <2>1, tryReassignSound
  <1>3. CASE op = "MERGE"
    <2>1. r \in tryMergeDown(h, fd)
      BY <1>3 DEF RunOp
    <2> QED BY <2>1, tryMergeDownSound
  <1>4. CASE op = "SPLIT"
    <2>1. r \in trySplitDown(h, fd)
      BY <1>4 DEF RunOp
    <2> QED BY <2>1, trySplitDownSound
  <1> QED BY <1>1, <1>2, <1>3, <1>4 DEF LifecycleOp

(* A request is queued or dropped. *)
LEMMA enqueueLifecycleSound ==
    ASSUME NEW h, Sound(h), NEW fd \in Fds, NEW op \in LifecycleOp
    PROVE  Sound(enqueueLifecycle(h, fd, op))
  <1>1. PICK g : g = [h EXCEPT !.pending[fd] = op]
    OBVIOUS
  <1>2. /\ g \in Orchestrators /\ g.zones = h.zones
        /\ g.state = h.state /\ g.drain = h.drain /\ g.lcSeq = h.lcSeq
    BY <1>1 DEF Sound, Orchestrators
  <1>3. Sound(g)
    BY <1>2, SameRegistry
  <1> QED BY <1>1, <1>3 DEF enqueueLifecycle

(* The sweep queues evictions and does nothing else. *)
LEMMA sweepStaleZonesSound ==
    ASSUME NEW h, Sound(h)
    PROVE  Sound(sweepStaleZones(h))
  <1>1. PICK q : q = [fd \in Fds |->
                        IF fd \in Listed(h) \cap h.stale THEN "EVICT" ELSE h.pending[fd]]
    OBVIOUS
  <1>2. q \in [Fds -> LifecycleOp \cup {"none"}]
    BY <1>1 DEF Sound, Orchestrators, LifecycleOp
  <1>3. PICK g : g = sweepStaleZones(h)
    OBVIOUS
  <1>4. g = [h EXCEPT !.pending = q]
    BY <1>1, <1>3 DEF sweepStaleZones, Sound, Orchestrators
  <1>5. /\ g \in Orchestrators /\ g.zones = h.zones
        /\ g.state = h.state /\ g.drain = h.drain /\ g.lcSeq = h.lcSeq
    BY <1>2, <1>4 DEF Sound, Orchestrators
  <1> QED BY <1>3, <1>5, SameRegistry

(* One pass over the queue. *)
LEMMA processLifecycleQueueSound ==
    ASSUME NEW h, Sound(h), NEW g \in processLifecycleQueue(h)
    PROVE  Sound(g)
  <1>1. CASE g = h
    BY <1>1
  <1>2. CASE \E fd \in NextOp(h) :
               \E r \in RunOp([h EXCEPT !.pending[fd] = "none"], fd, h.pending[fd]) :
                   g = IF r.acted THEN [r.h EXCEPT !.age[fd] = "settling"] ELSE r.h
    <2>1. PICK fd \in NextOp(h) :
               \E r \in RunOp([h EXCEPT !.pending[fd] = "none"], fd, h.pending[fd]) :
                   g = IF r.acted THEN [r.h EXCEPT !.age[fd] = "settling"] ELSE r.h
      BY <1>2
    <2>2. PICK r \in RunOp([h EXCEPT !.pending[fd] = "none"], fd, h.pending[fd]) :
                   g = IF r.acted THEN [r.h EXCEPT !.age[fd] = "settling"] ELSE r.h
      BY <2>1
    <2>3. fd \in Fds /\ h.pending[fd] \in LifecycleOp
      BY DEF NextOp, Settled, Sound, Orchestrators
    <2>4. PICK k : k = [h EXCEPT !.pending[fd] = "none"]
      OBVIOUS
    <2>5. /\ k \in Orchestrators /\ k.zones = h.zones
          /\ k.state = h.state /\ k.drain = h.drain /\ k.lcSeq = h.lcSeq
      BY <2>3, <2>4 DEF Sound, Orchestrators
    <2>6. Sound(k)
      BY <2>5, SameRegistry
    <2>7. Sound(r.h)
      BY <2>2, <2>3, <2>4, <2>6, RunOpSound
    <2>8. PICK n : n = r.h
      OBVIOUS
    <2>9. PICK a : a = [n EXCEPT !.age[fd] = "settling"]
      OBVIOUS
    <2>10. n \in Orchestrators
      BY <2>7, <2>8 DEF Sound
    <2>11. /\ a \in Orchestrators /\ a.zones = n.zones
           /\ a.state = n.state /\ a.drain = n.drain /\ a.lcSeq = n.lcSeq
      BY <2>3, <2>9, <2>10 DEF Orchestrators
    <2>12. Sound(a)
      BY <2>7, <2>8, <2>11, SameRegistry
    <2> QED BY <2>2, <2>7, <2>8, <2>9, <2>12
  <1> QED BY <1>1, <1>2 DEF processLifecycleQueue

-----------------------------------------------------------------------------
(* Evaluating a sample *)

(* A drain the head gives up on is taken off its books. *)
LEMMA drainFailSafeSound ==
    ASSUME NEW h, Sound(h), NEW fd \in Fds
    PROVE  Sound(drainFailSafe(h, fd))
  <1>1. CASE ~(h.state[fd] = "DRAINING" /\ h.drain[fd].late)
    BY <1>1 DEF drainFailSafe
  <1>2. CASE h.state[fd] = "DRAINING" /\ h.drain[fd].late
    <2>1. h \in Orchestrators /\ Registered(h) /\ DrainsRecorded(h)
      BY DEF Sound
    <2>2. PICK g : g = [h EXCEPT !.state[fd] = "READY", !.drain[fd] = NoDrain]
      OBVIOUS
    <2>3. NoDrain \in Drain /\ NoDrain.req = 0
      BY DEF NoDrain, Drain
    <2>4. /\ g \in Orchestrators /\ g.zones = h.zones /\ g.lcSeq = h.lcSeq
          /\ g.state = [h.state EXCEPT ![fd] = "READY"]
          /\ g.drain = [h.drain EXCEPT ![fd] = NoDrain]
      BY <2>1, <2>2, <2>3 DEF Orchestrators, ZoneState
    <2>5. h.state \in [Fds -> ZoneState] /\ h.drain \in [Fds -> Drain] /\ h.lcSeq \in Nat
      BY <2>1 DEF Orchestrators
    <2>6. /\ g.state[fd] = "READY" /\ g.drain[fd] = NoDrain
          /\ \A o \in Fds \ {fd} : g.state[o] = h.state[o] /\ g.drain[o] = h.drain[o]
      BY <2>4, <2>5
    <2>7. Listed(g) = Listed(h) /\ Listed(h) \subseteq Fds
      BY <2>1, <2>4, EntryOf DEF Listed
    <2>8. Registered(g)
      BY <2>1, <2>4, <2>6, <2>7 DEF Registered
    <2>9. DrainsRecorded(g)
      <3>1. \A o \in Fds : g.state[o] = "DRAINING" <=> g.drain[o] # NoDrain
        BY <2>1, <2>6 DEF DrainsRecorded
      <3>2. \A o \in Fds : g.state[o] = "DRAINING" => o # fd /\ h.state[o] = "DRAINING"
        BY <2>6
      <3>3. \A o \in Fds : g.state[o] = "DRAINING" =>
                /\ o \in Listed(g)
                /\ g.drain[o].req \in 1..g.lcSeq - 1
                /\ g.drain[o].target # o
        BY <2>1, <2>4, <2>6, <2>7, <3>2 DEF DrainsRecorded
      <3>4. ASSUME NEW o \in Fds, NEW q \in Fds, g.state[o] = "DRAINING",
                   g.drain[o].req = g.drain[q].req
            PROVE  o = q
        <4>1. o # fd /\ h.state[o] = "DRAINING" /\ g.drain[o] = h.drain[o]
          BY <2>6, <3>2, <3>4
        <4>2. g.drain[o].req # 0
          BY <2>4, <2>5, <3>3, <3>4
        <4>3. q # fd
          BY <2>3, <2>6, <3>4, <4>2
        <4> QED BY <2>1, <2>6, <3>4, <4>1, <4>3 DEF DrainsRecorded
      <3> QED BY <3>1, <3>3, <3>4 DEF DrainsRecorded
    <2>10. drainFailSafe(h, fd) = g
      BY <1>2, <2>2 DEF drainFailSafe
    <2> QED BY <2>4, <2>8, <2>9, <2>10 DEF Sound
  <1> QED BY <1>1, <1>2

(* The low-load timer. *)
LEMMA TrackLowSound ==
    ASSUME NEW h, Sound(h), NEW fd \in Fds, NEW low \in BOOLEAN
    PROVE  Sound(TrackLow(h, fd, low))
  <1>1. PICK v : v = IF ~low THEN "none" ELSE IF h.low[fd] = "none" THEN "counting" ELSE h.low[fd]
    OBVIOUS
  <1>2. h \in Orchestrators /\ h.low \in [Fds -> {"none", "counting", "elapsed"}]
    BY DEF Sound, Orchestrators
  <1>3. v \in {"none", "counting", "elapsed"}
    BY <1>1, <1>2
  <1>4. PICK g : g = TrackLow(h, fd, low)
    OBVIOUS
  <1>5. g = [h EXCEPT !.low[fd] = v]
    BY <1>1, <1>2, <1>4 DEF TrackLow, Orchestrators
  <1>6. /\ g \in Orchestrators /\ g.zones = h.zones
        /\ g.state = h.state /\ g.drain = h.drain /\ g.lcSeq = h.lcSeq
    BY <1>2, <1>3, <1>5 DEF Orchestrators
  <1> QED BY <1>4, <1>6, SameRegistry

(* The decision a sample leads to. *)
LEMMA TriggersSound ==
    ASSUME NEW h, Sound(h), NEW fd \in Fds, NEW signal \in {"failing", "loaded", "calm"}
    PROVE  Sound(Triggers(h, fd, signal))
  <1>1. \A op \in {"REASSIGN", "SPLIT", "MERGE"} : Sound(enqueueLifecycle(h, fd, op))
    BY enqueueLifecycleSound DEF LifecycleOp
  <1>2. CASE signal = "failing"
    BY <1>1, <1>2 DEF Triggers
  <1>3. CASE signal = "loaded"
    BY <1>1, <1>3 DEF Triggers
  <1>4. CASE signal = "calm"
    BY <1>1, <1>4 DEF Triggers
  <1> QED BY <1>2, <1>3, <1>4

(* The whole of evaluateServer. *)
LEMMA evaluateServerSound ==
    ASSUME NEW h, Sound(h), NEW fd \in Fds, NEW m \in Sample,
           NEW restarted \in BOOLEAN, NEW sweepDue \in BOOLEAN,
           NEW g \in evaluateServer(h, fd, m, restarted, sweepDue)
    PROVE  Sound(g)
  <1>1. m.low \in BOOLEAN /\ m.signal \in {"failing", "loaded", "calm"}
    BY DEF Sample
  <1>2. PICK safe : safe = drainFailSafe(h, fd)
    OBVIOUS
  <1>3. PICK swept : swept = IF sweepDue THEN sweepStaleZones(safe) ELSE safe
    OBVIOUS
  <1>4. PICK tracked : tracked = TrackLow(swept, fd, m.low)
    OBVIOUS
  <1>5. Sound(safe)
    BY <1>2, drainFailSafeSound
  <1>6. Sound(swept)
    BY <1>3, <1>5, sweepStaleZonesSound
  <1>7. Sound(tracked)
    BY <1>1, <1>4, <1>6, TrackLowSound
  <1>8. PICK based : based = [tracked EXCEPT !.baseline = @ \cup {fd}]
    OBVIOUS
  <1>9. tracked \in Orchestrators
    BY <1>7 DEF Sound
  <1>10. /\ based \in Orchestrators /\ based.zones = tracked.zones
         /\ based.state = tracked.state /\ based.drain = tracked.drain
         /\ based.lcSeq = tracked.lcSeq
    BY <1>8, <1>9 DEF Orchestrators
  <1>11. Sound(based)
    BY <1>7, <1>10, SameRegistry
  <1>12. Sound(Triggers(tracked, fd, m.signal))
    BY <1>1, <1>7, TriggersSound
  <1>13. g \in processLifecycleQueue(based) \cup processLifecycleQueue(tracked)
              \cup processLifecycleQueue(Triggers(tracked, fd, m.signal))
    BY <1>2, <1>3, <1>4, <1>8 DEF evaluateServer
  <1> QED BY <1>7, <1>11, <1>12, <1>13, processLifecycleQueueSound

(* A zone reports that its validator is unreachable. *)
LEMMA notifyValidatorDownSound ==
    ASSUME NEW h, Sound(h), NEW fd \in Fds, NEW g \in notifyValidatorDown(h, fd)
    PROVE  Sound(g)
  <1>1. Sound(enqueueLifecycle(h, fd, "REASSIGN"))
    BY enqueueLifecycleSound DEF LifecycleOp
  <1> QED BY <1>1, processLifecycleQueueSound DEF notifyValidatorDown

-----------------------------------------------------------------------------
(* Queries, connections and the start *)

(* The first of a set of listed zones is one of them. *)
LEMMA FirstZoneType ==
    ASSUME NEW h \in Orchestrators, NEW S \in SUBSET Listed(h), S # {}
    PROVE  FirstZone(h, S) \in S
  <1> DEFINE T == {IndexOf(h, fd) : fd \in S}
  <1>1. \A fd \in S : IndexOf(h, fd) \in DOMAIN h.zones
    BY EntryOf
  <1>2. h.zones \in Seq(ZoneInfo)
    BY DEF Orchestrators
  <1>3. DOMAIN h.zones \subseteq Nat
    BY <1>2
  <1>4. T \in SUBSET Nat /\ T # {}
    BY <1>1, <1>3
  <1>5. PICK x \in T : \A y \in T : x <= y
    <2> HIDE DEF T
    <2> QED BY <1>4, LeastNatural
  <1>6. \E fd \in S : \A o \in S : IndexOf(h, fd) <= IndexOf(h, o)
    BY <1>5
  <1> QED BY <1>6 DEF FirstZone

(* A chunk nobody covers is given to a listed zone, or to none. *)
LEMMA relocateZoneToSound ==
    ASSUME NEW h, Sound(h), NEW c \in Chunk
    PROVE  Sound(relocateZoneTo(h, c))
  <1>1. h \in Orchestrators
    BY DEF Sound
  <1>2. PICK S : S = IF AlignedWith(h, c) # {} THEN AlignedWith(h, c) ELSE Routable(h)
    OBVIOUS
  <1>3. S \in SUBSET Listed(h)
    BY <1>2 DEF AlignedWith, Routable
  <1>4. PICK best : best = FirstZone(h, S)
    OBVIOUS
  <1>5. CASE best = NoFd
    BY <1>2, <1>4, <1>5 DEF relocateZoneTo
  <1>6. CASE best # NoFd
    <2>1. S # {}
      BY <1>4, <1>6 DEF FirstZone
    <2>2. best \in Listed(h)
      BY <1>1, <1>3, <1>4, <2>1, FirstZoneType
    <2>3. findZoneInfo(h, best).box \in Box /\ best \in Fds
      BY <1>1, <2>2, EntryOf DEF ZoneInfo
    <2>4. PICK b : b = Stretch(findZoneInfo(h, best).box, c)
      OBVIOUS
    <2>5. b \in Box
      BY <2>3, <2>4, StretchType
    <2>6. Sound(SetBox(h, best, b))
      BY <2>2, <2>5, SetBoxSound
    <2>7. PICK m : m = [type |-> "relocate", chunk |-> c]
      OBVIOUS
    <2>8. m \in Message
      BY <2>7 DEF Message
    <2>9. Sound(Send(SetBox(h, best, b), best, m))
      BY <2>3, <2>6, <2>8, SendSound
    <2> QED BY <1>2, <1>4, <1>6, <2>4, <2>7, <2>9 DEF relocateZoneTo
  <1> QED BY <1>5, <1>6

(* PKT_ZONE_QUERY. *)
LEMMA HandleZoneQuerySound ==
    ASSUME NEW h, Sound(h), NEW c \in Chunk
    PROVE  Sound(HandleZoneQuery(h, c))
  BY relocateZoneToSound DEF HandleZoneQuery

(* A connection is accepted or found gone: nothing the orchestrator knows  *)
(* of the zone changes.                                                    *)
LEMMA ConnectionSound ==
    ASSUME NEW h, Sound(h), NEW fd \in Fds
    PROVE  Sound(AcceptConnection(h, fd)) /\ Sound(CloseConnection(h, fd))
  <1>1. h \in Orchestrators /\ <<>> \in Seq(Message)
    BY DEF Sound
  <1>2. PICK g : g = AcceptConnection(h, fd)
    OBVIOUS
  <1>3. PICK k : k = CloseConnection(h, fd)
    OBVIOUS
  <1>4. /\ g \in Orchestrators /\ g.zones = h.zones
        /\ g.state = h.state /\ g.drain = h.drain /\ g.lcSeq = h.lcSeq
    BY <1>1, <1>2 DEF AcceptConnection, Orchestrators
  <1>5. /\ k \in Orchestrators /\ k.zones = h.zones
        /\ k.state = h.state /\ k.drain = h.drain /\ k.lcSeq = h.lcSeq
    BY <1>1, <1>3 DEF CloseConnection, Orchestrators
  <1> QED BY <1>2, <1>3, <1>4, <1>5, SameRegistry

(* A head that has just started. *)
LEMMA InitOrchestratorSound ==
    ASSUME NEW boot \in [Ports -> Box \cup {NoBox}], NEW first \in Nat
    PROVE  Sound(InitOrchestrator(boot, first))
  <1>1. PICK g : g = InitOrchestrator(boot, first)
    OBVIOUS
  <1>2. <<>> \in Seq(ZoneInfo) /\ <<>> \in Seq(Message) /\ NoDrain \in Drain
    BY DEF NoDrain, Drain
  <1>3. g \in Orchestrators
    BY <1>1, <1>2 DEF InitOrchestrator, Orchestrators, ZoneState
  <1>4. /\ g.zones = <<>>
        /\ \A fd \in Fds : g.state[fd] = "READY" /\ g.drain[fd] = NoDrain
    BY <1>1 DEF InitOrchestrator
  <1>5. Listed(g) = {} /\ DOMAIN g.zones = {}
    BY <1>4 DEF Listed
  <1> QED BY <1>1, <1>3, <1>4, <1>5 DEF Sound, Registered, DrainsRecorded

-----------------------------------------------------------------------------
(* The head and the zones *)

(* A zone that has a connection runs, and a zone that runs has a box. *)
RunningZones ==
    \A p \in Ports : /\ link[p] # NoFd => p \in up
                     /\ p \in up => zbox[p] \in Box

(* The inductive invariant.  RunningZones is what types the boxes in the   *)
(* reports; the other parts need each other: a drain is recorded only for  *)
(* a listed zone, and a listed zone is never a retired one.                *)
IInv == TypeOK /\ RetiredNeverListed /\ DrainBookkeeping /\ RunningZones

(* The part of IInv about the head is the soundness of its orchestrator. *)
LEMMA IInvParts ==
    IInv <=> /\ Sound(orch) /\ TypeOK /\ RunningZones
  BY DEF IInv, Sound, TypeOK, RetiredNeverListed, DrainBookkeeping

(* A packet the head reads from a zone is one of the three. *)
LEMMA ArrivesType ==
    ASSUME TypeOK, NEW fd \in Fds, NEW type, Arrives(fd, type)
    PROVE  /\ inbox' \in [Fds -> Seq(Packet)]
           /\ Head(inbox[fd]) \in Packet
           /\ type = "metrics" => Head(inbox[fd]).port \in Ports /\ Head(inbox[fd]).box \in Box
           /\ type = "ack" => Head(inbox[fd]).req \in Nat
  <1>1. PICK q : q = inbox[fd]
    OBVIOUS
  <1>2. q \in Seq(Packet) /\ q # <<>> /\ Head(q).type = type
    BY <1>1 DEF TypeOK, Arrives
  <1>3. Head(q) \in Packet /\ Tail(q) \in Seq(Packet)
    BY <1>2
  <1>4. inbox' \in [Fds -> Seq(Packet)]
    BY <1>1, <1>3 DEF TypeOK, Arrives
  <1>5. PICK m : m = Head(q)
    OBVIOUS
  <1>6. /\ m \in Packet
        /\ m.type = "metrics" => m.port \in Ports /\ m.box \in Box
        /\ m.type = "ack" => m.req \in Nat
    BY <1>3, <1>5 DEF Packet
  <1> QED BY <1>1, <1>2, <1>4, <1>5, <1>6

(* A packet a zone reads from the head is a message, and reading it leaves *)
(* the orchestrator sound.                                                 *)
LEMMA ReadsType ==
    ASSUME IInv, NEW p \in Ports, NEW type, Reads(p, type)
    PROVE  /\ Sound(orch')
           /\ link[p] \in Fds
           /\ zbox[p] \in Box
           /\ LET m == Head(orch.out[link[p]])
              IN  /\ type = "resize" => m.axis \in Axes /\ m.to \in Interval
                  /\ type = "relocate" => m.chunk \in Chunk
                  /\ type = "drain" => m.req \in Nat
  <1>1. link[p] \in Fds /\ zbox[p] \in Box
    BY DEF IInv, TypeOK, RunningZones, Reads
  <1>2. PICK fd, q : fd = link[p] /\ q = orch.out[fd]
    OBVIOUS
  <1>3. Sound(orch) /\ orch \in Orchestrators /\ q \in Seq(Message) /\ fd \in Fds
    BY <1>1, <1>2, IInvParts DEF Sound, Orchestrators
  <1>4. q # <<>> /\ Head(q).type = type /\ orch' = [orch EXCEPT !.out[fd] = Tail(q)]
    BY <1>2 DEF Reads
  <1>5. Head(q) \in Message /\ Tail(q) \in Seq(Message)
    BY <1>3, <1>4
  <1>6. PICK g : g = orch'
    OBVIOUS
  <1>7. /\ g \in Orchestrators /\ g.zones = orch.zones
        /\ g.state = orch.state /\ g.drain = orch.drain /\ g.lcSeq = orch.lcSeq
    BY <1>3, <1>4, <1>5, <1>6 DEF Orchestrators
  <1>8. Sound(orch')
    BY <1>3, <1>6, <1>7, SameRegistry
  <1>9. PICK m : m = Head(q)
    OBVIOUS
  <1>10. /\ m.type = "resize" => m.axis \in Axes /\ m.to \in Interval
         /\ m.type = "relocate" => m.chunk \in Chunk
         /\ m.type = "drain" => m.req \in Nat
    BY <1>5, <1>9 DEF Message
  <1> QED BY <1>1, <1>2, <1>4, <1>8, <1>9, <1>10

(* A zone writes a packet to the head. *)
LEMMA SendsType ==
    ASSUME TypeOK, NEW p \in Ports, link[p] # NoFd, NEW m \in Packet, Sends(p, m)
    PROVE  inbox' \in [Fds -> Seq(Packet)]
  <1>1. link[p] \in Fds
    BY DEF TypeOK
  <1>2. PICK fd : fd = link[p]
    OBVIOUS
  <1>3. inbox[fd] \in Seq(Packet) /\ fd \in Fds
    BY <1>1, <1>2 DEF TypeOK
  <1>4. Append(inbox[fd], m) \in Seq(Packet)
    BY <1>3
  <1> QED BY <1>2, <1>3, <1>4 DEF TypeOK, Sends

-----------------------------------------------------------------------------
(* The steps keep the invariant *)

(* A step of the head that touches nothing but its orchestrator and its    *)
(* inbox.                                                                  *)
LEMMA HeadOnly ==
    ASSUME IInv, Sound(orch'), inbox' \in [Fds -> Seq(Packet)],
           UNCHANGED <<up, link, zbox, draining, faults>>
    PROVE  IInv'
  BY DEF IInv, Sound, TypeOK, RetiredNeverListed, DrainBookkeeping, RunningZones

(* The head handles a packet or finds a peer gone. *)
LEMMA HeadStepInv ==
    ASSUME IInv, NEW fd \in Fds, HeadStep(fd)
    PROVE  IInv'
  <1>1. Sound(orch) /\ TypeOK
    BY IInvParts
  <1>2. CASE HeadMetrics(fd)
    <2>1. PICK m \in Samples, restarted \in BOOLEAN, sweepDue \in BOOLEAN :
            orch' \in evaluateServer(
                        updateNodeTopology(orch, fd, Head(inbox[fd]).port, Head(inbox[fd]).box),
                        fd, m, restarted, sweepDue)
      BY <1>2 DEF HeadMetrics
    <2>2. /\ inbox' \in [Fds -> Seq(Packet)]
          /\ Head(inbox[fd]).port \in Ports /\ Head(inbox[fd]).box \in Box
      BY <1>1, <1>2, ArrivesType DEF HeadMetrics
    <2>3. PICK h : h = updateNodeTopology(orch, fd, Head(inbox[fd]).port, Head(inbox[fd]).box)
      OBVIOUS
    <2>4. Sound(h)
      BY <1>1, <2>2, <2>3, updateNodeTopologySound
    <2>5. m \in Sample
      BY SamplesAssumption
    <2>6. Sound(orch')
      BY <2>1, <2>3, <2>4, <2>5, evaluateServerSound
    <2> QED BY <1>2, <2>2, <2>6, HeadOnly DEF HeadMetrics
  <1>3. CASE HeadValidatorStatus(fd)
    <2>1. Sound(orch')
      BY <1>1, <1>3, notifyValidatorDownSound DEF HeadValidatorStatus
    <2>2. inbox' \in [Fds -> Seq(Packet)]
      BY <1>1, <1>3, ArrivesType DEF HeadValidatorStatus
    <2> QED BY <1>3, <2>1, <2>2, HeadOnly DEF HeadValidatorStatus
  <1>4. CASE HeadDrainAck(fd)
    <2>1. inbox' \in [Fds -> Seq(Packet)] /\ Head(inbox[fd]).req \in Nat
      BY <1>1, <1>4, ArrivesType DEF HeadDrainAck
    <2>2. Sound(orch')
      BY <1>1, <1>4, <2>1, handleZoneLifecycleSound DEF HeadDrainAck
    <2> QED BY <1>4, <2>1, <2>2, HeadOnly DEF HeadDrainAck
  <1>5. CASE HeadPeerGone(fd)
    <2>1. Sound(orch')
      BY <1>1, <1>5, ConnectionSound DEF HeadPeerGone
    <2>2. inbox' \in [Fds -> Seq(Packet)]
      BY <1>1, <1>5 DEF HeadPeerGone, TypeOK
    <2> QED BY <1>5, <2>1, <2>2, HeadOnly DEF HeadPeerGone
  <1> QED BY <1>2, <1>3, <1>4, <1>5 DEF HeadStep

(* A drain that is late is still the same drain. *)
LEMMA LateDrainSound ==
    ASSUME NEW h, Sound(h), NEW fd \in Fds, h.state[fd] = "DRAINING"
    PROVE  Sound([h EXCEPT !.drain[fd].late = TRUE])
  <1>1. h \in Orchestrators /\ Registered(h) /\ DrainsRecorded(h)
    BY DEF Sound
  <1>2. h.drain \in [Fds -> Drain] /\ h.drain[fd] \in Drain
    BY <1>1 DEF Orchestrators
  <1>3. PICK d : d = [h.drain[fd] EXCEPT !.late = TRUE]
    OBVIOUS
  <1>4. d \in Drain /\ d.req = h.drain[fd].req /\ d.target = h.drain[fd].target
    BY <1>2, <1>3 DEF Drain
  <1>5. h.drain[fd].req \in 1..h.lcSeq - 1 /\ h.lcSeq \in Nat
    BY <1>1 DEF DrainsRecorded, Orchestrators
  <1>6. d # NoDrain
    BY <1>4, <1>5 DEF NoDrain
  <1>7. PICK g : g = [h EXCEPT !.drain[fd].late = TRUE]
    OBVIOUS
  <1>8. g = [h EXCEPT !.drain[fd] = d]
    BY <1>1, <1>3, <1>7 DEF Orchestrators
  <1>9. /\ g \in Orchestrators /\ g.zones = h.zones
        /\ g.state = h.state /\ g.lcSeq = h.lcSeq
        /\ g.drain = [h.drain EXCEPT ![fd] = d]
    BY <1>1, <1>4, <1>8 DEF Orchestrators
  <1>10. /\ \A o \in Fds : g.drain[o].req = h.drain[o].req
         /\ \A o \in Fds : g.drain[o].target = h.drain[o].target
         /\ \A o \in Fds \ {fd} : g.drain[o] = h.drain[o]
         /\ g.drain[fd] # NoDrain
    BY <1>2, <1>4, <1>6, <1>9
  <1>11. Listed(g) = Listed(h)
    BY <1>9 DEF Listed
  <1>12. DrainsRecorded(g)
    BY <1>1, <1>9, <1>10, <1>11 DEF DrainsRecorded
  <1>13. Registered(g)
    BY <1>1, <1>9, <1>11 DEF Registered
  <1> QED BY <1>7, <1>9, <1>12, <1>13 DEF Sound

(* A timer of the head runs out. *)
LEMMA TimeStepInv ==
    ASSUME IInv, NEW fd \in Fds, TimeStep(fd)
    PROVE  IInv'
  <1>1. Sound(orch) /\ TypeOK /\ orch \in Orchestrators
    BY IInvParts DEF Sound
  <1>2. inbox' = inbox
    BY DEF TimeStep, SettleEnds, MergeWindowEnds, LowLoadPersists, CooldownEnds,
           DrainIsLate, LeaseExpires
  <1>3. inbox' \in [Fds -> Seq(Packet)]
    BY <1>1, <1>2 DEF TypeOK
  <1>4. CASE DrainIsLate(fd)
    <2>1. Sound(orch')
      BY <1>1, <1>4, LateDrainSound DEF DrainIsLate
    <2>2. faults' \in 0..MaxFaults
      BY <1>1, <1>4, BoundsAssumption DEF DrainIsLate, TypeOK
    <2>3. UNCHANGED <<up, link, zbox, draining>>
      BY <1>4 DEF DrainIsLate
    <2> QED BY <1>3, <2>1, <2>2, <2>3
            DEF IInv, Sound, TypeOK, RetiredNeverListed, DrainBookkeeping, RunningZones
  <1>5. CASE \/ SettleEnds(fd) \/ MergeWindowEnds(fd) \/ LowLoadPersists(fd)
             \/ CooldownEnds(fd) \/ LeaseExpires(fd)
    <2>1. PICK g : g = orch'
      OBVIOUS
    <2>2. /\ g \in Orchestrators /\ g.zones = orch.zones
          /\ g.state = orch.state /\ g.drain = orch.drain /\ g.lcSeq = orch.lcSeq
      <3>1. CASE SettleEnds(fd)
        BY <1>1, <2>1, <3>1 DEF SettleEnds, Orchestrators
      <3>2. CASE MergeWindowEnds(fd)
        BY <1>1, <2>1, <3>2 DEF MergeWindowEnds, Orchestrators
      <3>3. CASE LowLoadPersists(fd)
        BY <1>1, <2>1, <3>3 DEF LowLoadPersists, Orchestrators
      <3>4. CASE CooldownEnds(fd)
        BY <1>1, <2>1, <3>4 DEF CooldownEnds, Orchestrators
      <3>5. CASE LeaseExpires(fd)
        BY <1>1, <2>1, <3>5 DEF LeaseExpires, Orchestrators
      <3> QED BY <1>5, <3>1, <3>2, <3>3, <3>4, <3>5
    <2>3. Sound(orch')
      BY <1>1, <2>1, <2>2, SameRegistry
    <2>4. UNCHANGED <<up, link, zbox, draining, faults>>
      BY <1>5 DEF SettleEnds, MergeWindowEnds, LowLoadPersists, CooldownEnds, LeaseExpires
    <2> QED BY <1>3, <2>3, <2>4, HeadOnly
  <1> QED BY <1>4, <1>5 DEF TimeStep

(* What the end of a connection leaves of the queues.                      *)
LEMMA CutOffType ==
    ASSUME NEW p \in Ports, inbox \in [Fds -> Seq(Packet)],
           link \in [Ports -> Fds \cup {NoFd}], Disconnects(p)
    PROVE  /\ inbox' \in [Fds -> Seq(Packet)]
           /\ \A fd \in Fds : fd # link[p] => inbox'[fd] = inbox[fd]
           /\ \A fd \in Fds : /\ DOMAIN inbox'[fd] \subseteq DOMAIN inbox[fd]
                              /\ \A i \in DOMAIN inbox'[fd] : inbox'[fd][i] = inbox[fd][i]
  <1>1. CASE link[p] = NoFd
    <2>1. inbox' = inbox
      BY <1>1 DEF Disconnects, CutOff
    <2> QED BY <2>1
  <1>2. CASE link[p] # NoFd
    <2>1. PICK o, q : o \in Fds /\ o = link[p] /\ q = inbox[o]
      BY <1>2
    <2>2. PICK n \in 0..Len(q) : inbox' = [inbox EXCEPT ![o] = SubSeq(q, 1, n)]
      BY <1>2, <2>1 DEF Disconnects, CutOff
    <2>3. /\ SubSeq(q, 1, n) \in Seq(Packet) /\ DOMAIN SubSeq(q, 1, n) \subseteq DOMAIN q
          /\ \A i \in DOMAIN SubSeq(q, 1, n) : SubSeq(q, 1, n)[i] = q[i]
      BY <2>1, <2>2
    <2>4. inbox'[o] = SubSeq(q, 1, n) /\ \A fd \in Fds \ {o} : inbox'[fd] = inbox[fd]
      BY <2>1, <2>2
    <2> QED BY <2>1, <2>2, <2>3, <2>4
  <1> QED BY <1>1, <1>2

(* A zone reads a command. *)
LEMMA ZoneReadsInv ==
    ASSUME IInv, NEW p \in Ports, ZoneReads(p)
    PROVE  IInv'
  <1>1. TypeOK /\ RunningZones
    BY DEF IInv
  <1>2. CASE ZoneResize(p)
    <2>1. PICK m : m = Head(orch.out[link[p]])
      OBVIOUS
    <2>2. Sound(orch') /\ zbox[p] \in Box /\ m.axis \in Axes /\ m.to \in Interval
      BY <1>2, <2>1, ReadsType DEF ZoneResize
    <2>3. Resize(zbox[p], m.axis, m.to) \in Box
      BY <2>2, ResizeType
    <2>4. zbox' = zbox \/ zbox' = [zbox EXCEPT ![p] = Resize(zbox[p], m.axis, m.to)]
      BY <1>2, <2>1 DEF ZoneResize
    <2>5. UNCHANGED <<inbox, up, link, draining, faults>>
      BY <1>2 DEF ZoneResize
    <2>6. zbox' \in [Ports -> Box \cup {NoBox}] /\ RunningZones'
      BY <1>1, <2>3, <2>4, <2>5 DEF TypeOK, RunningZones
    <2>7. TypeOK'
      BY <1>1, <2>2, <2>5, <2>6 DEF TypeOK, Sound
    <2> QED BY <2>2, <2>6, <2>7 DEF IInv, Sound, RetiredNeverListed, DrainBookkeeping
  <1>3. CASE ZoneRelocate(p)
    <2>1. PICK c : c = Head(orch.out[link[p]]).chunk
      OBVIOUS
    <2>2. Sound(orch') /\ zbox[p] \in Box /\ c \in Chunk
      BY <1>3, <2>1, ReadsType DEF ZoneRelocate
    <2>3. Stretch(zbox[p], c) \in Box
      BY <2>2, StretchType
    <2>4. zbox' = zbox \/ zbox' = [zbox EXCEPT ![p] = Stretch(zbox[p], c)]
      BY <1>3, <2>1 DEF ZoneRelocate
    <2>5. UNCHANGED <<inbox, up, link, draining, faults>>
      BY <1>3 DEF ZoneRelocate
    <2>6. zbox' \in [Ports -> Box \cup {NoBox}] /\ RunningZones'
      BY <1>1, <2>3, <2>4, <2>5 DEF TypeOK, RunningZones
    <2>7. TypeOK'
      BY <1>1, <2>2, <2>5, <2>6 DEF TypeOK, Sound
    <2> QED BY <2>2, <2>6, <2>7 DEF IInv, Sound, RetiredNeverListed, DrainBookkeeping
  <1>4. CASE ZoneDrain(p)
    <2>1. PICK r : r = Head(orch.out[link[p]]).req
      OBVIOUS
    <2>2. Sound(orch') /\ link[p] \in Fds /\ r \in Nat
      BY <1>4, <2>1, ReadsType DEF ZoneDrain
    <2>3. PICK m : m = [type |-> "ack", req |-> r]
      OBVIOUS
    <2>4. m \in Packet
      BY <2>2, <2>3 DEF Packet
    <2>5. /\ Sends(p, m) /\ draining' = [draining EXCEPT ![p] = r]
          /\ UNCHANGED <<up, link, zbox, faults>> /\ link[p] # NoFd
      BY <1>4, <2>1, <2>3 DEF ZoneDrain, Reads
    <2>6. inbox' \in [Fds -> Seq(Packet)]
      BY <1>1, <2>4, <2>5, SendsType
    <2>7. draining' \in [Ports -> Nat]
      BY <1>1, <2>2, <2>5 DEF TypeOK
    <2>8. TypeOK' /\ RunningZones'
      BY <1>1, <2>2, <2>5, <2>6, <2>7 DEF TypeOK, Sound, RunningZones
    <2> QED BY <2>2, <2>8 DEF IInv, Sound, RetiredNeverListed, DrainBookkeeping
  <1>5. CASE ZoneDelete(p)
    <2>1. Sound(orch')
      BY <1>5, ReadsType DEF ZoneDelete
    <2>2. Exits(p) /\ Disconnects(p) /\ faults' = faults
      BY <1>5 DEF ZoneDelete, Exits
    <2>3. inbox' \in [Fds -> Seq(Packet)]
      BY <1>1, <2>2, CutOffType DEF TypeOK
    <2>4. TypeOK' /\ RunningZones'
      BY <1>1, <2>1, <2>2, <2>3 DEF TypeOK, Sound, RunningZones, Exits, Disconnects
    <2> QED BY <2>1, <2>4 DEF IInv, Sound, RetiredNeverListed, DrainBookkeeping
  <1> QED BY <1>2, <1>3, <1>4, <1>5 DEF ZoneReads

(* A zone starts, connects, reports, stops, crashes or loses its           *)
(* connection.                                                             *)
LEMMA ZoneStepInv ==
    ASSUME IInv, NEW p \in Ports, ZoneStep(p)
    PROVE  IInv'
  <1>1. TypeOK /\ RunningZones /\ Sound(orch)
    BY IInvParts
  <1>2. CASE ZoneBoot(p)
    <2>1. orch.deployed[p] \in Box
      BY <1>1, <1>2 DEF ZoneBoot, TypeOK, Orchestrators
    <2>2. zbox' \in [Ports -> Box \cup {NoBox}] /\ up' \subseteq Ports /\ RunningZones'
      BY <1>1, <1>2, <2>1 DEF ZoneBoot, TypeOK, RunningZones
    <2>3. UNCHANGED <<orch, inbox, link, draining, faults>>
      BY <1>2 DEF ZoneBoot
    <2> QED BY <1>1, <2>2, <2>3
            DEF IInv, Sound, TypeOK, RetiredNeverListed, DrainBookkeeping
  <1>3. CASE ZoneConnect(p)
    <2>1. PICK fd \in Fds : /\ link' = [link EXCEPT ![p] = fd]
                            /\ orch' = AcceptConnection(orch, fd)
      BY <1>3 DEF ZoneConnect
    <2>2. Sound(orch')
      BY <1>1, <2>1, ConnectionSound
    <2>3. link' \in [Ports -> Fds \cup {NoFd}] /\ RunningZones'
      BY <1>1, <1>3, <2>1 DEF ZoneConnect, TypeOK, RunningZones
    <2>4. UNCHANGED <<inbox, up, zbox, draining, faults>>
      BY <1>3 DEF ZoneConnect
    <2> QED BY <1>1, <2>2, <2>3, <2>4
            DEF IInv, Sound, TypeOK, RetiredNeverListed, DrainBookkeeping
  <1>4. CASE ZoneReport(p)
    <2>1. PICK m : m = [type |-> "metrics", port |-> p, box |-> zbox[p]]
      OBVIOUS
    <2>2. link[p] # NoFd /\ zbox[p] \in Box /\ Sends(p, m)
      BY <1>1, <1>4, <2>1 DEF ZoneReport, CanSend, RunningZones
    <2>3. m \in Packet
      BY <2>1, <2>2 DEF Packet
    <2>4. inbox' \in [Fds -> Seq(Packet)]
      BY <1>1, <2>2, <2>3, SendsType
    <2>5. UNCHANGED <<orch, up, link, zbox, draining, faults>>
      BY <1>4 DEF ZoneReport
    <2> QED BY <1>1, <2>4, <2>5, HeadOnly DEF Sound
  <1>5. CASE ZoneBreakerOpen(p)
    <2>1. PICK m : m = [type |-> "status"]
      OBVIOUS
    <2>2. m \in Packet
      BY <2>1 DEF Packet
    <2>3. link[p] # NoFd /\ Sends(p, m)
      BY <1>5, <2>1 DEF ZoneBreakerOpen, CanSend
    <2>4. inbox' \in [Fds -> Seq(Packet)]
      BY <1>1, <2>2, <2>3, SendsType
    <2>5. UNCHANGED <<orch, up, link, zbox, draining, faults>>
      BY <1>5 DEF ZoneBreakerOpen
    <2> QED BY <1>1, <2>4, <2>5, HeadOnly DEF Sound
  <1>6. CASE ZoneReads(p)
    BY <1>6, ZoneReadsInv
  <1>7. CASE PodStopped(p) \/ ZoneCrash(p)
    <2>1. Exits(p) /\ Disconnects(p) /\ orch' = orch
      BY <1>7 DEF PodStopped, ZoneCrash, Exits
    <2>2. faults' \in 0..MaxFaults
      BY <1>1, <1>7, BoundsAssumption DEF PodStopped, ZoneCrash, TypeOK
    <2>3. inbox' \in [Fds -> Seq(Packet)]
      BY <1>1, <2>1, CutOffType DEF TypeOK
    <2>4. TypeOK' /\ RunningZones'
      BY <1>1, <2>1, <2>2, <2>3 DEF TypeOK, RunningZones, Exits, Disconnects
    <2> QED BY <1>1, <2>1, <2>4
            DEF IInv, Sound, RetiredNeverListed, DrainBookkeeping
  <1>8. CASE LinkBreaks(p)
    <2>1. faults' \in 0..MaxFaults
      BY <1>1, <1>8, BoundsAssumption DEF LinkBreaks, TypeOK
    <2>2. inbox' \in [Fds -> Seq(Packet)]
      BY <1>1, <1>8, CutOffType DEF LinkBreaks, TypeOK
    <2>3. TypeOK' /\ RunningZones'
      BY <1>1, <1>8, <2>1, <2>2 DEF LinkBreaks, Disconnects, TypeOK, RunningZones
    <2>4. orch' = orch
      BY <1>8 DEF LinkBreaks
    <2> QED BY <1>1, <2>3, <2>4
            DEF IInv, Sound, RetiredNeverListed, DrainBookkeeping
  <1> QED BY <1>2, <1>3, <1>4, <1>5, <1>6, <1>7, <1>8 DEF ZoneStep

(* A client asks for a chunk. *)
LEMMA ClientQueryInv ==
    ASSUME IInv, NEW c \in Asked, ClientQuery(c)
    PROVE  IInv'
  <1>1. Sound(orch) /\ TypeOK /\ c \in Chunk
    BY IInvParts, AskedAssumption
  <1>2. Sound(orch')
    BY <1>1, HandleZoneQuerySound DEF ClientQuery
  <1>3. inbox' \in [Fds -> Seq(Packet)] /\ UNCHANGED <<up, link, zbox, draining, faults>>
    BY <1>1 DEF ClientQuery, TypeOK
  <1> QED BY <1>2, <1>3, HeadOnly

-----------------------------------------------------------------------------
(* The theorems *)

(* The cluster starts in the invariant. *)
LEMMA InitInv ==
    Init => IInv
  <1> SUFFICES ASSUME Init PROVE IInv
    OBVIOUS
  <1>1. Boot \in [Ports -> Box \cup {NoBox}]
    BY BootAssumption DEF ProperBox
  <1>2. Sound(orch)
    BY <1>1, FirstPortAssumption, InitOrchestratorSound DEF Init
  <1>3. TypeOK
    BY <1>2, BoundsAssumption DEF Init, TypeOK, Sound
  <1>4. RunningZones
    BY DEF Init, RunningZones
  <1> QED BY <1>2, <1>3, <1>4, IInvParts

(* Every step keeps the invariant. *)
LEMMA NextInv ==
    IInv /\ [Next]_vars => IInv'
  <1> SUFFICES ASSUME IInv, [Next]_vars PROVE IInv'
    OBVIOUS
  <1>1. CASE \E fd \in Fds : HeadStep(fd) \/ TimeStep(fd)
    BY <1>1, HeadStepInv, TimeStepInv
  <1>2. CASE \E p \in Ports : ZoneStep(p)
    BY <1>2, ZoneStepInv
  <1>3. CASE \E c \in Asked : ClientQuery(c)
    BY <1>3, ClientQueryInv
  <1>4. CASE UNCHANGED vars
    BY <1>4 DEF vars, IInv, TypeOK, RetiredNeverListed, DrainBookkeeping, RunningZones
  <1> QED BY <1>1, <1>2, <1>3, <1>4 DEF Next

(* Every reachable state satisfies the inductive invariant. *)
THEOREM Invariance == Spec => []IInv
  BY InitInv, NextInv, PTL DEF Spec

(* The state of the head and of the zones is well typed: in particular the *)
(* replica counter never goes below zero, whatever is evicted or destroyed *)
(* twice, and every box in a report or a command is a box.                 *)
THEOREM TypeCorrectness == Spec => []TypeOK
  <1>1. IInv => TypeOK
    BY DEF IInv
  <1> QED BY <1>1, Invariance, PTL

(* No late report puts a zone that was evicted or destroyed back in the    *)
(* registry, and no descriptor is registered twice.                        *)
THEOREM RetiredStayOut == Spec => []RetiredNeverListed
  <1>1. IInv => RetiredNeverListed
    BY DEF IInv
  <1> QED BY <1>1, Invariance, PTL

(* A zone is DRAINING exactly while the head has a drain of it on its      *)
(* books, and no two drains share a request id, whatever acknowledgements, *)
(* fail-safes, evictions and reconnections happen in between.              *)
THEOREM DrainsAreRecorded == Spec => []DrainBookkeeping
  <1>1. IInv => DrainBookkeeping
    BY DEF IInv
  <1> QED BY <1>1, Invariance, PTL

-----------------------------------------------------------------------------
(* What the methods do to the states, to the drains and to the packets     *)
(* that ask for one                                                        *)

DrainsIn(q) == {i \in DOMAIN q : q[i].type = "drain"}

(* The same drains are on their way in w as in q. *)
SameDrains(q, w) == DrainsIn(w) = DrainsIn(q) /\ \A i \in DrainsIn(q) : w[i] = q[i]

(* No zone leaves the registry, no state changes and no drain starts. *)
Quiet(h, g) ==
    /\ Listed(h) \subseteq Listed(g)
    /\ g.open = h.open /\ g.lcSeq = h.lcSeq /\ g.state = h.state
    /\ \A fd \in Fds : g.drain[fd].req = h.drain[fd].req /\ SameDrains(h.out[fd], g.out[fd])

(* The drain of v starts, and v may be told. *)
Drains(h, g, v) ==
    /\ v \in Listed(h) /\ h.state[v] = "READY"
    /\ Listed(h) \subseteq Listed(g)
    /\ g.open = h.open /\ g.lcSeq = h.lcSeq + 1
    /\ g.state[v] = "DRAINING" /\ g.drain[v].req = h.lcSeq
    /\ \A o \in Fds \ {v} : g.state[o] = h.state[o] /\ g.drain[o].req = h.drain[o].req
                            /\ SameDrains(h.out[o], g.out[o])
    /\ \E w \in Seq(Message) :
            /\ SameDrains(h.out[v], w)
            /\ g.out[v] \in {w, Append(w, [type |-> "drain", req |-> h.lcSeq])}

(* Zone v gets a state in which it does not drain, and leaves the registry *)
(* unless the state is READY.                                              *)
Ends(h, g, v, s) ==
    /\ v \in Fds /\ g.state[v] = s
    /\ Listed(h) \ {v} \subseteq Listed(g) /\ (s = "READY" => Listed(h) \subseteq Listed(g))
    /\ g.open = h.open /\ g.lcSeq = h.lcSeq
    /\ \A o \in Fds \ {v} : g.state[o] = h.state[o] /\ g.drain[o].req = h.drain[o].req
    /\ \A o \in Fds : SameDrains(h.out[o], g.out[o])

(* What an operation of the queue may do. *)
Acts(h, g) ==
    \/ Quiet(h, g)
    \/ routableZoneCount(h) > MinReplicas /\ \E v \in Fds : Drains(h, g, v)
    \/ \E v \in Fds : Ends(h, g, v, "DEAD")

(* Fields that do not matter here. *)
LEMMA SameIsQuiet ==
    ASSUME NEW h, NEW g,
           g.zones = h.zones, g.open = h.open, g.lcSeq = h.lcSeq, g.state = h.state,
           g.drain = h.drain, g.out = h.out
    PROVE  Quiet(h, g)
  BY DEF Quiet, Listed, SameDrains

(* Quiet methods in a row are quiet. *)
LEMMA QuietTransitive ==
    ASSUME NEW h, NEW g, NEW k, Quiet(h, g), Quiet(g, k)
    PROVE  Quiet(h, k)
  BY DEF Quiet, SameDrains

(* A packet that is not a drain is added. *)
LEMMA AppendSameDrains ==
    ASSUME NEW q \in Seq(Message), NEW m \in Message, m.type # "drain"
    PROVE  SameDrains(q, Append(q, m))
  <1>1. PICK w, n : w = Append(q, m) /\ n = Len(q)
    OBVIOUS
  <1>2. n \in Nat /\ DOMAIN q = 1..n /\ DOMAIN w = 1..n + 1 /\ w[n + 1] = m /\ \A i \in 1..n : w[i] = q[i]
    BY <1>1
  <1>3. \A i \in 1..n + 1 : i \in 1..n \/ i = n + 1
    BY <1>2
  <1>4. \A i \in 1..n : i \in 1..n + 1
    BY <1>2
  <1>5. DrainsIn(w) = DrainsIn(q)
    BY <1>2, <1>3, <1>4 DEF DrainsIn
  <1> QED BY <1>1, <1>2, <1>5 DEF SameDrains, DrainsIn

(* A packet that is not a drain is written to a zone. *)
LEMMA SendQuiet ==
    ASSUME NEW h, Sound(h), NEW fd \in Fds, NEW m \in Message, m.type # "drain"
    PROVE  Quiet(h, Send(h, fd, m))
  <1>1. h \in Orchestrators /\ h.out \in [Fds -> Seq(Message)]
    BY DEF Sound, Orchestrators
  <1>2. CASE fd \in h.open
    <2>1. PICK w : w = Append(h.out[fd], m)
      OBVIOUS
    <2>2. SameDrains(h.out[fd], w)
      BY <1>1, <2>1, AppendSameDrains
    <2>3. PICK g : g = Send(h, fd, m)
      OBVIOUS
    <2>4. g = [h EXCEPT !.out[fd] = w]
      BY <1>2, <2>1, <2>3 DEF Send
    <2>5. /\ g.zones = h.zones /\ g.open = h.open /\ g.lcSeq = h.lcSeq /\ g.state = h.state
          /\ g.drain = h.drain /\ g.out = [h.out EXCEPT ![fd] = w]
      BY <1>1, <2>4 DEF Orchestrators
    <2>6. \A o \in Fds : SameDrains(h.out[o], g.out[o])
      BY <1>1, <2>2, <2>5 DEF SameDrains
    <2> QED BY <2>3, <2>5, <2>6 DEF Quiet, Listed
  <1>3. CASE fd \notin h.open
    BY <1>3, SameIsQuiet DEF Send
  <1> QED BY <1>2, <1>3

(* The head's copy of a box changes. *)
LEMMA SetBoxQuiet ==
    ASSUME NEW h, Sound(h), NEW fd \in Listed(h), NEW b \in Box
    PROVE  Quiet(h, SetBox(h, fd, b))
  <1> DEFINE z == [findZoneInfo(h, fd) EXCEPT !.box = b]
             t == [h.zones EXCEPT ![IndexOf(h, fd)] = z]
  <1>1. h \in Orchestrators /\ Registered(h)
    BY DEF Sound
  <1>2. z \in ZoneInfo /\ z.fd = fd
    BY <1>1, EntryOf DEF ZoneInfo
  <1>3. SetBox(h, fd, b) = [h EXCEPT !.zones = t]
    BY DEF SetBox, findZoneInfo
  <1>4. {t[i].fd : i \in DOMAIN t} = Listed(h)
    <2> HIDE DEF z
    <2> QED BY <1>1, <1>2, WriteEntry
  <1> HIDE DEF t
  <1>5. PICK g : g = [h EXCEPT !.zones = t]
    OBVIOUS
  <1>6. /\ g.zones = t /\ g.open = h.open /\ g.lcSeq = h.lcSeq /\ g.state = h.state
        /\ g.drain = h.drain /\ g.out = h.out
    BY <1>1, <1>5 DEF Orchestrators
  <1>7. Listed(g) = Listed(h)
    BY <1>4, <1>6 DEF Listed
  <1>8. Quiet(h, g)
    BY <1>6, <1>7 DEF Quiet, SameDrains
  <1> QED BY <1>3, <1>5, <1>8

(* A zone is told its new range. *)
LEMMA sendResizeCommandQuiet ==
    ASSUME NEW h, Sound(h), NEW fd \in Fds, NEW a \in Axes, NEW i \in Interval
    PROVE  Quiet(h, sendResizeCommand(h, fd, a, i))
  <1>1. PICK m : m = [type |-> "resize", axis |-> a, to |-> i]
    OBVIOUS
  <1>2. m \in Message /\ m.type # "drain"
    BY <1>1 DEF Message
  <1> QED BY <1>1, <1>2, SendQuiet DEF sendResizeCommand

(* The survivor takes the range of the victim, or the boxes do not merge. *)
LEMMA absorbRegionQuiet ==
    ASSUME NEW h, Sound(h), NEW survivor \in Listed(h), NEW victim \in Listed(h)
    PROVE  Quiet(h, absorbRegion(h, survivor, victim))
  <1>1. PICK s, v : s = findZoneInfo(h, survivor).box /\ v = findZoneInfo(h, victim).box
    OBVIOUS
  <1>2. s \in Box /\ v \in Box /\ survivor \in Fds
    BY <1>1, EntryOf DEF ZoneInfo, Sound
  <1>3. CASE mergeableAxes(s, v) = {}
    <2>1. absorbRegion(h, survivor, victim) = h
      BY <1>1, <1>3 DEF absorbRegion
    <2> QED BY <2>1, SameIsQuiet
  <1>4. CASE mergeableAxes(s, v) # {}
    <2>1. PICK a : a = CHOOSE x \in mergeableAxes(s, v) : TRUE
      OBVIOUS
    <2>2. a \in mergeableAxes(s, v)
      BY <1>4, <2>1
    <2>3. a \in Axes
      BY <2>2 DEF mergeableAxes
    <2>4. PICK i : i = Hull(s[a], v[a])
      OBVIOUS
    <2>5. i \in Interval
      BY <1>2, <2>3, <2>4, HullType DEF Box
    <2>6. Resize(s, a, i) \in Box
      BY <1>2, <2>3, <2>5, ResizeType
    <2>7. PICK k : k = SetBox(h, survivor, Resize(s, a, i))
      OBVIOUS
    <2>8. Sound(k) /\ Quiet(h, k)
      BY <2>6, <2>7, SetBoxSound, SetBoxQuiet
    <2>9. absorbRegion(h, survivor, victim) = sendResizeCommand(k, survivor, a, i)
      BY <1>1, <1>4, <2>1, <2>4, <2>7 DEF absorbRegion
    <2>10. Quiet(k, sendResizeCommand(k, survivor, a, i))
      BY <1>2, <2>3, <2>5, <2>8, sendResizeCommandQuiet
    <2> QED BY <2>8, <2>9, <2>10, QuietTransitive
  <1> QED BY <1>3, <1>4

(* The drain of the victim starts; the drain packet is the last thing      *)
(* written to it.                                                          *)
LEMMA StartDrainDrains ==
    ASSUME NEW h, Sound(h), NEW victim \in Listed(h), NEW survivor \in Listed(h),
           victim # survivor, h.state[victim] = "READY", h.state[survivor] = "READY"
    PROVE  Drains(h, StartDrain(h, victim, survivor), victim)
  <1>1. PICK g : g = MarkDrain(h, victim, survivor)
    OBVIOUS
  <1>2. Sound(g) /\ Listed(g) = Listed(h)
    BY <1>1, MarkDrainSound
  <1>3. h \in Orchestrators /\ victim \in Fds /\ survivor \in Fds
    BY EntryOf DEF Sound
  <1>4. /\ g.open = h.open /\ g.lcSeq = h.lcSeq + 1 /\ g.out = h.out
        /\ g.drain = [h.drain EXCEPT ![victim] = [req |-> h.lcSeq, target |-> survivor, late |-> FALSE]]
        /\ g.state = [h.state EXCEPT ![victim] = "DRAINING", ![survivor] = "READY"]
    BY <1>1, <1>3 DEF MarkDrain, Orchestrators
  <1>5. h.state \in [Fds -> ZoneState] /\ h.drain \in [Fds -> Drain]
    BY <1>3 DEF Orchestrators
  <1>6. /\ g.state[victim] = "DRAINING" /\ g.drain[victim].req = h.lcSeq
        /\ \A o \in Fds \ {victim} : g.state[o] = h.state[o] /\ g.drain[o] = h.drain[o]
    BY <1>3, <1>4, <1>5
  <1>7. PICK a : a = absorbRegion(g, survivor, victim)
    OBVIOUS
  <1>8. Sound(a) /\ Quiet(g, a)
    BY <1>2, <1>7, absorbRegionSound, absorbRegionQuiet
  <1>9. PICK m : m = [type |-> "drain", req |-> h.lcSeq]
    OBVIOUS
  <1>10. PICK k : k = Send(a, victim, m)
    OBVIOUS
  <1>11. StartDrain(h, victim, survivor) = k
    BY <1>1, <1>7, <1>9, <1>10 DEF StartDrain, MarkDrain
  <1>12. a \in Orchestrators /\ a.out \in [Fds -> Seq(Message)]
    BY <1>8 DEF Sound, Orchestrators
  <1>13. /\ k.zones = a.zones /\ k.open = a.open /\ k.lcSeq = a.lcSeq /\ k.state = a.state
         /\ k.drain = a.drain
         /\ k.out[victim] \in {a.out[victim], Append(a.out[victim], m)}
         /\ \A o \in Fds \ {victim} : k.out[o] = a.out[o]
    <2>1. CASE victim \in a.open
      <3>1. PICK w : w = Append(a.out[victim], m)
        OBVIOUS
      <3>2. k = [a EXCEPT !.out[victim] = w]
        BY <1>10, <2>1, <3>1 DEF Send
      <3>3. /\ k.zones = a.zones /\ k.open = a.open /\ k.lcSeq = a.lcSeq /\ k.state = a.state
            /\ k.drain = a.drain /\ k.out = [a.out EXCEPT ![victim] = w]
        BY <1>12, <3>2 DEF Orchestrators
      <3>4. k.out[victim] = w /\ \A o \in Fds \ {victim} : k.out[o] = a.out[o]
        BY <1>3, <1>12, <3>3
      <3> QED BY <3>1, <3>3, <3>4
    <2>2. CASE victim \notin a.open
      BY <1>10, <2>2 DEF Send
    <2> QED BY <2>1, <2>2
  <1>14. Listed(h) \subseteq Listed(k)
    <2>1. Listed(k) = Listed(a)
      BY <1>13 DEF Listed
    <2>2. Listed(g) \subseteq Listed(a)
      BY <1>8 DEF Quiet
    <2> QED BY <1>2, <2>1, <2>2
  <1>15. \A o \in Fds : SameDrains(h.out[o], a.out[o])
    BY <1>4, <1>8 DEF Quiet
  <1>16. /\ k.open = h.open /\ k.lcSeq = h.lcSeq + 1 /\ k.state = g.state
         /\ \A o \in Fds : k.drain[o].req = g.drain[o].req
    BY <1>4, <1>8, <1>13 DEF Quiet
  <1>17. \E w \in Seq(Message) :
            /\ SameDrains(h.out[victim], w)
            /\ k.out[victim] \in {w, Append(w, [type |-> "drain", req |-> h.lcSeq])}
    BY <1>3, <1>9, <1>12, <1>13, <1>15
  <1>18. \A o \in Fds \ {victim} : SameDrains(h.out[o], k.out[o])
    BY <1>13, <1>15
  <1>19. Drains(h, k, victim)
    BY <1>3, <1>6, <1>14, <1>16, <1>17, <1>18 DEF Drains
  <1> QED BY <1>11, <1>19

(* A report only adds a zone, or rewrites its entry. *)
LEMMA updateNodeTopologyQuiet ==
    ASSUME NEW h, Sound(h), NEW fd \in Fds, NEW p \in Ports, NEW b \in Box
    PROVE  Quiet(h, updateNodeTopology(h, fd, p, b))
  <1> DEFINE z == [fd |-> fd, port |-> p, box |-> b]
             t == IF fd \in Listed(h) THEN [h.zones EXCEPT ![IndexOf(h, fd)] = z]
                  ELSE IF ~isRoutable(h, fd) THEN h.zones ELSE Append(h.zones, z)
  <1>1. h \in Orchestrators /\ Registered(h) /\ h.zones \in Seq(ZoneInfo)
    BY DEF Sound, Orchestrators
  <1>2. z \in ZoneInfo /\ z.fd = fd
    BY DEF ZoneInfo
  <1>3. PICK g : g = updateNodeTopology(h, fd, p, b)
    OBVIOUS
  <1>4. /\ g.zones = t /\ g.open = h.open /\ g.lcSeq = h.lcSeq /\ g.state = h.state
        /\ g.drain = h.drain /\ g.out = h.out
    BY <1>1, <1>3 DEF updateNodeTopology, Orchestrators
  <1>5. Listed(h) \subseteq {t[i].fd : i \in DOMAIN t}
    <2>1. CASE fd \in Listed(h)
      <3>1. t = [h.zones EXCEPT ![IndexOf(h, fd)] = z]
        BY <2>1
      <3> HIDE DEF t, z
      <3> QED BY <1>1, <1>2, <2>1, <3>1, WriteEntry
    <2>2. CASE fd \notin Listed(h) /\ ~isRoutable(h, fd)
      <3>1. t = h.zones
        BY <2>2
      <3> HIDE DEF t
      <3> QED BY <3>1 DEF Listed
    <2>3. CASE fd \notin Listed(h) /\ isRoutable(h, fd)
      <3>1. t = Append(h.zones, z)
        BY <2>3
      <3> HIDE DEF t, z
      <3>2. \A i \in DOMAIN h.zones : i \in DOMAIN t /\ t[i] = h.zones[i]
        BY <1>1, <1>2, <3>1
      <3> QED BY <3>2 DEF Listed
    <2> QED BY <2>1, <2>2, <2>3
  <1> HIDE DEF t
  <1>6. Listed(h) \subseteq Listed(g)
    BY <1>4, <1>5 DEF Listed
  <1>7. Quiet(h, g)
    BY <1>4, <1>6 DEF Quiet, SameDrains
  <1> QED BY <1>3, <1>7

(* The deployment of a zone is deleted. *)
LEMMA deleteZoneNodeQuiet ==
    ASSUME NEW h, Sound(h), NEW fd \in Fds
    PROVE  Quiet(h, deleteZoneNode(h, fd))
  <1>1. h \in Orchestrators
    BY DEF Sound
  <1>2. PICK g : g = deleteZoneNode(h, fd)
    OBVIOUS
  <1>3. /\ g.zones = h.zones /\ g.open = h.open /\ g.lcSeq = h.lcSeq /\ g.state = h.state
        /\ g.drain = h.drain /\ g.out = h.out
    BY <1>1, <1>2 DEF deleteZoneNode, Orchestrators
  <1> QED BY <1>2, <1>3, SameIsQuiet

(* A zone leaves the registry as DEAD or DESTROYED. *)
LEMMA RetireEnds ==
    ASSUME NEW h, Sound(h), NEW fd \in Fds, NEW s \in {"DEAD", "DESTROYED"}
    PROVE  Ends(h, Retire(h, fd, s), fd, s)
  <1>1. PICK r : r = removeFromActiveZones(h, fd)
    OBVIOUS
  <1>2. /\ r \in Orchestrators /\ Listed(r) = Listed(h) \ {fd}
        /\ r.state = h.state /\ r.drain = h.drain /\ r.lcSeq = h.lcSeq
    BY <1>1, RemoveEffect
  <1>3. h \in Orchestrators /\ h.state \in [Fds -> ZoneState] /\ h.drain \in [Fds -> Drain]
    BY DEF Sound, Orchestrators
  <1>4. r.open = h.open /\ r.out = h.out
    BY <1>1, <1>3 DEF removeFromActiveZones, Orchestrators
  <1>5. PICK g : g = Retire(h, fd, s)
    OBVIOUS
  <1>6. g = [r EXCEPT !.state[fd] = s, !.drain[fd] = NoDrain,
                      !.replicas = IF @ > 0 THEN @ - 1 ELSE @]
    BY <1>1, <1>5 DEF Retire
  <1>7. /\ g.zones = r.zones /\ g.lcSeq = r.lcSeq /\ g.open = r.open /\ g.out = r.out
        /\ g.state = [r.state EXCEPT ![fd] = s]
        /\ g.drain = [r.drain EXCEPT ![fd] = NoDrain]
    BY <1>2, <1>6 DEF Orchestrators
  <1>8. Listed(g) = Listed(r)
    BY <1>7 DEF Listed
  <1>9. /\ g.state[fd] = s
        /\ \A o \in Fds \ {fd} : g.state[o] = h.state[o] /\ g.drain[o] = h.drain[o]
    BY <1>2, <1>3, <1>7
  <1>10. Ends(h, g, fd, s)
    BY <1>2, <1>4, <1>7, <1>8, <1>9 DEF Ends, SameDrains
  <1> QED BY <1>5, <1>10

(* What is quiet before the end of a drain does not matter. *)
LEMMA QuietEnds ==
    ASSUME NEW h, NEW k, NEW g, NEW fd \in Fds, NEW s, Quiet(h, k), Ends(k, g, fd, s)
    PROVE  Ends(h, g, fd, s)
  BY DEF Quiet, Ends, SameDrains

(* Nor does what is quiet after it. *)
LEMMA EndsQuiet ==
    ASSUME NEW h, NEW k, NEW g, NEW fd \in Fds, NEW s, Ends(h, k, fd, s), Quiet(k, g)
    PROVE  Ends(h, g, fd, s)
  BY DEF Quiet, Ends, SameDrains

(* An eviction. *)
LEMMA evictStaleZoneEnds ==
    ASSUME NEW h, Sound(h), NEW fd \in Fds
    PROVE  Ends(h, evictStaleZone(h, fd), fd, "DEAD")
  <1>1. PICK k : k = IF h.state[fd] = "DESTROYED" THEN h ELSE deleteZoneNode(h, fd)
    OBVIOUS
  <1>2. Sound(k) /\ Quiet(h, k)
    BY <1>1, deleteZoneNodeSound, deleteZoneNodeQuiet, SameIsQuiet
  <1>3. Ends(k, Retire(k, fd, "DEAD"), fd, "DEAD")
    BY <1>2, RetireEnds
  <1>4. Ends(h, Retire(k, fd, "DEAD"), fd, "DEAD")
    BY <1>2, <1>3, QuietEnds
  <1> QED BY <1>1, <1>4 DEF evictStaleZone

(* An acknowledgement ends the drain it names and nothing else. *)
LEMMA handleZoneLifecycleEnds ==
    ASSUME NEW h, Sound(h), NEW fd \in Fds, NEW req \in Nat
    PROVE  LET g == handleZoneLifecycle(h, fd, req)
           IN  \/ g = h
               \/ /\ h.state[fd] = "DRAINING" /\ h.drain[fd].req = req
                  /\ Ends(h, g, fd, "DESTROYED")
  <1>1. CASE h.state[fd] # "DRAINING" \/ h.drain[fd].req \notin {0, req}
    BY <1>1 DEF handleZoneLifecycle
  <1>2. CASE h.state[fd] = "DRAINING" /\ h.drain[fd].req \in {0, req}
    <2>1. h.drain[fd].req # 0
      <3>1. h.drain[fd].req \in 1..h.lcSeq - 1 /\ h.lcSeq \in Nat
        BY <1>2 DEF Sound, DrainsRecorded, Orchestrators
      <3> QED BY <3>1
    <2>2. PICK k : k = deleteZoneNode(h, fd)
      OBVIOUS
    <2>3. Sound(k) /\ Quiet(h, k)
      BY <2>2, deleteZoneNodeSound, deleteZoneNodeQuiet
    <2>4. PICK r : r = Retire(k, fd, "DESTROYED")
      OBVIOUS
    <2>5. Sound(r) /\ Ends(k, r, fd, "DESTROYED")
      BY <2>3, <2>4, RetireSound, RetireEnds
    <2>6. PICK g : g = [r EXCEPT !.age[fd] = "settling"]
      OBVIOUS
    <2>7. /\ g \in Orchestrators
          /\ g.zones = r.zones /\ g.open = r.open /\ g.lcSeq = r.lcSeq /\ g.state = r.state
          /\ g.drain = r.drain /\ g.out = r.out
      BY <2>5, <2>6 DEF Sound, Orchestrators
    <2>8. Sound(g) /\ Quiet(r, g)
      BY <2>5, <2>7, SameRegistry, SameIsQuiet
    <2>9. PICK m : m = [type |-> "delete", req |-> req]
      OBVIOUS
    <2>10. m \in Message /\ m.type # "drain"
      BY <2>9 DEF Message
    <2>11. PICK e : e = Send(g, fd, m)
      OBVIOUS
    <2>12. Quiet(g, e)
      BY <2>8, <2>10, <2>11, SendQuiet
    <2>13. Ends(h, e, fd, "DESTROYED")
      <3>1. Ends(h, r, fd, "DESTROYED")
        BY <2>3, <2>5, QuietEnds
      <3>2. Ends(h, g, fd, "DESTROYED")
        BY <2>8, <3>1, EndsQuiet
      <3> QED BY <2>12, <3>2, EndsQuiet
    <2>14. handleZoneLifecycle(h, fd, req) = e
      BY <1>2, <2>2, <2>4, <2>6, <2>9, <2>11 DEF handleZoneLifecycle
    <2> QED BY <1>2, <2>1, <2>13, <2>14
  <1> QED BY <1>1, <1>2

(* The fail-safe takes a late drain back. *)
LEMMA drainFailSafeEnds ==
    ASSUME NEW h, Sound(h), NEW fd \in Fds
    PROVE  LET g == drainFailSafe(h, fd)
           IN  \/ g = h
               \/ h.state[fd] = "DRAINING" /\ Ends(h, g, fd, "READY")
  <1>1. CASE ~(h.state[fd] = "DRAINING" /\ h.drain[fd].late)
    <2>1. drainFailSafe(h, fd) = h
      BY <1>1 DEF drainFailSafe
    <2> QED BY <2>1
  <1>2. CASE h.state[fd] = "DRAINING" /\ h.drain[fd].late
    <2>1. h \in Orchestrators /\ h.state \in [Fds -> ZoneState] /\ h.drain \in [Fds -> Drain]
      BY DEF Sound, Orchestrators
    <2>2. PICK g : g = [h EXCEPT !.state[fd] = "READY", !.drain[fd] = NoDrain]
      OBVIOUS
    <2>3. /\ g.zones = h.zones /\ g.lcSeq = h.lcSeq /\ g.open = h.open /\ g.out = h.out
          /\ g.state = [h.state EXCEPT ![fd] = "READY"]
          /\ g.drain = [h.drain EXCEPT ![fd] = NoDrain]
      BY <2>1, <2>2 DEF Orchestrators
    <2>4. Listed(g) = Listed(h)
      BY <2>3 DEF Listed
    <2>5. /\ g.state[fd] = "READY"
          /\ \A o \in Fds \ {fd} : g.state[o] = h.state[o] /\ g.drain[o] = h.drain[o]
      BY <2>1, <2>3
    <2>6. Ends(h, g, fd, "READY")
      BY <2>3, <2>4, <2>5 DEF Ends, SameDrains
    <2>7. drainFailSafe(h, fd) = g
      BY <1>2, <2>2 DEF drainFailSafe
    <2> QED BY <1>2, <2>6, <2>7
  <1> QED BY <1>1, <1>2

(* The timers, queues and marks of a zone are not what this is about. *)
LEMMA MarksQuiet ==
    ASSUME NEW h, Sound(h), NEW fd \in Fds
    PROVE  /\ \A v \in {"none", "counting", "elapsed"} :
                Quiet(h, [h EXCEPT !.low[fd] = v]) /\ Sound([h EXCEPT !.low[fd] = v])
           /\ \A v \in LifecycleOp \cup {"none"} :
                Quiet(h, [h EXCEPT !.pending[fd] = v]) /\ Sound([h EXCEPT !.pending[fd] = v])
           /\ \A v \in {"settling", "window", "clear"} :
                Quiet(h, [h EXCEPT !.age[fd] = v]) /\ Sound([h EXCEPT !.age[fd] = v])
  <1>1. h \in Orchestrators
    BY DEF Sound
  <1>2. ASSUME NEW v \in {"none", "counting", "elapsed"}
        PROVE  Quiet(h, [h EXCEPT !.low[fd] = v]) /\ Sound([h EXCEPT !.low[fd] = v])
    <2>1. PICK g : g = [h EXCEPT !.low[fd] = v]
      OBVIOUS
    <2>2. /\ g \in Orchestrators
          /\ g.zones = h.zones /\ g.open = h.open /\ g.lcSeq = h.lcSeq /\ g.state = h.state
          /\ g.drain = h.drain /\ g.out = h.out
      BY <1>1, <2>1 DEF Orchestrators
    <2> QED BY <2>1, <2>2, SameRegistry, SameIsQuiet
  <1>3. ASSUME NEW v \in LifecycleOp \cup {"none"}
        PROVE  Quiet(h, [h EXCEPT !.pending[fd] = v]) /\ Sound([h EXCEPT !.pending[fd] = v])
    <2>1. PICK g : g = [h EXCEPT !.pending[fd] = v]
      OBVIOUS
    <2>2. /\ g \in Orchestrators
          /\ g.zones = h.zones /\ g.open = h.open /\ g.lcSeq = h.lcSeq /\ g.state = h.state
          /\ g.drain = h.drain /\ g.out = h.out
      BY <1>1, <2>1 DEF Orchestrators
    <2> QED BY <2>1, <2>2, SameRegistry, SameIsQuiet
  <1>4. ASSUME NEW v \in {"settling", "window", "clear"}
        PROVE  Quiet(h, [h EXCEPT !.age[fd] = v]) /\ Sound([h EXCEPT !.age[fd] = v])
    <2>1. PICK g : g = [h EXCEPT !.age[fd] = v]
      OBVIOUS
    <2>2. /\ g \in Orchestrators
          /\ g.zones = h.zones /\ g.open = h.open /\ g.lcSeq = h.lcSeq /\ g.state = h.state
          /\ g.drain = h.drain /\ g.out = h.out
      BY <1>1, <2>1 DEF Orchestrators
    <2> QED BY <2>1, <2>2, SameRegistry, SameIsQuiet
  <1> QED BY <1>2, <1>3, <1>4

(* What is quiet before the start of a drain does not matter. *)
LEMMA QuietDrains ==
    ASSUME NEW h, NEW k, NEW g, NEW v \in Fds, Quiet(h, k), Drains(k, g, v), v \in Listed(h)
    PROVE  Drains(h, g, v)
  <1>1. PICK w \in Seq(Message) :
            /\ SameDrains(k.out[v], w)
            /\ g.out[v] \in {w, Append(w, [type |-> "drain", req |-> k.lcSeq])}
    BY DEF Drains
  <1>2. SameDrains(h.out[v], w) /\ k.lcSeq = h.lcSeq
    BY <1>1 DEF Quiet, SameDrains
  <1>3. \E x \in Seq(Message) :
            /\ SameDrains(h.out[v], x)
            /\ g.out[v] \in {x, Append(x, [type |-> "drain", req |-> h.lcSeq])}
    BY <1>1, <1>2
  <1>4. \A o \in Fds \ {v} : SameDrains(h.out[o], g.out[o])
    BY DEF Quiet, Drains, SameDrains
  <1> QED BY <1>3, <1>4 DEF Quiet, Drains

(* A merge changes a timer or starts a drain, with zones to spare. *)
LEMMA tryMergeDownActs ==
    ASSUME NEW h, Sound(h), NEW fd \in Fds, NEW r \in tryMergeDown(h, fd)
    PROVE  Acts(h, r.h)
  <1>1. CASE r \in {Outcome(h, FALSE)}
    BY <1>1, SameIsQuiet DEF Outcome, Acts
  <1>2. CASE \E v \in {"none", "counting"} : r = Outcome([h EXCEPT !.low[fd] = v], FALSE)
    <2>1. PICK v \in {"none", "counting"} : r = Outcome([h EXCEPT !.low[fd] = v], FALSE)
      BY <1>2
    <2>2. r.h = [h EXCEPT !.low[fd] = v]
      BY <2>1 DEF Outcome
    <2>3. Quiet(h, [h EXCEPT !.low[fd] = v])
      BY MarksQuiet
    <2> QED BY <2>2, <2>3 DEF Acts
  <1>3. CASE /\ CanGiveUpZone(h, fd)
             /\ \E victim \in Smallest(h, Neighbours(h, fd)) :
                    r = Outcome(StartDrain([h EXCEPT !.low[fd] = "none"], victim, fd), TRUE)
    <2>1. PICK victim \in Smallest(h, Neighbours(h, fd)) :
              r = Outcome(StartDrain([h EXCEPT !.low[fd] = "none"], victim, fd), TRUE)
      BY <1>3
    <2>2. PICK g : g = [h EXCEPT !.low[fd] = "none"]
      OBVIOUS
    <2>3. Sound(g) /\ Quiet(h, g)
      BY <2>2, MarksQuiet
    <2>4. victim \in Neighbours(h, fd)
      BY DEF Smallest
    <2>5. victim \in Listed(h) /\ victim # fd /\ h.state[victim] = "READY" /\ victim \in Fds
      BY <2>4, NeighboursReady, EntryOf DEF Sound
    <2>6. fd \in Listed(h) /\ h.state[fd] = "READY" /\ routableZoneCount(h) > MinReplicas
      BY <1>3 DEF CanGiveUpZone
    <2>7. /\ victim \in Listed(g) /\ fd \in Listed(g)
          /\ g.state[victim] = "READY" /\ g.state[fd] = "READY"
      BY <2>3, <2>5, <2>6 DEF Quiet
    <2>8. Drains(g, StartDrain(g, victim, fd), victim)
      BY <2>3, <2>5, <2>7, StartDrainDrains
    <2>9. Drains(h, StartDrain(g, victim, fd), victim)
      BY <2>3, <2>5, <2>8, QuietDrains
    <2>10. r.h = StartDrain(g, victim, fd)
      BY <2>1, <2>2 DEF Outcome
    <2> QED BY <2>5, <2>6, <2>9, <2>10 DEF Acts
  <1> QED BY <1>1, <1>2, <1>3 DEF tryMergeDown

(* So does a reassignment. *)
LEMMA tryReassignActs ==
    ASSUME NEW h, Sound(h), NEW fd \in Fds, NEW r \in tryReassign(h, fd)
    PROVE  Acts(h, r.h)
  <1>1. CASE r = Outcome(h, TRUE)
    BY <1>1, SameIsQuiet DEF Outcome, Acts
  <1>2. CASE /\ CanGiveUpZone(h, fd)
             /\ \E survivor \in Largest(h, Neighbours(h, fd)) :
                    r = Outcome(StartDrain(h, fd, survivor), TRUE)
    <2>1. PICK survivor \in Largest(h, Neighbours(h, fd)) :
              r = Outcome(StartDrain(h, fd, survivor), TRUE)
      BY <1>2
    <2>2. survivor \in Neighbours(h, fd)
      BY DEF Largest
    <2>3. survivor \in Listed(h) /\ survivor # fd /\ h.state[survivor] = "READY"
      BY <2>2, NeighboursReady
    <2>4. fd \in Listed(h) /\ h.state[fd] = "READY" /\ routableZoneCount(h) > MinReplicas
      BY <1>2 DEF CanGiveUpZone
    <2>5. Drains(h, StartDrain(h, fd, survivor), fd)
      BY <2>3, <2>4, StartDrainDrains
    <2>6. r.h = StartDrain(h, fd, survivor)
      BY <2>1 DEF Outcome
    <2> QED BY <2>4, <2>5, <2>6 DEF Acts
  <1> QED BY <1>1, <1>2 DEF tryReassign

(* A split starts no drain and ends none. *)
LEMMA trySplitDownQuiet ==
    ASSUME NEW h, Sound(h), NEW fd \in Fds, NEW r \in trySplitDown(h, fd)
    PROVE  Quiet(h, r.h)
  <1> DEFINE b == findZoneInfo(h, fd).box
             roomy == [h EXCEPT !.floor = @ \ {fd}]
             tight == [h EXCEPT !.floor = @ \cup {fd}]
  <1>1. h \in Orchestrators
    BY DEF Sound
  <1>2. Sound(roomy) /\ Quiet(h, roomy) /\ Quiet(h, tight)
    <2>1. PICK g, k : g = roomy /\ k = tight
      OBVIOUS
    <2>2. /\ g \in Orchestrators
          /\ g.zones = h.zones /\ g.open = h.open /\ g.lcSeq = h.lcSeq /\ g.state = h.state
          /\ g.drain = h.drain /\ g.out = h.out
      BY <1>1, <2>1 DEF Orchestrators
    <2>3. /\ k.zones = h.zones /\ k.open = h.open /\ k.lcSeq = h.lcSeq /\ k.state = h.state
          /\ k.drain = h.drain /\ k.out = h.out
      BY <1>1, <2>1 DEF Orchestrators
    <2> HIDE DEF roomy, tight
    <2> QED BY <2>1, <2>2, <2>3, SameRegistry, SameIsQuiet
  <1>3. CASE r = Outcome(h, FALSE)
    BY <1>3, SameIsQuiet DEF Outcome
  <1>4. CASE r = Outcome(tight, FALSE) \/ r = Outcome(roomy, FALSE)
    <2> HIDE DEF roomy, tight
    <2> QED BY <1>2, <1>4 DEF Outcome
  <1>5. CASE /\ fd \in Listed(h)
             /\ \E k \in Cuts(b) : \E s \in SpawnZoneNode(roomy, ChildBox(b, k)) :
                    r = Outcome(sendResizeCommand([s EXCEPT !.cooling = @ \cup {fd}],
                                    fd, k.axis, ParentBox(b, k)[k.axis]), TRUE)
    <2> HIDE DEF roomy
    <2>1. b \in Box
      BY <1>1, <1>5, EntryOf DEF ZoneInfo
    <2> HIDE DEF b
    <2>2. PICK k \in Cuts(b) : \E s \in SpawnZoneNode(roomy, ChildBox(b, k)) :
              r = Outcome(sendResizeCommand([s EXCEPT !.cooling = @ \cup {fd}],
                              fd, k.axis, ParentBox(b, k)[k.axis]), TRUE)
      BY <1>5
    <2>3. PICK s \in SpawnZoneNode(roomy, ChildBox(b, k)) :
              r = Outcome(sendResizeCommand([s EXCEPT !.cooling = @ \cup {fd}],
                              fd, k.axis, ParentBox(b, k)[k.axis]), TRUE)
      BY <2>2
    <2>4. /\ k.axis \in Axes /\ k.low \in Int /\ k.high \in Int
          /\ b[k.axis].lo \in Int /\ b[k.axis].hi \in Int
      BY <2>1, CutsType DEF Cuts, Cut, Box, Interval
    <2>5. [lo |-> b[k.axis].lo, hi |-> k.low] \in Interval
          /\ [lo |-> k.high, hi |-> b[k.axis].hi] \in Interval
      BY <2>4 DEF Interval
    <2>6. ParentBox(b, k) \in Box /\ ChildBox(b, k) \in Box
      BY <2>1, <2>4, <2>5, ResizeType DEF ParentBox, ChildBox
    <2>7. Sound(s) /\ roomy \in Orchestrators
      BY <1>2, <2>3, <2>6, SpawnZoneNodeSound DEF Sound
    <2>8. /\ s.zones = roomy.zones /\ s.open = roomy.open /\ s.lcSeq = roomy.lcSeq
          /\ s.state = roomy.state /\ s.drain = roomy.drain /\ s.out = roomy.out
      <3>1. PICK q \in Ports : s = [roomy EXCEPT !.deployed[q] = ChildBox(b, k),
                                              !.nextPort = @ + 1, !.replicas = @ + 1]
        BY <2>3 DEF SpawnZoneNode
      <3> QED BY <2>7, <3>1 DEF Orchestrators
    <2>9. PICK g : g = [s EXCEPT !.cooling = @ \cup {fd}]
      OBVIOUS
    <2>10. /\ g \in Orchestrators
           /\ g.zones = s.zones /\ g.open = s.open /\ g.lcSeq = s.lcSeq /\ g.state = s.state
           /\ g.drain = s.drain /\ g.out = s.out
      <3>1. s \in Orchestrators
        BY <2>7 DEF Sound
      <3> QED BY <2>9, <3>1 DEF Orchestrators
    <2>11. Sound(g) /\ Quiet(s, g) /\ Quiet(roomy, s)
      BY <2>7, <2>8, <2>10, SameRegistry, SameIsQuiet
    <2>12. ParentBox(b, k)[k.axis] \in Interval
      BY <2>4, <2>6 DEF Box
    <2>13. PICK e : e = sendResizeCommand(g, fd, k.axis, ParentBox(b, k)[k.axis])
      OBVIOUS
    <2>14. Quiet(g, e)
      BY <2>4, <2>11, <2>12, <2>13, sendResizeCommandQuiet
    <2>15. Quiet(roomy, g)
      BY <2>11, QuietTransitive
    <2>16. Quiet(h, g)
      BY <1>2, <2>15, QuietTransitive
    <2>17. Quiet(h, e)
      BY <2>14, <2>16, QuietTransitive
    <2> QED BY <2>3, <2>9, <2>13, <2>17 DEF Outcome
  <1> HIDE DEF roomy, tight, b
  <1>6. \/ r = Outcome(h, FALSE)
        \/ r = Outcome(tight, FALSE) \/ r = Outcome(roomy, FALSE)
        \/ /\ fd \in Listed(h)
           /\ \E k \in Cuts(b) : \E s \in SpawnZoneNode(roomy, ChildBox(b, k)) :
                    r = Outcome(sendResizeCommand([s EXCEPT !.cooling = @ \cup {fd}],
                                    fd, k.axis, ParentBox(b, k)[k.axis]), TRUE)
    BY DEF trySplitDown, roomy, tight, b
  <1> QED BY <1>3, <1>4, <1>5, <1>6

(* The operation at the head of the queue, whichever it is. *)
LEMMA RunOpActs ==
    ASSUME NEW h, Sound(h), NEW fd \in Fds, NEW op \in LifecycleOp, NEW r \in RunOp(h, fd, op)
    PROVE  Acts(h, r.h)
  <1>1. CASE op = "EVICT"
    <2>1. r.h = evictStaleZone(h, fd)
      BY <1>1 DEF RunOp, Outcome
    <2> QED BY <2>1, evictStaleZoneEnds DEF Acts
  <1>2. CASE op = "REASSIGN"
    <2>1. r \in tryReassign(h, fd)
      BY <1>2 DEF RunOp
    <2> QED BY <2>1, tryReassignActs
  <1>3. CASE op = "MERGE"
    <2>1. r \in tryMergeDown(h, fd)
      BY <1>3 DEF RunOp
    <2> QED BY <2>1, tryMergeDownActs
  <1>4. CASE op = "SPLIT"
    <2>1. r \in trySplitDown(h, fd)
      BY <1>4 DEF RunOp
    <2>2. Quiet(h, r.h)
      BY <2>1, trySplitDownQuiet
    <2> QED BY <2>2 DEF Acts
  <1> QED BY <1>1, <1>2, <1>3, <1>4 DEF LifecycleOp

-----------------------------------------------------------------------------
(* Zones in service *)

(* No number is used twice: a drain of g with a number that h has given    *)
(* out is that same drain.                                                 *)
NoNumberAgain(h, g) ==
    \A r \in Nat : r < h.lcSeq =>
        /\ r < g.lcSeq
        /\ \A fd \in Fds : g.state[fd] = "DRAINING" /\ g.drain[fd].req = r =>
                h.state[fd] = "DRAINING" /\ h.drain[fd].req = r

(* Nothing that matters to the zones in service happens: none of them      *)
(* stops serving, none dies and none is destroyed.                         *)
Still(h, g) ==
    /\ NoNumberAgain(h, g)
    /\ Routable(h) \subseteq Routable(g)
    /\ \A fd \in Fds : /\ g.state[fd] = "DEAD" <=> h.state[fd] = "DEAD"
                       /\ g.state[fd] = "DESTROYED" => h.state[fd] = "DESTROYED"

(* None is destroyed, and if fewer than the minimum serve one has died. *)
Floored(h, g) ==
    /\ NoNumberAgain(h, g)
    /\ \A fd \in Fds : g.state[fd] = "DESTROYED" => h.state[fd] = "DESTROYED"
    /\ \/ Routable(h) \subseteq Routable(g)
       \/ routableZoneCount(g) >= MinReplicas
       \/ \E fd \in Fds : h.state[fd] # "DEAD" /\ g.state[fd] = "DEAD"

(* The zones in service are finitely many. *)
LEMMA RoutableFinite ==
    ASSUME NEW h, Sound(h)
    PROVE  /\ Routable(h) \subseteq Fds /\ IsFiniteSet(Routable(h))
           /\ routableZoneCount(h) \in Nat
  <1>1. Routable(h) \subseteq Fds
    BY EntryOf DEF Routable, Sound
  <1>2. IsFiniteSet(Routable(h))
    BY <1>1, FdsAssumption, FS_Subset
  <1>3. Cardinality(Routable(h)) \in Nat
    BY <1>2, FS_CardinalityType
  <1> QED BY <1>1, <1>2, <1>3 DEF routableZoneCount

(* More zones in service are at least as many. *)
LEMMA MoreServe ==
    ASSUME NEW h, Sound(h), NEW g, Sound(g), Routable(h) \subseteq Routable(g)
    PROVE  routableZoneCount(h) <= routableZoneCount(g)
  <1>1. IsFiniteSet(Routable(g))
    BY RoutableFinite
  <1>2. Cardinality(Routable(h)) <= Cardinality(Routable(g))
    BY <1>1, FS_Subset
  <1> QED BY <1>2 DEF routableZoneCount

(* A quiet method is still. *)
LEMMA QuietStill ==
    ASSUME NEW h, NEW g, Quiet(h, g)
    PROVE  Still(h, g)
  <1>1. NoNumberAgain(h, g)
    BY DEF Quiet, NoNumberAgain
  <1> QED BY <1>1 DEF Quiet, Still, Routable, isRoutable

(* The end of a drain takes no number. *)
LEMMA EndsNoNumber ==
    ASSUME NEW h, NEW g, NEW v, NEW s, s # "DRAINING", Ends(h, g, v, s)
    PROVE  NoNumberAgain(h, g)
  BY DEF Ends, NoNumberAgain

(* A drain that is taken back adds a zone in service. *)
LEMMA EndsReadyStill ==
    ASSUME NEW h, Sound(h), NEW g, NEW fd \in Fds, h.state[fd] = "DRAINING",
           Ends(h, g, fd, "READY")
    PROVE  Still(h, g)
  <1>1. Listed(h) \subseteq Listed(g) /\ g.state[fd] = "READY"
        /\ \A o \in Fds \ {fd} : g.state[o] = h.state[o]
    BY DEF Ends
  <1>2. Listed(h) \subseteq Fds
    BY EntryOf DEF Sound
  <1>3. Routable(h) \subseteq Routable(g)
    BY <1>1, <1>2 DEF Routable, isRoutable
  <1> QED BY <1>1, <1>3, EndsNoNumber DEF Still

(* What is still in a row is still. *)
LEMMA StillTransitive ==
    ASSUME NEW h, NEW k, NEW g, Still(h, k), Still(k, g)
    PROVE  Still(h, g)
  BY DEF Still, NoNumberAgain

(* What is still before leaves the minimum in service. *)
LEMMA StillFloored ==
    ASSUME NEW h, NEW k, NEW g, Still(h, k), Floored(k, g)
    PROVE  Floored(h, g)
  BY DEF Still, Floored, NoNumberAgain

(* What is still afterwards leaves the minimum in service as well. *)
LEMMA FlooredStill ==
    ASSUME NEW h, NEW k, NEW g, Sound(k), Sound(g), Floored(h, k), Still(k, g)
    PROVE  Floored(h, g)
  <1>1. routableZoneCount(k) <= routableZoneCount(g)
        /\ routableZoneCount(k) \in Nat /\ routableZoneCount(g) \in Nat
    BY MoreServe, RoutableFinite DEF Still
  <1>2. routableZoneCount(k) >= MinReplicas => routableZoneCount(g) >= MinReplicas
    BY <1>1, MinReplicasAssumption
  <1> QED BY <1>2 DEF Still, Floored, NoNumberAgain

(* A drain that starts takes one zone out of service. *)
LEMMA DrainsFloored ==
    ASSUME NEW h, Sound(h), NEW g, Sound(g), NEW v \in Fds, Drains(h, g, v),
           routableZoneCount(h) > MinReplicas
    PROVE  Floored(h, g)
  <1>1. Listed(h) \subseteq Fds
    BY EntryOf DEF Sound
  <1>2. Routable(h) \ {v} \subseteq Routable(g)
    BY <1>1 DEF Drains, Routable, isRoutable
  <1>3. PICK R : R = Routable(h)
    OBVIOUS
  <1>4. IsFiniteSet(R) /\ IsFiniteSet(Routable(g)) /\ v \in R
    BY <1>3, RoutableFinite DEF Drains, Routable, isRoutable
  <1>5. Cardinality(R \ {v}) = Cardinality(R) - 1
    BY <1>4, FS_RemoveElement
  <1>6. Cardinality(R \ {v}) <= Cardinality(Routable(g))
    BY <1>2, <1>3, <1>4, FS_Subset
  <1>7. Cardinality(R) \in Nat /\ Cardinality(Routable(g)) \in Nat /\ Cardinality(R) > MinReplicas
    BY <1>3, <1>4, FS_CardinalityType DEF routableZoneCount
  <1>8. Cardinality(Routable(g)) >= MinReplicas
    BY <1>5, <1>6, <1>7, MinReplicasAssumption
  <1>9. \A fd \in Fds : g.state[fd] = "DESTROYED" => h.state[fd] = "DESTROYED"
    BY DEF Drains
  <1>10. NoNumberAgain(h, g)
    <2>1. h.lcSeq \in Nat /\ g.lcSeq = h.lcSeq + 1 /\ g.drain[v].req = h.lcSeq
      BY DEF Drains, Sound, Orchestrators
    <2>2. \A o \in Fds \ {v} : g.state[o] = h.state[o] /\ g.drain[o].req = h.drain[o].req
      BY DEF Drains
    <2> QED BY <2>1, <2>2 DEF NoNumberAgain
  <1> QED BY <1>8, <1>9, <1>10 DEF Floored, routableZoneCount

(* An eviction takes a zone out of service by declaring it dead. *)
LEMMA EndsDeadFloored ==
    ASSUME NEW h, Sound(h), NEW g, NEW v \in Fds, Ends(h, g, v, "DEAD")
    PROVE  Floored(h, g)
  <1>1. \A fd \in Fds : g.state[fd] = "DESTROYED" => h.state[fd] = "DESTROYED"
    BY DEF Ends
  <1>0. NoNumberAgain(h, g)
    BY EndsNoNumber
  <1>2. CASE h.state[v] = "DEAD"
    <2>1. v \notin Listed(h) /\ Listed(h) \subseteq Fds
      BY <1>2, EntryOf DEF Sound, Registered
    <2>2. Routable(h) \subseteq Routable(g)
      BY <2>1 DEF Ends, Routable, isRoutable
    <2> QED BY <1>0, <1>1, <2>2 DEF Floored
  <1>3. CASE h.state[v] # "DEAD"
    BY <1>0, <1>1, <1>3 DEF Floored, Ends
  <1> QED BY <1>2, <1>3

(* No operation of the queue destroys a zone, and only an eviction goes    *)
(* below the minimum.                                                      *)
LEMMA ActsFloored ==
    ASSUME NEW h, Sound(h), NEW g, Sound(g), Acts(h, g)
    PROVE  Floored(h, g)
  <1>1. CASE Quiet(h, g)
    BY <1>1, QuietStill DEF Still, Floored
  <1>2. CASE routableZoneCount(h) > MinReplicas /\ \E v \in Fds : Drains(h, g, v)
    BY <1>2, DrainsFloored
  <1>3. CASE \E v \in Fds : Ends(h, g, v, "DEAD")
    BY <1>3, EndsDeadFloored
  <1> QED BY <1>1, <1>2, <1>3 DEF Acts

-----------------------------------------------------------------------------
(* Drains and acknowledgements on their way *)

AcksIn(q) == {i \in DOMAIN q : q[i].type = "ack"}

(* A zone's connection is one the head has accepted and nobody else's, and *)
(* nothing is left to read of a connection that is gone.                   *)
Connected(h, in, lk) ==
    /\ \A p \in Ports : lk[p] # NoFd => lk[p] \in h.open
    /\ \A p, q \in Ports : lk[p] # NoFd /\ lk[p] = lk[q] => p = q
    /\ \A fd \in Fds \ h.open : in[fd] = <<>>

(* Requests are numbered in the order in which they are written. *)
RequestsAscend(h, in) ==
    \A fd \in Fds :
        /\ \A i \in DrainsIn(h.out[fd]) : h.out[fd][i].req < h.lcSeq
        /\ \A i, j \in DrainsIn(h.out[fd]) : i < j => h.out[fd][i].req < h.out[fd][j].req
        /\ \A i \in AcksIn(in[fd]) : in[fd][i].req < h.lcSeq

(* An acknowledgement of the drain that is running means that the zone has *)
(* obeyed it, and will not be asked again before it is handled.            *)
AcksAreTrue(h, in, lk, dr) ==
    \A fd \in Fds : h.state[fd] = "DRAINING" =>
        /\ \A i \in DrainsIn(h.out[fd]) : h.out[fd][i].req <= h.drain[fd].req
        /\ \A i \in AcksIn(in[fd]) : in[fd][i].req = h.drain[fd].req =>
                /\ DrainsIn(h.out[fd]) = {}
                /\ \A p \in Ports : lk[p] = fd => dr[p] = h.drain[fd].req

(* A request with the number of the drain that is running is written to    *)
(* the zone that drains.                                                   *)
NumbersAreOwn(h) ==
    \A fd, o \in Fds : h.state[o] = "DRAINING" =>
        \A i \in DrainsIn(h.out[fd]) : h.out[fd][i].req = h.drain[o].req => fd = o

Flow(h, in, lk, dr) ==
    Connected(h, in, lk) /\ RequestsAscend(h, in) /\ AcksAreTrue(h, in, lk, dr) /\ NumbersAreOwn(h)

FlowInv == Flow(orch, inbox, link, draining)

(* A quiet method says nothing new about drains. *)
LEMMA QuietFlow ==
    ASSUME NEW h, NEW g, NEW in, NEW lk, NEW dr, Quiet(h, g), Flow(h, in, lk, dr)
    PROVE  Flow(g, in, lk, dr)
  <1>1. Connected(g, in, lk)
    BY DEF Quiet, Flow, Connected
  <1>2. ASSUME NEW fd \in Fds
        PROVE  /\ DrainsIn(g.out[fd]) = DrainsIn(h.out[fd])
               /\ \A i \in DrainsIn(g.out[fd]) : g.out[fd][i] = h.out[fd][i]
               /\ g.lcSeq = h.lcSeq /\ g.state = h.state /\ g.drain[fd].req = h.drain[fd].req
    BY DEF Quiet, SameDrains
  <1>3. RequestsAscend(g, in)
    BY <1>2 DEF Flow, RequestsAscend
  <1>4. AcksAreTrue(g, in, lk, dr)
    BY <1>2 DEF Flow, AcksAreTrue
  <1>5. NumbersAreOwn(g)
    BY <1>2 DEF Flow, NumbersAreOwn
  <1> QED BY <1>1, <1>3, <1>4, <1>5 DEF Flow

(* Nor does the end of a drain. *)
LEMMA EndsFlow ==
    ASSUME NEW h, NEW g, NEW in, NEW lk, NEW dr, NEW v \in Fds, NEW s, s # "DRAINING",
           Ends(h, g, v, s), Flow(h, in, lk, dr)
    PROVE  Flow(g, in, lk, dr)
  <1>1. Connected(g, in, lk)
    BY DEF Ends, Flow, Connected
  <1>2. ASSUME NEW fd \in Fds
        PROVE  /\ DrainsIn(g.out[fd]) = DrainsIn(h.out[fd])
               /\ \A i \in DrainsIn(g.out[fd]) : g.out[fd][i] = h.out[fd][i]
               /\ g.lcSeq = h.lcSeq
    BY DEF Ends, SameDrains
  <1>3. RequestsAscend(g, in)
    BY <1>2 DEF Flow, RequestsAscend
  <1>4. \A fd \in Fds : g.state[fd] = "DRAINING" =>
            h.state[fd] = "DRAINING" /\ g.drain[fd].req = h.drain[fd].req
    BY DEF Ends
  <1>5. AcksAreTrue(g, in, lk, dr)
    BY <1>2, <1>4 DEF Flow, AcksAreTrue
  <1>6. NumbersAreOwn(g)
    BY <1>2, <1>4 DEF Flow, NumbersAreOwn
  <1> QED BY <1>1, <1>3, <1>5, <1>6 DEF Flow

(* A drain is appended. *)
LEMMA AppendDrain ==
    ASSUME NEW w \in Seq(Message), NEW r \in Nat,
           NEW x \in {w, Append(w, [type |-> "drain", req |-> r])},
           \A i \in DrainsIn(w) : w[i].req < r,
           \A i, j \in DrainsIn(w) : i < j => w[i].req < w[j].req
    PROVE  /\ \A i \in DrainsIn(x) : x[i].req \in Nat /\ x[i].req <= r /\ x[i].req < r + 1
           /\ \A i, j \in DrainsIn(x) : i < j => x[i].req < x[j].req
  <1>1. \A i \in DrainsIn(w) : w[i].req \in Nat
    <2>1. \A i \in DOMAIN w : w[i] \in Message
      OBVIOUS
    <2> QED BY <2>1 DEF DrainsIn, Message
  <1>2. CASE x = w
    <2>1. \A i \in DrainsIn(x) : x[i].req <= r /\ x[i].req < r + 1
      BY <1>1, <1>2
    <2> QED BY <1>1, <1>2, <2>1
  <1>3. CASE x = Append(w, [type |-> "drain", req |-> r])
    <2>1. PICK n : n = Len(w)
      OBVIOUS
    <2>2. PICK m : m = [type |-> "drain", req |-> r]
      OBVIOUS
    <2>3. m \in Message /\ m.req = r
      BY <2>2 DEF Message
    <2>4. /\ n \in Nat /\ DOMAIN w = 1..n /\ DOMAIN x = 1..n + 1 /\ x[n + 1] = m
          /\ \A i \in 1..n : x[i] = w[i]
      BY <1>3, <2>1, <2>2, <2>3
    <2>5. \A i \in DrainsIn(x) : i \in 1..n + 1 /\ (i = n + 1 \/ i \in 1..n)
      BY <2>4 DEF DrainsIn
    <2>6. \A i \in DrainsIn(x) : i = n + 1 \/ (i \in DrainsIn(w) /\ x[i] = w[i])
      BY <2>4, <2>5 DEF DrainsIn
    <2>7. \A i \in DrainsIn(x) : x[i].req \in Nat /\ x[i].req <= r /\ x[i].req < r + 1
      BY <1>1, <2>3, <2>4, <2>6
    <2>8. ASSUME NEW i \in DrainsIn(x), NEW j \in DrainsIn(x), i < j
          PROVE  x[i].req < x[j].req
      <3>1. i # n + 1 /\ (j = n + 1 \/ j # n + 1)
        BY <2>4, <2>5, <2>8
      <3>2. i \in DrainsIn(w) /\ x[i] = w[i]
        BY <2>6, <3>1
      <3>3. CASE j = n + 1
        BY <2>3, <2>4, <3>2, <3>3
      <3>4. CASE j # n + 1
        BY <2>6, <2>8, <3>2, <3>4
      <3> QED BY <3>3, <3>4
    <2> QED BY <2>7, <2>8
  <1> QED BY <1>2, <1>3

(* The elements of a queue to which one is added. *)
LEMMA AppendElements ==
    ASSUME NEW S, NEW q \in Seq(S), NEW m \in S
    PROVE  \A i \in DOMAIN Append(q, m) :
                \/ i \in DOMAIN q /\ Append(q, m)[i] = q[i]
                \/ Append(q, m)[i] = m
  OBVIOUS

(* Nothing but the new drain is there that was not there before. *)
LEMMA DrainSource ==
    ASSUME NEW w \in Seq(Message), NEW r \in Nat,
           NEW x \in {w, Append(w, [type |-> "drain", req |-> r])}, NEW i \in DrainsIn(x)
    PROVE  x[i].req = r \/ (i \in DrainsIn(w) /\ x[i] = w[i])
  <1>1. CASE x = w
    BY <1>1
  <1>2. CASE x = Append(w, [type |-> "drain", req |-> r])
    <2>1. PICK m : m = [type |-> "drain", req |-> r]
      OBVIOUS
    <2>2. m \in Message /\ m.req = r
      BY <2>1 DEF Message
    <2>3. i \in DOMAIN x /\ x[i].type = "drain"
      BY DEF DrainsIn
    <2>4. (i \in DOMAIN w /\ x[i] = w[i]) \/ x[i] = m
      BY <1>2, <2>1, <2>2, <2>3, AppendElements
    <2> QED BY <2>2, <2>3, <2>4 DEF DrainsIn
  <1> QED BY <1>1, <1>2

(* A drain that starts has a number of which nobody has heard. *)
LEMMA DrainsFlow ==
    ASSUME NEW h, Sound(h), NEW g, NEW in \in [Fds -> Seq(Packet)], NEW lk, NEW dr,
           NEW v \in Fds, Drains(h, g, v), Flow(h, in, lk, dr)
    PROVE  Flow(g, in, lk, dr)
  <1>1. Connected(g, in, lk)
    BY DEF Drains, Flow, Connected
  <1>2. PICK r : r = h.lcSeq
    OBVIOUS
  <1>3. r \in Nat /\ g.lcSeq = r + 1
    BY <1>2 DEF Drains, Sound, Orchestrators
  <1>4. \A fd \in Fds : \A i \in AcksIn(in[fd]) : in[fd][i].req \in Nat /\ in[fd][i].req < r
    <2>1. ASSUME NEW fd \in Fds, NEW i \in AcksIn(in[fd])
          PROVE  in[fd][i].req \in Nat
      <3>1. in[fd][i] \in Packet /\ in[fd][i].type = "ack"
        BY DEF AcksIn
      <3> QED BY <3>1 DEF Packet
    <2> QED BY <1>2, <2>1 DEF Flow, RequestsAscend
  <1>5. \A fd \in Fds : \A i \in DrainsIn(h.out[fd]) :
            h.out[fd][i].req \in Nat /\ h.out[fd][i].req < r
    <2>1. ASSUME NEW fd \in Fds, NEW i \in DrainsIn(h.out[fd])
          PROVE  h.out[fd][i].req \in Nat
      <3>1. h.out[fd] \in Seq(Message)
        BY DEF Sound, Orchestrators
      <3>2. h.out[fd][i] \in Message /\ h.out[fd][i].type = "drain"
        BY <3>1 DEF DrainsIn
      <3> QED BY <3>2 DEF Message
    <2> QED BY <1>2, <2>1 DEF Flow, RequestsAscend
  <1>6. PICK w \in Seq(Message) :
            /\ SameDrains(h.out[v], w)
            /\ g.out[v] \in {w, Append(w, [type |-> "drain", req |-> r])}
    BY <1>2 DEF Drains
  <1>7. /\ \A i \in DrainsIn(w) : w[i].req < r
        /\ \A i, j \in DrainsIn(w) : i < j => w[i].req < w[j].req
    BY <1>5, <1>6 DEF SameDrains, Flow, RequestsAscend
  <1>8. PICK x : x = g.out[v]
    OBVIOUS
  <1>9. /\ \A i \in DrainsIn(x) : x[i].req \in Nat /\ x[i].req <= r /\ x[i].req < r + 1
        /\ \A i, j \in DrainsIn(x) : i < j => x[i].req < x[j].req
    BY <1>3, <1>6, <1>7, <1>8, AppendDrain
  <1>10. ASSUME NEW o \in Fds \ {v}
         PROVE  /\ DrainsIn(g.out[o]) = DrainsIn(h.out[o])
                /\ \A i \in DrainsIn(g.out[o]) : g.out[o][i] = h.out[o][i]
                /\ g.state[o] = h.state[o] /\ g.drain[o].req = h.drain[o].req
    BY DEF Drains, SameDrains
  <1>11. ASSUME NEW fd \in Fds
         PROVE  /\ \A i \in DrainsIn(g.out[fd]) : g.out[fd][i].req < g.lcSeq
                /\ \A i, j \in DrainsIn(g.out[fd]) : i < j => g.out[fd][i].req < g.out[fd][j].req
                /\ \A i \in AcksIn(in[fd]) : in[fd][i].req < g.lcSeq
    <2>1. \A i \in AcksIn(in[fd]) : in[fd][i].req < g.lcSeq
      BY <1>3, <1>4
    <2>2. CASE fd = v
      BY <1>3, <1>8, <1>9, <2>1, <2>2
    <2>3. CASE fd # v
      <3>1. ASSUME NEW i \in DrainsIn(g.out[fd])
            PROVE  g.out[fd][i].req < g.lcSeq
        <4>1. i \in DrainsIn(h.out[fd]) /\ g.out[fd][i] = h.out[fd][i]
          BY <1>10, <2>3
        <4>2. g.out[fd][i].req \in Nat /\ g.out[fd][i].req < r
          BY <1>5, <4>1
        <4> QED BY <1>3, <4>2
      <3>2. \A i, j \in DrainsIn(g.out[fd]) : i < j => g.out[fd][i].req < g.out[fd][j].req
        BY <1>10, <2>3 DEF Flow, RequestsAscend
      <3> QED BY <2>1, <3>1, <3>2
    <2> QED BY <2>2, <2>3
  <1>12. RequestsAscend(g, in)
    BY <1>11 DEF RequestsAscend
  <1>13. ASSUME NEW fd \in Fds, g.state[fd] = "DRAINING"
         PROVE  /\ \A i \in DrainsIn(g.out[fd]) : g.out[fd][i].req <= g.drain[fd].req
                /\ \A i \in AcksIn(in[fd]) : in[fd][i].req = g.drain[fd].req =>
                    /\ DrainsIn(g.out[fd]) = {}
                    /\ \A p \in Ports : lk[p] = fd => dr[p] = g.drain[fd].req
    <2>1. CASE fd = v
      <3>1. g.drain[v].req = r
        BY <1>2 DEF Drains
      <3>2. \A i \in AcksIn(in[v]) : in[v][i].req # g.drain[v].req
        BY <1>3, <1>4, <3>1
      <3>3. \A i \in DrainsIn(g.out[v]) : g.out[v][i].req <= g.drain[v].req
        BY <1>8, <1>9, <3>1
      <3> QED BY <2>1, <3>2, <3>3
    <2>2. CASE fd # v
      BY <1>10, <1>13, <2>2 DEF Flow, AcksAreTrue
    <2> QED BY <2>1, <2>2
  <1>14. AcksAreTrue(g, in, lk, dr)
    BY <1>13 DEF AcksAreTrue
  <1>15. ASSUME NEW fd \in Fds, NEW o \in Fds, g.state[o] = "DRAINING",
                NEW i \in DrainsIn(g.out[fd]), g.out[fd][i].req = g.drain[o].req
         PROVE  fd = o
    <2>1. \/ fd = v /\ g.out[fd][i].req = r
          \/ i \in DrainsIn(h.out[fd]) /\ g.out[fd][i] = h.out[fd][i]
      <3>1. CASE fd = v
        <4>1. x[i].req = r \/ (i \in DrainsIn(w) /\ x[i] = w[i])
          <5>1. i \in DrainsIn(x)
            BY <1>8, <1>15, <3>1
          <5>2. r \in Nat /\ w \in Seq(Message) /\ x \in {w, Append(w, [type |-> "drain", req |-> r])}
            BY <1>3, <1>6, <1>8
          <5> QED BY <5>1, <5>2, DrainSource
        <4> QED BY <1>6, <1>8, <3>1, <4>1 DEF SameDrains
      <3>2. CASE fd # v
        BY <1>10, <3>2
      <3> QED BY <3>1, <3>2
    <2>2. CASE o = v
      <3>1. g.drain[o].req = r
        BY <1>2, <2>2 DEF Drains
      <3> QED BY <1>3, <1>5, <1>15, <2>1, <2>2, <3>1
    <2>3. CASE o # v
      <3>1. h.state[o] = "DRAINING" /\ h.drain[o].req = g.drain[o].req
        BY <1>10, <1>15, <2>3
      <3>2. g.drain[o].req # r
        BY <1>2, <1>3, <3>1 DEF Sound, DrainsRecorded
      <3>3. i \in DrainsIn(h.out[fd]) /\ h.out[fd][i].req = h.drain[o].req
        BY <1>15, <2>1, <3>1, <3>2
      <3> QED BY <3>1, <3>3 DEF Flow, NumbersAreOwn
    <2> QED BY <2>2, <2>3
  <1>16. NumbersAreOwn(g)
    BY <1>15 DEF NumbersAreOwn
  <1> QED BY <1>1, <1>12, <1>14, <1>16 DEF Flow

(* Whatever an operation of the queue does. *)
LEMMA ActsFlow ==
    ASSUME NEW h, Sound(h), NEW g, NEW in \in [Fds -> Seq(Packet)], NEW lk, NEW dr,
           Acts(h, g), Flow(h, in, lk, dr)
    PROVE  Flow(g, in, lk, dr)
  BY QuietFlow, DrainsFlow, EndsFlow DEF Acts

-----------------------------------------------------------------------------
(* The queue and the evaluation of a sample *)

(* One pass over the queue. *)
LEMMA processLifecycleQueueFlow ==
    ASSUME NEW h, Sound(h), NEW g \in processLifecycleQueue(h),
           NEW in \in [Fds -> Seq(Packet)], NEW lk, NEW dr, Flow(h, in, lk, dr)
    PROVE  Flow(g, in, lk, dr) /\ Floored(h, g)
  <1>1. CASE g = h
    BY <1>1 DEF Floored, NoNumberAgain
  <1>2. CASE \E fd \in NextOp(h) :
               \E r \in RunOp([h EXCEPT !.pending[fd] = "none"], fd, h.pending[fd]) :
                   g = IF r.acted THEN [r.h EXCEPT !.age[fd] = "settling"] ELSE r.h
    <2>1. PICK fd \in NextOp(h) :
               \E r \in RunOp([h EXCEPT !.pending[fd] = "none"], fd, h.pending[fd]) :
                   g = IF r.acted THEN [r.h EXCEPT !.age[fd] = "settling"] ELSE r.h
      BY <1>2
    <2>2. PICK r \in RunOp([h EXCEPT !.pending[fd] = "none"], fd, h.pending[fd]) :
                   g = IF r.acted THEN [r.h EXCEPT !.age[fd] = "settling"] ELSE r.h
      BY <2>1
    <2>3. fd \in Fds /\ h.pending[fd] \in LifecycleOp
      BY DEF NextOp, Settled, Sound, Orchestrators
    <2>4. PICK k : k = [h EXCEPT !.pending[fd] = "none"]
      OBVIOUS
    <2>5. Sound(k) /\ Quiet(h, k)
      BY <2>3, <2>4, MarksQuiet
    <2>6. PICK n : n = r.h
      OBVIOUS
    <2>7. r \in RunOp(k, fd, h.pending[fd])
      BY <2>2, <2>4
    <2>8. Sound(n) /\ Acts(k, n)
      BY <2>3, <2>5, <2>6, <2>7, RunOpSound, RunOpActs
    <2>9. PICK a : a = [n EXCEPT !.age[fd] = "settling"]
      OBVIOUS
    <2>10. Sound(a) /\ Quiet(n, a)
      BY <2>3, <2>8, <2>9, MarksQuiet
    <2>11. g = n \/ g = a
      BY <2>2, <2>6, <2>9
    <2>12. Flow(k, in, lk, dr)
      BY <2>5, QuietFlow
    <2>13. Flow(n, in, lk, dr)
      BY <2>5, <2>8, <2>12, ActsFlow
    <2>14. Flow(a, in, lk, dr)
      BY <2>10, <2>13, QuietFlow
    <2>15. Floored(k, n)
      BY <2>5, <2>8, ActsFloored
    <2>16. Floored(h, n)
      BY <2>5, <2>15, QuietStill, StillFloored
    <2>17. Floored(h, a)
      BY <2>8, <2>10, <2>16, QuietStill, FlooredStill
    <2> QED BY <2>11, <2>13, <2>14, <2>16, <2>17
  <1> QED BY <1>1, <1>2 DEF processLifecycleQueue

(* A request is queued or dropped. *)
LEMMA enqueueLifecycleQuiet ==
    ASSUME NEW h, Sound(h), NEW fd \in Fds, NEW op \in LifecycleOp
    PROVE  Quiet(h, enqueueLifecycle(h, fd, op))
  <1>1. Quiet(h, h) /\ Quiet(h, [h EXCEPT !.pending[fd] = op])
    BY SameIsQuiet, MarksQuiet
  <1> QED BY <1>1 DEF enqueueLifecycle

(* The sweep queues evictions and does nothing else. *)
LEMMA sweepStaleZonesQuiet ==
    ASSUME NEW h, Sound(h)
    PROVE  Quiet(h, sweepStaleZones(h))
  <1>1. PICK g : g = sweepStaleZones(h)
    OBVIOUS
  <1>2. h \in Orchestrators
    BY DEF Sound
  <1>3. /\ g.zones = h.zones /\ g.open = h.open /\ g.lcSeq = h.lcSeq /\ g.state = h.state
        /\ g.drain = h.drain /\ g.out = h.out
    BY <1>1, <1>2 DEF sweepStaleZones, Orchestrators
  <1> QED BY <1>1, <1>3, SameIsQuiet

(* The low-load timer. *)
LEMMA TrackLowQuiet ==
    ASSUME NEW h, Sound(h), NEW fd \in Fds, NEW low \in BOOLEAN
    PROVE  Quiet(h, TrackLow(h, fd, low))
  <1>1. PICK g : g = TrackLow(h, fd, low)
    OBVIOUS
  <1>2. h \in Orchestrators
    BY DEF Sound
  <1>3. /\ g.zones = h.zones /\ g.open = h.open /\ g.lcSeq = h.lcSeq /\ g.state = h.state
        /\ g.drain = h.drain /\ g.out = h.out
    BY <1>1, <1>2 DEF TrackLow, Orchestrators
  <1> QED BY <1>1, <1>3, SameIsQuiet

(* The decision a sample leads to. *)
LEMMA TriggersQuiet ==
    ASSUME NEW h, Sound(h), NEW fd \in Fds, NEW signal \in {"failing", "loaded", "calm"}
    PROVE  Quiet(h, Triggers(h, fd, signal))
  <1>1. \A op \in {"REASSIGN", "SPLIT", "MERGE"} : Quiet(h, enqueueLifecycle(h, fd, op))
    BY enqueueLifecycleQuiet DEF LifecycleOp
  <1>2. Quiet(h, h)
    BY SameIsQuiet
  <1>3. CASE signal = "failing"
    BY <1>1, <1>3 DEF Triggers
  <1>4. CASE signal = "loaded"
    BY <1>1, <1>2, <1>4 DEF Triggers
  <1>5. CASE signal = "calm"
    BY <1>1, <1>2, <1>5 DEF Triggers
  <1> QED BY <1>3, <1>4, <1>5

(* The whole of evaluateServer: a late drain is taken back before the      *)
(* queue runs.                                                             *)
LEMMA evaluateServerFlow ==
    ASSUME NEW h, Sound(h), NEW fd \in Fds, NEW m \in Sample,
           NEW restarted \in BOOLEAN, NEW sweepDue \in BOOLEAN,
           NEW g \in evaluateServer(h, fd, m, restarted, sweepDue),
           NEW in \in [Fds -> Seq(Packet)], NEW lk, NEW dr, Flow(h, in, lk, dr)
    PROVE  Flow(g, in, lk, dr) /\ Floored(h, g)
  <1>1. m.low \in BOOLEAN /\ m.signal \in {"failing", "loaded", "calm"}
    BY DEF Sample
  <1>2. PICK safe : safe = drainFailSafe(h, fd)
    OBVIOUS
  <1>3. PICK swept : swept = IF sweepDue THEN sweepStaleZones(safe) ELSE safe
    OBVIOUS
  <1>4. PICK tracked : tracked = TrackLow(swept, fd, m.low)
    OBVIOUS
  <1>5. Sound(safe) /\ Flow(safe, in, lk, dr) /\ Still(h, safe)
    <2>1. Sound(safe)
      BY <1>2, drainFailSafeSound
    <2>2. CASE safe = h
      BY <2>1, <2>2 DEF Still, NoNumberAgain
    <2>3. CASE h.state[fd] = "DRAINING" /\ Ends(h, safe, fd, "READY")
      BY <2>1, <2>3, EndsFlow, EndsReadyStill
    <2> QED BY <1>2, <2>2, <2>3, drainFailSafeEnds
  <1>6. Sound(swept) /\ Quiet(safe, swept)
    BY <1>3, <1>5, sweepStaleZonesSound, sweepStaleZonesQuiet, SameIsQuiet
  <1>7. Sound(tracked) /\ Quiet(swept, tracked)
    BY <1>1, <1>4, <1>6, TrackLowSound, TrackLowQuiet
  <1>8. Quiet(safe, tracked)
    BY <1>6, <1>7, QuietTransitive
  <1>9. PICK based : based = [tracked EXCEPT !.baseline = @ \cup {fd}]
    OBVIOUS
  <1>10. PICK told : told = Triggers(tracked, fd, m.signal)
    OBVIOUS
  <1>11. Sound(based) /\ Quiet(tracked, based)
    <2>1. tracked \in Orchestrators
      BY <1>7 DEF Sound
    <2>2. /\ based \in Orchestrators /\ based.zones = tracked.zones /\ based.open = tracked.open
          /\ based.state = tracked.state /\ based.drain = tracked.drain
          /\ based.lcSeq = tracked.lcSeq /\ based.out = tracked.out
      BY <1>9, <2>1 DEF Orchestrators
    <2> QED BY <1>7, <2>2, SameRegistry, SameIsQuiet
  <1>12. Sound(told) /\ Quiet(tracked, told)
    BY <1>1, <1>7, <1>10, TriggersSound, TriggersQuiet
  <1>13. PICK k \in {based, tracked, told} : g \in processLifecycleQueue(k)
    BY <1>2, <1>3, <1>4, <1>9, <1>10 DEF evaluateServer
  <1>14. Sound(k) /\ Quiet(safe, k)
    BY <1>7, <1>8, <1>11, <1>12, <1>13, QuietTransitive
  <1>15. Flow(k, in, lk, dr) /\ Still(h, k)
    BY <1>5, <1>14, QuietFlow, QuietStill, StillTransitive
  <1>16. Flow(g, in, lk, dr) /\ Floored(k, g)
    BY <1>13, <1>14, <1>15, processLifecycleQueueFlow
  <1> QED BY <1>15, <1>16, StillFloored

(* A zone reports that its validator is unreachable. *)
LEMMA notifyValidatorDownFlow ==
    ASSUME NEW h, Sound(h), NEW fd \in Fds, NEW g \in notifyValidatorDown(h, fd),
           NEW in \in [Fds -> Seq(Packet)], NEW lk, NEW dr, Flow(h, in, lk, dr)
    PROVE  Flow(g, in, lk, dr) /\ Floored(h, g)
  <1>1. PICK k : k = enqueueLifecycle(h, fd, "REASSIGN")
    OBVIOUS
  <1>2. Sound(k) /\ Quiet(h, k) /\ g \in processLifecycleQueue(k)
    BY <1>1, enqueueLifecycleSound, enqueueLifecycleQuiet DEF LifecycleOp, notifyValidatorDown
  <1>3. Flow(k, in, lk, dr)
    BY <1>2, QuietFlow
  <1>4. Flow(g, in, lk, dr) /\ Floored(k, g)
    BY <1>2, <1>3, processLifecycleQueueFlow
  <1> QED BY <1>2, <1>4, QuietStill, StillFloored

(* A chunk nobody covers is given to a zone. *)
LEMMA HandleZoneQueryQuiet ==
    ASSUME NEW h, Sound(h), NEW c \in Chunk
    PROVE  Quiet(h, HandleZoneQuery(h, c))
  <1>1. h \in Orchestrators /\ Quiet(h, h)
    BY SameIsQuiet DEF Sound
  <1>2. PICK S : S = IF AlignedWith(h, c) # {} THEN AlignedWith(h, c) ELSE Routable(h)
    OBVIOUS
  <1>3. S \in SUBSET Listed(h)
    BY <1>2 DEF AlignedWith, Routable
  <1>4. PICK best : best = FirstZone(h, S)
    OBVIOUS
  <1>5. CASE best = NoFd
    BY <1>1, <1>2, <1>4, <1>5 DEF relocateZoneTo, HandleZoneQuery
  <1>6. CASE best # NoFd
    <2>1. S # {}
      BY <1>4, <1>6 DEF FirstZone
    <2>2. best \in Listed(h)
      BY <1>1, <1>3, <1>4, <2>1, FirstZoneType
    <2>3. findZoneInfo(h, best).box \in Box /\ best \in Fds
      BY <1>1, <2>2, EntryOf DEF ZoneInfo
    <2>4. PICK b : b = Stretch(findZoneInfo(h, best).box, c)
      OBVIOUS
    <2>5. b \in Box
      BY <2>3, <2>4, StretchType
    <2>6. PICK k : k = SetBox(h, best, b)
      OBVIOUS
    <2>7. Sound(k) /\ Quiet(h, k)
      BY <2>2, <2>5, <2>6, SetBoxSound, SetBoxQuiet
    <2>8. PICK m : m = [type |-> "relocate", chunk |-> c]
      OBVIOUS
    <2>9. m \in Message /\ m.type # "drain"
      BY <2>8 DEF Message
    <2>10. Quiet(k, Send(k, best, m))
      BY <2>3, <2>7, <2>9, SendQuiet
    <2>11. Quiet(h, Send(k, best, m))
      BY <2>7, <2>10, QuietTransitive
    <2>12. relocateZoneTo(h, c) = Send(k, best, m)
      BY <1>2, <1>4, <1>6, <2>4, <2>6, <2>8 DEF relocateZoneTo
    <2> QED BY <1>1, <2>11, <2>12 DEF HandleZoneQuery
  <1> QED BY <1>5, <1>6

-----------------------------------------------------------------------------
(* The steps of the connections *)

(* What is left when the head has handled a packet of fd and when a zone   *)
(* has read a command, and what is there when a zone has sent a packet.    *)
Handled(in, fd) == [in EXCEPT ![fd] = Tail(@)]

Unread(h, fd) == [h EXCEPT !.out[fd] = Tail(@)]

Sent(in, fd, m) == [in EXCEPT ![fd] = Append(@, m)]

(* What is left of a queue when its first element is read. *)
LEMMA TailElements ==
    ASSUME NEW S, NEW q \in Seq(S), q # <<>>
    PROVE  /\ 1 \in DOMAIN q /\ Head(q) = q[1]
           /\ \A i \in DOMAIN Tail(q) : i \in Nat /\ i + 1 \in DOMAIN q /\ Tail(q)[i] = q[i + 1]
           /\ \A i \in DOMAIN q : i = 1 \/ (i - 1 \in DOMAIN Tail(q) /\ i \in Nat)
  OBVIOUS

(* The head takes a packet off its queue. *)
LEMMA ArrivedFlow ==
    ASSUME NEW h, NEW in \in [Fds -> Seq(Packet)], NEW lk, NEW dr, NEW fd \in Fds,
           in[fd] # <<>>, Flow(h, in, lk, dr)
    PROVE  Flow(h, Handled(in, fd), lk, dr)
  <1>1. PICK q, new : q = in[fd] /\ new = Handled(in, fd)
    OBVIOUS
  <1>2. q \in Seq(Packet) /\ q # <<>> /\ new[fd] = Tail(q) /\ \A o \in Fds \ {fd} : new[o] = in[o]
    BY <1>1 DEF Handled
  <1>3. ASSUME NEW o \in Fds, NEW i \in AcksIn(new[o])
        PROVE  \E j \in AcksIn(in[o]) : in[o][j] = new[o][i]
    <2>1. CASE o = fd
      <3>1. i \in DOMAIN Tail(q) /\ Tail(q)[i].type = "ack"
        BY <1>2, <1>3, <2>1 DEF AcksIn
      <3>2. i + 1 \in DOMAIN q /\ Tail(q)[i] = q[i + 1]
        BY <1>2, <3>1, TailElements
      <3>3. i + 1 \in AcksIn(q)
        BY <3>1, <3>2 DEF AcksIn
      <3> QED BY <1>1, <1>2, <2>1, <3>2, <3>3
    <2>2. CASE o # fd
      BY <1>2, <1>3, <2>2
    <2> QED BY <2>1, <2>2
  <1>4. Connected(h, new, lk)
    BY <1>1, <1>2 DEF Flow, Connected
  <1>5. RequestsAscend(h, new)
    <2>1. ASSUME NEW o \in Fds, NEW i \in AcksIn(new[o])
          PROVE  new[o][i].req < h.lcSeq
      <3>1. PICK j \in AcksIn(in[o]) : in[o][j] = new[o][i]
        BY <1>3
      <3> QED BY <3>1 DEF Flow, RequestsAscend
    <2> QED BY <2>1 DEF Flow, RequestsAscend
  <1>6. AcksAreTrue(h, new, lk, dr)
    <2>1. ASSUME NEW o \in Fds, h.state[o] = "DRAINING", NEW i \in AcksIn(new[o]),
                 new[o][i].req = h.drain[o].req
          PROVE  /\ DrainsIn(h.out[o]) = {}
                 /\ \A p \in Ports : lk[p] = o => dr[p] = h.drain[o].req
      <3>1. PICK j \in AcksIn(in[o]) : in[o][j] = new[o][i]
        BY <1>3
      <3> QED BY <2>1, <3>1 DEF Flow, AcksAreTrue
    <2> QED BY <2>1 DEF Flow, AcksAreTrue
  <1> QED BY <1>1, <1>4, <1>5, <1>6 DEF Flow

(* An acknowledgement that zone fd may send. *)
TrueAck(h, lk, dr, fd, req) ==
    /\ req < h.lcSeq
    /\ h.state[fd] = "DRAINING" /\ req = h.drain[fd].req =>
            /\ DrainsIn(h.out[fd]) = {}
            /\ \A p \in Ports : lk[p] = fd => dr[p] = h.drain[fd].req

(* A zone adds a packet; an acknowledgement has to be a true one. *)
LEMMA SentFlow ==
    ASSUME NEW h, NEW in \in [Fds -> Seq(Packet)], NEW lk, NEW dr, NEW fd \in Fds, fd \in h.open,
           NEW m \in Packet, Flow(h, in, lk, dr),
           m.type # "ack" \/ TrueAck(h, lk, dr, fd, m.req)
    PROVE  Flow(h, Sent(in, fd, m), lk, dr)
  <1>1. PICK q, new : q = in[fd] /\ new = Sent(in, fd, m)
    OBVIOUS
  <1>2. q \in Seq(Packet) /\ new[fd] = Append(q, m) /\ \A o \in Fds \ {fd} : new[o] = in[o]
    BY <1>1 DEF Sent
  <1>3. ASSUME NEW o \in Fds, NEW i \in AcksIn(new[o])
        PROVE  \/ \E j \in AcksIn(in[o]) : in[o][j] = new[o][i]
               \/ o = fd /\ m.type = "ack" /\ new[o][i] = m
    <2>1. CASE o = fd
      <3>1. i \in DOMAIN Append(q, m) /\ Append(q, m)[i].type = "ack"
        BY <1>2, <1>3, <2>1 DEF AcksIn
      <3>2. \/ i \in DOMAIN q /\ Append(q, m)[i] = q[i]
            \/ Append(q, m)[i] = m
        BY <1>2, <3>1, AppendElements
      <3>3. CASE i \in DOMAIN q /\ Append(q, m)[i] = q[i]
        BY <1>1, <1>2, <2>1, <3>1, <3>3 DEF AcksIn
      <3>4. CASE Append(q, m)[i] = m
        BY <1>2, <2>1, <3>1, <3>4
      <3> QED BY <3>2, <3>3, <3>4
    <2>2. CASE o # fd
      BY <1>2, <1>3, <2>2
    <2> QED BY <2>1, <2>2
  <1>4. Connected(h, new, lk)
    BY <1>2 DEF Flow, Connected
  <1>5. RequestsAscend(h, new)
    <2>1. ASSUME NEW o \in Fds, NEW i \in AcksIn(new[o])
          PROVE  new[o][i].req < h.lcSeq
      <3>1. CASE \E j \in AcksIn(in[o]) : in[o][j] = new[o][i]
        <4>1. PICK j \in AcksIn(in[o]) : in[o][j] = new[o][i]
          BY <3>1
        <4> QED BY <4>1 DEF Flow, RequestsAscend
      <3>2. CASE o = fd /\ m.type = "ack" /\ new[o][i] = m
        BY <3>2 DEF TrueAck
      <3> QED BY <1>3, <3>1, <3>2
    <2> QED BY <2>1 DEF Flow, RequestsAscend
  <1>6. AcksAreTrue(h, new, lk, dr)
    <2>1. ASSUME NEW o \in Fds, h.state[o] = "DRAINING", NEW i \in AcksIn(new[o]),
                 new[o][i].req = h.drain[o].req
          PROVE  /\ DrainsIn(h.out[o]) = {}
                 /\ \A p \in Ports : lk[p] = o => dr[p] = h.drain[o].req
      <3>1. CASE \E j \in AcksIn(in[o]) : in[o][j] = new[o][i]
        <4>1. PICK j \in AcksIn(in[o]) : in[o][j] = new[o][i]
          BY <3>1
        <4> QED BY <2>1, <4>1 DEF Flow, AcksAreTrue
      <3>2. CASE o = fd /\ m.type = "ack" /\ new[o][i] = m
        BY <2>1, <3>2 DEF TrueAck
      <3> QED BY <1>3, <3>1, <3>2
    <2> QED BY <2>1 DEF Flow, AcksAreTrue
  <1> QED BY <1>1, <1>4, <1>5, <1>6 DEF Flow

(* A zone takes a command off its queue. *)
LEMMA ReadFlow ==
    ASSUME NEW h, Sound(h), NEW in, NEW lk, NEW dr, NEW fd \in Fds, h.out[fd] # <<>>,
           Flow(h, in, lk, dr)
    PROVE  LET g == Unread(h, fd)
           IN  /\ Flow(g, in, lk, dr)
               /\ g.zones = h.zones /\ g.open = h.open /\ g.lcSeq = h.lcSeq /\ g.state = h.state
               /\ g.drain = h.drain /\ g.out[fd] = Tail(h.out[fd])
  <1> PICK g : g = Unread(h, fd)
    OBVIOUS
  <1>1. PICK q : q = h.out[fd]
    OBVIOUS
  <1>2. h \in Orchestrators /\ h.out \in [Fds -> Seq(Message)] /\ q \in Seq(Message) /\ q # <<>>
    BY <1>1 DEF Sound, Orchestrators
  <1>3. PICK t : t = Tail(q)
    OBVIOUS
  <1>4. /\ g.zones = h.zones /\ g.open = h.open /\ g.lcSeq = h.lcSeq /\ g.state = h.state
        /\ g.drain = h.drain /\ g.out = [h.out EXCEPT ![fd] = t]
    BY <1>1, <1>2, <1>3 DEF Unread, Orchestrators
  <1>5. g.out[fd] = t /\ \A o \in Fds \ {fd} : g.out[o] = h.out[o]
    BY <1>2, <1>4
  <1>6. ASSUME NEW i \in DrainsIn(t)
        PROVE  i \in Nat /\ i + 1 \in DrainsIn(q) /\ t[i] = q[i + 1]
    <2>1. i \in DOMAIN t /\ t[i].type = "drain"
      BY DEF DrainsIn
    <2>2. i \in Nat /\ i + 1 \in DOMAIN q /\ t[i] = q[i + 1]
      BY <1>2, <1>3, <2>1, TailElements
    <2> QED BY <2>1, <2>2 DEF DrainsIn
  <1>7. Connected(g, in, lk)
    BY <1>4 DEF Flow, Connected
  <1>8. ASSUME NEW i \in DrainsIn(t), NEW j \in DrainsIn(t), i < j
        PROVE  t[i].req < t[j].req
    <2>1. i + 1 < j + 1
      BY <1>6, <1>8
    <2>2. q[i + 1].req < q[j + 1].req
      BY <1>1, <1>6, <2>1 DEF Flow, RequestsAscend
    <2> QED BY <1>6, <2>2
  <1>9. RequestsAscend(g, in)
    <2>1. \A i \in DrainsIn(t) : t[i].req < g.lcSeq
      BY <1>1, <1>4, <1>6 DEF Flow, RequestsAscend
    <2>2. ASSUME NEW o \in Fds
          PROVE  /\ \A i \in DrainsIn(g.out[o]) : g.out[o][i].req < g.lcSeq
                 /\ \A i, j \in DrainsIn(g.out[o]) : i < j => g.out[o][i].req < g.out[o][j].req
      <3>1. CASE o = fd
        BY <1>5, <1>8, <2>1, <3>1
      <3>2. CASE o # fd
        BY <1>4, <1>5, <3>2 DEF Flow, RequestsAscend
      <3> QED BY <3>1, <3>2
    <2> QED BY <1>4, <2>2 DEF Flow, RequestsAscend
  <1>10. AcksAreTrue(g, in, lk, dr)
    <2>1. h.state[fd] = "DRAINING" => \A i \in DrainsIn(t) : t[i].req <= h.drain[fd].req
      BY <1>1, <1>6 DEF Flow, AcksAreTrue
    <2>2. DrainsIn(h.out[fd]) = {} => DrainsIn(t) = {}
      BY <1>1, <1>6
    <2>3. ASSUME NEW o \in Fds, g.state[o] = "DRAINING"
          PROVE  /\ \A i \in DrainsIn(g.out[o]) : g.out[o][i].req <= g.drain[o].req
                 /\ \A i \in AcksIn(in[o]) : in[o][i].req = g.drain[o].req =>
                        /\ DrainsIn(g.out[o]) = {}
                        /\ \A p \in Ports : lk[p] = o => dr[p] = g.drain[o].req
      <3> h.state[o] = "DRAINING" /\ g.drain[o] = h.drain[o]
        BY <1>4, <2>3
      <3>1. CASE o = fd
        <4>1. \A i \in DrainsIn(g.out[o]) : g.out[o][i].req <= g.drain[o].req
          BY <1>5, <2>1, <3>1
        <4>2. ASSUME NEW i \in AcksIn(in[o]), in[o][i].req = h.drain[o].req
              PROVE  /\ DrainsIn(h.out[o]) = {}
                     /\ \A p \in Ports : lk[p] = o => dr[p] = h.drain[o].req
          BY <4>2 DEF Flow, AcksAreTrue
        <4>3. DrainsIn(h.out[o]) = {} => DrainsIn(g.out[o]) = {}
          BY <1>5, <2>2, <3>1
        <4> QED BY <4>1, <4>2, <4>3
      <3>2. CASE o # fd
        <4>1. g.out[o] = h.out[o]
          BY <1>5, <3>2
        <4>2. /\ \A i \in DrainsIn(h.out[o]) : h.out[o][i].req <= h.drain[o].req
              /\ \A i \in AcksIn(in[o]) : in[o][i].req = h.drain[o].req =>
                    /\ DrainsIn(h.out[o]) = {}
                    /\ \A p \in Ports : lk[p] = o => dr[p] = h.drain[o].req
          BY DEF Flow, AcksAreTrue
        <4> QED BY <4>1, <4>2
      <3> QED BY <3>1, <3>2
    <2> QED BY <2>3 DEF AcksAreTrue
  <1>11. NumbersAreOwn(g)
    <2>1. ASSUME NEW f \in Fds, NEW o \in Fds, g.state[o] = "DRAINING",
                 NEW i \in DrainsIn(g.out[f]), g.out[f][i].req = g.drain[o].req
          PROVE  f = o
      <3>1. \E j \in DrainsIn(h.out[f]) : h.out[f][j] = g.out[f][i]
        BY <1>1, <1>5, <1>6
      <3> QED BY <1>4, <2>1, <3>1 DEF Flow, NumbersAreOwn
    <2> QED BY <2>1 DEF NumbersAreOwn
  <1> QED BY <1>1, <1>3, <1>4, <1>5, <1>7, <1>9, <1>10, <1>11 DEF Flow

(* A zone's connection is gone, and perhaps its memory. *)
LEMMA UnlinkedFlow ==
    ASSUME NEW h, NEW in, NEW lk \in [Ports -> Fds \cup {NoFd}], NEW dr, NEW p \in Ports,
           NEW new, new = [lk EXCEPT ![p] = NoFd],
           NEW drained, \A q \in Ports \ {p} : drained[q] = dr[q], Flow(h, in, lk, dr)
    PROVE  Flow(h, in, new, drained)
  <1>1. new[p] = NoFd /\ \A q \in Ports \ {p} : new[q] = lk[q]
    OBVIOUS
  <1>2. NoFd \notin Fds
    BY FdsAssumption DEF NoFd
  <1>3. Connected(h, in, new)
    BY <1>1 DEF Flow, Connected
  <1>4. AcksAreTrue(h, in, new, drained)
    BY <1>1, <1>2 DEF Flow, AcksAreTrue
  <1> QED BY <1>3, <1>4 DEF Flow

(* Packets that are lost with a connection leave the rest in order. *)
LEMMA CutFlow ==
    ASSUME NEW h, NEW in \in [Fds -> Seq(Packet)], NEW new \in [Fds -> Seq(Packet)],
           NEW lk, NEW dr, Flow(h, in, lk, dr),
           \A fd \in Fds : /\ DOMAIN new[fd] \subseteq DOMAIN in[fd]
                           /\ \A i \in DOMAIN new[fd] : new[fd][i] = in[fd][i]
    PROVE  Flow(h, new, lk, dr)
  <1>1. \A fd \in Fds : \A i \in AcksIn(new[fd]) : i \in AcksIn(in[fd]) /\ new[fd][i] = in[fd][i]
    BY DEF AcksIn
  <1>2. \A fd \in Fds : in[fd] = <<>> => new[fd] = <<>>
    OBVIOUS
  <1>3. Connected(h, new, lk)
    BY <1>2 DEF Flow, Connected
  <1>4. RequestsAscend(h, new)
    BY <1>1 DEF Flow, RequestsAscend
  <1>5. AcksAreTrue(h, new, lk, dr)
    BY <1>1 DEF Flow, AcksAreTrue
  <1> QED BY <1>3, <1>4, <1>5 DEF Flow

(* A connection is accepted: nothing is on it. *)
LEMMA AcceptedFlow ==
    ASSUME NEW h, Sound(h), NEW in, NEW lk \in [Ports -> Fds \cup {NoFd}], NEW dr, NEW p \in Ports,
           NEW fd \in Fds, fd \notin h.open,
           NEW new, new = [lk EXCEPT ![p] = fd], lk[p] = NoFd, Flow(h, in, lk, dr)
    PROVE  Flow(AcceptConnection(h, fd), in, new, dr)
  <1>1. PICK g : g = AcceptConnection(h, fd)
    OBVIOUS
  <1>2. h \in Orchestrators /\ h.out \in [Fds -> Seq(Message)]
    BY DEF Sound, Orchestrators
  <1>3. /\ g.open = h.open \cup {fd} /\ g.lcSeq = h.lcSeq /\ g.state = h.state
        /\ g.drain = h.drain /\ g.out = [h.out EXCEPT ![fd] = <<>>]
    BY <1>1, <1>2 DEF AcceptConnection, Orchestrators
  <1>4. g.out[fd] = <<>> /\ \A o \in Fds \ {fd} : g.out[o] = h.out[o]
    BY <1>2, <1>3
  <1>5. DrainsIn(<<>>) = {} /\ AcksIn(<<>>) = {} /\ in[fd] = <<>>
    BY DEF DrainsIn, AcksIn, Flow, Connected
  <1>6. new[p] = fd /\ \A q \in Ports \ {p} : new[q] = lk[q] /\ lk[q] # fd
    BY FdsAssumption DEF Flow, Connected, NoFd
  <1>7. Connected(g, in, new)
    BY <1>3, <1>6 DEF Flow, Connected
  <1>8. RequestsAscend(g, in)
    BY <1>3, <1>4, <1>5 DEF Flow, RequestsAscend
  <1>9. AcksAreTrue(g, in, new, dr)
    <2>1. ASSUME NEW o \in Fds, g.state[o] = "DRAINING"
          PROVE  /\ \A i \in DrainsIn(g.out[o]) : g.out[o][i].req <= g.drain[o].req
                 /\ \A i \in AcksIn(in[o]) : in[o][i].req = g.drain[o].req =>
                        /\ DrainsIn(g.out[o]) = {}
                        /\ \A q \in Ports : new[q] = o => dr[q] = g.drain[o].req
      <3>1. CASE o = fd
        BY <1>4, <1>5, <3>1
      <3>2. CASE o # fd
        <4>1. h.state[o] = "DRAINING" /\ g.drain[o] = h.drain[o] /\ g.out[o] = h.out[o]
          BY <1>3, <1>4, <2>1, <3>2
        <4>2. \A q \in Ports : new[q] = o => lk[q] = o
          BY <1>6, <3>2
        <4>3. /\ \A i \in DrainsIn(h.out[o]) : h.out[o][i].req <= h.drain[o].req
              /\ \A i \in AcksIn(in[o]) : in[o][i].req = h.drain[o].req =>
                    /\ DrainsIn(h.out[o]) = {}
                    /\ \A q \in Ports : lk[q] = o => dr[q] = h.drain[o].req
          BY <4>1 DEF Flow, AcksAreTrue
        <4> QED BY <4>1, <4>2, <4>3
      <3> QED BY <3>1, <3>2
    <2> QED BY <2>1 DEF AcksAreTrue
  <1>10. NumbersAreOwn(g)
    BY <1>3, <1>4, <1>5 DEF Flow, NumbersAreOwn
  <1> QED BY <1>1, <1>7, <1>8, <1>9, <1>10 DEF Flow

(* A connection whose peer is gone is closed once it has been read. *)
LEMMA ClosedFlow ==
    ASSUME NEW h, Sound(h), NEW in, NEW lk, NEW dr, NEW fd \in Fds,
           in[fd] = <<>>, \A p \in Ports : lk[p] # fd, Flow(h, in, lk, dr)
    PROVE  Flow(CloseConnection(h, fd), in, lk, dr)
  <1>1. PICK g : g = CloseConnection(h, fd)
    OBVIOUS
  <1>2. h \in Orchestrators /\ h.out \in [Fds -> Seq(Message)]
    BY DEF Sound, Orchestrators
  <1>3. /\ g.open = h.open \ {fd} /\ g.lcSeq = h.lcSeq /\ g.state = h.state
        /\ g.drain = h.drain /\ g.out = [h.out EXCEPT ![fd] = <<>>]
    BY <1>1, <1>2 DEF CloseConnection, Orchestrators
  <1>4. g.out[fd] = <<>> /\ \A o \in Fds \ {fd} : g.out[o] = h.out[o]
    BY <1>2, <1>3
  <1>5. DrainsIn(<<>>) = {} /\ AcksIn(<<>>) = {}
    BY DEF DrainsIn, AcksIn
  <1>6. Connected(g, in, lk)
    BY <1>3 DEF Flow, Connected
  <1>7. RequestsAscend(g, in)
    BY <1>3, <1>4, <1>5 DEF Flow, RequestsAscend
  <1>8. AcksAreTrue(g, in, lk, dr)
    BY <1>3, <1>4, <1>5 DEF Flow, AcksAreTrue
  <1>9. NumbersAreOwn(g)
    BY <1>3, <1>4, <1>5 DEF Flow, NumbersAreOwn
  <1> QED BY <1>1, <1>6, <1>7, <1>8, <1>9 DEF Flow

-----------------------------------------------------------------------------
(* The steps of the cluster *)

(* What a step does for the zones in service: none of them but one that    *)
(* has handed over its entities is destroyed, the minimum serves, and a    *)
(* drain that starts has a new number.                                     *)
Serves ==
    /\ NoNumberAgain(orch, orch')
    /\ \A fd \in Fds : orch.state[fd] # "DESTROYED" /\ orch'.state[fd] = "DESTROYED" =>
            \A p \in Linked(fd) : draining[p] = orch.drain[fd].req
    /\ \/ Routable(orch) \subseteq Routable(orch')
       \/ routableZoneCount(orch') >= MinReplicas
       \/ \E fd \in Fds : orch.state[fd] # "DEAD" /\ orch'.state[fd] = "DEAD"

(* A method that destroys nobody and keeps the minimum. *)
LEMMA FlooredServes ==
    ASSUME Floored(orch, orch')
    PROVE  Serves
  BY DEF Floored, Serves

(* A step that leaves the registry alone. *)
LEMMA SameServes ==
    ASSUME orch'.zones = orch.zones, orch'.state = orch.state, orch'.lcSeq = orch.lcSeq,
           \A fd \in Fds : orch'.drain[fd].req = orch.drain[fd].req
    PROVE  Serves
  <1>1. Listed(orch') = Listed(orch)
    BY DEF Listed
  <1>2. NoNumberAgain(orch, orch')
    BY DEF NoNumberAgain
  <1> QED BY <1>1, <1>2 DEF Serves, Routable, isRoutable

(* The head handles an acknowledgement: it destroys the zone only if the   *)
(* acknowledgement is true.                                                *)
LEMMA HeadDrainAckFlow ==
    ASSUME IInv, FlowInv, NEW fd \in Fds, HeadDrainAck(fd)
    PROVE  FlowInv' /\ Serves
  <1>1. Sound(orch) /\ TypeOK
    BY IInvParts
  <1>2. Arrives(fd, "ack") /\ link' = link /\ draining' = draining
    BY DEF HeadDrainAck
  <1>3. PICK q : q = inbox[fd]
    OBVIOUS
  <1>4. q \in Seq(Packet) /\ q # <<>> /\ Head(q).type = "ack" /\ inbox' = [inbox EXCEPT ![fd] = Tail(@)]
    BY <1>1, <1>2, <1>3 DEF Arrives, TypeOK
  <1>5. PICK r : r = Head(q).req
    OBVIOUS
  <1>6. r \in Nat /\ orch' = handleZoneLifecycle(orch, fd, r)
    BY <1>1, <1>2, <1>3, <1>5, ArrivesType DEF HeadDrainAck
  <1>7. Flow(orch, inbox', link, draining)
    <2>1. inbox' = Handled(inbox, fd) /\ inbox \in [Fds -> Seq(Packet)] /\ inbox[fd] # <<>>
      BY <1>1, <1>3, <1>4 DEF Handled, TypeOK
    <2>2. Flow(orch, Handled(inbox, fd), link, draining)
      BY <2>1, ArrivedFlow DEF FlowInv
    <2> QED BY <2>1, <2>2
  <1>8. CASE orch' = orch
    <2>1. Serves
      BY <1>8, SameServes
    <2> QED BY <1>2, <1>7, <1>8, <2>1 DEF FlowInv
  <1>9. CASE /\ orch.state[fd] = "DRAINING" /\ orch.drain[fd].req = r
             /\ Ends(orch, orch', fd, "DESTROYED")
    <2>1. Flow(orch', inbox', link, draining)
      BY <1>7, <1>9, EndsFlow
    <2>2. 1 \in AcksIn(q) /\ q[1].req = r
      BY <1>4, <1>5, TailElements DEF AcksIn
    <2>3. \A p \in Ports : link[p] = fd => draining[p] = orch.drain[fd].req
      BY <1>3, <1>9, <2>2 DEF FlowInv, Flow, AcksAreTrue
    <2>4. \A o \in Fds \ {fd} : orch'.state[o] = orch.state[o]
      BY <1>9 DEF Ends
    <2>5. Routable(orch) \subseteq Routable(orch')
      <3>1. Listed(orch) \subseteq Fds
        BY <1>1, EntryOf DEF Sound
      <3>2. Listed(orch) \ {fd} \subseteq Listed(orch')
        BY <1>9 DEF Ends
      <3> QED BY <1>9, <2>4, <3>1, <3>2 DEF Routable, isRoutable
    <2>6. Serves
      BY <1>9, <2>3, <2>4, <2>5, EndsNoNumber DEF Serves, Linked
    <2> QED BY <1>2, <2>1, <2>6 DEF FlowInv
  <1> QED BY <1>1, <1>6, <1>8, <1>9, handleZoneLifecycleEnds

(* The head handles any packet, or finds a peer gone. *)
LEMMA HeadStepFlow ==
    ASSUME IInv, FlowInv, NEW fd \in Fds, HeadStep(fd)
    PROVE  FlowInv' /\ Serves
  <1>1. Sound(orch) /\ TypeOK
    BY IInvParts
  <1>2. link' = link /\ draining' = draining
    BY DEF HeadStep, HeadMetrics, HeadValidatorStatus, HeadDrainAck, HeadPeerGone
  <1>3. ASSUME NEW type, Arrives(fd, type)
        PROVE  Flow(orch, inbox', link, draining) /\ inbox' \in [Fds -> Seq(Packet)]
    <2>1. inbox[fd] # <<>> /\ inbox' = Handled(inbox, fd) /\ inbox \in [Fds -> Seq(Packet)]
      BY <1>1, <1>3 DEF Arrives, Handled, TypeOK
    <2>2. Flow(orch, Handled(inbox, fd), link, draining)
      BY <2>1, ArrivedFlow DEF FlowInv
    <2> QED BY <1>1, <1>3, <2>1, <2>2, ArrivesType
  <1>4. CASE HeadMetrics(fd)
    <2>1. PICK m \in Samples, restarted \in BOOLEAN, sweepDue \in BOOLEAN :
            orch' \in evaluateServer(
                    updateNodeTopology(orch, fd, Head(inbox[fd]).port, Head(inbox[fd]).box),
                    fd, m, restarted, sweepDue)
      BY <1>4 DEF HeadMetrics
    <2>2. Arrives(fd, "metrics") /\ m \in Sample
      BY <1>4, SamplesAssumption DEF HeadMetrics
    <2>3. PICK k : k = updateNodeTopology(orch, fd, Head(inbox[fd]).port, Head(inbox[fd]).box)
      OBVIOUS
    <2>4. Head(inbox[fd]).port \in Ports /\ Head(inbox[fd]).box \in Box
      BY <1>1, <2>2, ArrivesType
    <2>5. Sound(k) /\ Quiet(orch, k)
      BY <1>1, <2>3, <2>4, updateNodeTopologySound, updateNodeTopologyQuiet
    <2>6. Flow(k, inbox', link, draining)
      BY <1>3, <2>2, <2>5, QuietFlow
    <2>7. orch' \in evaluateServer(k, fd, m, restarted, sweepDue)
      BY <2>1, <2>3
    <2>8. Flow(orch', inbox', link, draining) /\ Floored(k, orch')
      BY <1>3, <2>2, <2>5, <2>6, <2>7, evaluateServerFlow
    <2>9. Floored(orch, orch')
      BY <2>5, <2>8, QuietStill, StillFloored
    <2> QED BY <1>2, <2>8, <2>9, FlooredServes DEF FlowInv
  <1>5. CASE HeadValidatorStatus(fd)
    <2>1. Arrives(fd, "status") /\ orch' \in notifyValidatorDown(orch, fd)
      BY <1>5 DEF HeadValidatorStatus
    <2>2. Flow(orch', inbox', link, draining) /\ Floored(orch, orch')
      BY <1>1, <1>3, <2>1, notifyValidatorDownFlow
    <2> QED BY <1>2, <2>2, FlooredServes DEF FlowInv
  <1>6. CASE HeadDrainAck(fd)
    BY <1>6, HeadDrainAckFlow
  <1>7. CASE HeadPeerGone(fd)
    <2>1. /\ inbox[fd] = <<>> /\ inbox' = inbox /\ orch' = CloseConnection(orch, fd)
          /\ \A p \in Ports : link[p] # fd
      BY <1>7 DEF HeadPeerGone, Linked
    <2>2. Flow(orch', inbox, link, draining)
      BY <1>1, <2>1, ClosedFlow DEF FlowInv
    <2>3. /\ orch'.zones = orch.zones /\ orch'.state = orch.state
          /\ orch'.lcSeq = orch.lcSeq /\ orch'.drain = orch.drain
      BY <1>1, <2>1 DEF CloseConnection, Sound, Orchestrators
    <2> QED BY <1>2, <2>1, <2>2, <2>3, SameServes DEF FlowInv
  <1> QED BY <1>4, <1>5, <1>6, <1>7 DEF HeadStep

(* A timer of the head runs out. *)
LEMMA TimeStepFlow ==
    ASSUME IInv, FlowInv, NEW fd \in Fds, TimeStep(fd)
    PROVE  FlowInv' /\ Serves
  <1>1. orch \in Orchestrators
    BY IInvParts DEF Sound
  <1>2. inbox' = inbox /\ link' = link /\ draining' = draining
    BY DEF TimeStep, SettleEnds, MergeWindowEnds, LowLoadPersists, CooldownEnds,
           DrainIsLate, LeaseExpires
  <1>3. PICK g : g = orch'
    OBVIOUS
  <1>4. /\ g.zones = orch.zones /\ g.open = orch.open /\ g.lcSeq = orch.lcSeq
        /\ g.state = orch.state /\ g.out = orch.out
        /\ \A o \in Fds : g.drain[o].req = orch.drain[o].req
    <2>1. CASE SettleEnds(fd)
      BY <1>1, <1>3, <2>1 DEF SettleEnds, Orchestrators
    <2>2. CASE MergeWindowEnds(fd)
      BY <1>1, <1>3, <2>2 DEF MergeWindowEnds, Orchestrators
    <2>3. CASE LowLoadPersists(fd)
      BY <1>1, <1>3, <2>3 DEF LowLoadPersists, Orchestrators
    <2>4. CASE CooldownEnds(fd)
      BY <1>1, <1>3, <2>4 DEF CooldownEnds, Orchestrators
    <2>5. CASE LeaseExpires(fd)
      BY <1>1, <1>3, <2>5 DEF LeaseExpires, Orchestrators
    <2>6. CASE DrainIsLate(fd)
      <3>1. orch.drain \in [Fds -> Drain]
        BY <1>1 DEF Orchestrators
      <3>2. PICK d : d = [orch.drain[fd] EXCEPT !.late = TRUE]
        OBVIOUS
      <3>3. d.req = orch.drain[fd].req
        BY <3>1, <3>2 DEF Drain
      <3>4. g = [orch EXCEPT !.drain[fd] = d]
        BY <1>1, <1>3, <2>6, <3>2 DEF DrainIsLate, Orchestrators
      <3>5. /\ g.zones = orch.zones /\ g.open = orch.open /\ g.lcSeq = orch.lcSeq
            /\ g.state = orch.state /\ g.out = orch.out
            /\ g.drain = [orch.drain EXCEPT ![fd] = d]
        BY <1>1, <3>4 DEF Orchestrators
      <3>6. \A o \in Fds : g.drain[o].req = orch.drain[o].req
        BY <3>1, <3>3, <3>5
      <3> QED BY <3>5, <3>6
    <2> QED BY <2>1, <2>2, <2>3, <2>4, <2>5, <2>6 DEF TimeStep
  <1>5. Quiet(orch, g)
    BY <1>4 DEF Quiet, Listed, SameDrains
  <1>6. Flow(g, inbox, link, draining)
    BY <1>5, QuietFlow DEF FlowInv
  <1> QED BY <1>2, <1>3, <1>4, <1>6, SameServes DEF FlowInv

(* A client asks for a chunk. *)
LEMMA ClientQueryFlow ==
    ASSUME IInv, FlowInv, NEW c \in Asked, ClientQuery(c)
    PROVE  FlowInv' /\ Serves
  <1>1. Sound(orch) /\ c \in Chunk
    BY IInvParts, AskedAssumption
  <1>2. inbox' = inbox /\ link' = link /\ draining' = draining /\ orch' = HandleZoneQuery(orch, c)
    BY DEF ClientQuery
  <1>3. Quiet(orch, orch')
    BY <1>1, <1>2, HandleZoneQueryQuiet
  <1>4. Flow(orch', inbox, link, draining)
    BY <1>3, QuietFlow DEF FlowInv
  <1>5. Floored(orch, orch')
    BY <1>3, QuietStill DEF Still, Floored
  <1> QED BY <1>2, <1>4, <1>5, FlooredServes DEF FlowInv

(* A zone reads a command. *)
LEMMA ReadsFlow ==
    ASSUME IInv, FlowInv, NEW p \in Ports, NEW type, Reads(p, type)
    PROVE  /\ Flow(orch', inbox, link, draining) /\ Serves
           /\ orch'.open = orch.open /\ orch'.lcSeq = orch.lcSeq /\ orch'.state = orch.state
           /\ orch'.drain = orch.drain /\ orch'.out[link[p]] = Tail(orch.out[link[p]])
  <1>1. Sound(orch) /\ link[p] \in Fds
    BY IInvParts, ReadsType
  <1>2. orch.out[link[p]] # <<>> /\ orch' = [orch EXCEPT !.out[link[p]] = Tail(@)]
    BY DEF Reads
  <1>3. /\ Flow(orch', inbox, link, draining) /\ orch'.zones = orch.zones
        /\ orch'.open = orch.open /\ orch'.lcSeq = orch.lcSeq /\ orch'.state = orch.state
        /\ orch'.drain = orch.drain /\ orch'.out[link[p]] = Tail(orch.out[link[p]])
    <2>1. PICK fd : fd = link[p]
      OBVIOUS
    <2>2. fd \in Fds /\ orch.out[fd] # <<>> /\ Sound(orch) /\ Flow(orch, inbox, link, draining)
      BY <1>1, <1>2, <2>1 DEF FlowInv
    <2>3. orch' = Unread(orch, fd)
      BY <1>2, <2>1 DEF Unread
    <2>4. LET g == Unread(orch, fd)
          IN  /\ Flow(g, inbox, link, draining)
              /\ g.zones = orch.zones /\ g.open = orch.open /\ g.lcSeq = orch.lcSeq
              /\ g.state = orch.state
              /\ g.drain = orch.drain /\ g.out[fd] = Tail(orch.out[fd])
      BY <2>2, ReadFlow
    <2> QED BY <2>1, <2>3, <2>4
  <1> QED BY <1>3, SameServes

(* A zone obeys a drain: the acknowledgement it sends is a true one.  The  *)
(* drains behind the one it obeys have higher numbers, so none is left     *)
(* when the one that is running is acknowledged.                           *)
LEMMA ZoneDrainFlow ==
    ASSUME IInv, FlowInv, NEW p \in Ports, ZoneDrain(p)
    PROVE  FlowInv' /\ Serves
  <1>1. Sound(orch) /\ TypeOK /\ Reads(p, "drain") /\ link' = link /\ link[p] # NoFd
    BY IInvParts DEF ZoneDrain, Reads
  <1>2. PICK fd : fd = link[p]
    OBVIOUS
  <1>3. PICK q : q = orch.out[fd]
    OBVIOUS
  <1>4. fd \in Fds /\ q \in Seq(Message) /\ q # <<>> /\ Head(q).type = "drain"
    BY <1>1, <1>2, <1>3 DEF TypeOK, Reads, Sound, Orchestrators
  <1>5. PICK r : r = Head(q).req
    OBVIOUS
  <1>6. r \in Nat
    BY <1>1, <1>2, <1>3, <1>5, ReadsType
  <1>7. /\ Flow(orch', inbox, link, draining) /\ Serves
        /\ orch'.open = orch.open /\ orch'.lcSeq = orch.lcSeq /\ orch'.state = orch.state
        /\ orch'.drain = orch.drain /\ orch'.out[fd] = Tail(q)
    BY <1>1, <1>2, <1>3, ReadsFlow
  <1>8. 1 \in DrainsIn(q) /\ q[1].req = r
    BY <1>4, <1>5, TailElements DEF DrainsIn
  <1>9. /\ \A i \in DrainsIn(q) : q[i].req < orch.lcSeq
        /\ \A i, j \in DrainsIn(q) : i < j => q[i].req < q[j].req
        /\ orch.state[fd] = "DRAINING" => \A i \in DrainsIn(q) : q[i].req <= orch.drain[fd].req
    BY <1>3, <1>4 DEF FlowInv, Flow, RequestsAscend, AcksAreTrue
  <1>10. fd \in orch.open /\ \A o \in Ports : link[o] = fd => o = p
    BY <1>1, <1>2 DEF FlowInv, Flow, Connected
  <1>11. draining' = [draining EXCEPT ![p] = r] /\ draining \in [Ports -> Nat]
    BY <1>1, <1>2, <1>3, <1>5 DEF ZoneDrain, TypeOK
  <1>12. draining'[p] = r /\ \A o \in Ports \ {p} : draining'[o] = draining[o]
    BY <1>11
  <1>13. Flow(orch', inbox, link, draining')
    <2>1. ASSUME NEW o \in Fds, orch'.state[o] = "DRAINING", NEW i \in AcksIn(inbox[o]),
                 inbox[o][i].req = orch'.drain[o].req
          PROVE  /\ DrainsIn(orch'.out[o]) = {}
                 /\ \A z \in Ports : link[z] = o => draining'[z] = orch'.drain[o].req
      <3>1. o # fd
        <4>1. orch.state[o] = "DRAINING" /\ inbox[o][i].req = orch.drain[o].req
          BY <1>7, <2>1
        <4>2. DrainsIn(orch.out[o]) = {}
          BY <4>1 DEF FlowInv, Flow, AcksAreTrue
        <4> QED BY <1>3, <1>8, <4>2
      <3>2. /\ DrainsIn(orch'.out[o]) = {}
            /\ \A z \in Ports : link[z] = o => draining[z] = orch'.drain[o].req
        BY <1>7, <2>1 DEF Flow, AcksAreTrue
      <3>3. \A z \in Ports : link[z] = o => z # p
        BY <1>2, <3>1
      <3> QED BY <1>12, <3>2, <3>3
    <2>2. AcksAreTrue(orch', inbox, link, draining')
      BY <1>7, <2>1 DEF Flow, AcksAreTrue
    <2> QED BY <1>7, <2>2 DEF Flow
  <1>14. PICK m : m = [type |-> "ack", req |-> r]
    OBVIOUS
  <1>15. m \in Packet /\ m.type = "ack" /\ m.req = r
    BY <1>6, <1>14 DEF Packet
  <1>16. inbox' = Sent(inbox, fd, m) /\ inbox \in [Fds -> Seq(Packet)]
    BY <1>1, <1>2, <1>3, <1>5, <1>14 DEF ZoneDrain, Sends, Sent, TypeOK
  <1>17. m.req < orch'.lcSeq
    BY <1>7, <1>8, <1>9, <1>15
  <1>18. ASSUME orch'.state[fd] = "DRAINING", m.req = orch'.drain[fd].req
         PROVE  /\ DrainsIn(orch'.out[fd]) = {}
                /\ \A z \in Ports : link[z] = fd => draining'[z] = orch'.drain[fd].req
    <2>1. orch.state[fd] = "DRAINING" /\ orch.drain[fd].req = r
      BY <1>7, <1>15, <1>18
    <2>2. ASSUME NEW i \in DrainsIn(Tail(q))
          PROVE  FALSE
      <3>1. i \in DOMAIN Tail(q) /\ Tail(q)[i].type = "drain"
        BY DEF DrainsIn
      <3>2. i \in Nat /\ i \in DOMAIN Tail(q) /\ i + 1 \in DOMAIN q /\ Tail(q)[i] = q[i + 1]
        BY <1>4, <3>1, TailElements
      <3>3. i \in Nat \ {0}
        <4>1. Tail(q) \in Seq(Message)
          BY <1>4
        <4> QED BY <3>2, <4>1
      <3>4. i + 1 \in DrainsIn(q) /\ 1 < i + 1
        BY <3>1, <3>2, <3>3 DEF DrainsIn
      <3>5. q[i + 1] \in Message /\ q[i + 1].type = "drain"
        BY <1>4, <3>1, <3>2
      <3>6. q[i + 1].req \in Nat
        BY <3>5 DEF Message
      <3>7. r < q[i + 1].req /\ q[i + 1].req <= r
        BY <1>8, <1>9, <2>1, <3>4
      <3> QED BY <1>6, <3>6, <3>7
    <2>3. DrainsIn(orch'.out[fd]) = {}
      BY <1>7, <2>2
    <2> QED BY <1>7, <1>10, <1>12, <2>1, <2>3
  <1>19. fd \in orch'.open
    BY <1>7, <1>10
  <1>20. TrueAck(orch', link, draining', fd, m.req)
    BY <1>17, <1>18 DEF TrueAck
  <1>21. Flow(orch', inbox', link, draining')
    <2>1. PICK g, dr : g = orch' /\ dr = draining'
      OBVIOUS
    <2>2. fd \in g.open /\ Flow(g, inbox, link, dr) /\ TrueAck(g, link, dr, fd, m.req)
      BY <1>13, <1>19, <1>20, <2>1
    <2>3. Flow(g, Sent(inbox, fd, m), link, dr)
      BY <1>4, <1>15, <1>16, <2>2, SentFlow
    <2> QED BY <1>16, <2>1, <2>3
  <1> QED BY <1>1, <1>7, <1>21 DEF FlowInv

(* The connection of a zone ends, and perhaps the zone with it. *)
LEMMA DisconnectsFlow ==
    ASSUME IInv, NEW p \in Ports, Disconnects(p), Flow(orch', inbox, link, draining),
           \A q \in Ports \ {p} : draining'[q] = draining[q]
    PROVE  FlowInv'
  <1>1. link \in [Ports -> Fds \cup {NoFd}] /\ inbox \in [Fds -> Seq(Packet)]
    BY DEF IInv, TypeOK
  <1>2. link' = [link EXCEPT ![p] = NoFd]
    BY DEF Disconnects
  <1>3. Flow(orch', inbox, link', draining')
    <2>1. PICK g, dr : g = orch' /\ dr = draining'
      OBVIOUS
    <2>2. Flow(g, inbox, link', dr)
      BY <1>1, <1>2, <2>1, UnlinkedFlow
    <2> QED BY <2>1, <2>2
  <1>4. Flow(orch', inbox', link', draining')
    <2>1. PICK g, new, lk, dr : g = orch' /\ new = inbox' /\ lk = link' /\ dr = draining'
      OBVIOUS
    <2>2. /\ new \in [Fds -> Seq(Packet)]
          /\ \A fd \in Fds : /\ DOMAIN new[fd] \subseteq DOMAIN inbox[fd]
                             /\ \A i \in DOMAIN new[fd] : new[fd][i] = inbox[fd][i]
      BY <1>1, <2>1, CutOffType
    <2>3. Flow(g, inbox, lk, dr)
      BY <1>3, <2>1
    <2>4. Flow(g, new, lk, dr)
      BY <1>1, <2>2, <2>3, CutFlow
    <2> QED BY <2>1, <2>4
  <1> QED BY <1>4 DEF FlowInv

(* The zone is gone, with its connection. *)
LEMMA ExitsFlow ==
    ASSUME IInv, NEW p \in Ports, Exits(p), Flow(orch', inbox, link, draining)
    PROVE  FlowInv'
  <1>1. draining \in [Ports -> Nat] /\ draining' = [draining EXCEPT ![p] = 0] /\ Disconnects(p)
    BY DEF IInv, TypeOK, Exits
  <1>2. \A q \in Ports \ {p} : draining'[q] = draining[q]
    BY <1>1
  <1> QED BY <1>1, <1>2, DisconnectsFlow

(* A step of a zone, its start and its end included. *)
LEMMA ZoneStepFlow ==
    ASSUME IInv, FlowInv, NEW p \in Ports, ZoneStep(p)
    PROVE  FlowInv' /\ Serves
  <1>1. Sound(orch) /\ TypeOK /\ RunningZones
    BY IInvParts
  <1>2. ASSUME orch' = orch PROVE Serves
    BY <1>2, SameServes
  <1>3. CASE ZoneBoot(p)
    BY <1>2, <1>3 DEF ZoneBoot, FlowInv
  <1>4. CASE ZoneConnect(p)
    <2>1. PICK fd \in Fds \ orch.open :
            link' = [link EXCEPT ![p] = fd] /\ orch' = AcceptConnection(orch, fd)
      BY <1>4 DEF ZoneConnect
    <2>2. link[p] = NoFd /\ inbox' = inbox /\ draining' = draining
      BY <1>4 DEF ZoneConnect
    <2>3. Flow(orch', inbox, link', draining)
      BY <1>1, <2>1, <2>2, AcceptedFlow DEF FlowInv, TypeOK
    <2>4. /\ orch'.zones = orch.zones /\ orch'.state = orch.state
          /\ orch'.lcSeq = orch.lcSeq /\ orch'.drain = orch.drain
      BY <1>1, <2>1 DEF AcceptConnection, Sound, Orchestrators
    <2> QED BY <2>2, <2>3, <2>4, SameServes DEF FlowInv
  <1>5. CASE ZoneReport(p) \/ ZoneBreakerOpen(p)
    <2>1. PICK m \in {[type |-> "metrics", port |-> p, box |-> zbox[p]], [type |-> "status"]} :
            Sends(p, m)
      BY <1>5 DEF ZoneReport, ZoneBreakerOpen
    <2>2. link[p] # NoFd /\ orch' = orch /\ link' = link /\ draining' = draining
      BY <1>5 DEF ZoneReport, ZoneBreakerOpen, CanSend
    <2>3. zbox[p] \in Box /\ link[p] \in Fds /\ link[p] \in orch.open
      BY <1>1, <2>2 DEF TypeOK, RunningZones, FlowInv, Flow, Connected
    <2>4. m \in Packet /\ m.type # "ack"
      BY <2>1, <2>3 DEF Packet
    <2>5. inbox' = Sent(inbox, link[p], m) /\ inbox \in [Fds -> Seq(Packet)]
      BY <1>1, <2>1 DEF Sends, Sent, TypeOK
    <2>6. Flow(orch, inbox', link, draining)
      <3>1. PICK fd : fd = link[p]
        OBVIOUS
      <3>2. fd \in Fds /\ fd \in orch.open /\ Flow(orch, inbox, link, draining)
        BY <2>3, <3>1 DEF FlowInv
      <3>3. Flow(orch, Sent(inbox, fd, m), link, draining)
        BY <2>4, <2>5, <3>2, SentFlow
      <3> QED BY <2>5, <3>1, <3>3
    <2> QED BY <1>2, <2>2, <2>6 DEF FlowInv
  <1>6. CASE ZoneResize(p) \/ ZoneRelocate(p)
    <2>1. PICK type : Reads(p, type)
      BY <1>6 DEF ZoneResize, ZoneRelocate
    <2>2. inbox' = inbox /\ link' = link /\ draining' = draining
      BY <1>6 DEF ZoneResize, ZoneRelocate
    <2> QED BY <2>1, <2>2, ReadsFlow DEF FlowInv
  <1>7. CASE ZoneDrain(p)
    BY <1>7, ZoneDrainFlow
  <1>8. CASE ZoneDelete(p)
    <2>1. Reads(p, "delete") /\ Exits(p)
      BY <1>8 DEF ZoneDelete
    <2> QED BY <2>1, ReadsFlow, ExitsFlow
  <1>9. CASE PodStopped(p) \/ ZoneCrash(p)
    <2>1. Exits(p) /\ orch' = orch
      BY <1>9 DEF PodStopped, ZoneCrash
    <2>2. Flow(orch', inbox, link, draining)
      BY <2>1 DEF FlowInv
    <2> QED BY <1>2, <2>1, <2>2, ExitsFlow
  <1>10. CASE LinkBreaks(p)
    <2>1. orch' = orch /\ draining' = draining /\ Disconnects(p)
      BY <1>10 DEF LinkBreaks
    <2>2. Flow(orch', inbox, link, draining)
      BY <2>1 DEF FlowInv
    <2>3. \A q \in Ports \ {p} : draining'[q] = draining[q]
      BY <2>1
    <2> QED BY <1>2, <2>1, <2>2, <2>3, DisconnectsFlow
  <1> QED BY <1>3, <1>4, <1>5, <1>6, <1>7, <1>8, <1>9, <1>10 DEF ZoneStep, ZoneReads

(* Nothing is on its way at the start. *)
LEMMA InitFlow ==
    Init => FlowInv
  <1> SUFFICES ASSUME Init PROVE FlowInv
    OBVIOUS
  <1>1. /\ orch.open = {} /\ orch.out = [fd \in Fds |-> <<>>]
        /\ orch.state = [fd \in Fds |-> "READY"]
    BY DEF Init, InitOrchestrator
  <1>2. DrainsIn(<<>>) = {} /\ AcksIn(<<>>) = {}
    BY DEF DrainsIn, AcksIn
  <1>3. Connected(orch, inbox, link)
    BY DEF Init, Connected
  <1>4. RequestsAscend(orch, inbox)
    BY <1>1, <1>2 DEF Init, RequestsAscend
  <1>5. AcksAreTrue(orch, inbox, link, draining)
    BY <1>1 DEF AcksAreTrue
  <1>6. NumbersAreOwn(orch)
    BY <1>1 DEF NumbersAreOwn
  <1> QED BY <1>3, <1>4, <1>5, <1>6 DEF FlowInv, Flow

(* Every step keeps the drains and their acknowledgements in order, and    *)
(* the zones in service.                                                   *)
LEMMA NextFlow ==
    IInv /\ FlowInv /\ [Next]_vars => FlowInv' /\ Serves
  <1> SUFFICES ASSUME IInv, FlowInv, [Next]_vars PROVE FlowInv' /\ Serves
    OBVIOUS
  <1>1. CASE \E fd \in Fds : HeadStep(fd) \/ TimeStep(fd)
    BY <1>1, HeadStepFlow, TimeStepFlow
  <1>2. CASE \E p \in Ports : ZoneStep(p)
    BY <1>2, ZoneStepFlow
  <1>3. CASE \E c \in Asked : ClientQuery(c)
    BY <1>3, ClientQueryFlow
  <1>4. CASE UNCHANGED vars
    <2>1. orch' = orch /\ FlowInv'
      BY <1>4 DEF vars, FlowInv
    <2> QED BY <2>1, SameServes
  <1> QED BY <1>1, <1>2, <1>3, <1>4 DEF Next
-----------------------------------------------------------------------------
(* Acknowledgements that are still on their way *)

(* The acknowledgement of the drain that is running ends it.               *)
LEMMA DrainAckEnds ==
    ASSUME NEW h, Sound(h), NEW fd \in Fds, NEW g, g = handleZoneLifecycle(h, fd, h.drain[fd].req)
    PROVE  g.state[fd] # "DRAINING"
  <1>1. CASE h.state[fd] # "DRAINING"
    BY <1>1 DEF handleZoneLifecycle
  <1>2. CASE h.state[fd] = "DRAINING"
    <2>1. PICK k, m :
            /\ k = [Retire(deleteZoneNode(h, fd), fd, "DESTROYED") EXCEPT !.age[fd] = "settling"]
            /\ m = [type |-> "delete", req |-> h.drain[fd].req]
      OBVIOUS
    <2>2. g = Send(k, fd, m)
      BY <1>2, <2>1 DEF handleZoneLifecycle
    <2>3. Sound(deleteZoneNode(h, fd))
      BY deleteZoneNodeSound
    <2>4. k.state[fd] = "DESTROYED"
      BY <2>1, <2>3 DEF Retire, removeFromActiveZones, Sound, Orchestrators
    <2>5. g.state = k.state
      BY <2>2 DEF Send
    <2> QED BY <2>4, <2>5
  <1> QED BY <1>1, <1>2

(* A zone has obeyed no number that the head has not given out. *)
AnswersInv == \A p \in Ports : draining[p] < orch.lcSeq

(* What ObeyedIsAnswered says of a step. *)
Answered ==
    \A p \in Ports, fd \in Fds : Unanswered(p, fd)' => Unanswered(p, fd) \/ link'[p] # link[p]

(* Acknowledgement r of connection fd is on its way. *)
Awaited(in, fd, r) == \E i \in DOMAIN in[fd] : in[fd][i].type = "ack" /\ in[fd][i].req = r

(* What is said of a step may be shown of the zones that keep their        *)
(* connection in it.                                                       *)
LEMMA AnsweredIf ==
    ASSUME \A p \in Ports, fd \in Fds :
              /\ link[p] = fd /\ link'[p] = fd /\ ~Unanswered(p, fd)
              /\ orch'.state[fd] = "DRAINING" /\ draining'[p] = orch'.drain[fd].req
              => Awaited(inbox', fd, draining'[p])
    PROVE  Answered
  <1> SUFFICES ASSUME NEW p \in Ports, NEW fd \in Fds, Unanswered(p, fd)', ~Unanswered(p, fd),
                      link'[p] = link[p]
               PROVE  FALSE
    BY DEF Answered
  <1>1. /\ link'[p] = fd /\ orch'.state[fd] = "DRAINING" /\ draining'[p] = orch'.drain[fd].req
        /\ ~Awaited(inbox', fd, draining'[p])
    BY DEF Unanswered, Awaited
  <1> QED BY <1>1

(* A drain that a zone has obeyed and that runs after a step ran before,   *)
(* and unless nobody will answer it its acknowledgement was on its way.    *)
LEMMA WasAwaited ==
    ASSUME IInv, AnswersInv, Serves, NEW p \in Ports, NEW fd \in Fds,
           orch'.state[fd] = "DRAINING", draining[p] = orch'.drain[fd].req
    PROVE  /\ orch.state[fd] = "DRAINING" /\ orch.drain[fd].req = draining[p]
           /\ link[p] = fd /\ ~Unanswered(p, fd) => Awaited(inbox, fd, draining[p])
  <1>1. draining[p] \in Nat /\ draining[p] < orch.lcSeq
    BY DEF IInv, TypeOK, AnswersInv
  <1>2. orch.state[fd] = "DRAINING" /\ orch.drain[fd].req = draining[p]
    BY <1>1 DEF Serves, NoNumberAgain
  <1> QED BY <1>2 DEF Unanswered, Awaited

(* A step that handles no acknowledgement and obeys no drain: it keeps     *)
(* what is on its way on the connections that hold.                        *)
LEMMA KeepsAnswers ==
    ASSUME IInv, IInv', AnswersInv, Serves,
           \A p \in Ports : draining'[p] \in {draining[p], 0},
           \A p \in Ports, fd \in Fds, r \in Nat :
              link'[p] = fd /\ link[p] = fd /\ Awaited(inbox, fd, r) => Awaited(inbox', fd, r)
    PROVE  AnswersInv' /\ Answered
  <1>1. draining \in [Ports -> Nat] /\ orch.lcSeq \in Nat \ {0} /\ orch'.lcSeq \in Nat \ {0}
    BY IInvParts DEF IInv, TypeOK, Orchestrators
  <1>2. \A p \in Ports : draining[p] < orch'.lcSeq
    BY <1>1 DEF AnswersInv, Serves, NoNumberAgain
  <1>3. AnswersInv'
    BY <1>1, <1>2 DEF AnswersInv
  <1>4. ASSUME NEW p \in Ports, NEW fd \in Fds,
               link[p] = fd, link'[p] = fd, ~Unanswered(p, fd),
               orch'.state[fd] = "DRAINING", draining'[p] = orch'.drain[fd].req
        PROVE  Awaited(inbox', fd, draining'[p])
    <2>1. orch'.drain[fd].req \in 1..orch'.lcSeq - 1
      BY <1>4 DEF IInv, DrainBookkeeping, DrainsRecorded
    <2>2. draining'[p] # 0
      BY <1>4, <2>1
    <2>3. draining'[p] = draining[p]
      BY <2>2
    <2>4. Awaited(inbox, fd, draining[p])
      BY <1>4, <2>3, WasAwaited
    <2> QED BY <1>1, <1>4, <2>3, <2>4
  <1> QED BY <1>3, <1>4, AnsweredIf

(* What a zone adds to its queue hides nothing that is there. *)
LEMMA SentAwaited ==
    ASSUME NEW in \in [Fds -> Seq(Packet)], NEW fd \in Fds, NEW m \in Packet,
           NEW o \in Fds, NEW r, Awaited(in, o, r)
    PROVE  Awaited(Sent(in, fd, m), o, r)
  <1>1. PICK q, new : q = in[o] /\ new = Sent(in, fd, m)
    OBVIOUS
  <1>2. PICK i \in DOMAIN q : q[i].type = "ack" /\ q[i].req = r
    BY <1>1 DEF Awaited
  <1>3. q \in Seq(Packet) /\ new[o] \in {q, Append(q, m)}
    BY <1>1 DEF Sent
  <1>4. i \in DOMAIN Append(q, m) /\ Append(q, m)[i] = q[i]
    BY <1>2, <1>3
  <1> QED BY <1>1, <1>2, <1>3, <1>4 DEF Awaited

(* The head takes a packet off its queue: what is awaited is still there,  *)
(* unless it was that packet.                                              *)
LEMMA HandledAwaited ==
    ASSUME NEW in \in [Fds -> Seq(Packet)], NEW fd \in Fds, in[fd] # <<>>,
           NEW o \in Fds, NEW r, Awaited(in, o, r),
           o # fd \/ Head(in[fd]).type # "ack" \/ Head(in[fd]).req # r
    PROVE  Awaited(Handled(in, fd), o, r)
  <1>1. PICK q, new : q = in[o] /\ new = Handled(in, fd)
    OBVIOUS
  <1>2. PICK i \in DOMAIN q : q[i].type = "ack" /\ q[i].req = r
    BY <1>1 DEF Awaited
  <1>3. CASE o # fd
    <2>1. new[o] = q
      BY <1>1, <1>3 DEF Handled
    <2> QED BY <1>1, <1>2, <2>1 DEF Awaited
  <1>4. CASE o = fd
    <2>1. q \in Seq(Packet) /\ q # <<>> /\ new[o] = Tail(q)
      BY <1>1, <1>4 DEF Handled
    <2>2. i # 1
      BY <1>1, <1>2, <1>4, <2>1, TailElements
    <2>3. i - 1 \in DOMAIN Tail(q) /\ i \in Nat
      BY <1>2, <2>1, <2>2, TailElements
    <2>4. Tail(q)[i - 1] = q[(i - 1) + 1] /\ (i - 1) + 1 = i
      BY <2>1, <2>3, TailElements
    <2>5. Tail(q)[i - 1] = q[i]
      BY <2>4
    <2> QED BY <1>1, <1>2, <2>1, <2>3, <2>5 DEF Awaited
  <1> QED BY <1>3, <1>4

(* The head handles an acknowledgement: the drain it belongs to ends, any  *)
(* other is still answered.                                                *)
LEMMA HeadDrainAckAnswers ==
    ASSUME IInv, IInv', AnswersInv, Serves, NEW fd \in Fds, HeadDrainAck(fd)
    PROVE  AnswersInv' /\ Answered
  <1>1. Sound(orch) /\ TypeOK
    BY IInvParts
  <1>2. /\ inbox' = Handled(inbox, fd) /\ inbox[fd] # <<>> /\ Head(inbox[fd]).type = "ack"
        /\ inbox \in [Fds -> Seq(Packet)] /\ draining' = draining /\ Arrives(fd, "ack")
    BY <1>1 DEF HeadDrainAck, Arrives, Handled, TypeOK
  <1>3. PICK r : r = Head(inbox[fd]).req
    OBVIOUS
  <1>4. r \in Nat /\ orch' = handleZoneLifecycle(orch, fd, r)
    BY <1>1, <1>2, <1>3, ArrivesType DEF HeadDrainAck
  <1>5. draining \in [Ports -> Nat] /\ orch.lcSeq \in Nat /\ orch'.lcSeq \in Nat
    BY IInvParts DEF IInv, TypeOK, Orchestrators
  <1>6. \A p \in Ports : draining'[p] < orch'.lcSeq
    BY <1>2, <1>5 DEF AnswersInv, Serves, NoNumberAgain
  <1>7. ASSUME NEW p \in Ports, NEW o \in Fds, link[p] = o, ~Unanswered(p, o),
               orch'.state[o] = "DRAINING", draining[p] = orch'.drain[o].req
        PROVE  Awaited(inbox', o, draining[p])
    <2>1. /\ orch.state[o] = "DRAINING" /\ orch.drain[o].req = draining[p]
          /\ Awaited(inbox, o, draining[p])
      BY <1>7, WasAwaited
    <2>2. CASE o # fd \/ r # draining[p]
      BY <1>2, <1>3, <2>1, <2>2, HandledAwaited
    <2>3. CASE o = fd /\ r = draining[p]
      <3>1. orch.state[fd] = "DRAINING" /\ orch.drain[fd].req = r
        BY <2>1, <2>3
      <3>2. orch'.state[fd] # "DRAINING"
        BY <1>1, <1>4, <3>1, DrainAckEnds
      <3> QED BY <1>7, <2>3, <3>2
    <2> QED BY <2>2, <2>3
  <1>8. Answered
    BY <1>2, <1>7, AnsweredIf
  <1> QED BY <1>6, <1>8 DEF AnswersInv

(* A zone obeys a drain: what it obeys it acknowledges. *)
LEMMA ZoneDrainAnswers ==
    ASSUME IInv, IInv', FlowInv, AnswersInv, Serves, NEW p \in Ports, ZoneDrain(p)
    PROVE  AnswersInv' /\ Answered
  <1>1. Sound(orch) /\ TypeOK /\ Reads(p, "drain") /\ link[p] # NoFd
    BY IInvParts DEF ZoneDrain, Reads
  <1>2. PICK fd, q : fd = link[p] /\ q = orch.out[fd]
    OBVIOUS
  <1>3. fd \in Fds /\ q \in Seq(Message) /\ q # <<>> /\ Head(q).type = "drain"
    BY <1>1, <1>2 DEF TypeOK, Reads, Sound, Orchestrators
  <1>4. PICK r, m : r = Head(q).req /\ m = [type |-> "ack", req |-> r]
    OBVIOUS
  <1>5. r \in Nat
    BY <1>1, <1>2, <1>4, ReadsType
  <1>6. m \in Packet /\ m.type = "ack" /\ m.req = r
    BY <1>4, <1>5 DEF Packet
  <1>7. inbox' = Sent(inbox, fd, m) /\ inbox \in [Fds -> Seq(Packet)]
    BY <1>1, <1>2, <1>4 DEF ZoneDrain, Sends, Sent, TypeOK
  <1>8. draining' = [draining EXCEPT ![p] = r] /\ draining \in [Ports -> Nat]
    BY <1>1, <1>2, <1>4 DEF ZoneDrain, TypeOK
  <1>9. /\ orch'.lcSeq = orch.lcSeq /\ orch'.state = orch.state /\ orch'.drain = orch.drain
    BY <1>1, ReadsFlow
  <1>10. 1 \in DrainsIn(q) /\ q[1].req = r
    BY <1>3, <1>4, TailElements DEF DrainsIn
  <1>11. r < orch.lcSeq
    BY <1>2, <1>3, <1>10 DEF FlowInv, Flow, RequestsAscend
  <1>12. \A o \in Ports : draining'[o] < orch'.lcSeq
    BY <1>8, <1>9, <1>11 DEF AnswersInv
  <1>13. ASSUME NEW o \in Ports, NEW f \in Fds, link[o] = f, ~Unanswered(o, f),
                orch'.state[f] = "DRAINING", draining'[o] = orch'.drain[f].req
         PROVE  Awaited(inbox', f, draining'[o])
    <2>1. CASE o # p
      <3>1. draining'[o] = draining[o]
        BY <1>8, <2>1
      <3>2. Awaited(inbox, f, draining[o])
        BY <1>13, <3>1, WasAwaited
      <3> QED BY <1>3, <1>6, <1>7, <3>1, <3>2, SentAwaited
    <2>2. CASE o = p /\ f = fd
      <3>1. PICK n : n = Len(inbox[fd]) + 1
        OBVIOUS
      <3>2. n \in DOMAIN inbox'[fd] /\ inbox'[fd][n] = m
        BY <1>3, <1>6, <1>7, <3>1 DEF Sent
      <3> QED BY <1>6, <1>8, <2>2, <3>2 DEF Awaited
    <2>3. CASE o = p /\ f # fd
      <3>1. orch.state[f] = "DRAINING" /\ orch.drain[f].req = r
        BY <1>8, <1>9, <1>13, <2>3
      <3>2. fd = f
        BY <1>2, <1>3, <1>10, <3>1 DEF FlowInv, Flow, NumbersAreOwn
      <3> QED BY <2>3, <3>2
    <2> QED BY <2>1, <2>2, <2>3
  <1>14. Answered
    BY <1>13, AnsweredIf
  <1> QED BY <1>12, <1>14 DEF AnswersInv

(* Nothing has been obeyed at the start. *)
LEMMA InitAnswers ==
    Init => AnswersInv
  <1> SUFFICES ASSUME Init PROVE AnswersInv
    OBVIOUS
  <1>1. orch.lcSeq = 1
    BY DEF Init, InitOrchestrator
  <1> QED BY <1>1 DEF Init, AnswersInv

(* Every step leaves the drains that zones have obeyed answered.           *)
LEMMA NextAnswers ==
    IInv /\ IInv' /\ FlowInv /\ AnswersInv /\ Serves /\ [Next]_vars => AnswersInv' /\ Answered
  <1> SUFFICES ASSUME IInv, IInv', FlowInv, AnswersInv, Serves, [Next]_vars
               PROVE  AnswersInv' /\ Answered
    OBVIOUS
  <1>1. TypeOK /\ RunningZones /\ inbox \in [Fds -> Seq(Packet)] /\ draining \in [Ports -> Nat]
    BY IInvParts DEF TypeOK
  <1>2. ASSUME inbox' = inbox, \A p \in Ports : draining'[p] \in {draining[p], 0}
        PROVE  AnswersInv' /\ Answered
    BY <1>2, KeepsAnswers DEF Awaited
  <1>3. ASSUME NEW p \in Ports, Disconnects(p), \A o \in Ports : draining'[o] \in {draining[o], 0}
        PROVE  AnswersInv' /\ Answered
    <2>1. ASSUME NEW q \in Ports, NEW fd \in Fds, NEW r \in Nat,
                 link'[q] = fd, link[q] = fd, Awaited(inbox, fd, r)
          PROVE  Awaited(inbox', fd, r)
      <3>1. NoFd \notin Fds
        BY FdsAssumption DEF NoFd
      <3>2. link' = [link EXCEPT ![p] = NoFd]
        BY <1>3 DEF Disconnects
      <3>3. q # p
        BY <1>1, <2>1, <3>1, <3>2 DEF TypeOK
      <3>4. link[p] # fd
        BY <2>1, <3>1, <3>3 DEF FlowInv, Flow, Connected
      <3>5. inbox'[fd] = inbox[fd]
        BY <1>1, <1>3, <3>4, CutOffType DEF TypeOK
      <3> QED BY <2>1, <3>5 DEF Awaited
    <2> QED BY <1>3, <2>1, KeepsAnswers
  <1>4. ASSUME NEW fd \in Fds, HeadMetrics(fd) \/ HeadValidatorStatus(fd)
        PROVE  AnswersInv' /\ Answered
    <2>1. PICK type \in {"metrics", "status"} : Arrives(fd, type)
      BY <1>4 DEF HeadMetrics, HeadValidatorStatus
    <2>2. inbox' = Handled(inbox, fd) /\ inbox[fd] # <<>> /\ Head(inbox[fd]).type # "ack"
      BY <2>1 DEF Arrives, Handled
    <2>3. draining' = draining
      BY <1>4 DEF HeadMetrics, HeadValidatorStatus
    <2>4. \A o \in Fds, r \in Nat : Awaited(inbox, o, r) => Awaited(inbox', o, r)
      BY <1>1, <2>2, HandledAwaited
    <2> QED BY <2>3, <2>4, KeepsAnswers
  <1>5. ASSUME NEW p \in Ports, ZoneReport(p) \/ ZoneBreakerOpen(p)
        PROVE  AnswersInv' /\ Answered
    <2>1. PICK m \in {[type |-> "metrics", port |-> p, box |-> zbox[p]], [type |-> "status"]} :
            Sends(p, m)
      BY <1>5 DEF ZoneReport, ZoneBreakerOpen
    <2>2. link[p] # NoFd /\ draining' = draining
      BY <1>5 DEF ZoneReport, ZoneBreakerOpen, CanSend
    <2>3. zbox[p] \in Box /\ link[p] \in Fds
      BY <1>1, <2>2 DEF TypeOK, RunningZones
    <2>4. m \in Packet
      BY <2>1, <2>3 DEF Packet
    <2>5. inbox' = Sent(inbox, link[p], m)
      BY <2>1 DEF Sends, Sent
    <2>6. \A o \in Fds, r \in Nat : Awaited(inbox, o, r) => Awaited(inbox', o, r)
      BY <1>1, <2>3, <2>4, <2>5, SentAwaited
    <2> QED BY <2>2, <2>6, KeepsAnswers
  <1>6. CASE \E fd \in Fds : HeadStep(fd)
    <2>1. PICK fd \in Fds : HeadStep(fd)
      BY <1>6
    <2>2. CASE HeadPeerGone(fd)
      BY <1>2, <2>2 DEF HeadPeerGone
    <2> QED BY <1>4, <2>1, <2>2, HeadDrainAckAnswers DEF HeadStep
  <1>7. CASE \E fd \in Fds : TimeStep(fd)
    <2>1. inbox' = inbox /\ draining' = draining
      BY <1>7 DEF TimeStep, SettleEnds, MergeWindowEnds, LowLoadPersists, CooldownEnds,
             DrainIsLate, LeaseExpires
    <2> QED BY <1>2, <2>1
  <1>8. CASE \E p \in Ports : ZoneStep(p)
    <2>1. PICK p \in Ports : ZoneStep(p)
      BY <1>8
    <2>2. CASE ZoneBoot(p) \/ ZoneConnect(p) \/ ZoneResize(p) \/ ZoneRelocate(p)
      <3>1. inbox' = inbox /\ draining' = draining
        BY <2>2 DEF ZoneBoot, ZoneConnect, ZoneResize, ZoneRelocate
      <3> QED BY <1>2, <3>1
    <2>3. CASE LinkBreaks(p) \/ ZoneDelete(p) \/ PodStopped(p) \/ ZoneCrash(p)
      <3>1. Disconnects(p) /\ draining' \in {draining, [draining EXCEPT ![p] = 0]}
        BY <2>3 DEF LinkBreaks, ZoneDelete, PodStopped, ZoneCrash, Exits
      <3>2. \A o \in Ports : draining'[o] \in {draining[o], 0}
        BY <1>1, <3>1
      <3> QED BY <1>3, <3>1, <3>2
    <2> QED BY <1>5, <2>1, <2>2, <2>3, ZoneDrainAnswers DEF ZoneStep, ZoneReads
  <1>9. CASE \E c \in Asked : ClientQuery(c)
    <2>1. inbox' = inbox /\ draining' = draining
      BY <1>9 DEF ClientQuery
    <2> QED BY <1>2, <2>1
  <1>10. CASE UNCHANGED vars
    <2>1. inbox' = inbox /\ draining' = draining
      BY <1>10 DEF vars
    <2> QED BY <1>2, <2>1
  <1> QED BY <1>6, <1>7, <1>8, <1>9, <1>10 DEF Next

-----------------------------------------------------------------------------
(* Queries: the box a zone will have *)

(* Obeying one packet leaves a zone with a box. *)
LEMMA ObeyType ==
    ASSUME NEW b \in Box, NEW m \in Message
    PROVE  Obey(b, m) \in Box
  <1>1. CASE m.type = "resize"
    <2>1. m.axis \in Axes /\ m.to \in Interval
      BY <1>1 DEF Message
    <2>2. Resize(b, m.axis, m.to) \in Box
      BY <2>1, ResizeType
    <2> QED BY <1>1, <2>2 DEF Obey
  <1>2. CASE m.type = "relocate"
    <2>1. m.chunk \in Chunk
      BY <1>2 DEF Message
    <2>2. Stretch(b, m.chunk) \in Box
      BY <2>1, StretchType
    <2> QED BY <1>2, <2>2 DEF Obey
  <1>3. CASE m.type # "resize" /\ m.type # "relocate"
    BY <1>3 DEF Obey
  <1> QED BY <1>1, <1>2, <1>3

(* f[k] is the box after the first k of the first n packets of q. *)
After(b, q, n, f) ==
    /\ f \in [0..n -> Box]
    /\ \A k \in 0..n : f[k] = IF k = 0 THEN b ELSE Obey(f[k - 1], q[k])

(* Packets can be obeyed one after the other, however many there are. *)
LEMMA AfterExists ==
    ASSUME NEW b \in Box, NEW q \in Seq(Message), NEW N \in 0..Len(q)
    PROVE  \E f : After(b, q, N, f)
  <1>1. PICK T : T = {n \in Nat : n <= N /\ ~\E f : After(b, q, n, f)}
    OBVIOUS
  <1>2. ASSUME T # {} PROVE FALSE
    <2>1. PICK n \in T : \A m \in T : n <= m
      BY <1>1, <1>2, LeastNatural
    <2>2. n \in Nat /\ n <= N /\ ~\E f : After(b, q, n, f) /\ n <= Len(q) /\ N \in Nat
      BY <1>1
    <2>3. CASE n = 0
      <3>1. After(b, q, 0, [k \in 0..0 |-> b])
        BY DEF After
      <3> QED BY <2>2, <2>3, <3>1
    <2>4. CASE n # 0
      <3>1. n - 1 \in Nat /\ n - 1 \notin T
        BY <2>1, <2>2, <2>4
      <3>2. PICK f : After(b, q, n - 1, f)
        BY <1>1, <2>2, <3>1
      <3>3. PICK g : g = [k \in 0..n |-> IF k = n THEN Obey(f[n - 1], q[n]) ELSE f[k]]
        OBVIOUS
      <3>4. f[n - 1] \in Box /\ q[n] \in Message
        BY <2>2, <2>4, <3>1, <3>2 DEF After
      <3>5. g \in [0..n -> Box]
        <4>1. Obey(f[n - 1], q[n]) \in Box
          BY <3>4, ObeyType
        <4> QED BY <2>2, <3>2, <3>3, <4>1 DEF After
      <3>6. ASSUME NEW k \in 0..n
            PROVE  g[k] = IF k = 0 THEN b ELSE Obey(g[k - 1], q[k])
        BY <2>2, <2>4, <3>2, <3>3 DEF After
      <3> QED BY <2>2, <3>5, <3>6 DEF After
    <2> QED BY <2>3, <2>4
  <1>3. N \in Nat /\ N <= N
    OBVIOUS
  <1> QED BY <1>1, <1>2, <1>3

(* ObeyAll is the last of these boxes. *)
LEMMA ObeyAllUnfolds ==
    ASSUME NEW b \in Box, NEW q \in Seq(Message)
    PROVE  \E f : After(b, q, Len(q), f) /\ ObeyAll(b, q) = f[Len(q)]
  <1> DEFINE Eqn(a) == a = [n \in 0..Len(q) |-> IF n = 0 THEN b ELSE Obey(a[n - 1], q[n])]
             after == CHOOSE a : Eqn(a)
  <1>1. Len(q) \in Nat /\ Len(q) \in 0..Len(q)
    OBVIOUS
  <1>2. PICK f : After(b, q, Len(q), f)
    BY <1>1, AfterExists
  <1>3. Eqn(f)
    BY <1>2 DEF After
  <1>4. Eqn(after)
    <2> HIDE DEF Eqn
    <2> QED BY <1>3
  <1>5. ObeyAll(b, q) = after[Len(q)]
    BY DEF ObeyAll
  <1> HIDE DEF after
  <1>6. after = f
    <2>1. PICK T : T = {n \in Nat : n <= Len(q) /\ after[n] # f[n]}
      OBVIOUS
    <2>2. ASSUME T # {} PROVE FALSE
      <3>1. PICK n \in T : \A m \in T : n <= m
        BY <2>1, <2>2, LeastNatural
      <3>2. n \in Nat /\ n \in 0..Len(q) /\ after[n] # f[n]
        BY <1>1, <2>1
      <3>3. after[n] = IF n = 0 THEN b ELSE Obey(after[n - 1], q[n])
        BY <1>4, <3>2
      <3>4. f[n] = IF n = 0 THEN b ELSE Obey(f[n - 1], q[n])
        BY <1>2, <3>2 DEF After
      <3>5. n # 0 => after[n - 1] = f[n - 1]
        <4>1. n # 0 => n - 1 \in Nat /\ n - 1 <= Len(q) /\ n - 1 \notin T
          BY <3>1, <3>2
        <4> QED BY <2>1, <4>1
      <3> QED BY <3>2, <3>3, <3>4, <3>5
    <2>3. \A n \in 0..Len(q) : after[n] = f[n]
      BY <1>1, <2>1, <2>2
    <2>4. after = [n \in 0..Len(q) |-> after[n]] /\ f = [n \in 0..Len(q) |-> f[n]]
      BY <1>2, <1>4 DEF After
    <2> QED BY <2>3, <2>4
  <1> QED BY <1>2, <1>5, <1>6

(* A packet written last is obeyed last. *)
LEMMA ObeyAllAppend ==
    ASSUME NEW b \in Box, NEW q \in Seq(Message), NEW m \in Message
    PROVE  /\ ObeyAll(b, q) \in Box
           /\ ObeyAll(b, Append(q, m)) = Obey(ObeyAll(b, q), m)
  <1>1. PICK r, n : r = Append(q, m) /\ n = Len(q)
    OBVIOUS
  <1>2. /\ r \in Seq(Message) /\ n \in Nat /\ Len(r) = n + 1 /\ r[n + 1] = m
        /\ \A k \in 1..n : r[k] = q[k]
    BY <1>1
  <1>3. PICK f : After(b, q, n, f) /\ ObeyAll(b, q) = f[n]
    BY <1>1, ObeyAllUnfolds
  <1>4. PICK g : After(b, r, n + 1, g) /\ ObeyAll(b, r) = g[n + 1]
    BY <1>2, ObeyAllUnfolds
  <1>5. PICK T : T = {k \in Nat : k <= n /\ f[k] # g[k]}
    OBVIOUS
  <1>6. ASSUME T # {} PROVE FALSE
    <2>1. PICK k \in T : \A l \in T : k <= l
      BY <1>5, <1>6, LeastNatural
    <2>2. k \in Nat /\ k \in 0..n /\ k \in 0..n + 1 /\ f[k] # g[k]
      BY <1>2, <1>5
    <2>3. /\ f[k] = IF k = 0 THEN b ELSE Obey(f[k - 1], q[k])
          /\ g[k] = IF k = 0 THEN b ELSE Obey(g[k - 1], r[k])
      BY <1>3, <1>4, <2>2 DEF After
    <2>4. k # 0 => k \in 1..n /\ k - 1 \in Nat /\ k - 1 <= n /\ k - 1 \notin T
      BY <1>2, <2>1, <2>2
    <2>5. k # 0 => f[k - 1] = g[k - 1] /\ r[k] = q[k]
      BY <1>2, <1>5, <2>4
    <2> QED BY <2>2, <2>3, <2>5
  <1>7. f[n] = g[n]
    BY <1>2, <1>5, <1>6
  <1>8. g[n + 1] = Obey(g[n], m)
    <2>1. PICK e : e = n + 1
      OBVIOUS
    <2>2. e \in 0..n + 1 /\ e # 0 /\ e - 1 = n
      BY <1>2, <2>1
    <2>3. \A k \in 0..n + 1 : k # 0 => g[k] = Obey(g[k - 1], r[k])
      BY <1>4 DEF After
    <2>4. g[e] = Obey(g[e - 1], r[e])
      BY <2>2, <2>3
    <2> QED BY <1>2, <2>1, <2>2, <2>4
  <1>9. f[n] \in Box
    BY <1>2, <1>3 DEF After
  <1> QED BY <1>1, <1>3, <1>4, <1>7, <1>8, <1>9

(* A box that stretches over a chunk tells that the chunk is within the    *)
(* coordinate limit, and then every box does that stretches to it.         *)
LEMMA StretchCovers ==
    ASSUME NEW b \in Box, NEW d \in Box, NEW c \in Chunk, Covers(Stretch(b, c), c)
    PROVE  Covers(Stretch(d, c), c)
  <1> SUFFICES ASSUME NEW a \in Axes
               PROVE  Stretch(d, c)[a].lo <= c[a] /\ c[a] <= Stretch(d, c)[a].hi
    BY DEF Covers
  <1>1. PICK v, x, y, l, h : /\ v = c[a] /\ x = d[a].lo /\ y = d[a].hi
                             /\ l = b[a].lo /\ h = b[a].hi
    OBVIOUS
  <1>2. v \in Int /\ x \in Int /\ y \in Int /\ l \in Int /\ h \in Int
    BY <1>1 DEF Box, Interval, Chunk
  <1>3. Clamp(Lesser(l, v)) <= v /\ v <= Clamp(Greater(h, v))
    BY <1>1 DEF Covers, Stretch
  <1>4. Clamp(Lesser(x, v)) <= v /\ v <= Clamp(Greater(y, v))
    BY <1>2, <1>3, ChunkLimitAssumption DEF Clamp, Lesser, Greater
  <1> QED BY <1>1, <1>4 DEF Stretch

-----------------------------------------------------------------------------
(* Queries: the zone that is named *)

(* Writing one entry's box changes no other. *)
LEMMA SetBoxEffect ==
    ASSUME NEW h, Sound(h), NEW fd \in Listed(h), NEW b \in Box, NEW g, g = SetBox(h, fd, b)
    PROVE  /\ Listed(g) = Listed(h) /\ g.state = h.state /\ g.open = h.open /\ g.out = h.out
           /\ \A o \in Listed(h) :
                findZoneInfo(g, o).box = IF o = fd THEN b ELSE findZoneInfo(h, o).box
  <1>1. h \in Orchestrators /\ Registered(h)
    BY DEF Sound
  <1>a. PICK z : z = [findZoneInfo(h, fd) EXCEPT !.box = b]
    OBVIOUS
  <1>2. PICK t : t = [h.zones EXCEPT ![IndexOf(h, fd)] = z]
    OBVIOUS
  <1>3. z \in ZoneInfo /\ z.fd = fd /\ z.box = b
    BY <1>1, <1>a, EntryOf DEF ZoneInfo
  <1>4. /\ t \in Seq(ZoneInfo) /\ {t[i].fd : i \in DOMAIN t} = Listed(h)
        /\ \A i, j \in DOMAIN t : t[i].fd = t[j].fd => i = j
    BY <1>1, <1>2, <1>3, WriteEntry
  <1>5. g = [h EXCEPT !.zones = t]
    BY <1>a, <1>2 DEF SetBox, findZoneInfo
  <1>6. g.zones = t /\ g.state = h.state /\ g.open = h.open /\ g.out = h.out
    BY <1>1, <1>5 DEF Orchestrators
  <1>7. Listed(g) = Listed(h)
    <2>1. Listed(g) = {t[i].fd : i \in DOMAIN t}
      BY <1>6 DEF Listed
    <2> QED BY <1>4, <2>1
  <1>8. h.zones \in Seq(ZoneInfo) /\ DOMAIN t = DOMAIN h.zones
    BY <1>1, <1>2 DEF Orchestrators
  <1>9. ASSUME NEW o \in Listed(h)
        PROVE  findZoneInfo(g, o).box = IF o = fd THEN b ELSE findZoneInfo(h, o).box
    <2>1. /\ IndexOf(h, o) \in DOMAIN h.zones /\ h.zones[IndexOf(h, o)].fd = o
          /\ IndexOf(h, fd) \in DOMAIN h.zones /\ h.zones[IndexOf(h, fd)].fd = fd
      BY <1>1, EntryOf
    <2>2. IndexOf(g, o) \in DOMAIN t /\ t[IndexOf(g, o)].fd = o
      BY <1>6, <1>7 DEF IndexOf, Listed
    <2>3. t[IndexOf(h, o)] = IF o = fd THEN z ELSE h.zones[IndexOf(h, o)]
      BY <1>1, <1>2, <2>1 DEF Registered
    <2>4. t[IndexOf(h, o)].fd = o
      BY <1>3, <2>1, <2>3
    <2>5. IndexOf(g, o) = IndexOf(h, o)
      BY <1>4, <1>8, <2>1, <2>2, <2>4
    <2> QED BY <1>3, <1>6, <2>3, <2>5 DEF findZoneInfo
  <1> QED BY <1>6, <1>7, <1>9

(* The zone a chunk is routed to covers it by the head's books, and when   *)
(* there is none nobody in service does.                                   *)
LEMMA TargetCovers ==
    ASSUME NEW h \in Orchestrators, NEW c
    PROVE  /\ findTargetNode(h, c) # NoFd =>
                /\ findTargetNode(h, c) \in Routable(h)
                /\ Covers(findZoneInfo(h, findTargetNode(h, c)).box, c)
           /\ findTargetNode(h, c) = NoFd =>
                \A fd \in Routable(h) : ~Covers(findZoneInfo(h, fd).box, c)
  <1>1. PICK S : S = {fd \in Routable(h) : Covers(findZoneInfo(h, fd).box, c)}
    OBVIOUS
  <1>2. S \in SUBSET Listed(h) /\ findTargetNode(h, c) = FirstZone(h, S)
    BY <1>1 DEF Routable, findTargetNode
  <1>3. S # {} => FirstZone(h, S) \in S
    BY <1>2, FirstZoneType
  <1>4. S = {} => FirstZone(h, S) = NoFd
    BY DEF FirstZone
  <1>5. NoFd \notin S
    <2>1. NoFd \notin Fds
      BY FdsAssumption DEF NoFd
    <2> QED BY <1>2, <2>1, EntryOf
  <1> QED BY <1>1, <1>2, <1>3, <1>4, <1>5

(* A query for a chunk nobody covers, answered with a zone: the head has   *)
(* written to that very zone to stretch over the chunk.                    *)
LEMMA RelocationIsSent ==
    ASSUME NEW h, Sound(h), NEW c \in Chunk, NEW g, g = HandleZoneQuery(h, c),
           findTargetNode(h, c) = NoFd, findTargetNode(g, c) # NoFd, NEW fd, fd = findTargetNode(g, c)
    PROVE  /\ fd \in Fds
           /\ fd \in h.open => g.out[fd] = Append(h.out[fd], [type |-> "relocate", chunk |-> c])
           /\ \E b \in Box : Covers(Stretch(b, c), c)
  <1>1. h \in Orchestrators
    BY DEF Sound
  <1>2. PICK S, m : /\ S = IF AlignedWith(h, c) # {} THEN AlignedWith(h, c) ELSE Routable(h)
                    /\ m = [type |-> "relocate", chunk |-> c]
    OBVIOUS
  <1>3. S \in SUBSET Routable(h) /\ S \in SUBSET Listed(h)
    BY <1>2 DEF AlignedWith, Routable
  <1>4. PICK best : best = FirstZone(h, S)
    OBVIOUS
  <1>5. g = relocateZoneTo(h, c)
    BY DEF HandleZoneQuery
  <1>6. best # NoFd
    BY <1>2, <1>4, <1>5 DEF relocateZoneTo
  <1>7. best \in S
    <2>1. S # {}
      BY <1>4, <1>6 DEF FirstZone
    <2> QED BY <1>1, <1>3, <1>4, <2>1, FirstZoneType
  <1>8. PICK b, k : b = findZoneInfo(h, best).box /\ k = SetBox(h, best, Stretch(b, c))
    OBVIOUS
  <1>9. b \in Box /\ best \in Fds /\ best \in Listed(h) /\ Stretch(b, c) \in Box
    BY <1>1, <1>3, <1>7, <1>8, EntryOf, StretchType DEF ZoneInfo
  <1>10. g = Send(k, best, m)
    BY <1>2, <1>4, <1>5, <1>6, <1>8 DEF relocateZoneTo
  <1>11. /\ Listed(k) = Listed(h) /\ k.state = h.state /\ k.open = h.open /\ k.out = h.out
         /\ \A o \in Listed(h) :
              findZoneInfo(k, o).box = IF o = best THEN Stretch(b, c) ELSE findZoneInfo(h, o).box
    BY <1>8, <1>9, SetBoxEffect
  <1>12. k \in Orchestrators /\ g \in Orchestrators
    <2>1. Sound(k)
      BY <1>8, <1>9, SetBoxSound
    <2>2. Sound(g)
      BY <1>5, relocateZoneToSound
    <2> QED BY <2>1, <2>2 DEF Sound
  <1>13. /\ g.zones = k.zones /\ g.state = k.state
         /\ best \in k.open => g.out[best] = Append(k.out[best], m)
    BY <1>9, <1>10, <1>12 DEF Send, Orchestrators
  <1>14. Routable(g) = Routable(h)
    <2>1. Listed(g) = Listed(k)
      BY <1>13 DEF Listed
    <2> QED BY <1>11, <1>13, <2>1 DEF Routable, isRoutable
  <1>15. \A o : findZoneInfo(g, o) = findZoneInfo(k, o)
    BY <1>13 DEF findZoneInfo, IndexOf
  <1>16. fd \in Routable(h) /\ Covers(findZoneInfo(k, fd).box, c)
    BY <1>12, <1>14, <1>15, TargetCovers
  <1>17. fd = best
    <2>1. fd \in Listed(h) /\ ~Covers(findZoneInfo(h, fd).box, c)
      BY <1>1, <1>16, TargetCovers DEF Routable
    <2> QED BY <1>11, <1>16, <2>1
  <1>18. Covers(Stretch(b, c), c)
    BY <1>9, <1>11, <1>16, <1>17
  <1> QED BY <1>2, <1>9, <1>11, <1>13, <1>17, <1>18

(* The zone named to a client that asked will cover the chunk. *)
LEMMA QueryIsAnswered ==
    ASSUME IInv, FlowInv, NEW c \in Asked, ClientQuery(c),
           findTargetNode(orch, c) = NoFd, findTargetNode(orch', c) # NoFd,
           NEW p \in Linked(findTargetNode(orch', c))
    PROVE  Covers(PlannedBox(p)', c)
  <1>1. Sound(orch) /\ TypeOK /\ RunningZones /\ c \in Chunk
    BY IInvParts, AskedAssumption
  <1>2. PICK fd : fd = findTargetNode(orch', c)
    OBVIOUS
  <1>3. /\ orch' = HandleZoneQuery(orch, c)
        /\ up' = up /\ link' = link /\ zbox' = zbox
    BY DEF ClientQuery
  <1>4. /\ fd \in Fds
        /\ fd \in orch.open => orch'.out[fd] = Append(orch.out[fd], [type |-> "relocate", chunk |-> c])
        /\ \E b \in Box : Covers(Stretch(b, c), c)
    BY <1>1, <1>2, <1>3, RelocationIsSent
  <1>5. p \in Ports /\ link[p] = fd /\ fd # NoFd
    BY <1>2 DEF Linked
  <1>6. fd \in orch.open /\ p \in up /\ zbox[p] \in Box
    BY <1>1, <1>5 DEF FlowInv, Flow, Connected, RunningZones
  <1>7. PICK q, m : q = orch.out[fd] /\ m = [type |-> "relocate", chunk |-> c]
    OBVIOUS
  <1>8. q \in Seq(Message) /\ m \in Message
    BY <1>1, <1>4, <1>7 DEF Sound, Orchestrators, Message
  <1>9. PICK d : d = ObeyAll(zbox[p], q)
    OBVIOUS
  <1>10. d \in Box /\ ObeyAll(zbox[p], Append(q, m)) = Obey(d, m)
    BY <1>6, <1>8, <1>9, ObeyAllAppend
  <1>11. PlannedBox(p)' = Obey(d, m)
    <2>1. PlannedBox(p)' = ObeyAll(zbox'[p], orch'.out[link'[p]])
      BY <1>3, <1>5, <1>6 DEF PlannedBox
    <2> QED BY <1>3, <1>4, <1>5, <1>6, <1>7, <1>10, <2>1
  <1>12. Covers(Stretch(d, c), c)
    BY <1>1, <1>4, <1>10, StretchCovers
  <1> QED BY <1>7, <1>11, <1>12 DEF Obey

-----------------------------------------------------------------------------
(* The theorems about what is on the way *)

(* Every drain and every acknowledgement on its way is in order: an        *)
(* acknowledgement of the drain that is running is never there before the  *)
(* zone has obeyed it.                                                     *)
THEOREM DrainsAreAnswered == Spec => [](IInv /\ FlowInv)
  <1>1. Init => IInv /\ FlowInv
    BY InitInv, InitFlow
  <1>2. IInv /\ FlowInv /\ [Next]_vars => (IInv /\ FlowInv)'
    BY NextInv, NextFlow
  <1> QED BY <1>1, <1>2, PTL DEF Spec

(* As long as a zone's connection holds the head never comes to wait for   *)
(* an answer that nobody will send: while the drain that a zone has obeyed *)
(* runs, the acknowledgement that ZoneDrain sent is on its way to          *)
(* handleZoneLifecycle.  Only a connection that broke loses it.            *)
THEOREM ObeyedDrainsAreAnswered == Spec => ObeyedIsAnswered
  <1>1. Init => IInv /\ FlowInv /\ AnswersInv
    BY InitInv, InitFlow, InitAnswers
  <1>2. IInv /\ FlowInv /\ AnswersInv /\ [Next]_vars => (IInv /\ FlowInv /\ AnswersInv)'
    BY NextInv, NextFlow, NextAnswers
  <1>3. IInv /\ FlowInv /\ AnswersInv /\ [Next]_vars => Answered
    BY NextInv, NextFlow, NextAnswers
  <1>4. IInv /\ FlowInv /\ AnswersInv /\ [Next]_vars =>
            [\A p \in Ports, fd \in Fds :
                Unanswered(p, fd)' => Unanswered(p, fd) \/ link'[p] # link[p]]_vars
    BY <1>3 DEF Answered
  <1> QED BY <1>1, <1>2, <1>4, PTL DEF Spec, ObeyedIsAnswered

(* handleZoneLifecycle never destroys a zone that has not handed over its  *)
(* entities for the drain that is running, whatever was dropped, late,     *)
(* taken back by the fail-safe or started again before.                    *)
THEOREM NobodyIsDestroyedEarly == Spec => DestroyedHasDrained
  <1>1. IInv /\ FlowInv /\ [Next]_vars =>
            [\A fd \in Fds : orch.state[fd] # "DESTROYED" /\ orch'.state[fd] = "DESTROYED" =>
                \A p \in Linked(fd) : draining[p] = orch.drain[fd].req]_vars
    BY NextFlow DEF Serves
  <1> QED BY <1>1, DrainsAreAnswered, PTL DEF Spec, DestroyedHasDrained

(* No merge and no reassignment leaves fewer than EVAL_MIN_REPLICAS zones  *)
(* in service, whatever was queued when there were more: only an eviction  *)
(* does.                                                                   *)
THEOREM TheMinimumServes == Spec => ServingFloor
  <1>1. IInv /\ IInv' /\ Serves =>
            (routableZoneCount(orch') < routableZoneCount(orch) =>
                \/ routableZoneCount(orch') >= MinReplicas
                \/ \E fd \in Fds : orch.state[fd] # "DEAD" /\ orch'.state[fd] = "DEAD")
    <2> SUFFICES ASSUME IInv, IInv', Serves, routableZoneCount(orch') < routableZoneCount(orch),
                        Routable(orch) \subseteq Routable(orch')
                 PROVE  FALSE
      BY DEF Serves
    <2>1. Sound(orch) /\ Sound(orch')
      BY DEF IInv, Sound, TypeOK, RetiredNeverListed, DrainBookkeeping
    <2>2. /\ routableZoneCount(orch) <= routableZoneCount(orch')
          /\ routableZoneCount(orch) \in Nat /\ routableZoneCount(orch') \in Nat
      BY <2>1, MoreServe, RoutableFinite
    <2> QED BY <2>2
  <1>2. IInv /\ FlowInv /\ [Next]_vars =>
            [routableZoneCount(orch') < routableZoneCount(orch) =>
                \/ routableZoneCount(orch') >= MinReplicas
                \/ \E fd \in Fds : orch.state[fd] # "DEAD" /\ orch'.state[fd] = "DEAD"]_vars
    BY <1>1, NextInv, NextFlow
  <1> QED BY <1>2, DrainsAreAnswered, PTL DEF Spec, ServingFloor

(* The zone that relocateZoneTo names to a client will cover the chunk it  *)
(* asked for: whatever splits, merges and relocations are still on their   *)
(* way to that zone, and however many, the packet that stretches it is     *)
(* obeyed after them.                                                      *)
THEOREM QueriesAreAnsweredTruly == Spec => RelocatedZoneCovers
  <1>1. IInv /\ FlowInv =>
            [\A c \in Asked :
                ClientQuery(c) /\ findTargetNode(orch, c) = NoFd /\ findTargetNode(orch', c) # NoFd =>
                    \A p \in Linked(findTargetNode(orch', c)) : Covers(PlannedBox(p)', c)]_vars
    BY QueryIsAnswered
  <1> QED BY <1>1, DrainsAreAnswered, PTL DEF Spec, RelocatedZoneCovers
=============================================================================
