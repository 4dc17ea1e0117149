------------------------------- MODULE Handoff -------------------------------
(***************************************************************************)
(* The authority over one world-owned object (a crate, STATE_WORLD_OWNED,  *)
(* which no lease ever expires) across the zones.  A zone that finds the   *)
(* object outside its box offers it through the head in two packets, the   *)
(* reassignment and the state; it keeps the object until the head answers  *)
(* that the reassignment was routed.  Meanwhile zones are split and        *)
(* merged: the head routes by its table of boxes, which follows the zones' *)
(* reports, and the zones follow the head's commands.  Connections and     *)
(* processes do not fail here.                                             *)
(***************************************************************************)
EXTENDS ChunkBox, Sequences, FiniteSets

CONSTANTS
    NZones,      \* zones, numbered in the order they register with the head
    Boot,        \* zone -> its box at the start, or NoBox for a spare one
    World,       \* the chunks the object may be moved to
    Home,        \* the chunk the object is in at the start
    MaxMoves,    \* bound: how often a player moves the object
    MaxChanges,  \* bound: splits and merges
    MaxQueue,    \* bound: packets of a zone waiting at the head
    MaxWaiting   \* bound: packets waiting at all the zones together when a
                 \* zone offers the object

Zones == 1..NZones
NoBox == <<>>
NoChunk == <<>>
NoZone == 0

ASSUME NZonesAssumption == NZones \in Nat \ {0}
ASSUME BootAssumption == Boot \in [Zones -> ProperBox \cup {NoBox}]
ASSUME WorldAssumption == World \subseteq Chunk /\ Home \in World
ASSUME HandoffBounds == {MaxMoves, MaxChanges, MaxQueue, MaxWaiting} \subseteq Nat

VARIABLES
    box,        \* box[z]: xMin..zMax of zone z
    copy,       \* copy[z]: the chunk of the object in z's registry, or NoChunk
    leased,     \* the zones with an entry for the object in entityOwnedUntil
    throttled,  \* the zones whose last offer is younger than HANDOFF_RETRY_MS
    ghost,      \* the zones that project the object as a ghost
    changed,    \* the zones whose object differs from lastSnapshot
    draining,   \* the zones that have read PKT_DRAIN
    table,      \* table[z]: the box of z in the head's activeZones, or NoBox
    state,      \* state[z]: the state of z in the head's registry
    toHead,     \* toHead[z]: packets of z the head has not handled
    toZone,     \* toZone[z]: packets of the head that z has not read
    asked,      \* asked[z]: the chunk to which a player asked z to move the
                \* object while the validator has not answered, or NoChunk
    moves, changes

zoneVars == <<box, copy, leased, throttled, ghost, changed, draining>>
headVars == <<table, state>>
requests == <<asked, moves>>
counters == <<requests, changes>>
vars == <<zoneVars, headVars, toHead, toZone, counters>>

Offers == [type : {"reassign", "entity", "ghost"}, chunk : Chunk]
Reports == [type : {"report"}, box : ProperBox]
Commands == [type : {"resize"}, box : ProperBox]
Signals == [type : {"routed", "unrouted", "drain", "drained", "delete"}]

Init ==
    /\ box = Boot
    /\ table = Boot
    /\ state = [z \in Zones |-> IF Boot[z] = NoBox THEN "spare" ELSE "ready"]
    /\ copy = [z \in Zones |-> IF Boot[z] # NoBox /\ Covers(Boot[z], Home)
                               THEN Home ELSE NoChunk]
    /\ leased = {z \in Zones : copy[z] # NoChunk}
    /\ throttled = {} /\ ghost = {} /\ draining = {}
    /\ changed = leased
    /\ toHead = [z \in Zones |-> <<>>]
    /\ toZone = [z \in Zones |-> <<>>]
    /\ asked = [z \in Zones |-> NoChunk]
    /\ moves = 0 /\ changes = 0

Holds(z) == copy[z] # NoChunk
Running(z) == box[z] # NoBox

-----------------------------------------------------------------------------
(* What a zone does on its own *)

(* A player asks to move an object that is in the registry: the validator  *)
(* decides.  One request of a zone waits at a time.                        *)
AskMove(z) ==
    /\ Holds(z) /\ asked[z] = NoChunk /\ moves < MaxMoves
    /\ \E c \in World \ {copy[z]} : asked' = [asked EXCEPT ![z] = c]
    /\ moves' = moves + 1
    /\ UNCHANGED <<zoneVars, headVars, toHead, toZone, changes>>

(* The MOVE is accepted: the object is put into its chunk, also one        *)
(* outside the box, and has a new lease.  It replaces the one in the       *)
(* registry, and is added if that was handed over in the meantime; a ghost *)
(* of it is not looked for.                                                *)
MoveObject(z) ==
    /\ asked[z] # NoChunk
    /\ copy' = [copy EXCEPT ![z] = asked[z]]
    /\ asked' = [asked EXCEPT ![z] = NoChunk]
    /\ leased' = leased \cup {z}
    /\ changed' = changed \cup {z}
    /\ UNCHANGED <<box, throttled, ghost, draining, headVars, toHead, toZone, moves, changes>>

(* An object outside the box is offered to the zone that covers its chunk, *)
(* and kept.                                                               *)
Offer(z) ==
    /\ Holds(z) /\ ~Covers(box[z], copy[z])
    /\ z \notin throttled
    /\ Len(toHead[z]) + 2 <= MaxQueue
    /\ Cardinality(UNION {{n} \X DOMAIN toZone[n] : n \in Zones}) <= MaxWaiting
    /\ throttled' = throttled \cup {z}
    /\ toHead' = [toHead EXCEPT ![z] = @ \o <<[type |-> "reassign", chunk |-> copy[z]],
                                              [type |-> "entity", chunk |-> copy[z]]>>]

checkAndTransfer(z) ==
    /\ Offer(z)
    /\ UNCHANGED <<box, copy, leased, ghost, changed, draining, headVars, toZone, counters>>

RetryIsDue(z) ==
    /\ z \in throttled
    /\ throttled' = throttled \ {z}
    /\ UNCHANGED <<box, copy, leased, ghost, changed, draining, headVars, toHead, toZone, counters>>

(* The neighbours see what is near the border, which in a box of a few     *)
(* chunks is everything.                                                   *)
emitGhostDeltas(z) ==
    /\ Holds(z) /\ z \in changed
    /\ Len(toHead[z]) + 1 <= MaxQueue
    /\ toHead' = [toHead EXCEPT ![z] = Append(@, [type |-> "ghost", chunk |-> copy[z]])]
    /\ changed' = changed \ {z}
    /\ UNCHANGED <<box, copy, leased, throttled, ghost, draining, headVars, toZone, counters>>

GhostExpires(z) ==
    /\ z \in ghost
    /\ ghost' = ghost \ {z}
    /\ UNCHANGED <<box, copy, leased, throttled, changed, draining, headVars, toHead, toZone, counters>>

(* The metrics carry the box.  One report of a zone is on its way at a     *)
(* time, and one that repeats what the head has, with no resize to come,   *)
(* is left out.                                                            *)
Report(z) ==
    /\ Running(z)
    /\ \A i \in DOMAIN toHead[z] : toHead[z][i].type # "report"
    /\ table[z] # box[z] \/ \E i \in DOMAIN toZone[z] : toZone[z][i].type = "resize"
    /\ toHead' = [toHead EXCEPT ![z] = Append(@, [type |-> "report", box |-> box[z]])]
    /\ UNCHANGED <<zoneVars, headVars, toZone, counters>>

-----------------------------------------------------------------------------
(* What a zone does with a packet of the head *)

Reads(z, type) ==
    /\ Running(z) /\ toZone[z] # <<>>
    /\ Head(toZone[z]).type = type
    /\ toZone' = [toZone EXCEPT ![z] = Tail(@)]

(* PKT_ENTITY_TRANSFER: the ghost is promoted, the copy replaced. *)
ZoneEntity(z) ==
    /\ Reads(z, "entity")
    /\ changed' = IF copy[z] = Head(toZone[z]).chunk THEN changed ELSE changed \cup {z}
    /\ copy' = [copy EXCEPT ![z] = Head(toZone[z]).chunk]
    /\ ghost' = ghost \ {z}
    /\ leased' = leased \cup {z}
    /\ UNCHANGED <<box, throttled, draining, headVars, toHead, counters>>

(* PKT_GHOST_DELTA: ignored when the object is ours. *)
ZoneGhost_shadow(z) ==
    /\ Reads(z, "ghost")
    /\ ghost' = ghost \cup {z}
    /\ UNCHANGED <<box, copy, leased, throttled, changed, draining, headVars, toHead, counters>>

ZoneGhost(z) ==
    /\ Reads(z, "ghost")
    /\ ghost' = IF Holds(z) THEN ghost ELSE ghost \cup {z}
    /\ UNCHANGED <<box, copy, leased, throttled, changed, draining, headVars, toHead, counters>>

(* PKT_REASSIGN, a request: we are the new owner, and wait for the state   *)
(* when we have none.                                                      *)
ZoneReassign(z) ==
    /\ Reads(z, "reassign")
    /\ leased' = IF Holds(z) THEN leased \cup {z} ELSE leased
    /\ UNCHANGED <<box, copy, throttled, ghost, changed, draining, headVars, toHead, counters>>

(* PKT_REASSIGN, an answer: let go when it was routed, whatever happened   *)
(* since; keep it when it was not.                                         *)
ZoneRouted_keeps(z) ==
    /\ Reads(z, "routed")
    /\ throttled' = throttled \ {z}
    /\ UNCHANGED <<box, copy, leased, ghost, changed, draining, headVars, toHead, counters>>

ZoneRouted(z) ==
    /\ Reads(z, "routed")
    /\ copy' = [copy EXCEPT ![z] = NoChunk]
    /\ leased' = leased \ {z}
    /\ throttled' = throttled \ {z}
    /\ changed' = changed \ {z}
    /\ UNCHANGED <<box, ghost, draining, headVars, toHead, counters>>

ZoneUnrouted(z) ==
    /\ Reads(z, "unrouted")
    /\ UNCHANGED <<zoneVars, headVars, toHead, counters>>

ZoneResize(z) ==
    /\ Reads(z, "resize")
    /\ box' = [box EXCEPT ![z] = Head(toZone[z]).box]
    /\ UNCHANGED <<copy, leased, throttled, ghost, changed, draining, headVars, toHead, counters>>

(* PKT_DRAIN: publish what we own, surrender the leases, acknowledge.  The *)
(* copy stays in the registry until the process exits.                     *)
ZoneDrain(z) ==
    /\ Reads(z, "drain")
    /\ draining' = draining \cup {z}
    /\ leased' = leased \ {z}
    /\ toHead' = [toHead EXCEPT ![z] =
                    @ \o (IF Holds(z) /\ z \in leased
                          THEN <<[type |-> "entity", chunk |-> copy[z]]>> ELSE <<>>)
                      \o <<[type |-> "drained"]>>]
    /\ UNCHANGED <<box, copy, throttled, ghost, changed, headVars, counters>>

(* PKT_DELETE_ZONE: the process exits. *)
ZoneDelete(z) ==
    /\ Reads(z, "delete")
    /\ box' = [box EXCEPT ![z] = NoBox]
    /\ copy' = [copy EXCEPT ![z] = NoChunk]
    /\ leased' = leased \ {z} /\ throttled' = throttled \ {z}
    /\ ghost' = ghost \ {z} /\ changed' = changed \ {z}
    /\ asked' = [asked EXCEPT ![z] = NoChunk]
    /\ UNCHANGED <<draining, headVars, toHead, moves, changes>>

-----------------------------------------------------------------------------
(* The head *)

isRoutable(z) == state[z] = "ready"

findTargetNode(c) ==
    LET S == {z \in Zones : isRoutable(z) /\ Covers(table[z], c)}
    IN  IF S = {} THEN NoZone ELSE CHOOSE z \in S : \A o \in S : z <= o

findNeighbors(z) ==
    {n \in Zones \ {z} : /\ state[z] \in {"ready", "draining"} /\ isRoutable(n)
                         /\ FaceNeighbours(table[z], table[n])}

Arrives(z, type) ==
    /\ toHead[z] # <<>>
    /\ Head(toHead[z]).type = type
    /\ toHead' = [toHead EXCEPT ![z] = Tail(@)]

Delivered(receivers, m) ==
    [n \in Zones |-> IF n \in receivers THEN Append(toZone[n], m) ELSE toZone[n]]

HeadGhost(z) ==
    /\ Arrives(z, "ghost")
    /\ toZone' = Delivered(findNeighbors(z), Head(toHead[z]))
    /\ UNCHANGED <<zoneVars, headVars, counters>>

(* PKT_REASSIGN: forwarded to another zone that covers the chunk, and the  *)
(* sender is told whether it was.                                          *)
HeadReassign(z) ==
    LET target == findTargetNode(Head(toHead[z]).chunk)
        routed == target # NoZone /\ target # z
        answer == [type |-> IF routed THEN "routed" ELSE "unrouted"]
    IN  /\ Arrives(z, "reassign")
        /\ toZone' = [n \in Zones |-> CASE n = z -> Append(toZone[n], answer)
                                        [] routed /\ n = target -> Append(toZone[n], Head(toHead[z]))
                                        [] OTHER -> toZone[n]]
        /\ UNCHANGED <<zoneVars, headVars, counters>>

(* PKT_ENTITY_TRANSFER: forwarded to the zone that covers the chunk, also  *)
(* when that is the sender; dropped when nobody does.                      *)
HeadEntity_notBack(z) ==
    /\ Arrives(z, "entity")
    /\ toZone' = Delivered({findTargetNode(Head(toHead[z]).chunk)} \ {NoZone, z}, Head(toHead[z]))
    /\ UNCHANGED <<zoneVars, headVars, counters>>

HeadEntity(z) ==
    /\ Arrives(z, "entity")
    /\ toZone' = Delivered({findTargetNode(Head(toHead[z]).chunk)} \ {NoZone}, Head(toHead[z]))
    /\ UNCHANGED <<zoneVars, headVars, counters>>

(* PKT_METRICS: the reported box replaces the one on record. *)
HeadReport(z) ==
    /\ Arrives(z, "report")
    /\ IF state[z] \in {"booting", "ready"}
       THEN /\ table' = [table EXCEPT ![z] = Head(toHead[z]).box]
            /\ state' = [state EXCEPT ![z] = "ready"]
       ELSE UNCHANGED <<table, state>>
    /\ UNCHANGED <<zoneVars, toZone, counters>>

(* The acknowledgement of a drain: the zone is deleted. *)
HeadDrained(z) ==
    /\ Arrives(z, "drained")
    /\ state' = [state EXCEPT ![z] = "destroyed"]
    /\ table' = [table EXCEPT ![z] = NoBox]
    /\ toZone' = Delivered({z}, [type |-> "delete"])
    /\ UNCHANGED <<zoneVars, counters>>

(* A split: the parent is told its half, a new zone boots with the other.  *)
(* The table keeps the parent's old box until the parent reports.          *)
Split(p, child) ==
    /\ changes < MaxChanges /\ isRoutable(p) /\ state[child] = "spare"
    /\ \E k \in PopulationCuts(table[p]) :
        /\ toZone' = Delivered({p}, [type |-> "resize", box |-> ParentBox(table[p], k)])
        /\ box' = [box EXCEPT ![child] = ChildBox(table[p], k)]
    /\ state' = [state EXCEPT ![child] = "booting"]
    /\ changes' = changes + 1
    /\ UNCHANGED <<copy, leased, throttled, ghost, changed, draining, table, toHead, requests>>

(* A merge: the survivor's record takes over the victim's range, the       *)
(* survivor is told to resize and the victim to drain.                     *)
Merge(victim, survivor) ==
    /\ changes < MaxChanges
    /\ isRoutable(victim) /\ isRoutable(survivor) /\ victim # survivor
    /\ \E a \in mergeableAxes(table[survivor], table[victim]) :
        LET wider == Resize(table[survivor], a, Hull(table[survivor][a], table[victim][a]))
        IN  /\ table' = [table EXCEPT ![survivor] = wider]
            /\ toZone' = [n \in Zones |->
                    CASE n = survivor -> Append(toZone[n], [type |-> "resize", box |-> wider])
                      [] n = victim -> Append(toZone[n], [type |-> "drain"])
                      [] OTHER -> toZone[n]]
    /\ state' = [state EXCEPT ![victim] = "draining"]
    /\ changes' = changes + 1
    /\ UNCHANGED <<zoneVars, toHead, requests>>

-----------------------------------------------------------------------------
ZoneReads(z) ==
    \/ ZoneEntity(z) \/ ZoneGhost(z) \/ ZoneReassign(z) \/ ZoneRouted(z) \/ ZoneUnrouted(z)
    \/ ZoneResize(z) \/ ZoneDrain(z) \/ ZoneDelete(z)

HeadHandles(z) ==
    \/ HeadGhost(z) \/ HeadReassign(z) \/ HeadEntity(z) \/ HeadReport(z) \/ HeadDrained(z)

Next ==
    \E z \in Zones :
        \/ AskMove(z) \/ MoveObject(z) \/ checkAndTransfer(z) \/ RetryIsDue(z)
        \/ emitGhostDeltas(z) \/ GhostExpires(z) \/ Report(z)
        \/ ZoneReads(z) \/ HeadHandles(z)
        \/ \E o \in Zones : Split(z, o) \/ Merge(z, o)

Spec == Init /\ [][Next]_vars

(* Both loops turn: the head serves every connection, a zone reads its     *)
(* socket, offers what is outside its box and reports on every tick.       *)
Fairness ==
    \A z \in Zones :
        /\ WF_vars(ZoneReads(z)) /\ WF_vars(HeadHandles(z))
        /\ WF_vars(checkAndTransfer(z)) /\ WF_vars(RetryIsDue(z)) /\ WF_vars(Report(z))

FairSpec == Spec /\ Fairness

-----------------------------------------------------------------------------
(* Properties *)

(* Zone z has the object after it has read i of the packets on their way,  *)
(* and is not told to let go of it before it drains and publishes it.      *)
KeepsFrom(z, i) ==
    LET q == toZone[z]
        DrainIn(k, l) == \E n \in k..l : q[n].type = "drain"
    IN  /\ IF i = 0 THEN Holds(z) ELSE q[i].type = "entity"
        /\ z \notin draining /\ ~DrainIn(1, i)
        /\ \A j \in i + 1..Len(q) : q[j].type = "routed" => DrainIn(i + 1, j)

Secure ==
    \E z \in Zones : \/ \E i \in DOMAIN toHead[z] : toHead[z][i].type = "entity"
                     \/ \E i \in 0..Len(toZone[z]) : KeepsFrom(z, i)

(* The hand-off is at-least-once (checkAndTransfer, "the entity stays      *)
(* here, owned and simulated, until the head answers"): whatever splits,   *)
(* merges, retries and crossings interleave, and as long as no connection  *)
(* breaks between the two packets of an offer and no process dies, the     *)
(* only step that can leave the object without a zone to keep it is the    *)
(* head's, when it finds no zone for the state it is to forward.           *)
OnlyUnroutableIsLost ==
    [][Secure /\ ~Secure' =>
            \E z \in Zones :
                HeadEntity(z) /\ findTargetNode(Head(toHead[z]).chunk) = NoZone]_vars

(* A zone projects a ghost of an object that it simulates itself. *)
Shadowed(z) == z \in ghost /\ Holds(z)

(* A zone does not come to project a ghost of an object that it simulates  *)
(* itself (ENTITY_TRANSFER promotes, GHOST_DELTA does not shadow), however *)
(* offers, answers, deltas and drains interleave.  One step breaks this:   *)
(* the verdict on a request that the zone made while it had the object,    *)
(* and that comes after it has handed the object over and has seen the     *)
(* ghost of it; it is added to the registry and the ghost stays.           *)
OnlyLateVerdictShadows ==
    [][\A z \in Zones :
            Shadowed(z)' /\ ~Shadowed(z) => MoveObject(z) /\ ~Holds(z)]_vars

(* Once nobody moves the object and the zones are left alone, no zone      *)
(* keeps an object outside its box: every offer ends in another zone.      *)
ComesToRest == <>[](\A z \in Zones : Holds(z) => Covers(box[z], copy[z]))
==============================================================================
