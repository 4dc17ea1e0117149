---------------------------- MODULE Orchestrator ----------------------------
(***************************************************************************)
(* The head's Orchestrator: which zones are listed, the lifecycle state of *)
(* each, the queue of lifecycle operations, drains, splits, merges,        *)
(* reassignments and evictions.                                            *)
(*                                                                         *)
(* The class is one record, h, and each of its methods an operator from    *)
(* the record before the call to the record after it (or to the set of     *)
(* them, where the outcome depends on data that is abstracted away).       *)
(* Clock comparisons are abstracted to the phase a timer is in: a phase    *)
(* is entered when the code stamps the timer and left at any later moment. *)
(* The module Cluster composes it with the zones.                          *)
(***************************************************************************)
EXTENDS ChunkBox, Sequences, FiniteSets

CONSTANTS
    Fds,          \* descriptors of the head's connections to zones
    Ports,        \* zone processes, known to the head by their UDP port
    MinReplicas,  \* EVAL_MIN_REPLICAS
    MaxReq        \* bound: drains requested in a behaviour

ASSUME FdsAssumption == Fds \subseteq Nat /\ IsFiniteSet(Fds)
ASSUME PortsAssumption == Ports \subseteq Nat
ASSUME MinReplicasAssumption == MinReplicas \in Nat \ {0}
ASSUME MaxReqAssumption == MaxReq \in Nat

NoFd == -1
NoBox == <<>>
NoDrain == [req |-> 0, target |-> NoFd, late |-> FALSE]

ZoneState == {"READY", "DRAINING", "DEAD", "DESTROYED"}
LifecycleOp == {"SPLIT", "MERGE", "REASSIGN", "EVICT"}
Priority == [none |-> -1, SPLIT |-> 0, MERGE |-> 1, REASSIGN |-> 2, EVICT |-> 3]

(* What the head writes to a zone. *)
Message ==
    [type : {"resize"}, axis : Axes, to : Interval]
        \cup [type : {"relocate"}, chunk : Chunk]
        \cup [type : {"drain", "delete"}, req : Nat]

ZoneInfo == [fd : Fds, port : Ports, box : Box]

Drain == [req : Nat, target : Fds \cup {NoFd}, late : BOOLEAN]

Orchestrators ==
    [zones    : Seq(ZoneInfo),                 \* activeZones, in order
     state    : [Fds -> ZoneState],            \* zoneStates
     pending  : [Fds -> LifecycleOp \cup {"none"}],      \* pendingLifecycle
     age      : [Fds -> {"settling", "window", "clear"}], \* lastLifecycleMs
     low      : [Fds -> {"none", "counting", "elapsed"}], \* lowSinceMs
     drain    : [Fds -> Drain],                \* drainRequestId/Target/DeadlineMs
     stale    : SUBSET Fds,                    \* lastSeenMs beyond the lease
     floor    : SUBSET Fds,                    \* atSplitFloor
     cooling  : SUBSET Fds,                    \* lastScaleTime within the cooldown
     baseline : SUBSET Fds,                    \* metricRates[fd].haveBaseline
     lcSeq    : Nat \ {0},
     replicas : Nat,                           \* currentReplicas
     nextPort : Nat,                           \* nextNodePort
     deployed : [Ports -> Box \cup {NoBox}],   \* the deployments and their boxes
     open     : SUBSET Fds,                    \* nodeClients
     out      : [Fds -> Seq(Message)]]         \* written to fd and not yet read

InitOrchestrator(boot, first) ==
    [zones    |-> <<>>,
     state    |-> [fd \in Fds |-> "READY"],
     pending  |-> [fd \in Fds |-> "none"],
     age      |-> [fd \in Fds |-> "clear"],
     low      |-> [fd \in Fds |-> "none"],
     drain    |-> [fd \in Fds |-> NoDrain],
     stale    |-> {},
     floor    |-> {},
     cooling  |-> {},
     baseline |-> {},
     lcSeq    |-> 1,
     replicas |-> 1,
     nextPort |-> first,
     deployed |-> boot,
     open     |-> {},
     out      |-> [fd \in Fds |-> <<>>]]

-----------------------------------------------------------------------------
(* The registry *)

Listed(h) == {h.zones[i].fd : i \in DOMAIN h.zones}

IndexOf(h, fd) == CHOOSE i \in DOMAIN h.zones : h.zones[i].fd = fd

findZoneInfo(h, fd) == h.zones[IndexOf(h, fd)]

isRoutable(h, fd) == h.state[fd] \notin {"DRAINING", "DEAD", "DESTROYED"}

Routable(h) == {fd \in Listed(h) : isRoutable(h, fd)}

routableZoneCount(h) == Cardinality(Routable(h))

(* The first of the zones in S, in registration order. *)
FirstZone(h, S) ==
    IF S = {} THEN NoFd ELSE CHOOSE fd \in S : \A o \in S : IndexOf(h, fd) <= IndexOf(h, o)

findTargetNode(h, c) ==
    FirstZone(h, {fd \in Routable(h) : Covers(findZoneInfo(h, fd).box, c)})

SetBox(h, fd, b) == [h EXCEPT !.zones[IndexOf(h, fd)].box = b]

Send(h, fd, m) ==
    IF fd \in h.open THEN [h EXCEPT !.out[fd] = Append(@, m)] ELSE h

sendResizeCommand(h, fd, a, i) ==
    Send(h, fd, [type |-> "resize", axis |-> a, to |-> i])

(* The registration half of PKT_METRICS: the head's copy of the box is     *)
(* whatever the zone reports.                                              *)
updateNodeTopology_anyState(h, fd, port, b) ==
    LET seen == [h EXCEPT !.stale = @ \ {fd}]
    IN  IF fd \in Listed(h)
        THEN [seen EXCEPT !.zones[IndexOf(h, fd)] = [fd |-> fd, port |-> port, box |-> b]]
        ELSE [seen EXCEPT !.zones = Append(@, [fd |-> fd, port |-> port, box |-> b])]

updateNodeTopology(h, fd, port, b) ==
    LET seen == [h EXCEPT !.stale = @ \ {fd}]
    IN  IF fd \in Listed(h)
        THEN [seen EXCEPT !.zones[IndexOf(h, fd)] = [fd |-> fd, port |-> port, box |-> b]]
        ELSE IF ~isRoutable(h, fd) THEN seen
        ELSE [seen EXCEPT !.zones = Append(@, [fd |-> fd, port |-> port, box |-> b])]

(* vector::erase of the zone's entry. *)
Without(s, i) == [j \in 1..Len(s) - 1 |-> IF j < i THEN s[j] ELSE s[j + 1]]

removeFromActiveZones(h, fd) ==
    [h EXCEPT !.floor = @ \ {fd},
              !.zones = IF fd \in Listed(h) THEN Without(@, IndexOf(h, fd)) ELSE @]

deleteZoneNode(h, fd) ==
    IF fd \in Listed(h)
    THEN [h EXCEPT !.deployed[findZoneInfo(h, fd).port] = NoBox]
    ELSE h

(* Routable zones that cover chunk c on every axis but the first. *)
AlignedWith(h, c) ==
    {fd \in Routable(h) : \A a \in Axes \ {1} :
        LET i == findZoneInfo(h, fd).box[a] IN i.lo <= c[a] /\ c[a] <= i.hi}

relocateZoneTo_headOnly(h, c) ==
    LET best == FirstZone(h, Routable(h))
    IN  IF best = NoFd THEN h ELSE SetBox(h, best, Stretch(findZoneInfo(h, best).box, c))

(* A chunk nobody covers is given to the first routable zone aligned with  *)
(* it, else to the first routable one.                                     *)
relocateZoneTo(h, c) ==
    LET best == FirstZone(h, IF AlignedWith(h, c) # {} THEN AlignedWith(h, c) ELSE Routable(h))
    IN  IF best = NoFd THEN h
        ELSE Send(SetBox(h, best, Stretch(findZoneInfo(h, best).box, c)),
                  best, [type |-> "relocate", chunk |-> c])

(* PKT_ZONE_QUERY *)
HandleZoneQuery(h, c) ==
    IF findTargetNode(h, c) = NoFd THEN relocateZoneTo(h, c) ELSE h

(* Face neighbours that can take part in a merge, in registration order. *)
Neighbours(h, fd) ==
    {n \in Routable(h) \ {fd} :
        /\ h.state[n] = "READY"
        /\ FaceNeighbours(findZoneInfo(h, fd).box, findZoneInfo(h, n).box)}

-----------------------------------------------------------------------------
(* Draining a zone *)

absorbRegion_headOnly(h, survivor, victim) ==
    LET s == findZoneInfo(h, survivor).box
        v == findZoneInfo(h, victim).box
        a == CHOOSE x \in mergeableAxes(s, v) : TRUE
    IN  IF mergeableAxes(s, v) = {} THEN h
        ELSE SetBox(h, survivor, Resize(s, a, Hull(s[a], v[a])))

absorbRegion(h, survivor, victim) ==
    LET s == findZoneInfo(h, survivor).box
        v == findZoneInfo(h, victim).box
    IN  IF mergeableAxes(s, v) = {} THEN h
        ELSE LET a == CHOOSE x \in mergeableAxes(s, v) : TRUE
                 i == Hull(s[a], v[a])
             IN  sendResizeCommand(SetBox(h, survivor, Resize(s, a, i)), survivor, a, i)

(* The drain tryMergeDown and tryReassign start: the victim retires, the   *)
(* survivor takes its range and is told so, the victim is asked to drain.  *)
StartDrain(h, victim, survivor) ==
    LET marked == [h EXCEPT !.lcSeq = @ + 1,
                            !.drain[victim] = [req |-> h.lcSeq, target |-> survivor,
                                               late |-> FALSE],
                            !.state = [@ EXCEPT ![victim] = "DRAINING",
                                                ![survivor] = "READY"],
                            !.age = [@ EXCEPT ![victim] = "settling",
                                              ![survivor] = "settling"]]
    IN  Send(absorbRegion(marked, survivor, victim), victim,
             [type |-> "drain", req |-> h.lcSeq])

(* The smallest and the largest of the zones in S, the first registered    *)
(* when several are.                                                       *)
Volume(h, fd) == zoneVolume(findZoneInfo(h, fd).box)

Smallest(h, S) ==
    {n \in S : \A m \in S : \/ Volume(h, n) < Volume(h, m)
                            \/ /\ Volume(h, n) = Volume(h, m)
                               /\ IndexOf(h, n) <= IndexOf(h, m)}

Largest(h, S) ==
    {n \in S : \A m \in S : \/ Volume(h, n) > Volume(h, m)
                            \/ /\ Volume(h, n) = Volume(h, m)
                               /\ IndexOf(h, n) <= IndexOf(h, m)}

(* What an operation of the queue left behind, and whether it acted. *)
Outcome(h, acted) == [h |-> h, acted |-> acted]

CanGiveUpZone_anyCount(h, fd) ==
    /\ h.lcSeq <= MaxReq
    /\ h.state[fd] = "READY"
    /\ fd \in Listed(h)

CanGiveUpZone(h, fd) ==
    /\ h.lcSeq <= MaxReq
    /\ routableZoneCount(h) > MinReplicas
    /\ h.state[fd] = "READY"
    /\ fd \in Listed(h)

tryMergeDown(h, fd) ==
    IF ~(CanGiveUpZone(h, fd) /\ h.age[fd] = "clear") THEN {Outcome(h, FALSE)}
    ELSE IF Neighbours(h, fd) = {} THEN {Outcome([h EXCEPT !.low[fd] = "none"], FALSE)}
    ELSE IF h.low[fd] = "none" THEN {Outcome([h EXCEPT !.low[fd] = "counting"], FALSE)}
    ELSE IF h.low[fd] = "counting" THEN {Outcome(h, FALSE)}
    ELSE {Outcome(StartDrain([h EXCEPT !.low[fd] = "none"], victim, fd), TRUE) :
            victim \in Smallest(h, Neighbours(h, fd))}

(* The failing zone is the victim.  The caller counts it as having acted   *)
(* whether or not a neighbour was found.                                   *)
tryReassign(h, fd) ==
    IF CanGiveUpZone(h, fd) /\ Neighbours(h, fd) # {}
    THEN {Outcome(StartDrain(h, fd, survivor), TRUE) :
            survivor \in Largest(h, Neighbours(h, fd))}
    ELSE {Outcome(h, TRUE)}

Retire_uncounted(h, fd, s) ==
    [removeFromActiveZones(h, fd) EXCEPT
        !.state[fd] = s, !.drain[fd] = NoDrain, !.replicas = @ - 1]

(* What an eviction and a confirmed drain have in common. *)
Retire(h, fd, s) ==
    [removeFromActiveZones(h, fd) EXCEPT
        !.state[fd] = s,
        !.drain[fd] = NoDrain,
        !.replicas = IF @ > 0 THEN @ - 1 ELSE @]

evictStaleZone(h, fd) ==
    Retire(IF h.state[fd] = "DESTROYED" THEN h ELSE deleteZoneNode(h, fd), fd, "DEAD")

handleZoneLifecycle_anyRequest(h, fd, req) ==
    IF h.state[fd] # "DRAINING" THEN h
    ELSE Send([Retire(deleteZoneNode(h, fd), fd, "DESTROYED")
                  EXCEPT !.age[fd] = "settling"],
              fd, [type |-> "delete", req |-> req])

(* The ack of a PKT_DRAIN: only the drain that is running is confirmed. *)
handleZoneLifecycle(h, fd, req) ==
    IF h.state[fd] # "DRAINING" \/ h.drain[fd].req \notin {0, req} THEN h
    ELSE Send([Retire(deleteZoneNode(h, fd), fd, "DESTROYED")
                  EXCEPT !.age[fd] = "settling"],
              fd, [type |-> "delete", req |-> req])

-----------------------------------------------------------------------------
(* Splitting a zone *)

(* spawnZoneNode: the backend may refuse, and refuses when the model has   *)
(* no process left.                                                        *)
SpawnZoneNode(h, b) ==
    {[h EXCEPT !.deployed[p] = b, !.nextPort = @ + 1, !.replicas = @ + 1] :
        p \in Ports \cap {h.nextPort}}

Cuts(b) == PopulationCuts(b) \cup GeometricCuts(b)

(* The population that selects the cut is abstracted to the cuts it can    *)
(* select (module SplitCut has the selection).                             *)
trySplitDown(h, fd) ==
    IF fd \notin Listed(h) \/ h.state[fd] # "READY" \/ fd \in h.cooling
    THEN {Outcome(h, FALSE)}
    ELSE LET b == findZoneInfo(h, fd).box
         IN  IF \A a \in Axes : Width(b, a) < 1
             THEN {Outcome([h EXCEPT !.floor = @ \cup {fd}], FALSE)}
             ELSE LET roomy == [h EXCEPT !.floor = @ \ {fd}]
                  IN  {Outcome(roomy, FALSE)} \cup
                      UNION {{Outcome(sendResizeCommand([s EXCEPT !.cooling = @ \cup {fd}],
                                        fd, k.axis, ParentBox(b, k)[k.axis]), TRUE) :
                                s \in SpawnZoneNode(roomy, ChildBox(b, k))} : k \in Cuts(b)}

-----------------------------------------------------------------------------
(* The lifecycle queue *)

Scaling == {"MERGE", "SPLIT"}

enqueueLifecycle(h, fd, op) ==
    IF \/ Priority[op] > Priority[h.pending[fd]]
       \/ (op \in Scaling /\ h.pending[fd] \in Scaling)
    THEN [h EXCEPT !.pending[fd] = op] ELSE h

sweepStaleZones(h) ==
    [h EXCEPT !.pending = [fd \in Fds |->
        IF fd \in Listed(h) \cap h.stale THEN "EVICT" ELSE @[fd]]]

Settled(h) == {fd \in Fds : h.pending[fd] # "none" /\ h.age[fd] # "settling"}

(* The operation that runs: the highest priority among the zones that have *)
(* settled, the lowest descriptor when several have it.                    *)
NextOp(h) ==
    {fd \in Settled(h) : \A o \in Settled(h) :
        \/ Priority[h.pending[o]] < Priority[h.pending[fd]]
        \/ (h.pending[o] = h.pending[fd] /\ fd <= o)}

RunOp(h, fd, op) ==
    CASE op = "EVICT"    -> {Outcome(evictStaleZone(h, fd), TRUE)}
      [] op = "REASSIGN" -> tryReassign(h, fd)
      [] op = "MERGE"    -> tryMergeDown(h, fd)
      [] op = "SPLIT"    -> trySplitDown(h, fd)

processLifecycleQueue(h) ==
    IF Settled(h) = {} THEN {h}
    ELSE UNION {{IF r.acted THEN [r.h EXCEPT !.age[fd] = "settling"] ELSE r.h :
                    r \in RunOp([h EXCEPT !.pending[fd] = "none"], fd, h.pending[fd])} :
                fd \in NextOp(h)}

-----------------------------------------------------------------------------
(* Evaluating a metrics sample *)

drainFailSafe_keepsDrain(h, fd) ==
    IF h.state[fd] = "DRAINING" /\ h.drain[fd].late
    THEN [h EXCEPT !.state[fd] = "READY"] ELSE h

drainFailSafe(h, fd) ==
    IF h.state[fd] = "DRAINING" /\ h.drain[fd].late
    THEN [h EXCEPT !.state[fd] = "READY", !.drain[fd] = NoDrain]
    ELSE h

TrackLow(h, fd, low) ==
    [h EXCEPT !.low[fd] = IF ~low THEN "none"
                          ELSE IF @ = "none" THEN "counting" ELSE @]

(* What the rates and thresholds make of a sample: whether the zone is     *)
(* under-used, and the strongest signal it gives.  The two are             *)
(* independent: a zone of few entities can be over its tick budget.        *)
Sample == [low : BOOLEAN, signal : {"failing", "loaded", "calm"}]

Triggers(h, fd, signal) ==
    CASE signal = "failing" -> enqueueLifecycle(h, fd, "REASSIGN")
      [] signal = "loaded"  -> IF fd \in h.floor THEN h
                               ELSE enqueueLifecycle(h, fd, "SPLIT")
      [] signal = "calm"    -> IF h.low[fd] # "none"
                               THEN enqueueLifecycle(h, fd, "MERGE") ELSE h

(* evaluateServer: a first sample, or one that shows another start time,   *)
(* only sets the baseline; every sample lets one queued operation run.     *)
evaluateServer(h, fd, m, restarted, sweepDue) ==
    LET safe    == drainFailSafe(h, fd)
        swept   == IF sweepDue THEN sweepStaleZones(safe) ELSE safe
        tracked == TrackLow(swept, fd, m.low)
    IN  IF fd \notin h.baseline
        THEN processLifecycleQueue([tracked EXCEPT !.baseline = @ \cup {fd}])
        ELSE IF restarted THEN processLifecycleQueue(tracked)
        ELSE processLifecycleQueue(Triggers(tracked, fd, m.signal))

(* PKT_VALIDATOR_STATUS with an open breaker. *)
notifyValidatorDown(h, fd) ==
    processLifecycleQueue(enqueueLifecycle(h, fd, "REASSIGN"))

-----------------------------------------------------------------------------
(* Connections: the orchestrator is told of neither event. *)

AcceptConnection(h, fd) ==
    [h EXCEPT !.open = @ \cup {fd}, !.out[fd] = <<>>]

CloseConnection(h, fd) ==
    [h EXCEPT !.open = @ \ {fd}, !.out[fd] = <<>>]

-----------------------------------------------------------------------------
(* What the registry and the drains of a sound orchestrator look like *)

Registered(h) ==
    /\ \A fd \in Listed(h) : h.state[fd] \in {"READY", "DRAINING"}
    /\ \A i, j \in DOMAIN h.zones : h.zones[i].fd = h.zones[j].fd => i = j

DrainsRecorded(h) ==
    /\ \A fd \in Fds : h.state[fd] = "DRAINING" <=> h.drain[fd] # NoDrain
    /\ \A fd \in Fds : h.state[fd] = "DRAINING" =>
            /\ fd \in Listed(h)
            /\ h.drain[fd].req \in 1..h.lcSeq - 1
            /\ h.drain[fd].target # fd
    /\ \A fd, o \in Fds : h.state[fd] = "DRAINING" /\ h.drain[fd].req = h.drain[o].req => fd = o
=============================================================================
