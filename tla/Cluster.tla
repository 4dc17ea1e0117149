------------------------------- MODULE Cluster -------------------------------
(***************************************************************************)
(* The head and its zones: the orchestrator of module Orchestrator, driven *)
(* by what arrives on its connections, and the zone processes that report  *)
(* to it and obey it.  The head is one thread and a zone handles one       *)
(* packet per tick, so a handler is one step; everything between the two   *)
(* is asynchronous.  A connection is a pair of FIFO queues: orch.out[fd]   *)
(* from the head, inbox[fd] to it.                                         *)
(***************************************************************************)
EXTENDS Orchestrator

CONSTANTS
    Boot,       \* port -> box of the zones deployed at the start, or NoBox
    FirstPort,  \* the initial nextNodePort
    Samples,    \* what the metrics of the zones show: see Sample
    Breakers,   \* zones whose validator breaker may open
    Asked,      \* chunks that clients ask the head about
    Slow,       \* zones that may take longer than the timers to answer
    MaxQueue,   \* bound: reports of a zone waiting at the head, and commands
                \* waiting at a zone that is asked to stretch
    MaxFaults   \* bound: crashes, broken connections and late drains

ASSUME BootAssumption == Boot \in [Ports -> ProperBox \cup {NoBox}]
ASSUME FirstPortAssumption == FirstPort \in Nat
ASSUME SamplesAssumption == Samples \subseteq Sample /\ Breakers \subseteq Ports
ASSUME AskedAssumption == Asked \subseteq Chunk
ASSUME SlowAssumption == Slow \subseteq Ports
ASSUME BoundsAssumption == MaxQueue \in Nat \ {0} /\ MaxFaults \in Nat

VARIABLES
    orch,      \* the head's orchestrator
    inbox,     \* inbox[fd]: packets of a zone the head has not handled
    up,        \* the zone processes that run
    link,      \* link[p]: the head's descriptor of zone p's connection
    zbox,      \* zbox[p]: the box zone p serves (xMin..zMax)
    draining,  \* draining[p]: the last DRAIN zone p obeyed, 0 if none
    faults     \* how many faults have happened

vars == <<orch, inbox, up, link, zbox, draining, faults>>

Packet ==
    [type : {"metrics"}, port : Ports, box : Box]
        \cup [type : {"status"}]
        \cup [type : {"ack"}, req : Nat]

Init ==
    /\ orch = InitOrchestrator(Boot, FirstPort)
    /\ inbox = [fd \in Fds |-> <<>>]
    /\ up = {}
    /\ link = [p \in Ports |-> NoFd]
    /\ zbox = [p \in Ports |-> NoBox]
    /\ draining = [p \in Ports |-> 0]
    /\ faults = 0

Linked(fd) == {p \in Ports : link[p] = fd}

-----------------------------------------------------------------------------
(* The head handles the next packet of a connection *)

Arrives(fd, type) ==
    /\ inbox[fd] # <<>>
    /\ Head(inbox[fd]).type = type
    /\ inbox' = [inbox EXCEPT ![fd] = Tail(@)]

(* PKT_METRICS *)
HeadMetrics(fd) ==
    /\ Arrives(fd, "metrics")
    /\ \E m \in Samples, restarted, sweepDue \in BOOLEAN :
        orch' \in evaluateServer(
                    updateNodeTopology(orch, fd, Head(inbox[fd]).port, Head(inbox[fd]).box),
                    fd, m, restarted, sweepDue)
    /\ UNCHANGED <<up, link, zbox, draining, faults>>

(* PKT_VALIDATOR_STATUS of a zone whose breaker is open; any other status  *)
(* changes nothing.                                                        *)
HeadValidatorStatus(fd) ==
    /\ Arrives(fd, "status")
    /\ orch' \in notifyValidatorDown(orch, fd)
    /\ UNCHANGED <<up, link, zbox, draining, faults>>

(* PKT_DRAIN with ack = 1 *)
HeadDrainAck(fd) ==
    /\ Arrives(fd, "ack")
    /\ orch' = handleZoneLifecycle(orch, fd, Head(inbox[fd]).req)
    /\ UNCHANGED <<up, link, zbox, draining, faults>>

(* receive() <= 0: the peer is gone and what arrived of it is handled. *)
HeadPeerGone(fd) ==
    /\ fd \in orch.open
    /\ Linked(fd) = {} /\ inbox[fd] = <<>>
    /\ orch' = CloseConnection(orch, fd)
    /\ UNCHANGED <<inbox, up, link, zbox, draining, faults>>

(* PKT_ZONE_QUERY from a client *)
ClientQuery(c) ==
    /\ orch' = HandleZoneQuery(orch, c)
    /\ \A fd \in Fds : \/ Len(orch'.out[fd]) <= Len(orch.out[fd])
                       \/ Len(orch'.out[fd]) <= MaxQueue
    /\ UNCHANGED <<inbox, up, link, zbox, draining, faults>>

-----------------------------------------------------------------------------
(* Time passes at the head *)

(* A window of 30 seconds or more may end.  The packets on their way to    *)
(* and from a zone that is not slow take a fraction of a second: they have *)
(* arrived by then, and the head knows the box of that zone.               *)
LongWait ==
    /\ \A fd \in Fds : \/ Linked(fd) \cap Slow # {}
                       \/ orch.out[fd] = <<>> /\ inbox[fd] = <<>>
    /\ \A i \in DOMAIN orch.zones : \A p \in Linked(orch.zones[i].fd) \ Slow :
            orch.zones[i].port = p /\ orch.zones[i].box = zbox[p]

(* EVAL_LIFECYCLE_SETTLE_S since the last operation on the zone *)
SettleEnds(fd) ==
    /\ orch.age[fd] = "settling"
    /\ LongWait
    /\ orch' = [orch EXCEPT !.age[fd] = "window"]
    /\ UNCHANGED <<inbox, up, link, zbox, draining, faults>>

(* EVAL_MERGE_WINDOW_S since the last operation on the zone *)
MergeWindowEnds(fd) ==
    /\ orch.age[fd] = "window"
    /\ LongWait
    /\ orch' = [orch EXCEPT !.age[fd] = "clear"]
    /\ UNCHANGED <<inbox, up, link, zbox, draining, faults>>

(* EVAL_MERGE_WINDOW_S of low load *)
LowLoadPersists(fd) ==
    /\ orch.low[fd] = "counting"
    /\ LongWait
    /\ orch' = [orch EXCEPT !.low[fd] = "elapsed"]
    /\ UNCHANGED <<inbox, up, link, zbox, draining, faults>>

(* EVAL_COOLDOWN_S since the last split *)
CooldownEnds(fd) ==
    /\ fd \in orch.cooling
    /\ LongWait
    /\ orch' = [orch EXCEPT !.cooling = @ \ {fd}]
    /\ UNCHANGED <<inbox, up, link, zbox, draining, faults>>

(* EVAL_DRAIN_TIMEOUT_S without an acknowledgement *)
DrainIsLate(fd) ==
    /\ orch.state[fd] = "DRAINING" /\ ~orch.drain[fd].late
    /\ faults < MaxFaults
    /\ orch' = [orch EXCEPT !.drain[fd].late = TRUE]
    /\ faults' = faults + 1
    /\ UNCHANGED <<inbox, up, link, zbox, draining>>

(* EVAL_ZONE_LEASE_S without metrics *)
LeaseExpires(fd) ==
    /\ fd \in Listed(orch) \ orch.stale
    /\ Linked(fd) \subseteq Slow /\ LongWait
    /\ orch' = [orch EXCEPT !.stale = @ \cup {fd}]
    /\ UNCHANGED <<inbox, up, link, zbox, draining, faults>>

-----------------------------------------------------------------------------
(* A zone process *)

(* A deployed zone starts, and starts again after a crash: always with the *)
(* box of its deployment.                                                  *)
ZoneBoot(p) ==
    /\ p \notin up /\ orch.deployed[p] # NoBox
    /\ up' = up \cup {p}
    /\ zbox' = [zbox EXCEPT ![p] = orch.deployed[p]]
    /\ UNCHANGED <<orch, inbox, link, draining, faults>>

(* connectToHead, and the head's accept *)
ZoneConnect(p) ==
    /\ p \in up /\ link[p] = NoFd
    /\ \E fd \in Fds \ orch.open :
        /\ link' = [link EXCEPT ![p] = fd]
        /\ orch' = AcceptConnection(orch, fd)
    /\ UNCHANGED <<inbox, up, zbox, draining, faults>>

(* There is room for one more packet of zone p at the head. *)
CanSend(p) == link[p] # NoFd /\ Len(inbox[link[p]]) < MaxQueue

Sends(p, m) == inbox' = [inbox EXCEPT ![link[p]] = Append(@, m)]

(* The periodic PKT_METRICS *)
ZoneReport(p) ==
    /\ CanSend(p)
    /\ Sends(p, [type |-> "metrics", port |-> p, box |-> zbox[p]])
    /\ UNCHANGED <<orch, up, link, zbox, draining, faults>>

(* The periodic PKT_VALIDATOR_STATUS, while the breaker is open *)
ZoneBreakerOpen(p) ==
    /\ p \in Breakers
    /\ CanSend(p)
    /\ Sends(p, [type |-> "status"])
    /\ UNCHANGED <<orch, up, link, zbox, draining, faults>>

(* Zone p reads the next packet the head wrote to it. *)
Reads(p, type) ==
    /\ link[p] # NoFd
    /\ orch.out[link[p]] # <<>>
    /\ Head(orch.out[link[p]]).type = type
    /\ orch' = [orch EXCEPT !.out[link[p]] = Tail(@)]

(* PKT_COMMAND: an inverted range is refused. *)
ZoneResize(p) ==
    /\ Reads(p, "resize")
    /\ LET m == Head(orch.out[link[p]])
       IN  zbox' = IF m.to.lo > m.to.hi THEN zbox
                   ELSE [zbox EXCEPT ![p] = Resize(@, m.axis, m.to)]
    /\ UNCHANGED <<inbox, up, link, draining, faults>>

(* PKT_RELOCATE_ZONE *)
ZoneRelocate(p) ==
    /\ Reads(p, "relocate")
    /\ LET c == Head(orch.out[link[p]]).chunk
       IN  zbox' = IF Covers(zbox[p], c) THEN zbox
                   ELSE [zbox EXCEPT ![p] = Stretch(@, c)]
    /\ UNCHANGED <<inbox, up, link, draining, faults>>

ZoneDrain_silent(p) ==
    /\ Reads(p, "drain")
    /\ draining' = [draining EXCEPT ![p] = Head(orch.out[link[p]]).req]
    /\ UNCHANGED <<inbox, up, link, zbox, faults>>

(* PKT_DRAIN: g_draining is set, the entities handed over, the drain       *)
(* acknowledged (an acknowledgement always fits in the queue).  Nothing    *)
(* ever clears g_draining.                                                 *)
ZoneDrain(p) ==
    /\ Reads(p, "drain")
    /\ draining' = [draining EXCEPT ![p] = Head(orch.out[link[p]]).req]
    /\ Sends(p, [type |-> "ack", req |-> Head(orch.out[link[p]]).req])
    /\ UNCHANGED <<up, link, zbox, faults>>

(* What the head may still read of a connection that has ended: what the   *)
(* zone sent last is lost with it, if it had not reached the head yet.     *)
CutOff(fd) ==
    IF fd = NoFd THEN {inbox}
    ELSE {[inbox EXCEPT ![fd] = SubSeq(@, 1, n)] : n \in 0..Len(inbox[fd])}

(* The connection of zone p ends.  The results of its sends are ignored    *)
(* and nothing is sent again: an acknowledgement may be lost for good.     *)
Disconnects(p) ==
    /\ link' = [link EXCEPT ![p] = NoFd]
    /\ inbox' \in CutOff(link[p])

(* The process is gone, with its connection and its memory. *)
Exits(p) ==
    /\ up' = up \ {p}
    /\ Disconnects(p)
    /\ zbox' = [zbox EXCEPT ![p] = NoBox]
    /\ draining' = [draining EXCEPT ![p] = 0]

(* PKT_DELETE_ZONE *)
ZoneDelete(p) ==
    /\ Reads(p, "delete")
    /\ Exits(p)
    /\ UNCHANGED faults

(* The backend stops the zone of a deployment that was deleted. *)
PodStopped(p) ==
    /\ p \in up /\ orch.deployed[p] = NoBox
    /\ Exits(p)
    /\ UNCHANGED <<orch, faults>>

ZoneCrash(p) ==
    /\ p \in up /\ faults < MaxFaults
    /\ Exits(p)
    /\ faults' = faults + 1
    /\ UNCHANGED orch

(* The connection breaks; the zone lives on and connects again. *)
LinkBreaks(p) ==
    /\ link[p] # NoFd /\ faults < MaxFaults
    /\ Disconnects(p)
    /\ faults' = faults + 1
    /\ UNCHANGED <<orch, up, zbox, draining>>

-----------------------------------------------------------------------------
HeadStep(fd) ==
    \/ HeadMetrics(fd) \/ HeadValidatorStatus(fd)
    \/ HeadDrainAck(fd) \/ HeadPeerGone(fd)

TimeStep(fd) ==
    \/ SettleEnds(fd) \/ MergeWindowEnds(fd) \/ LowLoadPersists(fd)
    \/ CooldownEnds(fd) \/ DrainIsLate(fd) \/ LeaseExpires(fd)

ZoneReads(p) ==
    ZoneResize(p) \/ ZoneRelocate(p) \/ ZoneDrain(p) \/ ZoneDelete(p)

ZoneStep(p) ==
    \/ ZoneBoot(p) \/ ZoneConnect(p) \/ ZoneReport(p) \/ ZoneBreakerOpen(p)
    \/ ZoneReads(p) \/ PodStopped(p) \/ ZoneCrash(p) \/ LinkBreaks(p)

Next ==
    \/ \E fd \in Fds : HeadStep(fd) \/ TimeStep(fd)
    \/ \E p \in Ports : ZoneStep(p)
    \/ \E c \in Asked : ClientQuery(c)

Spec == Init /\ [][Next]_vars

(* Every process keeps running its loop: the head handles what arrives, a  *)
(* zone starts, connects and reads its socket; the backend stops what was  *)
(* deleted.  Nothing is assumed of reports, timers, faults or clients.     *)
Fairness ==
    /\ \A fd \in Fds : WF_vars(HeadStep(fd))
    /\ \A p \in Ports : /\ WF_vars(ZoneBoot(p)) /\ WF_vars(ZoneConnect(p))
                        /\ WF_vars(ZoneReads(p)) /\ WF_vars(PodStopped(p))

FairSpec == Spec /\ Fairness

-----------------------------------------------------------------------------
(* Invariants *)

(* What the head and the zones keep is well formed at every moment; the    *)
(* replica counter, which every zone that leaves lowers, stays a natural.  *)
TypeOK ==
    /\ orch \in Orchestrators
    /\ inbox \in [Fds -> Seq(Packet)]
    /\ up \subseteq Ports
    /\ link \in [Ports -> Fds \cup {NoFd}]
    /\ zbox \in [Ports -> Box \cup {NoBox}]
    /\ draining \in [Ports -> Nat]
    /\ faults \in 0..MaxFaults

(* A zone that was evicted or destroyed is out of the registry for good:   *)
(* its late metrics never put it back (the guard in updateNodeTopology),   *)
(* and no descriptor is listed twice.                                      *)
RetiredNeverListed == Registered(orch)

(* The drain maps and the zone states agree whatever interleaving of       *)
(* acknowledgements, fail-safes and evictions ran: a zone is DRAINING      *)
(* exactly while a drain of it is recorded, it is listed all that time,    *)
(* and no two running drains share a request id.                           *)
DrainBookkeeping == DrainsRecorded(orch)

(* The box zone p will serve once it has read all that was written to it,  *)
(* and whether it is told to drain on the way: first what one packet does  *)
(* to a box.                                                               *)
Obey(b, m) ==
    CASE m.type = "resize"   -> IF m.to.lo > m.to.hi THEN b ELSE Resize(b, m.axis, m.to)
      [] m.type = "relocate" -> IF Covers(b, m.chunk) THEN b ELSE Stretch(b, m.chunk)
      [] OTHER               -> b

(* What a box becomes when the packets of q are read one after the other. *)
ObeyAll(b, q) ==
    LET after[n \in 0..Len(q)] == IF n = 0 THEN b ELSE Obey(after[n - 1], q[n])
    IN  after[Len(q)]

PlannedBox(p) ==
    IF p \notin up THEN orch.deployed[p]
    ELSE IF link[p] = NoFd THEN zbox[p]
    ELSE ObeyAll(zbox[p], orch.out[link[p]])

Leaving(p) ==
    \/ draining[p] # 0
    \/ link[p] # NoFd /\ \E i \in DOMAIN orch.out[link[p]] :
                            orch.out[link[p]][i].type = "drain"

Owners(c) ==
    {p \in Ports : /\ p \in up \/ orch.deployed[p] # NoBox
                   /\ ~Leaving(p)
                   /\ Covers(PlannedBox(p), c)}

World == {c \in [Axes -> -ChunkLimit..ChunkLimit] :
            \E p \in Ports : Boot[p] # NoBox /\ Covers(Boot[p], c)}

(* Two zones cannot share one chunk (trySplitDown) and no region is left   *)
(* without a zone (evaluateServer): in every order in which the metrics,   *)
(* resizes, drains and deletions of one zone, of the child it is split     *)
(* into and of the zone they are merged into again are handled, every      *)
(* chunk of the world has exactly one zone that stays and that will cover  *)
(* it once the commands on their way have arrived.  This is a property of  *)
(* a zone and the child of its own split, with zones that answer in time:  *)
(* it does not hold for every cluster.  A third zone that is split or      *)
(* merged at the same time, a crash, or a query for a chunk whose zone has *)
(* not registered, can each leave a chunk with two zones or with none.     *)
OneOwnerPerChunk == \A c \in World : Cardinality(Owners(c)) = 1

-----------------------------------------------------------------------------
(* Action properties *)

(* Zone p has obeyed the drain whose end the head awaits on connection fd, *)
(* and no acknowledgement of it is on the way.                             *)
Unanswered(p, fd) ==
    /\ link[p] = fd /\ orch.state[fd] = "DRAINING" /\ draining[p] = orch.drain[fd].req
    /\ ~\E i \in DOMAIN inbox[fd] :
            inbox[fd][i].type = "ack" /\ inbox[fd][i].req = draining[p]

(* As long as the connection of a zone holds the head does not come to     *)
(* wait for an answer that nobody will send (drainFailSafe, the handler of *)
(* PKT_DRAIN): whatever drains the fail-safe gave up before, were obeyed   *)
(* late and numbered again, the acknowledgement of the drain that runs is  *)
(* on the way from the moment the zone obeyed it until the head handles    *)
(* it.  Only a connection that broke takes it along: the zone is back on   *)
(* the descriptor, the drain still runs, nobody will answer it, and the    *)
(* fail-safe or an eviction has to end it.                                 *)
ObeyedIsAnswered ==
    [][\A p \in Ports, fd \in Fds :
            Unanswered(p, fd)' => Unanswered(p, fd) \/ link'[p] # link[p]]_vars

(* A zone is destroyed only when it has handed over its entities for the   *)
(* drain that is running: an acknowledgement of an earlier drain, one the  *)
(* fail-safe gave up on, does not count.                                   *)
DestroyedHasDrained ==
    [][\A fd \in Fds : orch.state[fd] # "DESTROYED" /\ orch'.state[fd] = "DESTROYED" =>
            \A p \in Linked(fd) : draining[p] = orch.drain[fd].req]_vars

(* However many zones fail at once, a merge or a reassignment never leaves *)
(* fewer than EVAL_MIN_REPLICAS zones serving; only an eviction can.       *)
ServingFloor ==
    [][routableZoneCount(orch') < routableZoneCount(orch) =>
            \/ routableZoneCount(orch') >= MinReplicas
            \/ \E fd \in Fds : orch.state[fd] # "DEAD" /\ orch'.state[fd] = "DEAD"]_vars

(* The answer to a query for a chunk nobody covered does not lie: the zone *)
(* it names will cover the chunk once it has read what the head wrote to   *)
(* it, however old the box is that the head had of it and whatever else is *)
(* on its way (relocateZoneTo and the zone stretch different boxes).       *)
RelocatedZoneCovers ==
    [][\A c \in Asked :
            ClientQuery(c) /\ findTargetNode(orch, c) = NoFd /\ findTargetNode(orch', c) # NoFd =>
                \A p \in Linked(findTargetNode(orch', c)) : Covers(PlannedBox(p)', c)]_vars

-----------------------------------------------------------------------------
(* Liveness *)

(* A drain that is acknowledged in time ends: a zone that obeyed it, and   *)
(* claims nothing any more, does not linger: the head destroys it and its  *)
(* process stops.  (A zone that obeyed a drain the fail-safe had given up  *)
(* on does linger: nothing ever clears g_draining.)                        *)
DrainEnds ==
    \A p \in Ports : draining[p] # 0 ~> p \notin up
==============================================================================
