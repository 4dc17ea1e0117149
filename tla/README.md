# A TLA+ verification of DGS

DGS is a distributed game server. The world is a grid of chunks, a *zone* server simulates the
entities of a box of chunks, and a *head* server knows which zone covers which box, sends clients
to the right zone, and scales: it splits overloaded zones, merges idle ones, moves the region of a
failing zone to a neighbour, evicts zones that stop reporting. Around them stand a validator (an
arbiter of suspicious updates), a persistence node (MongoDB), a social node (guilds, bans, chat)
and a client library.

This directory holds the models of that code, the TLC runs that check them on small instances, and
proofs checked by TLAPS that hold for every instance. Paths are relative to the repository; the
lines each definition models are under `map` in `PROJECT.json`. In the text below
`O` is `include/dgs/orchestrator.h`, `H` is `nodes/head_server_node.cpp`, `Z` is
`nodes/zone_node.cpp`, `V`, `P` and `S` are the validator, persistence and social nodes, `N` is
`src/network.cpp` and `C` is `src/client.cpp`.

## 1. The system

### Parts, the state they keep and what they do

| Part | State | Operations |
|---|---|---|
| **Orchestrator** (`O`, owned by the head) | `activeZones`, and maps keyed by descriptor: `zoneStates`, `pendingLifecycle`, `lastLifecycleMs`, `lastSeenMs`, `lowSinceMs`, `lastScaleTime`, `atSplitFloor`, the three drain maps, metric baselines; counters `lcSeq`, `currentReplicas`, `nextNodePort` | register a zone from its metrics, route a chunk, relocate, evaluate a sample, queue an operation, run the queue, split, merge, reassign, evict, confirm a drain, spawn and delete zone nodes |
| **Head** (`H`) | `nodeClients`, the auth gate, an orchestrator | one epoll thread; one handler per packet type. `PKT_METRICS`, `PKT_VALIDATOR_STATUS`, `PKT_DRAIN` and `PKT_ZONE_QUERY` change the orchestrator; `PKT_REASSIGN`, `PKT_ENTITY_TRANSFER`, `PKT_ZONE_REGION`, `PKT_GHOST_DELTA` only forward; `PKT_ZONE_LIST` reads |
| **Zone** (`Z`) | its box, `entities`, leases (`entityOwnedUntil`), ghosts, hand-offs in progress, pending validations, the breaker, bans, clients, observers, `g_draining` | a tick: take the persistence link, drain UDP, validator answers, breaker, social packet, timeouts and retries, one head packet, expiries, write-through, simulation, hand-off of what left the box, ghost deltas, broadcast, metrics and status |
| **Validator** (`nodes/validador_node.cpp`) | last known position per entity, a rules module | request to verdict; moves fall back to a generic rule, actions are refused when in doubt |
| **Persistence** (`nodes/persistance_node.cpp`) | MongoDB collections | upserts, range queries, social and account records |
| **Social** (`nodes/social_node.cpp`) | guilds, parties, friends, bans, permissions, a sequence number per channel, chat rate limits | deltas, account actions, chat; a restore at the start with a deadline; replay to new subscribers |
| **Client library** (`src/client.cpp`) | session, zone address, three loops | login, zone query, UDP updates, chat, actions |
| **Transport** (`src/network.cpp`, `src/packet.cpp`, `include/dgs/auth.h`) | per-connection buffers and TLS state, replay windows, seen nonces | framing of a stream, sealing of datagrams, authentication of nodes |
| **Thread pool, logger** | a task queue under a mutex; a file | enqueue, stop and join |
| **Spawn backends** | child processes, Kubernetes or Terraform objects | start and delete a zone node |

### How they interact

Nodes share nothing but TCP connections (clients and zones also speak UDP). A connection is FIFO
in each direction and independent of every other one. The head handles one packet at a time to
completion; a zone reads one head packet per tick. The orchestrator is not told of connections
that open or close: a zone exists for it when its metrics arrive and for as long as they keep
arriving.

A **split** is a resize command to the parent (`PKT_COMMAND`), and a new process that boots with
the other half, connects and reports; the head does not touch its own copy of the parent's box,
which changes when the parent reports again. A **merge** or a **reassignment** is a *drain*: the
head marks the victim DRAINING, gives its range to the survivor, tells the survivor to resize and
the victim to drain (`PKT_DRAIN`, with a request id); the victim hands over what it has and
acknowledges; the head deletes its deployment and tells it to leave (`PKT_DELETE_ZONE`). A drain
not acknowledged in time is given up and the zone is READY again.

### What is hard

* Everything the head knows about a zone is a report that was true when it was sent. Commands and
  reports cross on the wire, and a report overwrites the head's newer copy of the box.
* A drain is four packets between two loops, with a timer on one side only.
* The head's maps are keyed by descriptor. The kernel gives descriptors out again, and a zone that
  reconnects has two.
* Several zones may fail, or be idle, at the same time, and one queue serves them all.
* The split point is computed from a histogram that another process quantised.
* Entities cross borders through the head in two packets; verdicts arrive late; restored state
  meets live state.

The hazards, each at its line with the properties that would catch it, are listed in
`PROJECT.json`; a hazard without a property says there why.

### What would make each part correct

| Part | Correctness |
|---|---|
| Registry | a zone that was evicted or destroyed stays out; no descriptor is listed twice |
| Drains | a zone is destroyed only for the drain that is running and after it handed over; drain records and states agree; the head does not wait for an answer nobody will send unless the connection took it along; a drain acknowledged in time ends |
| Scaling | a zone and the child of its split own every chunk exactly once between them; a minimum of zones keeps serving |
| Relocation | the zone named to a client will cover the chunk |
| Split cut | the two parts are a partition; the cut is as fair as the chunks allow |
| Hand-off | an object a zone gives away is kept until it is routed; it comes to rest in a zone that covers it; a zone shows a ghost of what it owns only when a verdict comes too late |
| Validation | an object is created only by a verdict about that object; every request ends; the breaker closes again |
| Restore | nothing newer than the save is overwritten; the world outlives its leases; what rests is stored |
| Social | zones follow the node's bans; a ban survives a restart; a guild is overheard only by who claims to be a member |
| Client | it keeps the zone that was named for its chunk, finds the zone that covers the chunk it has walked to, and can be stopped |
| Framing | packets come out whole, in order, as they went in |
| Auth, pool | only authenticated peers issue privileged packets; every task runs, every worker stops |

## 2. The modules

| Module | What it models |
|---|---|
| `ChunkBox` | the geometry of `O`: boxes of chunks in any number of axes, covering, neighbours, volume, `mergeableAxis`, hulls, stretching, cuts |
| `SplitCut` | `trySplitDown`'s choice of the cut together with the zone's histogram, over successive splits of a region in which entities walk |
| `Orchestrator` | the class of `O`: its fields are one record, each method an operator from the record before the call to the record (or the set of records) after it |
| `Cluster` | the head's handlers, the connections, the zones' control side, timers, crashes and restarts, composed with `Orchestrator` |
| `Handoff` | one world-owned object across the zones: the offer in two packets, the head's routing, acknowledgements, retries, ghosts, what a drain hands over, under splits and merges |
| `ZoneValidation` | a zone's requests to the validator, retries, verdicts and what they change, the circuit breaker and the re-dialling, with the validator and its rules module at the other end |
| `Restore` | a zone's registry, the worker that dials persistence and restores, the merge, the write-through, the collector of leases, and the entity store |
| `Social` | the social node with its restore, subscribers and players, its zones, and the social store |
| `Stream` | `TCPSocket::send` and `receive` byte by byte, several sending threads on one connection |
| `PacketFifo` | what `Stream` implements: a queue of whole packets |
| `Client` | the client library's caller and receive threads, the zone query, the announcement of a crossing, connect and disconnect |
| `MCSplitCut`, `MCCluster`, `MCHandoff`, `MCStream` | instances TLC runs; the other modules need only the values of a `.cfg` |
| `SplitCut_proofs` | where a split cuts: buckets, histograms, the three tiers, the fairest cut |
| `Cluster_proofs` | merges; every method of `Orchestrator`; then the composed system: registry, drains, acknowledgements, zones in service, queries |
| `Handoff_proofs`, `ZoneValidation_proofs`, `Restore_proofs`, `Social_proofs`, `Stream_proofs`, `Client_proofs` | the safety properties of the module of that name, each with its inductive invariant |

### Correspondence with the code

*`Orchestrator`.* `h.zones` is `activeZones` in registration order, which is the order ties are
broken in. `state`, `pending`, `floor`, `lcSeq`, `replicas`, `nextPort` are the members of the same
meaning; `drain[fd]` is `drainRequestId`, `drainTarget` and `drainDeadlineMs` together. `open` is
the head's `nodeClients`, `out[fd]` what was written to a descriptor and not yet read by the zone,
`deployed` what the spawn backend runs. Operators keep the names of the methods. A method that
returns "acted" gives an `Outcome`, because `processLifecycleQueue` stamps the settle window only
when an operation acted.

*`SplitCut`.* `people` is the zone's registry: mostly entities inside `box`, and at most `MaxStray`
that have walked out or were cut off and await the acknowledgement of their hand-off. The histogram
counts them like the others, in the first or last bucket (Z:2224-2247).

*`Cluster`.* `inbox[fd]` is what a zone sent that the head has not handled. A connection that ends,
by a fault, a crash or the exit of the zone, takes along what the head had not received
(`Disconnects` keeps any prefix of `inbox[fd]`): the zone ignores the result of sending an
acknowledgement (Z:1959) and sends nothing again after `connectToHead` (Z:1701, Z:2289). `up`,
`link`, `zbox`, `draining` are a zone process, its head socket, `xMin..zMax` and `g_draining` (with
the request it obeyed, so that properties can name it). One action is one handler: `HeadMetrics` is
the whole of `PKT_METRICS`: registration, fail-safe, sweep, evaluation and one operation of the
queue.

*`Handoff`.* `copy[z]` is the chunk of the object in the registry of zone z, `leased` the zones with
it in `entityOwnedUntil`, `throttled` those with it in `handoffLastTry` and the retry not yet due,
`changed` those whose next `emitGhostDeltas` has something to say, `asked` the moves that players
have asked a zone for and the validator has not yet decided (`pendingValid` with `applyOnAccept`):
the verdict may come when the object has been handed over, and the zone then adds it again (Z:1552).
`table` and `state` are the part of the orchestrator that routes; `Split` and `Merge` are the two
commands of `Cluster` that move boxes, without the decision that leads to them. Order matters and is
kept: the request and the state are two packets that the head routes one after the other by the
table of that moment.

*`ZoneValidation`.* `pending` is `pendingValid`, `cbState`, `cbOpenCount`, `validated` the variables
of that name, `cbWindow` says that `cbOpenUntil` is in the future. `link` distinguishes a connection
whose peer is gone and on which the next send still succeeds (`"half"`) from one on which it fails.
Every retry has the id `Resent`: it is one that no entry of `pendingValid` has.

*`Restore` and `Social`* have a worker thread (`linkThread`) whose result the loop takes at its next
turn (`linkReady`, `linkPending`, `restoreMerged`). A restart forgets all but the database; what the
earlier life had written to its socket still arrives (`late`), through a connection of its own,
interleaved with the new one. An entity is its id and a version. In `Restore` `worker = "stale"` is
a connected socket whose peer died before the tick took it: the zone then believes in a link that
the next send finds broken. The registry changes by reports, accepted actions,
entities handed over by another zone (`ObjectArrives`; like a report and unlike an accepted action it
touches `lastActiveSeen`), refused verdicts and acknowledged hand-offs (`Evicted`, which do not). In
`Social` `named[c]` is `g_fdUuid`, whatever uuid the last message on the connection claimed (S:220),
`who[c]` the player who sits behind it, and `liars` the connections on which the two have differed.

*`Stream`.* A byte is the pair of its message and its place in the frame, so that the model can say
what a reader that has lost the frame boundary reads: a prefix made of the wrong bytes stands for
any length. `PrefixLen` stands for the 4 bytes of the real prefix.

*`Client`.* `asking` is the caller in `queryZone` with the lock released; `zoneAnswered` and
`zoneResp` are the slot that the receive thread fills. `announce` is the phase of
`m_announceUntilMs`. The head is its table of owners, which `OwnerChanges` changes: what splits,
merges, reassignments, registrations and deaths do to a chunk. `moved` remembers the chunks that
changed hands after the client had asked about them.

### What is abstracted

* **Clocks.** A timer is the phase it is in. The stamp enters a phase (`"settling"`,
  `"counting"`, `cooling`, `stale` ...), an action of its own leaves it at any later moment.
  Windows of 30 seconds and more may end only when packets of the zones that are not in `Slow`
  have been delivered (`LongWait`): a packet does not take half a minute unless its zone is slow.
  The drain deadline and a zone in `Slow` are the cases where it does.
* **Metrics.** Rates, weights and thresholds are the two things they decide: whether the zone is
  under-used (`low`) and the strongest signal (`failing`, `loaded`, `calm`). The two are
  independent, as in the code. Any sample may show another start time (`restarted`).
* **The population** that selects a cut is, in `Orchestrator`, the set of cuts it can select;
  `SplitCut` has the selection itself.
* **Spawning** succeeds on `nextNodePort` or fails; names, pids and manifests are left out.
* **One of a kind.** `Handoff` follows one object, `Restore` and `ZoneValidation` a few: entities of
  the code never read each other's state.
* **Verdicts and rules.** A verdict is any the rules can give; the speed limit S1 is a position that
  is not served. A retry of a movement has no elapsed time, and the fallback rule passes it.
* **Packets** whose handlers change no modelled state are left out (see section 6).

## 3. The runs

The passing runs and what they show:

| Run | Instance | Distinct states | Shows |
|---|---|---|---|
| `population` | 2 axes, boxes up to 5 x 2 chunks on both sides of the origin, 4 buckets, up to 4 entities (symmetric), one of them outside the box | 263,861 | no cut between two chunks divides the entities of the registry more evenly; with everybody inside the box the zone is cut into two disjoint parts that cover it, and a crowd in one chunk is cut right beside; no cut leaves a chunk out; repeated cuts never invert a box |
| `scale` | one zone of two chunks, ports for two more, two connections | 238,990 | a zone and the child of its own split: through split, report, merge, and split again, every chunk keeps exactly one lasting owner |
| `faults` | two zones on two axes, one with an open breaker and slow; two drains, one fault | 263,482 | types; retired zones stay out; drain records agree with states; only an acknowledgement of the running drain destroys; the acknowledgement of a running drain is lost only with its connection |
| `minimum` | three zones, `EVAL_MIN_REPLICAS` = 2, all failing | 304,080 | queued reassignments never leave fewer than two zones serving |
| `live` | two failing zones, a client asking for the chunk of the second | 11,984 | no drain being late, every drain a zone obeys ends with the zone gone; a relocated zone will cover the chunk its clients were told about |
| `handoff` | zones of two chunks and one chunk and a spare one, an object in one of the two chunks on both sides of the border, one request to move it, one split or merge | 334,433 | an object that some zone keeps, or that is on its way to one, stays so, unless the head finds no zone for its chunk; a zone gets a ghost of what it owns only by a verdict that comes after the hand-over; in the end every copy is inside the box of its zone |
| `validation` | one player, one object, two requests at a time, one retry, two trips, one fault of the validator | 163,226 | an object appears only by an accepted action about it; no request is pending for ever; with the validator back the breaker closes |
| `social` | two accounts, a guild, a zone, a player's connection; two changes, two crashes | 2,156,628 | a subscribed zone that has read its link bans whom the node bans; after a complete restore, and once nothing of an earlier life is on its way, the database and the node agree; a descriptor overhears a guild only if its player has spoken under another's name on it; nobody waits for ever in the backlog |
| `restore` | one player, one object, two versions, three faults | 1,521,157 | a player's last report is never replaced by a restore; a restored object stays until it is removed, evicted or handed over; what rests is stored |
| `stream` | four messages of 1 to 3 bytes, a prefix of 2, a buffer of 2 | 7,511 | the connection is a queue of packets, and the reader never returns bytes that are no packet |
| `client` | two chunks, two zones, three walks, two sessions, one change of a chunk's zone, one fault | 787,107 | the zone the client keeps is the one the head named for its chunk; at rest it reaches the zone that covers its chunk, if that has not changed hands since it asked; disconnect returns |

One run ends in a violation: `refused` checks what a comment says of actions, "UNA ACCION SOLO OCURRE
SI SE ACEPTA" (Z:401, an action only happens if it is accepted). In its trace an object is in the
world, a request about it (a second PLACE at the same spot, a MOVE or a REMOVE) is refused, and the
code that evicts a refused *movement* (Z:1524) removes the object.

### Where code and comments disagree

Facts met while modelling, which the models have as the code has them. Most were seen in a trace,
the others in the code alone.

* **Geometric cut** (O:1000). With `lo + hi` even both halves get the middle chunk; the comment gives
  the child of 0..100 the chunks 51..100 (O:897). `SplitLeavesNothingOut` is the half that holds.
* **Drain without a survivor** (O:1131, O:544). `absorbRegion` refuses a union that is no box, and
  the victim is drained all the same.
* **Fail-safe** (O:324, Z:1903). The zone of a drain that was given up reads the drain anyway, or has
  read it; nothing clears `g_draining`, so a READY zone claims no entities.
* **Lost acknowledgement** (Z:1959). The zone sends the acknowledgement of a drain once and does not
  look at the result. When the connection breaks under it the zone comes back, on the same
  descriptor even, with `g_draining` set and nothing to say; the drain ends by the fail-safe or by
  an eviction. `ObeyedIsAnswered` says that there is no other way to this.
* **Outsiders in the histogram** (Z:2237). Entities that await the acknowledgement of their hand-off
  are counted in the edge buckets although they stand outside the box. The cut divides the registry
  fairly all the same (`CutIsFairest`); but when they fill the fullest bucket there may be no chunk
  beside the crowd to cut at, and the geometric cut is taken, with its shared middle.
* **Descriptors** (O:134, O:509). A zone on the descriptor of a retired one is refused for ever.
* **Eviction** (O:814, O:563). A zone that reconnected loses its deployment when its old entry
  expires.
* **Merge during a split** (O:782, O:856). With a third zone beside the pair, a merge takes a zone
  whose split is under way, and takes the child's chunks with it.
* **Lost objects** (Z:1857, H:268). In a merge the survivor's stale report may put its old box back
  into the table before the victim's state arrives: the head finds no target and the object is gone.
  `OnlyUnroutableIsLost` says that this is the only way while connections hold: one that breaks between
  the request and the state of an offer, or after a drain, loses the object too, because the request
  is acknowledged on its own. An impatient retry may instead leave a copy in each of two zones.
* **Ghost of one's own object** (Z:1552). `PKT_ENTITY_TRANSFER` erases the ghost of what it brings
  and `PKT_GHOST_DELTA` does not shadow what the zone has (Z:1716, Z:1747), but an accepted action
  whose object was handed over while the validator decided adds the object and leaves its ghost: the
  zone shows both until the ghost expires, and the object is in two zones. `OnlyLateVerdictShadows`
  says that there is no other way to this.
* **Dead unnoticed** (Z:1598). A connection to the validator that dies before anything was asked on
  it is not dialled again until something is. `BreakerRecovers` names this exception.
* **Retries** (Z:1639). A retry of an action is judged as a movement and its answer matches nothing:
  it can neither create nor settle anything.
* **Social.** After its deadline the node never takes the worker's link (S:386); chat is not checked
  against the ban list although a comment says so (S:485); nor does anybody check that the uuid in a
  message is the sender's (S:220), so membership in a guild is a claim, which `NoEavesdropper` says
  openly; a rank for somebody who is no member creates a member in the database (P:207); a zone's
  link to the social node is dialled once.
* **Restore.** Nothing is ever deleted from the database, so a removed object is back after a
  restart. A first restore that fails is not tried again. An object placed before the merge has no
  entry in `lastActiveSeen`, so the merge adds a second copy of it.
* **Timeouts inside a frame** (N:1149). A receive timeout between two bytes of a frame loses what was
  read, and the next call reads from the middle. `Stalls = TRUE` shows it; the zones' links to the
  validator and the social node have a timeout of 5 ms, the client's 3 s and 200 ms.
* **Client.** An answer that comes after the three seconds is taken for the next one. `connect`
  takes the origin for known even when the head named no zone for it, and succeeds without an answer
  if an earlier session had one. A step over a border and back leaves the announcement armed: the
  next crossing asks at once. A player at rest does not ask again (C:363): when a split, a merge or
  a reassignment gives the chunk to another zone, the reports go on to the old one until the next
  crossing. `ReachesOwner` excludes exactly that.

`OneOwnerPerChunk` deserves care. It speaks of the zones that stay, and of the box each will have
once it has read what was written to it: at any instant two zones overlap while a command is on its
way, and that is not the property. It holds for a zone and the child of its own split, which is the
instance of `scale`: one zone, no fault, no query, no reassignment, and no merge while the split is
under way, since the only partner of a merge is the child itself. It fails with a third zone beside
the pair (above: the merge during a split), after a crash (a restarted pod takes the box of its
deployment, Z:712), and after a query that arrives before the zone of its chunk has registered (H:77
stretches another zone over it). Three more facts of the orchestrator have no property: the
split-floor mark outlives the merge that gives the zone room again (O:449, O:892), a reassignment
that found no neighbour still earns the settle window (O:672), and `metrics.startTimeS` is the time
of the sample, so every new second looks like a restart (O:375).

### Bounds

| Bound | Meaning | Why it is enough |
|---|---|---|
| `MaxReq` | drains requested in a behaviour | 2 where an acknowledgement can meet a later drain of the same zone (`faults`) or two zones compete (`minimum`); 1 elsewhere, where one drain is the question |
| `MaxQueue` | packets of one zone waiting at the head; commands waiting at a zone a client's query may stretch | 1 already lets a report cross a command; acknowledgements always fit |
| `MaxFaults` | crashes, broken connections, late drains | one of each kind is enough for every hazard listed; the faults are alternatives in one run |
| `Fds`, `Ports` | connections, processes | two zones interact, a third competes; in `scale` the third port is the child of a second split; with as many descriptors as zones they are reused |
| `ChunkLimit` | `CHUNK_COORD_LIMIT` | beyond every box of the instance |
| `MaxMoves`, `MaxChanges` (`Handoff`) | requests to move the object, splits and merges | one of each: a crossing or a hand-over after a split that meets the verdict; offers, retries, reports and ghosts are not counted |
| `MaxWaiting` (`Handoff`) | packets waiting at all zones together when one offers the object | 1: an offer meets an answer, a command or a ghost on its way; what the head sends on is not bounded |
| `MaxStray` (`SplitCut`) | entities outside the box at a time | 1 makes an edge bucket differ from what stands in it; there are up to four entities |
| `Ids`, `MaxAsking`, `MaxRetries`, `CB_MAX_OPEN` | requests pending, cap on movements, retries (2 in the code), trips (3) | a movement and an action at once; a retry that overtakes the answer; a first trip and an exhausting one |
| `MaxWire` (`ZoneValidation`) | requests and answers on the connection when one more is asked | 0: the queue grows by retries only, which is what the hazard is about |
| `MaxVersion`, `MaxFaults` (`Restore`) | changes of an entity, faults | a stored and a newer version; a restart during a restart's restore |
| `MaxChanges`, `MaxCrashes`, `MaxQueue` (`Social`) | account and guild records, crashes of any node, records waiting | a change undone by a later one; a crash of the node and of the store |
| `Size`, `PrefixLen`, `Cap`, `Messages` | a byte, the buffer's and more than the buffer's size; a prefix that can be cut in two | every kind of frame after every other |
| `MaxWalks`, `MaxChanges`, `MaxSessions`, `MaxFaults` (`Client`) | steps, changes of a chunk's zone, connections, broken links and late answers | there, back and there again; a zone that registers, dies or is replaced before, during or after a query; an answer of one session met in the next |
| `Slow` | zones slower than the 30 s windows | the zone whose drain is late; empty where no timer should race |

In `faults` the two zones form a step, whose union is no box, so that the victim is still a
neighbour when it is drained again: with a union that is a box the survivor's record covers it and
no second drain starts. A three-zone version of `scale` has more than 2.5 million states after
five minutes and is not among the runs; the overlap above is found long before.

Deadlock is checked in the runs of `Cluster` without faults. Elsewhere every zone may be gone, or
every counter spent and every queue empty, and the system then legitimately stops; likewise in
`SplitCut` when the region is one chunk. `population` uses symmetry, sound because nothing
distinguishes entities and its properties are invariants.

### Fairness

`FairSpec` assumes weak fairness of the head's handlers per connection, of a zone's boot, connect
and read steps, and of the backend stopping a deleted deployment. The head's epoll loop serves every
readable descriptor; a zone's tick tries to read its head socket every turn and reconnects when it
has none; the container runtime stops what was deleted. Nothing is assumed of reports, timers,
faults or clients: `DrainEnds` does not need them. Run `live` has no fault and no slow zone, so no
drain in it is given up on: with the fail-safe `DrainEnds` is false, a zone that obeys a drain the
head has forgotten lingers with `g_draining` set.

In the other modules the loops turn and the clocks run, and nothing that a person or a fault does is
fair. `Handoff`: both loops, the offers, the retry timer and the reports, which a zone sends every
tick. `ZoneValidation`: the zone's handling of answers, deadlines and windows, a validator that
answers while it is up (whether it comes back is the premise of `BreakerRecovers`), and strong
fairness of a player's positions, of which some are asked about: players send 20 a second. `Social`:
the supervisor, the loop, the deadline. `Restore`: the tick, the worker, the persistence node and
its restart. `Stream`: the kernel takes and gives bytes. `Client`: its two threads, the head, the
timers; the three seconds are fair only when no answer can come any more.

### Refinement

`Stream` implements `PacketFifo`: `ImplementsFifo` is the abstract specification, with its fairness,
under the mapping that takes the queue to be the messages that have got the send lock and have not
been received or skipped. A packet is put into the queue when its thread gets the lock, not when its
last byte is written: this is what the lock is for, and `Send_unlocked` (the mutant) breaks it.

## 4. What is proved

Every safety property that the passing runs check of `SplitCut`, `Cluster`, `Handoff`,
`ZoneValidation`, `Restore`, `Social`, `Stream` and `Client` is a theorem, except `OneOwnerPerChunk`
(below). The theorems hold for every value of the constants that satisfies the named assumptions of
the modules: any number of axes, buckets, zones, descriptors, drains, faults, accounts, messages.
The assumptions say that bounds are natural numbers, that boot boxes are not inverted, that the sets
of descriptors, request ids, accounts, players and objects are finite (they are tables in memory),
that a zone has at most 65535 entities (where a bucket of its histogram stops counting, Z:2240), and
that names of different kinds do not coincide. TLC evaluates each of them on the runs.

| Module | Theorem | Statement |
|---|---|---|
| `SplitCut_proofs` | `PopulationCutPartitions` | a population cut gives every chunk of the box to exactly one side, and neither side a chunk from outside |
| | `GeometricCutCovers` | the geometric cut inverts no box, leaves no chunk out, and the two sides share at most the plane `c[axis] = low` |
| | `EndOfBucketIsExact` | the chunks of buckets 0 to k are those up to `endOfBucket(k)`, for every span and number of buckets |
| | `Invariance` | `Spec => []IInv` |
| | `TypeCorrectness` | `Spec => []TypeOK`: repeated cuts never invert a box |
| | `PopulatedZonesArePartitioned` | `Spec => []PopulatedSplitPartitions` |
| | `NothingIsLeftOut` | `Spec => []SplitLeavesNothingOut` |
| | `NoFairerCut` | `Spec => []CutIsFairest` |
| | `CrowdsAreHugged` | `Spec => []CutHugsCrowd` |
| `Cluster_proofs` | `Invariance` | `Spec => []IInv` |
| | `TypeCorrectness` | `Spec => []TypeOK`: among others no replica count below zero |
| | `RetiredStayOut` | `Spec => []RetiredNeverListed` |
| | `DrainsAreRecorded` | `Spec => []DrainBookkeeping` |
| | `DrainsAreAnswered` | `Spec => [](IInv /\ FlowInv)` |
| | `NobodyIsDestroyedEarly` | `Spec => DestroyedHasDrained` |
| | `ObeyedDrainsAreAnswered` | `Spec => ObeyedIsAnswered` |
| | `TheMinimumServes` | `Spec => ServingFloor` |
| | `MergeIsUnion` | when `mergeableAxis` accepts two boxes, the survivor's new box covers exactly the chunks of the two |
| | `QueriesAreAnsweredTruly` | `Spec => RelocatedZoneCovers` |
| `Handoff_proofs` | `NoGhostOfOnesOwn` | `Spec => OnlyLateVerdictShadows` |
| | `HandoffIsAtLeastOnce` | `Spec => OnlyUnroutableIsLost` |
| `ZoneValidation_proofs` | `TypeCorrectness` | `Spec => []TypeOK` |
| | `ActionsFailClosed` | `Spec => FailsClosed` |
| `Restore_proofs` | `ReportsOutliveTheRestore` | `Spec => []PlayerIsNewest` |
| | `RestoredWorldStays` | `Spec => []WorldReturns` |
| `Social_proofs` | `ZonesFollowTheNode` | `Spec => []ZoneFollows` |
| | `BansSurviveRestart` | `Spec => []SurvivesRestart` |
| | `GuildsAreOverheardByClaimOnly` | `Spec => []NoEavesdropper` |
| `Stream_proofs` | `OnlyWhatWasSent` | if `~Stalls`, `Spec => []NeverGarbage` |
| | `ConnectionIsAQueue` | if `~Stalls`, `Spec => Fifo!Init /\ [][Fifo!Next]_(Fifo!vars)` |
| `Client_proofs` | `ZoneIsTheOneNamed` | `Spec => []KnowsItsZone` |

Each of the eight proof modules has its own `Invariance`. Every inductive invariant was an
invariant of the module's runs before it was proved.

### The arguments

**Split cut.** Four facts carry the proof. The zone's `bucket` and the head's `endOfBucket` are
exact inverses, so the people in buckets 0 to k are those who stand up to the end of bucket k. The
running sum over the histogram is the number of those people: a claim about every k, shown by the
least k at which it would fail. The last boundary that lies inside the box is one the walk looks at,
and every boundary that the three tiers can choose has a chunk on each side, so that a populated
zone is always cut cleanly, and an unpopulated one by the geometric cut. And when no bucket holds
two chunks, every place between two chunks is a boundary; the minimum over the boundaries is then
the minimum over all cuts, which is `CutIsFairest`, and a crowd in one chunk has the two boundaries
of that chunk, which is `CutHugsCrowd`. The inductive invariant says that the box is proper, that
the entities of the registry stand in chunks of the world, that the profile it reported is their
histogram, and that the last cut was chosen on such a profile. Whoever stands outside the box is
clamped into the first or last bucket, and as a boundary has a chunk of the box on each side, the
clamped people are on the side where they stand: the count at a boundary is right for them too, and
`CutIsFairest` needs no premise about them. That some boundary exists is what fails, and the other
two properties of a populated zone are stated for a registry inside its box (`Settled`).

**The orchestrator alone** (`Cluster_proofs`, first part). `Sound(h)` says of one orchestrator record
that it is well typed, that what is listed is READY or DRAINING and listed once, and that the drain
records and the states agree. Every method takes a sound record to a sound record; the lemmas follow
the order of the calls: registry, sending, retiring, draining, splitting, queue, evaluation,
connections. The three parts need each other. Registration keeps the list free of duplicates only
because a zone not listed is never DRAINING, and a drain may start only on a listed zone; retiring
a zone keeps the drain records only because the list has no second entry for it; running drains
have distinct ids because every recorded id is below `lcSeq`.

**The composed system** (second part). The inductive invariant is

    IInv == TypeOK /\ RetiredNeverListed /\ DrainBookkeeping /\ RunningZones

`RunningZones` (a linked zone is up, a zone that is up has a box) is the strengthening the types
need: a report carries a box only because its sender is up. There is one lemma per group of
actions, with one step per action.

**Drains and the wire** (third part). `DestroyedHasDrained` speaks of a zone at the moment the head
handles an acknowledgement, which was sent long before. `FlowInv` says what the connections hold
meanwhile: a descriptor belongs to one zone, and one the head has closed carries nothing
(`Connected`); request ids on their way to a zone ascend, and they and the acknowledged ones are
below `lcSeq` (`RequestsAscend`); and an acknowledgement of the *running* drain is on its way only
when no drain is on its way to the zone and the zone behind the descriptor has obeyed that very one
(`AcksAreTrue`); and a request with the id of a running drain is written to nobody but the zone that
drains (`NumbersAreOwn`). New requests take a fresh id, so the late acknowledgement of a drain the
fail-safe gave up on never has the id of the running one. What a method does to this is one of three
things: nothing (`Quiet`), start one drain (`Drains`), end one (`Ends`); `ServingFloor` follows the
same methods with `Still` and `Floored`, since a drain starts only after the queue has counted the
zones in service.

**Answers** (fourth part). `ObeyedIsAnswered` is the safety half of `DrainEnds`, as a property of
steps: no step leaves a zone with a running drain obeyed and unanswered, unless it breaks the
connection, which may take the acknowledgement along. Any other step could do so in three ways: a
drain starts that a zone seems to have obeyed already, which a number that is never given out twice
excludes (`NoNumberAgain`, kept by every method); a zone obeys a number that is the running drain of
another (`NumbersAreOwn`); the head drops the acknowledgement it has read, which it does only if the
drain ends or the number is another one. `AnswersInv` adds that no zone has obeyed a number that has
not been given out.

**Queries** (fifth part). `RelocatedZoneCovers` speaks of the box a zone will have once it has read
every packet on its way. Reading a queue with one more packet at its end is obeying that packet last
(`ObeyAllAppend`, by the shortest prefix at which it would fail), so the box the zone will have is
its planned box, whatever it is, after the stretch. Only the record that was stretched can cover the
chunk now, so the zone named is the zone told; and a stretch that covers the chunk on the head's
record is within the coordinate limit, so it covers it on any other box.

**Hand-off.** `OnlyLateVerdictShadows` is by cases of the step: a ghost is set only where the zone
does not hold the object, and the object enters a registry with its ghost erased, or by a verdict.
`Secure` (of `OnlyUnroutableIsLost`) says that some zone keeps the object or will, once it has read
its packets. A drain publishes only what is leased, so a zone that does not drain holds a lease on
what it holds (`Leases`); a zone is deleted only after it has drained (`DeletedAfterDrain`); the
head routes nothing to a zone it has told to drain (`RoutedAreUndrained`), so what it forwards is
read by somebody who keeps it; and the request of an offer is always followed by its state
(`OffersWhole`), so no step between the two can leave only the request.

**Validation.** An answer is matched by id only. `Answerable` says that a message with the id of a
pending request is about what that request is about and of its kind; it holds because retries have
an id of their own, which matches nothing, and because dropping a connection empties it.

**Restore.** The registry is a sequence and an expired entry leaves by `erase`, so the proof first
shows what filtering a sequence keeps. `PlayerIsNewest` needs that a player with an entry is in
`lastActiveSeen` (`OneEntryEach`), which is what makes the merge skip it, and that the database has
one document per entity; `WorldReturns` needs that an object that is in `lastActiveSeen` before the
merge, because another zone handed it over, is in the registry or was let go of, and that the query
is asked before the merge only (`RestoredOnce`).

**Social.** `ZoneFollows` and `SurvivesRestart` speak of what a reader will have after the records on
its link; the lemmas show what one more record at the end, and one record read at the front, do to
that. The strengthening is about the restart: a complete answer of the database stays true until the
node serves (`AnswerIsFresh`: nothing of the earlier life is still on its way, and the node sends
nothing before it serves, `LinkInUse`); nobody is subscribed before that (`Newcomers`).
`NoEavesdropper` rests on the name of a connection being that of the player behind it, unless it is
one of `liars`, and on both being forgotten when it closes (`NamesAreCurrent`).

**Framing.** The invariant is the layout of the stream: offsets of the frames in the order of the
lock, of which the wire is the stretch between what the reader has consumed and the last byte
written. From it follow that the reader decodes the length of the frame it is in and that it ends at
a frame boundary. `ConnectionIsAQueue` maps the queue to the messages that have got the lock and have
not been received or skipped. Both theorems assume `~Stalls`: with a timeout inside a frame they are
false (section 3).

**Client.** Queries and answers carry no id. `OneQuery` says where the only query of a session is: on
its way, answered, in the hands of the receive thread, handed over, or gone with the link. It holds
as long as no answer came late, which is the premise of the property; a session that ends takes
what is on the wire with it (`Session`).

### Only model-checked

* **Liveness** under fairness, and the fairness part of `ImplementsFifo`: out of the prover's reach.
* **`OneOwnerPerChunk`** holds for the pair of `scale` and is false in general (section 3): it is not
  a theorem.
* **More than the query step.** `RelocatedZoneCovers` is about the step that answers a client. The
  same claim for every later step is false: a query stretches a zone, an older report shrinks the
  head's record of it again, a split is decided on that record, and the resize that is then queued
  takes the chunk away after a newer report has registered it.
* **`HappensOnlyIfAccepted`** is false (run `refused`).

## 5. Reading a counterexample

In a trace of `Cluster`, look at `orch.state`, `orch.zones`, `orch.out` and `zbox`: the first two
are what the head believes, the last what zones serve, `out` the difference on its way. In one of
`Handoff` the same roles are `table`, `box` and `toZone`; in `Client` look at `asking`, `zoneResp`
and what is on `toClient`.

## 6. What is not modelled

* Of the zone: the broadcast to clients by interest, observers, the simulation step, the S1 budget,
  the region blob of a drain (opaque to this code), what expires by itself of a ban.
* Of the head: `PKT_ZONE_REGION` and `PKT_ZONE_LIST`, which change nothing, and the gate.
* In `Handoff`: requests to remove the object, broken connections and crashes. `Cluster` has the two
  faults for the control packets; the object would be lost with a state packet that its connection
  takes along after the request has got through.
* Of the validator: its own entity lanes (last known positions, forwarding). Of persistence: the
  query of one entity, and a MongoDB that fails (the record is lost, P:619). Of the social node:
  parties, friends, permissions, ban deadlines, chat sequence numbers and rate limits.
* Of the client: inboxes, actions, chat, statistics, login keys, the UDP loop.
* The authentication gate, the thread pool and the logger: small, sequential or lock-protected, and
  planned.
* The codec (`packet.cpp`): straight-line encoding of fields, covered by the wire tests.
* Cryptography (OpenSSL), MongoDB, the byte layout of packets, the viewer and command-line tools,
  the game-rules module (code outside the repository), deployment manifests.

## 7. Plan

1. **Done:** all modules above, their runs, and the theorems of section 4.
2. **Theorems left:** what `ComesToRest`, `BreakerRecovers` and `EventuallyStored` need of safety,
   as invariants of their own (`ObeyedIsAnswered` is that of `DrainEnds`); conditions on the
   constants under which `OneOwnerPerChunk` holds.
3. **Modules still to write:** `AuthGate`, `ThreadPool`, and names, pids and ports of spawned nodes
   against the replica counter.

Runs are kept to one per question, and a run that shows a disagreement with a comment gives way
when its question is answered by a more general one.
