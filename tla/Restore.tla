------------------------------- MODULE Restore --------------------------------
(***************************************************************************)
(* A zone's world across restarts.  The zone writes what it owns to the    *)
(* persistence node every so often; when it starts, a worker thread dials, *)
(* asks for what is stored of its region and hands the answer to the tick, *)
(* which merges it into a registry that players are already using.  Zone   *)
(* and persistence node may die at any time.                               *)
(***************************************************************************)
EXTENDS Naturals, Sequences, FiniteSets, SequencesExt

CONSTANTS
    Players,
    Objects,      \* objects of the world (STATE_WORLD_OWNED)
    MaxVersion,   \* bound: states an entity goes through
    MaxFaults     \* bound: deaths and failed attempts to connect

ASSUME RestoreBounds == Players \cap Objects = {} /\ {MaxVersion, MaxFaults} \subseteq Nat
ASSUME FiniteWorld == IsFiniteSet(Players) /\ IsFiniteSet(Objects)

Ids == Players \cup Objects
Absent == 0       \* no version

VARIABLES
    entities,       \* the registry: <<[id, ver], ...>>
    active,         \* the keys of lastActiveSeen
    owned,          \* the entities whose lease has not run out
    clock,          \* clock[x]: the latest version of x there has been
    reported,       \* reported[p]: the version p last sent to this process,
                    \* unless the registry has let go of it since
    gone,           \* the objects the registry has let go of since the
                    \* process started
    worker,         \* linkThread: "idle", "restoring", "dialling", "ready", or
                    \* "stale": ready, on a connection whose peer has died
    answer,         \* restorePending: what the region query brought back
    restoreMerged,
    persistenceUp,
    link,           \* tcp_persistence: "ok", "half" (the peer is gone, which
                    \* the next send does not notice) or "dead"
    alive,          \* is the persistence node running?
    toDb,           \* entities sent on the link and not yet stored
    late,           \* the same, of links that the zone has closed
    db,             \* db[x]: the stored version of x
    faults

registry == <<entities, active, owned, clock, reported, gone>>
linkVars == <<worker, answer, restoreMerged, persistenceUp, link>>
database == <<alive, toDb, late, db>>
vars == <<registry, linkVars, database, faults>>

Init ==
    /\ entities = <<>> /\ active = {} /\ owned = {} /\ gone = {}
    /\ clock = [x \in Ids |-> 1] /\ reported = [p \in Players |-> Absent]
    /\ worker = "restoring" /\ answer = <<>> /\ restoreMerged = FALSE
    /\ persistenceUp = FALSE /\ link = "dead"
    /\ alive = TRUE /\ toDb = <<>> /\ late = <<>>
    /\ db \in [Ids -> {Absent, 1}]
    /\ faults = 0

Entries(x) == {i \in DOMAIN entities : entities[i].id = x}
Live == {entities[i].id : i \in DOMAIN entities}

(* "Update or add": the first entry is replaced. *)
Upserted(x, v) ==
    LET e == [id |-> x, ver |-> v]
    IN  IF Entries(x) = {} THEN Append(entities, e)
        ELSE [entities EXCEPT ![CHOOSE i \in Entries(x) : \A j \in Entries(x) : i <= j] = e]

(* The entities of q that are in S, in their order. *)
Kept(q, S) ==
    LET kept == {i \in DOMAIN q : q[i].id \in S}
    IN  [k \in 1..Cardinality(kept) |->
            q[CHOOSE i \in kept : Cardinality({j \in kept : j <= i}) = k]]

Erased(x) == Kept(entities, Ids \ {x})

-----------------------------------------------------------------------------
(* What happens to the registry *)

(* A position of a player. *)
EntityTransfer(p) ==
    /\ clock[p] < MaxVersion
    /\ clock' = [clock EXCEPT ![p] = @ + 1]
    /\ entities' = Upserted(p, clock'[p])
    /\ reported' = [reported EXCEPT ![p] = clock'[p]]
    /\ owned' = owned \cup {p} /\ active' = active \cup {p}
    /\ UNCHANGED <<gone, linkVars, database, faults>>

(* An accepted PLACE, DROP or MOVE; lastActiveSeen is not touched. *)
ObjectPut(o) ==
    /\ clock[o] < MaxVersion
    /\ clock' = [clock EXCEPT ![o] = @ + 1]
    /\ entities' = Upserted(o, clock'[o])
    /\ owned' = owned \cup {o} /\ gone' = gone \ {o}
    /\ UNCHANGED <<active, reported, linkVars, database, faults>>

(* PKT_ENTITY_TRANSFER from the head: another zone has handed it over.     *)
ObjectArrives(o) ==
    /\ clock[o] < MaxVersion
    /\ clock' = [clock EXCEPT ![o] = @ + 1]
    /\ entities' = Upserted(o, clock'[o])
    /\ owned' = owned \cup {o} /\ active' = active \cup {o} /\ gone' = gone \ {o}
    /\ UNCHANGED <<reported, linkVars, database, faults>>

ObjectRemoved(o) ==
    /\ o \in Live
    /\ entities' = Erased(o)
    /\ gone' = gone \cup {o}
    /\ UNCHANGED <<active, owned, clock, reported, linkVars, database, faults>>

(* The registry lets go of an entity: the validator has refused what it    *)
(* did, or its hand-off is acknowledged, which ends the lease as well.     *)
(* Neither touches lastActiveSeen.                                         *)
Evicted(x) ==
    /\ x \in Live
    /\ entities' = Erased(x)
    /\ owned' \in {owned, owned \ {x}}
    /\ gone' = gone \cup ({x} \cap Objects)
    /\ reported' = [p \in Players |-> IF p = x THEN Absent ELSE reported[p]]
    /\ UNCHANGED <<active, clock, linkVars, database, faults>>

LeaseExpires(x) ==
    /\ x \in owned
    /\ owned' = owned \ {x}
    /\ UNCHANGED <<entities, active, clock, reported, gone, linkVars, database, faults>>

(* The GC purges who has stopped reporting, and leaves the world alone. *)
CollectGarbage_all(x) ==
    /\ x \in active \ owned
    /\ entities' = Erased(x)
    /\ active' = active \ {x}
    /\ reported' = [p \in Players |-> IF p = x THEN Absent ELSE reported[p]]
    /\ UNCHANGED <<owned, clock, gone, linkVars, database, faults>>

CollectGarbage(x) ==
    /\ x \in active \ owned /\ ~(x \in Objects /\ x \in Live)
    /\ entities' = Erased(x)
    /\ active' = active \ {x}
    /\ reported' = [p \in Players |-> IF p = x THEN Absent ELSE reported[p]]
    /\ UNCHANGED <<owned, clock, gone, linkVars, database, faults>>

-----------------------------------------------------------------------------
(* The worker thread, and what the tick takes from it *)

Pending == worker \in {"restoring", "dialling"}      \* linkPending
Connected == worker \in {"ready", "stale"}

WorkerFails ==
    /\ Pending /\ faults < MaxFaults
    /\ worker' = "idle"
    /\ faults' = faults + 1
    /\ UNCHANGED <<registry, answer, restoreMerged, persistenceUp, link, database>>

(* PKT_PERSIST_RANGE: a document per entity, of which the limit or the     *)
(* deadline may cut off a part.                                            *)
loadRange == {s \in SUBSET [id : Ids, ver : 1..MaxVersion] :
                  \A e \in s : db[e.id] = e.ver}

WorkerConnects ==
    /\ Pending /\ alive
    /\ worker' = "ready"
    /\ \E s \in loadRange : answer' = IF worker = "restoring" THEN SetToSeq(s) ELSE answer
    /\ UNCHANGED <<registry, restoreMerged, persistenceUp, link, database, faults>>

(* The start of a tick: the connected socket is taken, and what was        *)
(* restored is merged once; an entity somebody has reported is skipped.    *)
Merge_overwrites ==
    /\ Connected \/ (~restoreMerged /\ ~Pending)
    /\ IF Connected
       THEN worker' = "idle" /\ persistenceUp' = TRUE /\ link' = IF worker = "ready" THEN "ok" ELSE "half"
       ELSE UNCHANGED <<worker, persistenceUp, link>>
    /\ restoreMerged' = TRUE
    /\ IF restoreMerged THEN UNCHANGED <<entities, owned, active>>
       ELSE /\ entities' = entities \o answer
            /\ owned' = owned \cup {e.id : e \in ToSet(answer)}
            /\ active' = active \cup {e.id : e \in ToSet(answer)}
    /\ UNCHANGED <<clock, reported, gone, answer, database, faults>>

Merge ==
    LET fresh == Kept(answer, Ids \ active)
    IN  /\ Connected \/ (~restoreMerged /\ ~Pending)
        /\ IF Connected
           THEN worker' = "idle" /\ persistenceUp' = TRUE /\ link' = IF worker = "ready" THEN "ok" ELSE "half"
           ELSE UNCHANGED <<worker, persistenceUp, link>>
        /\ restoreMerged' = TRUE
        /\ IF restoreMerged THEN UNCHANGED <<entities, owned, active>>
           ELSE /\ entities' = entities \o fresh
                /\ owned' = owned \cup {e.id : e \in ToSet(fresh)}
                /\ active' = active \cup {e.id : e \in ToSet(fresh)}
        /\ UNCHANGED <<clock, reported, gone, answer, database, faults>>

-----------------------------------------------------------------------------
(* The write-through *)

(* Without a link the worker is sent to dial, never to restore again; with *)
(* one, everything owned is sent, and every object of the world.           *)
WriteThrough_leased ==
    /\ ~Connected
    /\ LET ours == Kept(entities, owned)
       IN  \/ /\ ~persistenceUp /\ ~Pending
              /\ worker' = "dialling"
              /\ UNCHANGED <<persistenceUp, link, toDb>>
           \/ /\ persistenceUp /\ ours # <<>> /\ toDb = <<>>
              /\ toDb' = IF link = "ok" THEN ours ELSE toDb
              /\ link' = IF link = "half" THEN "dead" ELSE link
              /\ persistenceUp' = (link # "dead")
              /\ UNCHANGED worker
    /\ UNCHANGED <<registry, answer, restoreMerged, alive, late, db, faults>>

WriteThrough ==
    /\ ~Connected
    /\ LET ours == Kept(entities, Objects \cup owned)
       IN  \/ /\ ~persistenceUp /\ ~Pending
              /\ worker' = "dialling"
              /\ UNCHANGED <<persistenceUp, link, toDb>>
           \/ /\ persistenceUp /\ ours # <<>> /\ toDb = <<>>
              /\ toDb' = IF link = "ok" THEN ours ELSE toDb
              /\ link' = IF link = "half" THEN "dead" ELSE link
              /\ persistenceUp' = (link # "dead")
              /\ UNCHANGED worker
    /\ UNCHANGED <<registry, answer, restoreMerged, alive, late, db, faults>>

(* storeEntity: an upsert by uuid; nothing is ever deleted. *)
Stores(e) == db' = [db EXCEPT ![e.id] = e.ver]

Store ==
    /\ alive /\ toDb # <<>>
    /\ Stores(Head(toDb))
    /\ toDb' = Tail(toDb)
    /\ UNCHANGED <<registry, linkVars, alive, late, faults>>

StoreLate ==
    /\ alive /\ late # <<>>
    /\ Stores(Head(late))
    /\ late' = Tail(late)
    /\ UNCHANGED <<registry, linkVars, alive, toDb, faults>>

-----------------------------------------------------------------------------
(* Faults *)

ZoneRestarts ==
    /\ faults < MaxFaults
    /\ entities' = <<>> /\ active' = {} /\ owned' = {} /\ gone' = {}
    /\ reported' = [p \in Players |-> Absent]
    /\ worker' = "restoring" /\ answer' = <<>> /\ restoreMerged' = FALSE
    /\ persistenceUp' = FALSE /\ link' = "dead"
    /\ late' = late \o toDb /\ toDb' = <<>>
    /\ faults' = faults + 1
    /\ UNCHANGED <<clock, alive, db>>

PersistenceDies ==
    /\ alive /\ faults < MaxFaults
    /\ alive' = FALSE
    /\ link' = CASE link # "ok" -> link
                 [] toDb = <<>> -> "half"
                 [] OTHER -> "dead"
    /\ worker' = IF worker = "ready" THEN "stale" ELSE worker
    /\ toDb' = <<>> /\ late' = <<>>
    /\ faults' = faults + 1
    /\ UNCHANGED <<registry, answer, restoreMerged, persistenceUp, db>>

PersistenceReturns ==
    /\ ~alive
    /\ alive' = TRUE
    /\ UNCHANGED <<registry, linkVars, toDb, late, db, faults>>

-----------------------------------------------------------------------------
Next ==
    \/ \E p \in Players : EntityTransfer(p)
    \/ \E o \in Objects : ObjectPut(o) \/ ObjectArrives(o) \/ ObjectRemoved(o)
    \/ \E x \in Ids : Evicted(x) \/ LeaseExpires(x) \/ CollectGarbage(x)
    \/ WorkerFails \/ WorkerConnects \/ Merge \/ WriteThrough
    \/ Store \/ StoreLate \/ ZoneRestarts \/ PersistenceDies \/ PersistenceReturns

Spec == Init /\ [][Next]_vars

(* The tick and the worker run, and the persistence node is started again  *)
(* and reads its connections.                                              *)
FairSpec ==
    /\ Spec
    /\ WF_vars(WorkerConnects) /\ WF_vars(Merge) /\ WF_vars(WriteThrough)
    /\ WF_vars(Store) /\ WF_vars(StoreLate) /\ WF_vars(PersistenceReturns)

-----------------------------------------------------------------------------
(* Properties *)

(* "A client already talking about this entity is newer than anything      *)
(* stored": a player who has reported to this process, before the restore  *)
(* was merged or after, and whom the registry has not let go of since, is  *)
(* in the registry once, as last reported.                                 *)
PlayerIsNewest ==
    \A p \in Players : reported[p] # Absent =>
        /\ Cardinality(Entries(p)) = 1
        /\ \A i \in Entries(p) : entities[i].ver = reported[p]

(* What the restore brought back of the world stays: an object is in the   *)
(* registry until somebody removes it, a refused action evicts it or       *)
(* another zone acknowledges it, whatever happens to its lease ("a crate   *)
(* is not a player who left").                                             *)
WorldReturns ==
    restoreMerged => \A e \in ToSet(answer) : e.id \in Objects \ gone => e.id \in Live

Settled(o, v) == o \in Live /\ \A i \in Entries(o) : entities[i].ver = v

(* An object that is left alone is stored as it is, in spite of restarts   *)
(* and broken links ("a dropped connection is ordinary").                  *)
EventuallyStored ==
    \A o \in Objects, v \in 1..MaxVersion :
        (<>[]Settled(o, v)) => []<>(db[o] = v)
==============================================================================
