-------------------------------- MODULE Client --------------------------------
(***************************************************************************)
(* The client library: a player walks from chunk to chunk, the caller's    *)
(* thread reports its state to the zone (sendState) and asks the head for  *)
(* another zone (queryZone), the receive thread hands the answers over     *)
(* (recvLoop).  Queries carry no id: an answer belongs to whoever waits.   *)
(***************************************************************************)
EXTENDS Naturals, Sequences, FiniteSets

CONSTANTS
    Chunks,        \* the chunks the player walks through
    Origin,        \* the chunk (0,0,0), which connect asks about
    Zones,
    Covered,       \* the chunks that have a zone when the client starts
    MaxWalks,      \* steps of the player
    MaxChanges,    \* changes of the zone of a chunk
    MaxSessions,   \* calls of connect
    MaxFaults      \* broken connections and answers after the three seconds

NoZone == "no zone"     \* port 0, also the head's answer for empty space
NoChunk == "no chunk"

ASSUME OriginIsChunk == Origin \in Chunks
ASSUME NoneIsNone == NoChunk \notin Chunks /\ NoZone \notin Zones
ASSUME ClientBounds == {MaxWalks, MaxChanges, MaxSessions, MaxFaults} \subseteq Nat

VARIABLES
    owner,         \* the zone that covers a chunk, as the head knows it
    moved,         \* history: the chunks that have lost the zone the head
                   \* named for them while the client took them for known
    chunk,         \* where the player is
    running,       \* "off", "connecting", "up" (m_running) or "stopping"
    zone,          \* m_zoneAddr and m_zonePort
    lastChunk,     \* m_lastChunk
    announce,      \* m_announceUntilMs: "off", "on" or "over"
    headAnswered,  \* m_headAnswered
    asking,        \* the chunk the caller waits to hear about in queryZone
    zoneAnswered,  \* m_zoneAnswered
    zoneResp,      \* m_zoneResp
    recv,          \* recvLoop: "none", "top", "reading", "holding" or "ended"
    held,          \* what receive gave it
    link,          \* is the connection to the head up?
    toHead, toClient,   \* packets on that connection
    told,          \* history: the last report, as <<zone, chunk>>
    walks, changes, sessions, breaks, late   \* history: how often that has happened

player == <<chunk, walks>>
caller == <<zone, lastChunk, announce, asking, told>>
shared == <<zoneAnswered, zoneResp>>
thread == <<recv, held>>
wire == <<link, toHead, toClient>>
counts == <<changes, sessions, breaks, late>>
vars == <<owner, moved, player, running, headAnswered, caller, shared, thread, wire, counts>>

Init ==
    /\ owner \in [Chunks -> Zones \cup {NoZone}]
    /\ \A c \in Chunks : owner[c] = NoZone <=> c \notin Covered
    /\ moved = {}
    /\ chunk \in Chunks
    /\ running = "off" /\ headAnswered = FALSE
    /\ zone = NoZone /\ lastChunk = NoChunk /\ announce = "off" /\ asking = NoChunk
    /\ zoneAnswered = FALSE /\ zoneResp = NoZone
    /\ recv = "none" /\ held = NoZone
    /\ link = FALSE /\ toHead = <<>> /\ toClient = <<>>
    /\ told = <<NoZone, NoChunk>>
    /\ walks = 0 /\ changes = 0 /\ sessions = 0 /\ breaks = 0 /\ late = 0

-----------------------------------------------------------------------------
(* The game and the cluster *)

Walk ==
    /\ walks < MaxWalks
    /\ \E c \in Chunks \ {chunk} : chunk' = c
    /\ walks' = walks + 1
    /\ UNCHANGED <<owner, moved, running, headAnswered, caller, shared, thread, wire, counts>>

(* Zones register and die, and splits, merges, reassignments and           *)
(* relocations move their boxes: a chunk gets another zone, or none.       *)
OwnerChanges ==
    /\ changes < MaxChanges
    /\ \E c \in Chunks : \E z \in (Zones \cup {NoZone}) \ {owner[c]} :
        /\ owner' = [owner EXCEPT ![c] = z]
        /\ moved' = IF owner[c] # NoZone /\ c \in {lastChunk, asking} THEN moved \cup {c} ELSE moved
    /\ changes' = changes + 1
    /\ UNCHANGED <<player, running, headAnswered, caller, shared, thread, wire, sessions, breaks, late>>

(* PKT_ZONE_QUERY: the head names the zone of the chunk, one it stretches  *)
(* over the chunk, or none.                                                *)
HeadAnswers ==
    /\ toHead # <<>>
    /\ LET c == Head(toHead)
       IN  \E z \in IF owner[c] # NoZone THEN {owner[c]} ELSE Zones \cup {NoZone} :
            /\ owner' = [owner EXCEPT ![c] = z]
            /\ moved' = moved \ {c}
            /\ toClient' = Append(toClient, z)
    /\ toHead' = Tail(toHead)
    /\ UNCHANGED <<player, running, headAnswered, caller, shared, thread, link, counts>>

LinkBreaks ==
    /\ link /\ breaks + late < MaxFaults
    /\ link' = FALSE /\ toHead' = <<>> /\ toClient' = <<>>
    /\ breaks' = breaks + 1
    /\ UNCHANGED <<owner, moved, player, running, headAnswered, caller, shared, thread, changes, sessions, late>>

(* Three seconds pass without an answer: there will be none, or it is late. *)
NoneToCome == ~link /\ recv # "holding"

ThreeSeconds ==
    \/ NoneToCome /\ UNCHANGED late
    \/ ~NoneToCome /\ breaks + late < MaxFaults /\ late' = late + 1

-----------------------------------------------------------------------------
(* connect and disconnect *)

Connect ==
    /\ running = "off" /\ sessions < MaxSessions
    /\ running' = "connecting"
    /\ link' = TRUE /\ toHead' = <<Origin>> /\ toClient' = <<>>
    /\ sessions' = sessions + 1
    /\ UNCHANGED <<owner, moved, player, headAnswered, caller, shared, thread, changes, breaks, late>>

(* An empty answer is no zone: the client keeps the one it has. *)
applyZone(z) ==
    /\ headAnswered' = TRUE
    /\ zone' = IF z = NoZone THEN zone ELSE z

(* The chunk of the probe counts as known, whatever came of it. *)
StartThreads ==
    /\ running' = "up" /\ recv' = "top"
    /\ lastChunk' = Origin

ConnectAnswered ==
    /\ running = "connecting" /\ toClient # <<>>
    /\ applyZone(Head(toClient))
    /\ toClient' = Tail(toClient)
    /\ StartThreads
    /\ UNCHANGED <<owner, moved, player, announce, asking, told, shared, held, link, toHead, counts>>

(* No answer fails the connection, unless the head ever answered before. *)
ConnectUnanswered ==
    /\ running = "connecting" /\ toClient = <<>>
    /\ ThreeSeconds
    /\ IF headAnswered
       THEN StartThreads
       ELSE running' = "off" /\ UNCHANGED <<recv, lastChunk>>
    /\ UNCHANGED <<owner, moved, player, headAnswered, zone, announce, asking, told, shared, held,
                   wire, changes, sessions, breaks>>

Disconnect ==
    /\ running = "up" /\ asking = NoChunk
    /\ running' = "stopping"
    /\ UNCHANGED <<owner, moved, player, headAnswered, caller, shared, thread, wire, counts>>

Joined ==
    /\ running = "stopping" /\ recv = "ended"
    /\ running' = "off" /\ recv' = "none"
    /\ UNCHANGED <<owner, moved, player, headAnswered, caller, shared, held, wire, counts>>

-----------------------------------------------------------------------------
(* sendState, on the caller's thread *)

Crossing == chunk # lastChunk

Report(z, c) == told' = IF z = NoZone THEN told ELSE <<z, c>>

(* In its chunk, or announcing to the zone it leaves that it has left.     *)
SendState ==
    /\ running = "up" /\ asking = NoChunk
    /\ Crossing => announce # "over" /\ zone # NoZone
    /\ announce' = IF Crossing THEN "on" ELSE announce
    /\ Report(zone, chunk)
    /\ UNCHANGED <<owner, moved, player, running, headAnswered, zone, lastChunk, asking, shared,
                   thread, wire, counts>>

AnnounceEnds ==
    /\ announce = "on"
    /\ announce' = "over"
    /\ UNCHANGED <<owner, moved, player, running, headAnswered, zone, lastChunk, asking, told, shared,
                   thread, wire, counts>>

(* queryZone: forget the last answer, ask, and wait with the lock released. *)
QueryZone_keepsAnswer ==
    /\ running = "up" /\ asking = NoChunk
    /\ Crossing /\ (announce = "over" \/ zone = NoZone)
    /\ announce' = "off"
    /\ asking' = chunk /\ UNCHANGED zoneAnswered
    /\ toHead' = IF link THEN Append(toHead, chunk) ELSE toHead
    /\ UNCHANGED <<owner, moved, player, running, headAnswered, zone, lastChunk, told, zoneResp,
                   thread, link, toClient, counts>>

QueryZone ==
    /\ running = "up" /\ asking = NoChunk
    /\ Crossing /\ (announce = "over" \/ zone = NoZone)
    /\ announce' = "off"
    /\ asking' = chunk /\ zoneAnswered' = FALSE
    /\ toHead' = IF link THEN Append(toHead, chunk) ELSE toHead
    /\ UNCHANGED <<owner, moved, player, running, headAnswered, zone, lastChunk, told, zoneResp,
                   thread, link, toClient, counts>>

(* The chunk is remembered, and the state sent, if the head named a zone. *)
QueryAnswered_caches ==
    /\ asking # NoChunk /\ zoneAnswered
    /\ applyZone(zoneResp)
    /\ asking' = NoChunk
    /\ lastChunk' = asking /\ Report(zoneResp, asking)
    /\ UNCHANGED <<owner, moved, player, running, announce, shared, thread, wire, counts>>

QueryAnswered ==
    /\ asking # NoChunk /\ zoneAnswered
    /\ applyZone(zoneResp)
    /\ asking' = NoChunk
    /\ IF zoneResp = NoZone
       THEN UNCHANGED <<lastChunk, told>>
       ELSE lastChunk' = asking /\ Report(zoneResp, asking)
    /\ UNCHANGED <<owner, moved, player, running, announce, shared, thread, wire, counts>>

QueryTimesOut ==
    /\ asking # NoChunk /\ ~zoneAnswered
    /\ ThreeSeconds
    /\ asking' = NoChunk
    /\ UNCHANGED <<owner, moved, player, running, headAnswered, zone, lastChunk, announce, told,
                   shared, thread, wire, changes, sessions, breaks>>

-----------------------------------------------------------------------------
(* recvLoop, on the receive thread *)

RecvTop ==
    /\ recv = "top"
    /\ recv' = IF running = "up" THEN "reading" ELSE "ended"
    /\ UNCHANGED <<owner, moved, player, running, headAnswered, caller, shared, held, wire, counts>>

(* receive returns with a packet, or without one when its deadline passes  *)
(* or the connection is gone.                                              *)
RecvReads ==
    /\ recv = "reading" /\ toClient # <<>>
    /\ held' = Head(toClient) /\ toClient' = Tail(toClient)
    /\ recv' = "holding"
    /\ UNCHANGED <<owner, moved, player, running, headAnswered, caller, shared, link, toHead, counts>>

RecvIdle_untilClosed ==
    /\ recv = "reading" /\ toClient = <<>> /\ ~link
    /\ recv' = "top"
    /\ UNCHANGED <<owner, moved, player, running, headAnswered, caller, shared, held, wire, counts>>

RecvIdle ==
    /\ recv = "reading" /\ toClient = <<>>
    /\ recv' = "top"
    /\ UNCHANGED <<owner, moved, player, running, headAnswered, caller, shared, held, wire, counts>>

RecvHandsOver ==
    /\ recv = "holding"
    /\ zoneResp' = held /\ zoneAnswered' = TRUE
    /\ recv' = "top" /\ held' = NoZone
    /\ UNCHANGED <<owner, moved, player, running, headAnswered, caller, wire, counts>>

recvLoop == RecvTop \/ RecvReads \/ RecvIdle \/ RecvHandsOver

-----------------------------------------------------------------------------
Next ==
    \/ Walk \/ OwnerChanges \/ HeadAnswers \/ LinkBreaks
    \/ Connect \/ ConnectAnswered \/ ConnectUnanswered \/ Disconnect \/ Joined
    \/ SendState \/ AnnounceEnds \/ QueryZone \/ QueryAnswered \/ QueryTimesOut
    \/ RecvTop \/ RecvReads \/ RecvIdle \/ RecvHandsOver

Spec == Init /\ [][Next]_vars

(* The threads run, the head answers, time passes, and the game sends its  *)
(* state again and again; nobody has to walk, change zones, break or be    *)
(* late.                                                                   *)
FairSpec ==
    /\ Spec
    /\ WF_vars(HeadAnswers) /\ WF_vars(AnnounceEnds) /\ WF_vars(recvLoop)
    /\ WF_vars(SendState) /\ WF_vars(QueryZone) /\ WF_vars(QueryAnswered)
    /\ WF_vars(NoneToCome /\ QueryTimesOut) /\ WF_vars(Joined)

-----------------------------------------------------------------------------
(* Properties *)

(* recvLoop, "The answer belongs to whoever is waiting in queryZone": the  *)
(* zone the client keeps for a chunk is the one the head named for that    *)
(* chunk, and still the chunk's if it had it ever since, over              *)
(* reconnections too, as long as no answer came late.  The origin is left  *)
(* out: connect takes it for known without an answer.                      *)
KnowsItsZone ==
    late = 0 /\ lastChunk \notin {NoChunk, Origin} \cup moved => zone = owner[lastChunk]

(* sendState, "ONLY cache the chunk if the query actually SUCCEEDED": a    *)
(* player who comes to rest on a chunk that some zone covers, or comes to  *)
(* cover, ends up reporting to that zone, if the connection holds and no   *)
(* answer came late.  Only if the chunk has not lost the zone that the     *)
(* head named for it since the client asked: a client asks again when it   *)
(* crosses into another chunk and at no other time, so that a player at    *)
(* rest whose chunk changes hands goes on reporting to the zone that had   *)
(* it.                                                                     *)
ReachesOwner ==
    \A c \in Chunks \ {Origin} :
        <>[](/\ running = "up" /\ link /\ late = 0
             /\ chunk = c /\ owner[c] # NoZone /\ c \notin moved)
            => <>[](told = <<owner[c], c>>)

(* connect, "the loop has to come up for air and notice m_running went     *)
(* false": disconnect joins the receive thread and returns.                *)
DisconnectReturns == running = "stopping" ~> running = "off"
==============================================================================
