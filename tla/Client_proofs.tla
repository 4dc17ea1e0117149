----------------------------- MODULE Client_proofs -----------------------------
(***************************************************************************)
(* Proof that the client keeps, for a chunk, the zone that the head named  *)
(* for that chunk, which is the chunk's as long as it does not lose it, if *)
(* no answer came late.  Queries carry no id, so this rests on there being *)
(* one of them at a time.                                                  *)
(***************************************************************************)
EXTENDS Client, TLAPS

States == {"off", "connecting", "up", "stopping"}
ThreadStates == {"none", "top", "reading", "holding", "ended"}

Types ==
    /\ owner \in [Chunks -> Zones \cup {NoZone}]
    /\ chunk \in Chunks
    /\ running \in States /\ recv \in ThreadStates
    /\ asking \in Chunks \cup {NoChunk}
    /\ link \in BOOLEAN /\ zoneAnswered \in BOOLEAN
    /\ late \in Nat

Quiet == toHead = <<>> /\ toClient = <<>> /\ recv # "holding"

(* What the head may have answered about chunk c: the zone it has now, one *)
(* that it has lost since, or none, when it had none then.                 *)
AnswerFor(c, z) == z \in {owner[c], NoZone} \/ c \in moved

(* Where the one query of a session is: on its way to the head, answered,  *)
(* in the hands of the receive thread, handed over, or gone with the link. *)
QueryUnderWay(c) ==
    \/ toHead = <<c>> /\ toClient = <<>> /\ recv # "holding" /\ ~zoneAnswered
    \/ /\ toHead = <<>> /\ recv # "holding" /\ ~zoneAnswered
       /\ \E z \in Zones \cup {NoZone} : toClient = <<z>> /\ AnswerFor(c, z)
    \/ /\ toHead = <<>> /\ toClient = <<>> /\ ~zoneAnswered
       /\ recv = "holding" /\ AnswerFor(c, held)
    \/ Quiet /\ zoneAnswered /\ AnswerFor(c, zoneResp)
    \/ Quiet /\ ~zoneAnswered /\ ~link

ProbeUnderWay ==
    \/ toHead = <<Origin>> /\ toClient = <<>>
    \/ toHead = <<>> /\ \E z \in Zones \cup {NoZone} : toClient = <<z>>
    \/ toHead = <<>> /\ toClient = <<>> /\ ~link

(* The life of a session: a receive thread exists while it is up, only     *)
(* then does the caller ask, about a chunk it does not take for known, and *)
(* a connection that is down carries nothing.                              *)
Session ==
    /\ running \in {"off", "connecting"} => recv = "none"
    /\ asking # NoChunk => running = "up" /\ asking # lastChunk
    /\ ~link => toHead = <<>> /\ toClient = <<>>

OneQuery ==
    /\ running = "connecting" => ProbeUnderWay
    /\ running # "connecting" /\ asking = NoChunk => Quiet
    /\ asking # NoChunk => QueryUnderWay(asking)

KnownZone ==
    lastChunk \notin {NoChunk, Origin} =>
        lastChunk \in Chunks /\ zone # NoZone /\ (zone = owner[lastChunk] \/ lastChunk \in moved)

IInv == Types /\ Session /\ (late = 0 => OneQuery /\ KnownZone)

-----------------------------------------------------------------------------
(* Queues of one element. *)
LEMMA Singletons ==
    ASSUME NEW x
    PROVE  /\ Append(<<>>, x) = <<x>> /\ Head(<<x>>) = x /\ Tail(<<x>>) = <<>>
           /\ <<x>> # <<>>
  OBVIOUS

(* The player walks: nothing of the session changes. *)
LEMMA WalkInv ==
    ASSUME IInv, Walk
    PROVE  IInv'
  <1>1. UNCHANGED <<owner, moved, running, headAnswered, caller, shared, thread, wire, counts>> /\ chunk' \in Chunks
    BY DEF Walk
  <1> QED BY <1>1 DEF IInv, Types, Session, OneQuery, KnownZone, ProbeUnderWay, QueryUnderWay,
                      Quiet, AnswerFor, caller, shared, thread, wire, counts

(* A chunk the client asks about or takes for known keeps the zone it had, *)
(* or is on the list of those that have lost it.                           *)
Followed(c) ==
    /\ owner[c] # NoZone => owner'[c] = owner[c] \/ c \in moved'
    /\ c \in moved => c \in moved'

(* What was answered stays an answer. *)
LEMMA AnswersStay ==
    ASSUME Types, NEW c \in Chunks, Followed(c), NEW z, AnswerFor(c, z)
    PROVE  AnswerFor(c, z)'
  BY DEF AnswerFor, Followed, Types

(* A chunk gets another zone, or none. *)
LEMMA OwnerChangesInv ==
    ASSUME IInv, OwnerChanges
    PROVE  IInv'
  <1>1. /\ UNCHANGED <<player, running, headAnswered, caller, shared, thread, wire, late>>
        /\ owner' \in [Chunks -> Zones \cup {NoZone}]
    BY DEF OwnerChanges, IInv, Types
  <1>2. \A c \in Chunks : c \in {lastChunk, asking} => Followed(c)
    BY DEF OwnerChanges, Followed, IInv, Types
  <1>3. Types' /\ Session'
    BY <1>1 DEF IInv, Types, Session, player, caller, shared, thread, wire
  <1>4. ASSUME late = 0 PROVE OneQuery' /\ KnownZone'
    <2>1. KnownZone'
      BY <1>1, <1>2, <1>4 DEF IInv, KnownZone, Followed, caller
    <2>2. ProbeUnderWay => ProbeUnderWay'
      BY <1>1 DEF ProbeUnderWay, wire
    <2>3. ASSUME asking # NoChunk PROVE QueryUnderWay(asking)'
      <3>1. asking \in Chunks /\ QueryUnderWay(asking) /\ Followed(asking) /\ asking' = asking
        BY <1>1, <1>2, <1>4, <2>3 DEF IInv, Types, OneQuery, caller
      <3>2. \A z : AnswerFor(asking, z) => AnswerFor(asking, z)'
        BY <3>1, AnswersStay DEF IInv
      <3> QED BY <1>1, <3>1, <3>2 DEF QueryUnderWay, Quiet, wire, thread, shared
    <2>4. OneQuery'
      BY <1>1, <1>4, <2>2, <2>3 DEF IInv, OneQuery, Types, Quiet, wire, thread, caller
    <2> QED BY <2>1, <2>4
  <1> QED BY <1>1, <1>3, <1>4 DEF IInv

(* The head answers the one question there is. *)
LEMMA HeadAnswersInv ==
    ASSUME IInv, HeadAnswers
    PROVE  IInv'
  <1> DEFINE c == Head(toHead)
  <1>1. /\ toHead # <<>> /\ toHead' = Tail(toHead)
        /\ UNCHANGED <<player, running, headAnswered, caller, shared, thread, link, counts>>
    BY DEF HeadAnswers
  <1>2. PICK z \in IF owner[c] # NoZone THEN {owner[c]} ELSE Zones \cup {NoZone} :
            /\ owner' = [owner EXCEPT ![c] = z] /\ moved' = moved \ {c}
            /\ toClient' = Append(toClient, z)
    BY DEF HeadAnswers
  <1>3. link
    BY <1>1 DEF IInv, Session
  <1>4. /\ owner' \in [Chunks -> Zones \cup {NoZone}]
        /\ \A o \in Chunks : o # c => Followed(o)
    BY <1>2 DEF IInv, Types, Followed
  <1>5. Types' /\ Session'
    BY <1>1, <1>3, <1>4 DEF IInv, Types, Session, player, caller, shared, thread, counts
  <1>6. ASSUME late = 0 PROVE OneQuery' /\ KnownZone'
    <2>1. c = Origin \/ c # lastChunk => KnownZone'
      BY <1>1, <1>4, <1>6 DEF IInv, KnownZone, Followed, caller
    <2>2. CASE running = "connecting"
      <3>1. toHead = <<Origin>> /\ toClient = <<>> /\ asking = NoChunk
        BY <1>1, <1>6, <2>2 DEF IInv, OneQuery, ProbeUnderWay, Session
      <3>2. c = Origin /\ toHead' = <<>> /\ toClient' = <<z>>
        BY <1>1, <1>2, <3>1, Singletons
      <3>3. z \in Zones \cup {NoZone}
        BY <3>2, OriginIsChunk DEF IInv, Types
      <3> QED BY <1>1, <2>1, <2>2, <3>1, <3>2, <3>3 DEF OneQuery, ProbeUnderWay, caller
    <2>3. CASE running # "connecting"
      <3>1. asking # NoChunk /\ QueryUnderWay(asking) /\ asking \in Chunks
        BY <1>1, <1>6, <2>3 DEF IInv, OneQuery, Quiet, Types
      <3>2. toHead = <<asking>> /\ toClient = <<>> /\ recv # "holding" /\ ~zoneAnswered
        BY <1>1, <3>1 DEF QueryUnderWay, Quiet
      <3>3. c = asking /\ toHead' = <<>> /\ toClient' = <<z>>
        BY <1>1, <1>2, <3>2, Singletons
      <3>4. z \in Zones \cup {NoZone} /\ owner'[asking] = z /\ c # lastChunk
        BY <1>2, <3>1, <3>3 DEF IInv, Types, Session
      <3>5. QueryUnderWay(asking)'
        BY <1>1, <3>2, <3>3, <3>4 DEF QueryUnderWay, AnswerFor, shared, thread, caller
      <3> QED BY <1>1, <2>1, <2>3, <3>1, <3>4, <3>5 DEF OneQuery, caller
    <2> QED BY <2>2, <2>3
  <1> QED BY <1>1, <1>5, <1>6 DEF IInv, counts

(* What was on the connection is gone, what was read is not. *)
LEMMA LinkBreaksInv ==
    ASSUME IInv, LinkBreaks
    PROVE  IInv'
  <1>1. /\ link' = FALSE /\ toHead' = <<>> /\ toClient' = <<>>
        /\ UNCHANGED <<owner, moved, player, running, headAnswered, caller, shared, thread, changes, sessions, late>>
    BY DEF LinkBreaks
  <1>2. Types' /\ Session'
    BY <1>1 DEF IInv, Types, Session, player, caller, shared, thread
  <1>3. ASSUME late = 0 PROVE OneQuery' /\ KnownZone'
    <2>1. KnownZone'
      BY <1>1, <1>3 DEF IInv, KnownZone, caller
    <2>2. ASSUME NEW c, QueryUnderWay(c) PROVE QueryUnderWay(c)'
      BY <1>1, <2>2 DEF QueryUnderWay, Quiet, AnswerFor, shared, thread
    <2>3. OneQuery'
      BY <1>1, <1>3, <2>2 DEF IInv, OneQuery, ProbeUnderWay, Quiet, caller, thread
    <2> QED BY <2>1, <2>3
  <1> QED BY <1>1, <1>2, <1>3 DEF IInv

-----------------------------------------------------------------------------
(* connect and disconnect *)

(* A session starts when no question of the last one is left. *)
LEMMA ConnectInv ==
    ASSUME IInv, Connect
    PROVE  IInv'
  <1>1. /\ running = "off" /\ running' = "connecting"
        /\ link' = TRUE /\ toHead' = <<Origin>> /\ toClient' = <<>>
        /\ UNCHANGED <<owner, moved, player, headAnswered, caller, shared, thread, changes, breaks, late>>
    BY DEF Connect
  <1>2. asking = NoChunk /\ recv = "none"
    BY <1>1 DEF IInv, Session
  <1>3. Types' /\ Session'
    BY <1>1, <1>2 DEF IInv, Types, Session, States, player, caller, shared, thread
  <1>4. late = 0 => OneQuery' /\ KnownZone'
    BY <1>1, <1>2 DEF IInv, OneQuery, ProbeUnderWay, KnownZone, caller
  <1> QED BY <1>1, <1>3, <1>4 DEF IInv

(* The probe is answered: the connection carries nothing more. *)
LEMMA ConnectAnsweredInv ==
    ASSUME IInv, ConnectAnswered
    PROVE  IInv'
  <1>1. /\ running = "connecting" /\ running' = "up" /\ recv' = "top" /\ lastChunk' = Origin
        /\ toClient # <<>> /\ toClient' = Tail(toClient)
        /\ UNCHANGED <<owner, moved, player, announce, asking, told, shared, held, link, toHead, counts>>
    BY DEF ConnectAnswered, StartThreads
  <1>2. asking = NoChunk /\ link
    BY <1>1 DEF IInv, Session
  <1>3. Types' /\ Session'
    BY <1>1, <1>2 DEF IInv, Types, Session, States, ThreadStates, player, shared, counts
  <1>4. ASSUME late = 0 PROVE OneQuery' /\ KnownZone'
    <2>1. toHead = <<>> /\ \E z \in Zones \cup {NoZone} : toClient = <<z>>
      BY <1>1, <1>4 DEF IInv, OneQuery, ProbeUnderWay
    <2>2. toClient' = <<>>
      BY <1>1, <2>1, Singletons
    <2> QED BY <1>1, <1>2, <2>1, <2>2 DEF OneQuery, Quiet, KnownZone
  <1> QED BY <1>1, <1>3, <1>4 DEF IInv, counts

(* Three seconds without an answer: nothing is left on a broken            *)
(* connection, or the answer counts as late.                               *)
LEMMA WaitedEnough ==
    ASSUME IInv, ThreeSeconds
    PROVE  /\ late' \in Nat
           /\ late' = 0 => late = 0 /\ NoneToCome
  BY DEF ThreeSeconds, IInv, Types

(* The probe is not answered. *)
LEMMA ConnectUnansweredInv ==
    ASSUME IInv, ConnectUnanswered
    PROVE  IInv'
  <1>1. /\ running = "connecting" /\ toClient = <<>> /\ ThreeSeconds
        /\ \/ running' = "up" /\ recv' = "top" /\ lastChunk' = Origin
           \/ running' = "off" /\ UNCHANGED <<recv, lastChunk>>
        /\ UNCHANGED <<owner, moved, player, headAnswered, zone, announce, asking, told, shared, held,
                       wire, changes, sessions, breaks>>
    BY DEF ConnectUnanswered, StartThreads
  <1>2. asking = NoChunk /\ recv = "none" /\ late' \in Nat
    BY <1>1, WaitedEnough DEF IInv, Session
  <1>3. Types' /\ Session'
    BY <1>1, <1>2 DEF IInv, Types, Session, States, ThreadStates, player, shared, wire
  <1>4. ASSUME late' = 0 PROVE OneQuery' /\ KnownZone'
    <2>1. late = 0 /\ toHead = <<>>
      BY <1>4, <1>1, WaitedEnough DEF NoneToCome, IInv, Session
    <2>2. Quiet'
      BY <1>1, <1>2, <2>1 DEF Quiet, wire
    <2> QED BY <1>1, <1>2, <2>1, <2>2 DEF IInv, OneQuery, KnownZone
  <1> QED BY <1>3, <1>4 DEF IInv

(* A session ends when nobody asks. *)
LEMMA DisconnectInv ==
    ASSUME IInv, Disconnect \/ Joined
    PROVE  IInv'
  <1>1. /\ running \in {"up", "stopping"} /\ running' \in {"stopping", "off"} /\ asking = NoChunk
        /\ \/ running' = "stopping" /\ recv' = recv
           \/ running' = "off" /\ recv' = "none"
        /\ UNCHANGED <<owner, moved, player, headAnswered, caller, shared, held, wire, counts>>
    BY DEF Disconnect, Joined, IInv, Session, thread
  <1>2. Types' /\ Session'
    BY <1>1 DEF IInv, Types, Session, States, ThreadStates, player, caller, shared, wire, counts
  <1>3. late = 0 => OneQuery' /\ KnownZone'
    BY <1>1 DEF IInv, OneQuery, KnownZone, Quiet, caller, wire
  <1> QED BY <1>1, <1>2, <1>3 DEF IInv, counts

-----------------------------------------------------------------------------
(* The caller *)

(* Reports of the state do not touch the question. *)
LEMMA SendStateInv ==
    ASSUME IInv, SendState \/ AnnounceEnds
    PROVE  IInv'
  <1>1. UNCHANGED <<owner, moved, player, running, headAnswered, zone, lastChunk, asking, shared,
                    thread, wire, counts>>
    BY DEF SendState, AnnounceEnds
  <1> QED BY <1>1 DEF IInv, Types, Session, OneQuery, KnownZone, ProbeUnderWay, QueryUnderWay,
                      Quiet, AnswerFor, player, shared, thread, wire, counts

(* The last answer is forgotten before the question is sent. *)
LEMMA QueryZoneInv ==
    ASSUME IInv, QueryZone
    PROVE  IInv'
  <1>1. /\ running = "up" /\ asking = NoChunk /\ asking' = chunk /\ zoneAnswered' = FALSE
        /\ chunk # lastChunk
        /\ toHead' = IF link THEN Append(toHead, chunk) ELSE toHead
        /\ UNCHANGED <<owner, moved, player, running, headAnswered, zone, lastChunk, told, zoneResp,
                       thread, link, toClient, counts>>
    BY DEF QueryZone, Crossing
  <1>2. chunk \in Chunks /\ chunk # NoChunk
    BY NoneIsNone DEF IInv, Types
  <1>3. Types' /\ Session'
    BY <1>1, <1>2 DEF IInv, Types, Session, player, thread, counts
  <1>4. ASSUME late = 0 PROVE OneQuery' /\ KnownZone'
    <2>1. Quiet /\ KnownZone
      BY <1>1, <1>4 DEF IInv, OneQuery
    <2>2. QueryUnderWay(asking)'
      BY <1>1, <2>1, Singletons DEF QueryUnderWay, Quiet, thread
    <2> QED BY <1>1, <1>2, <2>1, <2>2 DEF OneQuery, KnownZone
  <1> QED BY <1>1, <1>3, <1>4 DEF IInv, counts

(* The answer that was waited for is the one to the question asked. *)
LEMMA QueryAnsweredInv ==
    ASSUME IInv, QueryAnswered
    PROVE  IInv'
  <1>1. /\ asking # NoChunk /\ zoneAnswered /\ asking' = NoChunk
        /\ zone' = IF zoneResp = NoZone THEN zone ELSE zoneResp
        /\ lastChunk' = IF zoneResp = NoZone THEN lastChunk ELSE asking
        /\ UNCHANGED <<owner, moved, player, running, announce, shared, thread, wire, counts>>
    BY DEF QueryAnswered, applyZone
  <1>2. running = "up" /\ asking \in Chunks
    BY <1>1 DEF IInv, Session, Types
  <1>3. Types' /\ Session'
    BY <1>1 DEF IInv, Types, Session, player, shared, thread, wire, counts
  <1>4. ASSUME late = 0 PROVE OneQuery' /\ KnownZone'
    <2>1. Quiet /\ AnswerFor(asking, zoneResp) /\ KnownZone
      BY <1>1, <1>4 DEF IInv, OneQuery, QueryUnderWay
    <2>2. KnownZone'
      BY <1>1, <1>2, <2>1 DEF KnownZone, AnswerFor
    <2> QED BY <1>1, <1>2, <2>1, <2>2 DEF OneQuery, Quiet, thread, wire
  <1> QED BY <1>1, <1>3, <1>4 DEF IInv, counts

(* A question is given up: no answer will come, or it counts as late. *)
LEMMA QueryTimesOutInv ==
    ASSUME IInv, QueryTimesOut
    PROVE  IInv'
  <1>1. /\ asking # NoChunk /\ ThreeSeconds /\ asking' = NoChunk
        /\ UNCHANGED <<owner, moved, player, running, headAnswered, zone, lastChunk, announce, told,
                       shared, thread, wire, changes, sessions, breaks>>
    BY DEF QueryTimesOut
  <1>2. running = "up" /\ late' \in Nat
    BY <1>1, WaitedEnough DEF IInv, Session
  <1>3. Types' /\ Session'
    BY <1>1, <1>2 DEF IInv, Types, Session, player, shared, thread, wire
  <1>4. ASSUME late' = 0 PROVE OneQuery' /\ KnownZone'
    <2>1. late = 0 /\ Quiet
      BY <1>4, <1>1, WaitedEnough DEF NoneToCome, IInv, Session, Quiet
    <2> QED BY <1>1, <1>2, <2>1 DEF IInv, OneQuery, KnownZone, Quiet, thread, wire
  <1> QED BY <1>3, <1>4 DEF IInv

-----------------------------------------------------------------------------
(* The receive thread *)

(* The receive thread turns without a packet. *)
LEMMA RecvTurnsInv ==
    ASSUME IInv, RecvTop \/ RecvIdle
    PROVE  IInv'
  <1>1. /\ recv \in {"top", "reading"} /\ recv' \in {"top", "reading", "ended"}
        /\ UNCHANGED <<owner, moved, player, running, headAnswered, caller, shared, held, wire, counts>>
    BY DEF RecvTop, RecvIdle
  <1>2. running \notin {"off", "connecting"}
    BY <1>1 DEF IInv, Session
  <1>3. Types' /\ Session'
    BY <1>1, <1>2 DEF IInv, Types, Session, ThreadStates, player, caller, shared, wire, counts
  <1>4. ASSUME late = 0 PROVE OneQuery' /\ KnownZone'
    <2>1. ASSUME NEW c, QueryUnderWay(c) PROVE QueryUnderWay(c)'
      BY <1>1, <2>1 DEF QueryUnderWay, Quiet, AnswerFor, shared, wire
    <2> QED BY <1>1, <1>2, <1>4, <2>1 DEF IInv, OneQuery, KnownZone, Quiet, caller, wire
  <1> QED BY <1>1, <1>3, <1>4 DEF IInv, counts

(* The receive thread has the answer in its hands ... *)
LEMMA RecvReadsInv ==
    ASSUME IInv, RecvReads
    PROVE  IInv'
  <1>1. /\ recv = "reading" /\ toClient # <<>> /\ held' = Head(toClient)
        /\ toClient' = Tail(toClient) /\ recv' = "holding"
        /\ UNCHANGED <<owner, moved, player, running, headAnswered, caller, shared, link, toHead, counts>>
    BY DEF RecvReads
  <1>2. running \notin {"off", "connecting"} /\ link
    BY <1>1 DEF IInv, Session
  <1>3. Types' /\ Session'
    BY <1>1, <1>2 DEF IInv, Types, Session, ThreadStates, player, caller, shared, counts
  <1>4. ASSUME late = 0 PROVE OneQuery' /\ KnownZone'
    <2>1. asking # NoChunk /\ QueryUnderWay(asking) /\ KnownZone
      BY <1>1, <1>2, <1>4 DEF IInv, OneQuery, Quiet
    <2>2. PICK z \in Zones \cup {NoZone} : toClient = <<z>> /\ AnswerFor(asking, z)
      BY <1>1, <2>1 DEF QueryUnderWay, Quiet
    <2>3. toHead = <<>> /\ ~zoneAnswered
      BY <1>1, <2>1 DEF QueryUnderWay, Quiet
    <2>4. toClient' = <<>> /\ held' = z
      BY <1>1, <2>2, Singletons
    <2>5. QueryUnderWay(asking)'
      BY <1>1, <2>2, <2>3, <2>4 DEF QueryUnderWay, AnswerFor, caller, shared
    <2> QED BY <1>1, <1>2, <2>1, <2>5 DEF OneQuery, KnownZone, caller
  <1> QED BY <1>1, <1>3, <1>4 DEF IInv, counts

(* ... and hands it to the caller who waits. *)
LEMMA RecvHandsOverInv ==
    ASSUME IInv, RecvHandsOver
    PROVE  IInv'
  <1>1. /\ recv = "holding" /\ zoneResp' = held /\ zoneAnswered' = TRUE
        /\ recv' = "top" /\ held' = NoZone
        /\ UNCHANGED <<owner, moved, player, running, headAnswered, caller, wire, counts>>
    BY DEF RecvHandsOver
  <1>2. running \notin {"off", "connecting"}
    BY <1>1 DEF IInv, Session
  <1>3. Types' /\ Session'
    BY <1>1, <1>2 DEF IInv, Types, Session, ThreadStates, player, caller, wire, counts
  <1>4. ASSUME late = 0 PROVE OneQuery' /\ KnownZone'
    <2>1. asking # NoChunk /\ QueryUnderWay(asking) /\ KnownZone
      BY <1>1, <1>2, <1>4 DEF IInv, OneQuery, Quiet
    <2>2. toHead = <<>> /\ toClient = <<>> /\ AnswerFor(asking, held)
      BY <1>1, <2>1 DEF QueryUnderWay, Quiet
    <2>3. QueryUnderWay(asking)'
      BY <1>1, <2>2 DEF QueryUnderWay, Quiet, AnswerFor, caller, wire
    <2> QED BY <1>1, <1>2, <2>1, <2>3 DEF OneQuery, KnownZone, caller
  <1> QED BY <1>1, <1>3, <1>4 DEF IInv, counts

-----------------------------------------------------------------------------
(* The theorems *)

(* Nobody has asked anything at the start. *)
LEMMA InitInv == Init => IInv
  <1> SUFFICES ASSUME Init PROVE IInv
    OBVIOUS
  <1>1. link \in BOOLEAN /\ zoneAnswered \in BOOLEAN
    BY DEF Init
  <1>2. Types
    BY <1>1 DEF Init, Types, States, ThreadStates
  <1>3. Session /\ OneQuery /\ KnownZone
    BY DEF Init, Session, OneQuery, KnownZone, Quiet
  <1> QED BY <1>2, <1>3 DEF IInv

(* Every step keeps the invariant. *)
LEMMA NextInv == IInv /\ [Next]_vars => IInv'
  <1> SUFFICES ASSUME IInv, [Next]_vars PROVE IInv'
    OBVIOUS
  <1>1. CASE UNCHANGED vars
    BY <1>1 DEF vars, player, caller, shared, thread, wire, counts, IInv, Types, Session,
                OneQuery, KnownZone, ProbeUnderWay, QueryUnderWay, Quiet, AnswerFor
  <1> QED BY <1>1, WalkInv, OwnerChangesInv, HeadAnswersInv, LinkBreaksInv, ConnectInv,
             ConnectAnsweredInv, ConnectUnansweredInv, DisconnectInv, SendStateInv,
             QueryZoneInv, QueryAnsweredInv, QueryTimesOutInv, RecvTurnsInv, RecvReadsInv,
             RecvHandsOverInv DEF Next

(* As long as no answer came late there is one query at a time, and what   *)
(* is anywhere between the head and the caller is the answer to it.        *)
THEOREM Invariance == Spec => []IInv
  BY InitInv, NextInv, PTL DEF Spec

(* The zone the client keeps for a chunk is the one the head named for it, *)
(* and the chunk's zone unless the chunk has lost it since, through any    *)
(* number of crossings, changes of the boxes, broken connections and       *)
(* sessions, if no answer came late (recvLoop, queryZone).                 *)
THEOREM ZoneIsTheOneNamed == Spec => []KnowsItsZone
  <1>1. IInv => KnowsItsZone
    BY DEF IInv, KnownZone, KnowsItsZone
  <1> QED BY <1>1, Invariance, PTL
==============================================================================
