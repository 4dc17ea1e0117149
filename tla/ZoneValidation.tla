---------------------------- MODULE ZoneValidation ----------------------------
(***************************************************************************)
(* A zone's requests to the validator.  What a player asks for (place,     *)
(* drop, move or remove an object of the world) happens when the validator *)
(* accepts it; a player's movement happens at once and is taken back when  *)
(* the validator refuses it.  A request that gets no answer is sent again  *)
(* twice and then given up, which opens the zone's circuit breaker; a      *)
(* breaker that has been open for its time, or has been exhausted, makes   *)
(* the zone dial again.  The validator may hang, die and come back.        *)
(***************************************************************************)
EXTENDS Naturals, Sequences, FiniteSets

CONSTANTS
    Players,
    Objects,      \* the objects a place of the world may hold (the server
                  \* derives an object's uuid from its place)
    Ids,          \* request ids; one is used again when no trace of it is left
    MaxAsking,    \* a movement is validated while fewer requests are pending (64)
    MaxRetries,   \* how often a request is sent again (2)
    CB_MAX_OPEN,  \* trips that exhaust the breaker (3)
    MaxWire,      \* bound: messages on the connection when a new request is sent
    MaxFaults     \* bound: how often the validator hangs or dies

ASSUME ValidationSets == Players \cap Objects = {} /\ 0 \notin Ids /\ IsFiniteSet(Ids)
ASSUME ValidationBounds == {MaxAsking, MaxRetries, CB_MAX_OPEN} \subseteq Nat \ {0} /\ {MaxWire, MaxFaults} \subseteq Nat

Verbs == {"walk", "put", "remove"}   \* put: PLACE, DROP and MOVE
Idle == [verb |-> "none"]
Resent == 0       \* the id of a request sent again: a new one, that no
                  \* pending entry has

VARIABLES
    entities,     \* what the registry holds; a player has a lastPosition
                  \* exactly when it is in it
    pending,      \* pendingValid: id -> the request, or Idle
    validated, cbState,
    cbOpenCount,  \* trips in a row; the count stops at CB_MAX_OPEN, which is
                  \* all it is compared with
    cbWindow,     \* nowMs() < cbOpenUntil
    link,         \* tcp_validator: "ok", "half" (the peer is gone, which the
                  \* next send does not notice) or "dead" (a send fails)
    toValidator, toZone,
    server,       \* the validator: "up", "hung" or "down"
    module,       \* its rules: "good", or "none" (not loaded, or crashed)
    faults

breaker == <<validated, cbState, cbOpenCount, cbWindow>>
wire == <<link, toValidator, toZone>>
validator == <<server, module, faults>>
vars == <<entities, pending, breaker, wire, validator>>

Requests == [verb : Verbs, about : Players \cup Objects, retries : 0..MaxRetries]

TypeOK ==
    /\ entities \subseteq Players \cup Objects
    /\ pending \in [Ids -> Requests \cup {Idle}]
    /\ validated \in BOOLEAN /\ cbState \in {0, 1} /\ cbOpenCount \in 0..CB_MAX_OPEN
    /\ cbWindow \in BOOLEAN
    /\ link \in {"ok", "half", "dead"}
    /\ server \in {"up", "hung", "down"} /\ module \in {"good", "none"}
    /\ faults \in 0..MaxFaults

Init ==
    /\ entities = {}
    /\ pending = [r \in Ids |-> Idle]
    /\ validated = TRUE /\ cbState = 0 /\ cbOpenCount = 0
    /\ cbWindow = FALSE
    /\ link = "ok" /\ toValidator = <<>> /\ toZone = <<>>
    /\ server = "up" /\ module \in {"good", "none"} /\ faults = 0

Pending == {r \in Ids : pending[r] # Idle}
Mentioned(q) == {q[i].id : i \in DOMAIN q}

circuitBreakerOk == ~(validated /\ cbState = 1 /\ cbWindow)

-----------------------------------------------------------------------------
(* The link *)

Sends(m) ==
    /\ link # "dead"
    /\ link' = IF link = "half" THEN "dead" ELSE link
    /\ toValidator' = IF link = "ok" THEN Append(toValidator, m) ELSE toValidator

(* A connection to a validator that hangs succeeds in the accept queue, or *)
(* fails in the handshake.                                                 *)
connectToValidator(ok) ==
    /\ server = "up" => ok
    /\ server = "down" => ~ok
    /\ link' = IF ok THEN "ok" ELSE "dead"
    /\ toValidator' = <<>> /\ toZone' = <<>>

-----------------------------------------------------------------------------
(* What players send to the zone *)

(* The next request id (reqSeq) is one that is nowhere in use. *)
FreeIds == Ids \ (Pending \cup Mentioned(toValidator) \cup Mentioned(toZone))

Asks(verb, about) ==
    /\ FreeIds # {} /\ Len(toValidator) + Len(toZone) <= MaxWire
    /\ LET r == CHOOSE i \in FreeIds : TRUE IN
        /\ Sends([id |-> r, kind |-> IF verb = "walk" THEN 0 ELSE 1, about |-> about])
        /\ pending' = [pending EXCEPT ![r] =
                [verb |-> verb, about |-> about, retries |-> 0]]

(* A player's position: served at once.  The zone asks for a verdict when  *)
(* it has an earlier position and not too many requests pending; it may    *)
(* also have asked less than 30 ms ago, or be unable to send.              *)
EntityTransfer(p) ==
    /\ entities' = entities \cup {p}
    /\ \/ /\ p \in entities /\ circuitBreakerOk
          /\ Cardinality(Pending) < MaxAsking
          /\ Asks("walk", p)
       \/ UNCHANGED <<pending, link, toValidator>>
    /\ UNCHANGED <<breaker, toZone, validator>>

(* A request about an object: PLACE and DROP put it into the world, MOVE   *)
(* puts the one that is here, as it will be, and only one that is here is  *)
(* removed.  Without a validator there is no request.                      *)
ActionRequest(verb, o) ==
    /\ verb = "remove" => o \in entities
    /\ circuitBreakerOk
    /\ Asks(verb, o)
    /\ UNCHANGED <<entities, breaker, toZone, validator>>

-----------------------------------------------------------------------------
(* What the zone does with the answers, and without them *)

ClosesBreaker == cbState' = 0 /\ cbWindow' = FALSE /\ cbOpenCount' = 0

(* PKT_VALIDATE_ACK.  An answer to a request that is not pending says      *)
(* nothing; a refusal evicts what the request was about.                   *)
ValidateAck ==
    /\ toZone # <<>>
    /\ LET ack == Head(toZone)
           r == ack.id
       IN  IF r \notin Pending
           THEN UNCHANGED <<entities, pending, cbState, cbWindow, cbOpenCount>>
           ELSE /\ pending' = [pending EXCEPT ![r] = Idle]
                /\ IF ack.verdict = 0
                   THEN /\ entities' = entities \ {pending[r].about}
                        /\ UNCHANGED <<cbState, cbWindow, cbOpenCount>>
                   ELSE /\ entities' = CASE pending[r].verb = "walk" -> entities
                                         [] pending[r].verb = "remove" -> entities \ {pending[r].about}
                                         [] OTHER -> entities \cup {pending[r].about}
                        /\ ClosesBreaker
    /\ toZone' = Tail(toZone)
    /\ UNCHANGED <<validated, link, toValidator, validator>>

(* Half open: dial again when the arbiter was given up, or the breaker has *)
(* been open for its time.                                                 *)
Redial_onlyGivenUp ==
    /\ ~validated
    /\ \E ok \in BOOLEAN :
        /\ connectToValidator(ok)
        /\ validated' = ok
        /\ IF ok THEN ClosesBreaker ELSE UNCHANGED <<cbState, cbWindow, cbOpenCount>>
    /\ UNCHANGED <<entities, pending, validator>>

Redial ==
    /\ ~validated \/ (cbState = 1 /\ ~cbWindow)
    /\ \E ok \in BOOLEAN :
        /\ connectToValidator(ok)
        /\ validated' = ok
        /\ IF ok THEN ClosesBreaker ELSE UNCHANGED <<cbState, cbWindow, cbOpenCount>>
    /\ UNCHANGED <<entities, pending, validator>>

(* A request whose deadline has passed, which it may at any time, is sent  *)
(* again, as a movement and under an id that is not the pending one ...    *)
Resend_oneMore(r) ==
    /\ r \in Pending /\ pending[r].retries <= MaxRetries
    /\ Sends([id |-> Resent, kind |-> 0, about |-> pending[r].about])
    /\ pending' = [pending EXCEPT ![r].retries = @ + 1]
    /\ UNCHANGED <<entities, breaker, toZone, validator>>

Resend_sameId(r) ==
    /\ r \in Pending /\ pending[r].retries < MaxRetries
    /\ Sends([id |-> r, kind |-> 0, about |-> pending[r].about])
    /\ pending' = [pending EXCEPT ![r].retries = @ + 1]
    /\ UNCHANGED <<entities, breaker, toZone, validator>>

Resend(r) ==
    /\ r \in Pending /\ pending[r].retries < MaxRetries
    /\ Sends([id |-> Resent, kind |-> 0, about |-> pending[r].about])
    /\ pending' = [pending EXCEPT ![r].retries = @ + 1]
    /\ UNCHANGED <<entities, breaker, toZone, validator>>

(* ... and given up after the last retry, or when it cannot be sent: the   *)
(* breaker opens, or is exhausted and leaves the zone without a validator. *)
Unanswered(r) ==
    /\ pending' = [pending EXCEPT ![r] = Idle]
    /\ \E dialled \in BOOLEAN :
        /\ \/ pending[r].retries = MaxRetries /\ connectToValidator(dialled)
           \/ UNCHANGED wire /\ dialled = validated
        /\ IF cbOpenCount + 1 >= CB_MAX_OPEN
           THEN /\ validated' = FALSE /\ cbState' = 0
                /\ UNCHANGED cbWindow
           ELSE /\ validated' = dialled
                /\ cbState' = 1 /\ cbWindow' = TRUE
    /\ cbOpenCount' = IF cbOpenCount < CB_MAX_OPEN THEN cbOpenCount + 1 ELSE cbOpenCount
    /\ UNCHANGED <<entities, validator>>

GiveUp_afterRetries(r) ==
    /\ r \in Pending
    /\ pending[r].retries = MaxRetries
    /\ Unanswered(r)

GiveUp(r) ==
    /\ r \in Pending
    /\ pending[r].retries = MaxRetries \/ link = "dead"
    /\ Unanswered(r)

WindowPasses ==
    /\ cbWindow
    /\ cbWindow' = FALSE
    /\ UNCHANGED <<entities, pending, validated, cbState, cbOpenCount, wire, validator>>

-----------------------------------------------------------------------------
(* The validator *)

(* A movement is judged by the module, which may crash under the guard, or *)
(* by the speed limit, which lets a retry pass because it has no elapsed   *)
(* time.  An action is judged by the module or refused.                    *)
validateMoveRequest(m, ok, crash) ==
    /\ crash => module = "good" /\ ~ok
    /\ m.id = Resent /\ module # "good" => ok

validateActionRequest(ok) == ok => module = "good"

ValidateRequest ==
    /\ server = "up" /\ link = "ok" /\ toValidator # <<>>
    /\ \E ok, crash \in BOOLEAN :
        LET m == Head(toValidator)
        IN  /\ IF m.kind = 0 THEN validateMoveRequest(m, ok, crash)
                             ELSE ~crash /\ validateActionRequest(ok)
            /\ module' = IF crash THEN "none" ELSE module
            /\ toZone' = Append(toZone, [id |-> m.id, verdict |-> IF ok THEN 1 ELSE 0,
                                         kind |-> m.kind, about |-> m.about])
    /\ toValidator' = Tail(toValidator)
    /\ UNCHANGED <<entities, pending, breaker, link, server, faults>>

(* A process that dies with data it has not read resets the connection. *)
Dies ==
    /\ server # "down" /\ faults < MaxFaults
    /\ server' = "down"
    /\ link' = IF link = "ok" /\ server = "up" /\ toValidator = <<>> THEN "half" ELSE "dead"
    /\ toValidator' = <<>>
    /\ faults' = faults + 1
    /\ UNCHANGED <<entities, pending, breaker, toZone, module>>

Hangs ==
    /\ server = "up" /\ faults < MaxFaults
    /\ server' = "hung"
    /\ faults' = faults + 1
    /\ UNCHANGED <<entities, pending, breaker, wire, module>>

Returns ==
    /\ server # "up"
    /\ server' = "up"
    /\ IF server = "down" THEN module' \in {"good", "none"} ELSE UNCHANGED module
    /\ UNCHANGED <<entities, pending, breaker, wire, faults>>

-----------------------------------------------------------------------------
Next ==
    \/ \E p \in Players : EntityTransfer(p)
    \/ \E o \in Objects, verb \in Verbs \ {"walk"} : ActionRequest(verb, o)
    \/ \E r \in Ids : Resend(r) \/ GiveUp(r)
    \/ ValidateAck \/ Redial \/ WindowPasses
    \/ ValidateRequest \/ Dies \/ Hangs \/ Returns

Spec == Init /\ [][Next]_vars

(* The zone's loop turns and its clock runs, the validator answers while   *)
(* it is up, and players keep sending positions, of which some are asked   *)
(* about.                                                                  *)
Fairness ==
    /\ \A r \in Ids : WF_vars(Resend(r) \/ GiveUp(r))
    /\ WF_vars(ValidateAck) /\ WF_vars(Redial) /\ WF_vars(WindowPasses)
    /\ WF_vars(ValidateRequest)
    /\ \A p \in Players : SF_vars(EntityTransfer(p) /\ (p \in entities => pending' # pending))

FairSpec == Spec /\ Fairness

-----------------------------------------------------------------------------
(* Properties *)

Accepted(o) == /\ toZone # <<>> /\ toZone' = Tail(toZone)
               /\ Head(toZone).verdict = 1 /\ Head(toZone).kind = 1
               /\ Head(toZone).about = o

(* "An action that fails closed": an object comes into the world only by a *)
(* verdict of the module's action rule about that object, whatever was     *)
(* sent again as a movement, answered late or asked for while the          *)
(* validator was away.                                                     *)
FailsClosed == [][\A o \in Objects : o \in entities' \ entities => Accepted(o)]_vars

(* "An action only happens if it is accepted": the same of an object that  *)
(* disappears.                                                             *)
HappensOnlyIfAccepted ==
    [][\A o \in Objects : (o \in entities') # (o \in entities) => Accepted(o)]_vars

(* No request is pending for ever, whatever becomes of the validator: it   *)
(* is answered or given up, after at most two retries.                     *)
EveryRequestSettles == \A r \in Ids : [](r \in Pending => <>(r \notin Pending))

(* The zone holds a connection that fails every send, and has no reason to *)
(* doubt it: nothing is pending and the breaker is closed.                 *)
DeadUnnoticed == validated /\ cbState = 0 /\ link = "dead" /\ Pending = {}

(* "A breaker that cannot close again is not a breaker, it's a fuse": when *)
(* the validator is back for good, the zone can ask it on a live           *)
(* connection again and again; the one way not to is a connection that     *)
(* died before anything was asked on it.                                   *)
BreakerRecovers ==
    <>[](server = "up") =>
        \/ []<>(link = "ok" /\ circuitBreakerOk)
        \/ <>[]DeadUnnoticed
==============================================================================
