------------------------ MODULE ZoneValidation_proofs -------------------------
(***************************************************************************)
(* Proofs about ZoneValidation: its types, and that an object comes into   *)
(* the world only by an accepted action about it.                          *)
(***************************************************************************)
EXTENDS ZoneValidation, TLAPS

Entities == Players \cup Objects
Questions == [id : Ids \cup {Resent}, kind : {0, 1}, about : Entities]
Verdicts == [id : Ids \cup {Resent}, verdict : {0, 1}, kind : {0, 1}, about : Entities]

(* The messages of a queue. *)
On(q) == {q[i] : i \in DOMAIN q}

(* A message that has the id of a pending request speaks of what that      *)
(* request is about, and is judged as what it is.                          *)
Matches(m, pend) ==
    m.id \in Ids /\ pend[m.id] # Idle =>
        /\ m.about = pend[m.id].about
        /\ m.kind = IF pend[m.id].verb = "walk" THEN 0 ELSE 1

WireOK ==
    /\ toValidator \in Seq(Questions)
    /\ toZone \in Seq(Verdicts)

Answerable == \A m \in On(toValidator) \cup On(toZone) : Matches(m, pending)

IInv == TypeOK /\ WireOK /\ Answerable

-----------------------------------------------------------------------------
(* Queues *)

(* Appending adds a message, taking one off leaves messages that were there. *)
LEMMA QueueMessages ==
    ASSUME NEW S, NEW q \in Seq(S)
    PROVE  /\ \A m \in S : Append(q, m) \in Seq(S) /\ On(Append(q, m)) = On(q) \cup {m}
           /\ q # <<>> => /\ Tail(q) \in Seq(S) /\ On(Tail(q)) \subseteq On(q)
                          /\ Head(q) \in On(q) /\ Head(q) \in S
           /\ On(<<>>) = {} /\ <<>> \in Seq(S)
  <1>1. ASSUME NEW m \in S PROVE On(Append(q, m)) = On(q) \cup {m}
    <2>1. /\ DOMAIN Append(q, m) = 1..Len(q) + 1 /\ DOMAIN q = 1..Len(q) /\ Len(q) \in Nat
          /\ \A i \in 1..Len(q) : Append(q, m)[i] = q[i]
          /\ Append(q, m)[Len(q) + 1] = m
      OBVIOUS
    <2>2. 1..Len(q) + 1 = 1..Len(q) \cup {Len(q) + 1}
      BY <2>1
    <2> QED BY <2>1, <2>2 DEF On
  <1>2. ASSUME q # <<>> PROVE On(Tail(q)) \subseteq On(q) /\ Head(q) \in On(q)
    <2>1. /\ DOMAIN Tail(q) = 1..Len(q) - 1 /\ DOMAIN q = 1..Len(q) /\ Len(q) \in Nat \ {0}
          /\ \A i \in 1..Len(q) - 1 : Tail(q)[i] = q[i + 1] /\ i + 1 \in 1..Len(q)
          /\ Head(q) = q[1] /\ 1 \in 1..Len(q)
      BY <1>2
    <2> QED BY <2>1 DEF On
  <1>3. q # <<>> => Tail(q) \in Seq(S) /\ Head(q) \in S
    OBVIOUS
  <1>4. On(<<>>) = {}
    BY DEF On
  <1> QED BY <1>1, <1>2, <1>3, <1>4

(* What Sends does to the link. *)
LEMMA SendsEffect ==
    ASSUME IInv, NEW m \in Questions, Sends(m)
    PROVE  /\ toValidator' \in Seq(Questions)
           /\ On(toValidator') \subseteq On(toValidator) \cup {m}
           /\ link' \in {"ok", "half", "dead"}
  <1>1. toValidator \in Seq(Questions) /\ link \in {"ok", "half", "dead"}
    BY DEF IInv, WireOK, TypeOK
  <1> QED BY <1>1, QueueMessages DEF Sends

(* A new connection starts empty. *)
LEMMA ConnectEffect ==
    ASSUME NEW ok \in BOOLEAN, connectToValidator(ok)
    PROVE  /\ toValidator' = <<>> /\ toZone' = <<>> /\ link' \in {"ok", "dead"}
           /\ toValidator' \in Seq(Questions) /\ toZone' \in Seq(Verdicts)
           /\ On(toValidator') = {} /\ On(toZone') = {}
  BY QueueMessages DEF connectToValidator, On

(* Forgetting a request, or counting a retry of it, invalidates no message. *)
LEMMA StillAnswerable ==
    ASSUME IInv, NEW r \in Ids, NEW e \in Requests \cup {Idle},
           pending' = [pending EXCEPT ![r] = e],
           e # Idle => pending[r] # Idle /\ e.about = pending[r].about /\ e.verb = pending[r].verb,
           NEW m, Matches(m, pending)
    PROVE  Matches(m, pending')
  BY DEF IInv, TypeOK, Matches

-----------------------------------------------------------------------------
(* The actions keep the invariant *)

(* A request with an id that nothing mentions. *)
LEMMA AsksInv ==
    ASSUME IInv, NEW verb \in Verbs, NEW about \in Entities, Asks(verb, about),
           toZone' = toZone
    PROVE  /\ pending' \in [Ids -> Requests \cup {Idle}]
           /\ link' \in {"ok", "half", "dead"}
           /\ WireOK' /\ Answerable'
  <1> DEFINE r == CHOOSE i \in FreeIds : TRUE
             m == [id |-> r, kind |-> IF verb = "walk" THEN 0 ELSE 1, about |-> about]
             e == [verb |-> verb, about |-> about, retries |-> 0]
  <1>1. r \in FreeIds /\ Sends(m) /\ pending' = [pending EXCEPT ![r] = e]
    BY DEF Asks
  <1>2. r \in Ids /\ r \notin Mentioned(toValidator) /\ r \notin Mentioned(toZone)
    BY <1>1 DEF FreeIds
  <1> HIDE DEF r
  <1>3. m \in Questions /\ e \in Requests
    BY <1>2, ValidationBounds DEF Questions, Requests, Entities
  <1>4. /\ toValidator' \in Seq(Questions)
        /\ On(toValidator') \subseteq On(toValidator) \cup {m}
        /\ link' \in {"ok", "half", "dead"}
    BY <1>1, <1>3, SendsEffect
  <1>5. pending' \in [Ids -> Requests \cup {Idle}] /\ pending'[r] = e
    BY <1>1, <1>2, <1>3 DEF IInv, TypeOK
  <1>6. \A n \in On(toValidator) \cup On(toZone) : n.id # r
    BY <1>2 DEF On, Mentioned
  <1>7. \A n \in On(toValidator) \cup On(toZone) : Matches(n, pending')
    BY <1>1, <1>6 DEF IInv, Answerable, Matches, TypeOK
  <1>8. Matches(m, pending')
    BY <1>5 DEF Matches
  <1>9. Answerable'
    BY <1>4, <1>7, <1>8 DEF Answerable
  <1>10. WireOK'
    BY <1>4 DEF IInv, WireOK
  <1> QED BY <1>4, <1>5, <1>9, <1>10

(* A position of a player, validated or not. *)
LEMMA EntityTransferInv ==
    ASSUME IInv, NEW p \in Players, EntityTransfer(p)
    PROVE  IInv'
  <1>1. entities' \subseteq Entities /\ UNCHANGED <<breaker, toZone, validator>>
    BY DEF EntityTransfer, IInv, TypeOK, Entities
  <1>2. CASE Asks("walk", p)
    BY <1>1, <1>2, AsksInv DEF IInv, TypeOK, Verbs, Entities, breaker, validator
  <1>3. CASE UNCHANGED <<pending, link, toValidator>>
    BY <1>1, <1>3 DEF IInv, TypeOK, WireOK, Answerable, Entities, breaker, validator
  <1> QED BY <1>2, <1>3 DEF EntityTransfer

(* A request about an object. *)
LEMMA ActionRequestInv ==
    ASSUME IInv, NEW o \in Objects, NEW verb \in Verbs, ActionRequest(verb, o)
    PROVE  IInv'
  <1>1. Asks(verb, o) /\ UNCHANGED <<entities, breaker, toZone, validator>>
    BY DEF ActionRequest
  <1> QED BY <1>1, AsksInv DEF IInv, TypeOK, Entities, breaker, validator

(* A retry has an id that no pending request has: 0 is not in Ids. *)
LEMMA ResendInv ==
    ASSUME IInv, NEW r \in Ids, Resend(r)
    PROVE  IInv'
  <1> DEFINE m == [id |-> Resent, kind |-> 0, about |-> pending[r].about]
             e == [pending[r] EXCEPT !.retries = @ + 1]
  <1>1. /\ pending[r] \in Requests /\ pending[r] # Idle /\ pending[r].retries < MaxRetries
        /\ Sends(m) /\ UNCHANGED <<entities, breaker, toZone, validator>>
        /\ pending' = [pending EXCEPT ![r] = e]
    BY DEF Resend, Pending, IInv, TypeOK
  <1>2. m \in Questions
    BY <1>1 DEF Questions, Requests, Entities
  <1>3. e \in Requests /\ e.about = pending[r].about /\ e.verb = pending[r].verb
    BY <1>1, ValidationBounds DEF Requests
  <1> HIDE DEF e
  <1>4. /\ toValidator' \in Seq(Questions)
        /\ On(toValidator') \subseteq On(toValidator) \cup {m}
        /\ link' \in {"ok", "half", "dead"}
    BY <1>1, <1>2, SendsEffect
  <1>5. pending' \in [Ids -> Requests \cup {Idle}]
    BY <1>1, <1>3 DEF IInv, TypeOK
  <1>6. \A n \in On(toValidator) \cup On(toZone) : Matches(n, pending')
    BY <1>1, <1>3, StillAnswerable DEF IInv, Answerable
  <1>7. Matches(m, pending')
    BY ValidationSets DEF Matches, Resent
  <1>8. Answerable'
    BY <1>1, <1>4, <1>6, <1>7 DEF Answerable
  <1>9. WireOK'
    BY <1>1, <1>4 DEF IInv, WireOK
  <1> QED BY <1>1, <1>4, <1>5, <1>8, <1>9 DEF IInv, TypeOK, breaker, validator

(* A request that is given up is pending no more, on the old link or a new one. *)
LEMMA GiveUpInv ==
    ASSUME IInv, NEW r \in Ids, GiveUp(r)
    PROVE  IInv'
  <1>1. /\ pending' = [pending EXCEPT ![r] = Idle] /\ UNCHANGED <<entities, validator>>
        /\ cbOpenCount' = IF cbOpenCount < CB_MAX_OPEN THEN cbOpenCount + 1 ELSE cbOpenCount
    BY DEF GiveUp, Unanswered
  <1>2. PICK dialled \in BOOLEAN :
        /\ connectToValidator(dialled) \/ UNCHANGED wire
        /\ IF cbOpenCount + 1 >= CB_MAX_OPEN
           THEN /\ validated' = FALSE /\ cbState' = 0 /\ UNCHANGED cbWindow
           ELSE /\ validated' = dialled /\ cbState' = 1 /\ cbWindow' = TRUE
    BY DEF GiveUp, Unanswered
  <1>3. /\ WireOK' /\ link' \in {"ok", "half", "dead"}
        /\ On(toValidator') \cup On(toZone') \subseteq On(toValidator) \cup On(toZone)
    BY <1>2, ConnectEffect DEF IInv, TypeOK, WireOK, wire, On
  <1>4. \A n \in On(toValidator) \cup On(toZone) : Matches(n, pending')
    BY <1>1, StillAnswerable DEF IInv, Answerable
  <1>5. Answerable'
    BY <1>3, <1>4 DEF Answerable
  <1>6. validated' \in BOOLEAN /\ cbState' \in {0, 1} /\ cbWindow' \in BOOLEAN
    BY <1>2 DEF IInv, TypeOK
  <1>7. cbOpenCount' \in 0..CB_MAX_OPEN
    BY <1>1, ValidationBounds DEF IInv, TypeOK
  <1>8. pending' \in [Ids -> Requests \cup {Idle}]
    BY <1>1 DEF IInv, TypeOK
  <1> QED BY <1>1, <1>3, <1>5, <1>6, <1>7, <1>8 DEF IInv, TypeOK, validator

(* A verdict closes the breaker or leaves it alone. *)
LEMMA BreakerType ==
    ASSUME TypeOK, ClosesBreaker \/ UNCHANGED <<cbState, cbWindow, cbOpenCount>>
    PROVE  cbState' \in {0, 1} /\ cbWindow' \in BOOLEAN /\ cbOpenCount' \in 0..CB_MAX_OPEN
  <1>1. cbState' \in {0, 1} /\ cbOpenCount' \in 0..CB_MAX_OPEN
    BY ValidationBounds DEF ClosesBreaker, TypeOK
  <1>2. cbWindow' \in BOOLEAN
    BY Zenon DEF ClosesBreaker, TypeOK
  <1> QED BY <1>1, <1>2

(* A verdict settles the request it names, or says nothing. *)
LEMMA ValidateAckInv ==
    ASSUME IInv, ValidateAck
    PROVE  IInv'
  <1> DEFINE ack == Head(toZone)
             r == ack.id
  <1>1. /\ toZone # <<>> /\ toZone' = Tail(toZone)
        /\ UNCHANGED <<validated, link, toValidator, validator>>
    BY DEF ValidateAck
  <1>2. /\ toZone' \in Seq(Verdicts) /\ On(toZone') \subseteq On(toZone)
    BY <1>1, QueueMessages DEF IInv, WireOK
  <1>3. WireOK'
    BY <1>1, <1>2 DEF IInv, WireOK
  <1>4. CASE r \notin Pending
    <2>1. UNCHANGED <<entities, pending, cbState, cbWindow, cbOpenCount>>
      BY <1>4 DEF ValidateAck
    <2>2. Answerable'
      BY <1>1, <1>2, <2>1 DEF IInv, Answerable
    <2> QED BY <1>1, <1>3, <2>1, <2>2 DEF IInv, TypeOK, validator
  <1>5. CASE r \in Pending
    <2>1. r \in Ids /\ pending[r] \in Requests
      BY <1>5 DEF Pending, IInv, TypeOK
    <2>2. pending' = [pending EXCEPT ![r] = Idle]
      BY <1>5 DEF ValidateAck
    <2>3. entities' \subseteq Entities
      BY <1>5, <2>1 DEF ValidateAck, IInv, TypeOK, Requests, Entities
    <2>4. cbState' \in {0, 1} /\ cbWindow' \in BOOLEAN /\ cbOpenCount' \in 0..CB_MAX_OPEN
      <3>1. ClosesBreaker \/ UNCHANGED <<cbState, cbWindow, cbOpenCount>>
        BY <1>5 DEF ValidateAck
      <3> QED BY <3>1, BreakerType DEF IInv
    <2>5. \A n \in On(toValidator) \cup On(toZone) : Matches(n, pending')
      BY <2>1, <2>2, StillAnswerable DEF IInv, Answerable
    <2>6. Answerable'
      BY <1>1, <1>2, <2>5 DEF Answerable
    <2>7. pending' \in [Ids -> Requests \cup {Idle}]
      BY <2>2 DEF IInv, TypeOK
    <2> QED BY <1>1, <1>3, <2>3, <2>4, <2>6, <2>7 DEF IInv, TypeOK, Entities, validator
  <1> QED BY <1>4, <1>5

(* A new connection starts without messages. *)
LEMMA RedialInv ==
    ASSUME IInv, Redial
    PROVE  IInv'
  <1>1. PICK ok \in BOOLEAN :
        /\ connectToValidator(ok)
        /\ validated' = ok
        /\ IF ok THEN ClosesBreaker ELSE UNCHANGED <<cbState, cbWindow, cbOpenCount>>
    BY DEF Redial
  <1>2. UNCHANGED <<entities, pending, validator>>
    BY DEF Redial
  <1>3. WireOK' /\ Answerable' /\ link' \in {"ok", "half", "dead"}
    BY <1>1, ConnectEffect DEF WireOK, Answerable
  <1>4. /\ validated' \in BOOLEAN /\ cbState' \in {0, 1} /\ cbWindow' \in BOOLEAN
        /\ cbOpenCount' \in 0..CB_MAX_OPEN
    <2>1. ClosesBreaker \/ UNCHANGED <<cbState, cbWindow, cbOpenCount>>
      BY <1>1
    <2> QED BY <1>1, <2>1, BreakerType DEF IInv
  <1> QED BY <1>2, <1>3, <1>4 DEF IInv, TypeOK, validator

(* The answer to a question has its id, its kind and what it is about. *)
LEMMA ValidateRequestInv ==
    ASSUME IInv, ValidateRequest
    PROVE  IInv'
  <1> DEFINE m == Head(toValidator)
  <1>1. PICK ok \in BOOLEAN, crash \in BOOLEAN :
        /\ module' = IF crash THEN "none" ELSE module
        /\ toZone' = Append(toZone, [id |-> m.id, verdict |-> IF ok THEN 1 ELSE 0,
                                     kind |-> m.kind, about |-> m.about])
    BY DEF ValidateRequest
  <1>2. /\ toValidator # <<>> /\ toValidator' = Tail(toValidator)
        /\ UNCHANGED <<entities, pending, breaker, link, server, faults>>
    BY DEF ValidateRequest
  <1>3. PICK a : a = [id |-> m.id, verdict |-> IF ok THEN 1 ELSE 0, kind |-> m.kind, about |-> m.about]
    OBVIOUS
  <1>4. /\ m \in On(toValidator) /\ m \in Questions
        /\ toValidator' \in Seq(Questions) /\ On(toValidator') \subseteq On(toValidator)
    BY <1>2, QueueMessages DEF IInv, WireOK
  <1>5. a \in Verdicts /\ a.id = m.id /\ a.kind = m.kind /\ a.about = m.about
    BY <1>3, <1>4 DEF Verdicts, Questions
  <1>6. toZone' \in Seq(Verdicts) /\ On(toZone') = On(toZone) \cup {a}
    BY <1>1, <1>3, <1>5, QueueMessages DEF IInv, WireOK
  <1>7. Matches(a, pending)
    BY <1>4, <1>5 DEF IInv, Answerable, Matches
  <1>8. Answerable'
    BY <1>2, <1>4, <1>6, <1>7 DEF IInv, Answerable
  <1>9. WireOK' /\ module' \in {"good", "none"}
    BY <1>1, <1>4, <1>6 DEF IInv, WireOK, TypeOK
  <1> QED BY <1>2, <1>8, <1>9 DEF IInv, TypeOK, breaker

(* Faults of the validator, and the end of the breaker's window. *)
LEMMA FaultsInv ==
    ASSUME IInv, Dies \/ Hangs \/ Returns \/ WindowPasses
    PROVE  IInv'
  <1>1. CASE Dies
    <2>1. toValidator' = <<>> /\ UNCHANGED <<entities, pending, breaker, toZone, module>>
      BY <1>1 DEF Dies
    <2>2. WireOK' /\ Answerable'
      BY <2>1, QueueMessages DEF IInv, WireOK, Answerable, On
    <2> QED BY <1>1, <2>1, <2>2, ValidationBounds DEF Dies, IInv, TypeOK, breaker
  <1>2. CASE Hangs
    BY <1>2, ValidationBounds DEF Hangs, IInv, TypeOK, WireOK, Answerable, breaker, wire
  <1>3. CASE Returns
    BY <1>3 DEF Returns, IInv, TypeOK, WireOK, Answerable, breaker, wire
  <1>4. CASE WindowPasses
    BY <1>4 DEF WindowPasses, IInv, TypeOK, WireOK, Answerable, wire, validator
  <1> QED BY <1>1, <1>2, <1>3, <1>4

-----------------------------------------------------------------------------
(* The theorems *)

(* Nothing has been asked at the start. *)
LEMMA InitInv == Init => IInv
  <1> SUFFICES ASSUME Init PROVE IInv
    OBVIOUS
  <1>1. cbState \in {0, 1} /\ cbOpenCount \in 0..CB_MAX_OPEN /\ faults \in 0..MaxFaults
    BY ValidationBounds DEF Init
  <1>2. validated \in BOOLEAN /\ cbWindow \in BOOLEAN
    BY DEF Init
  <1>3. TypeOK
    BY <1>1, <1>2 DEF Init, TypeOK
  <1>4. WireOK /\ Answerable
    BY QueueMessages DEF Init, WireOK, Answerable, On
  <1> QED BY <1>3, <1>4 DEF IInv

(* Every step keeps the invariant. *)
LEMMA NextInv == IInv /\ [Next]_vars => IInv'
  <1> SUFFICES ASSUME IInv, [Next]_vars PROVE IInv'
    OBVIOUS
  <1>1. CASE UNCHANGED vars
    BY <1>1 DEF vars, breaker, wire, validator, IInv, TypeOK, WireOK, Answerable
  <1> QED BY <1>1, EntityTransferInv, ActionRequestInv, ResendInv, GiveUpInv, ValidateAckInv,
             RedialInv, ValidateRequestInv, FaultsInv DEF Next

(* Every reachable state is well typed, and every message with the id of a *)
(* pending request speaks of that request.                                 *)
THEOREM Invariance == Spec => []IInv
  BY InitInv, NextInv, PTL DEF Spec

(* The state of the zone and of its validator is well typed: no request is *)
(* sent again more often than twice, the trips of the breaker stay below   *)
(* its limit.                                                              *)
THEOREM TypeCorrectness == Spec => []TypeOK
  <1>1. IInv => TypeOK
    BY DEF IInv
  <1> QED BY <1>1, Invariance, PTL

(* Only an accepted action about an object puts it into the world. *)
LEMMA OnlyAckCreates ==
    ASSUME IInv, Next, NEW o \in Objects, o \in entities', o \notin entities
    PROVE  Accepted(o)
  <1>1. ASSUME NEW p \in Players, EntityTransfer(p) PROVE FALSE
    BY <1>1, ValidationSets DEF EntityTransfer
  <1>2. CASE ValidateAck
    <2> DEFINE ack == Head(toZone)
               r == ack.id
    <2>1. toZone # <<>> /\ toZone' = Tail(toZone)
      BY <1>2 DEF ValidateAck
    <2>2. ack \in On(toZone) /\ ack \in Verdicts
      BY <2>1, QueueMessages DEF IInv, WireOK
    <2>3. r \in Pending
      BY <1>2 DEF ValidateAck
    <2>4. /\ ack.verdict # 0 /\ pending[r].about = o
          /\ pending[r].verb \notin {"walk", "remove"}
      BY <1>2, <2>3 DEF ValidateAck
    <2>5. ack.about = o /\ ack.kind = 1
      BY <2>2, <2>3, <2>4 DEF IInv, Answerable, Matches, Pending
    <2> QED BY <2>1, <2>2, <2>4, <2>5 DEF Accepted, Verdicts
  <1>3. CASE entities' = entities
    BY <1>3
  <1> QED BY <1>1, <1>2, <1>3
          DEF Next, ActionRequest, Resend, GiveUp, Unanswered, Redial, WindowPasses,
              ValidateRequest, Dies, Hangs, Returns

(* "An action that fails closed": an object comes into the world only by   *)
(* a verdict of the module's action rule about that object, however many   *)
(* requests are pending, retried, answered late or lost.                   *)
THEOREM ActionsFailClosed == Spec => FailsClosed
  <1>1. IInv /\ [Next]_vars => [\A o \in Objects : o \in entities' \ entities => Accepted(o)]_vars
    BY OnlyAckCreates
  <1> QED BY <1>1, Invariance, PTL DEF Spec, FailsClosed
==============================================================================
