---------------------------- MODULE Restore_proofs ----------------------------
(***************************************************************************)
(* Proofs about Restore, for any finite set of players and objects and any *)
(* number of versions, restarts and broken links: a restore never replaces *)
(* what a player has reported, and what it brings back of the world stays. *)
(***************************************************************************)
EXTENDS Restore, SequenceTheorems, FiniteSetTheorems, WellFoundedInduction, TLAPS

Entity == [id : Ids, ver : Nat]

Types ==
    /\ entities \in Seq(Entity) /\ answer \in Seq(Entity)
    /\ active \subseteq Ids
    /\ clock \in [Ids -> Nat] /\ reported \in [Players -> Nat]
    /\ worker \in {"idle", "restoring", "dialling", "ready", "stale"}

(* The database has one document per entity, and so has its answer. *)
OneDocumentEach == \A i, j \in DOMAIN answer : answer[i].id = answer[j].id => i = j

(* A player of the registry has one entry and is in lastActiveSeen, and    *)
(* with an entry of what it last reported if it has.                       *)
OneEntryEach ==
    \A p \in Players :
        /\ \A i, j \in Entries(p) : i = j
        /\ Entries(p) # {} => p \in active
        /\ reported[p] # Absent => \E i \in Entries(p) : entities[i].ver = reported[p]

(* The query is asked once, before the merge, and the objects the merge    *)
(* will skip are in the registry or were let go of by it.                  *)
RestoredOnce ==
    /\ worker = "restoring" => ~restoreMerged
    /\ ~restoreMerged => \A o \in Objects \cap active : o \in gone \cup Live

IInv == Types /\ OneDocumentEach /\ OneEntryEach /\ RestoredOnce /\ WorldReturns

-----------------------------------------------------------------------------
(* The registry *)

(* Entities that are not empty have a first one. *)
LEMMA FirstIndex ==
    ASSUME NEW T \in SUBSET Nat, T # {}
    PROVE  \E i \in T : \A j \in T : i <= j
  <1>1. PICK R : R = OpToRel(<, Nat)
    OBVIOUS
  <1>2. PICK i \in T : \A j \in T : <<j, i>> \notin R
    BY <1>1, NatLessThanWellFounded, WFMin
  <1>3. ASSUME NEW j \in T, ~(i <= j) PROVE FALSE
    <2>1. i \in Nat /\ j \in Nat /\ j < i
      BY <1>3
    <2>2. <<j, i>> \in R
      BY <1>1, <2>1 DEF OpToRel
    <2> QED BY <1>2, <2>2
  <1> QED BY <1>3

(* The place an index has among those of I. *)
Place(I, i) == Cardinality({j \in I : j <= i})

(* The places of n indices are 1 to n. *)
LEMMA Places ==
    ASSUME NEW n \in Nat, NEW I \in SUBSET (1..n)
    PROVE  /\ Cardinality(I) \in Nat
           /\ \A i \in I : Place(I, i) \in 1..Cardinality(I)
           /\ \A k \in 1..Cardinality(I) : \E i \in I : Place(I, i) = k
           /\ \A i, l \in I : Place(I, i) = Place(I, l) => i = l
  <1>1. IsFiniteSet(I)
    <2>1. IsFiniteSet(1..n)
      BY FS_Interval
    <2> QED BY <2>1, FS_Subset
  <1>2. PICK c : c = Cardinality(I)
    OBVIOUS
  <1>3. c \in Nat
    BY <1>1, <1>2, FS_CardinalityType
  <1>4. ASSUME NEW i \in I
        PROVE  /\ IsFiniteSet({j \in I : j <= i})
               /\ Place(I, i) \in 1..c
    <2>1. PICK B : B = {j \in I : j <= i}
      OBVIOUS
    <2>2. B \in SUBSET I /\ i \in B
      BY <2>1
    <2>3. IsFiniteSet(B) /\ Cardinality(B) <= c /\ Cardinality(B) \in Nat
      BY <1>1, <1>2, <2>2, FS_Subset, FS_CardinalityType
    <2>4. Cardinality(B) # 0
      BY <2>2, <2>3, FS_EmptySet
    <2>5. Cardinality(B) \in 1..c
      BY <1>3, <2>3, <2>4
    <2> QED BY <2>1, <2>3, <2>5 DEF Place
  <1>5. ASSUME NEW i \in I, NEW l \in I, i <= l,
               Place(I, i) = Place(I, l)
        PROVE  i = l
    <2>1. i \in Nat /\ l \in Nat /\ \A j \in I : j \in Nat
      OBVIOUS
    <2>2. PICK B, C : B = {j \in I : j <= i} /\ C = {j \in I : j <= l}
      OBVIOUS
    <2>3. ASSUME NEW j \in B PROVE j \in C
      <3>1. j \in I /\ j \in Nat /\ j <= i
        BY <2>1, <2>2
      <3>2. j <= l
        BY <1>5, <2>1, <3>1
      <3> QED BY <2>2, <3>1, <3>2
    <2>4. B \in SUBSET C /\ IsFiniteSet(C) /\ Cardinality(B) = Cardinality(C)
      BY <1>4, <1>5, <2>2, <2>3 DEF Place
    <2>5. B = C
      BY <2>4, FS_Subset
    <2>6. l \in C
      BY <2>1, <2>2
    <2>7. l <= i
      BY <2>2, <2>5, <2>6
    <2> QED BY <1>5, <2>1, <2>7
  <1>6. ASSUME NEW i \in I, NEW l \in I,
               Place(I, i) = Place(I, l)
        PROVE  i = l
    <2>1. i <= l \/ l <= i
      OBVIOUS
    <2> QED BY <1>5, <1>6, <2>1
  <1>7. PICK f : f = [i \in I |-> Place(I, i)]
    OBVIOUS
  <1>8. f \in Injection(I, 1..c)
    BY <1>4, <1>6, <1>7 DEF Injection, IsInjective
  <1>9. Cardinality(1..c) = c /\ IsFiniteSet(1..c)
    BY <1>3, FS_Interval
  <1>10. f \in Surjection(I, 1..c)
    BY <1>2, <1>8, <1>9, FS_Injection
  <1>11. \A k \in 1..c : \E i \in I : f[i] = k
    BY <1>10 DEF Surjection
  <1>12. \A k \in 1..c : \E i \in I : Place(I, i) = k
    BY <1>7, <1>11
  <1> QED BY <1>2, <1>3, <1>4, <1>6, <1>12

(* What is kept of a sequence of entities: the entries of S, each once. *)
LEMMA KeptEffect ==
    ASSUME NEW q \in Seq(Entity), NEW S
    PROVE  /\ Kept(q, S) \in Seq(Entity)
           /\ \A k \in DOMAIN Kept(q, S) : Kept(q, S)[k].id \in S
           /\ \A k \in DOMAIN Kept(q, S) : \E i \in DOMAIN q : Kept(q, S)[k] = q[i]
           /\ \A i \in DOMAIN q : q[i].id \in S => \E k \in DOMAIN Kept(q, S) : Kept(q, S)[k] = q[i]
           /\ \E g : /\ \A k \in DOMAIN Kept(q, S) : g[k] \in DOMAIN q /\ Kept(q, S)[k] = q[g[k]]
                     /\ \A k, l \in DOMAIN Kept(q, S) : g[k] = g[l] => k = l
  <1>1. PICK I, c, n : I = {i \in DOMAIN q : q[i].id \in S} /\ c = Cardinality(I) /\ n = Len(q)
    OBVIOUS
  <1>2. n \in Nat /\ DOMAIN q = 1..n /\ I \in SUBSET (1..n) /\ I \in SUBSET (DOMAIN q)
    BY <1>1
  <1>3. PICK g : g = [k \in 1..c |-> CHOOSE i \in I : Place(I, i) = k]
    OBVIOUS
  <1>4. /\ c \in Nat
        /\ \A i \in I : Place(I, i) \in 1..c
        /\ \A k \in 1..c : \E i \in I : Place(I, i) = k
        /\ \A i, l \in I : Place(I, i) = Place(I, l) => i = l
    <2>1. c = Cardinality(I) /\ n \in Nat /\ I \in SUBSET (1..n)
      BY <1>1, <1>2
    <2> QED BY <2>1, Places
  <1>5. ASSUME NEW k \in 1..c PROVE g[k] \in I /\ Place(I, g[k]) = k
    <2>1. \E i \in I : Place(I, i) = k
      BY <1>4
    <2> QED BY <1>3, <2>1
  <1>6. ASSUME NEW i \in I PROVE \E k \in 1..c : g[k] = i
    <2>1. PICK k : k = Place(I, i)
      OBVIOUS
    <2>2. k \in 1..c
      BY <1>4, <2>1
    <2>3. g[k] = i
      BY <1>4, <1>5, <2>1, <2>2
    <2> QED BY <2>2, <2>3
  <1>7. \A k, l \in 1..c : g[k] = g[l] => k = l
    BY <1>5
  <1>8. PICK w : w = Kept(q, S)
    OBVIOUS
  <1>9. w = [k \in 1..c |-> q[g[k]]]
    BY <1>1, <1>3, <1>8 DEF Kept, Place
  <1>10. \A k \in 1..c : w[k] = q[g[k]] /\ g[k] \in DOMAIN q /\ q[g[k]].id \in S /\ q[g[k]] \in Entity
    <2> TAKE k \in 1..c
    <2>1. w[k] = q[g[k]]
      BY <1>9
    <2>2. g[k] \in DOMAIN q /\ q[g[k]].id \in S
      BY <1>1, <1>5
    <2> QED BY <2>1, <2>2
  <1>11. w \in Seq(Entity) /\ DOMAIN w = 1..c
    BY <1>4, <1>9, <1>10
  <1>12. \A i \in DOMAIN q : q[i].id \in S => \E k \in DOMAIN w : w[k] = q[i]
    BY <1>1, <1>6, <1>10, <1>11
  <1>13. \E h : /\ \A k \in DOMAIN w : h[k] \in DOMAIN q /\ w[k] = q[h[k]]
                /\ \A k, l \in DOMAIN w : h[k] = h[l] => k = l
    BY <1>7, <1>10, <1>11
  <1> QED BY <1>8, <1>10, <1>11, <1>12, <1>13

(* An entity with one entry has no more in what is kept. *)
LEMMA KeptOnce ==
    ASSUME NEW q \in Seq(Entity), NEW S, NEW x,
           \A i, j \in DOMAIN q : q[i].id = x /\ q[j].id = x => i = j
    PROVE  \A k, l \in DOMAIN Kept(q, S) : Kept(q, S)[k].id = x /\ Kept(q, S)[l].id = x => k = l
  <1>1. PICK g : /\ \A k \in DOMAIN Kept(q, S) : g[k] \in DOMAIN q /\ Kept(q, S)[k] = q[g[k]]
                 /\ \A k, l \in DOMAIN Kept(q, S) : g[k] = g[l] => k = l
    BY KeptEffect
  <1> QED BY <1>1

(* An upsert writes one entry, of the entity, and leaves the others alone. *)
LEMMA UpsertedEffect ==
    ASSUME entities \in Seq(Entity), NEW x \in Ids, NEW v \in Nat
    PROVE  /\ Upserted(x, v) \in Seq(Entity)
           /\ \E k \in DOMAIN Upserted(x, v) :
                /\ Upserted(x, v)[k] = [id |-> x, ver |-> v]
                /\ DOMAIN entities \subseteq DOMAIN Upserted(x, v)
                /\ \A i \in DOMAIN Upserted(x, v) :
                        i # k => i \in DOMAIN entities /\ Upserted(x, v)[i] = entities[i]
                /\ k \in DOMAIN entities => entities[k].id = x
                /\ k \notin DOMAIN entities => Entries(x) = {}
  <1>1. PICK e : e = [id |-> x, ver |-> v]
    OBVIOUS
  <1>2. e \in Entity
    BY <1>1 DEF Entity
  <1>3. PICK w : w = Upserted(x, v)
    OBVIOUS
  <1>4. Len(entities) \in Nat /\ DOMAIN entities = 1..Len(entities)
    OBVIOUS
  <1>5. CASE Entries(x) = {}
    <2>1. w = Append(entities, e)
      BY <1>1, <1>3, <1>5 DEF Upserted
    <2>2. PICK k : k = Len(entities) + 1
      OBVIOUS
    <2>3. w \in Seq(Entity) /\ DOMAIN w = 1..k /\ w[k] = e /\ \A i \in 1..Len(entities) : w[i] = entities[i]
      BY <1>2, <2>1, <2>2
    <2>4. k \in DOMAIN w /\ k \notin DOMAIN entities /\ \A i \in DOMAIN w : i # k => i \in DOMAIN entities
      BY <1>4, <2>2, <2>3
    <2>5. DOMAIN entities \subseteq DOMAIN w
      BY <1>4, <2>2, <2>3
    <2> QED BY <1>1, <1>3, <1>4, <1>5, <2>3, <2>4, <2>5
  <1>6. CASE Entries(x) # {}
    <2>1. PICK k : k = CHOOSE i \in Entries(x) : \A j \in Entries(x) : i <= j
      OBVIOUS
    <2>2. Entries(x) \in SUBSET Nat
      BY <1>4 DEF Entries
    <2>3. k \in Entries(x)
      BY <1>6, <2>1, <2>2, FirstIndex
    <2>4. k \in DOMAIN entities /\ entities[k].id = x
      BY <2>3 DEF Entries
    <2>5. w = [entities EXCEPT ![k] = e]
      BY <1>1, <1>3, <1>6, <2>1 DEF Upserted
    <2>6. /\ w \in Seq(Entity) /\ DOMAIN w = DOMAIN entities /\ w[k] = e
          /\ \A i \in DOMAIN entities : i # k => w[i] = entities[i]
      BY <1>2, <2>4, <2>5
    <2> QED BY <1>1, <1>3, <2>4, <2>6
  <1> QED BY <1>5, <1>6

(* What an upsert means to the players and to the world. *)
LEMMA UpsertedKeeps ==
    ASSUME IInv, NEW x \in Ids, NEW v \in Nat, entities' = Upserted(x, v)
    PROVE  /\ entities' \in Seq(Entity)
           /\ x \in Live' /\ Live \subseteq Live'
           /\ \A p \in Players : p # x => Entries(p)' = Entries(p) /\ \A i \in Entries(p) : entities'[i] = entities[i]
           /\ x \in Players => \E k : Entries(x)' = {k} /\ entities'[k].ver = v
  <1>1. entities \in Seq(Entity)
    BY DEF IInv, Types
  <1>2. PICK w : w = entities'
    OBVIOUS
  <1>3. w \in Seq(Entity)
    BY <1>1, <1>2, UpsertedEffect
  <1>4. PICK k \in DOMAIN w :
                /\ w[k] = [id |-> x, ver |-> v]
                /\ DOMAIN entities \subseteq DOMAIN w
                /\ \A i \in DOMAIN w : i # k => i \in DOMAIN entities /\ w[i] = entities[i]
                /\ k \in DOMAIN entities => entities[k].id = x
                /\ k \notin DOMAIN entities => Entries(x) = {}
    BY <1>1, <1>2, UpsertedEffect
  <1>5. w[k].id = x /\ w[k].ver = v
    BY <1>4
  <1>6. x \in {w[i].id : i \in DOMAIN w}
    BY <1>5
  <1>7. ASSUME NEW i \in DOMAIN entities PROVE entities[i].id \in {w[j].id : j \in DOMAIN w}
    <2>1. i \in DOMAIN w /\ w[i].id = entities[i].id
      BY <1>4, <1>5
    <2> QED BY <2>1
  <1>8. \A p : {i \in DOMAIN w : w[i].id = p} = Entries(p)'
    BY <1>2 DEF Entries
  <1>9. ASSUME NEW p \in Players, p # x
        PROVE  Entries(p)' = Entries(p) /\ \A i \in Entries(p) : w[i] = entities[i]
    <2>1. \A i \in DOMAIN w : w[i].id = p => i \in DOMAIN entities /\ entities[i].id = p
      BY <1>4, <1>5, <1>9
    <2>2. \A i \in DOMAIN entities : entities[i].id = p => i \in DOMAIN w /\ w[i] = entities[i]
      BY <1>4, <1>9
    <2>3. {i \in DOMAIN w : w[i].id = p} = {i \in DOMAIN entities : entities[i].id = p}
      BY <2>1, <2>2
    <2>4. Entries(p) = {i \in DOMAIN entities : entities[i].id = p}
      BY DEF Entries
    <2> QED BY <1>8, <2>2, <2>3, <2>4
  <1>10. ASSUME x \in Players PROVE Entries(x)' = {k}
    <2>1. \A i, j \in Entries(x) : i = j
      BY <1>10 DEF IInv, OneEntryEach
    <2>2. ASSUME NEW i \in DOMAIN w, w[i].id = x, i # k PROVE FALSE
      <3>1. i \in Entries(x)
        BY <1>4, <2>2 DEF Entries
      <3>2. k \in Entries(x)
        BY <1>4, <3>1 DEF Entries
      <3> QED BY <2>1, <2>2, <3>1, <3>2
    <2> QED BY <1>5, <1>8, <2>2
  <1>11. x \in Live' /\ Live \subseteq Live'
    BY <1>2, <1>6, <1>7 DEF Live
  <1> QED BY <1>2, <1>3, <1>5, <1>9, <1>10, <1>11

(* What an erasure means to the players and to the world. *)
LEMMA ErasedKeeps ==
    ASSUME IInv, NEW x \in Ids, entities' = Erased(x)
    PROVE  /\ entities' \in Seq(Entity)
           /\ x \notin Live' /\ \A y \in Live : y # x => y \in Live'
           /\ Entries(x)' = {}
           /\ \A p \in Players : \A i, j \in Entries(p)' : i = j
           /\ \A p \in Players : Entries(p)' # {} => Entries(p) # {}
           /\ \A p \in Players : p # x =>
                \A i \in Entries(p) : \E k \in Entries(p)' : entities'[k].ver = entities[i].ver
  <1>1. entities \in Seq(Entity)
    BY DEF IInv, Types
  <1>2. PICK w : w = entities'
    OBVIOUS
  <1>3. PICK S : S = Ids \ {x}
    OBVIOUS
  <1>4. w = Kept(entities, S)
    BY <1>2, <1>3 DEF Erased
  <1>5. /\ w \in Seq(Entity)
        /\ \A k \in DOMAIN w : w[k].id \in S
        /\ \A k \in DOMAIN w : \E i \in DOMAIN entities : w[k] = entities[i]
        /\ \A i \in DOMAIN entities : entities[i].id \in S => \E k \in DOMAIN w : w[k] = entities[i]
    BY <1>1, <1>4, KeptEffect
  <1>6. ASSUME NEW y, \A i, j \in DOMAIN entities : entities[i].id = y /\ entities[j].id = y => i = j
        PROVE  \A k, l \in DOMAIN w : w[k].id = y /\ w[l].id = y => k = l
    <2>1. \A k, l \in DOMAIN Kept(entities, S) :
                Kept(entities, S)[k].id = y /\ Kept(entities, S)[l].id = y => k = l
      BY <1>1, <1>6, KeptOnce
    <2> QED BY <1>4, <2>1
  <1>7. \A i \in DOMAIN entities : entities[i].id \in Ids
    <2>1. \A i \in DOMAIN entities : entities[i] \in Entity
      BY <1>1
    <2> QED BY <2>1 DEF Entity
  <1>8. \A p : Entries(p)' = {i \in DOMAIN w : w[i].id = p}
    BY <1>2 DEF Entries
  <1>9. Live' = {w[i].id : i \in DOMAIN w}
    BY <1>2 DEF Live
  <1>10. x \notin Live' /\ Entries(x)' = {}
    <2>1. \A k \in DOMAIN w : w[k].id # x
      BY <1>3, <1>5
    <2>2. x \notin {w[i].id : i \in DOMAIN w} /\ {i \in DOMAIN w : w[i].id = x} = {}
      BY <2>1
    <2> QED BY <1>8, <1>9, <2>2
  <1>11. ASSUME NEW y \in Live, y # x PROVE y \in Live'
    <2>1. PICK i \in DOMAIN entities : entities[i].id = y
      BY DEF Live
    <2>2. PICK k \in DOMAIN w : w[k] = entities[i]
      BY <1>3, <1>5, <1>7, <1>11, <2>1
    <2> QED BY <1>9, <2>1, <2>2
  <1>12. ASSUME NEW p \in Players PROVE \A i, j \in Entries(p)' : i = j
    <2>1. \A i, j \in DOMAIN entities : entities[i].id = p /\ entities[j].id = p => i = j
      BY <1>12 DEF IInv, OneEntryEach, Entries
    <2> QED BY <1>6, <1>8, <2>1
  <1>13. ASSUME NEW p \in Players, Entries(p)' # {} PROVE Entries(p) # {}
    <2>1. PICK k \in DOMAIN w : w[k].id = p
      BY <1>8, <1>13
    <2>2. PICK i \in DOMAIN entities : w[k] = entities[i]
      BY <1>5
    <2> QED BY <2>1, <2>2 DEF Entries
  <1>14. ASSUME NEW p \in Players, p # x, NEW i \in Entries(p)
         PROVE  \E k \in Entries(p)' : w[k].ver = entities[i].ver
    <2>1. i \in DOMAIN entities /\ entities[i].id = p
      BY DEF Entries
    <2>2. PICK k \in DOMAIN w : w[k] = entities[i]
      BY <1>3, <1>5, <1>7, <1>14, <2>1
    <2> QED BY <1>8, <2>1, <2>2
  <1> QED BY <1>2, <1>5, <1>10, <1>11, <1>12, <1>13, <1>14

(* A finite set, as a sequence, has each of its elements once. *)
LEMMA SetAsSequence ==
    ASSUME NEW S, IsFiniteSet(S)
    PROVE  /\ SetToSeq(S) \in Seq(S)
           /\ \A i, j \in DOMAIN SetToSeq(S) : SetToSeq(S)[i] = SetToSeq(S)[j] => i = j
  <1>1. PICK n : n = Cardinality(S)
    OBVIOUS
  <1>2. n \in Nat /\ ExistsBijection(1..n, S)
    BY <1>1, FS_CardinalityType
  <1>3. \E f \in [1..n -> S] : IsInjective(f)
    BY <1>2 DEF ExistsBijection, Bijection, Injection
  <1>4. PICK q : q = SetToSeq(S)
    OBVIOUS
  <1>5. q \in [1..n -> S] /\ IsInjective(q)
    BY <1>1, <1>3, <1>4 DEF SetToSeq
  <1>6. q \in Seq(S)
    BY <1>2, <1>5
  <1> QED BY <1>4, <1>5, <1>6 DEF IsInjective

(* The answer to the region query has one document per entity. *)
LEMMA AnswerEffect ==
    ASSUME NEW s \in loadRange
    PROVE  /\ SetToSeq(s) \in Seq(Entity)
           /\ \A i, j \in DOMAIN SetToSeq(s) : SetToSeq(s)[i].id = SetToSeq(s)[j].id => i = j
  <1>1. /\ \A e \in s : e \in [id : Ids, ver : 1..MaxVersion]
        /\ \A e \in s : db[e.id] = e.ver
    BY DEF loadRange
  <1>2. \A e \in s : e \in Entity /\ e.id \in Ids
    BY <1>1, RestoreBounds DEF Entity
  <1>3. \A e, f \in s : e.id = f.id => e = f
    <2> SUFFICES ASSUME NEW e \in s, NEW f \in s, e.id = f.id PROVE e = f
      OBVIOUS
    <2>1. e.ver = f.ver
      BY <1>1
    <2>2. e = [id |-> e.id, ver |-> e.ver] /\ f = [id |-> f.id, ver |-> f.ver]
      BY <1>1
    <2> QED BY <2>1, <2>2
  <1>4. IsFiniteSet(s)
    <2>1. IsFiniteSet(Ids)
      BY FiniteWorld, FS_Union DEF Ids
    <2>2. PICK f : f = [e \in s |-> e.id]
      OBVIOUS
    <2>3. f \in Injection(s, Ids)
      BY <1>2, <1>3, <2>2 DEF Injection, IsInjective
    <2> QED BY <2>1, <2>3, FS_Injection
  <1>5. PICK q : q = SetToSeq(s)
    OBVIOUS
  <1>6. q \in Seq(s) /\ \A i, j \in DOMAIN q : q[i] = q[j] => i = j
    BY <1>4, <1>5, SetAsSequence
  <1>7. q \in Seq(Entity) /\ \A i \in DOMAIN q : q[i] \in s
    BY <1>2, <1>6
  <1>8. \A i, j \in DOMAIN q : q[i].id = q[j].id => i = j
    BY <1>3, <1>6, <1>7
  <1> QED BY <1>5, <1>7, <1>8

-----------------------------------------------------------------------------
(* The invariant *)

(* The invariant holds at the start. *)
LEMMA InitHolds == Init => IInv
  <1> SUFFICES ASSUME Init PROVE IInv
    OBVIOUS
  <1>1. entities = <<>> /\ answer = <<>> /\ DOMAIN entities = {} /\ DOMAIN answer = {}
    BY DEF Init
  <1>2. OneDocumentEach /\ RestoredOnce /\ WorldReturns
    BY <1>1 DEF Init, OneDocumentEach, RestoredOnce, WorldReturns
  <1>3. OneEntryEach
    BY <1>1 DEF Init, OneEntryEach, Entries
  <1>4. Types
    BY <1>1 DEF Init, Types, Absent
  <1> QED BY <1>2, <1>3, <1>4 DEF IInv

(* A step that leaves the registry and the answer alone. *)
LEMMA SameRegistry ==
    ASSUME IInv, UNCHANGED <<entities, active, clock, reported, gone, answer, restoreMerged>>,
           worker' \in {"idle", "dialling", "ready", "stale"} \/ worker' = worker
    PROVE  IInv'
  <1>1. Types' /\ OneDocumentEach' /\ RestoredOnce'
    BY DEF IInv, Types, OneDocumentEach, RestoredOnce, Live
  <1>2. OneEntryEach' /\ WorldReturns'
    BY DEF IInv, OneEntryEach, WorldReturns, Entries, Live
  <1> QED BY <1>1, <1>2 DEF IInv

(* A player reports. *)
LEMMA EntityTransferKeeps == ASSUME IInv, NEW p \in Players, EntityTransfer(p) PROVE IInv'
  <1> USE DEF linkVars, database
  <1>1. p \in Ids /\ p \notin Objects /\ clock' \in [Ids -> Nat] /\ clock'[p] \in Nat
    BY RestoreBounds DEF IInv, Types, EntityTransfer, Ids
  <1>2. PICK v : v = clock'[p]
    OBVIOUS
  <1>3. /\ entities' \in Seq(Entity)
        /\ Live \subseteq Live'
        /\ \A y \in Players : y # p => Entries(y)' = Entries(y) /\ \A i \in Entries(y) : entities'[i] = entities[i]
        /\ \E k : Entries(p)' = {k} /\ entities'[k].ver = v
    BY <1>1, <1>2, UpsertedKeeps DEF EntityTransfer
  <1>4. reported' \in [Players -> Nat] /\ reported'[p] = v /\ \A y \in Players : y # p => reported'[y] = reported[y]
    BY <1>1, <1>2 DEF EntityTransfer, IInv, Types
  <1>5. Types'
    BY <1>1, <1>3, <1>4 DEF EntityTransfer, IInv, Types
  <1>6. OneDocumentEach' /\ RestoredOnce'
    BY <1>1, <1>3 DEF EntityTransfer, IInv, OneDocumentEach, RestoredOnce
  <1>7. WorldReturns'
    BY <1>3 DEF EntityTransfer, IInv, WorldReturns
  <1>8. OneEntryEach'
    <2> SUFFICES ASSUME NEW y \in Players
                 PROVE  /\ \A i, j \in Entries(y)' : i = j
                        /\ Entries(y)' # {} => y \in active'
                        /\ reported'[y] # Absent => \E i \in Entries(y)' : entities'[i].ver = reported'[y]
      BY DEF OneEntryEach
    <2>1. CASE y = p
      <3>1. p \in active'
        BY DEF EntityTransfer
      <3> QED BY <1>3, <1>4, <2>1, <3>1
    <2>2. CASE y # p
      <3>1. Entries(y)' = Entries(y) /\ reported'[y] = reported[y] /\ \A i \in Entries(y) : entities'[i] = entities[i]
        BY <1>3, <1>4, <2>2
      <3>2. active \subseteq active'
        BY DEF EntityTransfer
      <3> QED BY <3>1, <3>2 DEF IInv, OneEntryEach
    <2> QED BY <2>1, <2>2
  <1> QED BY <1>5, <1>6, <1>7, <1>8 DEF IInv

(* An object is put, or handed over by another zone. *)
LEMMA ObjectPutKeeps ==
    ASSUME IInv, NEW o \in Objects, ObjectPut(o) \/ ObjectArrives(o)
    PROVE  IInv'
  <1> USE DEF linkVars, database
  <1>1. o \in Ids /\ o \notin Players /\ clock' \in [Ids -> Nat] /\ clock'[o] \in Nat
    <2>1. o \in Ids /\ o \notin Players
      BY RestoreBounds DEF Ids
    <2>2. clock \in [Ids -> Nat]
      BY DEF IInv, Types
    <2>3. clock' = [clock EXCEPT ![o] = clock[o] + 1]
      BY DEF ObjectPut, ObjectArrives
    <2> QED BY <2>1, <2>2, <2>3
  <1>2. /\ entities' = Upserted(o, clock'[o])
        /\ active' = active \/ active' = active \cup {o}
        /\ gone' = gone \ {o} /\ UNCHANGED <<reported, answer, restoreMerged, worker>>
    BY DEF ObjectPut, ObjectArrives
  <1>3. /\ entities' \in Seq(Entity)
        /\ o \in Live' /\ Live \subseteq Live'
        /\ \A y \in Players : Entries(y)' = Entries(y) /\ \A i \in Entries(y) : entities'[i] = entities[i]
    BY <1>1, <1>2, UpsertedKeeps
  <1>4. Types' /\ OneDocumentEach' /\ RestoredOnce'
    BY <1>1, <1>2, <1>3 DEF IInv, Types, OneDocumentEach, RestoredOnce
  <1>5. WorldReturns'
    BY <1>2, <1>3 DEF IInv, WorldReturns
  <1>6. OneEntryEach'
    <2> SUFFICES ASSUME NEW y \in Players
                 PROVE  /\ \A i, j \in Entries(y)' : i = j
                        /\ Entries(y)' # {} => y \in active'
                        /\ reported'[y] # Absent => \E i \in Entries(y)' : entities'[i].ver = reported'[y]
      BY DEF OneEntryEach
    <2>1. reported' = reported /\ active \subseteq active'
      BY <1>2
    <2> QED BY <1>3, <2>1 DEF IInv, OneEntryEach
  <1> QED BY <1>4, <1>5, <1>6 DEF IInv

(* An object is removed, an entity is evicted or handed on, or what has    *)
(* not reported is collected.                                              *)
LEMMA ErasureKeeps ==
    ASSUME IInv, NEW x \in Ids,
           (x \in Objects /\ ObjectRemoved(x)) \/ Evicted(x) \/ CollectGarbage(x)
    PROVE  IInv'
  <1> USE DEF linkVars, database
  <1>1. entities' = Erased(x)
    BY DEF ObjectRemoved, Evicted, CollectGarbage
  <1>2. /\ entities' \in Seq(Entity)
        /\ \A y \in Live : y # x => y \in Live'
        /\ Entries(x)' = {}
        /\ \A p \in Players : \A i, j \in Entries(p)' : i = j
        /\ \A p \in Players : Entries(p)' # {} => Entries(p) # {}
        /\ \A p \in Players : p # x =>
             \A i \in Entries(p) : \E k \in Entries(p)' : entities'[k].ver = entities[i].ver
    BY <1>1, ErasedKeeps
  <1>3. /\ active' \subseteq active /\ active \ {x} \subseteq active'
        /\ reported' \in [Players -> Nat]
        /\ \A p \in Players : p # x => reported'[p] = reported[p]
        /\ x \in Players => reported'[x] = Absent
        /\ UNCHANGED <<clock, answer, restoreMerged, worker>>
    <2>1. CASE x \in Objects /\ ObjectRemoved(x)
      <3>1. x \notin Players
        BY <2>1, RestoreBounds
      <3> QED BY <2>1, <3>1 DEF ObjectRemoved, IInv, Types
    <2>2. CASE CollectGarbage(x)
      BY <2>2 DEF CollectGarbage, IInv, Types, Absent
    <2>3. CASE Evicted(x)
      BY <2>3 DEF Evicted, IInv, Types, Absent
    <2> QED BY <2>1, <2>2, <2>3
  <1>4. gone \subseteq gone' /\ (x \in Objects \cap active' => x \in gone')
    <2>1. CASE x \in Objects /\ ObjectRemoved(x)
      BY <2>1 DEF ObjectRemoved
    <2>2. CASE CollectGarbage(x)
      BY <2>2 DEF CollectGarbage
    <2>3. CASE Evicted(x)
      BY <2>3 DEF Evicted
    <2> QED BY <2>1, <2>2, <2>3
  <1>5. Types' /\ OneDocumentEach'
    BY <1>2, <1>3 DEF IInv, Types, OneDocumentEach
  <1>6. RestoredOnce'
    <2> SUFFICES ASSUME ~restoreMerged', NEW o \in Objects, o \in active'
                 PROVE  o \in gone' \cup Live'
      BY <1>3 DEF IInv, RestoredOnce
    <2>1. CASE o = x
      BY <1>4, <2>1
    <2>2. CASE o # x
      <3>1. o \in gone \cup Live
        BY <1>3 DEF IInv, RestoredOnce
      <3> QED BY <1>2, <1>4, <2>2, <3>1
    <2> QED BY <2>1, <2>2
  <1>7. WorldReturns'
    <2> SUFFICES ASSUME restoreMerged, NEW e \in ToSet(answer), e.id \in Objects, e.id \notin gone'
                 PROVE  e.id \in Live'
      BY <1>3 DEF WorldReturns
    <2>1. e.id \notin gone /\ (e.id = x => e.id \notin Live)
      <3>1. CASE x \in Objects /\ ObjectRemoved(x)
        BY <3>1 DEF ObjectRemoved
      <3>2. CASE CollectGarbage(x)
        BY <3>2 DEF CollectGarbage
      <3>3. CASE Evicted(x)
        BY <3>3 DEF Evicted
      <3> QED BY <3>1, <3>2, <3>3
    <2>2. e.id \in Live
      BY <2>1 DEF IInv, WorldReturns
    <2> QED BY <1>2, <2>1, <2>2
  <1>8. OneEntryEach'
    <2> SUFFICES ASSUME NEW y \in Players
                 PROVE  /\ \A i, j \in Entries(y)' : i = j
                        /\ Entries(y)' # {} => y \in active'
                        /\ reported'[y] # Absent => \E i \in Entries(y)' : entities'[i].ver = reported'[y]
      BY DEF OneEntryEach
    <2>1. CASE y = x
      BY <1>2, <1>3, <2>1
    <2>2. CASE y # x
      <3>1. Entries(y)' # {} => y \in active'
        BY <1>2, <1>3, <2>2 DEF IInv, OneEntryEach
      <3>2. ASSUME reported'[y] # Absent PROVE \E i \in Entries(y)' : entities'[i].ver = reported'[y]
        <4>1. reported'[y] = reported[y]
          BY <1>3, <2>2
        <4>2. PICK i \in Entries(y) : entities[i].ver = reported[y]
          BY <3>2, <4>1 DEF IInv, OneEntryEach
        <4> QED BY <1>2, <2>2, <4>1, <4>2
      <3> QED BY <1>2, <3>1, <3>2
    <2> QED BY <2>1, <2>2
  <1> QED BY <1>5, <1>6, <1>7, <1>8 DEF IInv

(* The merge: entries of entities that nobody has reported are added. *)
LEMMA MergeKeeps == ASSUME IInv, Merge PROVE IInv'
  <1> USE DEF database
  <1>1. worker' \in {"idle", "dialling", "ready", "stale"} \/ worker' = worker
    BY DEF Merge
  <1>2. CASE restoreMerged
    <2>1. UNCHANGED <<entities, active, clock, reported, gone, answer, restoreMerged>>
      BY <1>2 DEF Merge
    <2> QED BY <1>1, <2>1, SameRegistry
  <1>3. CASE ~restoreMerged
    <2>1. PICK w, S : S = Ids \ active /\ w = Kept(answer, S)
      OBVIOUS
    <2>2. /\ entities' = entities \o w
          /\ active' = active \cup {e.id : e \in ToSet(w)}
          /\ UNCHANGED <<clock, reported, gone, answer>> /\ restoreMerged' = TRUE
          /\ worker' # "restoring"
      BY <1>3, <2>1 DEF Merge, Pending
    <2>3. entities \in Seq(Entity) /\ answer \in Seq(Entity)
      BY DEF IInv, Types
    <2>4. /\ w \in Seq(Entity)
          /\ \A k \in DOMAIN w : w[k].id \in S
          /\ \A i \in DOMAIN answer : answer[i].id \in S => \E k \in DOMAIN w : w[k] = answer[i]
      <3>1. /\ Kept(answer, S) \in Seq(Entity)
            /\ \A k \in DOMAIN Kept(answer, S) : Kept(answer, S)[k].id \in S
            /\ \A i \in DOMAIN answer : answer[i].id \in S =>
                    \E k \in DOMAIN Kept(answer, S) : Kept(answer, S)[k] = answer[i]
        BY <2>3, KeptEffect
      <3>2. w = Kept(answer, S)
        BY <2>1
      <3> QED BY <3>1, <3>2
    <2>5. \A k, l \in DOMAIN w : w[k].id = w[l].id => k = l
      <3> SUFFICES ASSUME NEW k \in DOMAIN w, NEW l \in DOMAIN w, w[k].id = w[l].id PROVE k = l
        OBVIOUS
      <3>1. PICK x : x = w[k].id
        OBVIOUS
      <3>2. \A i, j \in DOMAIN answer : answer[i].id = x /\ answer[j].id = x => i = j
        BY DEF IInv, OneDocumentEach
      <3>3. \A a, b \in DOMAIN Kept(answer, S) :
                Kept(answer, S)[a].id = x /\ Kept(answer, S)[b].id = x => a = b
        BY <2>3, <3>2, KeptOnce
      <3> QED BY <2>1, <3>1, <3>3
    <2>6. PICK m, n : m = Len(entities) /\ n = Len(w)
      OBVIOUS
    <2>7. m \in Nat /\ n \in Nat /\ DOMAIN entities = 1..m /\ DOMAIN w = 1..n
      <3>1. w \in Seq(Entity)
        BY <2>4
      <3> QED BY <2>3, <2>6, <3>1
    <2>8. PICK q : q = entities'
      OBVIOUS
    <2>9. /\ q \in Seq(Entity) /\ DOMAIN q = 1..m + n
          /\ \A i \in 1..m : q[i] = entities[i]
          /\ \A k \in 1..n : q[m + k] = w[k]
      <3>1. w \in Seq(Entity) /\ q = entities \o w
        BY <2>2, <2>4, <2>8
      <3> QED BY <2>3, <2>6, <3>1
    <2>10. \A i \in 1..m + n : i \in 1..m \/ (i - m \in 1..n /\ m + (i - m) = i)
      BY <2>7
    <2>11. \A i \in 1..m : i \in 1..m + n
      BY <2>7
    <2>12. \A k \in 1..n : m + k \in 1..m + n
      BY <2>7
    <2>13. \A p : Entries(p)' = {i \in DOMAIN q : q[i].id = p}
      BY <2>8 DEF Entries
    <2>14. active' \subseteq Ids /\ \A k \in DOMAIN w : w[k].id \in active'
      <3>1. \A k \in DOMAIN w : w[k].id \in Ids /\ w[k] \in ToSet(w)
        BY <2>1, <2>4 DEF ToSet
      <3>2. \A e \in ToSet(w) : e.id \in Ids
        BY <3>1 DEF ToSet
      <3> QED BY <2>2, <3>1, <3>2 DEF IInv, Types
    <2>15. Types'
      BY <1>1, <2>2, <2>8, <2>9, <2>14 DEF IInv, Types
    <2>16. OneDocumentEach' /\ RestoredOnce'
      BY <2>2 DEF IInv, OneDocumentEach, RestoredOnce
    <2>17. WorldReturns'
      <3> SUFFICES ASSUME NEW e \in ToSet(answer), e.id \in Objects, e.id \notin gone
                   PROVE  e.id \in Live'
        BY <2>2 DEF WorldReturns
      <3>1. PICK i \in DOMAIN answer : answer[i] = e
        BY DEF ToSet
      <3>2. CASE e.id \in active
        <4>1. e.id \in Live
          BY <1>3, <3>2 DEF IInv, RestoredOnce
        <4>2. PICK j \in 1..m : entities[j].id = e.id
          BY <2>7, <4>1 DEF Live
        <4>3. j \in DOMAIN q /\ q[j].id = e.id
          BY <2>9, <2>11, <4>2
        <4> QED BY <2>8, <4>3 DEF Live
      <3>3. CASE e.id \notin active
        <4>1. e.id \in S
          BY <2>1, <3>3 DEF Ids
        <4>2. PICK k \in 1..n : w[k] = e
          BY <2>4, <2>7, <3>1, <4>1
        <4>3. m + k \in DOMAIN q /\ q[m + k].id = e.id
          BY <2>9, <2>12, <4>2
        <4> QED BY <2>8, <4>3 DEF Live
      <3> QED BY <3>2, <3>3
    <2>18. OneEntryEach'
      <3> SUFFICES ASSUME NEW y \in Players
                   PROVE  /\ \A i, j \in Entries(y)' : i = j
                          /\ Entries(y)' # {} => y \in active'
                          /\ reported[y] # Absent => \E i \in Entries(y)' : entities'[i].ver = reported[y]
        BY <2>2 DEF OneEntryEach
      <3>1. /\ \A i, j \in Entries(y) : i = j
            /\ Entries(y) # {} => y \in active
            /\ reported[y] # Absent => \E i \in Entries(y) : entities[i].ver = reported[y]
        BY DEF IInv, OneEntryEach
      <3>2. Entries(y) = {i \in 1..m : entities[i].id = y}
        BY <2>7 DEF Entries
      <3>3. \A k \in 1..n : w[k].id # y \/ y \notin active
        BY <2>1, <2>4, <2>7
      <3>4. Entries(y)' # {} => y \in active'
        <4> SUFFICES ASSUME NEW i \in DOMAIN q, q[i].id = y PROVE y \in active'
          BY <2>13
        <4>1. CASE i \in 1..m
          BY <2>2, <2>9, <3>1, <3>2, <4>1
        <4>2. CASE i - m \in 1..n /\ m + (i - m) = i
          <5>1. PICK k \in 1..n : m + k = i
            BY <4>2
          <5> QED BY <2>7, <2>9, <2>14, <5>1
        <4> QED BY <2>9, <2>10, <4>1, <4>2
      <3>5. CASE y \in active
        <4>1. ASSUME NEW i \in DOMAIN q, q[i].id = y PROVE i \in 1..m /\ entities[i].id = y
          <5>1. CASE i \in 1..m
            BY <2>9, <4>1, <5>1
          <5>2. CASE i - m \in 1..n /\ m + (i - m) = i
            <6>1. PICK k \in 1..n : m + k = i
              BY <5>2
            <6> QED BY <2>9, <3>3, <3>5, <4>1, <6>1
          <5> QED BY <2>9, <2>10, <5>1, <5>2
        <4>2. Entries(y)' = Entries(y)
          <5>1. \A i \in 1..m : entities[i].id = y => i \in DOMAIN q /\ q[i].id = y
            BY <2>9, <2>11
          <5> QED BY <2>13, <3>2, <4>1, <5>1
        <4>3. \A i \in Entries(y) : entities'[i] = entities[i]
          BY <2>8, <2>9, <3>2
        <4> QED BY <3>1, <3>4, <4>2, <4>3
      <3>6. CASE y \notin active
        <4>1. Entries(y) = {} /\ reported[y] = Absent
          BY <3>1, <3>6
        <4>2. ASSUME NEW i \in DOMAIN q, q[i].id = y PROVE \E k \in 1..n : m + k = i /\ w[k].id = y
          <5>1. i \notin 1..m
            BY <2>9, <3>2, <4>1, <4>2
          <5>2. i - m \in 1..n /\ m + (i - m) = i
            BY <2>9, <2>10, <5>1
          <5>3. PICK k \in 1..n : m + k = i
            BY <5>2
          <5> QED BY <2>9, <4>2, <5>3
        <4>3. ASSUME NEW i \in Entries(y)', NEW j \in Entries(y)' PROVE i = j
          <5>1. PICK k \in 1..n : m + k = i /\ w[k].id = y
            BY <2>13, <4>2
          <5>2. PICK l \in 1..n : m + l = j /\ w[l].id = y
            BY <2>13, <4>2
          <5> QED BY <2>5, <2>7, <5>1, <5>2
        <4> QED BY <3>4, <4>1, <4>3
      <3> QED BY <3>5, <3>6
    <2> QED BY <2>15, <2>16, <2>17, <2>18 DEF IInv
  <1> QED BY <1>2, <1>3

(* The region query is answered, while nothing has been merged. *)
LEMMA WorkerConnectsKeeps == ASSUME IInv, WorkerConnects PROVE IInv'
  <1> USE DEF registry, database
  <1>1. CASE worker = "restoring"
    <2>1. PICK s \in loadRange : answer' = SetToSeq(s)
      BY <1>1 DEF WorkerConnects
    <2>2. answer' \in Seq(Entity) /\ OneDocumentEach'
      BY <2>1, AnswerEffect DEF OneDocumentEach
    <2>3. UNCHANGED <<entities, active, clock, reported, gone, restoreMerged>> /\ worker' = "ready"
      BY DEF WorkerConnects
    <2>4. ~restoreMerged'
      BY <1>1, <2>3 DEF IInv, RestoredOnce
    <2>5. Types' /\ RestoredOnce' /\ WorldReturns'
      BY <2>2, <2>3, <2>4 DEF IInv, Types, RestoredOnce, WorldReturns, Live
    <2>6. OneEntryEach'
      BY <2>3 DEF IInv, OneEntryEach, Entries
    <2> QED BY <2>2, <2>5, <2>6 DEF IInv
  <1>2. CASE worker # "restoring"
    <2>1. /\ UNCHANGED <<entities, active, clock, reported, gone, answer, restoreMerged>>
          /\ worker' = "ready"
      BY <1>2 DEF WorkerConnects
    <2> QED BY <2>1, SameRegistry
  <1> QED BY <1>1, <1>2

(* The zone restarts with nothing. *)
LEMMA ZoneRestartsKeeps == ASSUME IInv, ZoneRestarts PROVE IInv'
  <1>1. entities' = <<>> /\ answer' = <<>> /\ DOMAIN entities' = {} /\ DOMAIN answer' = {}
    BY DEF ZoneRestarts
  <1>2. OneDocumentEach' /\ RestoredOnce' /\ WorldReturns'
    BY <1>1 DEF ZoneRestarts, OneDocumentEach, RestoredOnce, WorldReturns
  <1>3. OneEntryEach'
    BY <1>1 DEF ZoneRestarts, OneEntryEach, Entries
  <1>4. Types'
    BY <1>1 DEF ZoneRestarts, IInv, Types, Absent
  <1> QED BY <1>2, <1>3, <1>4 DEF IInv

(* The invariant is kept by every step of the specification. *)
THEOREM Invariance == Spec => []IInv
  <1>1. IInv /\ [Next]_vars => IInv'
    <2> SUFFICES ASSUME IInv, [Next]_vars PROVE IInv'
      OBVIOUS
    <2>1. CASE \/ UNCHANGED vars \/ \E x \in Ids : LeaseExpires(x)
               \/ WorkerFails \/ WriteThrough \/ Store \/ StoreLate
               \/ PersistenceDies \/ PersistenceReturns
      <3>1. /\ UNCHANGED <<entities, active, clock, reported, gone, answer, restoreMerged>>
            /\ worker' \in {"idle", "dialling", "ready", "stale"} \/ worker' = worker
        <4>1. CASE WriteThrough
          BY <4>1 DEF WriteThrough, registry
        <4>2. CASE PersistenceDies
          BY <4>2 DEF PersistenceDies, registry
        <4>3. CASE \/ UNCHANGED vars \/ \E x \in Ids : LeaseExpires(x)
                   \/ WorkerFails \/ Store \/ StoreLate \/ PersistenceReturns
          BY <4>3 DEF vars, registry, linkVars, database, LeaseExpires, WorkerFails,
                      Store, StoreLate, PersistenceReturns
        <4> QED BY <2>1, <4>1, <4>2, <4>3
      <3> QED BY <3>1, SameRegistry
    <2>2. CASE \E o \in Objects : ObjectRemoved(o)
      <3>1. Objects \subseteq Ids
        BY DEF Ids
      <3> QED BY <2>2, <3>1, ErasureKeeps
    <2> QED BY <2>1, <2>2, EntityTransferKeeps, ObjectPutKeeps, ErasureKeeps, MergeKeeps,
              WorkerConnectsKeeps, ZoneRestartsKeeps DEF Next
  <1> QED BY <1>1, InitHolds, PTL DEF Spec

-----------------------------------------------------------------------------
(* The properties *)

(* For any players, objects, restarts and broken links: a player who has   *)
(* reported to this process, and whom the registry has not let go of since *)
(* (by a refusal, a hand-off or the collector), is in it exactly once, as  *)
(* it last reported; the merge of the restore adds no second entry and     *)
(* brings back no older one.                                               *)
THEOREM ReportsOutliveTheRestore == Spec => []PlayerIsNewest
  <1>1. IInv => PlayerIsNewest
    <2> SUFFICES ASSUME IInv, NEW p \in Players, reported[p] # Absent
                 PROVE  /\ Cardinality(Entries(p)) = 1
                        /\ \A i \in Entries(p) : entities[i].ver = reported[p]
      BY DEF PlayerIsNewest
    <2>1. PICK i \in Entries(p) : entities[i].ver = reported[p]
      BY DEF IInv, OneEntryEach
    <2>2. \A j, k \in Entries(p) : j = k
      BY DEF IInv, OneEntryEach
    <2>3. Entries(p) = {i}
      BY <2>1, <2>2
    <2> QED BY <2>1, <2>3, FS_Singleton
  <1> QED BY <1>1, Invariance, PTL

(* What the restore brought back of the world is in the registry until it  *)
(* is removed, evicted by a refused action or handed on, however often     *)
(* leases run out and the collector passes.                                *)
THEOREM RestoredWorldStays == Spec => []WorldReturns
  <1>1. IInv => WorldReturns
    BY DEF IInv
  <1> QED BY <1>1, Invariance, PTL
==============================================================================
