---------------------------- MODULE Social_proofs ----------------------------
(***************************************************************************)
(* Proofs about Social, for any accounts, guilds, zones and connections    *)
(* and any number of changes, restarts and broken links: a subscribed zone *)
(* ends up with the bans of the social node, a restart with a complete     *)
(* answer of the database loses no ban and no member, and nobody hears a   *)
(* guild it does not belong to without having claimed to be a member.      *)
(***************************************************************************)
EXTENDS Social, SequenceTheorems, FiniteSetTheorems, TLAPS

Types ==
    /\ run \in {"down", "restoring", "serving"}
    /\ worker \in {"dialling", "failed", "ready"}
    /\ banned \subseteq Accounts /\ guilds \subseteq Members
    /\ restored.bans \subseteq Accounts /\ restored.members \subseteq Members
    /\ toDb \in Seq(Changes) /\ late \in Seq(Changes)
    /\ dbBans \subseteq Accounts /\ dbMembers \subseteq Members
    /\ sub \in [Zones -> {"none", "waiting", "subscribed", "lost"}]
    /\ queue \in [Zones -> Seq(Changes)]
    /\ zoneBans \in [Zones -> SUBSET Accounts]
    /\ who \in [Conns -> Accounts \cup {NoOne}]
    /\ named \in [Conns -> Accounts \cup {NoOne}]
    /\ liars \subseteq Conns

(* The link is used only by a node that has finished its restore, and a    *)
(* node without one sends nothing.                                         *)
LinkInUse ==
    /\ link => run = "serving" /\ worker # "dialling"
    /\ ~link => toDb = <<>>

(* A complete answer stays that of the database until the node serves. *)
AnswerIsFresh ==
    /\ restored.whole => late = <<>>
    /\ run # "serving" /\ restored.whole =>
            restored.bans = dbBans /\ restored.members = dbMembers
    /\ worker # "ready" => ~restored.whole

(* Nobody is subscribed before the node serves, and a zone that is not has *)
(* heard nothing.                                                          *)
Newcomers ==
    /\ run # "serving" => \A z \in Zones : sub[z] # "subscribed"
    /\ \A z \in Zones : sub[z] \in {"none", "waiting"} => zoneBans[z] = {} /\ queue[z] = <<>>

(* A closed connection has no name, and an open one has none, that of the  *)
(* player behind it, or one that this player has claimed.                  *)
NamesAreCurrent ==
    \A c \in Conns : /\ who[c] = NoOne => named[c] = NoOne
                     /\ named[c] \notin {NoOne, who[c]} => c \in liars

IInv ==
    /\ Types /\ LinkInUse /\ AnswerIsFresh /\ Newcomers /\ NamesAreCurrent
    /\ ZoneFollows /\ SurvivesRestart

-----------------------------------------------------------------------------
(* Records *)

(* What the records do. *)
LEMMA RecordTypes ==
    ASSUME NEW r \in Changes
    PROVE  /\ \A S \in SUBSET Accounts : Bans(S, r) \in SUBSET Accounts
           /\ \A S \in SUBSET Members : Memory(S, r) \in SUBSET Members /\ storeSocial(S, r) \in SUBSET Members
           /\ \A S, T : S \subseteq T => Memory(S, r) \subseteq storeSocial(T, r)
  <1>1. CASE r \in Records({"ban", "unban"}, Accounts)
    BY <1>1 DEF Records, Bans, Memory, storeSocial
  <1>2. CASE r \in Records({"join", "leave", "rank", "disband"}, Members)
    <2>1. r.kind \in {"join", "leave", "rank", "disband"} /\ r.about \in Members
      BY <1>2 DEF Records
    <2> QED BY <2>1 DEF Bans, Memory, storeSocial
  <1> QED BY <1>1, <1>2 DEF Changes

(* A record adds an element, whatever the set, or decides by the element   *)
(* alone whether it stays.                                                 *)
LEMMA RecordsElementwise ==
    ASSUME NEW r
    PROVE  /\ \A S, a : a \in Bans(S, r) <=> a \in Bans({}, r) \/ (a \in S /\ a \in Bans({a}, r))
           /\ \A a : a \in Bans({}, r) => a \in Bans({a}, r)
           /\ \A S, m : m \in storeSocial(S, r) <=>
                            m \in storeSocial({}, r) \/ (m \in S /\ m \in storeSocial({m}, r))
           /\ \A m : m \in storeSocial({}, r) => m \in storeSocial({m}, r)
  <1>1. \A S, a : a \in Bans(S, r) <=> a \in Bans({}, r) \/ (a \in S /\ a \in Bans({a}, r))
    BY DEF Bans
  <1>2. \A S, m : m \in storeSocial(S, r) <=>
                            m \in storeSocial({}, r) \/ (m \in S /\ m \in storeSocial({m}, r))
    BY DEF storeSocial, Memory
  <1> QED BY <1>1, <1>2

(* No record. *)
LEMMA AfterNothing ==
    /\ \A S \in SUBSET Accounts : BansAfter(S, <<>>) = S
    /\ \A S \in SUBSET Members : MembersAfter(S, <<>>) = S
  BY DEF BansAfter, MembersAfter

(* An element survives n records: it is there at the start or added by a   *)
(* record of A, and kept by the later ones, which are in K.                *)
Survives(first, A, K, n) ==
    \E i \in 0..n : /\ IF i = 0 THEN first ELSE i \in A
                    /\ \A j \in i + 1..n : j \in K

Adding(a, q) == {i \in 1..Len(q) : a \in Bans({}, q[i])}
Keeping(a, q) == {i \in 1..Len(q) : a \in Bans({a}, q[i])}
AddingMember(m, q) == {i \in 1..Len(q) : m \in storeSocial({}, q[i])}
KeepingMember(m, q) == {i \in 1..Len(q) : m \in storeSocial({m}, q[i])}

(* The sets of the properties in these terms. *)
LEMMA AfterMeans ==
    ASSUME NEW q \in Seq(Changes), NEW S
    PROVE  /\ \A a : a \in BansAfter(S, q) <=>
                a \in Accounts /\ Survives(a \in S, Adding(a, q), Keeping(a, q), Len(q))
           /\ \A m : m \in MembersAfter(S, q) <=>
                m \in Members /\ Survives(m \in S, AddingMember(m, q), KeepingMember(m, q), Len(q))
  <1>1. Len(q) \in Nat
    OBVIOUS
  <1>2. \A i \in 0..Len(q) : /\ i # 0 => i \in 1..Len(q)
                             /\ \A j \in i + 1..Len(q) : j \in 1..Len(q)
    BY <1>1
  <1>3. ASSUME NEW a \in Accounts
        PROVE  a \in BansAfter(S, q) <=> Survives(a \in S, Adding(a, q), Keeping(a, q), Len(q))
    BY <1>2 DEF BansAfter, Survives, Adding, Keeping
  <1>4. ASSUME NEW m \in Members
        PROVE  m \in MembersAfter(S, q) <=>
                    Survives(m \in S, AddingMember(m, q), KeepingMember(m, q), Len(q))
    BY <1>2 DEF MembersAfter, Survives, AddingMember, KeepingMember
  <1>5. BansAfter(S, q) \subseteq Accounts /\ MembersAfter(S, q) \subseteq Members
    BY DEF BansAfter, MembersAfter
  <1> QED BY <1>3, <1>4, <1>5

(* The last of n + 1 records decides, or leaves it to the others. *)
LEMMA LastRecord ==
    ASSUME NEW n \in Nat, NEW A, NEW K, NEW B, NEW L, NEW first,
           \A i \in 1..n : (i \in B <=> i \in A) /\ (i \in L <=> i \in K)
    PROVE  Survives(first, B, L, n + 1) <=> n + 1 \in B \/ (Survives(first, A, K, n) /\ n + 1 \in L)
  <1>1. ASSUME Survives(first, B, L, n + 1), n + 1 \notin B
        PROVE  Survives(first, A, K, n) /\ n + 1 \in L
    <2>1. PICK i \in 0..n + 1 : /\ IF i = 0 THEN first ELSE i \in B
                                /\ \A j \in i + 1..n + 1 : j \in L
      BY <1>1 DEF Survives
    <2>2. i \in 0..n
      BY <1>1, <2>1
    <2>3. (IF i = 0 THEN first ELSE i \in A) /\ n + 1 \in L
      BY <2>1, <2>2
    <2>4. \A j \in i + 1..n : j \in K
      BY <2>1, <2>2
    <2> QED BY <2>2, <2>3, <2>4 DEF Survives
  <1>2. ASSUME n + 1 \in B PROVE Survives(first, B, L, n + 1)
    <2>1. n + 1 \in 0..n + 1 /\ n + 1 # 0 /\ \A j \in n + 1 + 1..n + 1 : FALSE
      OBVIOUS
    <2> QED BY <1>2, <2>1 DEF Survives
  <1>3. ASSUME Survives(first, A, K, n), n + 1 \in L PROVE Survives(first, B, L, n + 1)
    <2>1. PICK i \in 0..n : /\ IF i = 0 THEN first ELSE i \in A
                            /\ \A j \in i + 1..n : j \in K
      BY <1>3 DEF Survives
    <2>2. i \in 0..n + 1 /\ (IF i = 0 THEN first ELSE i \in B)
      BY <2>1
    <2>3. \A j \in i + 1..n + 1 : j \in L
      BY <1>3, <2>1
    <2> QED BY <2>2, <2>3 DEF Survives
  <1> QED BY <1>1, <1>2, <1>3

(* The first of n + 1 records decides with what the others start. *)
LEMMA FirstRecord ==
    ASSUME NEW n \in Nat, NEW A, NEW K, NEW B, NEW L, NEW first, NEW second,
           \A i \in 1..n : (i + 1 \in B <=> i \in A) /\ (i + 1 \in L <=> i \in K),
           second <=> 1 \in B \/ (first /\ 1 \in L)
    PROVE  Survives(first, B, L, n + 1) <=> Survives(second, A, K, n)
  <1>1. ASSUME Survives(first, B, L, n + 1) PROVE Survives(second, A, K, n)
    <2>1. PICK i \in 0..n + 1 : /\ IF i = 0 THEN first ELSE i \in B
                                /\ \A j \in i + 1..n + 1 : j \in L
      BY <1>1 DEF Survives
    <2>2. ASSUME NEW k \in 0..n, i <= k + 1 PROVE \A j \in k + 1..n : j \in K
      <3>1. \A j \in k + 1..n : j \in 1..n /\ j + 1 \in i + 1..n + 1
        BY <2>1, <2>2
      <3> QED BY <2>1, <3>1
    <2>3. CASE i <= 1
      <3>1. second
        <4>1. CASE i = 0
          BY <2>1, <4>1
        <4>2. CASE i = 1
          BY <2>1, <4>2
        <4> QED BY <2>1, <2>3, <4>1, <4>2
      <3>2. \A j \in 0 + 1..n : j \in K
        BY <2>1, <2>2, <2>3
      <3> QED BY <3>1, <3>2 DEF Survives
    <2>4. CASE i > 1
      <3>1. i - 1 \in 1..n /\ i - 1 \in 0..n /\ i - 1 # 0 /\ i <= i - 1 + 1 /\ i - 1 + 1 = i
        BY <2>1, <2>4
      <3>2. i - 1 \in A
        BY <2>1, <2>4, <3>1
      <3>3. \A j \in i - 1 + 1..n : j \in K
        BY <2>2, <3>1
      <3> QED BY <3>1, <3>2, <3>3 DEF Survives
    <2> QED BY <2>1, <2>3, <2>4
  <1>2. ASSUME Survives(second, A, K, n) PROVE Survives(first, B, L, n + 1)
    <2>1. PICK i \in 0..n : /\ IF i = 0 THEN second ELSE i \in A
                            /\ \A j \in i + 1..n : j \in K
      BY <1>2 DEF Survives
    <2>2. \A j \in i + 2..n + 1 : j \in L
      <3>1. \A j \in i + 2..n + 1 : j - 1 \in i + 1..n /\ j - 1 \in 1..n /\ j - 1 + 1 = j
        BY <2>1
      <3> QED BY <2>1, <3>1
    <2>3. CASE i # 0
      <3>1. i + 1 \in B /\ i + 1 \in 0..n + 1 /\ i + 1 # 0 /\ i + 1 + 1 = i + 2
        BY <2>1, <2>3
      <3> QED BY <2>2, <3>1 DEF Survives
    <2>4. CASE i = 0 /\ 1 \in B
      <3>1. 1 \in 0..n + 1 /\ 1 + 1 = i + 2
        BY <2>4
      <3> QED BY <2>2, <2>4, <3>1 DEF Survives
    <2>5. CASE i = 0 /\ first /\ 1 \in L
      <3>1. \A j \in 0 + 1..n + 1 : j = 1 \/ j \in i + 2..n + 1
        BY <2>5
      <3>2. \A j \in 0 + 1..n + 1 : j \in L
        BY <2>2, <2>5, <3>1
      <3>3. 0 \in 0..n + 1
        OBVIOUS
      <3> QED BY <2>5, <3>2, <3>3 DEF Survives
    <2> QED BY <2>1, <2>3, <2>4, <2>5
  <1> QED BY <1>1, <1>2

(* One more record at the end. *)
LEMMA AfterOneMore ==
    ASSUME NEW q \in Seq(Changes), NEW r \in Changes, NEW S, NEW T
    PROVE  /\ BansAfter(S, Append(q, r)) = Bans(BansAfter(S, q), r)
           /\ MembersAfter(T, Append(q, r)) = storeSocial(MembersAfter(T, q), r)
  <1>1. PICK w, n : w = Append(q, r) /\ n = Len(q)
    OBVIOUS
  <1>2. /\ n \in Nat /\ w \in Seq(Changes) /\ Len(w) = n + 1 /\ w[n + 1] = r
        /\ \A i \in 1..n : w[i] = q[i] /\ i \in 1..n + 1
        /\ n + 1 \in 1..n + 1
    BY <1>1
  <1>3. ASSUME NEW a \in Accounts PROVE a \in BansAfter(S, w) <=> a \in Bans(BansAfter(S, q), r)
    <2>1. /\ \A i \in 1..n : /\ i \in Adding(a, w) <=> i \in Adding(a, q)
                             /\ i \in Keeping(a, w) <=> i \in Keeping(a, q)
          /\ n + 1 \in Adding(a, w) <=> a \in Bans({}, r)
          /\ n + 1 \in Keeping(a, w) <=> a \in Bans({a}, r)
      BY <1>1, <1>2 DEF Adding, Keeping
    <2>2. Survives(a \in S, Adding(a, w), Keeping(a, w), n + 1) <=>
                \/ n + 1 \in Adding(a, w)
                \/ Survives(a \in S, Adding(a, q), Keeping(a, q), n) /\ n + 1 \in Keeping(a, w)
      BY <1>2, <2>1, LastRecord
    <2>3. a \in BansAfter(S, w) <=> Survives(a \in S, Adding(a, w), Keeping(a, w), n + 1)
      BY <1>2, AfterMeans
    <2>4. a \in BansAfter(S, q) <=> Survives(a \in S, Adding(a, q), Keeping(a, q), n)
      BY <1>1, AfterMeans
    <2> QED BY <2>1, <2>2, <2>3, <2>4, RecordsElementwise
  <1>4. ASSUME NEW m \in Members
        PROVE  m \in MembersAfter(T, w) <=> m \in storeSocial(MembersAfter(T, q), r)
    <2>1. /\ \A i \in 1..n : /\ i \in AddingMember(m, w) <=> i \in AddingMember(m, q)
                             /\ i \in KeepingMember(m, w) <=> i \in KeepingMember(m, q)
          /\ n + 1 \in AddingMember(m, w) <=> m \in storeSocial({}, r)
          /\ n + 1 \in KeepingMember(m, w) <=> m \in storeSocial({m}, r)
      BY <1>1, <1>2 DEF AddingMember, KeepingMember
    <2>2. Survives(m \in T, AddingMember(m, w), KeepingMember(m, w), n + 1) <=>
                \/ n + 1 \in AddingMember(m, w)
                \/ /\ Survives(m \in T, AddingMember(m, q), KeepingMember(m, q), n)
                   /\ n + 1 \in KeepingMember(m, w)
      BY <1>2, <2>1, LastRecord
    <2>3. m \in MembersAfter(T, w) <=>
                Survives(m \in T, AddingMember(m, w), KeepingMember(m, w), n + 1)
      BY <1>2, AfterMeans
    <2>4. m \in MembersAfter(T, q) <=> Survives(m \in T, AddingMember(m, q), KeepingMember(m, q), n)
      BY <1>1, AfterMeans
    <2> QED BY <2>1, <2>2, <2>3, <2>4, RecordsElementwise
  <1>5. /\ BansAfter(S, w) \subseteq Accounts /\ Bans(BansAfter(S, q), r) \subseteq Accounts
        /\ MembersAfter(T, w) \subseteq Members /\ storeSocial(MembersAfter(T, q), r) \subseteq Members
    BY RecordTypes DEF BansAfter, MembersAfter
  <1>6. BansAfter(S, w) = Bans(BansAfter(S, q), r)
    BY <1>3, <1>5
  <1>7. MembersAfter(T, w) = storeSocial(MembersAfter(T, q), r)
    BY <1>4, <1>5
  <1> QED BY <1>1, <1>6, <1>7

(* The first record is applied. *)
LEMMA AfterTheFirst ==
    ASSUME NEW q \in Seq(Changes), q # <<>>, NEW S, NEW T
    PROVE  /\ BansAfter(Bans(S, Head(q)), Tail(q)) = BansAfter(S, q)
           /\ MembersAfter(storeSocial(T, Head(q)), Tail(q)) = MembersAfter(T, q)
  <1>1. PICK w, n, r : w = Tail(q) /\ n = Len(q) - 1 /\ r = Head(q)
    OBVIOUS
  <1>2. /\ n \in Nat /\ w \in Seq(Changes) /\ Len(w) = n /\ Len(q) = n + 1 /\ q[1] = r
        /\ \A i \in 1..n : w[i] = q[i + 1] /\ i + 1 \in 1..n + 1
        /\ 1 \in 1..n + 1
    BY <1>1
  <1>3. ASSUME NEW a \in Accounts PROVE a \in BansAfter(Bans(S, r), w) <=> a \in BansAfter(S, q)
    <2>0. ASSUME NEW i \in 1..n
          PROVE  /\ i + 1 \in Adding(a, q) <=> i \in Adding(a, w)
                 /\ i + 1 \in Keeping(a, q) <=> i \in Keeping(a, w)
      <3>1. w[i] = q[i + 1] /\ i + 1 \in 1..Len(q) /\ i \in 1..Len(w)
        BY <1>2
      <3> QED BY <3>1 DEF Adding, Keeping
    <2>1. /\ 1 \in Adding(a, q) <=> a \in Bans({}, r)
          /\ 1 \in Keeping(a, q) <=> a \in Bans({a}, r)
      <3>1. q[1] = r /\ 1 \in 1..Len(q)
        BY <1>2
      <3> QED BY <3>1 DEF Adding, Keeping
    <2>2. a \in Bans(S, r) <=> 1 \in Adding(a, q) \/ (a \in S /\ 1 \in Keeping(a, q))
      BY <2>1, RecordsElementwise
    <2>3. Survives(a \in S, Adding(a, q), Keeping(a, q), n + 1) <=>
                Survives(a \in Bans(S, r), Adding(a, w), Keeping(a, w), n)
      BY <1>2, <2>0, <2>2, FirstRecord
    <2>4. a \in BansAfter(S, q) <=> Survives(a \in S, Adding(a, q), Keeping(a, q), n + 1)
      BY <1>2, AfterMeans
    <2>5. a \in BansAfter(Bans(S, r), w) <=>
                Survives(a \in Bans(S, r), Adding(a, w), Keeping(a, w), n)
      BY <1>2, AfterMeans
    <2> QED BY <2>3, <2>4, <2>5
  <1>4. ASSUME NEW m \in Members
        PROVE  m \in MembersAfter(storeSocial(T, r), w) <=> m \in MembersAfter(T, q)
    <2>0. ASSUME NEW i \in 1..n
          PROVE  /\ i + 1 \in AddingMember(m, q) <=> i \in AddingMember(m, w)
                 /\ i + 1 \in KeepingMember(m, q) <=> i \in KeepingMember(m, w)
      <3>1. w[i] = q[i + 1] /\ i + 1 \in 1..Len(q) /\ i \in 1..Len(w)
        BY <1>2
      <3> QED BY <3>1 DEF AddingMember, KeepingMember
    <2>1. /\ 1 \in AddingMember(m, q) <=> m \in storeSocial({}, r)
          /\ 1 \in KeepingMember(m, q) <=> m \in storeSocial({m}, r)
      <3>1. q[1] = r /\ 1 \in 1..Len(q)
        BY <1>2
      <3> QED BY <3>1 DEF AddingMember, KeepingMember
    <2>2. m \in storeSocial(T, r) <=> 1 \in AddingMember(m, q) \/ (m \in T /\ 1 \in KeepingMember(m, q))
      BY <2>1, RecordsElementwise
    <2>3. Survives(m \in T, AddingMember(m, q), KeepingMember(m, q), n + 1) <=>
                Survives(m \in storeSocial(T, r), AddingMember(m, w), KeepingMember(m, w), n)
      BY <1>2, <2>0, <2>2, FirstRecord
    <2>4. m \in MembersAfter(T, q) <=>
                Survives(m \in T, AddingMember(m, q), KeepingMember(m, q), n + 1)
      BY <1>2, AfterMeans
    <2>5. m \in MembersAfter(storeSocial(T, r), w) <=>
                Survives(m \in storeSocial(T, r), AddingMember(m, w), KeepingMember(m, w), n)
      BY <1>2, AfterMeans
    <2> QED BY <2>3, <2>4, <2>5
  <1>5. BansAfter(Bans(S, r), w) = BansAfter(S, q)
    BY <1>3 DEF BansAfter
  <1>6. MembersAfter(storeSocial(T, r), w) = MembersAfter(T, q)
    BY <1>4 DEF MembersAfter
  <1> QED BY <1>1, <1>5, <1>6

(* A finite set, as a sequence, has exactly its elements. *)
LEMMA SetAsSequence ==
    ASSUME NEW S, IsFiniteSet(S)
    PROVE  /\ SetToSeq(S) \in Seq(S)
           /\ \A x \in S : \E i \in 1..Len(SetToSeq(S)) : SetToSeq(S)[i] = x
  <1>1. PICK n : n = Cardinality(S)
    OBVIOUS
  <1>2. n \in Nat /\ ExistsBijection(1..n, S)
    BY <1>1, FS_CardinalityType
  <1>3. \E f \in [1..n -> S] : IsInjective(f)
    BY <1>2 DEF ExistsBijection, Bijection, Injection
  <1>4. PICK q : q = SetToSeq(S)
    OBVIOUS
  <1>5. q \in [1..n -> S] /\ IsInjective(q)
    BY <1>1, <1>3, <1>4 DEF SetToSeq
  <1>6. q \in Injection(1..n, S)
    BY <1>5 DEF Injection
  <1>7. Cardinality(1..n) = n
    BY <1>2, FS_Interval
  <1>8. q \in Surjection(1..n, S)
    BY <1>1, <1>6, <1>7, FS_Injection
  <1>9. \A x \in S : \E i \in 1..n : q[i] = x
    BY <1>8 DEF Surjection
  <1>10. q \in Seq(S) /\ Len(q) = n
    BY <1>2, <1>5
  <1> QED BY <1>4, <1>9, <1>10

(* A zone that subscribes is sent the bans in force. *)
LEMMA ReplayedState ==
    ASSUME banned \subseteq Accounts
    PROVE  sendStateTo \in Seq(Changes) /\ BansAfter({}, sendStateTo) = banned
  <1>1. PICK R : R = Records({"ban"}, banned)
    OBVIOUS
  <1>2. IsFiniteSet(R)
    <2>1. IsFiniteSet(banned)
      BY FS_Subset, AccountsAssumption
    <2>2. PICK f : f = [a \in banned |-> [kind |-> "ban", about |-> a]]
      OBVIOUS
    <2>3. \A a \in banned : f[a] \in R /\ f[a].about = a
      BY <1>1, <2>2 DEF Records
    <2>4. \A r \in R : r.about \in banned /\ f[r.about] = r
      BY <1>1, <2>2 DEF Records
    <2>5. f \in [banned -> R] /\ DOMAIN f = banned
      BY <2>2, <2>3
    <2>6. f \in Bijection(banned, R)
      BY <2>3, <2>4, <2>5 DEF Bijection, Injection, Surjection, IsInjective
    <2> QED BY <2>1, <2>6, FS_Bijection DEF ExistsBijection
  <1>3. PICK q : q = SetToSeq(R)
    OBVIOUS
  <1>4. q \in Seq(R) /\ \A x \in R : \E i \in 1..Len(q) : q[i] = x
    BY <1>2, <1>3, SetAsSequence
  <1>5. R \subseteq Changes /\ \A r \in R : r.kind = "ban" /\ r.about \in banned
    BY <1>1 DEF Records, Changes
  <1>6. q \in Seq(Changes)
    BY <1>4, <1>5
  <1>7. \A i \in 1..Len(q) : q[i] \in R
    BY <1>4
  <1>8. \A i \in 1..Len(q) : /\ \A a : a \in Bans({}, q[i]) <=> a = q[i].about
                             /\ \A a : a \in Bans({a}, q[i])
    BY <1>5, <1>7 DEF Bans
  <1>9. ASSUME NEW a \in BansAfter({}, q) PROVE a \in banned
    <2>1. PICK i \in 0..Len(q) : i # 0 /\ a \in Bans({}, q[i])
      BY <1>9 DEF BansAfter
    <2>2. i \in 1..Len(q)
      BY <1>4, <2>1
    <2> QED BY <1>5, <1>7, <1>8, <2>1, <2>2
  <1>10. ASSUME NEW a \in banned PROVE a \in BansAfter({}, q)
    <2>0. [kind |-> "ban", about |-> a] \in R
      BY <1>1 DEF Records
    <2>1. PICK r \in R : r.about = a
      BY <2>0
    <2>2. PICK i \in 1..Len(q) : q[i] = r
      BY <1>4
    <2>3. a \in Bans({}, q[i])
      BY <1>8, <2>1, <2>2
    <2>4. Len(q) \in Nat /\ i \in 0..Len(q) /\ i # 0 /\ \A j \in i + 1..Len(q) : j \in 1..Len(q)
      BY <1>4, <2>2
    <2>5. \A j \in i + 1..Len(q) : a \in Bans({a}, q[j])
      BY <1>8, <2>4
    <2> QED BY <2>3, <2>4, <2>5 DEF BansAfter
  <1>11. BansAfter({}, q) = banned
    BY <1>9, <1>10
  <1> QED BY <1>1, <1>3, <1>6, <1>11 DEF sendStateTo

-----------------------------------------------------------------------------
(* The invariant *)

(* The invariant holds at the start. *)
LEMMA InitHolds == Init => IInv
  <1> SUFFICES ASSUME Init PROVE IInv
    OBVIOUS
  <1>1. Types
    BY DEF Init, Types, Nothing
  <1>2. LinkInUse /\ AnswerIsFresh
    BY DEF Init, LinkInUse, AnswerIsFresh, Nothing
  <1>3. Newcomers /\ NamesAreCurrent
    BY DEF Init, Newcomers, NamesAreCurrent
  <1>4. ZoneFollows /\ SurvivesRestart
    BY DEF Init, ZoneFollows, SurvivesRestart
  <1> QED BY <1>1, <1>2, <1>3, <1>4 DEF IInv

(* A restart: nobody is subscribed, and what was sent is now late. *)
LEMMA CrashKeeps == ASSUME IInv, Crash PROVE IInv'
  <1> USE DEF IInv
  <1>1. Types'
    <2>1. late' \in Seq(Changes) /\ toDb' \in Seq(Changes)
      BY DEF Types, Crash
    <2>2. /\ restored'.bans \subseteq Accounts /\ restored'.members \subseteq Members
          /\ run' \in {"down", "restoring", "serving"} /\ worker' \in {"dialling", "failed", "ready"}
          /\ banned' \subseteq Accounts /\ guilds' \subseteq Members
          /\ dbBans' \subseteq Accounts /\ dbMembers' \subseteq Members
      BY DEF Types, Crash, Nothing
    <2>3. /\ sub' \in [Zones -> {"none", "waiting", "subscribed", "lost"}]
          /\ queue' \in [Zones -> Seq(Changes)]
          /\ zoneBans' \in [Zones -> SUBSET Accounts]
          /\ who' \in [Conns -> Accounts \cup {NoOne}]
          /\ named' \in [Conns -> Accounts \cup {NoOne}] /\ liars' \subseteq Conns
      BY DEF Types, Crash
    <2> QED BY <2>1, <2>2, <2>3 DEF Types
  <1>2. LinkInUse' /\ AnswerIsFresh'
    BY DEF Crash, LinkInUse, AnswerIsFresh, Nothing
  <1>3. Newcomers' /\ NamesAreCurrent'
    BY DEF Crash, Types, Newcomers, NamesAreCurrent
  <1>4. ZoneFollows' /\ SurvivesRestart'
    BY DEF Crash, ZoneFollows, SurvivesRestart
  <1> QED BY <1>1, <1>2, <1>3, <1>4

(* The worker and the deadline, until the node serves. *)
LEMMA RestoreKeeps ==
    ASSUME IInv, Start \/ LinkFails \/ LinkReady \/ RestoreDeadline
    PROVE  IInv'
  <1> USE DEF IInv, database, zones, players, counters
  <1>1. CASE Start
    <2>1. Types' /\ LinkInUse' /\ AnswerIsFresh'
      BY <1>1 DEF Start, Types, LinkInUse, AnswerIsFresh
    <2>2. Newcomers' /\ NamesAreCurrent' /\ ZoneFollows' /\ SurvivesRestart'
      BY <1>1 DEF Start, Newcomers, NamesAreCurrent, ZoneFollows, SurvivesRestart
    <2> QED BY <2>1, <2>2
  <1>2. CASE LinkFails
    <2>1. Types' /\ LinkInUse' /\ AnswerIsFresh'
      BY <1>2 DEF LinkFails, Types, LinkInUse, AnswerIsFresh
    <2>2. Newcomers' /\ NamesAreCurrent' /\ ZoneFollows' /\ SurvivesRestart'
      BY <1>2 DEF LinkFails, Newcomers, NamesAreCurrent, ZoneFollows, SurvivesRestart
    <2> QED BY <2>1, <2>2
  <1>3. CASE LinkReady
    <2>1. PICK a \in answerSocialQuery :
            restored' = [bans |-> a[1], members |-> a[2],
                         whole |-> a = <<dbBans, dbMembers>> /\ late = <<>>]
      BY <1>3 DEF LinkReady
    <2>2. /\ restored'.bans = a[1] /\ restored'.members = a[2]
          /\ restored'.whole <=> a = <<dbBans, dbMembers>> /\ late = <<>>
      BY <2>1
    <2>3. a[1] \subseteq dbBans /\ a[2] \subseteq dbMembers
      BY <2>1 DEF answerSocialQuery
    <2>4. Types'
      BY <1>3, <2>2, <2>3 DEF LinkReady, Types
    <2>5. ~link
      BY <1>3 DEF LinkReady, LinkInUse
    <2>6. LinkInUse' /\ AnswerIsFresh'
      BY <1>3, <2>2, <2>5 DEF LinkReady, LinkInUse, AnswerIsFresh
    <2>7. Newcomers' /\ NamesAreCurrent' /\ ZoneFollows' /\ SurvivesRestart'
      BY <1>3, <2>5 DEF LinkReady, Newcomers, NamesAreCurrent, ZoneFollows, SurvivesRestart
    <2> QED BY <2>4, <2>6, <2>7
  <1>4. CASE RestoreDeadline
    <2>1. Types' /\ LinkInUse' /\ AnswerIsFresh'
      BY <1>4 DEF RestoreDeadline, Types, LinkInUse, AnswerIsFresh
    <2>2. ~link
      BY <1>4 DEF RestoreDeadline, LinkInUse
    <2>3. Newcomers' /\ NamesAreCurrent' /\ ZoneFollows' /\ SurvivesRestart'
      BY <1>4, <2>2 DEF RestoreDeadline, Newcomers, NamesAreCurrent, ZoneFollows, SurvivesRestart
    <2> QED BY <2>1, <2>3
  <1> QED BY <1>1, <1>2, <1>3, <1>4

(* What was restored is in force: nothing was on its way to the database. *)
LEMMA MergeKeeps == ASSUME IInv, MergeRestored PROVE IInv'
  <1> USE DEF IInv, database, zones, players, counters
  <1>1. Types' /\ LinkInUse' /\ AnswerIsFresh'
    BY DEF MergeRestored, Types, LinkInUse, AnswerIsFresh
  <1>2. Newcomers' /\ NamesAreCurrent' /\ ZoneFollows'
    BY DEF MergeRestored, Newcomers, NamesAreCurrent, ZoneFollows
  <1>3. SurvivesRestart'
    <2>1. toDb' = <<>> /\ dbBans' = dbBans /\ dbMembers' = dbMembers
      BY DEF MergeRestored, LinkInUse
    <2>2. dbBans \in SUBSET Accounts /\ dbMembers \in SUBSET Members
      BY DEF Types
    <2>3. BansAfter(dbBans, <<>>) = dbBans /\ MembersAfter(dbMembers, <<>>) = dbMembers
      BY <2>2, AfterNothing
    <2>4. restored'.whole => banned' = dbBans /\ guilds' = dbMembers
      BY DEF MergeRestored, AnswerIsFresh
    <2> QED BY <2>1, <2>3, <2>4 DEF SurvivesRestart
  <1> QED BY <1>1, <1>2, <1>3

(* A change reaches every subscriber and, with a link, the database. *)
LEMMA ChangeKeeps == ASSUME IInv, NEW r \in Changes, Change(r) PROVE IInv'
  <1> USE DEF IInv, players
  <1>1. /\ banned' = Bans(banned, r) /\ banned' \subseteq Accounts
        /\ guilds' = Memory(guilds, r) /\ guilds' \subseteq Members
    BY RecordTypes DEF Change, Types
  <1>2. /\ queue' \in [Zones -> Seq(Changes)]
        /\ \A z \in Zones : queue'[z] = IF sub[z] = "subscribed" THEN Append(queue[z], r) ELSE queue[z]
    BY DEF Change, Types
  <1>3. toDb' \in Seq(Changes) /\ toDb' = (IF link THEN Append(toDb, r) ELSE toDb)
    BY DEF Change, Types
  <1>4. Types'
    BY <1>1, <1>2, <1>3 DEF Change, Types
  <1>5. LinkInUse' /\ AnswerIsFresh' /\ NamesAreCurrent'
    BY <1>3 DEF Change, LinkInUse, AnswerIsFresh, NamesAreCurrent
  <1>6. Newcomers'
    BY <1>2 DEF Change, Newcomers
  <1>7. ZoneFollows'
    <2> SUFFICES ASSUME NEW z \in Zones, sub[z] = "subscribed"
                 PROVE  BansAfter(zoneBans[z], queue'[z]) = Bans(banned, r)
      BY <1>1 DEF Change, ZoneFollows
    <2>1. BansAfter(zoneBans[z], Append(queue[z], r)) = Bans(BansAfter(zoneBans[z], queue[z]), r)
      BY AfterOneMore DEF Types
    <2> QED BY <1>2, <2>1 DEF ZoneFollows
  <1>8. SurvivesRestart'
    <2> SUFFICES ASSUME link, restored.whole
                 PROVE  /\ BansAfter(dbBans, toDb') = Bans(banned, r)
                        /\ Memory(guilds, r) \subseteq MembersAfter(dbMembers, toDb')
      BY <1>1 DEF Change, SurvivesRestart
    <2>1. BansAfter(dbBans, toDb) = banned /\ guilds \subseteq MembersAfter(dbMembers, toDb)
      BY DEF Change, SurvivesRestart
    <2>2. /\ BansAfter(dbBans, Append(toDb, r)) = Bans(BansAfter(dbBans, toDb), r)
          /\ MembersAfter(dbMembers, Append(toDb, r)) = storeSocial(MembersAfter(dbMembers, toDb), r)
      BY AfterOneMore DEF Types
    <2>3. Memory(guilds, r) \subseteq storeSocial(MembersAfter(dbMembers, toDb), r)
      BY <2>1, RecordTypes
    <2> QED BY <1>3, <2>1, <2>2, <2>3
  <1> QED BY <1>4, <1>5, <1>6, <1>7, <1>8

(* The database stores a record of this life; the answer of a complete     *)
(* restore is not waiting any more, for a node without a link sends none.  *)
LEMMA StoreKeeps == ASSUME IInv, Store PROVE IInv'
  <1> USE DEF IInv, node, zones, players, counters
  <1>1. toDb \in Seq(Changes) /\ toDb # <<>>
    BY DEF Store, Types
  <1>2. Head(toDb) \in Changes /\ Tail(toDb) \in Seq(Changes)
    BY <1>1
  <1>3. link /\ run = "serving"
    BY <1>1 DEF LinkInUse
  <1>4. /\ dbBans' = Bans(dbBans, Head(toDb)) /\ dbBans' \subseteq Accounts
        /\ dbMembers' = storeSocial(dbMembers, Head(toDb)) /\ dbMembers' \subseteq Members
    BY <1>2, RecordTypes DEF Store, Stores, Types
  <1>5. Types'
    BY <1>2, <1>4 DEF Store, Types
  <1>6. LinkInUse' /\ AnswerIsFresh' /\ Newcomers' /\ NamesAreCurrent' /\ ZoneFollows'
    BY <1>3 DEF Store, LinkInUse, AnswerIsFresh, Newcomers, NamesAreCurrent, ZoneFollows
  <1>7. SurvivesRestart'
    <2>1. /\ BansAfter(dbBans', Tail(toDb)) = BansAfter(dbBans, toDb)
          /\ MembersAfter(dbMembers', Tail(toDb)) = MembersAfter(dbMembers, toDb)
      BY <1>1, <1>4, AfterTheFirst
    <2> QED BY <2>1 DEF Store, SurvivesRestart
  <1> QED BY <1>5, <1>6, <1>7

(* A record of an earlier life is stored: no complete answer is affected,  *)
(* for an answer is complete only when nothing is late.                    *)
LEMMA StoreLateKeeps == ASSUME IInv, StoreLate PROVE IInv'
  <1> USE DEF IInv, node, zones, players, counters
  <1>1. late \in Seq(Changes) /\ late # <<>>
    BY DEF StoreLate, Types
  <1>2. Head(late) \in Changes /\ Tail(late) \in Seq(Changes)
    BY <1>1
  <1>3. ~restored.whole
    BY <1>1 DEF AnswerIsFresh
  <1>4. dbBans' \subseteq Accounts /\ dbMembers' \subseteq Members
    BY <1>2, RecordTypes DEF StoreLate, Stores, Types
  <1>5. Types'
    BY <1>2, <1>4 DEF StoreLate, Types
  <1>6. LinkInUse' /\ AnswerIsFresh' /\ Newcomers' /\ NamesAreCurrent'
    BY <1>3 DEF StoreLate, LinkInUse, AnswerIsFresh, Newcomers, NamesAreCurrent
  <1>7. ZoneFollows' /\ SurvivesRestart'
    BY <1>3 DEF StoreLate, ZoneFollows, SurvivesRestart
  <1> QED BY <1>5, <1>6, <1>7

(* The link is lost for good. *)
LEMMA LinkBreaksKeeps == ASSUME IInv, LinkBreaks PROVE IInv'
  <1> USE DEF IInv, zones, players
  <1>1. Types' /\ LinkInUse' /\ AnswerIsFresh'
    BY DEF LinkBreaks, Types, LinkInUse, AnswerIsFresh
  <1>2. Newcomers' /\ NamesAreCurrent' /\ ZoneFollows' /\ SurvivesRestart'
    BY DEF LinkBreaks, Newcomers, NamesAreCurrent, ZoneFollows, SurvivesRestart
  <1> QED BY <1>1, <1>2

(* A zone starts, stops, is accepted with the state replayed, or reads. *)
LEMMA ZoneKeeps ==
    ASSUME IInv, NEW z \in Zones, ZoneStarts(z) \/ ZoneStops(z) \/ Accept(z) \/ ZoneReads(z)
    PROVE  IInv'
  <1> USE DEF IInv, node, database, players, counters
  <1>1. LinkInUse' /\ AnswerIsFresh' /\ NamesAreCurrent' /\ SurvivesRestart'
    <2>1. UNCHANGED <<node, database, players>>
      BY DEF ZoneStarts, ZoneStops, Accept, ZoneReads
    <2> QED BY <2>1 DEF LinkInUse, AnswerIsFresh, NamesAreCurrent, SurvivesRestart
  <1>2. CASE ZoneStarts(z)
    <2>1. Types' /\ Newcomers' /\ ZoneFollows'
      BY <1>2 DEF ZoneStarts, Types, Newcomers, ZoneFollows
    <2> QED BY <1>1, <2>1
  <1>3. CASE ZoneStops(z)
    <2>1. Types' /\ Newcomers' /\ ZoneFollows'
      BY <1>3 DEF ZoneStops, Types, Newcomers, ZoneFollows
    <2> QED BY <1>1, <2>1
  <1>4. CASE Accept(z)
    <2>1. sendStateTo \in Seq(Changes) /\ BansAfter({}, sendStateTo) = banned
      BY ReplayedState DEF Types
    <2>2. /\ sub' \in [Zones -> {"none", "waiting", "subscribed", "lost"}]
          /\ queue' \in [Zones -> Seq(Changes)]
          /\ sub'[z] = "subscribed" /\ queue'[z] = sendStateTo
          /\ \A y \in Zones \ {z} : sub'[y] = sub[y] /\ queue'[y] = queue[y]
      BY <1>4, <2>1 DEF Accept, Types
    <2>3. Types'
      BY <1>4, <2>2 DEF Accept, Types
    <2>4. zoneBans[z] = {} /\ zoneBans' = zoneBans /\ banned' = banned /\ run' = "serving"
      BY <1>4 DEF Accept, Newcomers
    <2>5. Newcomers'
      BY <2>2, <2>4 DEF Newcomers
    <2>6. ZoneFollows'
      <3> SUFFICES ASSUME NEW y \in Zones, sub'[y] = "subscribed"
                   PROVE  BansAfter(zoneBans[y], queue'[y]) = banned
        BY <2>4 DEF ZoneFollows
      <3> QED BY <2>1, <2>2, <2>4 DEF ZoneFollows
    <2> QED BY <1>1, <2>3, <2>5, <2>6
  <1>5. CASE ZoneReads(z)
    <2>1. queue[z] \in Seq(Changes) /\ queue[z] # <<>> /\ zoneBans[z] \in SUBSET Accounts
      BY <1>5 DEF ZoneReads, Types
    <2>2. Head(queue[z]) \in Changes /\ Tail(queue[z]) \in Seq(Changes)
      BY <2>1
    <2>3. PICK B : B = Bans(zoneBans[z], Head(queue[z]))
      OBVIOUS
    <2>4. B \in SUBSET Accounts
      BY <2>1, <2>2, <2>3, RecordTypes
    <2>5. /\ queue' \in [Zones -> Seq(Changes)] /\ zoneBans' \in [Zones -> SUBSET Accounts]
          /\ queue'[z] = Tail(queue[z]) /\ zoneBans'[z] = B
          /\ \A y \in Zones \ {z} : zoneBans'[y] = zoneBans[y] /\ queue'[y] = queue[y]
      BY <1>5, <2>2, <2>3, <2>4 DEF ZoneReads, Types
    <2>6. Types'
      BY <1>5, <2>5 DEF ZoneReads, Types
    <2>7. Newcomers'
      BY <1>5, <2>1, <2>5 DEF ZoneReads, Newcomers
    <2>8. BansAfter(B, Tail(queue[z])) = BansAfter(zoneBans[z], queue[z])
      BY <2>1, <2>3, AfterTheFirst
    <2>9. ZoneFollows'
      <3> SUFFICES ASSUME NEW y \in Zones, sub[y] = "subscribed"
                   PROVE  BansAfter(zoneBans'[y], queue'[y]) = banned
        BY <1>5 DEF ZoneReads, ZoneFollows
      <3> QED BY <2>5, <2>8 DEF ZoneFollows
    <2> QED BY <1>1, <2>6, <2>7, <2>9
  <1> QED BY <1>2, <1>3, <1>4, <1>5

(* A player connects, speaks or leaves. *)
LEMMA PlayerKeeps ==
    ASSUME IInv, NEW c \in Conns,
           PlayerCloses(c) \/ \E a \in Accounts : PlayerConnects(c, a) \/ Chat(c, a)
    PROVE  IInv'
  <1> USE DEF IInv, node, database, zones, counters
  <1>1. LinkInUse' /\ AnswerIsFresh' /\ Newcomers' /\ ZoneFollows' /\ SurvivesRestart'
    <2>1. UNCHANGED <<node, database, zones>>
      BY DEF Chat, PlayerCloses, PlayerConnects
    <2> QED BY <2>1 DEF LinkInUse, AnswerIsFresh, Newcomers, ZoneFollows, SurvivesRestart
  <1>2. ASSUME NEW a \in Accounts, Chat(c, a) PROVE IInv'
    <2>1. Types' /\ NamesAreCurrent'
      BY <1>2 DEF Chat, Types, NamesAreCurrent
    <2> QED BY <1>1, <2>1
  <1>3. CASE PlayerCloses(c)
    <2>1. Types' /\ NamesAreCurrent'
      BY <1>3 DEF PlayerCloses, Types, NamesAreCurrent
    <2> QED BY <1>1, <2>1
  <1>4. ASSUME NEW a \in Accounts, PlayerConnects(c, a) PROVE IInv'
    <2>1. named[c] = NoOne
      BY <1>4 DEF PlayerConnects, NamesAreCurrent
    <2>2. Types' /\ NamesAreCurrent'
      BY <1>4, <2>1 DEF PlayerConnects, Types, NamesAreCurrent
    <2> QED BY <1>1, <2>2
  <1> QED BY <1>2, <1>3, <1>4

(* The invariant is kept by every step of the specification. *)
THEOREM Invariance == Spec => []IInv
  <1>1. IInv /\ [Next]_vars => IInv'
    <2> SUFFICES ASSUME IInv, [Next]_vars PROVE IInv'
      OBVIOUS
    <2>1. CASE UNCHANGED vars
      BY <2>1 DEF vars, node, database, zones, players, counters, IInv, Types, LinkInUse,
            AnswerIsFresh, Newcomers, NamesAreCurrent, ZoneFollows, SurvivesRestart
    <2> QED BY <2>1, CrashKeeps, RestoreKeeps, MergeKeeps, ChangeKeeps, StoreKeeps, StoreLateKeeps,
              LinkBreaksKeeps, ZoneKeeps, PlayerKeeps DEF Next
  <1> QED BY <1>1, InitHolds, PTL DEF Spec

-----------------------------------------------------------------------------
(* The properties *)

(* For any zones and any history of changes, restarts, broken links and    *)
(* late subscriptions, a subscribed zone bans, once it has read its link,  *)
(* exactly the accounts the social node bans (sendStateTo, broadcast,      *)
(* handleAccount).                                                         *)
THEOREM ZonesFollowTheNode == Spec => []ZoneFollows
  <1>1. IInv => ZoneFollows
    BY DEF IInv
  <1> QED BY <1>1, Invariance, PTL

(* However often the social node restarts, a node whose restore was        *)
(* complete and whose link lives has its bans and members in the database, *)
(* or on their way to it (writeThrough, mergeRestored).                    *)
THEOREM BansSurviveRestart == Spec => []SurvivesRestart
  <1>1. IInv => SurvivesRestart
    BY DEF IInv
  <1> QED BY <1>1, Invariance, PTL

(* Whatever descriptors are used again and whatever names are claimed, a   *)
(* player hears a guild that is not his own only on a connection on which  *)
(* he has claimed another's name (broadcastToGuild, handleChat and the     *)
(* clean-up of a closed connection).                                       *)
THEOREM GuildsAreOverheardByClaimOnly == Spec => []NoEavesdropper
  <1>1. IInv => NoEavesdropper
    BY DEF IInv, NamesAreCurrent, NoEavesdropper, GuildAudience
  <1> QED BY <1>1, Invariance, PTL
==============================================================================
