-------------------------------- MODULE Social --------------------------------
(***************************************************************************)
(* The social node: bans and guild membership in memory, written through   *)
(* to the persistence node, restored from it after a restart and replayed  *)
(* to the zones that subscribe; and the guild channel of the chat.  Bans   *)
(* are permanent ones; permissions, friendships and parties, which follow  *)
(* the same paths, are left out.                                           *)
(***************************************************************************)
EXTENDS Naturals, Sequences, FiniteSets, SequencesExt

CONSTANTS
    Accounts,
    Guilds,
    Zones,
    Conns,        \* descriptors of the players' connections, used again
    MaxChanges,   \* bound: bans, unbans and guild changes
    MaxCrashes,   \* bound: restarts of the social node and broken links
    MaxQueue      \* bound: records not yet read by a zone or the database

ASSUME AccountsAssumption == IsFiniteSet(Accounts)
ASSUME SocialBounds == {MaxChanges, MaxCrashes, MaxQueue} \subseteq Nat

NoOne == "nobody"
Members == Guilds \X Accounts

VARIABLES
    run,                 \* the social node: "down", "restoring" or "serving"
    banned, guilds,      \* SocialState: accounts, pairs <<guild, account>>
    worker,              \* linkThread: "dialling", "failed" or "ready"
    restored,            \* what the worker has read, and whether it is all
    link,                \* is `persistence` connected?
    toDb,                \* records sent on that link and not yet stored
    late,                \* records of an earlier life that are still unread
    dbBans, dbMembers,   \* the collections accounts and guild_members
    sub,                 \* sub[z]: "none", "waiting" in the backlog,
                         \* "subscribed" or "lost"
    queue,               \* queue[z]: records z has not read
    zoneBans,            \* zoneBans[z]: bannedUntilMs of z
    who,                 \* who[c]: the player behind connection c
    named,               \* g_fdUuid
    liars,               \* connections on which the player behind them has
                         \* spoken under another's name
    changes, crashes

node == <<run, banned, guilds, worker, restored, link>>
database == <<toDb, late, dbBans, dbMembers>>
zones == <<sub, queue, zoneBans>>
players == <<who, named, liars>>
counters == <<changes, crashes>>
vars == <<node, database, zones, players, counters>>

Nothing == [bans |-> {}, members |-> {}, whole |-> FALSE]

Init ==
    /\ run = "restoring" /\ worker = "dialling" /\ restored = Nothing /\ link = FALSE
    /\ banned = {} /\ guilds = {}
    /\ toDb = <<>> /\ late = <<>>
    /\ dbBans \in SUBSET Accounts /\ dbMembers = {}
    /\ sub = [z \in Zones |-> "none"] /\ queue = [z \in Zones |-> <<>>]
    /\ zoneBans = [z \in Zones |-> {}]
    /\ who = [c \in Conns |-> NoOne] /\ named = [c \in Conns |-> NoOne] /\ liars = {}
    /\ changes = 0 /\ crashes = 0

-----------------------------------------------------------------------------
(* What a record does to a set of bans and to a set of members, in the     *)
(* memory of the node, in the database, and in a zone.                     *)

Bans(S, r) == CASE r.kind = "ban" -> S \cup {r.about}
                [] r.kind = "unban" -> S \ {r.about}
                [] OTHER -> S

Memory(S, r) == CASE r.kind = "join" -> S \cup {r.about}
                  [] r.kind = "leave" -> S \ {r.about}
                  [] r.kind = "disband" -> {m \in S : m[1] # r.about[1]}
                  [] OTHER -> S           \* a rank changes no membership

(* One document per fact, upserted: a rank creates a missing member. *)
storeSocial(S, r) == IF r.kind = "rank" THEN S \cup {r.about} ELSE Memory(S, r)

Records(kinds, about) == [kind : kinds, about : about]
Changes == Records({"ban", "unban"}, Accounts)
           \cup Records({"join", "leave", "rank", "disband"}, Members)

-----------------------------------------------------------------------------
(* The social node *)

(* A restart forgets everything; what was sent to the database arrives.    *)
Crash ==
    /\ run # "down" /\ crashes < MaxCrashes
    /\ run' = "down" /\ banned' = {} /\ guilds' = {}
    /\ worker' = "dialling" /\ restored' = Nothing /\ link' = FALSE
    /\ late' = late \o toDb /\ toDb' = <<>>
    /\ sub' = [z \in Zones |-> IF sub[z] = "none" THEN "none" ELSE "lost"]
    /\ queue' = [z \in Zones |-> <<>>]
    /\ who' = [c \in Conns |-> NoOne] /\ named' = [c \in Conns |-> NoOne] /\ liars' = {}
    /\ crashes' = crashes + 1
    /\ UNCHANGED <<dbBans, dbMembers, zoneBans, changes>>

Start ==
    /\ run = "down"
    /\ run' = "restoring"
    /\ UNCHANGED <<banned, guilds, worker, restored, link, database, zones, players, counters>>

(* The worker asks for the social plane: persistence is not there, or      *)
(* answers with what it has stored so far, of which the hard cap or the    *)
(* deadline may cut off a part.                                            *)
answerSocialQuery == (SUBSET dbBans) \X (SUBSET dbMembers)

LinkFails ==
    /\ run # "down" /\ worker = "dialling"
    /\ worker' = "failed"
    /\ UNCHANGED <<run, banned, guilds, restored, link, database, zones, players, counters>>

LinkReady ==
    /\ run # "down" /\ worker = "dialling"
    /\ worker' = "ready"
    /\ \E a \in answerSocialQuery :
        restored' = [bans |-> a[1], members |-> a[2],
                     whole |-> a = <<dbBans, dbMembers>> /\ late = <<>>]
    /\ UNCHANGED <<run, banned, guilds, link, database, zones, players, counters>>

(* A worker that has not finished by the deadline is never waited for      *)
(* again, and neither its link nor its records are used.                   *)
RestoreDeadline_never ==
    /\ run = "restoring" /\ worker = "dialling" /\ restored # Nothing
    /\ run' = "serving"
    /\ UNCHANGED <<banned, guilds, worker, restored, link, database, zones, players, counters>>

RestoreDeadline ==
    /\ run = "restoring" /\ worker = "dialling"
    /\ run' = "serving"
    /\ UNCHANGED <<banned, guilds, worker, restored, link, database, zones, players, counters>>

MergeRestored ==
    /\ run = "restoring" /\ worker # "dialling"
    /\ run' = "serving"
    /\ banned' = restored.bans /\ guilds' = restored.members
    /\ link' = (worker = "ready")
    /\ UNCHANGED <<worker, restored, database, zones, players, counters>>

(* applySocialDelta and handleAccount: applied, broadcast to the           *)
(* subscribers and written through, all best-effort.                       *)
Change_unbanUnsaved(r) ==
    /\ run = "serving" /\ changes < MaxChanges
    /\ \A z \in Zones : Len(queue[z]) < MaxQueue
    /\ Len(toDb) < MaxQueue
    /\ banned' = Bans(banned, r) /\ guilds' = Memory(guilds, r)
    /\ queue' = [z \in Zones |-> IF sub[z] = "subscribed" THEN Append(queue[z], r) ELSE queue[z]]
    /\ toDb' = IF link /\ r.kind # "unban" THEN Append(toDb, r) ELSE toDb
    /\ changes' = changes + 1
    /\ UNCHANGED <<run, worker, restored, link, late, dbBans, dbMembers, sub, zoneBans, players, crashes>>

Change(r) ==
    /\ run = "serving" /\ changes < MaxChanges
    /\ \A z \in Zones : Len(queue[z]) < MaxQueue
    /\ Len(toDb) < MaxQueue
    /\ banned' = Bans(banned, r) /\ guilds' = Memory(guilds, r)
    /\ queue' = [z \in Zones |-> IF sub[z] = "subscribed" THEN Append(queue[z], r) ELSE queue[z]]
    /\ toDb' = IF link THEN Append(toDb, r) ELSE toDb
    /\ changes' = changes + 1
    /\ UNCHANGED <<run, worker, restored, link, late, dbBans, dbMembers, sub, zoneBans, players, crashes>>

-----------------------------------------------------------------------------
(* The persistence node *)

Stores(r) == dbBans' = Bans(dbBans, r) /\ dbMembers' = storeSocial(dbMembers, r)

Store ==
    /\ toDb # <<>>
    /\ Stores(Head(toDb))
    /\ toDb' = Tail(toDb)
    /\ UNCHANGED <<node, late, zones, players, counters>>

StoreLate ==
    /\ late # <<>>
    /\ Stores(Head(late))
    /\ late' = Tail(late)
    /\ UNCHANGED <<node, toDb, zones, players, counters>>

(* The persistence node restarts: the social node does not dial again. *)
LinkBreaks ==
    /\ link /\ crashes < MaxCrashes
    /\ link' = FALSE /\ toDb' = <<>>
    /\ crashes' = crashes + 1
    /\ UNCHANGED <<run, banned, guilds, worker, restored, late, dbBans, dbMembers, zones, players, changes>>

-----------------------------------------------------------------------------
(* The zones *)

(* A zone dials once, when it starts, and waits in the backlog. *)
ZoneStarts(z) ==
    /\ sub[z] = "none"
    /\ sub' = [sub EXCEPT ![z] = IF run = "down" THEN "lost" ELSE "waiting"]
    /\ UNCHANGED <<node, database, queue, zoneBans, players, counters>>

ZoneStops(z) ==
    /\ sub[z] # "none" /\ crashes < MaxCrashes
    /\ sub' = [sub EXCEPT ![z] = "none"]
    /\ queue' = [queue EXCEPT ![z] = <<>>]
    /\ zoneBans' = [zoneBans EXCEPT ![z] = {}]
    /\ crashes' = crashes + 1
    /\ UNCHANGED <<node, database, players, changes>>

(* sendStateTo: the bans in force, as the records that make them. *)
sendStateTo == SetToSeq(Records({"ban"}, banned))

(* A subscriber is accepted when the state to replay has been loaded. *)
Accept_early(z) ==
    /\ run # "down" /\ sub[z] = "waiting"
    /\ sub' = [sub EXCEPT ![z] = "subscribed"]
    /\ queue' = [queue EXCEPT ![z] = sendStateTo]
    /\ UNCHANGED <<node, database, zoneBans, players, counters>>

Accept(z) ==
    /\ run = "serving" /\ sub[z] = "waiting"
    /\ sub' = [sub EXCEPT ![z] = "subscribed"]
    /\ queue' = [queue EXCEPT ![z] = sendStateTo]
    /\ UNCHANGED <<node, database, zoneBans, players, counters>>

(* One record of the social node a tick. *)
ZoneReads(z) ==
    /\ queue[z] # <<>>
    /\ zoneBans' = [zoneBans EXCEPT ![z] = Bans(@, Head(queue[z]))]
    /\ queue' = [queue EXCEPT ![z] = Tail(@)]
    /\ UNCHANGED <<node, database, sub, players, counters>>

-----------------------------------------------------------------------------
(* The players *)

PlayerConnects(c, a) ==
    /\ run = "serving" /\ who[c] = NoOne
    /\ who' = [who EXCEPT ![c] = a]
    /\ UNCHANGED <<node, database, zones, named, liars, counters>>

(* handleChat: a connection that speaks is known by the uuid in its last   *)
(* message.  Nobody checks that the uuid is the player's own.              *)
Chat(c, a) ==
    /\ who[c] # NoOne
    /\ named' = [named EXCEPT ![c] = a]
    /\ liars' = IF a = who[c] THEN liars ELSE liars \cup {c}
    /\ UNCHANGED <<node, database, zones, who, counters>>

PlayerCloses_named(c) ==
    /\ who[c] # NoOne
    /\ who' = [who EXCEPT ![c] = NoOne]
    /\ liars' = liars \ {c}
    /\ UNCHANGED <<node, database, zones, named, counters>>

PlayerCloses(c) ==
    /\ who[c] # NoOne
    /\ who' = [who EXCEPT ![c] = NoOne]
    /\ named' = [named EXCEPT ![c] = NoOne]
    /\ liars' = liars \ {c}
    /\ UNCHANGED <<node, database, zones, counters>>

sharesGuild(a, b) == \E g \in Guilds : <<g, a>> \in guilds /\ <<g, b>> \in guilds

(* broadcastToGuild: the connections, other than its own, that hear what   *)
(* is said under a name.                                                   *)
GuildAudience(a) ==
    {c \in Conns : who[c] # NoOne /\ named[c] # NoOne /\ sharesGuild(a, named[c])}

-----------------------------------------------------------------------------
Next ==
    \/ Crash \/ Start \/ LinkFails \/ LinkReady \/ RestoreDeadline \/ MergeRestored
    \/ \E r \in Changes : Change(r)
    \/ Store \/ StoreLate \/ LinkBreaks
    \/ \E z \in Zones : ZoneStarts(z) \/ ZoneStops(z) \/ Accept(z) \/ ZoneReads(z)
    \/ \E c \in Conns : PlayerCloses(c) \/ \E a \in Accounts : PlayerConnects(c, a) \/ Chat(c, a)

Spec == Init /\ [][Next]_vars

(* The node's loop turns every 200 ms and accepts who is waiting, its      *)
(* supervisor starts it again, and its clock runs.                         *)
FairSpec ==
    /\ Spec
    /\ WF_vars(Start) /\ WF_vars(RestoreDeadline \/ MergeRestored)
    /\ \A z \in Zones : WF_vars(Accept(z)) /\ WF_vars(ZoneReads(z))

-----------------------------------------------------------------------------
(* Properties *)

(* What the records of q make of the bans S, and of the members S of the   *)
(* database: whoever is in S, or is added by a record, and is removed by   *)
(* no record after that.                                                   *)
BansAfter(S, q) ==
    {a \in Accounts : \E i \in 0..Len(q) :
        /\ IF i = 0 THEN a \in S ELSE a \in Bans({}, q[i])
        /\ \A j \in i + 1..Len(q) : a \in Bans({a}, q[j])}

MembersAfter(S, q) ==
    {m \in Members : \E i \in 0..Len(q) :
        /\ IF i = 0 THEN m \in S ELSE m \in storeSocial({}, q[i])
        /\ \A j \in i + 1..Len(q) : m \in storeSocial({m}, q[j])}

(* A subscribed zone that has read its link bans exactly whom the social   *)
(* node bans, whatever was decided before it arrived ("a subscriber that   *)
(* connects late used to learn nothing"), while the node was restoring     *)
(* ("do not serve state you have not loaded") or since.                    *)
ZoneFollows ==
    \A z \in Zones : sub[z] = "subscribed" => BansAfter(zoneBans[z], queue[z]) = banned

(* "A restart of the social node unbanned every account": with a link to   *)
(* persistence and a complete restore, the bans of the database, once it   *)
(* has stored what is on its way, are those in force, and no member of a   *)
(* guild is missing from it.                                               *)
SurvivesRestart ==
    run = "serving" /\ link /\ restored.whole =>
        /\ BansAfter(dbBans, toDb) = banned
        /\ guilds \subseteq MembersAfter(dbMembers, toDb)

(* What is said to a guild reaches a player of another guild only if he    *)
(* has spoken under the name of a member on that very connection: a        *)
(* descriptor that is used again does not inherit the name of the player   *)
(* who left, and one that has only listened hears nothing                  *)
(* (broadcastToGuild, "erring towards silence is deliberate").  Names are  *)
(* claims: against a player who uses another's name there is no check.     *)
NoEavesdropper ==
    \A a \in Accounts : \A c \in GuildAudience(a) : c \in liars \/ sharesGuild(a, who[c])

(* "A database that never answers must not keep the social plane offline   *)
(* for ever": a zone that waits is served, or loses its connection.        *)
BacklogIsServed ==
    \A z \in Zones : sub[z] = "waiting" ~> sub[z] # "waiting"
==============================================================================
