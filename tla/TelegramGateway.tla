--------------------------- MODULE TelegramGateway ---------------------------
(* Webhooks: Telegram delivers an update at the address registered for a bot,  *)
(* at least once, and each delivery is a goroutine that looks for the session  *)
(* of the user, creates it or refuses the user, and hands the message to it.   *)
(*                                                                             *)
(* A bot is its token, and its address in the file is named by its token too.  *)
(* A session is named by the delivery that creates it.  Of RuntimeConfig only  *)
(* the list of bots that every service sees is taken, of Session only what     *)
(* comes of HandleUserMessage: the queue of the session is not modelled here.  *)
(* A session is kept by its user and looked for by the chat when a reply is    *)
(* due: a private chat has the number of its user, a group's is no user's.     *)
EXTENDS Naturals, FiniteSets, SequencesExt

CONSTANTS
    Updates, Users, Groups, Tokens,
    From,          \* the user who sends an update, msg.From.ID
    Chat,          \* the chat he sends it in, msg.Chat.ID
    Addressed,     \* the bot he sends it to
    Kind,          \* "text", "command", or "other" (no message in the update)
    Deliveries,    \* bound: every delivery happens once
    FileBots,      \* the bots of the configuration file
    BotLists,      \* the lists an admin may save
    NoBot, NoUpdate, NoSession,
    MaxStarts, MaxSaves, MaxFailures

ASSUME GatewayAssumption ==
    /\ From \in [Updates -> Users] /\ Addressed \in [Updates -> Tokens]
    /\ Groups \cap Users = {} /\ Chat \in [Updates -> Users \cup Groups]
    /\ \A u \in Updates : Chat[u] = From[u] \/ Chat[u] \in Groups
    /\ Kind \in [Updates -> {"text", "command", "other"}]
    /\ FileBots \in Seq(Tokens) /\ IsInjective(FileBots)
    /\ \A list \in BotLists : list \in Seq(Tokens) /\ IsInjective(list)
    /\ NoBot \notin Tokens /\ NoUpdate \notin Updates
    /\ NoSession \notin Deliveries \cup Users \cup Groups
    /\ MaxStarts \in Nat /\ MaxSaves \in Nat /\ MaxFailures \in Nat

VARIABLES
    up,            \* the server serves
    seedBots,      \* config.RuntimeSeed.Telegram.Bots
    bots,          \* TelegramService.bots
    hook,          \* Telegram: the address registered for each bot
    acked,         \* Telegram: updates answered with status 200
    upd, pc, tok, sess,  \* of each delivery: update, place, botConfig, sessionID
    row,           \* table sessions: the user and the bot of each session
    cached,        \* SessionService.sessions
    known, banned, \* table telegram_users: rows, and those with is_banned
    accepted,      \* observer: updates put into the queue of a session
    via,           \* observer: the bot each delivery replied with
    lists,         \* observer: the two lists of bots each delivery found
    notes,         \* observer: what the properties except
    starts, saves, failures

telegram == <<hook, acked>>
service == <<up, seedBots, bots>>
delivery == <<upd, pc, tok, sess>>
tables == <<row, known, banned>>
seen == <<accepted, via, lists, notes>>
bounds == <<starts, saves, failures>>
vars == <<telegram, service, delivery, tables, cached, seen, bounds>>

NoRow == [user |-> NoSession, bot |-> NoBot]

\* The instances and the configuration, which are used with the same index.
Lists == [made |-> bots, listed |-> seedBots]

Working == {"ban", "cache", "lookup", "insert", "upsert", "store", "hand", "reply"}

TypeOK ==
    /\ up \in BOOLEAN
    /\ seedBots \in Seq(Tokens) /\ bots \in Seq(Tokens)
    /\ hook \in [Tokens -> Tokens \cup {NoBot}] /\ acked \subseteq Updates
    /\ upd \in [Deliveries -> Updates \cup {NoUpdate}]
    /\ pc \in [Deliveries -> Working \cup {"fresh", "ok", "end"}]
    /\ tok \in [Deliveries -> Tokens \cup {NoBot}]
    /\ sess \in [Deliveries -> Deliveries \cup {NoSession}]
    /\ row \in [Deliveries -> [user : Users, bot : Tokens] \cup {NoRow}]
    /\ cached \subseteq {s \in Deliveries : row[s] # NoRow}
    /\ banned \subseteq known /\ known \subseteq Users
    /\ accepted \subseteq Updates
    /\ via \in [Deliveries -> Tokens \cup {NoBot}]
    /\ lists \in [Deliveries -> [made : Seq(Tokens), listed : Seq(Tokens)]]
    /\ notes \in [raced : SUBSET Users, dropped : SUBSET Updates,
                  astray : SUBSET Deliveries, everBanned : SUBSET Users,
                  afterBan : SUBSET Deliveries, unchecked : SUBSET Deliveries]
    /\ starts \in 0..MaxStarts /\ saves \in 0..MaxSaves /\ failures \in 0..MaxFailures

Init ==
    /\ up = FALSE /\ seedBots = FileBots /\ bots = <<>>
    /\ hook = [k \in Tokens |-> NoBot] /\ acked = {}
    /\ upd = [d \in Deliveries |-> NoUpdate] /\ pc = [d \in Deliveries |-> "fresh"]
    /\ tok = [d \in Deliveries |-> NoBot] /\ sess = [d \in Deliveries |-> NoSession]
    /\ row = [d \in Deliveries |-> NoRow] /\ cached = {}
    /\ known = {} /\ banned = {}
    /\ accepted = {} /\ via = [d \in Deliveries |-> NoBot]
    /\ lists = [d \in Deliveries |-> [made |-> <<>>, listed |-> <<>>]]
    /\ notes = [raced |-> {}, dropped |-> {}, astray |-> {}, everBanned |-> {},
                afterBan |-> {}, unchecked |-> {}]
    /\ starts = 0 /\ saves = 0 /\ failures = 0

-----------------------------------------------------------------------------
(* Helpers.                                                                    *)

User(d) == From[upd[d]]

SessionsOf(user) == {s \in Deliveries : row[s].user = user}

(* A step of delivery d that changes nothing of the server.                    *)
Goto(d, place) == pc' = [pc EXCEPT ![d] = place]

(* A call of the database or of Telegram that may fail.                        *)
MayFail(failed) ==
    /\ failed => failures < MaxFailures
    /\ failures' = IF failed THEN failures + 1 ELSE failures

(* The routes are made once, from the file: the address of bot k leads to the  *)
(* index of k in the file.                                                     *)
RouteOf(k) == CHOOSE i \in DOMAIN FileBots : FileBots[i] = k

(* The address of bot k leads to its instance.                                 *)
LeadsHome(k) ==
    \E i \in DOMAIN bots : i \in DOMAIN FileBots /\ FileBots[i] = hook[k] /\ bots[i] = k

-----------------------------------------------------------------------------
(* The server.                                                                 *)

(* NewTelegramService makes an instance of every bot it can, and skips the     *)
(* others; SetWebhook registers for the i-th instance the address of the i-th  *)
(* bot of the configuration.  Then the HTTP servers start.                     *)
SetWebhook(made, registered) ==
    [k \in Tokens |->
        IF \E i \in registered : made[i] = k
        THEN FileBots[CHOOSE i \in registered : made[i] = k] ELSE hook[k]]

Start ==
    /\ ~up /\ starts < MaxStarts
    /\ starts' = starts + 1
    /\ up' = TRUE /\ seedBots' = FileBots
    /\ \E n \in 0..Len(FileBots) : \E made \in [1..n -> DOMAIN FileBots] :
          /\ \A i, j \in 1..n : i < j => made[i] < made[j]
          /\ bots' = [i \in 1..n |-> FileBots[made[i]]]
          /\ \E registered \in SUBSET (1..n) :
                /\ hook' = SetWebhook(bots', registered)
                /\ failures' = failures + Len(FileBots) - Cardinality(registered)
                /\ failures' <= MaxFailures
    /\ UNCHANGED <<acked, delivery, tables, cached, seen, saves>>

(* UpdateConfig assigns another list of bots under the running service.        *)
AssignSeed ==
    /\ up /\ saves < MaxSaves
    /\ saves' = saves + 1
    /\ \E list \in BotLists : seedBots' = list
    /\ UNCHANGED <<telegram, up, bots, delivery, tables, cached, seen, starts, failures>>

(* The server ends: its goroutines and its memory are gone.                    *)
Stop ==
    /\ up /\ up' = FALSE
    /\ cached' = {}
    /\ pc' = [d \in Deliveries |-> IF pc[d] = "fresh" THEN "fresh" ELSE "end"]
    /\ UNCHANGED <<telegram, seedBots, bots, upd, tok, sess, tables, seen, bounds>>

(* BanTelegramUser: an UPDATE of the user's row.                               *)
Ban(user) ==
    /\ user \in known \ banned
    /\ banned' = banned \cup {user}
    /\ notes' = [notes EXCEPT !.everBanned = @ \cup {user}]
    /\ UNCHANGED <<telegram, service, delivery, row, known, cached, accepted, via, lists, bounds>>

-----------------------------------------------------------------------------
(* A delivery.                                                                 *)

(* Telegram delivers an update it has no answer for, perhaps while an earlier  *)
(* delivery of it is still at work.  HandleUpdateForBot: an index without an   *)
(* instance is an error, an update without a message is done, an index without *)
(* a configuration panics, which the HTTP server answers as an error.          *)
Receive(d, u) ==
    /\ up /\ pc[d] = "fresh" /\ u \notin acked
    /\ hook[Addressed[u]] \in Range(FileBots)
    /\ LET i == RouteOf(hook[Addressed[u]])
       IN  /\ tok' = [tok EXCEPT ![d] = IF i <= Len(seedBots) THEN seedBots[i] ELSE NoBot]
           /\ Goto(d, IF i > Len(bots) THEN "end"
                      ELSE IF Kind[u] = "other" THEN "ok"
                      ELSE IF i > Len(seedBots) THEN "end"
                      ELSE IF Kind[u] = "command" THEN "reply" ELSE "ban")
    /\ upd' = [upd EXCEPT ![d] = u]
    /\ lists' = [lists EXCEPT ![d] = Lists]
    /\ notes' = [notes EXCEPT !.astray = IF LeadsHome(Addressed[u]) THEN @ ELSE @ \cup {d},
                              !.afterBan = IF From[u] \in notes.everBanned
                                           THEN @ \cup {d} ELSE @]
    /\ UNCHANGED <<telegram, service, sess, tables, cached, accepted, via, bounds>>

(* handleMessage: a failing check of the ban lets the user pass.               *)
CheckBan(d) ==
    /\ pc[d] = "ban"
    /\ \E failed \in BOOLEAN :
          /\ MayFail(failed)
          /\ Goto(d, IF ~failed /\ User(d) \in banned THEN "reply" ELSE "cache")
          /\ notes' = [notes EXCEPT !.unchecked = IF failed THEN @ \cup {d} ELSE @]
    /\ UNCHANGED <<telegram, service, upd, tok, sess, tables, cached, accepted, via,
                   lists, starts, saves>>

(* GetSessionByTelegramUser: any session of the user in the map.               *)
LookInCache(d) ==
    /\ pc[d] = "cache"
    /\ LET found == cached \cap SessionsOf(User(d))
       IN  \/ \E s \in found : sess' = [sess EXCEPT ![d] = s] /\ Goto(d, "hand")
           \/ found = {} /\ Goto(d, "lookup") /\ UNCHANGED sess
    /\ UNCHANGED <<telegram, service, upd, tok, tables, cached, seen, bounds>>

(* Mutant: the error is taken for the absence of a session.                    *)
LookInTableIgnoringErrors(d) ==
    /\ pc[d] = "lookup"
    /\ \/ /\ MayFail(TRUE) /\ Goto(d, "insert")
          /\ UNCHANGED <<sess, cached, notes>>
       \/ \E s \in SessionsOf(User(d)) :
             /\ sess' = [sess EXCEPT ![d] = s] /\ cached' = cached \cup {s}
             /\ Goto(d, "hand") /\ UNCHANGED <<notes, failures>>
       \/ /\ SessionsOf(User(d)) = {} /\ Goto(d, "insert")
          /\ notes' = IF \E e \in Deliveries \ {d} : pc[e] = "insert" /\ User(e) = User(d)
                      THEN [notes EXCEPT !.raced = @ \cup {User(d)}] ELSE notes
          /\ UNCHANGED <<sess, cached, failures>>
    /\ UNCHANGED <<telegram, service, upd, tok, tables, accepted, via, lists, starts, saves>>

(* Then any active row of his, which GetSession loads; then a new session.     *)
LookInTable(d) ==
    /\ pc[d] = "lookup"
    /\ \/ /\ MayFail(TRUE) /\ Goto(d, "reply")
          /\ UNCHANGED <<sess, cached, notes>>
       \/ \E s \in SessionsOf(User(d)) :
             /\ sess' = [sess EXCEPT ![d] = s] /\ cached' = cached \cup {s}
             /\ Goto(d, "hand") /\ UNCHANGED <<notes, failures>>
       \/ /\ SessionsOf(User(d)) = {} /\ Goto(d, "insert")
          /\ notes' = IF \E e \in Deliveries \ {d} : pc[e] = "insert" /\ User(e) = User(d)
                      THEN [notes EXCEPT !.raced = @ \cup {User(d)}] ELSE notes
          /\ UNCHANGED <<sess, cached, failures>>
    /\ UNCHANGED <<telegram, service, upd, tok, tables, accepted, via, lists, starts, saves>>

(* CreateSession: the row of the session,                                      *)
InsertSession(d) ==
    /\ pc[d] = "insert"
    /\ \/ /\ row' = [row EXCEPT ![d] = [user |-> User(d), bot |-> tok[d]]]
          /\ Goto(d, "upsert") /\ UNCHANGED failures
       \/ MayFail(TRUE) /\ Goto(d, "reply") /\ UNCHANGED row
    /\ UNCHANGED <<telegram, service, upd, tok, sess, known, banned, cached, seen,
                   starts, saves>>

(* Mutant: the upsert writes every column of the row, is_banned among them.    *)
UpsertUserLiftsBan(d) ==
    /\ pc[d] = "upsert"
    /\ known' = known \cup {User(d)} /\ banned' = banned \ {User(d)}
    /\ Goto(d, "store")
    /\ UNCHANGED <<telegram, service, upd, tok, sess, row, cached, seen, bounds>>

(* the row of the user, whose failure is only logged,                          *)
UpsertUser(d) ==
    /\ pc[d] = "upsert"
    /\ \E failed \in BOOLEAN :
          /\ MayFail(failed)
          /\ known' = IF failed THEN known ELSE known \cup {User(d)}
    /\ Goto(d, "store")
    /\ UNCHANGED <<telegram, service, upd, tok, sess, row, banned, cached, seen,
                   starts, saves>>

(* and the session in the map.                                                 *)
StoreSession(d) ==
    /\ pc[d] = "store"
    /\ cached' = cached \cup {d}
    /\ sess' = [sess EXCEPT ![d] = d]
    /\ Goto(d, "hand")
    /\ UNCHANGED <<telegram, service, upd, tok, tables, seen, bounds>>

(* Mutant: an error of HandleUserMessage is only logged.                       *)
HandOverSilently(d) ==
    /\ pc[d] = "hand"
    /\ \/ /\ accepted' = accepted \cup {upd[d]}
          /\ Goto(d, "ok") /\ UNCHANGED <<notes, failures>>
       \/ /\ notes' = [notes EXCEPT !.dropped = @ \cup {upd[d]}]
          /\ Goto(d, "ok") /\ UNCHANGED <<accepted, failures>>
       \/ MayFail(TRUE) /\ Goto(d, "ok") /\ UNCHANGED <<accepted, notes>>
    /\ UNCHANGED <<telegram, service, upd, tok, sess, tables, cached, via, lists,
                   starts, saves>>

(* HandleUserMessage of the session: the message is put into its queue; or the *)
(* queue is full, as it is some time after its loop has ended, which is logged *)
(* and no error; or the history cannot be written, and the user is told.       *)
HandOver(d) ==
    /\ pc[d] = "hand"
    /\ \/ /\ accepted' = accepted \cup {upd[d]}
          /\ Goto(d, "ok") /\ UNCHANGED <<notes, failures>>
       \/ /\ notes' = [notes EXCEPT !.dropped = @ \cup {upd[d]}]
          /\ Goto(d, "ok") /\ UNCHANGED <<accepted, failures>>
       \/ MayFail(TRUE) /\ Goto(d, "reply") /\ UNCHANGED <<accepted, notes>>
    /\ UNCHANGED <<telegram, service, upd, tok, sess, tables, cached, via, lists,
                   starts, saves>>

(* Mutant: the instance that has the token of the session's bot.               *)
BotsForChatByToken(chat) ==
    LET found(s) == {k \in Range(bots) : k = row[s].bot}
    IN  IF SessionsOf(chat) = {} THEN {bots[1]}
        ELSE UNION {IF found(s) = {} THEN {bots[1]} ELSE found(s) : s \in SessionsOf(chat)}

(* getBotForChat: the instance at the index of the session's bot in the        *)
(* configuration, or the first instance; the number of the chat is taken for   *)
(* that of the user, so that a group has no session.                           *)
BotsForChat(chat) ==
    LET at(k) == {i \in DOMAIN seedBots : seedBots[i] = k /\ i <= Len(bots)}
        found(s) == {bots[i] : i \in at(row[s].bot)}
    IN  IF SessionsOf(chat) = {} THEN {bots[1]}
        ELSE UNION {IF found(s) = {} THEN {bots[1]} ELSE found(s) : s \in SessionsOf(chat)}

(* sendReply: when the session cannot be read the first instance replies, and  *)
(* a reply that cannot be sent is an error of the handler.                     *)
SendReply(d) ==
    /\ pc[d] = "reply"
    /\ \/ /\ \E k \in BotsForChat(Chat[upd[d]]) : via' = [via EXCEPT ![d] = k]
          /\ Goto(d, "ok") /\ UNCHANGED failures
       \/ /\ MayFail(TRUE)
          /\ via' = [via EXCEPT ![d] = bots[1]] /\ Goto(d, "ok")
       \/ MayFail(TRUE) /\ Goto(d, "end") /\ UNCHANGED via
    /\ UNCHANGED <<telegram, service, upd, tok, sess, tables, cached, accepted, lists,
                   notes, starts, saves>>

(* HandleWebhookForBot answers 200; the answer may be lost or late.            *)
Answer(d) ==
    /\ pc[d] = "ok"
    /\ \/ acked' = acked \cup {upd[d]} /\ UNCHANGED failures
       \/ MayFail(TRUE) /\ UNCHANGED acked
    /\ Goto(d, "end")
    /\ UNCHANGED <<hook, service, upd, tok, sess, tables, cached, seen, starts, saves>>

-----------------------------------------------------------------------------
Step(d) == \/ CheckBan(d) \/ LookInCache(d) \/ LookInTable(d) \/ InsertSession(d)
           \/ UpsertUser(d) \/ StoreSession(d) \/ HandOver(d) \/ SendReply(d) \/ Answer(d)

Next == \/ Start \/ AssignSeed \/ Stop
        \/ \E user \in Users : Ban(user)
        \/ \E d \in Deliveries : Step(d) \/ \E u \in Updates : Receive(d, u)

Spec == Init /\ [][Next]_vars

-----------------------------------------------------------------------------
(* Properties.                                                                 *)

(* Telegram forgets an update only when its message is in the queue of a       *)
(* session, its sender got a reply, or it has none; the one message that is    *)
(* lost without a word is one for which that queue was full.  No failure of a  *)
(* call, no crash, no lost answer and no second delivery loses another.        *)
AckedUpdateIsAnswered ==
    \A u \in acked : \/ u \in accepted \cup notes.dropped \/ Kind[u] = "other"
                     \/ \E d \in Deliveries : upd[d] = u /\ via[d] # NoBot

(* A user has one session, whatever fails and whenever the server stops, but   *)
(* for two deliveries that both looked for it before either created it.        *)
OneSessionPerUser ==
    \A user \in Users : Cardinality(SessionsOf(user)) <= 1 \/ user \in notes.raced

(* The tables and what the deliveries know of them are sound.                  *)
SessionsAreSound == TypeOK /\ OneSessionPerUser

(* A message that arrives after its sender was banned gets no further than the *)
(* check, unless the check fails: no session created meanwhile lifts the ban.  *)
BannedIsRefused ==
    \A d \in notes.afterBan \ notes.unchecked :
        pc[d] \notin {"cache", "lookup", "insert", "upsert", "store", "hand"}

(* A session is with the bot its user wrote to when the instances were those   *)
(* of the configuration.  And whatever bots were skipped at the start, and     *)
(* whatever list was saved over the one in use: while the lists are those that *)
(* the user's sessions were made under, the two shifts cancel, and in a        *)
(* private chat he is answered by the bot that he wrote to at the time.  (In a *)
(* group nobody has a session, and the first instance answers.)                *)
UserKeepsHisBot ==
    [][\A d \in Deliveries :
          /\ row'[d] # row[d] /\ d \notin notes.astray /\ lists[d].made = lists[d].listed
                => row'[d].bot = Addressed[upd[d]]
          /\ via'[d] # via[d] /\ failures' = failures /\ Chat[upd[d]] = User(d)
             /\ SessionsOf(User(d)) # {}
             /\ (\A s \in SessionsOf(User(d)) : s \notin notes.astray /\ lists[s] = Lists)
                => \E s \in SessionsOf(User(d)) : via'[d] = Addressed[upd[s]]]_vars
=============================================================================
