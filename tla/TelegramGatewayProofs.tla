------------------------- MODULE TelegramGatewayProofs -------------------------
(* Proofs about TelegramGateway, for any number of users, bots, updates and    *)
(* deliveries, failing calls and starts of the server.  At says what a         *)
(* delivery holds at its place, AnsweredInv that one about to be acknowledged  *)
(* has done its work, BanInv that a ban is not lifted, RaceInv that a user's   *)
(* second session takes two deliveries that looked for the first one at the    *)
(* same time, and BotInv that a delivery, and the session it creates, work for *)
(* the bot at one index of the two lists the delivery found.                   *)
EXTENDS TelegramGateway, SequenceTheorems, FiniteSetTheorems, TLAPS

Busy == Working \cup {"ok"}

At(d) ==
    /\ pc[d] # "fresh" => upd[d] \in Updates
    /\ pc[d] = "fresh" => via[d] = NoBot
    /\ pc[d] \in Busy => up /\ Len(bots) > 0
    /\ pc[d] \in Working => tok[d] \in Tokens
    /\ pc[d] \in {"upsert", "store"} => row[d] # NoRow
    /\ row[d] # NoRow => pc[d] \notin {"fresh", "ban", "cache", "lookup", "insert"}

DeliveryInv == TypeOK /\ \A d \in Deliveries : At(d)

Answered(u) == \/ u \in accepted \cup notes.dropped \/ Kind[u] = "other"
               \/ \E d \in Deliveries : upd[d] = u /\ via[d] # NoBot

AnsweredInv == /\ AckedUpdateIsAnswered
               /\ \A d \in Deliveries : pc[d] = "ok" => Answered(upd[d])

\* A ban is for ever, and so is what is known of who was banned when a message
\* of his arrived.
BanInv == /\ notes.everBanned \subseteq banned
          /\ \A d \in notes.afterBan : pc[d] # "fresh" /\ User(d) \in notes.everBanned
          /\ BannedIsRefused

RaceInv ==
    /\ \A s, t \in Deliveries :
          row[s] # NoRow /\ row[t] # NoRow /\ row[s].user = row[t].user
             /\ row[s].user \notin notes.raced => s = t
    /\ \A d \in Deliveries : pc[d] = "insert" /\ User(d) \notin notes.raced
          => \A s \in Deliveries : row[s].user # User(d)
    /\ \A d, e \in Deliveries :
          pc[d] = "insert" /\ pc[e] = "insert" /\ User(d) = User(e)
             /\ User(d) \notin notes.raced => d = e

\* In the lists that delivery d found, b is configured where the instance of the
\* bot is that the update of d was sent to.
ServedAs(d, b) == \E i \in DOMAIN lists[d].made : /\ i \in DOMAIN lists[d].listed
                                                 /\ lists[d].made[i] = Addressed[upd[d]]
                                                 /\ lists[d].listed[i] = b

BotInv == /\ IsInjective(seedBots)
          /\ \A d \in Deliveries \ notes.astray :
                /\ pc[d] \in Working => ServedAs(d, tok[d])
                /\ row[d] # NoRow => ServedAs(d, row[d].bot)

------------------------------------------------------------------------------
Places == Working \cup {"fresh", "ok", "end"}
Notes == [raced : SUBSET Users, dropped : SUBSET Updates, astray : SUBSET Deliveries,
          everBanned : SUBSET Users, afterBan : SUBSET Deliveries,
          unchecked : SUBSET Deliveries]
ListsType == [Deliveries -> [made : Seq(Tokens), listed : Seq(Tokens)]]

\* A delivery goes from place to place.
LEMMA PlacesAreKept ==
    ASSUME TypeOK, NEW d \in Deliveries, NEW x \in Places, pc' = [pc EXCEPT ![d] = x]
    PROVE  pc' \in [Deliveries -> Places]
BY DEF TypeOK, Places

\* A call that may fail keeps to the bound.
LEMMA FailuresAreBounded ==
    ASSUME TypeOK, GatewayAssumption, NEW failed \in BOOLEAN, MayFail(failed)
    PROVE  failures' \in 0..MaxFailures
BY DEF TypeOK, MayFail

\* The address of a bot leads to its index in the file.
LEMMA RouteLeadsToBot ==
    ASSUME TypeOK, GatewayAssumption, NEW k, k \in Range(FileBots)
    PROVE  RouteOf(k) \in 1..Len(FileBots) /\ FileBots[RouteOf(k)] = k
<1>1. \E i \in DOMAIN FileBots : FileBots[i] = k
  BY DEF Range
<1>2. DOMAIN FileBots = 1..Len(FileBots)
  OBVIOUS
<1> QED BY <1>1 DEF RouteOf

\* What becomes of a message that is handed over.
LEMMA HandOverFinds ==
    ASSUME DeliveryInv, NEW d \in Deliveries, HandOver(d)
    PROVE  /\ pc[d] = "hand" /\ pc' = [pc EXCEPT ![d] = pc'[d]] /\ pc'[d] \in {"ok", "reply"}
           /\ accepted \subseteq accepted'
           /\ notes' = [notes EXCEPT !.dropped = notes'.dropped]
           /\ notes.dropped \subseteq notes'.dropped
           /\ notes'.raced = notes.raced /\ notes'.astray = notes.astray
           /\ notes'.everBanned = notes.everBanned /\ notes'.afterBan = notes.afterBan
           /\ notes'.unchecked = notes.unchecked
           /\ pc'[d] = "ok" => upd[d] \in accepted' \cup notes'.dropped
           /\ UNCHANGED <<telegram, service, upd, tok, sess, tables, cached, via, lists,
                          starts, saves>>
<1>1. /\ pc[d] = "hand" /\ (Goto(d, "ok") \/ Goto(d, "reply"))
      /\ UNCHANGED <<telegram, service, upd, tok, sess, tables, cached, via, lists, starts, saves>>
  BY DEF HandOver
<1>2. pc' = [pc EXCEPT ![d] = pc'[d]] /\ pc'[d] \in {"ok", "reply"}
  BY <1>1 DEF Goto, DeliveryInv, TypeOK
<1>3. notes \in Notes
  BY DEF DeliveryInv, TypeOK, Notes
<1>4. notes' = notes \/ notes' = [notes EXCEPT !.dropped = @ \cup {upd[d]}]
  BY DEF HandOver
<1>5. /\ notes' = [notes EXCEPT !.dropped = notes'.dropped]
      /\ notes.dropped \subseteq notes'.dropped
      /\ notes'.raced = notes.raced /\ notes'.astray = notes.astray
      /\ notes'.everBanned = notes.everBanned /\ notes'.afterBan = notes.afterBan
      /\ notes'.unchecked = notes.unchecked
  BY <1>3, <1>4 DEF Notes
<1>6. accepted \subseteq accepted'
  BY DEF HandOver
<1>7. pc'[d] = "ok" => upd[d] \in accepted' \cup notes'.dropped
  <2>1. CASE accepted' = accepted \cup {upd[d]}
    BY <2>1
  <2>2. CASE notes' = [notes EXCEPT !.dropped = @ \cup {upd[d]}]
    BY <2>2, <1>3 DEF Notes
  <2>3. CASE Goto(d, "reply")
    BY <2>3 DEF Goto, DeliveryInv, TypeOK
  <2> QED BY <2>1, <2>2, <2>3 DEF HandOver
<1> QED BY <1>1, <1>2, <1>5, <1>6, <1>7

\* What a delivery that arrives finds.
LEMMA ReceiveFinds ==
    ASSUME DeliveryInv, GatewayAssumption, NEW d \in Deliveries, NEW u \in Updates, Receive(d, u)
    PROVE  LET i == RouteOf(hook[Addressed[u]])
           IN  /\ i \in 1..Len(FileBots) /\ FileBots[i] = hook[Addressed[u]]
               /\ tok' = [tok EXCEPT ![d] = tok'[d]]
               /\ tok'[d] = IF i <= Len(seedBots) THEN seedBots[i] ELSE NoBot
               /\ tok'[d] \in Tokens \cup {NoBot}
               /\ pc[d] = "fresh" /\ pc' = [pc EXCEPT ![d] = pc'[d]]
               /\ pc'[d] \in {"end", "ok", "reply", "ban"}
               /\ pc'[d] = "ok" => Kind[u] = "other"
               /\ pc'[d] \in {"ok", "reply", "ban"} => Len(bots) > 0
               /\ pc'[d] \in {"reply", "ban"} => tok'[d] \in Tokens /\ i <= Len(seedBots)
<1> DEFINE i == RouteOf(hook[Addressed[u]])
<1>1. i \in 1..Len(FileBots) /\ FileBots[i] = hook[Addressed[u]]
  BY RouteLeadsToBot DEF Receive, DeliveryInv
<1>2. Len(seedBots) \in Nat /\ Len(bots) \in Nat /\ i \in Nat /\ i > 0
  BY <1>1
<1>3. i <= Len(seedBots) => seedBots[i] \in Tokens
  BY <1>2 DEF DeliveryInv, TypeOK
<1>4. tok' = [tok EXCEPT ![d] = IF i <= Len(seedBots) THEN seedBots[i] ELSE NoBot]
  BY DEF Receive
<1>5. /\ tok'[d] = IF i <= Len(seedBots) THEN seedBots[i] ELSE NoBot
      /\ tok' = [tok EXCEPT ![d] = tok'[d]]
  BY <1>4 DEF DeliveryInv, TypeOK
<1>6. pc[d] = "fresh" /\ pc' = [pc EXCEPT ![d] =
                                   IF i > Len(bots) THEN "end"
                                   ELSE IF Kind[u] = "other" THEN "ok"
                                   ELSE IF i > Len(seedBots) THEN "end"
                                   ELSE IF Kind[u] = "command" THEN "reply" ELSE "ban"]
  BY DEF Receive, Goto
<1>7. /\ pc'[d] = IF i > Len(bots) THEN "end"
                  ELSE IF Kind[u] = "other" THEN "ok"
                  ELSE IF i > Len(seedBots) THEN "end"
                  ELSE IF Kind[u] = "command" THEN "reply" ELSE "ban"
      /\ pc' = [pc EXCEPT ![d] = pc'[d]]
  BY <1>6 DEF DeliveryInv, TypeOK
<1>8. i > Len(bots) => pc'[d] = "end"
  BY <1>7
<1>9. ~(i > Len(bots)) => Len(bots) > 0
  BY <1>2
<1>10. ~(i > Len(bots)) /\ Kind[u] = "other" => pc'[d] = "ok"
  BY <1>7
<1>11. ~(i > Len(bots)) /\ Kind[u] # "other" /\ i > Len(seedBots) => pc'[d] = "end"
  BY <1>7
<1>12. ~(i > Len(bots)) /\ Kind[u] # "other" /\ ~(i > Len(seedBots))
          => pc'[d] \in {"reply", "ban"} /\ tok'[d] \in Tokens /\ i <= Len(seedBots)
  BY <1>2, <1>3, <1>5, <1>7
<1>13. tok'[d] \in Tokens \cup {NoBot}
  BY <1>3, <1>5
<1> QED BY <1>1, <1>5, <1>6, <1>8, <1>9, <1>10, <1>11, <1>12, <1>13

\* What comes of a look into the table.
LEMMA LookFinds ==
    ASSUME DeliveryInv, GatewayAssumption, NEW d \in Deliveries, LookInTable(d)
    PROVE  /\ pc[d] = "lookup" /\ pc' = [pc EXCEPT ![d] = pc'[d]]
           /\ pc'[d] \in {"reply", "hand", "insert"}
           /\ pc'[d] = "insert" =>
                 /\ SessionsOf(User(d)) = {}
                 /\ \A e \in Deliveries \ {d} : pc[e] = "insert" /\ User(e) = User(d)
                       => User(d) \in notes'.raced
           /\ notes' \in Notes /\ notes.raced \subseteq notes'.raced
           /\ notes'.astray = notes.astray /\ notes'.dropped = notes.dropped /\ notes'.everBanned = notes.everBanned
           /\ notes'.afterBan = notes.afterBan /\ notes'.unchecked = notes.unchecked
           /\ sess' \in [Deliveries -> Deliveries \cup {NoSession}]
           /\ cached' \subseteq {s \in Deliveries : row[s] # NoRow}
           /\ failures' \in 0..MaxFailures
           /\ UNCHANGED <<telegram, service, upd, tok, tables, accepted, via, lists, starts, saves>>
<1>1. pc[d] = "lookup" /\ UNCHANGED <<telegram, service, upd, tok, tables, accepted, via, lists, starts, saves>>
  BY DEF LookInTable
<1>2. User(d) \in Users
  BY <1>1 DEF User, DeliveryInv, At
<1>3. CASE MayFail(TRUE) /\ Goto(d, "reply") /\ UNCHANGED <<sess, cached, notes>>
  <2>1. failures' \in 0..MaxFailures
    BY <1>3, FailuresAreBounded DEF DeliveryInv
  <2> QED BY <1>1, <1>3, <2>1 DEF Goto, DeliveryInv, TypeOK, Notes
<1>4. ASSUME NEW s \in SessionsOf(User(d)),
             sess' = [sess EXCEPT ![d] = s], cached' = cached \cup {s},
             Goto(d, "hand"), UNCHANGED <<notes, failures>>
      PROVE  /\ pc'[d] = "hand" /\ pc' = [pc EXCEPT ![d] = pc'[d]]
             /\ sess' \in [Deliveries -> Deliveries \cup {NoSession}]
             /\ cached' \subseteq {x \in Deliveries : row[x] # NoRow}
             /\ failures' \in 0..MaxFailures /\ notes' = notes /\ notes' \in Notes
  <2>1. s \in Deliveries /\ row[s] # NoRow
    BY <1>2 DEF SessionsOf, NoRow
  <2> QED BY <1>4, <2>1 DEF Goto, DeliveryInv, TypeOK, Notes
<1>5. ASSUME SessionsOf(User(d)) = {}, Goto(d, "insert"),
             notes' = IF \E e \in Deliveries \ {d} : pc[e] = "insert" /\ User(e) = User(d)
                      THEN [notes EXCEPT !.raced = @ \cup {User(d)}] ELSE notes,
             UNCHANGED <<sess, cached, failures>>
      PROVE  /\ pc'[d] = "insert" /\ pc' = [pc EXCEPT ![d] = pc'[d]]
             /\ \A e \in Deliveries \ {d} : pc[e] = "insert" /\ User(e) = User(d)
                   => User(d) \in notes'.raced
             /\ notes' \in Notes /\ notes.raced \subseteq notes'.raced
             /\ notes'.astray = notes.astray /\ notes'.dropped = notes.dropped /\ notes'.everBanned = notes.everBanned
             /\ notes'.afterBan = notes.afterBan /\ notes'.unchecked = notes.unchecked
  <2>1. notes \in Notes
    BY DEF DeliveryInv, TypeOK, Notes
  <2>2. pc'[d] = "insert" /\ pc' = [pc EXCEPT ![d] = pc'[d]]
    BY <1>5 DEF Goto, DeliveryInv, TypeOK
  <2>3. CASE \E e \in Deliveries \ {d} : pc[e] = "insert" /\ User(e) = User(d)
    <3>1. notes' = [notes EXCEPT !.raced = @ \cup {User(d)}]
      BY <1>5, <2>3
    <3> QED BY <1>2, <2>1, <2>2, <3>1 DEF Notes
  <2>4. CASE ~\E e \in Deliveries \ {d} : pc[e] = "insert" /\ User(e) = User(d)
    BY <1>5, <2>1, <2>2, <2>4
  <2> QED BY <2>3, <2>4
<1>6. notes \in Notes /\ sess \in [Deliveries -> Deliveries \cup {NoSession}]
      /\ cached \subseteq {s \in Deliveries : row[s] # NoRow} /\ failures \in 0..MaxFailures
  BY DEF DeliveryInv, TypeOK, Notes
<1>7. \/ MayFail(TRUE) /\ Goto(d, "reply") /\ UNCHANGED <<sess, cached, notes>>
      \/ \E s \in SessionsOf(User(d)) :
            /\ sess' = [sess EXCEPT ![d] = s] /\ cached' = cached \cup {s}
            /\ Goto(d, "hand") /\ UNCHANGED <<notes, failures>>
      \/ /\ SessionsOf(User(d)) = {} /\ Goto(d, "insert")
         /\ notes' = IF \E e \in Deliveries \ {d} : pc[e] = "insert" /\ User(e) = User(d)
                     THEN [notes EXCEPT !.raced = @ \cup {User(d)}] ELSE notes
         /\ UNCHANGED <<sess, cached, failures>>
  BY DEF LookInTable
<1>8. CASE \E s \in SessionsOf(User(d)) :
            /\ sess' = [sess EXCEPT ![d] = s] /\ cached' = cached \cup {s}
            /\ Goto(d, "hand") /\ UNCHANGED <<notes, failures>>
  BY <1>1, <1>4, <1>8
<1>9. CASE /\ SessionsOf(User(d)) = {} /\ Goto(d, "insert")
           /\ notes' = IF \E e \in Deliveries \ {d} : pc[e] = "insert" /\ User(e) = User(d)
                       THEN [notes EXCEPT !.raced = @ \cup {User(d)}] ELSE notes
           /\ UNCHANGED <<sess, cached, failures>>
  BY <1>1, <1>5, <1>6, <1>9
<1> QED BY <1>3, <1>7, <1>8, <1>9

\* A reply is sent by an instance there is.
LEMMA ReplyHasBot ==
    ASSUME DeliveryInv, GatewayAssumption, NEW d \in Deliveries, SendReply(d)
    PROVE  /\ pc[d] = "reply" /\ pc' = [pc EXCEPT ![d] = pc'[d]] /\ failures' \in 0..MaxFailures
           /\ \/ pc'[d] = "end" /\ via' = via
              \/ pc'[d] = "ok" /\ \E k \in Tokens : via' = [via EXCEPT ![d] = k]
           /\ UNCHANGED <<telegram, service, upd, tok, sess, tables, cached, accepted, lists,
                          notes, starts, saves>>
<1>1. /\ pc[d] = "reply"
      /\ UNCHANGED <<telegram, service, upd, tok, sess, tables, cached, accepted, lists, notes, starts, saves>>
  BY DEF SendReply
<1>2. Len(bots) \in Nat /\ Len(bots) > 0
  BY <1>1 DEF DeliveryInv, At, Busy, Working
<1>3. \A i \in 1..Len(bots) : bots[i] \in Tokens
  BY DEF DeliveryInv, TypeOK
<1>4. bots[1] \in Tokens
  BY <1>2, <1>3
<1>5. DOMAIN seedBots = 1..Len(seedBots) /\ Len(seedBots) \in Nat
  OBVIOUS
<1>6. BotsForChat(Chat[upd[d]]) \subseteq Tokens
  <2> DEFINE at(k) == {i \in DOMAIN seedBots : seedBots[i] = k /\ i <= Len(bots)}
             found(s) == {bots[i] : i \in at(row[s].bot)}
  <2>1. ASSUME NEW s PROVE found(s) \subseteq Tokens
    BY <1>3, <1>5
  <2>2. BotsForChat(Chat[upd[d]]) =
          IF SessionsOf(Chat[upd[d]]) = {} THEN {bots[1]}
          ELSE UNION {IF found(s) = {} THEN {bots[1]} ELSE found(s) :
                        s \in SessionsOf(Chat[upd[d]])}
    BY DEF BotsForChat
  <2> HIDE DEF found
  <2> QED BY <1>4, <2>1, <2>2
<1>7. CASE (\E k \in BotsForChat(Chat[upd[d]]) : via' = [via EXCEPT ![d] = k])
           /\ Goto(d, "ok") /\ UNCHANGED failures
  BY ZenonT(30), <1>1, <1>6, <1>7 DEF Goto, DeliveryInv, TypeOK
<1>8. CASE MayFail(TRUE) /\ via' = [via EXCEPT ![d] = bots[1]] /\ Goto(d, "ok")
  <2>1. failures' \in 0..MaxFailures
    BY <1>8, FailuresAreBounded DEF DeliveryInv
  <2> QED BY ZenonT(30), <1>1, <1>4, <1>8, <2>1 DEF Goto, DeliveryInv, TypeOK
<1>9. CASE MayFail(TRUE) /\ Goto(d, "end") /\ UNCHANGED via
  <2>1. failures' \in 0..MaxFailures
    BY <1>9, FailuresAreBounded DEF DeliveryInv
  <2> QED BY <1>1, <1>9, <2>1 DEF Goto, DeliveryInv, TypeOK
<1> QED BY <1>7, <1>8, <1>9 DEF SendReply

------------------------------------------------------------------------------
\* Every step keeps the types.
LEMMA TypeNext ==
    ASSUME DeliveryInv, [Next]_vars, GatewayAssumption
    PROVE  TypeOK'
<1>1. ASSUME Start PROVE TypeOK'
  <2>a. PICK n \in 0..Len(FileBots) : \E made \in [1..n -> DOMAIN FileBots] :
            /\ bots' = [i \in 1..n |-> FileBots[made[i]]]
            /\ \E registered \in SUBSET (1..n) :
                /\ hook' = SetWebhook(bots', registered)
                /\ failures' = failures + Len(FileBots) - Cardinality(registered)
                /\ failures' <= MaxFailures
    BY <1>1, Zenon DEF Start
  <2>b. PICK made \in [1..n -> DOMAIN FileBots] :
            /\ bots' = [i \in 1..n |-> FileBots[made[i]]]
            /\ \E registered \in SUBSET (1..n) :
                /\ hook' = SetWebhook(bots', registered)
                /\ failures' = failures + Len(FileBots) - Cardinality(registered)
                /\ failures' <= MaxFailures
    BY <2>a
  <2>1. PICK registered \in SUBSET (1..n) :
                /\ bots' = [i \in 1..n |-> FileBots[made[i]]]
                /\ hook' = SetWebhook(bots', registered)
                /\ failures' = failures + Len(FileBots) - Cardinality(registered)
                /\ failures' <= MaxFailures
    BY <2>b
  <2>2. DOMAIN FileBots = 1..Len(FileBots) /\ Len(FileBots) \in Nat
    OBVIOUS
  <2>3. \A i \in 1..Len(FileBots) : FileBots[i] \in Tokens
    OBVIOUS
  <2>4. bots' \in [1..n -> Tokens]
    BY <2>1
  <2>5. bots' \in Seq(Tokens)
    BY <2>4
  <2>6. registered \subseteq 1..Len(FileBots)
    OBVIOUS
  <2>7. \A k \in Tokens : (\E i \in registered : bots'[i] = k)
            => (CHOOSE i \in registered : bots'[i] = k) \in registered
    OBVIOUS
  <2>8. hook' \in [Tokens -> Tokens \cup {NoBot}]
    BY <2>1, <2>3, <2>6 DEF SetWebhook, DeliveryInv, TypeOK
  <2>9. Cardinality(registered) \in Nat /\ Cardinality(registered) <= Len(FileBots)
    <3>1. IsFiniteSet(1..Len(FileBots)) /\ Cardinality(1..Len(FileBots)) = Len(FileBots)
      <4>1. Cardinality(1..Len(FileBots)) = IF 1 > Len(FileBots) THEN 0 ELSE Len(FileBots) - 1 + 1
        <5>1. 1 \in Int /\ Len(FileBots) \in Int
          OBVIOUS
        <5> QED BY <5>1, FS_Interval, Zenon
      <4>2. IsFiniteSet(1..Len(FileBots))
        BY FS_Interval
      <4> QED BY <4>1, <4>2
    <3>2. IsFiniteSet(registered) /\ Cardinality(registered) <= Cardinality(1..Len(FileBots))
      BY <2>6, <3>1, FS_Subset
    <3> QED BY <3>1, <3>2, FS_CardinalityType
  <2>10. failures' \in 0..MaxFailures
    BY <2>1, <2>9 DEF DeliveryInv, TypeOK
  <2>11. up' \in BOOLEAN /\ seedBots' \in Seq(Tokens) /\ starts' \in 0..MaxStarts
    BY <1>1 DEF Start, DeliveryInv, TypeOK
  <2>12. UNCHANGED <<acked, upd, pc, tok, sess, row, known, banned, cached, accepted, via, lists,
                  notes, saves>>
    BY <1>1 DEF Start, delivery, tables, seen
  <2> QED BY <2>5, <2>8, <2>10, <2>11, <2>12 DEF DeliveryInv, TypeOK
<1>2. ASSUME AssignSeed PROVE TypeOK'
  BY <1>2 DEF TypeOK, AssignSeed, telegram, delivery, tables, seen, DeliveryInv
<1>3. ASSUME Stop PROVE TypeOK'
  BY <1>3 DEF TypeOK, Stop, telegram, tables, seen, bounds, DeliveryInv
<1>4. ASSUME NEW user \in Users, Ban(user) PROVE TypeOK'
  BY ZenonT(30), <1>4 DEF TypeOK, Ban, telegram, service, delivery, bounds, DeliveryInv, Working, NoRow
<1>5. ASSUME NEW d \in Deliveries, NEW u \in Updates, Receive(d, u) PROVE TypeOK'
  <2>1. /\ upd' = [upd EXCEPT ![d] = u]
        /\ notes' = [notes EXCEPT !.astray = IF LeadsHome(Addressed[u]) THEN @ ELSE @ \cup {d},
                                  !.afterBan = IF From[u] \in notes.everBanned
                                               THEN @ \cup {d} ELSE @]
        /\ lists' = [lists EXCEPT ![d] = Lists]
        /\ UNCHANGED <<hook, acked, up, seedBots, bots, sess, row, known, banned, cached, accepted, via,
                       starts, saves, failures>>
    BY <1>5 DEF Receive, telegram, service, tables, bounds
  <2>2. notes' \in Notes
    <3>1. notes \in Notes
      BY DEF DeliveryInv, TypeOK, Notes
    <3>2. \E A, B \in SUBSET Deliveries : notes' = [notes EXCEPT !.astray = A, !.afterBan = B]
      BY <2>1, <3>1 DEF Notes
    <3>3. PICK A \in SUBSET Deliveries, B \in SUBSET Deliveries :
              notes' = [notes EXCEPT !.astray = A, !.afterBan = B]
      BY <3>2
    <3> QED BY <3>1, <3>3 DEF Notes
  <2>5. /\ tok' = [tok EXCEPT ![d] = tok'[d]] /\ tok'[d] \in Tokens \cup {NoBot}
        /\ pc' = [pc EXCEPT ![d] = pc'[d]] /\ pc'[d] \in Places
    BY <1>5, ReceiveFinds DEF Places, Working
  <2>6. pc' \in [Deliveries -> Places]
    BY <2>5, PlacesAreKept DEF DeliveryInv
  <2>3. tok' \in [Deliveries -> Tokens \cup {NoBot}] /\ pc' \in [Deliveries -> Places]
    BY <2>5, <2>6 DEF DeliveryInv, TypeOK
  <2>4. upd' \in [Deliveries -> Updates \cup {NoUpdate}]
    BY <2>1 DEF DeliveryInv, TypeOK
  <2>7. lists' \in ListsType
    <3>1. Lists \in [made : Seq(Tokens), listed : Seq(Tokens)]
      BY DEF Lists, DeliveryInv, TypeOK
    <3>2. lists \in ListsType
      BY DEF ListsType, DeliveryInv, TypeOK
    <3> QED BY <2>1, <3>1, <3>2 DEF ListsType
  <2> QED BY <2>1, <2>2, <2>3, <2>4, <2>7 DEF DeliveryInv, TypeOK, Places, Notes, ListsType
<1>6. ASSUME NEW d \in Deliveries, CheckBan(d) PROVE TypeOK'
  <2>1. PICK failed \in BOOLEAN :
            /\ MayFail(failed)
            /\ Goto(d, IF ~failed /\ User(d) \in banned THEN "reply" ELSE "cache")
            /\ notes' = [notes EXCEPT !.unchecked = IF failed THEN @ \cup {d} ELSE @]
    BY <1>6 DEF CheckBan
  <2>2. failures' \in 0..MaxFailures
    BY <2>1, FailuresAreBounded DEF DeliveryInv
  <2>3. pc' \in [Deliveries -> Places]
    BY <2>1 DEF Goto, DeliveryInv, TypeOK, Places, Working
  <2>4. notes' \in Notes
    BY ZenonT(30), <2>1 DEF DeliveryInv, TypeOK, Notes
  <2>5. UNCHANGED <<hook, acked, up, seedBots, bots, upd, tok, sess, row, known, banned, cached,
                    accepted, via, lists, starts, saves>>
    BY <1>6 DEF CheckBan, telegram, service, tables
  <2> QED BY <2>2, <2>3, <2>4, <2>5 DEF DeliveryInv, TypeOK, Notes, Places
<1>7. ASSUME NEW d \in Deliveries, LookInCache(d) PROVE TypeOK'
  <2>1. sess' \in [Deliveries -> Deliveries \cup {NoSession}] /\ pc' \in [Deliveries -> Places]
    <3>1. sess \in [Deliveries -> Deliveries \cup {NoSession}]
      BY DEF DeliveryInv, TypeOK
    <3>2. ASSUME NEW s \in cached \cap SessionsOf(User(d)), sess' = [sess EXCEPT ![d] = s], Goto(d, "hand")
          PROVE  sess' \in [Deliveries -> Deliveries \cup {NoSession}] /\ pc' \in [Deliveries -> Places]
      <4>1. s \in Deliveries
        BY DEF SessionsOf
      <4>2. pc' \in [Deliveries -> Places]
        BY <3>2, PlacesAreKept DEF Goto, DeliveryInv, Places, Working
      <4> QED BY <3>1, <3>2, <4>1, <4>2
    <3>3. ASSUME sess' = sess, Goto(d, "lookup")
          PROVE  pc' \in [Deliveries -> Places]
      BY <3>3, PlacesAreKept DEF Goto, DeliveryInv, Places, Working
    <3> QED BY <1>7, <3>1, <3>2, <3>3 DEF LookInCache
  <2>2. UNCHANGED <<hook, acked, up, seedBots, bots, upd, tok, row, known, banned, cached,
                    accepted, via, lists, notes, starts, saves, failures>>
    BY <1>7 DEF LookInCache, telegram, service, tables, seen, bounds
  <2> QED BY <2>1, <2>2 DEF DeliveryInv, TypeOK, Places
<1>8. ASSUME NEW d \in Deliveries, LookInTable(d) PROVE TypeOK'
  <2>1. pc' \in [Deliveries -> Places]
    <3>1. pc' = [pc EXCEPT ![d] = pc'[d]] /\ pc'[d] \in Places
      BY <1>8, LookFinds DEF Places, Working
    <3> QED BY <3>1, PlacesAreKept DEF DeliveryInv
  <2>2. /\ UNCHANGED <<hook, acked, up, seedBots, bots, upd, tok, row, known, banned,
                       accepted, via, lists, starts, saves>>
        /\ notes' \in Notes /\ sess' \in [Deliveries -> Deliveries \cup {NoSession}]
        /\ cached' \subseteq {s \in Deliveries : row[s] # NoRow} /\ failures' \in 0..MaxFailures
    BY <1>8, LookFinds DEF telegram, service, tables
  <2> QED BY <2>1, <2>2 DEF DeliveryInv, TypeOK, Notes, Places
<1>9. ASSUME NEW d \in Deliveries, InsertSession(d) PROVE TypeOK'
  <2>1. User(d) \in Users /\ tok[d] \in Tokens /\ row[d] = NoRow
    BY <1>9 DEF InsertSession, User, DeliveryInv, At, Working
  <2>2. UNCHANGED <<hook, acked, up, seedBots, bots, upd, tok, sess, known, banned, cached,
                    accepted, via, lists, notes, starts, saves>>
    BY <1>9 DEF InsertSession, telegram, service, seen
  <2>3. pc' \in [Deliveries -> Places]
    <3>1. pc' = [pc EXCEPT ![d] = "upsert"] \/ pc' = [pc EXCEPT ![d] = "reply"]
      BY <1>9 DEF InsertSession, Goto
    <3>2. "upsert" \in Places /\ "reply" \in Places
      BY DEF Places, Working
    <3> QED BY <3>1, <3>2, PlacesAreKept DEF DeliveryInv
  <2>4. failures' \in 0..MaxFailures
    <3>1. CASE failures' = failures
      BY <3>1 DEF DeliveryInv, TypeOK
    <3>2. CASE MayFail(TRUE)
      BY <3>2, FailuresAreBounded DEF DeliveryInv
    <3> QED BY <1>9, <3>1, <3>2 DEF InsertSession
  <2>5. \/ row' = [row EXCEPT ![d] = [user |-> User(d), bot |-> tok[d]]] \/ row' = row
    BY <1>9 DEF InsertSession
  <2>6. /\ row' \in [Deliveries -> [user : Users, bot : Tokens] \cup {NoRow}]
        /\ \A s \in Deliveries \ {d} : row'[s] = row[s]
    <3>1. row \in [Deliveries -> [user : Users, bot : Tokens] \cup {NoRow}]
      BY DEF DeliveryInv, TypeOK
    <3>2. [user |-> User(d), bot |-> tok[d]] \in [user : Users, bot : Tokens]
      BY <2>1
    <3> HIDE DEF NoRow
    <3> QED BY <2>5, <3>1, <3>2
  <2>7. cached \subseteq Deliveries /\ \A s \in cached : row[s] # NoRow
    BY DEF DeliveryInv, TypeOK
  <2>8. \A s \in cached : row'[s] # NoRow
    BY <2>1, <2>6, <2>7
  <2>9. NoRow' = NoRow
    OBVIOUS
  <2> QED BY <2>2, <2>3, <2>4, <2>6, <2>8 DEF DeliveryInv, TypeOK, Places
<1>10. ASSUME NEW d \in Deliveries, UpsertUser(d) PROVE TypeOK'
  BY <1>10 DEF TypeOK, UpsertUser, User, Goto, MayFail, telegram, service, seen, DeliveryInv, At,
     Working
<1>11. ASSUME NEW d \in Deliveries, StoreSession(d) PROVE TypeOK'
  BY <1>11 DEF TypeOK, StoreSession, Goto, telegram, service, tables, seen, bounds, DeliveryInv, At,
     Working
<1>12. ASSUME NEW d \in Deliveries, HandOver(d) PROVE TypeOK'
  <2>1. UNCHANGED <<hook, acked, up, seedBots, bots, upd, tok, sess, row, known, banned, cached,
                    via, lists, starts, saves>>
    BY <1>12 DEF HandOver, telegram, service, tables
  <2>2. pc' \in [Deliveries -> Places]
    <3>1. pc' = [pc EXCEPT ![d] = "ok"] \/ pc' = [pc EXCEPT ![d] = "reply"]
      BY <1>12 DEF HandOver, Goto
    <3>2. "ok" \in Places /\ "reply" \in Places
      BY DEF Places, Working
    <3> QED BY <3>1, <3>2, PlacesAreKept DEF DeliveryInv
  <2>3. failures' \in 0..MaxFailures
    <3>1. CASE failures' = failures
      BY <3>1 DEF DeliveryInv, TypeOK
    <3>2. CASE MayFail(TRUE)
      BY <3>2, FailuresAreBounded DEF DeliveryInv
    <3> QED BY <1>12, <3>1, <3>2 DEF HandOver
  <2>4. accepted' \subseteq Updates
    <3>1. upd[d] \in Updates /\ accepted \subseteq Updates
      BY <1>12 DEF HandOver, DeliveryInv, TypeOK, At
    <3>2. accepted' = accepted \/ accepted' = accepted \cup {upd[d]}
      BY <1>12 DEF HandOver
    <3> QED BY <3>1, <3>2
  <2>5. notes' \in Notes
    <3>1. upd[d] \in Updates /\ notes \in Notes
      BY <1>12 DEF HandOver, DeliveryInv, TypeOK, At, Notes
    <3>2. notes' = notes \/ notes' = [notes EXCEPT !.dropped = @ \cup {upd[d]}]
      BY <1>12 DEF HandOver
    <3> QED BY <3>1, <3>2 DEF Notes
  <2> QED BY <2>1, <2>2, <2>3, <2>4, <2>5 DEF DeliveryInv, TypeOK, Places, Notes
<1>13. ASSUME NEW d \in Deliveries, SendReply(d) PROVE TypeOK'
  <2>1. /\ UNCHANGED <<hook, acked, up, seedBots, bots, upd, tok, sess, row, known, banned, cached,
                       accepted, lists, notes, starts, saves>>
        /\ failures' \in 0..MaxFailures
    BY <1>13, ReplyHasBot DEF telegram, service, tables
  <2>2. pc' \in [Deliveries -> Places]
    <3>1. pc' = [pc EXCEPT ![d] = pc'[d]] /\ pc'[d] \in Places
      BY <1>13, ReplyHasBot DEF Places
    <3> QED BY <3>1, PlacesAreKept DEF DeliveryInv
  <2>3. via' \in [Deliveries -> Tokens \cup {NoBot}]
    BY SMTT(20), <1>13, ReplyHasBot DEF DeliveryInv, TypeOK
  <2> QED BY <2>1, <2>2, <2>3 DEF DeliveryInv, TypeOK, Places
<1>14. ASSUME NEW d \in Deliveries, Answer(d) PROVE TypeOK'
  BY SMTT(20), <1>14 DEF TypeOK, Answer, Goto, MayFail, service, tables, seen, DeliveryInv, At
<1>15. CASE UNCHANGED vars
  BY <1>15 DEF TypeOK, telegram, service, delivery, tables, seen, bounds, vars, DeliveryInv
<1> QED BY <1>1, <1>2, <1>3, <1>4, <1>5, <1>6, <1>7, <1>8, <1>9, <1>10, <1>11, <1>12, <1>13, <1>14,
           <1>15 DEF Next, Step

\* Every step keeps what a delivery holds.
LEMMA AtNext ==
    ASSUME DeliveryInv, [Next]_vars, GatewayAssumption, NEW e \in Deliveries
    PROVE  At(e)'
<1>1. ASSUME Start PROVE At(e)'
  BY <1>1 DEF At, Start, delivery, tables, seen, DeliveryInv
<1>2. ASSUME AssignSeed PROVE At(e)'
  BY <1>2 DEF At, AssignSeed, delivery, tables, seen, DeliveryInv
<1>3. ASSUME Stop PROVE At(e)'
  BY <1>3 DEF At, Stop, tables, seen, DeliveryInv, Busy, Working
<1>4. ASSUME NEW user \in Users, Ban(user) PROVE At(e)'
  BY <1>4 DEF At, Ban, service, delivery, DeliveryInv
<1>5. ASSUME NEW d \in Deliveries, NEW u \in Updates, Receive(d, u) PROVE At(e)'
  <2>1. /\ upd' = [upd EXCEPT ![d] = u] /\ up /\ pc[d] = "fresh"
        /\ UNCHANGED <<up, bots, row, via>>
    BY <1>5 DEF Receive, service, tables
  <2>2. /\ pc' = [pc EXCEPT ![d] = pc'[d]] /\ tok' = [tok EXCEPT ![d] = tok'[d]]
        /\ pc'[d] \in {"end", "ok", "reply", "ban"}
        /\ pc'[d] \in {"ok", "reply", "ban"} => Len(bots) > 0
        /\ pc'[d] \in {"reply", "ban"} => tok'[d] \in Tokens
    BY <1>5, ReceiveFinds
  <2>3. CASE e # d
    BY <2>1, <2>2, <2>3 DEF DeliveryInv, TypeOK, At
  <2>4. CASE e = d
    BY <2>1, <2>2 DEF DeliveryInv, TypeOK, At, Busy, Working
  <2> QED BY <2>3, <2>4
<1>6. ASSUME NEW d \in Deliveries, CheckBan(d) PROVE At(e)'
  BY <1>6 DEF At, CheckBan, Goto, service, tables, DeliveryInv, Busy, Working
<1>7. ASSUME NEW d \in Deliveries, LookInCache(d) PROVE At(e)'
  BY <1>7 DEF At, LookInCache, Goto, service, tables, seen, DeliveryInv, TypeOK, Busy
<1>8. ASSUME NEW d \in Deliveries, LookInTable(d) PROVE At(e)'
  BY SMTT(30), <1>8 DEF At, LookInTable, Goto, MayFail, service, tables, DeliveryInv, TypeOK, Busy
<1>9. ASSUME NEW d \in Deliveries, InsertSession(d) PROVE At(e)'
  BY <1>9 DEF At, InsertSession, Goto, MayFail, service, seen, DeliveryInv, TypeOK, Busy, NoRow
<1>10. ASSUME NEW d \in Deliveries, UpsertUser(d) PROVE At(e)'
  BY <1>10 DEF At, UpsertUser, Goto, service, seen, DeliveryInv, Busy, Working
<1>11. ASSUME NEW d \in Deliveries, StoreSession(d) PROVE At(e)'
  BY <1>11 DEF At, StoreSession, Goto, service, tables, seen, DeliveryInv, Busy, Working
<1>12. ASSUME NEW d \in Deliveries, HandOver(d) PROVE At(e)'
  BY <1>12 DEF At, HandOver, Goto, MayFail, service, tables, DeliveryInv, TypeOK, Busy
<1>13. ASSUME NEW d \in Deliveries, SendReply(d) PROVE At(e)'
  BY <1>13 DEF At, SendReply, Goto, MayFail, service, tables, DeliveryInv, TypeOK, Busy
<1>14. ASSUME NEW d \in Deliveries, Answer(d) PROVE At(e)'
  BY <1>14 DEF At, Answer, Goto, service, tables, seen, DeliveryInv, Busy, Working
<1>15. CASE UNCHANGED vars
  BY <1>15 DEF At, service, delivery, tables, seen, vars, DeliveryInv
<1> QED BY <1>1, <1>2, <1>3, <1>4, <1>5, <1>6, <1>7, <1>8, <1>9, <1>10, <1>11, <1>12, <1>13, <1>14,
           <1>15 DEF Next, Step

\* What was done for an update stays done.
LEMMA AnsweredStays ==
    ASSUME DeliveryInv, GatewayAssumption, [Next]_vars, NEW u, Answered(u)
    PROVE  Answered(u)'
<1>1. ASSUME Start PROVE Answered(u)'
  BY <1>1 DEF Answered, Start, delivery, seen
<1>2. ASSUME AssignSeed PROVE Answered(u)'
  BY <1>2 DEF Answered, AssignSeed, delivery, seen
<1>3. ASSUME Stop PROVE Answered(u)'
  BY <1>3 DEF Answered, Stop, seen
<1>4. ASSUME NEW user \in Users, Ban(user) PROVE Answered(u)'
  BY <1>4 DEF Answered, Ban, delivery
<1>5. ASSUME NEW d \in Deliveries, NEW v \in Updates, Receive(d, v) PROVE Answered(u)'
  BY <1>5 DEF Answered, Receive, DeliveryInv, At
<1>6. ASSUME NEW d \in Deliveries, CheckBan(d) PROVE Answered(u)'
  BY <1>6 DEF Answered, CheckBan
<1>7. ASSUME NEW d \in Deliveries, LookInCache(d) PROVE Answered(u)'
  BY <1>7 DEF Answered, LookInCache, seen
<1>8. ASSUME NEW d \in Deliveries, LookInTable(d) PROVE Answered(u)'
  BY <1>8, LookFinds DEF Answered
<1>9. ASSUME NEW d \in Deliveries, InsertSession(d) PROVE Answered(u)'
  BY <1>9 DEF Answered, InsertSession, seen
<1>10. ASSUME NEW d \in Deliveries, UpsertUser(d) PROVE Answered(u)'
  BY <1>10 DEF Answered, UpsertUser, seen
<1>11. ASSUME NEW d \in Deliveries, StoreSession(d) PROVE Answered(u)'
  BY <1>11 DEF Answered, StoreSession, seen
<1>12. ASSUME NEW d \in Deliveries, HandOver(d) PROVE Answered(u)'
  <2>1. UNCHANGED <<upd, via>> /\ accepted \subseteq accepted' /\ notes.dropped \subseteq notes'.dropped
    BY <1>12, HandOverFinds
  <2> QED BY <2>1 DEF Answered
<1>13. ASSUME NEW d \in Deliveries, SendReply(d) PROVE Answered(u)'
  <2>1. /\ UNCHANGED <<upd, accepted, notes>>
        /\ via' = via \/ \E k \in Tokens : via' = [via EXCEPT ![d] = k]
    BY <1>13, ReplyHasBot
  <2>2. \A e \in Deliveries : via[e] # NoBot => via'[e] # NoBot
    BY <2>1 DEF DeliveryInv, TypeOK
  <2> QED BY <2>1, <2>2 DEF Answered
<1>14. ASSUME NEW d \in Deliveries, Answer(d) PROVE Answered(u)'
  BY <1>14 DEF Answered, Answer, seen
<1>15. CASE UNCHANGED vars
  BY <1>15 DEF Answered, delivery, seen, vars
<1> QED BY <1>1, <1>2, <1>3, <1>4, <1>5, <1>6, <1>7, <1>8, <1>9, <1>10, <1>11, <1>12, <1>13, <1>14,
           <1>15 DEF Next, Step

\* A step that acknowledges nothing, and finishes no delivery, keeps the answers.
LEMMA QuietKeepsAnswers ==
    ASSUME AnsweredInv, \A u : Answered(u) => Answered(u)', acked' = acked, upd' = upd,
           \A e \in Deliveries : pc'[e] = "ok" => pc[e] = "ok"
    PROVE  AnsweredInv'
<1>1. \A u \in acked : Answered(u)
  BY DEF AnsweredInv, AckedUpdateIsAnswered, Answered
<1>2. \A u \in acked' : Answered(u)'
  BY <1>1
<1>3. \A e \in Deliveries : pc'[e] = "ok" => Answered(upd[e])'
  BY DEF AnsweredInv
<1> QED BY DEF AnsweredInv, AckedUpdateIsAnswered, Answered

\* A delivery is acknowledged when its work is done.
LEMMA AnsweredNext ==
    ASSUME DeliveryInv, [Next]_vars, GatewayAssumption, AnsweredInv
    PROVE  AnsweredInv'
<1>1. ASSUME Start PROVE AnsweredInv'
  BY <1>1 DEF AnsweredInv, AckedUpdateIsAnswered, Start, delivery, seen, DeliveryInv, At, Busy
<1>2. ASSUME AssignSeed PROVE AnsweredInv'
  BY <1>2 DEF AnsweredInv, AckedUpdateIsAnswered, Answered, AssignSeed, telegram, delivery, seen
<1>3. ASSUME Stop PROVE AnsweredInv'
  BY <1>3 DEF AnsweredInv, AckedUpdateIsAnswered, Stop, telegram, seen
<1>4. ASSUME NEW user \in Users, Ban(user) PROVE AnsweredInv'
  BY <1>4 DEF AnsweredInv, AckedUpdateIsAnswered, Answered, Ban, telegram, delivery
<1>5. ASSUME NEW d \in Deliveries, NEW u \in Updates, Receive(d, u) PROVE AnsweredInv'
  BY <1>5 DEF AnsweredInv, AckedUpdateIsAnswered, Answered, Receive, Goto, telegram, DeliveryInv,
     TypeOK, At
<1>6. ASSUME NEW d \in Deliveries, CheckBan(d) PROVE AnsweredInv'
  BY <1>6 DEF AnsweredInv, AckedUpdateIsAnswered, Answered, CheckBan, Goto, telegram
<1>7. ASSUME NEW d \in Deliveries, LookInCache(d) PROVE AnsweredInv'
  <2>1. acked' = acked /\ upd' = upd /\ (Goto(d, "hand") \/ Goto(d, "lookup"))
    BY <1>7 DEF LookInCache, telegram
  <2>2. \A u : Answered(u) => Answered(u)'
    BY AnsweredStays
  <2>3. \A e \in Deliveries : pc'[e] = "ok" => pc[e] = "ok"
    BY <2>1 DEF Goto, DeliveryInv, TypeOK
  <2> QED BY <2>1, <2>2, <2>3, QuietKeepsAnswers
<1>8. ASSUME NEW d \in Deliveries, LookInTable(d) PROVE AnsweredInv'
  <2>1. acked' = acked /\ upd' = upd /\ pc' = [pc EXCEPT ![d] = pc'[d]] /\ pc'[d] # "ok"
    BY <1>8, LookFinds DEF telegram
  <2>2. \A u : Answered(u) => Answered(u)'
    BY AnsweredStays
  <2>3. \A e \in Deliveries : pc'[e] = "ok" => pc[e] = "ok"
    BY <2>1 DEF DeliveryInv, TypeOK
  <2> QED BY <2>1, <2>2, <2>3, QuietKeepsAnswers
<1>9. ASSUME NEW d \in Deliveries, InsertSession(d) PROVE AnsweredInv'
  <2>1. acked' = acked /\ upd' = upd /\ (Goto(d, "upsert") \/ Goto(d, "reply"))
    BY <1>9 DEF InsertSession, telegram
  <2>2. \A u : Answered(u) => Answered(u)'
    BY AnsweredStays
  <2>3. \A e \in Deliveries : pc'[e] = "ok" => pc[e] = "ok"
    BY <2>1 DEF Goto, DeliveryInv, TypeOK
  <2> QED BY <2>1, <2>2, <2>3, QuietKeepsAnswers
<1>10. ASSUME NEW d \in Deliveries, UpsertUser(d) PROVE AnsweredInv'
  BY <1>10 DEF AnsweredInv, AckedUpdateIsAnswered, Answered, UpsertUser, Goto, telegram, seen
<1>11. ASSUME NEW d \in Deliveries, StoreSession(d) PROVE AnsweredInv'
  BY <1>11 DEF AnsweredInv, AckedUpdateIsAnswered, Answered, StoreSession, Goto, telegram, seen
<1>12. ASSUME NEW d \in Deliveries, HandOver(d) PROVE AnsweredInv'
  <2>1. /\ UNCHANGED <<acked, upd>> /\ pc' = [pc EXCEPT ![d] = pc'[d]]
        /\ pc'[d] = "ok" => upd[d] \in accepted' \cup notes'.dropped
    BY <1>12, HandOverFinds DEF telegram
  <2>2. \A u : Answered(u) => Answered(u)'
    BY AnsweredStays
  <2>3. \A e \in Deliveries \ {d} : pc'[e] = pc[e]
    BY <2>1 DEF DeliveryInv, TypeOK
  <2>4. pc'[d] = "ok" => Answered(upd[d])'
    BY <2>1 DEF Answered
  <2>5. \A u \in acked' : Answered(u)'
    BY <2>1, <2>2 DEF AnsweredInv, AckedUpdateIsAnswered, Answered
  <2>6. \A e \in Deliveries : pc'[e] = "ok" => Answered(upd[e])'
    BY <2>1, <2>2, <2>3, <2>4 DEF AnsweredInv
  <2> QED BY <2>5, <2>6 DEF AnsweredInv, AckedUpdateIsAnswered, Answered
<1>13. ASSUME NEW d \in Deliveries, SendReply(d) PROVE AnsweredInv'
  <2>1. /\ acked' = acked /\ upd' = upd /\ \A e \in Deliveries \ {d} : pc'[e] = pc[e]
    BY <1>13, ReplyHasBot DEF telegram, DeliveryInv, TypeOK
  <2>2. \A u : Answered(u) => Answered(u)'
    BY AnsweredStays
  <2>3. ASSUME pc'[d] = "ok" PROVE Answered(upd[d])'
    <3>1. PICK k \in Tokens : via' = [via EXCEPT ![d] = k]
      BY <1>13, <2>3, ReplyHasBot
    <3>2. via'[d] # NoBot
      BY <3>1 DEF DeliveryInv, TypeOK
    <3> QED BY <3>2 DEF Answered
  <2>4. \A u \in acked' : Answered(u)'
    BY <2>1, <2>2 DEF AnsweredInv, AckedUpdateIsAnswered, Answered
  <2>5. \A e \in Deliveries : pc'[e] = "ok" => Answered(upd[e])'
    BY <2>1, <2>2, <2>3 DEF AnsweredInv
  <2> QED BY <2>4, <2>5 DEF AnsweredInv, AckedUpdateIsAnswered, Answered
<1>14. ASSUME NEW d \in Deliveries, Answer(d) PROVE AnsweredInv'
  BY <1>14 DEF AnsweredInv, AckedUpdateIsAnswered, Answered, Answer, Goto, MayFail, seen
<1>15. CASE UNCHANGED vars
  BY <1>15 DEF AnsweredInv, AckedUpdateIsAnswered, Answered, telegram, delivery, seen, vars
<1> QED BY <1>1, <1>2, <1>3, <1>4, <1>5, <1>6, <1>7, <1>8, <1>9, <1>10, <1>11, <1>12, <1>13, <1>14,
           <1>15 DEF Next, Step

\* A ban is never lifted.
LEMMA BanNext ==
    ASSUME DeliveryInv, [Next]_vars, GatewayAssumption, BanInv
    PROVE  BanInv'
<1>1. ASSUME Start PROVE BanInv'
  BY <1>1 DEF BanInv, BannedIsRefused, User, Start, delivery, tables, seen
<1>2. ASSUME AssignSeed PROVE BanInv'
  BY <1>2 DEF BanInv, BannedIsRefused, User, AssignSeed, delivery, tables, seen
<1>3. ASSUME Stop PROVE BanInv'
  BY <1>3 DEF BanInv, BannedIsRefused, User, Stop, tables, seen, DeliveryInv, TypeOK
<1>4. ASSUME NEW user \in Users, Ban(user) PROVE BanInv'
  BY <1>4 DEF BanInv, BannedIsRefused, User, Ban, delivery
<1>5. ASSUME NEW d \in Deliveries, NEW u \in Updates, Receive(d, u) PROVE BanInv'
  BY <1>5 DEF BanInv, BannedIsRefused, User, Receive, Goto, tables, DeliveryInv, TypeOK
<1>6. ASSUME NEW d \in Deliveries, CheckBan(d) PROVE BanInv'
  BY <1>6 DEF BanInv, BannedIsRefused, User, CheckBan, Goto, tables
<1>7. ASSUME NEW d \in Deliveries, LookInCache(d) PROVE BanInv'
  BY <1>7 DEF BanInv, BannedIsRefused, User, LookInCache, Goto, tables, seen, DeliveryInv, TypeOK
<1>8. ASSUME NEW d \in Deliveries, LookInTable(d) PROVE BanInv'
  <2>0. /\ pc[d] = "lookup" /\ pc' = [pc EXCEPT ![d] = pc'[d]]
        /\ notes'.everBanned = notes.everBanned /\ notes'.afterBan = notes.afterBan
        /\ notes'.unchecked = notes.unchecked /\ banned' = banned /\ upd' = upd
        /\ pc'[d] # "fresh"
    BY <1>8, LookFinds DEF tables
  <2>1. \A e \in Deliveries \ {d} : pc'[e] = pc[e]
    BY <2>0 DEF DeliveryInv, TypeOK
  <2>2. d \notin notes.afterBan \ notes.unchecked
    BY <2>0 DEF BanInv, BannedIsRefused
  <2> QED BY <2>0, <2>1, <2>2 DEF BanInv, BannedIsRefused, User, DeliveryInv, TypeOK
<1>9. ASSUME NEW d \in Deliveries, InsertSession(d) PROVE BanInv'
  BY <1>9 DEF BanInv, BannedIsRefused, User, InsertSession, Goto, MayFail, seen, DeliveryInv, TypeOK
<1>10. ASSUME NEW d \in Deliveries, UpsertUser(d) PROVE BanInv'
  BY <1>10 DEF BanInv, BannedIsRefused, User, UpsertUser, Goto, seen
<1>11. ASSUME NEW d \in Deliveries, StoreSession(d) PROVE BanInv'
  BY <1>11 DEF BanInv, BannedIsRefused, User, StoreSession, Goto, tables, seen
<1>12. ASSUME NEW d \in Deliveries, HandOver(d) PROVE BanInv'
  <2>0. /\ pc[d] = "hand" /\ pc' = [pc EXCEPT ![d] = pc'[d]] /\ pc'[d] \in {"ok", "reply"}
        /\ notes'.everBanned = notes.everBanned /\ notes'.afterBan = notes.afterBan
        /\ notes'.unchecked = notes.unchecked /\ banned' = banned /\ upd' = upd
    BY <1>12, HandOverFinds DEF tables
  <2>1. \A e \in Deliveries \ {d} : pc'[e] = pc[e]
    BY <2>0 DEF DeliveryInv, TypeOK
  <2>2. d \notin notes.afterBan \ notes.unchecked
    BY <2>0 DEF BanInv, BannedIsRefused
  <2> QED BY <2>0, <2>1, <2>2 DEF BanInv, BannedIsRefused, User, DeliveryInv, TypeOK
<1>13. ASSUME NEW d \in Deliveries, SendReply(d) PROVE BanInv'
  BY <1>13 DEF BanInv, BannedIsRefused, User, SendReply, Goto, MayFail, tables, DeliveryInv, TypeOK
<1>14. ASSUME NEW d \in Deliveries, Answer(d) PROVE BanInv'
  BY <1>14 DEF BanInv, BannedIsRefused, User, Answer, Goto, tables, seen
<1>15. CASE UNCHANGED vars
  BY <1>15 DEF BanInv, BannedIsRefused, User, delivery, tables, seen, vars
<1> QED BY <1>1, <1>2, <1>3, <1>4, <1>5, <1>6, <1>7, <1>8, <1>9, <1>10, <1>11, <1>12, <1>13, <1>14,
           <1>15 DEF Next, Step

\* A step that brings nobody to the INSERT leaves the race as it is.
LEMMA QuietKeepsRace ==
    ASSUME RaceInv, UNCHANGED <<row, upd>>, notes'.raced = notes.raced,
           \A e \in Deliveries : pc'[e] = "insert" => pc[e] = "insert"
    PROVE  RaceInv'
BY DEF RaceInv, User

\* A second session takes a race.
LEMMA RaceNext ==
    ASSUME DeliveryInv, [Next]_vars, GatewayAssumption, RaceInv
    PROVE  RaceInv'
<1>1. ASSUME Start PROVE RaceInv'
  BY <1>1 DEF RaceInv, Start, delivery, tables, seen, DeliveryInv, At, Busy, Working
<1>2. ASSUME AssignSeed PROVE RaceInv'
  BY <1>2 DEF RaceInv, User, AssignSeed, delivery, tables, seen
<1>3. ASSUME Stop PROVE RaceInv'
  BY <1>3 DEF RaceInv, Stop, tables, seen
<1>4. ASSUME NEW user \in Users, Ban(user) PROVE RaceInv'
  BY <1>4 DEF RaceInv, User, Ban, delivery
<1>5. ASSUME NEW d \in Deliveries, NEW u \in Updates, Receive(d, u) PROVE RaceInv'
  BY <1>5 DEF RaceInv, User, Receive, Goto, tables
<1>6. ASSUME NEW d \in Deliveries, CheckBan(d) PROVE RaceInv'
  BY <1>6 DEF RaceInv, User, CheckBan, Goto, tables
<1>7. ASSUME NEW d \in Deliveries, LookInCache(d) PROVE RaceInv'
  <2>1. UNCHANGED <<row, upd, notes>> /\ \A e \in Deliveries : pc'[e] = "insert" => pc[e] = "insert"
    BY <1>7 DEF LookInCache, Goto, tables, seen, DeliveryInv, TypeOK
  <2> QED BY <2>1, QuietKeepsRace
<1>8. ASSUME NEW d \in Deliveries, LookInTable(d) PROVE RaceInv'
  <2>1. /\ pc[d] = "lookup" /\ pc'[d] \in {"reply", "hand", "insert"}
        /\ \A e \in Deliveries \ {d} : pc'[e] = pc[e]
        /\ notes.raced \subseteq notes'.raced /\ row' = row /\ upd' = upd
    BY <1>8, LookFinds DEF tables, DeliveryInv, TypeOK
  <2>2. pc'[d] = "insert" => /\ SessionsOf(User(d)) = {}
                             /\ \A e \in Deliveries \ {d} : pc[e] = "insert" /\ User(e) = User(d)
                                   => User(d) \in notes'.raced
    BY <1>8, LookFinds
  <2>3. \A e \in Deliveries : User(e)' = User(e)
    BY <2>1 DEF User
  <2>4. \A s, t \in Deliveries :
          row'[s] # NoRow' /\ row'[t] # NoRow' /\ row'[s].user = row'[t].user
             /\ row'[s].user \notin notes'.raced => s = t
    BY <2>1 DEF RaceInv
  <2>5. ASSUME NEW e \in Deliveries, pc'[e] = "insert", User(e)' \notin notes'.raced, NEW s \in Deliveries
        PROVE  row'[s].user # User(e)'
    <3>1. CASE e = d
      BY <2>1, <2>2, <2>3, <2>5, <3>1 DEF SessionsOf
    <3>2. CASE e # d
      BY <2>1, <2>3, <2>5, <3>2 DEF RaceInv
    <3> QED BY <3>1, <3>2
  <2>6. ASSUME NEW e \in Deliveries, NEW f \in Deliveries, pc'[e] = "insert", pc'[f] = "insert",
               User(e)' = User(f)', User(e)' \notin notes'.raced
        PROVE  e = f
    <3>1. CASE e = d \/ f = d
      BY <2>1, <2>2, <2>3, <2>6, <3>1
    <3>2. CASE e # d /\ f # d
      BY <2>1, <2>3, <2>6, <3>2 DEF RaceInv
    <3> QED BY <3>1, <3>2
  <2> QED BY <2>4, <2>5, <2>6 DEF RaceInv
<1>9. ASSUME NEW d \in Deliveries, InsertSession(d) PROVE RaceInv'
  <2>1. CASE row' = row /\ Goto(d, "reply")
    <3>1. UNCHANGED <<row, upd, notes>> /\ \A e \in Deliveries : pc'[e] = "insert" => pc[e] = "insert"
      BY <1>9, <2>1 DEF InsertSession, Goto, seen
    <3> QED BY <3>1, QuietKeepsRace
  <2>2. CASE row' = [row EXCEPT ![d] = [user |-> User(d), bot |-> tok[d]]] /\ Goto(d, "upsert")
    <3>1. /\ pc[d] = "insert" /\ notes' = notes /\ upd' = upd
          /\ pc'[d] = "upsert" /\ \A e \in Deliveries \ {d} : pc'[e] = pc[e]
      BY <1>9, <2>2 DEF InsertSession, Goto, seen, DeliveryInv, TypeOK
    <3>2. row'[d].user = User(d) /\ \A s \in Deliveries \ {d} : row'[s] = row[s]
      BY <2>2 DEF DeliveryInv, TypeOK
    <3>3. \A e \in Deliveries : User(e)' = User(e)
      BY <3>1 DEF User
    <3>4. ASSUME NEW s \in Deliveries, NEW t \in Deliveries, row'[s] # NoRow, row'[t] # NoRow,
                 row'[s].user = row'[t].user, row'[s].user \notin notes'.raced
          PROVE  s = t
      <4>1. CASE s = d /\ t # d
        BY <3>1, <3>2, <3>4 DEF RaceInv
      <4>2. CASE s # d /\ t = d
        BY <3>1, <3>2, <3>4 DEF RaceInv
      <4>3. CASE s # d /\ t # d
        BY <3>1, <3>2, <3>4 DEF RaceInv
      <4> QED BY <4>1, <4>2, <4>3
    <3>5. ASSUME NEW e \in Deliveries, pc'[e] = "insert", User(e)' \notin notes'.raced, NEW s \in Deliveries
          PROVE  row'[s].user # User(e)'
      <4>1. e # d /\ pc[e] = "insert"
        BY <3>1, <3>5
      <4>2. CASE s = d
        BY <3>1, <3>2, <3>3, <3>5 DEF RaceInv
      <4>3. CASE s # d
        BY <3>1, <3>2, <3>3, <3>5 DEF RaceInv
      <4> QED BY <4>2, <4>3
    <3>6. ASSUME NEW e \in Deliveries, NEW f \in Deliveries, pc'[e] = "insert", pc'[f] = "insert",
                 User(e)' = User(f)', User(e)' \notin notes'.raced
          PROVE  e = f
      BY <3>1, <3>3, <3>6 DEF RaceInv
    <3>7. NoRow' = NoRow
      OBVIOUS
    <3> QED BY <3>4, <3>5, <3>6 DEF RaceInv
  <2> QED BY <1>9, <2>1, <2>2 DEF InsertSession
<1>10. ASSUME NEW d \in Deliveries, UpsertUser(d) PROVE RaceInv'
  BY <1>10 DEF RaceInv, User, UpsertUser, Goto, seen
<1>11. ASSUME NEW d \in Deliveries, StoreSession(d) PROVE RaceInv'
  BY <1>11 DEF RaceInv, User, StoreSession, Goto, tables, seen
<1>12. ASSUME NEW d \in Deliveries, HandOver(d) PROVE RaceInv'
  <2>1. UNCHANGED <<row, upd>> /\ notes'.raced = notes.raced
    BY <1>12 DEF HandOver, tables, DeliveryInv, TypeOK
  <2>2. Goto(d, "ok") \/ Goto(d, "reply")
    BY <1>12 DEF HandOver
  <2>3. \A e \in Deliveries : pc'[e] = "insert" => pc[e] = "insert"
    BY <2>2 DEF Goto, DeliveryInv, TypeOK
  <2> QED BY <2>1, <2>3, QuietKeepsRace
<1>13. ASSUME NEW d \in Deliveries, SendReply(d) PROVE RaceInv'
  <2>1. /\ UNCHANGED <<row, upd, notes>> /\ pc' = [pc EXCEPT ![d] = pc'[d]]
        /\ pc'[d] \in {"end", "ok"}
    BY <1>13, ReplyHasBot DEF tables
  <2>2. \A e \in Deliveries : pc'[e] = "insert" => pc[e] = "insert"
    BY <2>1 DEF DeliveryInv, TypeOK
  <2> QED BY <2>1, <2>2, QuietKeepsRace
<1>14. ASSUME NEW d \in Deliveries, Answer(d) PROVE RaceInv'
  BY <1>14 DEF RaceInv, User, Answer, Goto, tables, seen
<1>15. CASE UNCHANGED vars
  BY <1>15 DEF RaceInv, User, delivery, tables, seen, vars
<1> QED BY <1>1, <1>2, <1>3, <1>4, <1>5, <1>6, <1>7, <1>8, <1>9, <1>10, <1>11, <1>12, <1>13, <1>14,
           <1>15 DEF Next, Step

\* A step that finds no list and writes no session leaves them as they are.
LEMMA QuietKeepsBots ==
    ASSUME BotInv, UNCHANGED <<tok, upd, row, lists, seedBots>>, notes'.astray = notes.astray,
           \A d \in Deliveries : pc'[d] \in Working => pc[d] \in Working
    PROVE  BotInv'
BY DEF BotInv, ServedAs, NoRow, IsInjective

\* A delivery, and the session it creates, work for the bot at one index of the
\* two lists.
LEMMA BotNext ==
    ASSUME DeliveryInv, [Next]_vars, GatewayAssumption, BotInv
    PROVE  BotInv'
<1>1. ASSUME Start PROVE BotInv'
  <2>1. UNCHANGED <<tok, upd, row, lists, pc, notes>> /\ seedBots' = FileBots
    BY <1>1 DEF Start, delivery, tables, seen
  <2>2. IsInjective(seedBots)'
    BY <2>1, GatewayAssumption DEF IsInjective
  <2> QED BY <2>1, <2>2 DEF BotInv, ServedAs, NoRow
<1>2. ASSUME AssignSeed PROVE BotInv'
  <2>1. UNCHANGED <<tok, upd, row, lists, pc, notes>> /\ seedBots' \in BotLists
    BY <1>2 DEF AssignSeed, delivery, tables, seen
  <2>2. IsInjective(seedBots)'
    BY <2>1, GatewayAssumption DEF IsInjective
  <2> QED BY <2>1, <2>2 DEF BotInv, ServedAs, NoRow
<1>3. ASSUME Stop PROVE BotInv'
  <2>1. UNCHANGED <<tok, upd, row, lists, seedBots>> /\ notes' = notes
    BY <1>3 DEF Stop, tables, seen
  <2>2. \A e \in Deliveries : pc'[e] \in Working => pc[e] \in Working
    BY <1>3 DEF Stop, Working
  <2> QED BY <2>1, <2>2, QuietKeepsBots
<1>4. ASSUME NEW user \in Users, Ban(user) PROVE BotInv'
  <2>1. UNCHANGED <<tok, upd, row, lists, seedBots, pc>> /\ notes'.astray = notes.astray
    BY <1>4 DEF Ban, delivery, service, DeliveryInv, TypeOK
  <2> QED BY <2>1, QuietKeepsBots
<1>5. ASSUME NEW d \in Deliveries, NEW u \in Updates, Receive(d, u) PROVE BotInv'
  <2>1. /\ \A e \in Deliveries \ {d} : pc'[e] = pc[e] /\ tok'[e] = tok[e] /\ upd'[e] = upd[e]
        /\ \A e \in Deliveries \ {d} : lists'[e] = lists[e]
        /\ row' = row /\ seedBots' = seedBots /\ upd'[d] = u /\ lists'[d] = Lists
    BY <1>5 DEF Receive, Goto, tables, service, DeliveryInv, TypeOK
  <2>2. notes.astray \subseteq notes'.astray /\ (~LeadsHome(Addressed[u]) => d \in notes'.astray)
    BY <1>5 DEF Receive, DeliveryInv, TypeOK
  <2>3. ASSUME pc'[d] \in Working, d \notin notes'.astray
        PROVE  ServedAs(d, tok[d])'
    <3> DEFINE i == RouteOf(hook[Addressed[u]])
    <3>1. /\ i \in 1..Len(FileBots) /\ FileBots[i] = hook[Addressed[u]]
          /\ i <= Len(seedBots) /\ tok'[d] = seedBots[i]
      <4>1. pc'[d] \in {"reply", "ban"}
        BY <1>5, <2>3, ReceiveFinds DEF Working
      <4>2. /\ i \in 1..Len(FileBots) /\ FileBots[i] = hook[Addressed[u]] /\ i <= Len(seedBots)
            /\ tok'[d] = IF i <= Len(seedBots) THEN seedBots[i] ELSE NoBot
        BY <1>5, <4>1, ReceiveFinds
      <4> QED BY <4>2
    <3>2. PICK h \in DOMAIN bots : h \in DOMAIN FileBots /\ FileBots[h] = hook[Addressed[u]]
                                   /\ bots[h] = Addressed[u]
      BY <2>2, <2>3 DEF LeadsHome
    <3>3. h = i
      <4>1. IsInjective(FileBots) /\ DOMAIN FileBots = 1..Len(FileBots)
        BY GatewayAssumption
      <4> QED BY <3>1, <3>2, <4>1 DEF IsInjective
    <3>4. i \in DOMAIN seedBots
      <4>1. DOMAIN seedBots = 1..Len(seedBots) /\ Len(seedBots) \in Nat /\ Len(FileBots) \in Nat
        BY DEF DeliveryInv, TypeOK
      <4> QED BY <3>1, <4>1
    <3> HIDE DEF i
    <3> QED BY <2>1, <3>1, <3>2, <3>3, <3>4 DEF ServedAs, Lists
  <2>4. row[d] = NoRow
    BY <1>5 DEF Receive, DeliveryInv, At
  <2>5. \A b : \A e \in Deliveries \ {d} : ServedAs(e, b) => ServedAs(e, b)'
    BY <2>1 DEF ServedAs
  <2> QED BY <2>1, <2>2, <2>3, <2>4, <2>5 DEF BotInv
<1>6. ASSUME NEW d \in Deliveries, CheckBan(d) PROVE BotInv'
  <2>1. UNCHANGED <<tok, upd, row, lists, seedBots>> /\ notes'.astray = notes.astray
    BY <1>6 DEF CheckBan, tables, service, DeliveryInv, TypeOK
  <2>2. \A e \in Deliveries : pc'[e] \in Working => pc[e] \in Working
    BY <1>6 DEF CheckBan, Goto, DeliveryInv, TypeOK, Working
  <2> QED BY <2>1, <2>2, QuietKeepsBots
<1>7. ASSUME NEW d \in Deliveries, LookInCache(d) PROVE BotInv'
  <2>1. UNCHANGED <<tok, upd, row, lists, seedBots>> /\ notes'.astray = notes.astray
    BY <1>7 DEF LookInCache, tables, service, seen
  <2>2. \A e \in Deliveries : pc'[e] \in Working => pc[e] \in Working
    BY <1>7 DEF LookInCache, Goto, DeliveryInv, TypeOK, Working
  <2> QED BY <2>1, <2>2, QuietKeepsBots
<1>8. ASSUME NEW d \in Deliveries, LookInTable(d) PROVE BotInv'
  <2>1. /\ UNCHANGED <<tok, upd, row, lists, seedBots>> /\ notes'.astray = notes.astray
        /\ pc[d] = "lookup" /\ pc' = [pc EXCEPT ![d] = pc'[d]]
    BY <1>8, LookFinds DEF tables, service
  <2>2. \A e \in Deliveries : pc'[e] \in Working => pc[e] \in Working
    BY <2>1 DEF DeliveryInv, TypeOK, Working
  <2> QED BY <2>1, <2>2, QuietKeepsBots
<1>9. ASSUME NEW d \in Deliveries, InsertSession(d) PROVE BotInv'
  <2>1. /\ UNCHANGED <<tok, upd, lists, seedBots, notes>> /\ pc[d] = "insert"
        /\ row' = row \/ row' = [row EXCEPT ![d] = [user |-> User(d), bot |-> tok[d]]]
    BY <1>9 DEF InsertSession, service, seen
  <2>2. \A e \in Deliveries : pc'[e] \in Working => pc[e] \in Working
    <3>1. Goto(d, "upsert") \/ Goto(d, "reply")
      BY <1>9 DEF InsertSession
    <3> QED BY <2>1, <3>1 DEF Goto, DeliveryInv, TypeOK, Working
  <2>3. CASE row' = row
    BY <2>1, <2>2, <2>3, QuietKeepsBots
  <2>4. CASE row' = [row EXCEPT ![d] = [user |-> User(d), bot |-> tok[d]]]
    <3>1. row'[d].bot = tok[d] /\ \A e \in Deliveries \ {d} : row'[e] = row[e]
      BY <2>4 DEF DeliveryInv, TypeOK
    <3>2. d \notin notes.astray => ServedAs(d, tok[d])
      BY <2>1 DEF BotInv, Working
    <3>3. \A k : \A e \in Deliveries : ServedAs(e, k) => ServedAs(e, k)'
      BY <2>1 DEF ServedAs
    <3>4. ASSUME NEW e \in Deliveries, e \notin notes'.astray
          PROVE  /\ pc'[e] \in Working => ServedAs(e, tok[e])'
                 /\ row'[e] # NoRow => ServedAs(e, row[e].bot)'
      <4>1. pc'[e] \in Working => ServedAs(e, tok[e])'
        BY <2>1, <2>2, <3>3, <3>4 DEF BotInv
      <4>2. CASE e = d
        BY <2>1, <3>1, <3>2, <3>3, <3>4, <4>1, <4>2
      <4>3. CASE e # d
        BY <2>1, <3>1, <3>3, <3>4, <4>1, <4>3 DEF BotInv
      <4> QED BY <4>2, <4>3
    <3>5. IsInjective(seedBots)'
      BY <2>1 DEF BotInv
    <3>6. NoRow' = NoRow
      OBVIOUS
    <3> QED BY <3>4, <3>5, <3>6 DEF BotInv
  <2> QED BY <2>1, <2>3, <2>4
<1>10. ASSUME NEW d \in Deliveries, UpsertUser(d) PROVE BotInv'
  <2>1. UNCHANGED <<tok, upd, row, lists, seedBots>> /\ notes'.astray = notes.astray
    BY <1>10 DEF UpsertUser, service, seen
  <2>2. \A e \in Deliveries : pc'[e] \in Working => pc[e] \in Working
    BY <1>10 DEF UpsertUser, Goto, DeliveryInv, TypeOK, Working
  <2> QED BY <2>1, <2>2, QuietKeepsBots
<1>11. ASSUME NEW d \in Deliveries, StoreSession(d) PROVE BotInv'
  <2>1. UNCHANGED <<tok, upd, row, lists, seedBots>> /\ notes'.astray = notes.astray
    BY <1>11 DEF StoreSession, service, tables, seen
  <2>2. \A e \in Deliveries : pc'[e] \in Working => pc[e] \in Working
    BY <1>11 DEF StoreSession, Goto, DeliveryInv, TypeOK, Working
  <2> QED BY <2>1, <2>2, QuietKeepsBots
<1>12. ASSUME NEW d \in Deliveries, HandOver(d) PROVE BotInv'
  <2>1. UNCHANGED <<tok, upd, row, lists, seedBots>> /\ notes'.astray = notes.astray
    BY <1>12 DEF HandOver, service, tables, DeliveryInv, TypeOK
  <2>2. pc[d] = "hand" /\ \E place : pc' = [pc EXCEPT ![d] = place]
    BY <1>12 DEF HandOver, Goto
  <2>3. \A e \in Deliveries : pc'[e] \in Working => pc[e] \in Working
    BY <2>2 DEF DeliveryInv, TypeOK, Working
  <2> QED BY <2>1, <2>3, QuietKeepsBots
<1>13. ASSUME NEW d \in Deliveries, SendReply(d) PROVE BotInv'
  <2>1. /\ UNCHANGED <<tok, upd, row, lists, seedBots, notes>>
        /\ pc[d] = "reply" /\ pc' = [pc EXCEPT ![d] = pc'[d]]
    BY <1>13, ReplyHasBot DEF tables, service
  <2>2. \A e \in Deliveries : pc'[e] \in Working => pc[e] \in Working
    BY <2>1 DEF DeliveryInv, TypeOK, Working
  <2> QED BY <2>1, <2>2, QuietKeepsBots
<1>14. ASSUME NEW d \in Deliveries, Answer(d) PROVE BotInv'
  <2>1. UNCHANGED <<tok, upd, row, lists, seedBots>> /\ notes'.astray = notes.astray
    BY <1>14 DEF Answer, service, tables, seen
  <2>2. \A e \in Deliveries : pc'[e] \in Working => pc[e] \in Working
    BY <1>14 DEF Answer, Goto, DeliveryInv, TypeOK, Working
  <2> QED BY <2>1, <2>2, QuietKeepsBots
<1>15. CASE UNCHANGED vars
  BY <1>15, QuietKeepsBots DEF service, delivery, tables, seen, vars
<1> QED BY <1>1, <1>2, <1>3, <1>4, <1>5, <1>6, <1>7, <1>8, <1>9, <1>10, <1>11, <1>12, <1>13, <1>14,
           <1>15 DEF Next, Step

------------------------------------------------------------------------------
IInv == DeliveryInv /\ AnsweredInv /\ BanInv /\ RaceInv /\ BotInv

LEMMA InvInit ==
    ASSUME Init
    PROVE  IInv
<1>1. /\ up \in BOOLEAN /\ bots \in Seq(Tokens) /\ seedBots \in Seq(Tokens)
  BY GatewayAssumption, EmptySeq DEF Init
<1>2. notes \in Notes
  BY DEF Init, Notes
<1>3. starts \in 0..MaxStarts /\ saves \in 0..MaxSaves /\ failures \in 0..MaxFailures
  BY GatewayAssumption DEF Init
<1>4. TypeOK
  BY <1>1, <1>3 DEF Init, TypeOK
<1>5. \A d \in Deliveries : At(d)
  BY DEF Init, At, Busy, Working
<1>6. AnsweredInv
  BY DEF Init, AnsweredInv, AckedUpdateIsAnswered
<1>7. BanInv
  BY DEF Init, BanInv, BannedIsRefused
<1>8. RaceInv
  BY DEF Init, RaceInv
<1>9. BotInv
  BY GatewayAssumption DEF Init, BotInv, Working
<1> QED BY <1>4, <1>5, <1>6, <1>7, <1>8, <1>9 DEF IInv, DeliveryInv

LEMMA InvNext ==
    ASSUME IInv, [Next]_vars
    PROVE  IInv'
BY TypeNext, AtNext, AnsweredNext, BanNext, RaceNext, BotNext, GatewayAssumption DEF IInv,
   DeliveryInv

LEMMA InvInvariant == Spec => []IInv
BY InvInit, InvNext, PTL DEF Spec

\* Every variable of the gateway has its type, and a user gets a second session
\* only when two deliveries looked for the first before either created it:
\* no failing statement and no stop of the server adds one.
THEOREM SessionsAreAlwaysSound == Spec => []SessionsAreSound
<1>1. ASSUME IInv PROVE OneSessionPerUser
  <2>1. SUFFICES ASSUME NEW user \in Users, user \notin notes.raced
                 PROVE  Cardinality(SessionsOf(user)) <= 1
    BY DEF OneSessionPerUser
  <2>2. \A s \in SessionsOf(user) : s \in Deliveries /\ row[s] # NoRow /\ row[s].user = user
    BY GatewayAssumption DEF SessionsOf, NoRow
  <2>3. \A s, t \in SessionsOf(user) : s = t
    BY <1>1, <2>1, <2>2 DEF IInv, RaceInv
  <2>4. CASE SessionsOf(user) = {}
    <3>1. Cardinality(SessionsOf(user)) = 0
      BY <2>4, FS_EmptySet
    <3> QED BY <3>1
  <2>5. CASE SessionsOf(user) # {}
    <3>1. PICK s : SessionsOf(user) = {s}
      BY <2>3, <2>5
    <3>2. Cardinality(SessionsOf(user)) = 1
      BY <3>1, FS_Singleton
    <3> QED BY <3>2
  <2> QED BY <2>4, <2>5
<1>2. IInv => SessionsAreSound
  BY <1>1 DEF SessionsAreSound, IInv, DeliveryInv
<1> QED BY <1>2, InvInvariant, PTL

\* An update that Telegram may forget was taken by a session or answered, met
\* the full queue of a session, or has no message: lost answers, failing
\* statements, second deliveries and stops lose none.
THEOREM AcksAreEarned == Spec => []AckedUpdateIsAnswered
<1>1. IInv => AckedUpdateIsAnswered
  BY DEF IInv, AnsweredInv
<1> QED BY <1>1, InvInvariant, PTL

\* A user who was banned when his message arrived gets no session and hands
\* nothing over, unless the statement that looks for the ban fails.
THEOREM BansHold == Spec => []BannedIsRefused
<1>1. IInv => BannedIsRefused
  BY DEF IInv, BanInv
<1> QED BY <1>1, InvInvariant, PTL

\* A new session is with the bot its user wrote to.
LEMMA NewSessionHasBot ==
    ASSUME IInv, [Next]_vars, NEW d \in Deliveries, row'[d] # row[d], d \notin notes.astray,
           lists[d].made = lists[d].listed
    PROVE  row'[d].bot = Addressed[upd[d]]
<1>1. InsertSession(d)
  <2>1. row' # row
    OBVIOUS
  <2>2. PICK e \in Deliveries : InsertSession(e)
    BY DEF Next, Step, Start, AssignSeed, Stop, Ban, Receive, CheckBan, LookInCache, LookInTable,
       UpsertUser, StoreSession, HandOver, SendReply, Answer, tables, vars
  <2>3. row \in [Deliveries -> [user : Users, bot : Tokens] \cup {NoRow}]
    BY DEF IInv, DeliveryInv, TypeOK
  <2>4. e = d
    BY <2>2, <2>3 DEF InsertSession
  <2> QED BY <2>2, <2>4
<1>2. row' = [row EXCEPT ![d] = [user |-> User(d), bot |-> tok[d]]] /\ pc[d] = "insert"
  BY <1>1 DEF InsertSession
<1>3. row'[d].bot = tok[d]
  BY <1>2
<1> QED BY <1>2, <1>3 DEF IInv, BotInv, ServedAs, Working

\* A reply goes by the bot to which the user of a session wrote.
LEMMA ReplyHasHisBot ==
    ASSUME IInv, [Next]_vars, NEW d \in Deliveries, via'[d] # via[d], failures' = failures,
           Chat[upd[d]] = User(d), SessionsOf(User(d)) # {},
           \A s \in SessionsOf(User(d)) : s \notin notes.astray /\ lists[s] = Lists
    PROVE  \E s \in SessionsOf(User(d)) : via'[d] = Addressed[upd[s]]
<1>1. SendReply(d)
  <2>1. via' # via
    OBVIOUS
  <2>2. PICK e \in Deliveries : SendReply(e)
    BY DEF Next, Step, Start, AssignSeed, Stop, Ban, Receive, CheckBan, LookInCache, LookInTable,
       InsertSession, UpsertUser, StoreSession, HandOver, Answer, seen, vars
  <2>3. via \in [Deliveries -> Tokens \cup {NoBot}]
    BY DEF IInv, DeliveryInv, TypeOK
  <2>4. e = d
    BY <2>2, <2>3 DEF SendReply
  <2> QED BY <2>2, <2>4
<1>2. failures \in Nat /\ ~MayFail(TRUE)
  BY DEF MayFail, IInv, DeliveryInv, TypeOK
<1>3. PICK k \in BotsForChat(Chat[upd[d]]) : via' = [via EXCEPT ![d] = k]
  BY <1>1, <1>2 DEF SendReply
<1>4. via'[d] = k
  BY <1>3
<1> DEFINE at(b) == {i \in DOMAIN seedBots : seedBots[i] = b /\ i <= Len(bots)}
           found(s) == {bots[i] : i \in at(row[s].bot)}
<1>5. User(d) \in Users
  <2>1. upd[d] \in Updates
    BY <1>1 DEF SendReply, IInv, DeliveryInv, At
  <2> QED BY <2>1, GatewayAssumption DEF User
<1>6. ASSUME NEW s \in SessionsOf(User(d)) PROVE found(s) = {Addressed[upd[s]]}
  <2>1. s \in Deliveries /\ row[s] # NoRow
    BY <1>5, GatewayAssumption DEF SessionsOf, NoRow
  <2>2. ServedAs(s, row[s].bot) /\ lists[s] = Lists
    BY <2>1 DEF IInv, BotInv
  <2>3. PICK i \in DOMAIN bots : i \in DOMAIN seedBots /\ bots[i] = Addressed[upd[s]]
                                /\ seedBots[i] = row[s].bot
    BY <2>2 DEF ServedAs, Lists
  <2>4. i <= Len(bots)
    <3>1. DOMAIN bots = 1..Len(bots) /\ Len(bots) \in Nat
      BY DEF IInv, DeliveryInv, TypeOK
    <3> QED BY <3>1
  <2>5. IsInjective(seedBots)
    BY DEF IInv, BotInv
  <2>6. at(row[s].bot) = {i}
    BY <2>3, <2>4, <2>5 DEF IsInjective
  <2> QED BY <2>3, <2>6
<1>7. BotsForChat(User(d)) =
        UNION {IF found(s) = {} THEN {bots[1]} ELSE found(s) : s \in SessionsOf(User(d))}
  BY DEF BotsForChat
<1> HIDE DEF found
<1> QED BY <1>4, <1>6, <1>7

\* A session is with the bot its user wrote to when the two lists agree, and
\* while they are those his sessions were made under, agreeing or not, he is
\* answered in a private chat by the bot he wrote to at the time.
THEOREM UsersKeepTheirBot == Spec => UserKeepsHisBot
<1>1. IInv /\ [Next]_vars =>
        [\A d \in Deliveries :
          /\ row'[d] # row[d] /\ d \notin notes.astray /\ lists[d].made = lists[d].listed
                => row'[d].bot = Addressed[upd[d]]
          /\ via'[d] # via[d] /\ failures' = failures /\ Chat[upd[d]] = User(d)
             /\ SessionsOf(User(d)) # {}
             /\ (\A s \in SessionsOf(User(d)) : s \notin notes.astray /\ lists[s] = Lists)
                => \E s \in SessionsOf(User(d)) : via'[d] = Addressed[upd[s]]]_vars
  BY NewSessionHasBot, ReplyHasHisBot
<1> QED BY <1>1, InvInvariant, PTL DEF Spec, UserKeepsHisBot

==============================================================================
