----------------------------- MODULE SessionProofs -----------------------------
(***************************************************************************)
(* Proofs about Session, for any number of messages, objects, LLM failures *)
(* and restarts.  CallAt says which objects a call has got hold of,        *)
(* ReadInv that a message is in one place, CountInv that the numbers of    *)
(* turns fit the messages, and HistoryInv what holds while calls do not    *)
(* overlap: one object, whose counter is the length of the history.        *)
(***************************************************************************)
EXTENDS Session, SequenceTheorems, FiniteSetTheorems, TLAPS

Loaded == {"turn", "insert", "count", "store", "send"}

\* Types, without the bound that the number of messages gives.
Types == /\ row \in {"none", "stored", "there"}
         /\ cache \in Objects \cup {NoObject}
         /\ used \subseteq Objects
         /\ loop \in [Objects -> Loops]
         /\ queue \in [Objects -> Seq(Messages)]
         /\ \A o \in Objects : Len(queue[o]) <= QueueCap
         /\ lastTurn \in [Objects -> Nat]
         /\ pc \in [Messages -> Calls]
         /\ session \in [Messages -> Objects \cup {NoObject}]
         /\ target \in [Messages -> Objects \cup {NoObject}]
         /\ turn \in [Messages -> Nat]
         /\ history \in [Turns -> Messages \cup {NoMessage}]
         /\ read \subseteq Messages
         /\ failures \in 0..MaxFailures
         /\ restarts \in 0..MaxRestarts
         /\ overlap \in BOOLEAN

\* The objects that call m has got hold of are loaded.
CallAt(m) ==
    /\ pc[m] = "cache" => session[m] \in used
    /\ pc[m] \in Loaded => cache # NoObject /\ session[m] \in used /\ loop[session[m]] # "none"
    /\ pc[m] \in {"insert", "count", "store"} => target[m] \in used

\* The cached object has a loop; an object counts no turn before it is used.
CacheInv == /\ cache # NoObject => cache \in used /\ loop[cache] # "none"
            /\ \A o \in Objects \ used : lastTurn[o] = 0

\* A message in a queue is in one place of one queue, and not read yet.
ReadInv ==
    /\ \A o \in Objects : \A i \in 1..Len(queue[o]) :
          pc[queue[o][i]] = "done" /\ queue[o][i] \notin read
    /\ \A o, p \in Objects : \A i \in 1..Len(queue[o]), j \in 1..Len(queue[p]) :
          queue[o][i] = queue[p][j] => o = p /\ i = j
    /\ \A m \in read : pc[m] = "done"

\* What has been counted fits the messages.
Counted == {m \in Messages : pc[m] \in {"send", "done", "dropped", "failed"}}

CountInv ==
    /\ \A o \in Objects : lastTurn[o] <= Cardinality(Counted)
    /\ \A m \in Messages : pc[m] \in {"insert", "store"} => turn[m] \in 1..Cardinality(Counted) + 1

Inv == Types /\ (\A m \in Messages : CallAt(m)) /\ CacheInv /\ ReadInv

\* While calls come one at a time and the process lives, they all work on the
\* one object that CreateSession made.
OneCall == ~overlap /\ restarts = 0
OneInv == OneCall =>
    /\ \A m, n \in UnderWay : m = n
    /\ IF row = "there" THEN cache \in Objects
       ELSE cache = NoObject /\ \A m \in Messages : pc[m] = "new"
    /\ \A m \in Messages : /\ pc[m] \notin {"load", "cache"}
                           /\ pc[m] \in Loaded => session[m] = cache
                           /\ pc[m] \in {"insert", "count", "store"} => target[m] = cache

LastTurn == IF cache = NoObject THEN 0 ELSE lastTurn[cache]
Writing == {m \in Messages : pc[m] \in {"count", "store"}}

\* Then the history has no gap and ends where the object has counted to, or at
\* the row of the call that has still to count; every stored message has one
\* row, and the call under way has the last.
RowsInv == OneCall =>
    /\ \A i \in Turns :
          history[i] # NoMessage <=> i <= LastTurn \/ (i = LastTurn + 1 /\ Writing # {})
    /\ \A i \in Turns : history[i] # NoMessage => history[i] \in Stored
    /\ \A i, j \in Turns : history[i] # NoMessage /\ history[i] = history[j] => i = j
    /\ \A m \in Stored : \E i \in Turns : history[i] = m
    /\ \A m \in Messages :
          /\ pc[m] \in {"insert", "store"} => turn[m] = LastTurn + 1
          /\ pc[m] \in {"count", "store"} => LastTurn + 1 \in Turns /\ history[LastTurn + 1] = m
          /\ pc[m] = "send" => LastTurn \in Turns /\ history[LastTurn] = m

\* The queues are in the order of the history.
OrderInv == OneCall =>
    \A o \in Objects : \A i, j \in 1..Len(queue[o]) : \A k, l \in Turns :
        i < j /\ history[k] = queue[o][i] /\ history[l] = queue[o][j] => k < l

------------------------------------------------------------------------------
\* What Send makes of a queue, and what ReadMessage does.
LEMMA SendAppends ==
    ASSUME Inv, NEW m \in Messages, Send(m)
    PROVE  /\ Append(queue[session[m]], m) \in Seq(Messages)
           /\ Len(Append(queue[session[m]], m)) = Len(queue[session[m]]) + 1
           /\ \A i \in 1..Len(queue[session[m]]) :
                 Append(queue[session[m]], m)[i] = queue[session[m]][i]
           /\ Append(queue[session[m]], m)[Len(queue[session[m]]) + 1] = m
           /\ session[m] \in Objects
<1>1. session[m] \in Objects /\ queue \in [Objects -> Seq(Messages)]
  BY DEF Send, CallAt, Loaded, Inv, Types
<1>2. queue[session[m]] \in Seq(Messages)
  BY <1>1
<1> QED BY <1>1

LEMMA ReadTakes ==
    ASSUME Inv, NEW o \in Objects, ReadMessage(o)
    PROVE  /\ Tail(queue[o]) \in Seq(Messages) /\ Len(Tail(queue[o])) = Len(queue[o]) - 1
           /\ Len(queue[o]) > 0 /\ Head(queue[o]) = queue[o][1] /\ Head(queue[o]) \in Messages
           /\ \A i \in 1..Len(Tail(queue[o])) : Tail(queue[o])[i] = queue[o][i + 1]
<1>1. queue[o] \in Seq(Messages) /\ queue[o] # <<>>
  BY DEF ReadMessage, Inv, Types
<1> QED BY <1>1

\* Every step keeps the types.
LEMMA TypesNext ==
    ASSUME Inv, [Next]_vars, SessionAssumption
    PROVE  Types'
<1>1. ASSUME CreateSession PROVE Types'
  BY <1>1 DEF Types, CreateSession, callVars, objectVars, boundVars, Inv
<1>2. ASSUME NEW o \in Objects, CacheCreated(o) PROVE Types'
  BY <1>2 DEF Types, CacheCreated, CacheAndStart, callVars, boundVars, Loops, Inv
<1>3. ASSUME NEW m \in Messages, HandleUserMessage(m) PROVE Types'
  BY <1>3 DEF Types, HandleUserMessage, Goto, objectVars, Calls, Inv
<1>4. ASSUME NEW m \in Messages, CacheLoaded(m) PROVE Types'
  BY <1>4 DEF Types, CacheLoaded, CacheAndStart, Goto, boundVars, Calls, Loops, Inv
<1>5. ASSUME NEW m \in Messages, NEW o \in Objects, LoadSession(m, o) PROVE Types'
  BY <1>5 DEF Types, LoadSession, Goto, boundVars, Calls, Inv
<1>6. ASSUME NEW m \in Messages, NumberTurn(m) PROVE Types'
  BY <1>6 DEF Types, NumberTurn, Goto, objectVars, boundVars, Calls, Loaded, CallAt, Inv
<1>7. ASSUME NEW m \in Messages, InsertTurn(m) PROVE Types'
  BY <1>7 DEF Types, InsertTurn, Goto, objectVars, boundVars, Calls, Inv
<1>8. ASSUME NEW m \in Messages, ReadCounter(m) PROVE Types'
  BY <1>8 DEF Types, ReadCounter, Goto, objectVars, boundVars, Calls, CallAt, Inv
<1>9. ASSUME NEW m \in Messages, WriteCounter(m) PROVE Types'
  BY <1>9 DEF Types, WriteCounter, Goto, boundVars, Calls, Inv
<1>10. ASSUME NEW m \in Messages, Send(m) PROVE Types'
  <2>1. /\ Append(queue[session[m]], m) \in Seq(Messages)
        /\ Len(Append(queue[session[m]], m)) = Len(queue[session[m]]) + 1
        /\ \A i \in 1..Len(queue[session[m]]) :
              Append(queue[session[m]], m)[i] = queue[session[m]][i]
        /\ Append(queue[session[m]], m)[Len(queue[session[m]]) + 1] = m
        /\ session[m] \in Objects
    BY <1>10, SendAppends
  <2>2. queue' \in [Objects -> Seq(Messages)]
    <3>1. queue' = queue \/ queue' = [queue EXCEPT ![session[m]] = Append(@, m)]
      BY <1>10 DEF Send
    <3> QED BY <2>1, <3>1 DEF Inv, Types
  <2>3. ASSUME NEW o \in Objects PROVE Len(queue'[o]) <= QueueCap
    <3>1. CASE queue' = queue
      BY <3>1 DEF Inv, Types
    <3>2. CASE /\ Len(queue[session[m]]) < QueueCap
               /\ queue' = [queue EXCEPT ![session[m]] = Append(@, m)]
      <4>1. Len(queue[session[m]]) \in Nat /\ QueueCap \in Nat
        OBVIOUS
      <4>2. CASE o = session[m]
        BY <3>2, <4>2
      <4>3. CASE o # session[m]
        BY <3>2 DEF Inv, Types
      <4> QED BY <4>2, <4>3
    <3> QED BY <1>10, <3>1, <3>2 DEF Send
  <2> QED BY <1>10, <2>2, <2>3 DEF Types, Send, Goto, boundVars, Calls, Ended, Inv
<1>11. ASSUME NEW m \in Messages, DatabaseFails(m) PROVE Types'
  BY <1>11 DEF Types, DatabaseFails, Goto, objectVars, boundVars, Calls, Ended, Inv
<1>12. ASSUME NEW o \in Objects, ReadMessage(o) PROVE Types'
  <2>1. /\ Tail(queue[o]) \in Seq(Messages) /\ Len(Tail(queue[o])) = Len(queue[o]) - 1
        /\ Len(queue[o]) > 0 /\ Head(queue[o]) = queue[o][1] /\ Head(queue[o]) \in Messages
        /\ \A i \in 1..Len(Tail(queue[o])) : Tail(queue[o])[i] = queue[o][i + 1]
    BY <1>12, ReadTakes
  <2> QED BY <1>12 DEF Types, ReadMessage, callVars, boundVars, Loops, Inv
<1>13. ASSUME NEW o \in Objects, LLMReplies(o) PROVE Types'
  BY <1>13 DEF Types, LLMReplies, callVars, boundVars, Loops, Inv
<1>14. ASSUME NEW o \in Objects, LLMFails(o) PROVE Types'
  BY <1>14 DEF Types, LLMFails, callVars, Loops, Inv
<1>15. ASSUME Restart PROVE Types'
  BY <1>15 DEF Types, Restart, Calls, Ended, Loops, Inv
<1>16. CASE UNCHANGED vars
  BY <1>16 DEF Types, callVars, objectVars, boundVars, vars, Inv
<1> QED BY <1>1, <1>2, <1>3, <1>4, <1>5, <1>6, <1>7, <1>8, <1>9, <1>10, <1>11, <1>12, <1>13, <1>14,
           <1>15, <1>16 DEF Next, Call

\* A call works on loaded objects.
LEMMA CallNext ==
    ASSUME Inv, [Next]_vars, NEW n \in Messages, SessionAssumption
    PROVE  CallAt(n)'
<1>1. ASSUME CreateSession PROVE CallAt(n)'
  BY <1>1 DEF CallAt, CreateSession, callVars, objectVars, Inv
<1>2. ASSUME NEW o \in Objects, CacheCreated(o) PROVE CallAt(n)'
  BY <1>2 DEF CallAt, CacheCreated, CacheAndStart, callVars, Inv
<1>3. ASSUME NEW m \in Messages, HandleUserMessage(m) PROVE CallAt(n)'
  BY <1>3 DEF CallAt, HandleUserMessage, Goto, objectVars, Loaded, CacheInv, Inv, Types
<1>4. ASSUME NEW m \in Messages, CacheLoaded(m) PROVE CallAt(n)'
  BY <1>4 DEF CallAt, CacheLoaded, CacheAndStart, Goto, Inv, Types
<1>5. ASSUME NEW m \in Messages, NEW o \in Objects, LoadSession(m, o) PROVE CallAt(n)'
  BY <1>5 DEF CallAt, LoadSession, Goto, Loaded, Inv, Types
<1>6. ASSUME NEW m \in Messages, NumberTurn(m) PROVE CallAt(n)'
  BY <1>6 DEF CallAt, NumberTurn, Goto, objectVars, Loaded, CacheInv, Inv, Types
<1>7. ASSUME NEW m \in Messages, InsertTurn(m) PROVE CallAt(n)'
  BY <1>7 DEF CallAt, InsertTurn, Goto, objectVars, Loaded, Inv
<1>8. ASSUME NEW m \in Messages, ReadCounter(m) PROVE CallAt(n)'
  BY <1>8 DEF CallAt, ReadCounter, Goto, objectVars, Loaded, Inv
<1>9. ASSUME NEW m \in Messages, WriteCounter(m) PROVE CallAt(n)'
  BY <1>9 DEF CallAt, WriteCounter, Goto, Loaded, Inv
<1>10. ASSUME NEW m \in Messages, Send(m) PROVE CallAt(n)'
  BY <1>10 DEF CallAt, Send, Goto, Loaded, Inv, Types
<1>11. ASSUME NEW m \in Messages, DatabaseFails(m) PROVE CallAt(n)'
  BY <1>11 DEF CallAt, DatabaseFails, Goto, objectVars, Loaded, Inv
<1>12. ASSUME NEW o \in Objects, ReadMessage(o) PROVE CallAt(n)'
  BY <1>12 DEF CallAt, ReadMessage, callVars, Inv
<1>13. ASSUME NEW o \in Objects, LLMReplies(o) PROVE CallAt(n)'
  BY <1>13 DEF CallAt, LLMReplies, callVars, Inv
<1>14. ASSUME NEW o \in Objects, LLMFails(o) PROVE CallAt(n)'
  BY <1>14 DEF CallAt, LLMFails, callVars, Inv
<1>15. ASSUME Restart PROVE CallAt(n)'
  BY <1>15 DEF CallAt, Restart, Ended, Loaded
<1>16. CASE UNCHANGED vars
  BY <1>16 DEF CallAt, callVars, objectVars, vars, Inv
<1> QED BY <1>1, <1>2, <1>3, <1>4, <1>5, <1>6, <1>7, <1>8, <1>9, <1>10, <1>11, <1>12, <1>13, <1>14,
           <1>15, <1>16 DEF Next, Call

\* The cached object has a loop.
LEMMA CacheNext ==
    ASSUME Inv, [Next]_vars, SessionAssumption
    PROVE  CacheInv'
<1>1. ASSUME CreateSession PROVE CacheInv'
  BY <1>1 DEF CacheInv, CreateSession, objectVars, Inv
<1>2. ASSUME NEW o \in Objects, CacheCreated(o) PROVE CacheInv'
  BY <1>2 DEF CacheInv, CacheCreated, CacheAndStart, Inv, Types
<1>3. ASSUME NEW m \in Messages, HandleUserMessage(m) PROVE CacheInv'
  BY <1>3 DEF CacheInv, HandleUserMessage, objectVars, Inv
<1>4. ASSUME NEW m \in Messages, CacheLoaded(m) PROVE CacheInv'
  BY <1>4 DEF CacheInv, CacheLoaded, CacheAndStart, CallAt, Inv, Types
<1>5. ASSUME NEW m \in Messages, NEW o \in Objects, LoadSession(m, o) PROVE CacheInv'
  BY <1>5 DEF CacheInv, LoadSession, Inv
<1>6. ASSUME NEW m \in Messages, NumberTurn(m) PROVE CacheInv'
  BY <1>6 DEF CacheInv, NumberTurn, objectVars, Inv
<1>7. ASSUME NEW m \in Messages, InsertTurn(m) PROVE CacheInv'
  BY <1>7 DEF CacheInv, InsertTurn, objectVars, Inv
<1>8. ASSUME NEW m \in Messages, ReadCounter(m) PROVE CacheInv'
  BY <1>8 DEF CacheInv, ReadCounter, objectVars, Inv
<1>9. ASSUME NEW m \in Messages, WriteCounter(m) PROVE CacheInv'
  BY <1>9 DEF CacheInv, WriteCounter, CallAt, Inv
<1>10. ASSUME NEW m \in Messages, Send(m) PROVE CacheInv'
  BY <1>10 DEF CacheInv, Send, Inv
<1>11. ASSUME NEW m \in Messages, DatabaseFails(m) PROVE CacheInv'
  BY <1>11 DEF CacheInv, DatabaseFails, objectVars, Inv
<1>12. ASSUME NEW o \in Objects, ReadMessage(o) PROVE CacheInv'
  BY <1>12 DEF CacheInv, ReadMessage, Inv
<1>13. ASSUME NEW o \in Objects, LLMReplies(o) PROVE CacheInv'
  BY <1>13 DEF CacheInv, LLMReplies, Inv
<1>14. ASSUME NEW o \in Objects, LLMFails(o) PROVE CacheInv'
  BY <1>14 DEF CacheInv, LLMFails, Inv
<1>15. ASSUME Restart PROVE CacheInv'
  BY <1>15 DEF CacheInv, Restart, Inv
<1>16. CASE UNCHANGED vars
  BY <1>16 DEF CacheInv, objectVars, vars, Inv
<1> QED BY <1>1, <1>2, <1>3, <1>4, <1>5, <1>6, <1>7, <1>8, <1>9, <1>10, <1>11, <1>12, <1>13, <1>14,
           <1>15, <1>16 DEF Next, Call

\* A step that leaves the queues alone and ends no other call leaves messages
\* where they are.
LEMMA QuietKeepsPlaces ==
    ASSUME Inv, UNCHANGED <<queue, read>>,
           \A x \in Messages : pc[x] = "done" => pc'[x] = "done"
    PROVE  ReadInv'
<1>1. \A o \in Objects : \A i \in 1..Len(queue[o]) : queue[o][i] \in Messages
  BY DEF Inv, Types
<1> QED BY DEF Inv, ReadInv, Types

\* Every step keeps a message in one place.
LEMMA ReadNext ==
    ASSUME Inv, [Next]_vars, SessionAssumption
    PROVE  ReadInv'
<1>1. ASSUME CreateSession PROVE ReadInv'
  <2>1. UNCHANGED <<queue, read>> /\ \A x \in Messages : pc[x] = "done" => pc'[x] = "done"
    BY <1>1 DEF CreateSession, callVars, objectVars
  <2> QED BY <2>1, QuietKeepsPlaces
<1>2. ASSUME NEW o \in Objects, CacheCreated(o) PROVE ReadInv'
  <2>1. UNCHANGED <<queue, read>> /\ \A x \in Messages : pc[x] = "done" => pc'[x] = "done"
    BY <1>2 DEF CacheCreated, CacheAndStart, callVars
  <2> QED BY <2>1, QuietKeepsPlaces
<1>3. ASSUME NEW m \in Messages, HandleUserMessage(m) PROVE ReadInv'
  <2>1. UNCHANGED <<queue, read>> /\ \A x \in Messages : pc[x] = "done" => pc'[x] = "done"
    BY <1>3 DEF HandleUserMessage, Goto, objectVars
  <2> QED BY <2>1, QuietKeepsPlaces
<1>4. ASSUME NEW m \in Messages, CacheLoaded(m) PROVE ReadInv'
  <2>1. UNCHANGED <<queue, read>> /\ \A x \in Messages : pc[x] = "done" => pc'[x] = "done"
    BY <1>4 DEF CacheLoaded, CacheAndStart, Goto
  <2> QED BY <2>1, QuietKeepsPlaces
<1>5. ASSUME NEW m \in Messages, NEW o \in Objects, LoadSession(m, o) PROVE ReadInv'
  <2>1. UNCHANGED <<queue, read>> /\ \A x \in Messages : pc[x] = "done" => pc'[x] = "done"
    BY <1>5 DEF LoadSession, Goto
  <2> QED BY <2>1, QuietKeepsPlaces
<1>6. ASSUME NEW m \in Messages, NumberTurn(m) PROVE ReadInv'
  <2>1. UNCHANGED <<queue, read>> /\ \A x \in Messages : pc[x] = "done" => pc'[x] = "done"
    BY <1>6 DEF NumberTurn, Goto, objectVars
  <2> QED BY <2>1, QuietKeepsPlaces
<1>7. ASSUME NEW m \in Messages, InsertTurn(m) PROVE ReadInv'
  <2>1. UNCHANGED <<queue, read>> /\ \A x \in Messages : pc[x] = "done" => pc'[x] = "done"
    BY <1>7 DEF InsertTurn, Goto, objectVars
  <2> QED BY <2>1, QuietKeepsPlaces
<1>8. ASSUME NEW m \in Messages, ReadCounter(m) PROVE ReadInv'
  <2>1. UNCHANGED <<queue, read>> /\ \A x \in Messages : pc[x] = "done" => pc'[x] = "done"
    BY <1>8 DEF ReadCounter, Goto, objectVars
  <2> QED BY <2>1, QuietKeepsPlaces
<1>9. ASSUME NEW m \in Messages, WriteCounter(m) PROVE ReadInv'
  <2>1. UNCHANGED <<queue, read>> /\ \A x \in Messages : pc[x] = "done" => pc'[x] = "done"
    BY <1>9 DEF WriteCounter, Goto
  <2> QED BY <2>1, QuietKeepsPlaces
<1>10. ASSUME NEW m \in Messages, Send(m) PROVE ReadInv'
  <2>1. /\ Append(queue[session[m]], m) \in Seq(Messages)
        /\ Len(Append(queue[session[m]], m)) = Len(queue[session[m]]) + 1
        /\ \A i \in 1..Len(queue[session[m]]) :
              Append(queue[session[m]], m)[i] = queue[session[m]][i]
        /\ Append(queue[session[m]], m)[Len(queue[session[m]]) + 1] = m
        /\ session[m] \in Objects
    BY <1>10, SendAppends
  <2>2. CASE UNCHANGED queue
    BY <1>10, <2>2 DEF Send, Goto, Inv, Types, ReadInv
  <2>3. CASE queue' = [queue EXCEPT ![session[m]] = Append(@, m)] /\ Goto(m, "done")
    <3>1. ASSUME NEW o \in Objects, NEW i \in 1..Len(queue'[o])
          PROVE  \/ o = session[m] /\ i = Len(queue[o]) + 1 /\ queue'[o][i] = m
                 \/ i \in 1..Len(queue[o]) /\ queue'[o][i] = queue[o][i]
      <4>1. queue \in [Objects -> Seq(Messages)] /\ Len(queue[o]) \in Nat
        BY DEF Inv, Types
      <4>2. CASE o = session[m]
        <5>1. queue'[o] = Append(queue[o], m)
          BY <2>3, <4>1, <4>2
        <5> QED BY <4>2, <5>1
      <4>3. CASE o # session[m]
        BY <2>3
      <4> QED BY <4>2, <4>3
    <3>2. \A o \in Objects : \A i \in 1..Len(queue[o]) : queue[o][i] # m
      BY <1>10 DEF Send, Inv, ReadInv
    <3>3. m \notin read /\ read' = read
      BY <1>10 DEF Send, Inv, ReadInv
    <3>4. \A x \in Messages : pc'[x] = IF x = m THEN "done" ELSE pc[x]
      BY <2>3 DEF Goto, Inv, Types
    <3>5. ASSUME NEW o \in Objects, NEW i \in 1..Len(queue'[o])
          PROVE  pc'[queue'[o][i]] = "done" /\ queue'[o][i] \notin read'
      <4>1. CASE queue'[o][i] = m
        BY <3>3, <3>4, <4>1
      <4>2. CASE i \in 1..Len(queue[o]) /\ queue'[o][i] = queue[o][i]
        <5>1. queue[o][i] \in Messages
          BY <4>2 DEF Inv, Types
        <5> QED BY <3>3, <3>4, <4>2, <5>1 DEF Inv, ReadInv
      <4> QED BY <3>1, <4>1, <4>2
    <3>6. ASSUME NEW o \in Objects, NEW p \in Objects,
                 NEW i \in 1..Len(queue'[o]), NEW j \in 1..Len(queue'[p]),
                 queue'[o][i] = queue'[p][j]
          PROVE  o = p /\ i = j
      <4>1. CASE queue'[o][i] = m
        <5>1. o = session[m] /\ i = Len(queue[o]) + 1
          BY <3>1, <3>2, <4>1
        <5>2. p = session[m] /\ j = Len(queue[p]) + 1
          BY <3>1, <3>2, <3>6, <4>1
        <5> QED BY <5>1, <5>2
      <4>2. CASE queue'[o][i] # m
        <5>1. i \in 1..Len(queue[o]) /\ queue'[o][i] = queue[o][i]
          BY <3>1, <4>2
        <5>2. j \in 1..Len(queue[p]) /\ queue'[p][j] = queue[p][j]
          BY <3>1, <3>6, <4>2
        <5>3. queue[o][i] = queue[p][j]
          BY <3>6, <5>1, <5>2
        <5> QED BY <5>1, <5>2, <5>3 DEF Inv, ReadInv
      <4> QED BY <4>1, <4>2
    <3>7. \A x \in read' : pc'[x] = "done"
      BY <3>3, <3>4 DEF Inv, Types, ReadInv
    <3> QED BY <3>5, <3>6, <3>7 DEF ReadInv
  <2> QED BY <1>10, <2>2, <2>3 DEF Send
<1>11. ASSUME NEW m \in Messages, DatabaseFails(m) PROVE ReadInv'
  <2>1. UNCHANGED <<queue, read>> /\ \A x \in Messages : pc[x] = "done" => pc'[x] = "done"
    BY <1>11 DEF DatabaseFails, Goto, objectVars
  <2> QED BY <2>1, QuietKeepsPlaces
<1>12. ASSUME NEW o \in Objects, ReadMessage(o) PROVE ReadInv'
  <2>1. /\ Tail(queue[o]) \in Seq(Messages) /\ Len(Tail(queue[o])) = Len(queue[o]) - 1
        /\ Len(queue[o]) > 0 /\ Head(queue[o]) = queue[o][1] /\ Head(queue[o]) \in Messages
        /\ \A i \in 1..Len(Tail(queue[o])) : Tail(queue[o])[i] = queue[o][i + 1]
    BY <1>12, ReadTakes
  <2>2. ASSUME NEW p \in Objects, NEW i \in 1..Len(queue'[p])
        PROVE  LET j == IF p = o THEN i + 1 ELSE i
               IN  j \in 1..Len(queue[p]) /\ queue'[p][i] = queue[p][j]
    <3>1. queue \in [Objects -> Seq(Messages)] /\ Len(queue[p]) \in Nat
      BY DEF Inv, Types
    <3>2. queue' = [queue EXCEPT ![o] = Tail(@)]
      BY <1>12 DEF ReadMessage
    <3>3. CASE p = o
      <4>1. queue'[p] = Tail(queue[o])
        BY <3>1, <3>2, <3>3
      <4> QED BY <3>3, <4>1
    <3>4. CASE p # o
      BY <3>2, <3>4
    <3> QED BY <3>3, <3>4
  <2>3. read' = read \cup {queue[o][1]} /\ pc' = pc /\ 1 \in 1..Len(queue[o])
    BY <1>12 DEF ReadMessage, callVars
  <2>4. \A p \in Objects : \A i \in 1..Len(queue[p]) : queue[p][i] = queue[o][1] => p = o /\ i = 1
    BY <2>3 DEF Inv, ReadInv
  <2>5. ASSUME NEW p \in Objects, NEW i \in 1..Len(queue'[p])
        PROVE  pc'[queue'[p][i]] = "done" /\ queue'[p][i] \notin read'
    <3>1. PICK j \in 1..Len(queue[p]) : queue'[p][i] = queue[p][j] /\ (p = o => j # 1)
      BY <2>2
    <3> QED BY <2>3, <3>1 DEF Inv, ReadInv
  <2>6. ASSUME NEW p \in Objects, NEW q \in Objects,
               NEW i \in 1..Len(queue'[p]), NEW j \in 1..Len(queue'[q]), queue'[p][i] = queue'[q][j]
        PROVE  p = q /\ i = j
    <3>1. PICK k \in 1..Len(queue[p]) : queue'[p][i] = queue[p][k] /\ k = IF p = o THEN i + 1 ELSE i
      BY <2>2
    <3>2. PICK l \in 1..Len(queue[q]) : queue'[q][j] = queue[q][l] /\ l = IF q = o THEN j + 1 ELSE j
      BY <2>2
    <3>3. queue[p][k] = queue[q][l]
      BY <2>6, <3>1, <3>2
    <3>4. p = q /\ k = l
      BY <3>3 DEF Inv, ReadInv
    <3> QED BY <3>1, <3>2, <3>4
  <2>7. \A x \in read' : pc'[x] = "done"
    BY <2>3 DEF Inv, ReadInv
  <2> QED BY <2>5, <2>6, <2>7 DEF ReadInv
<1>13. ASSUME NEW o \in Objects, LLMReplies(o) PROVE ReadInv'
  <2>1. UNCHANGED <<queue, read>> /\ \A x \in Messages : pc[x] = "done" => pc'[x] = "done"
    BY <1>13 DEF LLMReplies, callVars
  <2> QED BY <2>1, QuietKeepsPlaces
<1>14. ASSUME NEW o \in Objects, LLMFails(o) PROVE ReadInv'
  <2>1. UNCHANGED <<queue, read>> /\ \A x \in Messages : pc[x] = "done" => pc'[x] = "done"
    BY <1>14 DEF LLMFails, callVars
  <2> QED BY <2>1, QuietKeepsPlaces
<1>15. ASSUME Restart PROVE ReadInv'
  <2>1. \A o \in Objects : queue'[o] = <<>> /\ Len(queue'[o]) = 0
    BY <1>15 DEF Restart
  <2>2. read' = read /\ \A x \in Messages : pc[x] = "done" => pc'[x] = "done"
    BY <1>15 DEF Restart, Ended
  <2>3. \A o \in Objects : 1..Len(queue'[o]) = {}
    BY <2>1
  <2> QED BY <2>2, <2>3 DEF ReadInv, Inv, Types
<1>16. CASE UNCHANGED vars
  BY <1>16 DEF ReadInv, callVars, objectVars, vars, Inv
<1> QED BY <1>1, <1>2, <1>3, <1>4, <1>5, <1>6, <1>7, <1>8, <1>9, <1>10, <1>11, <1>12, <1>13, <1>14,
           <1>15, <1>16 DEF Next, Call

\* One object serves all calls while they do not overlap.
LEMMA OneNext ==
    ASSUME Inv, [Next]_vars, OneInv, SessionAssumption
    PROVE  OneInv'
<1>1. ASSUME CreateSession PROVE OneInv'
  BY <1>1 DEF OneInv, CreateSession, callVars, boundVars, OneCall, UnderWay
<1>2. ASSUME NEW o \in Objects, CacheCreated(o) PROVE OneInv'
  BY <1>2 DEF OneInv, CacheCreated, CacheAndStart, callVars, boundVars, CallAt, Inv, OneCall,
     UnderWay
<1>3. ASSUME NEW m \in Messages, HandleUserMessage(m) PROVE OneInv'
  <2>1. m \in Messages
    OBVIOUS
  <2>2. OneCall' => OneCall /\ UnderWay = {} /\ row # "stored"
    BY <1>3, Zenon DEF HandleUserMessage, OneCall
  <2>3. SUFFICES ASSUME OneCall' PROVE OneInv'
    BY DEF OneInv
  <2>4. UnderWay = {} /\ row = "there" /\ cache \in Objects
    BY <1>3, <2>2, <2>3 DEF HandleUserMessage, OneInv, Inv, Types
  <2>5. row' = row /\ cache' = cache /\ target' = target
    BY <1>3 DEF HandleUserMessage
  <2>6. cache # NoObject
    BY <2>4
  <2>7. pc' = [pc EXCEPT ![m] = "turn"] /\ session' = [session EXCEPT ![m] = cache]
    BY <1>3, <2>6 DEF HandleUserMessage, Goto
  <2>8. pc \in [Messages -> Calls] /\ session \in [Messages -> Objects \cup {NoObject}]
    BY DEF Inv, Types
  <2>9. /\ pc'[m] = "turn" /\ session'[m] = cache
        /\ \A x \in Messages \ {m} : pc'[x] = pc[x]
    BY <2>7, <2>8
  <2>10. \A x \in Messages \ {m} : pc'[x] \in Ended
    BY <2>4, <2>9 DEF UnderWay
  <2>11. \A x, y \in UnderWay' : x = y
    BY <2>10 DEF UnderWay
  <2>12. ASSUME NEW x \in Messages
         PROVE  /\ pc'[x] \notin {"load", "cache"}
                /\ pc'[x] \in Loaded => session'[x] = cache'
                /\ pc'[x] \in {"insert", "count", "store"} => target'[x] = cache'
    <3>1. CASE x = m
      BY <2>5, <2>9, <3>1
    <3>2. CASE x # m
      BY <2>10, <3>2 DEF Ended, Loaded
    <3> QED BY <3>1, <3>2
  <2> QED BY <2>4, <2>5, <2>11, <2>12 DEF OneInv
<1>4. ASSUME NEW m \in Messages, CacheLoaded(m) PROVE OneInv'
  BY <1>4 DEF OneInv, CacheLoaded, boundVars, OneCall
<1>5. ASSUME NEW m \in Messages, NEW o \in Objects, LoadSession(m, o) PROVE OneInv'
  BY <1>5 DEF OneInv, LoadSession, boundVars, OneCall
<1>6. ASSUME NEW m \in Messages, NumberTurn(m) PROVE OneInv'
  BY <1>6 DEF OneInv, NumberTurn, Goto, boundVars, Ended, Loaded, Inv, Types, OneCall, UnderWay
<1>7. ASSUME NEW m \in Messages, InsertTurn(m) PROVE OneInv'
  BY <1>7 DEF OneInv, InsertTurn, Goto, boundVars, Ended, Loaded, OneCall, UnderWay
<1>8. ASSUME NEW m \in Messages, ReadCounter(m) PROVE OneInv'
  BY <1>8 DEF OneInv, ReadCounter, Goto, boundVars, Ended, Loaded, OneCall, UnderWay
<1>9. ASSUME NEW m \in Messages, WriteCounter(m) PROVE OneInv'
  BY <1>9 DEF OneInv, WriteCounter, Goto, boundVars, Ended, Loaded, OneCall, UnderWay
<1>10. ASSUME NEW m \in Messages, Send(m) PROVE OneInv'
  <2>1. /\ row' = row /\ cache' = cache /\ target' = target /\ session' = session /\ turn' = turn
        /\ history' = history /\ lastTurn' = lastTurn /\ read' = read
    BY <1>10 DEF Send
  <2>2. OneCall' => OneCall
    BY <1>10 DEF Send, boundVars, OneCall
  <2>3. /\ pc[m] = "send" /\ pc'[m] \in {"done", "dropped"}
        /\ \A x \in Messages \ {m} : pc'[x] = pc[x]
    BY <1>10 DEF Send, Goto, Inv, Types
  <2> QED BY <2>1, <2>2, <2>3 DEF OneInv, UnderWay, Ended, Loaded
<1>11. ASSUME NEW m \in Messages, DatabaseFails(m) PROVE OneInv'
  BY <1>11 DEF OneInv, DatabaseFails, Goto, boundVars, Ended, Loaded, OneCall, UnderWay
<1>12. ASSUME NEW o \in Objects, ReadMessage(o) PROVE OneInv'
  BY <1>12 DEF OneInv, ReadMessage, callVars, boundVars, OneCall, UnderWay
<1>13. ASSUME NEW o \in Objects, LLMReplies(o) PROVE OneInv'
  BY <1>13 DEF OneInv, LLMReplies, callVars, boundVars, OneCall, UnderWay
<1>14. ASSUME NEW o \in Objects, LLMFails(o) PROVE OneInv'
  BY <1>14 DEF OneInv, LLMFails, callVars, OneCall, UnderWay
<1>15. ASSUME Restart PROVE OneInv'
  BY <1>15 DEF OneInv, Restart, Inv, Types, OneCall
<1>16. CASE UNCHANGED vars
  BY <1>16 DEF OneInv, callVars, boundVars, vars, OneCall, UnderWay
<1> QED BY <1>1, <1>2, <1>3, <1>4, <1>5, <1>6, <1>7, <1>8, <1>9, <1>10, <1>11, <1>12, <1>13, <1>14,
           <1>15, <1>16 DEF Next, Call

\* The messages are finitely many, and so are those of a part of them.
LEMMA CountMessages ==
    ASSUME SessionAssumption
    PROVE  /\ Cardinality(Messages) \in Nat
           /\ \A S \in SUBSET Messages : /\ IsFiniteSet(S) /\ Cardinality(S) \in Nat
                                         /\ Cardinality(S) <= Cardinality(Messages)
<1>1. IsFiniteSet(Messages)
  OBVIOUS
<1> QED BY FS_Subset, FS_CardinalityType

\* One more message is counted than were, when it was not among them.
LEMMA CountOneMore ==
    ASSUME SessionAssumption, NEW S \in SUBSET Messages, NEW m \in Messages \ S
    PROVE  Cardinality(S \cup {m}) = Cardinality(S) + 1
           /\ Cardinality(S) + 1 <= Cardinality(Messages)
<1>1. IsFiniteSet(S) /\ S \cup {m} \in SUBSET Messages
  BY CountMessages
<1>2. Cardinality(S \cup {m}) = Cardinality(S) + 1
  BY <1>1, FS_AddElement
<1> QED BY <1>2, CountMessages

\* The number a call writes at is one of the table's.
LEMMA TurnFits ==
    ASSUME CountInv, SessionAssumption, NEW m \in Messages, pc[m] \in {"insert", "store"}
    PROVE  turn[m] \in Turns
<1>1. Counted \in SUBSET Messages /\ m \notin Counted
  BY DEF Counted
<1>2. Cardinality(Counted) + 1 <= Cardinality(Messages)
  BY <1>1, CountOneMore
<1>3. Cardinality(Counted) \in Nat /\ Cardinality(Messages) \in Nat
  BY <1>1, CountMessages
<1> QED BY <1>2, <1>3 DEF CountInv, Turns

\* The history grows by one row with every call.
LEMMA RowsNext ==
    ASSUME Inv, [Next]_vars, CountInv, OneInv, RowsInv, SessionAssumption
    PROVE  RowsInv'
<1>1. ASSUME CreateSession PROVE RowsInv'
  BY <1>1 DEF RowsInv, CreateSession, callVars, boundVars, OneInv, OneCall, Stored, Writing,
     LastTurn
<1>2. ASSUME NEW o \in Objects, CacheCreated(o) PROVE RowsInv'
  BY <1>2 DEF RowsInv, CacheCreated, CacheAndStart, callVars, boundVars, Loaded, CacheInv, Inv,
     OneInv, OneCall, Stored, Writing, LastTurn
<1>3. ASSUME NEW m \in Messages, HandleUserMessage(m) PROVE RowsInv'
  BY <1>3 DEF RowsInv, HandleUserMessage, Goto, objectVars, vars, Loaded, ReadInv, Inv, Types,
     OneCall, Stored, Writing, LastTurn, CountInv
<1>4. ASSUME NEW m \in Messages, CacheLoaded(m) PROVE RowsInv'
  BY <1>4 DEF RowsInv, CacheLoaded, boundVars, OneInv, OneCall
<1>5. ASSUME NEW m \in Messages, NEW o \in Objects, LoadSession(m, o) PROVE RowsInv'
  BY <1>5 DEF RowsInv, LoadSession, boundVars, OneInv, OneCall
<1>6. ASSUME NEW m \in Messages, NumberTurn(m) PROVE RowsInv'
  <2>1. cache' = cache /\ history' = history /\ lastTurn' = lastTurn
    BY <1>6 DEF NumberTurn, objectVars
  <2>2. SUFFICES ASSUME OneCall, OneCall' PROVE RowsInv'
    BY <1>6 DEF NumberTurn, boundVars, OneCall, RowsInv
  <2>3. /\ pc[m] = "turn" /\ pc'[m] = "insert" /\ turn'[m] = lastTurn[cache] + 1
        /\ \A x \in Messages \ {m} : pc'[x] = pc[x] /\ turn'[x] = turn[x]
    BY <1>6 DEF NumberTurn, Goto, Inv, Types
  <2>4. OneCall /\ cache \in Objects /\ LastTurn = lastTurn[cache] /\ LastTurn \in Nat
    BY <2>2, <2>3 DEF Inv, Types, CallAt, Loaded, LastTurn
  <2>5. \A x \in Messages \ {m} : pc[x] \in Ended
    BY <2>3, <2>4 DEF OneInv, UnderWay, Ended
  <2>6. Stored' = Stored /\ Writing' = Writing /\ LastTurn' = LastTurn
    BY <2>1, <2>3 DEF Stored, Writing, LastTurn
  <2> QED BY <2>1, <2>3, <2>4, <2>6 DEF RowsInv
<1>7. ASSUME NEW m \in Messages, InsertTurn(m) PROVE RowsInv'
  <2>1. cache' = cache /\ turn' = turn /\ lastTurn' = lastTurn
    BY <1>7 DEF InsertTurn, objectVars
  <2>2. SUFFICES ASSUME OneCall, OneCall' PROVE RowsInv'
    BY <1>7 DEF InsertTurn, boundVars, OneCall, RowsInv
  <2>3. /\ pc[m] = "insert" /\ pc'[m] = "count"
        /\ \A x \in Messages \ {m} : pc'[x] = pc[x]
    BY <1>7 DEF InsertTurn, Goto, Inv, Types
  <2>4. OneCall /\ cache \in Objects /\ LastTurn = lastTurn[cache] /\ LastTurn \in Nat
    BY <2>2, <2>3 DEF Inv, Types, CallAt, Loaded, LastTurn
  <2>5. \A x \in Messages \ {m} : pc[x] \in Ended
    BY <2>3, <2>4 DEF OneInv, UnderWay, Ended
  <2>6. turn[m] = LastTurn + 1 /\ LastTurn + 1 \in Turns
    BY <2>3, <2>4, TurnFits DEF RowsInv
  <2>7. \A i \in Turns : history'[i] = IF i = LastTurn + 1 THEN m ELSE history[i]
    BY <1>7, <2>6 DEF InsertTurn, Inv, Types
  <2>8. LastTurn' = LastTurn /\ Writing = {} /\ Writing' # {}
    BY <2>1, <2>3, <2>5 DEF LastTurn, Writing, Ended
  <2>9. Stored' = Stored \cup {m} /\ m \notin Stored /\ m # NoMessage
    BY <2>3 DEF Stored
  <2>10. \A i \in Turns : i \in Nat
    BY DEF Turns
  <2>11. \A i \in Turns :
           history'[i] # NoMessage <=> i <= LastTurn' \/ (i = LastTurn' + 1 /\ Writing' # {})
    BY <2>7, <2>8, <2>2 DEF RowsInv
  <2>12. \A i \in Turns : history'[i] # NoMessage => history'[i] \in Stored'
    BY <2>2, <2>7, <2>9 DEF RowsInv
  <2>13. ASSUME NEW i \in Turns, NEW j \in Turns, history'[i] # NoMessage, history'[i] = history'[j]
         PROVE  i = j
    BY <2>2, <2>7, <2>9, <2>13 DEF RowsInv
  <2>14. ASSUME NEW x \in Stored' PROVE \E i \in Turns : history'[i] = x
    <3>1. CASE x = m
      BY <2>6, <2>7, <3>1
    <3>2. CASE x # m
      <4>1. PICK i \in Turns : history[i] = x
        BY <2>2, <2>9, <3>2 DEF RowsInv
      <4>2. x # NoMessage /\ i # LastTurn + 1
        BY <2>4, <2>8, <4>1 DEF RowsInv, Stored
      <4> QED BY <2>7, <4>1, <4>2
    <3> QED BY <3>1, <3>2
  <2>15. \A x \in Messages :
            /\ pc'[x] \in {"insert", "store"} => turn'[x] = LastTurn' + 1
            /\ pc'[x] \in {"count", "store"} => LastTurn' + 1 \in Turns
                  /\ history'[LastTurn' + 1] = x
            /\ pc'[x] = "send" => LastTurn' \in Turns /\ history'[LastTurn'] = x
    BY <2>3, <2>5, <2>6, <2>7, <2>8 DEF Ended
  <2> QED BY <2>11, <2>12, <2>13, <2>14, <2>15 DEF RowsInv
<1>8. ASSUME NEW m \in Messages, ReadCounter(m) PROVE RowsInv'
  BY <1>8 DEF RowsInv, ReadCounter, Goto, objectVars, boundVars, Inv, Types, OneInv, OneCall,
     Stored, Writing, LastTurn
<1>9. ASSUME NEW m \in Messages, WriteCounter(m) PROVE RowsInv'
  <2>1. cache' = cache /\ turn' = turn /\ history' = history
    BY <1>9 DEF WriteCounter
  <2>2. SUFFICES ASSUME OneCall, OneCall' PROVE RowsInv'
    BY <1>9 DEF WriteCounter, boundVars, OneCall, RowsInv
  <2>3. /\ pc[m] = "store" /\ pc'[m] = "send"
        /\ \A x \in Messages \ {m} : pc'[x] = pc[x]
    BY <1>9 DEF WriteCounter, Goto, Inv, Types
  <2>4. OneCall /\ cache \in Objects /\ LastTurn = lastTurn[cache] /\ LastTurn \in Nat
    BY <2>2, <2>3 DEF Inv, Types, CallAt, Loaded, LastTurn
  <2>5. \A x \in Messages \ {m} : pc[x] \in Ended
    BY <2>3, <2>4 DEF OneInv, UnderWay, Ended
  <2>6. turn[m] = LastTurn + 1 /\ LastTurn + 1 \in Turns /\ history[LastTurn + 1] = m
    BY <2>2, <2>3 DEF RowsInv
  <2>7. target[m] = cache
    BY <2>2, <2>3 DEF OneInv
  <2>8. LastTurn' = LastTurn + 1
    BY <1>9, <2>4, <2>6, <2>7 DEF WriteCounter, LastTurn, Inv, Types
  <2>9. Stored' = Stored
    BY <2>3 DEF Stored
  <2>10. m \in Writing /\ Writing' = {}
    BY <2>3, <2>5 DEF Writing, Ended
  <2>11. \A i \in Turns : i \in Nat
    BY DEF Turns
  <2>12. \A i \in Turns :
           history'[i] # NoMessage <=> i <= LastTurn' \/ (i = LastTurn' + 1 /\ Writing' # {})
    BY <2>1, <2>4, <2>8, <2>10, <2>11 DEF RowsInv
  <2>13. \A x \in Messages :
            /\ pc'[x] \in {"insert", "store"} => turn'[x] = LastTurn' + 1
            /\ pc'[x] \in {"count", "store"} => LastTurn' + 1 \in Turns
                  /\ history'[LastTurn' + 1] = x
            /\ pc'[x] = "send" => LastTurn' \in Turns /\ history'[LastTurn'] = x
    BY <2>1, <2>3, <2>5, <2>6, <2>8 DEF Ended
  <2> QED BY <2>1, <2>2, <2>9, <2>12, <2>13 DEF RowsInv
<1>10. ASSUME NEW m \in Messages, Send(m) PROVE RowsInv'
  <2>1. /\ row' = row /\ cache' = cache /\ target' = target /\ session' = session /\ turn' = turn
        /\ history' = history /\ lastTurn' = lastTurn /\ read' = read
    BY <1>10 DEF Send
  <2>2. OneCall' => OneCall
    BY <1>10 DEF Send, boundVars, OneCall
  <2>3. /\ pc[m] = "send" /\ pc'[m] \in {"done", "dropped"}
        /\ \A x \in Messages \ {m} : pc'[x] = pc[x]
    BY <1>10 DEF Send, Goto, Inv, Types
  <2>4. Stored' = Stored /\ Writing' = Writing /\ LastTurn' = LastTurn
    BY <2>1, <2>3 DEF Stored, Writing, LastTurn
  <2> QED BY <2>1, <2>2, <2>3, <2>4 DEF RowsInv
<1>11. ASSUME NEW m \in Messages, DatabaseFails(m) PROVE RowsInv'
  <2>1. cache' = cache /\ turn' = turn /\ history' = history /\ lastTurn' = lastTurn
    BY <1>11 DEF DatabaseFails, objectVars
  <2>2. OneCall' => OneCall
    BY <1>11 DEF DatabaseFails, boundVars, OneCall
  <2>3. /\ pc[m] \in {"load", "insert"} /\ pc'[m] = "failed"
        /\ \A x \in Messages \ {m} : pc'[x] = pc[x]
    BY <1>11 DEF DatabaseFails, Goto, Inv, Types
  <2>4. Stored' = Stored /\ Writing' = Writing /\ LastTurn' = LastTurn
    BY <2>1, <2>3 DEF Stored, Writing, LastTurn
  <2> QED BY <2>1, <2>2, <2>3, <2>4 DEF RowsInv
<1>12. ASSUME NEW o \in Objects, ReadMessage(o) PROVE RowsInv'
  BY <1>12 DEF RowsInv, ReadMessage, callVars, boundVars, OneCall, Stored, Writing, LastTurn
<1>13. ASSUME NEW o \in Objects, LLMReplies(o) PROVE RowsInv'
  BY <1>13 DEF RowsInv, LLMReplies, callVars, boundVars, OneCall, Stored, Writing, LastTurn
<1>14. ASSUME NEW o \in Objects, LLMFails(o) PROVE RowsInv'
  BY <1>14 DEF RowsInv, LLMFails, callVars, OneCall, Stored, Writing, LastTurn
<1>15. ASSUME Restart PROVE RowsInv'
  BY <1>15 DEF RowsInv, Restart, Inv, Types, OneCall
<1>16. CASE UNCHANGED vars
  BY <1>16 DEF RowsInv, callVars, objectVars, boundVars, vars, OneCall, Stored, Writing, LastTurn
<1> QED BY <1>1, <1>2, <1>3, <1>4, <1>5, <1>6, <1>7, <1>8, <1>9, <1>10, <1>11, <1>12, <1>13, <1>14,
           <1>15, <1>16 DEF Next, Call

\* Queues keep the order.
LEMMA OrderNext ==
    ASSUME Inv, [Next]_vars, OneInv, RowsInv, OrderInv, SessionAssumption
    PROVE  OrderInv'
<1>1. ASSUME CreateSession PROVE OrderInv'
  BY <1>1 DEF OrderInv, CreateSession, objectVars, boundVars, OneCall
<1>2. ASSUME NEW o \in Objects, CacheCreated(o) PROVE OrderInv'
  BY <1>2 DEF OrderInv, CacheCreated, CacheAndStart, boundVars, OneCall
<1>3. ASSUME NEW m \in Messages, HandleUserMessage(m) PROVE OrderInv'
  <2>1. OneCall' => OneCall
    BY <1>3, Zenon DEF HandleUserMessage, OneCall
  <2>2. queue' = queue /\ history' = history
    BY <1>3 DEF HandleUserMessage, objectVars
  <2> QED BY <2>1, <2>2 DEF OrderInv
<1>4. ASSUME NEW m \in Messages, CacheLoaded(m) PROVE OrderInv'
  BY <1>4 DEF OrderInv, CacheLoaded, CacheAndStart, boundVars, OneCall
<1>5. ASSUME NEW m \in Messages, NEW o \in Objects, LoadSession(m, o) PROVE OrderInv'
  BY <1>5 DEF OrderInv, LoadSession, boundVars, OneCall
<1>6. ASSUME NEW m \in Messages, NumberTurn(m) PROVE OrderInv'
  BY <1>6 DEF OrderInv, NumberTurn, objectVars, boundVars, OneCall
<1>7. ASSUME NEW m \in Messages, InsertTurn(m) PROVE OrderInv'
  BY <1>7 DEF OrderInv, InsertTurn, objectVars, boundVars, ReadInv, Inv, OneCall
<1>8. ASSUME NEW m \in Messages, ReadCounter(m) PROVE OrderInv'
  BY <1>8 DEF OrderInv, ReadCounter, objectVars, boundVars, OneCall
<1>9. ASSUME NEW m \in Messages, WriteCounter(m) PROVE OrderInv'
  BY <1>9 DEF OrderInv, WriteCounter, boundVars, OneCall
<1>10. ASSUME NEW m \in Messages, Send(m) PROVE OrderInv'
  <2>1. /\ row' = row /\ cache' = cache /\ target' = target /\ session' = session /\ turn' = turn
        /\ history' = history /\ lastTurn' = lastTurn /\ read' = read
    BY <1>10 DEF Send
  <2>2. OneCall' => OneCall
    BY <1>10 DEF Send, boundVars, OneCall
  <2>3. /\ pc[m] = "send" /\ pc'[m] \in {"done", "dropped"}
        /\ \A x \in Messages \ {m} : pc'[x] = pc[x]
    BY <1>10 DEF Send, Goto, Inv, Types
  <2>4. SUFFICES ASSUME OneCall, NEW o \in Objects,
                        NEW i \in 1..Len(queue'[o]), NEW j \in 1..Len(queue'[o]),
                         NEW k \in Turns, NEW l \in Turns,
                         i < j, history[k] = queue'[o][i], history[l] = queue'[o][j]
                  PROVE  k < l
    BY <2>1, <2>2 DEF OrderInv
  <2>5. CASE queue' = queue
    BY <2>4, <2>5 DEF OrderInv
  <2>6. CASE queue' = [queue EXCEPT ![session[m]] = Append(@, m)]
    <3>1. /\ Append(queue[session[m]], m) \in Seq(Messages)
          /\ Len(Append(queue[session[m]], m)) = Len(queue[session[m]]) + 1
          /\ \A x \in 1..Len(queue[session[m]]) :
                Append(queue[session[m]], m)[x] = queue[session[m]][x]
          /\ Append(queue[session[m]], m)[Len(queue[session[m]]) + 1] = m
          /\ session[m] \in Objects
      BY <1>10, SendAppends
    <3>2. Len(queue[o]) \in Nat
      OBVIOUS
    <3>3. i \in 1..Len(queue[o]) /\ queue'[o][i] = queue[o][i]
      BY <2>4, <2>6
    <3>4. CASE j \in 1..Len(queue[o])
      <4>1. queue'[o][j] = queue[o][j]
        BY <2>6, <3>4
      <4> QED BY <2>4, <3>3, <3>4, <4>1 DEF OrderInv
    <3>5. CASE j \notin 1..Len(queue[o])
      <4>1. queue'[o][j] = m
        BY <2>6, <3>5
      <4>2. LastTurn \in Turns /\ history[LastTurn] = m /\ m # NoMessage
        BY <2>3, <2>4 DEF RowsInv
      <4>3. l = LastTurn
        BY <2>4, <4>1, <4>2 DEF RowsInv
      <4>4. pc[queue[o][i]] = "done" /\ queue[o][i] \in Messages
        BY <3>3 DEF Inv, ReadInv, Types
      <4>5. history[k] # NoMessage /\ k # LastTurn
        BY <2>3, <2>4, <3>3, <4>2, <4>4
      <4>6. Writing = {}
        BY <2>3, <2>4 DEF OneInv, UnderWay, Ended, Writing
      <4>7. k <= LastTurn /\ k \in Nat /\ LastTurn \in Nat
        BY <2>4, <4>2, <4>5, <4>6 DEF RowsInv, Turns
      <4> QED BY <4>3, <4>5, <4>7
    <3> QED BY <3>4, <3>5
  <2> QED BY <1>10, <2>5, <2>6 DEF Send
<1>11. ASSUME NEW m \in Messages, DatabaseFails(m) PROVE OrderInv'
  BY <1>11 DEF OrderInv, DatabaseFails, objectVars, boundVars, OneCall
<1>12. ASSUME NEW o \in Objects, ReadMessage(o) PROVE OrderInv'
  BY <1>12 DEF OrderInv, ReadMessage, boundVars, OneCall
<1>13. ASSUME NEW o \in Objects, LLMReplies(o) PROVE OrderInv'
  BY <1>13 DEF OrderInv, LLMReplies, boundVars, OneCall
<1>14. ASSUME NEW o \in Objects, LLMFails(o) PROVE OrderInv'
  BY <1>14 DEF OrderInv, LLMFails, OneCall
<1>15. ASSUME Restart PROVE OrderInv'
  BY <1>15 DEF OrderInv, Restart
<1>16. CASE UNCHANGED vars
  BY <1>16 DEF OrderInv, objectVars, boundVars, vars, OneCall
<1> QED BY <1>1, <1>2, <1>3, <1>4, <1>5, <1>6, <1>7, <1>8, <1>9, <1>10, <1>11, <1>12, <1>13, <1>14,
           <1>15, <1>16 DEF Next, Call

\* A call that was counted stays counted, one that writes its number is counted
\* next.
LEMMA CountedStays ==
    ASSUME Types, [Next]_vars, NEW n \in Messages, n \in Counted
    PROVE  (n \in Counted)'
<1>1. ASSUME CreateSession PROVE (n \in Counted)'
  BY <1>1 DEF Counted, CreateSession, callVars
<1>2. ASSUME NEW o \in Objects, CacheCreated(o) PROVE (n \in Counted)'
  BY <1>2 DEF Counted, CacheCreated, callVars
<1>3. ASSUME NEW m \in Messages, HandleUserMessage(m) PROVE (n \in Counted)'
  BY <1>3 DEF Counted, HandleUserMessage, Goto
<1>4. ASSUME NEW m \in Messages, CacheLoaded(m) PROVE (n \in Counted)'
  BY <1>4 DEF Counted, CacheLoaded, Goto
<1>5. ASSUME NEW m \in Messages, NEW o \in Objects, LoadSession(m, o) PROVE (n \in Counted)'
  BY <1>5 DEF Counted, LoadSession, Goto
<1>6. ASSUME NEW m \in Messages, NumberTurn(m) PROVE (n \in Counted)'
  BY <1>6 DEF Counted, NumberTurn, Goto
<1>7. ASSUME NEW m \in Messages, InsertTurn(m) PROVE (n \in Counted)'
  BY <1>7 DEF Counted, InsertTurn, Goto
<1>8. ASSUME NEW m \in Messages, ReadCounter(m) PROVE (n \in Counted)'
  BY <1>8 DEF Counted, ReadCounter, Goto
<1>9. ASSUME NEW m \in Messages, WriteCounter(m) PROVE (n \in Counted)'
  BY <1>9 DEF Counted, WriteCounter, Goto
<1>10. ASSUME NEW m \in Messages, Send(m) PROVE (n \in Counted)'
  BY <1>10 DEF Counted, Send, Goto, Types
<1>11. ASSUME NEW m \in Messages, DatabaseFails(m) PROVE (n \in Counted)'
  BY <1>11 DEF Counted, DatabaseFails, Goto
<1>12. ASSUME NEW o \in Objects, ReadMessage(o) PROVE (n \in Counted)'
  BY <1>12 DEF Counted, ReadMessage, callVars
<1>13. ASSUME NEW o \in Objects, LLMReplies(o) PROVE (n \in Counted)'
  BY <1>13 DEF Counted, LLMReplies, callVars
<1>14. ASSUME NEW o \in Objects, LLMFails(o) PROVE (n \in Counted)'
  BY <1>14 DEF Counted, LLMFails, callVars
<1>15. ASSUME Restart PROVE (n \in Counted)'
  BY <1>15 DEF Counted, Restart
<1>16. CASE UNCHANGED vars
  BY <1>16 DEF Counted, callVars, vars
<1> QED BY <1>1, <1>2, <1>3, <1>4, <1>5, <1>6, <1>7, <1>8, <1>9, <1>10, <1>11, <1>12, <1>13, <1>14,
           <1>15, <1>16 DEF Next, Call

\* A step that numbers nothing keeps the bounds.
LEMMA QuietKeepsBound ==
    ASSUME Inv, CountInv, Cardinality(Counted) \in Nat, Cardinality(Counted)' \in Nat,
           Cardinality(Counted) <= Cardinality(Counted)', lastTurn' = lastTurn,
           \A x \in Messages : pc'[x] \in {"insert", "store"} => pc'[x] = pc[x] /\ turn'[x] = turn[x]
    PROVE  CountInv'
<1>1. ASSUME NEW o \in Objects PROVE lastTurn'[o] <= Cardinality(Counted)'
  <2>1. lastTurn[o] \in Nat /\ lastTurn[o] <= Cardinality(Counted)
    BY DEF CountInv, Inv, Types
  <2> QED BY <2>1
<1>2. ASSUME NEW x \in Messages, pc'[x] \in {"insert", "store"}
      PROVE  turn'[x] \in 1..Cardinality(Counted)' + 1
  <2>1. turn[x] \in 1..Cardinality(Counted) + 1
    BY <1>2 DEF CountInv
  <2> QED BY <1>2, <2>1
<1> QED BY <1>1 DEF CountInv

\* The numbers stay within what is counted.
LEMMA BoundNext ==
    ASSUME Inv, [Next]_vars, CountInv, SessionAssumption,
           Cardinality(Counted) \in Nat, Cardinality(Counted)' \in Nat,
           Cardinality(Counted) <= Cardinality(Counted)',
           \A m \in Messages : WriteCounter(m) => Cardinality(Counted)' = Cardinality(Counted) + 1
    PROVE  CountInv'
<1>1. ASSUME CreateSession PROVE CountInv'
  <2>1. /\ lastTurn' = lastTurn
        /\ \A x \in Messages : pc'[x] \in {"insert", "store"} => pc'[x] = pc[x] /\ turn'[x] = turn[x]
    BY <1>1 DEF CreateSession, callVars, objectVars
  <2> QED BY <2>1, QuietKeepsBound
<1>2. ASSUME NEW o \in Objects, CacheCreated(o) PROVE CountInv'
  <2>1. /\ lastTurn' = lastTurn
        /\ \A x \in Messages : pc'[x] \in {"insert", "store"} => pc'[x] = pc[x] /\ turn'[x] = turn[x]
    BY <1>2 DEF CacheCreated, CacheAndStart, callVars
  <2> QED BY <2>1, QuietKeepsBound
<1>3. ASSUME NEW m \in Messages, HandleUserMessage(m) PROVE CountInv'
  <2>1. /\ lastTurn' = lastTurn
        /\ \A x \in Messages : pc'[x] \in {"insert", "store"} => pc'[x] = pc[x] /\ turn'[x] = turn[x]
    BY <1>3 DEF HandleUserMessage, Goto, objectVars
  <2> QED BY <2>1, QuietKeepsBound
<1>4. ASSUME NEW m \in Messages, CacheLoaded(m) PROVE CountInv'
  <2>1. /\ lastTurn' = lastTurn
        /\ \A x \in Messages : pc'[x] \in {"insert", "store"} => pc'[x] = pc[x] /\ turn'[x] = turn[x]
    BY <1>4 DEF CacheLoaded, CacheAndStart, Goto
  <2> QED BY <2>1, QuietKeepsBound
<1>5. ASSUME NEW m \in Messages, NEW o \in Objects, LoadSession(m, o) PROVE CountInv'
  <2>1. /\ lastTurn' = lastTurn
        /\ \A x \in Messages : pc'[x] \in {"insert", "store"} => pc'[x] = pc[x] /\ turn'[x] = turn[x]
    BY <1>5 DEF LoadSession, Goto
  <2> QED BY <2>1, QuietKeepsBound
<1>6. ASSUME NEW m \in Messages, NumberTurn(m) PROVE CountInv'
  <2>1. /\ lastTurn' = lastTurn /\ cache \in Objects /\ turn'[m] = lastTurn[cache] + 1
        /\ \A x \in Messages \ {m} : pc'[x] = pc[x] /\ turn'[x] = turn[x]
    BY <1>6 DEF NumberTurn, Goto, objectVars, Inv, Types, CallAt, Loaded
  <2>2. lastTurn[cache] \in Nat /\ lastTurn[cache] <= Cardinality(Counted)
    BY <2>1 DEF CountInv, Inv, Types
  <2>3. turn'[m] \in 1..Cardinality(Counted)' + 1
    BY <2>1, <2>2
  <2>4. ASSUME NEW o \in Objects PROVE lastTurn'[o] <= Cardinality(Counted)'
    <3>1. lastTurn[o] \in Nat /\ lastTurn[o] <= Cardinality(Counted)
      BY DEF CountInv, Inv, Types
    <3> QED BY <2>1, <3>1
  <2>5. ASSUME NEW x \in Messages \ {m}, pc'[x] \in {"insert", "store"}
        PROVE  turn'[x] \in 1..Cardinality(Counted)' + 1
    <3>1. turn[x] \in 1..Cardinality(Counted) + 1
      BY <2>1, <2>5 DEF CountInv
    <3> QED BY <2>1, <3>1
  <2> QED BY <2>3, <2>4, <2>5 DEF CountInv
<1>7. ASSUME NEW m \in Messages, InsertTurn(m) PROVE CountInv'
  <2>1. /\ lastTurn' = lastTurn
        /\ \A x \in Messages : pc'[x] \in {"insert", "store"} => pc'[x] = pc[x] /\ turn'[x] = turn[x]
    BY <1>7 DEF InsertTurn, Goto, objectVars
  <2> QED BY <2>1, QuietKeepsBound
<1>8. ASSUME NEW m \in Messages, ReadCounter(m) PROVE CountInv'
  <2>1. /\ lastTurn' = lastTurn /\ target[m] \in Objects /\ turn'[m] = lastTurn[target[m]] + 1
        /\ \A x \in Messages \ {m} : pc'[x] = pc[x] /\ turn'[x] = turn[x]
    BY <1>8 DEF ReadCounter, Goto, objectVars, Inv, Types, CallAt
  <2>2. lastTurn[target[m]] \in Nat /\ lastTurn[target[m]] <= Cardinality(Counted)
    BY <2>1 DEF CountInv, Inv, Types
  <2>3. turn'[m] \in 1..Cardinality(Counted)' + 1
    BY <2>1, <2>2
  <2>4. ASSUME NEW o \in Objects PROVE lastTurn'[o] <= Cardinality(Counted)'
    <3>1. lastTurn[o] \in Nat /\ lastTurn[o] <= Cardinality(Counted)
      BY DEF CountInv, Inv, Types
    <3> QED BY <2>1, <3>1
  <2>5. ASSUME NEW x \in Messages \ {m}, pc'[x] \in {"insert", "store"}
        PROVE  turn'[x] \in 1..Cardinality(Counted)' + 1
    <3>1. turn[x] \in 1..Cardinality(Counted) + 1
      BY <2>1, <2>5 DEF CountInv
    <3> QED BY <2>1, <3>1
  <2> QED BY <2>3, <2>4, <2>5 DEF CountInv
<1>9. ASSUME NEW m \in Messages, WriteCounter(m) PROVE CountInv'
  <2>1. turn[m] \in Nat /\ turn[m] <= Cardinality(Counted)'
    <3>1. Cardinality(Counted)' = Cardinality(Counted) + 1
      BY <1>9
    <3>2. turn[m] \in 1..Cardinality(Counted) + 1
      BY <1>9 DEF WriteCounter, CountInv
    <3> QED BY <3>1, <3>2
  <2>2. turn' = turn /\ lastTurn' = [lastTurn EXCEPT ![target[m]] = turn[m]]
    BY <1>9 DEF WriteCounter
  <2>3. \A x \in Messages : pc'[x] \in {"insert", "store"} => pc[x] = pc'[x]
    BY <1>9 DEF WriteCounter, Goto
  <2>4. ASSUME NEW o \in Objects PROVE lastTurn'[o] <= Cardinality(Counted)'
    <3>1. lastTurn[o] \in Nat /\ lastTurn[o] <= Cardinality(Counted)
      BY DEF CountInv, Inv, Types
    <3>2. lastTurn'[o] = lastTurn[o] \/ lastTurn'[o] = turn[m]
      BY <2>2
    <3> QED BY <2>1, <3>1, <3>2
  <2>5. ASSUME NEW x \in Messages, pc'[x] \in {"insert", "store"}
        PROVE  turn'[x] \in 1..Cardinality(Counted)' + 1
    <3>1. turn[x] \in 1..Cardinality(Counted) + 1
      BY <2>3, <2>5 DEF CountInv
    <3> QED BY <2>2, <3>1
  <2> QED BY <2>4, <2>5 DEF CountInv
<1>10. ASSUME NEW m \in Messages, Send(m) PROVE CountInv'
  <2>1. /\ lastTurn' = lastTurn
        /\ \A x \in Messages : pc'[x] \in {"insert", "store"} => pc'[x] = pc[x] /\ turn'[x] = turn[x]
    BY <1>10 DEF Send, Goto, Inv, Types
  <2> QED BY <2>1, QuietKeepsBound
<1>11. ASSUME NEW m \in Messages, DatabaseFails(m) PROVE CountInv'
  <2>1. /\ lastTurn' = lastTurn
        /\ \A x \in Messages : pc'[x] \in {"insert", "store"} => pc'[x] = pc[x] /\ turn'[x] = turn[x]
    BY <1>11 DEF DatabaseFails, Goto, objectVars
  <2> QED BY <2>1, QuietKeepsBound
<1>12. ASSUME NEW o \in Objects, ReadMessage(o) PROVE CountInv'
  <2>1. /\ lastTurn' = lastTurn
        /\ \A x \in Messages : pc'[x] \in {"insert", "store"} => pc'[x] = pc[x] /\ turn'[x] = turn[x]
    BY <1>12 DEF ReadMessage, callVars
  <2> QED BY <2>1, QuietKeepsBound
<1>13. ASSUME NEW o \in Objects, LLMReplies(o) PROVE CountInv'
  <2>1. /\ lastTurn' = lastTurn
        /\ \A x \in Messages : pc'[x] \in {"insert", "store"} => pc'[x] = pc[x] /\ turn'[x] = turn[x]
    BY <1>13 DEF LLMReplies, callVars
  <2> QED BY <2>1, QuietKeepsBound
<1>14. ASSUME NEW o \in Objects, LLMFails(o) PROVE CountInv'
  <2>1. /\ lastTurn' = lastTurn
        /\ \A x \in Messages : pc'[x] \in {"insert", "store"} => pc'[x] = pc[x] /\ turn'[x] = turn[x]
    BY <1>14 DEF LLMFails, callVars
  <2> QED BY <2>1, QuietKeepsBound
<1>15. ASSUME Restart PROVE CountInv'
  <2>1. /\ lastTurn' = lastTurn
        /\ \A x \in Messages : pc'[x] \in {"insert", "store"} => pc'[x] = pc[x] /\ turn'[x] = turn[x]
    BY <1>15 DEF Restart
  <2> QED BY <2>1, QuietKeepsBound
<1>16. CASE UNCHANGED vars
  BY <1>16 DEF CountInv, callVars, objectVars, vars, Inv, Types
<1> QED BY <1>1, <1>2, <1>3, <1>4, <1>5, <1>6, <1>7, <1>8, <1>9, <1>10, <1>11, <1>12, <1>13, <1>14,
           <1>15, <1>16 DEF Next, Call

\* Every step keeps the numbers within what is counted.
LEMMA CountNext ==
    ASSUME Inv, CountInv, [Next]_vars, SessionAssumption
    PROVE  CountInv'
<1>1. Counted \in SUBSET Messages /\ Counted' \in SUBSET Messages
  BY DEF Counted
<1>2. Counted \subseteq Counted'
  BY CountedStays DEF Counted, Inv
<1>3. /\ Cardinality(Counted) \in Nat /\ Cardinality(Counted)' \in Nat
      /\ Cardinality(Counted) <= Cardinality(Counted)'
  <2>1. IsFiniteSet(Counted')
    BY <1>1, CountMessages
  <2> QED BY <1>1, <1>2, CountMessages, FS_Subset
<1>4. ASSUME NEW m \in Messages, WriteCounter(m)
      PROVE  Cardinality(Counted)' = Cardinality(Counted) + 1
  <2>1. /\ pc[m] = "store" /\ pc'[m] = "send"
        /\ \A x \in Messages \ {m} : pc'[x] = pc[x]
    BY <1>4 DEF WriteCounter, Goto, Inv, Types
  <2>2. Counted' = Counted \cup {m} /\ m \notin Counted
    BY <2>1 DEF Counted
  <2> QED BY <1>1, <2>2, CountOneMore
<1> QED BY <1>3, <1>4, BoundNext

------------------------------------------------------------------------------
HistoryInv == CountInv /\ OneInv /\ RowsInv /\ OrderInv
IInv == Inv /\ HistoryInv

\* The initial state has the invariant.
LEMMA InvInit ==
    ASSUME Init, SessionAssumption
    PROVE  IInv
<1>1. Cardinality(Counted) \in Nat
  BY CountMessages DEF Counted
<1>2. overlap \in BOOLEAN
  BY Zenon DEF Init
<1>3. failures \in 0..MaxFailures /\ restarts \in 0..MaxRestarts
  BY DEF Init
<1>4. /\ queue \in [Objects -> Seq(Messages)]
      /\ \A o \in Objects : Len(queue[o]) = 0 /\ QueueCap >= 0
  BY DEF Init
<1>5. Types
  BY <1>3, <1>4 DEF Init, Types, Loops, Calls, Ended
<1>6. (\A m \in Messages : CallAt(m)) /\ CacheInv
  BY DEF Init, CallAt, Loaded, CacheInv
<1>7. ReadInv
  BY DEF Init, ReadInv
<1>8. CountInv
  BY <1>1 DEF Init, CountInv
<1>9. OneInv
  BY DEF Init, OneInv, UnderWay, Ended
<1>10. RowsInv
  <2>1. \A i \in Turns : i \in Nat /\ i # 0
    BY DEF Turns
  <2>2. Stored = {} /\ Writing = {} /\ LastTurn = 0
    BY DEF Init, Stored, Writing, LastTurn
  <2> QED BY <2>1, <2>2 DEF Init, RowsInv
<1>11. OrderInv
  BY <1>4 DEF OrderInv
<1> QED BY <1>5, <1>6, <1>7, <1>8, <1>9, <1>10, <1>11 DEF IInv, Inv, HistoryInv

LEMMA InvNext ==
    ASSUME IInv, [Next]_vars, SessionAssumption
    PROVE  IInv'
<1>1. Inv'
  BY TypesNext, CallNext, CacheNext, ReadNext DEF IInv, Inv
<1>2. HistoryInv'
  BY CountNext, OneNext, RowsNext, OrderNext DEF IInv, HistoryInv
<1> QED BY <1>1, <1>2 DEF IInv

LEMMA InvInvariant == Spec => []IInv
BY InvInit, InvNext, SessionAssumption, PTL DEF Spec

\* No counter is over the number of messages.
LEMMA TypeCorrect ==
    ASSUME IInv, SessionAssumption
    PROVE  TypeOK
<1>1. Counted \in SUBSET Messages
  BY DEF Counted
<1>2. /\ Cardinality(Counted) \in Nat /\ Cardinality(Messages) \in Nat
      /\ Cardinality(Counted) <= Cardinality(Messages)
  BY <1>1, CountMessages
<1>3. ASSUME NEW o \in Objects PROVE lastTurn[o] \in {0} \cup Turns
  BY <1>2 DEF IInv, Inv, Types, HistoryInv, CountInv, Turns
<1>4. lastTurn \in [Objects -> {0} \cup Turns]
  BY <1>3 DEF IInv, Inv, Types
<1> QED BY <1>4 DEF IInv, Inv, Types, TypeOK

\* Every variable of a session has its type, no input queue is over its
\* capacity, and a call works on objects whose loop was started in this process,
\* whatever GetSession, a failed statement or a restart does in between.
THEOREM CallsAreAlwaysSound == Spec => []CallsAreSound
<1>1. IInv => SessionHasLoop
  <2>1. SUFFICES ASSUME Inv PROVE SessionHasLoop
    BY DEF IInv
  <2>2. \A m \in Messages : pc[m] \in Calls \ (Ended \cup {"load", "cache"}) => pc[m] \in Loaded
    BY DEF Calls, Loaded
  <2> QED BY <2>1, <2>2 DEF Inv, CallAt, CacheInv, SessionHasLoop
<1>2. IInv => CallsAreSound
  BY <1>1, TypeCorrect, SessionAssumption DEF CallsAreSound
<1> QED BY <1>2, InvInvariant, PTL

\* A message is in one place of one input queue, and once read it is in none:
\* no orchestratorLoop acts on a message twice, for any number of Session objects
\* that race for the same row.
THEOREM MessagesAreReadOnce == Spec => []MessageIsReadOnce
<1>1. ASSUME Inv PROVE MessageIsReadOnce
  <2>1. \A o \in Objects : DOMAIN queue[o] = 1..Len(queue[o])
    OBVIOUS
  <2>2. ASSUME NEW o \in Objects PROVE IsInjective(queue[o])
    BY <1>1 DEF Inv, ReadInv, IsInjective
  <2>3. ASSUME NEW m \in Messages, Queued(m) PROVE pc[m] = "done" /\ m \notin read
    BY <1>1, <2>3 DEF Inv, ReadInv, Queued
  <2>4. ASSUME NEW m \in Messages, NEW o \in Objects, NEW p \in Objects,
               \E i \in DOMAIN queue[o] : queue[o][i] = m,
               \E i \in DOMAIN queue[p] : queue[p][i] = m
        PROVE  o = p
    <3>1. PICK i \in 1..Len(queue[o]) : queue[o][i] = m
      BY <2>1, <2>4
    <3>2. PICK j \in 1..Len(queue[p]) : queue[p][j] = m
      BY <2>4
    <3> QED BY <1>1, <3>1, <3>2 DEF Inv, ReadInv
  <2>5. \A m \in read : pc[m] = "done"
    BY <1>1 DEF Inv, ReadInv
  <2> QED BY <2>2, <2>3, <2>4, <2>5 DEF MessageIsReadOnce
<1>2. IInv => MessageIsReadOnce
  BY <1>1 DEF IInv
<1> QED BY <1>2, InvInvariant, PTL

\* While calls come one at a time, the rows of conversation_history are the
\* stored messages in the order of their numbers, without a gap, and the queue
\* keeps that order, also when statements fail.
THEOREM HistoryIsAlwaysComplete == Spec => []HistoryIsComplete
<1>1. ASSUME IInv PROVE HistoryIsComplete
  <2>1. \A o \in Objects : DOMAIN queue[o] = 1..Len(queue[o])
    OBVIOUS
  <2>2. \A i \in Turns : i \in Nat
    BY DEF Turns
  <2>3. LastTurn \in Nat
    BY <1>1 DEF IInv, Inv, Types, LastTurn
  <2>4. ASSUME OneCall, NEW i \in Turns, NEW j \in Turns, i < j, history[j] # NoMessage
        PROVE  history[i] # NoMessage
    BY <1>1, <2>2, <2>3, <2>4 DEF IInv, HistoryInv, RowsInv
  <2>5. OneCall => \A m \in Stored : \E i \in Turns : history[i] = m
    BY <1>1 DEF IInv, HistoryInv, RowsInv
  <2>6. OneCall => \A o \in Objects : \A i, j \in DOMAIN queue[o] : \A k, l \in Turns :
            i < j /\ history[k] = queue[o][i] /\ history[l] = queue[o][j] => k < l
    BY <1>1, <2>1 DEF IInv, HistoryInv, OrderInv
  <2> QED BY <2>4, <2>5, <2>6 DEF HistoryIsComplete, OneCall
<1>2. IInv => HistoryIsComplete
  BY <1>1
<1> QED BY <1>2, InvInvariant, PTL

=============================================================================
