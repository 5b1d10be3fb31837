------------------------------- MODULE Session -------------------------------
(***************************************************************************)
(* One session of internal/runtime/session.go: its row, the cache of       *)
(* Session objects, an input queue and an orchestratorLoop per object, and *)
(* the conversation history.  HandleUserMessage is called by the Telegram  *)
(* webhooks and by the agents of root tasks, concurrently; every call is   *)
(* named by its message.                                                   *)
(***************************************************************************)
EXTENDS Integers, SequencesExt

CONSTANTS Messages,       \* the messages, one call of HandleUserMessage each
          NoMessage,      \* no message
          Objects,        \* the Session objects that may be allocated
          NoObject,       \* no object
          QueueCap,       \* capacity of InputQueue (100 in the code)
          MaxConcurrent,  \* bound on the calls under way, CreateSession included
          MaxFailures,    \* bound on the LLM calls that fail
          MaxRestarts     \* bound on the restarts of the process

ASSUME SessionAssumption ==
    /\ IsFiniteSet(Messages)
    /\ NoMessage \notin Messages
    /\ NoObject \notin Objects
    /\ QueueCap \in Nat \ {0}
    /\ MaxConcurrent \in Nat
    /\ MaxFailures \in Nat
    /\ MaxRestarts \in Nat

VARIABLES row,       \* the sessions row: "none", "stored" while CreateSession
                     \* has still to cache its object, "there"
          cache,     \* s.sessions[sessionID]
          used,      \* the objects allocated so far
          loop,      \* loop[o]: orchestratorLoop of object o
          queue,     \* queue[o]: InputQueue of o
          lastTurn,  \* lastTurn[o]: History.currentTurnID of o
          pc,        \* pc[m]: where the call of m is
          session,   \* session[m]: the object GetSession gave to the call of m
          target,    \* target[m]: the object AddConversationTurn works on
          turn,      \* turn[m]: the TurnID of m, then the counter it stores
          history,   \* history[i]: the row of conversation_history with TurnID i
          read,      \* the messages a loop has taken
          failures,  \* LLM calls that failed
          restarts,  \* restarts of the process
          overlap    \* an observer: two calls have been under way at once

callVars == <<pc, session, target, turn>>
objectVars == <<used, loop, queue, lastTurn>>
boundVars == <<failures, restarts, overlap>>
vars == <<row, cache, objectVars, callVars, history, read, boundVars>>

Turns == 1..Cardinality(Messages)
Ended == {"new", "done", "dropped", "failed"}
Calls == Ended \cup {"load", "cache", "turn", "insert", "count", "store", "send"}
Loops == {"none", "waiting", "thinking", "dead"}

Init == /\ row = "none"
        /\ cache = NoObject
        /\ used = {}
        /\ loop = [o \in Objects |-> "none"]
        /\ queue = [o \in Objects |-> <<>>]
        /\ lastTurn = [o \in Objects |-> 0]
        /\ pc = [m \in Messages |-> "new"]
        /\ session = [m \in Messages |-> NoObject]
        /\ target = [m \in Messages |-> NoObject]
        /\ turn = [m \in Messages |-> 0]
        /\ history = [i \in Turns |-> NoMessage]
        /\ read = {}
        /\ failures = 0
        /\ restarts = 0
        /\ overlap = FALSE

UnderWay == {m \in Messages : pc[m] \notin Ended}
Goto(m, loc) == pc' = [pc EXCEPT ![m] = loc]

\* A loaded object in the cache, without its background loop.
CacheOnly(o) == /\ cache' = o
                /\ UNCHANGED <<loop, queue, lastTurn>>

\* The object enters the cache, over the one that may be there, and its
\* background loop starts.
CacheAndStart(o) == /\ cache' = o
                    /\ loop' = [loop EXCEPT ![o] = "waiting"]
                    /\ UNCHANGED <<queue, lastTurn>>

------------------------------------------------------------------------------
(* CreateSession and GetSession.                                             *)

CreateSession ==
    /\ row = "none"
    /\ row' = "stored"
    /\ UNCHANGED <<cache, objectVars, callVars, history, read, boundVars>>

\* The rest of CreateSession; whoever found the row meanwhile has loaded it.
CacheCreated(o) ==
    /\ row = "stored"
    /\ o \notin used
    /\ row' = "there"
    /\ used' = used \cup {o}
    /\ CacheAndStart(o)
    /\ UNCHANGED <<callVars, history, read, boundVars>>

\* HandleUserMessage is called for a session that has a row; GetSession looks
\* into the cache.
HandleUserMessage(m) ==
    /\ row # "none"
    /\ pc[m] = "new"
    /\ Cardinality(UnderWay) + (IF row = "stored" THEN 1 ELSE 0) < MaxConcurrent
    /\ session' = [session EXCEPT ![m] = cache]
    /\ Goto(m, IF cache = NoObject THEN "load" ELSE "turn")
    /\ overlap' = (overlap \/ UnderWay # {} \/ row = "stored")
    /\ UNCHANGED <<row, cache, objectVars, target, turn, history, read, failures,
                   restarts>>

\* The row is read and an object is built from it, or the statement fails.
LoadSession(m, o) ==
    /\ pc[m] = "load"
    /\ o \notin used
    /\ used' = used \cup {o}
    /\ session' = [session EXCEPT ![m] = o]
    /\ Goto(m, "cache")
    /\ UNCHANGED <<row, cache, loop, queue, lastTurn, target, turn, history, read,
                   boundVars>>

CacheLoaded(m) ==
    /\ pc[m] = "cache"
    /\ CacheAndStart(session[m])
    /\ Goto(m, "turn")
    /\ UNCHANGED <<row, used, session, target, turn, history, read, boundVars>>

------------------------------------------------------------------------------
(* AddConversationTurn, without a lock but for the lookup in the cache.      *)

NumberTurn(m) ==
    /\ pc[m] = "turn"
    /\ target' = [target EXCEPT ![m] = cache]
    /\ turn' = [turn EXCEPT ![m] = lastTurn[cache] + 1]
    /\ Goto(m, "insert")
    /\ UNCHANGED <<row, cache, objectVars, session, history, read, boundVars>>

\* INSERT ... ON CONFLICT DO UPDATE: a row with the same number is overwritten.
InsertTurn(m) ==
    /\ pc[m] = "insert"
    /\ history' = [history EXCEPT ![turn[m]] = m]
    /\ Goto(m, "count")
    /\ UNCHANGED <<row, cache, objectVars, session, target, turn, read, boundVars>>

\* A statement fails: the call returns the error.
DatabaseFails(m) ==
    /\ pc[m] \in {"load", "insert"}
    /\ Goto(m, "failed")
    /\ UNCHANGED <<row, cache, objectVars, session, target, turn, history, read,
                   boundVars>>

\* The counter is not counted up after the row was written.
ReadCounterOnly(m) ==
    /\ pc[m] = "count"
    /\ Goto(m, "send")
    /\ UNCHANGED <<row, cache, objectVars, session, target, turn, history, read,
                   boundVars>>

\* currentTurnID++ is a read and a write, with no lock: a data race.
ReadCounter(m) ==
    /\ pc[m] = "count"
    /\ turn' = [turn EXCEPT ![m] = lastTurn[target[m]] + 1]
    /\ Goto(m, "store")
    /\ UNCHANGED <<row, cache, objectVars, session, target, history, read, boundVars>>

WriteCounter(m) ==
    /\ pc[m] = "store"
    /\ lastTurn' = [lastTurn EXCEPT ![target[m]] = turn[m]]
    /\ Goto(m, "send")
    /\ UNCHANGED <<row, cache, used, loop, queue, session, target, turn, history, read,
                   boundVars>>

\* A send that does not look at the capacity of the channel.
SendUnbounded(m) ==
    /\ pc[m] = "send"
    /\ queue' = [queue EXCEPT ![session[m]] = Append(@, m)]
    /\ Goto(m, "done")
    /\ UNCHANGED <<row, cache, used, loop, lastTurn, session, target, turn, history,
                   read, boundVars>>

\* The message goes to the input queue of the object GetSession returned, or
\* is dropped with a warning when that is full.
Send(m) ==
    /\ pc[m] = "send"
    /\ \/ /\ Len(queue[session[m]]) < QueueCap
          /\ queue' = [queue EXCEPT ![session[m]] = Append(@, m)]
          /\ Goto(m, "done")
       \/ /\ Len(queue[session[m]]) = QueueCap
          /\ Goto(m, "dropped")
          /\ UNCHANGED queue
    /\ UNCHANGED <<row, cache, used, loop, lastTurn, session, target, turn, history,
                   read, boundVars>>

------------------------------------------------------------------------------
(* orchestratorLoop.                                                         *)

\* A loop that leaves the message it works on in the queue.
PeekMessage(o) ==
    /\ loop[o] = "waiting"
    /\ queue[o] # <<>>
    /\ read' = read \cup {Head(queue[o])}
    /\ loop' = [loop EXCEPT ![o] = "thinking"]
    /\ UNCHANGED <<row, cache, used, queue, lastTurn, callVars, history, boundVars>>

ReadMessage(o) ==
    /\ loop[o] = "waiting"
    /\ queue[o] # <<>>
    /\ read' = read \cup {Head(queue[o])}
    /\ queue' = [queue EXCEPT ![o] = Tail(@)]
    /\ loop' = [loop EXCEPT ![o] = "thinking"]
    /\ UNCHANGED <<row, cache, used, lastTurn, callVars, history, boundVars>>

\* The reply, its tool calls and the follow-up call, which may fail.
LLMReplies(o) ==
    /\ loop[o] = "thinking"
    /\ loop' = [loop EXCEPT ![o] = "waiting"]
    /\ UNCHANGED <<row, cache, used, queue, lastTurn, callVars, history, read, boundVars>>

\* The LLM call fails: the loop returns, the object stays in the cache.
LLMFails(o) ==
    /\ loop[o] = "thinking"
    /\ failures < MaxFailures
    /\ failures' = failures + 1
    /\ loop' = [loop EXCEPT ![o] = "dead"]
    /\ UNCHANGED <<row, cache, used, queue, lastTurn, callVars, history, read, restarts,
                   overlap>>

\* The process is killed and started again: only the tables are left.
Restart ==
    /\ restarts < MaxRestarts
    /\ row # "none"
    /\ restarts' = restarts + 1
    /\ row' = "there"
    /\ cache' = NoObject
    /\ loop' = [o \in Objects |-> "none"]
    /\ queue' = [o \in Objects |-> <<>>]
    /\ pc' = [m \in Messages |-> IF pc[m] \in Ended THEN pc[m] ELSE "failed"]
    /\ UNCHANGED <<used, lastTurn, session, target, turn, history, read, failures,
                   overlap>>

Call(m) == \/ HandleUserMessage(m) \/ CacheLoaded(m)
           \/ \E o \in Objects : LoadSession(m, o)
           \/ NumberTurn(m) \/ InsertTurn(m) \/ ReadCounter(m) \/ WriteCounter(m)
           \/ Send(m)

Next == \/ CreateSession
        \/ \E o \in Objects : CacheCreated(o)
        \/ \E m \in Messages : Call(m) \/ DatabaseFails(m)
        \/ \E o \in Objects : ReadMessage(o) \/ LLMReplies(o) \/ LLMFails(o)
        \/ Restart

Spec == Init /\ [][Next]_vars

\* Goroutines run while they can.
Fairness == /\ \A m \in Messages : WF_vars(Call(m))
            /\ \A o \in Objects : WF_vars(ReadMessage(o)) /\ WF_vars(LLMReplies(o) \/ LLMFails(o))

FairSpec == Spec /\ Fairness

------------------------------------------------------------------------------
(* Properties.                                                               *)

\* Every variable has its type; no input queue is over its capacity.
TypeOK == /\ row \in {"none", "stored", "there"}
          /\ cache \in Objects \cup {NoObject}
          /\ used \subseteq Objects
          /\ loop \in [Objects -> Loops]
          /\ queue \in [Objects -> Seq(Messages)]
          /\ \A o \in Objects : Len(queue[o]) <= QueueCap
          /\ lastTurn \in [Objects -> {0} \cup Turns]
          /\ pc \in [Messages -> Calls]
          /\ session \in [Messages -> Objects \cup {NoObject}]
          /\ target \in [Messages -> Objects \cup {NoObject}]
          /\ turn \in [Messages -> Nat]
          /\ history \in [Turns -> Messages \cup {NoMessage}]
          /\ read \subseteq Messages
          /\ failures \in 0..MaxFailures
          /\ restarts \in 0..MaxRestarts
          /\ overlap \in BOOLEAN

Queued(m) == \E o \in Objects : \E i \in DOMAIN queue[o] : queue[o][i] = m

\* However many objects and loops a session has, a message is handed to one
\* of them, once: the orchestrator never acts on a message twice.
MessageIsReadOnce ==
    /\ \A o \in Objects : IsInjective(queue[o])
    /\ \A m \in Messages :
          /\ Queued(m) => pc[m] = "done" /\ m \notin read
          /\ \A o, p \in Objects :
                (\E i \in DOMAIN queue[o] : queue[o][i] = m) /\
                (\E i \in DOMAIN queue[p] : queue[p][i] = m) => o = p
          /\ m \in read => pc[m] = "done"

\* A call works on objects that are loaded: what it sends to has had a loop
\* started in this process, though another object may be in the cache by now.
SessionHasLoop ==
    /\ cache # NoObject => loop[cache] # "none"
    /\ \A m \in Messages :
          pc[m] \in Calls \ (Ended \cup {"load", "cache"}) => loop[session[m]] # "none"

\* Objects, queues and calls are sound.
CallsAreSound == TypeOK /\ SessionHasLoop

Stored == {m \in Messages : pc[m] \in {"count", "store", "send", "done", "dropped"}}

\* While calls come one at a time and the process lives, the history is the
\* stored messages in the order of their numbers, without a gap, and a queue is
\* in that order too, whatever statements fail in between.
HistoryIsComplete ==
    ~overlap /\ restarts = 0 =>
        /\ \A m \in Stored : \E i \in Turns : history[i] = m
        /\ \A i, j \in Turns : i < j /\ history[j] # NoMessage => history[i] # NoMessage
        /\ \A o \in Objects : \A i, j \in DOMAIN queue[o] : \A k, l \in Turns :
              i < j /\ history[k] = queue[o][i] /\ history[l] = queue[o][j] => k < l

\* A message that was accepted is read, also when several callers loaded the
\* session at once, unless the LLM failed in a loop or the process ended.
AcceptedMessageIsRead ==
    \A m \in Messages :
        pc[m] = "done" ~> (m \in read \/ failures > 0 \/ restarts > 0)

------------------------------------------------------------------------------
(* What a comment says and the code does not do.                             *)

\* session.go:217, "Store it in conversation history for the orchestrator to
\* see": a message that was stored stays stored.
StoredTurnIsKept == \A m \in Stored : \E i \in Turns : history[i] = m
=============================================================================
