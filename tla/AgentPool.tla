------------------------------ MODULE AgentPool ------------------------------
(***************************************************************************)
(* The agent pool, internal/services/agent/agent_pool.go: the map of       *)
(* spawned agents behind one mutex, every agent with its buffered input    *)
(* queue behind a mutex of its own, and the idle check that walks the map. *)
(* The operators are the bodies of the pool's methods; WorkerRuntime calls *)
(* them.  A task is executed by one agent only, spawned for it, so an      *)
(* agent is named by its task.                                             *)
(***************************************************************************)
EXTENDS Integers, SequencesExt

CONSTANTS Tasks,      \* task instances, and the agents that execute them
          NoTask,     \* no task
          MaxAgents,  \* AgentPool.MaxAgents
          InputCap,   \* capacity of InputQueue (100 in the code)
          CanIdleOut  \* may an execution outlast IdleTimeoutSecs?

ASSUME AgentPoolAssumption ==
    /\ IsFiniteSet(Tasks)
    /\ NoTask \notin Tasks
    /\ MaxAgents \in Nat
    /\ InputCap \in Nat \ {0}
    /\ CanIdleOut \in BOOLEAN

VARIABLES pool,        \* the agents in ap.agents
          inputQueue,  \* inputQueue[t]: what waits for t's agent
          stuckOn      \* the agent on whose stopCh the idle check blocks

poolVars == <<pool, inputQueue, stuckOn>>

\* The idle check sends on the unbuffered stopCh of an agent, on which nobody
\* receives, and keeps ap.mu and that agent's mutex while it waits.
PoolUnlocked == stuckOn = NoTask
AgentUnlocked(t) == stuckOn # t

PoolInit == /\ pool = {}
            /\ inputQueue = [t \in Tasks |-> <<>>]
            /\ stuckOn = NoTask

SpawnAgent(t) ==
    /\ PoolUnlocked
    /\ Cardinality(pool) < MaxAgents
    /\ pool' = pool \cup {t}
    /\ inputQueue' = [inputQueue EXCEPT ![t] = <<>>]
    /\ UNCHANGED stuckOn

\* A removal that leaves the agent in the map.
RemoveAgentKeeps(t) ==
    /\ PoolUnlocked
    /\ UNCHANGED poolVars

\* The agent's input queue goes with it: nothing reads it any more.
RemoveAgent(t) ==
    /\ PoolUnlocked
    /\ pool' = pool \ {t}
    /\ UNCHANGED <<inputQueue, stuckOn>>

\* GetAgent, whose callers keep the agent they got after it is removed.
GetAgent(t, found) ==
    /\ PoolUnlocked
    /\ found = (t \in pool)
    /\ UNCHANGED poolVars

\* A send that does not look at the capacity of the queue.
SendInputUnbounded(t, m, ok) ==
    /\ AgentUnlocked(t)
    /\ ok
    /\ inputQueue' = [inputQueue EXCEPT ![t] = Append(@, m)]
    /\ UNCHANGED <<pool, stuckOn>>

\* The non-blocking send to InputQueue: refused when the queue is full.
SendInput(t, m, ok) ==
    /\ AgentUnlocked(t)
    /\ ok = (Len(inputQueue[t]) < InputCap)
    /\ inputQueue' = IF ok THEN [inputQueue EXCEPT ![t] = Append(@, m)] ELSE inputQueue
    /\ UNCHANGED <<pool, stuckOn>>

\* A receive from InputQueue takes no mutex.
GetInput(t) ==
    /\ inputQueue[t] # <<>>
    /\ inputQueue' = [inputQueue EXCEPT ![t] = Tail(@)]
    /\ UNCHANGED <<pool, stuckOn>>

\* The idle check finds an agent whose LastActive is too old: every agent is
\* Idle to the pool and keeps the LastActive of its spawning while it works.
cleanupIdleAgents ==
    /\ CanIdleOut
    /\ PoolUnlocked
    /\ stuckOn' \in pool
    /\ UNCHANGED <<pool, inputQueue>>
=============================================================================
