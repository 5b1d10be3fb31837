------------------------- MODULE WorkerRuntimeProofs -------------------------
(* Proofs about WorkerRuntime, for every set of tasks and workers, every       *)
(* capacity and whatever the agents do.                                        *)
EXTENDS WorkerRuntime, TLAPS, SequenceTheorems, FiniteSetTheorems

-----------------------------------------------------------------------------
(* The inductive invariant.                                                    *)

EmptyLocations == {"idle", "dequeue", "stopped"}

\* The execution of t has begun, and may have ended.
Begun(t) == status[t] = "finished" \/ HasAgent(t)

\* A task is held by a goroutine or by none, and a worker holds one task from
\* the moment it is given one until it is done with it.
OwnerInv ==
    /\ \A t \in Tasks : status[t] = "held" <=> owner[t] # NoClient
    /\ \A t, u \in Tasks : owner[t] = owner[u] /\ owner[t] \in Workers => t = u
    /\ \A w \in Workers : wpc[w] \in EmptyLocations <=> \A t \in Tasks : owner[t] # w

\* A task is pending until its worker assigns it, and never again.
StatusInv ==
    /\ \A t \in Tasks :
          /\ status[t] = "none" => taskStatus[t] = "none"
          /\ status[t] # "removed"
          /\ status[t] \in {"queued", "dropped"} => taskStatus[t] = "pending"
          /\ status[t] = "held" /\ owner[t] \notin Workers => taskStatus[t] = "pending"
          /\ status[t] = "finished" => taskStatus[t] \notin {"none", "pending"}
    /\ \A t \in Tasks, w \in Workers : owner[t] = w =>
          IF wpc[w] \in {"spawn", "assign"} THEN taskStatus[t] = "pending"
                                            ELSE taskStatus[t] \notin {"none", "pending"}

\* An agent enters the registry before its loop and gets its container before
\* that; its container is released after it has left both.
RegistryInv ==
    /\ \A t \in registry \cup containers \cup releasing : Begun(t)
    /\ \A t \in releasing : /\ t \notin registry
                            /\ \/ status[t] = "finished"
                               \/ \E w \in Workers : owner[t] = w /\ wpc[w] = "remove"
    /\ \A t \in containers : HasAgent(t) \/ t \in releasing \/ t \in registry
    /\ \A t \in Tasks, w \in Workers : owner[t] = w =>
          /\ wpc[w] \in {"assign", "prepare"} => t \notin containers
          /\ wpc[w] \in InLoop \cup {"start"} => t \in registry
          /\ wpc[w] = "remove" /\ t \in containers => t \in releasing \cup registry

\* An input queue is empty until its agent is there, and holds messages of
\* children.
InputInv ==
    /\ \A u \in Tasks : ~Begun(u) => inputQueue[u] = <<>>
    /\ \A u \in Tasks : \A i \in DOMAIN inputQueue[u] :
          inputQueue[u][i] # NoTask => parent[inputQueue[u][i]] = u

\* The places between SEND_PARENT and its answer.
InCall == {"check", "get", "deliver"}

\* A task that was not created has no parent and sent nothing; one that sends
\* to its parent found the parent's agent.
MessageInv ==
    /\ \A c \in Tasks : status[c] = "none" =>
          acked[c] = 0 /\ taken[c] = 0 /\ told[c] = 0 /\ parent[c] = NoTask
    /\ \A t \in Tasks, w \in Workers : owner[t] = w /\ wpc[w] \in InCall
          => parent[t] \in Tasks /\ Begun(parent[t])

(* The four parts of TypeOK.                                                   *)

LedgerTypes ==
    /\ status \in [Tasks -> Ledger!Statuses]
    /\ owner \in [Tasks -> Workers \cup Producers \cup {NoClient}]
    /\ parent \in [Tasks -> Tasks \cup {NoTask}]
    /\ taskStatus \in [Tasks -> {"none", "pending", "in_progress"} \cup Final]
    /\ wpc \in [Workers -> Locations]

QueueTypes ==
    /\ pool \subseteq Tasks
    /\ inputQueue \in [Tasks -> Seq(Tasks \cup {NoTask})]
    /\ \A t \in Tasks : Len(inputQueue[t]) <= InputCap
    /\ stuckOn \in Tasks \cup {NoTask}

Replies == [Tasks -> [calls : 0..MaxCalls, stateChange : States \cup {""}]]

CountTypes ==
    /\ turns \in 0..MaxTurns
    /\ registry \subseteq Tasks
    /\ containers \subseteq Tasks
    /\ releasing \subseteq Tasks
    /\ acked \in [Tasks -> Nat]
    /\ taken \in [Tasks -> Nat]
    /\ told \in [Tasks -> Nat]
    /\ stopping \in BOOLEAN

Inv == /\ TypeOK /\ OwnerInv /\ StatusInv /\ PoolIsExecutions /\ RegistryInv
       /\ InputInv /\ MessageInv /\ AckedMessageIsKept

-----------------------------------------------------------------------------
(* Every step keeps the invariant.                                             *)

\* A goroutine gets a task only with empty hands.
LEMMA OwnerStep == Inv /\ [Next]_vars => OwnerInv'
<1> SUFFICES ASSUME Inv, [Next]_vars
             PROVE  OwnerInv'
  OBVIOUS
<1> USE WorkerRuntimeAssumption, AgentPoolAssumption
<1>0. /\ OwnerInv
      /\ status \in [Tasks -> Ledger!Statuses]
      /\ owner \in [Tasks -> Workers \cup Producers \cup {NoClient}]
      /\ wpc \in [Workers -> Locations]
  BY DEF Inv, TypeOK
<1>1. ASSUME NEW t \in Tasks, SpawnRootTask(t)
      PROVE  OwnerInv'
  BY <1>0, <1>1 DEF SpawnRootTask, Ledger!Create, Ledger!Move, Ledger!EmptyHanded,
     OwnerInv, EmptyLocations, Producers, ledgerVars
<1>2. ASSUME NEW t \in Tasks, EnqueueRootTask(t)
      PROVE  OwnerInv'
  BY <1>0, <1>2 DEF EnqueueRootTask, Ledger!Submit, Ledger!Move, OwnerInv, EmptyLocations,
     Producers, ledgerVars
<1>3. ASSUME NEW t \in Tasks, DropTask(t)
      PROVE  OwnerInv'
  BY <1>0, <1>3 DEF DropTask, Ledger!Drop, Ledger!Move, OwnerInv, EmptyLocations,
     Producers, ledgerVars
<1>4. ASSUME NEW t \in Tasks, ReleaseContainer(t)
      PROVE  OwnerInv'
  BY <1>0, <1>4 DEF ReleaseContainer, OwnerInv, EmptyLocations, Producers, ledgerVars
<1>5. ASSUME NEW w \in Workers, NextTask(w)
      PROVE  OwnerInv'
  BY <1>0, <1>5 DEF NextTask, Goto, OwnerInv, EmptyLocations, Producers, ledgerVars
<1>6. ASSUME NEW w \in Workers, DequeueNil(w)
      PROVE  OwnerInv'
  BY <1>0, <1>6 DEF DequeueNil, Goto, OwnerInv, EmptyLocations, Producers, ledgerVars
<1>7. ASSUME NEW w \in Workers, NEW t \in Tasks, Dequeue(w, t)
      PROVE  OwnerInv'
  BY <1>0, <1>7 DEF Dequeue, Ledger!Take, Ledger!Move, Ledger!EmptyHanded, Goto, OwnerInv,
     EmptyLocations, Producers, ledgerVars
<1>8. ASSUME NEW w \in Workers, NEW t \in Tasks, Spawn(w, t)
      PROVE  OwnerInv'
  BY <1>0, <1>8 DEF Spawn, SpawnAgent, At, Goto, OwnerInv, EmptyLocations, Producers,
     ledgerVars
<1>9. ASSUME NEW w \in Workers, NEW t \in Tasks, SpawnFails(w, t)
      PROVE  OwnerInv'
  BY <1>0, <1>9 DEF SpawnFails, Ledger!Submit, Ledger!Move, At, Goto, OwnerInv,
     EmptyLocations, Producers, ledgerVars
<1>10. ASSUME NEW w \in Workers, NEW t \in Tasks, FinishTask(w, t)
      PROVE  OwnerInv'
  BY <1>0, <1>10 DEF FinishTask, RemoveAgent, Ledger!Finish, Ledger!Move, At, Goto,
     OwnerInv, EmptyLocations, Producers, ledgerVars
<1>11. ASSUME IdleCheck
      PROVE  OwnerInv'
  BY <1>0, <1>11 DEF IdleCheck, cleanupIdleAgents, OwnerInv, EmptyLocations, Producers,
     ledgerVars
<1>12. ASSUME Stop
      PROVE  OwnerInv'
  BY <1>0, <1>12 DEF Stop, OwnerInv, EmptyLocations, Producers, ledgerVars
<1>13. ASSUME NEW w \in Workers, NEW t \in Tasks, Execute(w, t)
      PROVE  OwnerInv'
  <2> USE DEF At, Goto
  <2>1. CASE AssignTask(w, t)
    BY <1>0, <2>1 DEF AssignTask, OwnerInv, EmptyLocations, Producers, ledgerVars
  <2>2. CASE Prepare(w, t)
    BY <1>0, <2>2 DEF Prepare, GetOrCreateContainer, CreateContainer, OwnerInv,
       EmptyLocations, Producers, ledgerVars
  <2>3. CASE Register(w, t)
    BY <1>0, <2>3 DEF Register, OwnerInv, EmptyLocations, Producers, ledgerVars
  <2>4. CASE SendStart(w, t)
    BY <1>0, <2>4 DEF SendStart, SendInput, OwnerInv, EmptyLocations, Producers,
       ledgerVars
  <2>5. CASE Receive(w, t)
    BY <1>0, <2>5 DEF Receive, GetInput, CountTaken, OwnerInv, EmptyLocations, Producers,
       ledgerVars
  <2>6. CASE LLMFails(w, t)
    BY <1>0, <2>6 DEF LLMFails, OwnerInv, EmptyLocations, Producers, ledgerVars
  <2>7. CASE LLMReplies(w, t)
    BY <1>0, <2>7 DEF LLMReplies, OwnerInv, EmptyLocations, Producers, ledgerVars
  <2>8. ASSUME NEW s \in States, SetState(w, t, s)
        PROVE  OwnerInv'
    BY <1>0, <2>8 DEF SetState, Call, Counted, OwnerInv, EmptyLocations, Producers,
       ledgerVars
  <2>9. ASSUME NEW c \in Tasks, SpawnSubTask(w, t, c)
        PROVE  OwnerInv'
    BY <1>0, <2>9 DEF SpawnSubTask, Call, Counted, Ledger!Create, Ledger!Move,
       Ledger!EmptyHanded, OwnerInv, EmptyLocations, Producers, ledgerVars
  <2>10. ASSUME NEW c \in Tasks, EnqueueSubTask(w, t, c)
        PROVE  OwnerInv'
    BY <1>0, <2>10 DEF EnqueueSubTask, Ledger!Submit, Ledger!Move, OwnerInv,
       EmptyLocations, Producers, ledgerVars
  <2>11. CASE OtherTool(w, t)
    BY <1>0, <2>11 DEF OtherTool, Call, Counted, OwnerInv, EmptyLocations, Producers,
       ledgerVars
  <2>12. CASE SendParent(w, t)
    BY <1>0, <2>12 DEF SendParent, Call, Counted, OwnerInv, EmptyLocations, Producers,
       ledgerVars
  <2>13. CASE CheckRegistered(w, t)
    BY <1>0, <2>13 DEF CheckRegistered, OwnerInv, EmptyLocations, Producers, ledgerVars
  <2>14. CASE GetParentAgent(w, t)
    BY <1>0, <2>14 DEF GetParentAgent, GetAgent, OwnerInv, EmptyLocations, Producers,
       ledgerVars
  <2>15. CASE Deliver(w, t)
    BY <1>0, <2>15 DEF Deliver, SendInput, OwnerInv, EmptyLocations, Producers, ledgerVars
  <2>16. CASE EndReply(w, t)
    BY <1>0, <2>16 DEF EndReply, Unregister, OwnerInv, EmptyLocations, Producers,
       ledgerVars
  <2> QED
    BY <1>13, <2>1, <2>2, <2>3, <2>4, <2>5, <2>6, <2>7, <2>8, <2>9, <2>10, <2>11, <2>12,
       <2>13, <2>14, <2>15, <2>16 DEF Execute
<1>14. CASE UNCHANGED vars
  BY <1>0, <1>14 DEF vars, OwnerInv, EmptyLocations, Producers, ledgerVars
<1> QED
  BY <1>1, <1>2, <1>3, <1>4, <1>5, <1>6, <1>7, <1>8, <1>9, <1>10, <1>11, <1>12, <1>13,
     <1>14 DEF Next

\* The status of a task changes where the task changes hands, or in the hands of its
\* worker.
LEMMA StatusStep == Inv /\ [Next]_vars => StatusInv'
<1> SUFFICES ASSUME Inv, [Next]_vars
             PROVE  StatusInv'
  OBVIOUS
<1> USE WorkerRuntimeAssumption, AgentPoolAssumption
<1>0. /\ OwnerInv
      /\ StatusInv
      /\ status \in [Tasks -> Ledger!Statuses]
      /\ owner \in [Tasks -> Workers \cup Producers \cup {NoClient}]
      /\ wpc \in [Workers -> Locations]
      /\ taskStatus \in [Tasks -> {"none", "pending", "in_progress"} \cup Final]
  BY DEF Inv, TypeOK
<1>1. ASSUME NEW t \in Tasks, SpawnRootTask(t)
      PROVE  StatusInv'
  BY <1>0, <1>1 DEF SpawnRootTask, Ledger!Create, Ledger!Move, Ledger!EmptyHanded,
     OwnerInv, StatusInv, EmptyLocations, Final, Producers, ledgerVars
<1>2. ASSUME NEW t \in Tasks, EnqueueRootTask(t)
      PROVE  StatusInv'
  BY <1>0, <1>2 DEF EnqueueRootTask, Ledger!Submit, Ledger!Move, OwnerInv, StatusInv,
     EmptyLocations, Final, Producers, ledgerVars
<1>3. ASSUME NEW t \in Tasks, DropTask(t)
      PROVE  StatusInv'
  BY <1>0, <1>3 DEF DropTask, Ledger!Drop, Ledger!Move, OwnerInv, StatusInv,
     EmptyLocations, Final, Producers, ledgerVars
<1>4. ASSUME NEW t \in Tasks, ReleaseContainer(t)
      PROVE  StatusInv'
  BY <1>0, <1>4 DEF ReleaseContainer, OwnerInv, StatusInv, EmptyLocations, Final,
     Producers, ledgerVars
<1>5. ASSUME NEW w \in Workers, NextTask(w)
      PROVE  StatusInv'
  BY <1>0, <1>5 DEF NextTask, Goto, OwnerInv, StatusInv, EmptyLocations, Final, Producers,
     ledgerVars
<1>6. ASSUME NEW w \in Workers, DequeueNil(w)
      PROVE  StatusInv'
  BY <1>0, <1>6 DEF DequeueNil, Goto, OwnerInv, StatusInv, EmptyLocations, Final,
     Producers, ledgerVars
<1>7. ASSUME NEW w \in Workers, NEW t \in Tasks, Dequeue(w, t)
      PROVE  StatusInv'
  BY <1>0, <1>7 DEF Dequeue, Ledger!Take, Ledger!Move, Ledger!EmptyHanded, Goto, OwnerInv,
     StatusInv, EmptyLocations, Final, Producers, ledgerVars
<1>8. ASSUME NEW w \in Workers, NEW t \in Tasks, Spawn(w, t)
      PROVE  StatusInv'
  BY <1>0, <1>8 DEF Spawn, SpawnAgent, At, Goto, OwnerInv, StatusInv, EmptyLocations,
     Final, Producers, ledgerVars
<1>9. ASSUME NEW w \in Workers, NEW t \in Tasks, SpawnFails(w, t)
      PROVE  StatusInv'
  BY <1>0, <1>9 DEF SpawnFails, Ledger!Submit, Ledger!Move, At, Goto, OwnerInv, StatusInv,
     EmptyLocations, Final, Producers, ledgerVars
<1>10. ASSUME NEW w \in Workers, NEW t \in Tasks, FinishTask(w, t)
      PROVE  StatusInv'
  BY <1>0, <1>10 DEF FinishTask, RemoveAgent, Ledger!Finish, Ledger!Move, At, Goto,
     OwnerInv, StatusInv, EmptyLocations, Final, Producers, ledgerVars
<1>11. ASSUME IdleCheck
      PROVE  StatusInv'
  BY <1>0, <1>11 DEF IdleCheck, cleanupIdleAgents, OwnerInv, StatusInv, EmptyLocations,
     Final, Producers, ledgerVars
<1>12. ASSUME Stop
      PROVE  StatusInv'
  BY <1>0, <1>12 DEF Stop, OwnerInv, StatusInv, EmptyLocations, Final, Producers,
     ledgerVars
<1>13. ASSUME NEW w \in Workers, NEW t \in Tasks, Execute(w, t)
      PROVE  StatusInv'
  <2> USE DEF At, Goto
  <2>1. CASE AssignTask(w, t)
    BY <1>0, <2>1 DEF AssignTask, OwnerInv, StatusInv, EmptyLocations, Final, Producers,
       ledgerVars
  <2>2. CASE Prepare(w, t)
    BY <1>0, <2>2 DEF Prepare, GetOrCreateContainer, CreateContainer, OwnerInv, StatusInv,
       EmptyLocations, Final, Producers, ledgerVars
  <2>3. CASE Register(w, t)
    BY <1>0, <2>3 DEF Register, OwnerInv, StatusInv, EmptyLocations, Final, Producers,
       ledgerVars
  <2>4. CASE SendStart(w, t)
    BY <1>0, <2>4 DEF SendStart, SendInput, OwnerInv, StatusInv, EmptyLocations, Final,
       Producers, ledgerVars
  <2>5. CASE Receive(w, t)
    BY <1>0, <2>5 DEF Receive, GetInput, CountTaken, OwnerInv, StatusInv, EmptyLocations,
       Final, Producers, ledgerVars
  <2>6. CASE LLMFails(w, t)
    BY <1>0, <2>6 DEF LLMFails, OwnerInv, StatusInv, EmptyLocations, Final, Producers,
       ledgerVars
  <2>7. CASE LLMReplies(w, t)
    BY <1>0, <2>7 DEF LLMReplies, OwnerInv, StatusInv, EmptyLocations, Final, Producers,
       ledgerVars
  <2>8. ASSUME NEW s \in States, SetState(w, t, s)
        PROVE  StatusInv'
    BY <1>0, <2>8 DEF SetState, Call, Counted, OwnerInv, StatusInv, EmptyLocations, Final,
       Producers, ledgerVars
  <2>9. ASSUME NEW c \in Tasks, SpawnSubTask(w, t, c)
        PROVE  StatusInv'
    BY <1>0, <2>9 DEF SpawnSubTask, Call, Counted, Ledger!Create, Ledger!Move,
       Ledger!EmptyHanded, OwnerInv, StatusInv, EmptyLocations, Final, Producers,
       ledgerVars
  <2>10. ASSUME NEW c \in Tasks, EnqueueSubTask(w, t, c)
        PROVE  StatusInv'
    BY <1>0, <2>10 DEF EnqueueSubTask, Ledger!Submit, Ledger!Move, OwnerInv, StatusInv,
       EmptyLocations, Final, Producers, ledgerVars
  <2>11. CASE OtherTool(w, t)
    BY <1>0, <2>11 DEF OtherTool, Call, Counted, OwnerInv, StatusInv, EmptyLocations,
       Final, Producers, ledgerVars
  <2>12. CASE SendParent(w, t)
    BY <1>0, <2>12 DEF SendParent, Call, Counted, OwnerInv, StatusInv, EmptyLocations,
       Final, Producers, ledgerVars
  <2>13. CASE CheckRegistered(w, t)
    BY <1>0, <2>13 DEF CheckRegistered, OwnerInv, StatusInv, EmptyLocations, Final,
       Producers, ledgerVars
  <2>14. CASE GetParentAgent(w, t)
    BY <1>0, <2>14 DEF GetParentAgent, GetAgent, OwnerInv, StatusInv, EmptyLocations,
       Final, Producers, ledgerVars
  <2>15. CASE Deliver(w, t)
    BY <1>0, <2>15 DEF Deliver, SendInput, OwnerInv, StatusInv, EmptyLocations, Final,
       Producers, ledgerVars
  <2>16. CASE EndReply(w, t)
    BY <1>0, <2>16 DEF EndReply, Unregister, OwnerInv, StatusInv, EmptyLocations, Final,
       Producers, ledgerVars
  <2> QED
    BY <1>13, <2>1, <2>2, <2>3, <2>4, <2>5, <2>6, <2>7, <2>8, <2>9, <2>10, <2>11, <2>12,
       <2>13, <2>14, <2>15, <2>16 DEF Execute
<1>14. CASE UNCHANGED vars
  BY <1>0, <1>14 DEF vars, OwnerInv, StatusInv, EmptyLocations, Final, Producers,
     ledgerVars
<1> QED
  BY <1>1, <1>2, <1>3, <1>4, <1>5, <1>6, <1>7, <1>8, <1>9, <1>10, <1>11, <1>12, <1>13,
     <1>14 DEF Next

\* An agent enters the pool as the execution begins and leaves it as it ends.
LEMMA PoolStep == Inv /\ [Next]_vars => PoolIsExecutions'
<1> SUFFICES ASSUME Inv, [Next]_vars
             PROVE  PoolIsExecutions'
  OBVIOUS
<1> USE WorkerRuntimeAssumption, AgentPoolAssumption
<1>0. /\ OwnerInv
      /\ PoolIsExecutions
      /\ status \in [Tasks -> Ledger!Statuses]
      /\ owner \in [Tasks -> Workers \cup Producers \cup {NoClient}]
      /\ wpc \in [Workers -> Locations]
  BY DEF Inv, TypeOK
<1>1. ASSUME NEW t \in Tasks, SpawnRootTask(t)
      PROVE  PoolIsExecutions'
  BY <1>0, <1>1 DEF SpawnRootTask, Ledger!Create, Ledger!Move, Ledger!EmptyHanded,
     OwnerInv, PoolIsExecutions, HasAgent, EmptyLocations, Producers, ledgerVars,
     agentVars, poolVars
<1>2. ASSUME NEW t \in Tasks, EnqueueRootTask(t)
      PROVE  PoolIsExecutions'
  BY <1>0, <1>2 DEF EnqueueRootTask, Ledger!Submit, Ledger!Move, OwnerInv,
     PoolIsExecutions, HasAgent, EmptyLocations, Producers, ledgerVars, agentVars,
     poolVars
<1>3. ASSUME NEW t \in Tasks, DropTask(t)
      PROVE  PoolIsExecutions'
  BY <1>0, <1>3 DEF DropTask, Ledger!Drop, Ledger!Move, OwnerInv, PoolIsExecutions,
     HasAgent, EmptyLocations, Producers, ledgerVars, agentVars, poolVars
<1>4. ASSUME NEW t \in Tasks, ReleaseContainer(t)
      PROVE  PoolIsExecutions'
  BY <1>0, <1>4 DEF ReleaseContainer, OwnerInv, PoolIsExecutions, HasAgent,
     EmptyLocations, Producers, ledgerVars, agentVars, poolVars
<1>5. ASSUME NEW w \in Workers, NextTask(w)
      PROVE  PoolIsExecutions'
  BY <1>0, <1>5 DEF NextTask, Goto, OwnerInv, PoolIsExecutions, HasAgent, EmptyLocations,
     Producers, ledgerVars, agentVars, poolVars
<1>6. ASSUME NEW w \in Workers, DequeueNil(w)
      PROVE  PoolIsExecutions'
  BY <1>0, <1>6 DEF DequeueNil, Goto, OwnerInv, PoolIsExecutions, HasAgent,
     EmptyLocations, Producers, ledgerVars, agentVars, poolVars
<1>7. ASSUME NEW w \in Workers, NEW t \in Tasks, Dequeue(w, t)
      PROVE  PoolIsExecutions'
  BY <1>0, <1>7 DEF Dequeue, Ledger!Take, Ledger!Move, Ledger!EmptyHanded, Goto, OwnerInv,
     PoolIsExecutions, HasAgent, EmptyLocations, Producers, ledgerVars, agentVars,
     poolVars
<1>8. ASSUME NEW w \in Workers, NEW t \in Tasks, Spawn(w, t)
      PROVE  PoolIsExecutions'
  BY <1>0, <1>8 DEF Spawn, SpawnAgent, At, Goto, OwnerInv, PoolIsExecutions, HasAgent,
     EmptyLocations, Producers, ledgerVars, agentVars, poolVars
<1>9. ASSUME NEW w \in Workers, NEW t \in Tasks, SpawnFails(w, t)
      PROVE  PoolIsExecutions'
  BY <1>0, <1>9 DEF SpawnFails, Ledger!Submit, Ledger!Move, At, Goto, OwnerInv,
     PoolIsExecutions, HasAgent, EmptyLocations, Producers, ledgerVars, agentVars,
     poolVars
<1>10. ASSUME NEW w \in Workers, NEW t \in Tasks, FinishTask(w, t)
      PROVE  PoolIsExecutions'
  BY <1>0, <1>10 DEF FinishTask, RemoveAgent, Ledger!Finish, Ledger!Move, At, Goto,
     OwnerInv, PoolIsExecutions, HasAgent, EmptyLocations, Producers, ledgerVars,
     agentVars, poolVars
<1>11. ASSUME IdleCheck
      PROVE  PoolIsExecutions'
  BY <1>0, <1>11 DEF IdleCheck, cleanupIdleAgents, OwnerInv, PoolIsExecutions, HasAgent,
     EmptyLocations, Producers, ledgerVars, agentVars, poolVars
<1>12. ASSUME Stop
      PROVE  PoolIsExecutions'
  BY <1>0, <1>12 DEF Stop, OwnerInv, PoolIsExecutions, HasAgent, EmptyLocations,
     Producers, ledgerVars, agentVars, poolVars
<1>13. ASSUME NEW w \in Workers, NEW t \in Tasks, Execute(w, t)
      PROVE  PoolIsExecutions'
  <2> USE DEF At, Goto
  <2>1. CASE AssignTask(w, t)
    BY <1>0, <2>1 DEF AssignTask, OwnerInv, PoolIsExecutions, HasAgent, EmptyLocations,
       Producers, ledgerVars, agentVars, poolVars
  <2>2. CASE Prepare(w, t)
    BY <1>0, <2>2 DEF Prepare, GetOrCreateContainer, CreateContainer, OwnerInv,
       PoolIsExecutions, HasAgent, EmptyLocations, Producers, ledgerVars, agentVars,
       poolVars
  <2>3. CASE Register(w, t)
    BY <1>0, <2>3 DEF Register, OwnerInv, PoolIsExecutions, HasAgent, EmptyLocations,
       Producers, ledgerVars, agentVars, poolVars
  <2>4. CASE SendStart(w, t)
    BY <1>0, <2>4 DEF SendStart, SendInput, OwnerInv, PoolIsExecutions, HasAgent,
       EmptyLocations, Producers, ledgerVars, agentVars, poolVars
  <2>5. CASE Receive(w, t)
    BY <1>0, <2>5 DEF Receive, GetInput, CountTaken, OwnerInv, PoolIsExecutions, HasAgent,
       EmptyLocations, Producers, ledgerVars, agentVars, poolVars
  <2>6. CASE LLMFails(w, t)
    BY <1>0, <2>6 DEF LLMFails, OwnerInv, PoolIsExecutions, HasAgent, EmptyLocations,
       Producers, ledgerVars, agentVars, poolVars
  <2>7. CASE LLMReplies(w, t)
    BY <1>0, <2>7 DEF LLMReplies, OwnerInv, PoolIsExecutions, HasAgent, EmptyLocations,
       Producers, ledgerVars, agentVars, poolVars
  <2>8. ASSUME NEW s \in States, SetState(w, t, s)
        PROVE  PoolIsExecutions'
    BY <1>0, <2>8 DEF SetState, Call, Counted, OwnerInv, PoolIsExecutions, HasAgent,
       EmptyLocations, Producers, ledgerVars, agentVars, poolVars
  <2>9. ASSUME NEW c \in Tasks, SpawnSubTask(w, t, c)
        PROVE  PoolIsExecutions'
    BY <1>0, <2>9 DEF SpawnSubTask, Call, Counted, Ledger!Create, Ledger!Move,
       Ledger!EmptyHanded, OwnerInv, PoolIsExecutions, HasAgent, EmptyLocations,
       Producers, ledgerVars, agentVars, poolVars
  <2>10. ASSUME NEW c \in Tasks, EnqueueSubTask(w, t, c)
        PROVE  PoolIsExecutions'
    BY <1>0, <2>10 DEF EnqueueSubTask, Ledger!Submit, Ledger!Move, OwnerInv,
       PoolIsExecutions, HasAgent, EmptyLocations, Producers, ledgerVars, agentVars,
       poolVars
  <2>11. CASE OtherTool(w, t)
    BY <1>0, <2>11 DEF OtherTool, Call, Counted, OwnerInv, PoolIsExecutions, HasAgent,
       EmptyLocations, Producers, ledgerVars, agentVars, poolVars
  <2>12. CASE SendParent(w, t)
    BY <1>0, <2>12 DEF SendParent, Call, Counted, OwnerInv, PoolIsExecutions, HasAgent,
       EmptyLocations, Producers, ledgerVars, agentVars, poolVars
  <2>13. CASE CheckRegistered(w, t)
    BY <1>0, <2>13 DEF CheckRegistered, OwnerInv, PoolIsExecutions, HasAgent,
       EmptyLocations, Producers, ledgerVars, agentVars, poolVars
  <2>14. CASE GetParentAgent(w, t)
    BY <1>0, <2>14 DEF GetParentAgent, GetAgent, OwnerInv, PoolIsExecutions, HasAgent,
       EmptyLocations, Producers, ledgerVars, agentVars, poolVars
  <2>15. CASE Deliver(w, t)
    BY <1>0, <2>15 DEF Deliver, SendInput, OwnerInv, PoolIsExecutions, HasAgent,
       EmptyLocations, Producers, ledgerVars, agentVars, poolVars
  <2>16. CASE EndReply(w, t)
    BY <1>0, <2>16 DEF EndReply, Unregister, OwnerInv, PoolIsExecutions, HasAgent,
       EmptyLocations, Producers, ledgerVars, agentVars, poolVars
  <2> QED
    BY <1>13, <2>1, <2>2, <2>3, <2>4, <2>5, <2>6, <2>7, <2>8, <2>9, <2>10, <2>11, <2>12,
       <2>13, <2>14, <2>15, <2>16 DEF Execute
<1>14. CASE UNCHANGED vars
  BY <1>0, <1>14 DEF vars, OwnerInv, PoolIsExecutions, HasAgent, EmptyLocations,
     Producers, ledgerVars, agentVars, poolVars
<1> QED
  BY <1>1, <1>2, <1>3, <1>4, <1>5, <1>6, <1>7, <1>8, <1>9, <1>10, <1>11, <1>12, <1>13,
     <1>14 DEF Next

\* A task has a status, an owner, a parent and a worker at some location.
LEMMA LedgerTypesStep == Inv /\ [Next]_vars => LedgerTypes'
<1> SUFFICES ASSUME Inv, [Next]_vars
             PROVE  LedgerTypes'
  OBVIOUS
<1> USE WorkerRuntimeAssumption, AgentPoolAssumption
<1>0. /\ status \in [Tasks -> Ledger!Statuses]
      /\ owner \in [Tasks -> Workers \cup Producers \cup {NoClient}]
      /\ wpc \in [Workers -> Locations]
      /\ taskStatus \in [Tasks -> {"none", "pending", "in_progress"} \cup Final]
      /\ parent \in [Tasks -> Tasks \cup {NoTask}]
  BY DEF Inv, TypeOK
<1>1. ASSUME NEW t \in Tasks, SpawnRootTask(t)
      PROVE  LedgerTypes'
  BY <1>0, <1>1 DEF SpawnRootTask, Ledger!Create, Ledger!Move, Ledger!EmptyHanded,
     LedgerTypes, ledgerVars, Producers, Ledger!Statuses, Locations, InLoop, Final, States
<1>2. ASSUME NEW t \in Tasks, EnqueueRootTask(t)
      PROVE  LedgerTypes'
  BY <1>0, <1>2 DEF EnqueueRootTask, Ledger!Submit, Ledger!Move, LedgerTypes, ledgerVars,
     Producers, Ledger!Statuses, Locations, InLoop, Final, States
<1>3. ASSUME NEW t \in Tasks, DropTask(t)
      PROVE  LedgerTypes'
  BY <1>0, <1>3 DEF DropTask, Ledger!Drop, Ledger!Move, LedgerTypes, ledgerVars,
     Producers, Ledger!Statuses, Locations, InLoop, Final, States
<1>4. ASSUME NEW t \in Tasks, ReleaseContainer(t)
      PROVE  LedgerTypes'
  BY <1>0, <1>4 DEF ReleaseContainer, LedgerTypes, ledgerVars, Producers, Ledger!Statuses,
     Locations, InLoop, Final, States
<1>5. ASSUME NEW w \in Workers, NextTask(w)
      PROVE  LedgerTypes'
  BY <1>0, <1>5 DEF NextTask, Goto, LedgerTypes, ledgerVars, Producers, Ledger!Statuses,
     Locations, InLoop, Final, States
<1>6. ASSUME NEW w \in Workers, DequeueNil(w)
      PROVE  LedgerTypes'
  BY <1>0, <1>6 DEF DequeueNil, Goto, LedgerTypes, ledgerVars, Producers, Ledger!Statuses,
     Locations, InLoop, Final, States
<1>7. ASSUME NEW w \in Workers, NEW t \in Tasks, Dequeue(w, t)
      PROVE  LedgerTypes'
  BY <1>0, <1>7 DEF Dequeue, Ledger!Take, Ledger!Move, Ledger!EmptyHanded, Goto,
     LedgerTypes, ledgerVars, Producers, Ledger!Statuses, Locations, InLoop, Final, States
<1>8. ASSUME NEW w \in Workers, NEW t \in Tasks, Spawn(w, t)
      PROVE  LedgerTypes'
  BY <1>0, <1>8 DEF Spawn, SpawnAgent, At, Goto, LedgerTypes, ledgerVars, Producers,
     Ledger!Statuses, Locations, InLoop, Final, States
<1>9. ASSUME NEW w \in Workers, NEW t \in Tasks, SpawnFails(w, t)
      PROVE  LedgerTypes'
  BY <1>0, <1>9 DEF SpawnFails, Ledger!Submit, Ledger!Move, At, Goto, LedgerTypes,
     ledgerVars, Producers, Ledger!Statuses, Locations, InLoop, Final, States
<1>10. ASSUME NEW w \in Workers, NEW t \in Tasks, FinishTask(w, t)
      PROVE  LedgerTypes'
  BY <1>0, <1>10 DEF FinishTask, RemoveAgent, Ledger!Finish, Ledger!Move, At, Goto,
     LedgerTypes, ledgerVars, Producers, Ledger!Statuses, Locations, InLoop, Final, States
<1>11. ASSUME IdleCheck
      PROVE  LedgerTypes'
  BY <1>0, <1>11 DEF IdleCheck, cleanupIdleAgents, LedgerTypes, ledgerVars, Producers,
     Ledger!Statuses, Locations, InLoop, Final, States
<1>12. ASSUME Stop
      PROVE  LedgerTypes'
  BY <1>0, <1>12 DEF Stop, LedgerTypes, ledgerVars, Producers, Ledger!Statuses, Locations,
     InLoop, Final, States
<1>13. ASSUME NEW w \in Workers, NEW t \in Tasks, Execute(w, t)
      PROVE  LedgerTypes'
  <2> USE DEF At, Goto
  <2>1. CASE AssignTask(w, t)
    BY <1>0, <2>1 DEF AssignTask, LedgerTypes, ledgerVars, Producers, Ledger!Statuses,
       Locations, InLoop, Final, States
  <2>2. CASE Prepare(w, t)
    BY <1>0, <2>2 DEF Prepare, GetOrCreateContainer, CreateContainer, LedgerTypes,
       ledgerVars, Producers, Ledger!Statuses, Locations, InLoop, Final, States
  <2>3. CASE Register(w, t)
    BY <1>0, <2>3 DEF Register, LedgerTypes, ledgerVars, Producers, Ledger!Statuses,
       Locations, InLoop, Final, States
  <2>4. CASE SendStart(w, t)
    BY <1>0, <2>4 DEF SendStart, SendInput, LedgerTypes, ledgerVars, Producers,
       Ledger!Statuses, Locations, InLoop, Final, States
  <2>5. CASE Receive(w, t)
    BY <1>0, <2>5 DEF Receive, GetInput, CountTaken, LedgerTypes, ledgerVars, Producers,
       Ledger!Statuses, Locations, InLoop, Final, States
  <2>6. CASE LLMFails(w, t)
    BY <1>0, <2>6 DEF LLMFails, LedgerTypes, ledgerVars, Producers, Ledger!Statuses,
       Locations, InLoop, Final, States
  <2>7. CASE LLMReplies(w, t)
    BY <1>0, <2>7 DEF LLMReplies, LedgerTypes, ledgerVars, Producers, Ledger!Statuses,
       Locations, InLoop, Final, States
  <2>8. ASSUME NEW s \in States, SetState(w, t, s)
        PROVE  LedgerTypes'
    BY <1>0, <2>8 DEF SetState, Call, Counted, LedgerTypes, ledgerVars, Producers,
       Ledger!Statuses, Locations, InLoop, Final, States
  <2>9. ASSUME NEW c \in Tasks, SpawnSubTask(w, t, c)
        PROVE  LedgerTypes'
    BY <1>0, <2>9 DEF SpawnSubTask, Call, Counted, Ledger!Create, Ledger!Move,
       Ledger!EmptyHanded, LedgerTypes, ledgerVars, Producers, Ledger!Statuses, Locations,
       InLoop, Final, States
  <2>10. ASSUME NEW c \in Tasks, EnqueueSubTask(w, t, c)
        PROVE  LedgerTypes'
    BY <1>0, <2>10 DEF EnqueueSubTask, Ledger!Submit, Ledger!Move, LedgerTypes,
       ledgerVars, Producers, Ledger!Statuses, Locations, InLoop, Final, States
  <2>11. CASE OtherTool(w, t)
    BY <1>0, <2>11 DEF OtherTool, Call, Counted, LedgerTypes, ledgerVars, Producers,
       Ledger!Statuses, Locations, InLoop, Final, States
  <2>12. CASE SendParent(w, t)
    BY <1>0, <2>12 DEF SendParent, Call, Counted, LedgerTypes, ledgerVars, Producers,
       Ledger!Statuses, Locations, InLoop, Final, States
  <2>13. CASE CheckRegistered(w, t)
    BY <1>0, <2>13 DEF CheckRegistered, LedgerTypes, ledgerVars, Producers,
       Ledger!Statuses, Locations, InLoop, Final, States
  <2>14. CASE GetParentAgent(w, t)
    BY <1>0, <2>14 DEF GetParentAgent, GetAgent, LedgerTypes, ledgerVars, Producers,
       Ledger!Statuses, Locations, InLoop, Final, States
  <2>15. CASE Deliver(w, t)
    BY <1>0, <2>15 DEF Deliver, SendInput, LedgerTypes, ledgerVars, Producers,
       Ledger!Statuses, Locations, InLoop, Final, States
  <2>16. CASE EndReply(w, t)
    BY <1>0, <2>16 DEF EndReply, Unregister, LedgerTypes, ledgerVars, Producers,
       Ledger!Statuses, Locations, InLoop, Final, States
  <2> QED
    BY <1>13, <2>1, <2>2, <2>3, <2>4, <2>5, <2>6, <2>7, <2>8, <2>9, <2>10, <2>11, <2>12,
       <2>13, <2>14, <2>15, <2>16 DEF Execute
<1>14. CASE UNCHANGED vars
  BY <1>0, <1>14 DEF vars, LedgerTypes, ledgerVars, Producers, Ledger!Statuses, Locations,
     InLoop, Final, States
<1> QED
  BY <1>1, <1>2, <1>3, <1>4, <1>5, <1>6, <1>7, <1>8, <1>9, <1>10, <1>11, <1>12, <1>13,
     <1>14 DEF Next

\* A reply begins with no call run and no state set.
LEMMA NoReplyType == NoReply \in [calls : 0..MaxCalls, stateChange : States \cup {""}]
<1>1. 0 \in 0..MaxCalls
  BY WorkerRuntimeAssumption
<1> QED
  BY <1>1 DEF NoReply

\* What comes out of an input queue is a task.
LEMMA InputType ==
    ASSUME inputQueue \in [Tasks -> Seq(Tasks \cup {NoTask})], NEW t \in Tasks, inputQueue[t] # <<>>
    PROVE  /\ Head(inputQueue[t]) \in Tasks \cup {NoTask}
           /\ Tail(inputQueue[t]) \in Seq(Tasks \cup {NoTask})
           /\ Len(Tail(inputQueue[t])) = Len(inputQueue[t]) - 1
OBVIOUS

\* A send keeps the input queues what they are.
LEMMA SendType ==
    ASSUME QueueTypes, NEW t \in Tasks, NEW m \in Tasks \cup {NoTask}, NEW ok, SendInput(t, m, ok)
    PROVE  QueueTypes'
<1>1. CASE Len(inputQueue[t]) < InputCap
  <2>1. /\ Append(inputQueue[t], m) \in Seq(Tasks \cup {NoTask})
        /\ Len(Append(inputQueue[t], m)) = Len(inputQueue[t]) + 1
    BY DEF QueueTypes
  <2>2. inputQueue' = [inputQueue EXCEPT ![t] = Append(inputQueue[t], m)]
    BY <1>1 DEF SendInput
  <2> QED
    BY <1>1, <2>1, <2>2, AgentPoolAssumption DEF SendInput, QueueTypes
<1>2. CASE ~(Len(inputQueue[t]) < InputCap)
  BY <1>2 DEF SendInput, QueueTypes
<1> QED
  BY <1>1, <1>2

\* An input queue holds tasks, and never more than its capacity.
LEMMA QueueTypesStep == Inv /\ [Next]_vars => QueueTypes'
<1> SUFFICES ASSUME Inv, [Next]_vars
             PROVE  QueueTypes'
  OBVIOUS
<1> USE WorkerRuntimeAssumption, AgentPoolAssumption
<1>0. /\ pool \subseteq Tasks
      /\ inputQueue \in [Tasks -> Seq(Tasks \cup {NoTask})]
      /\ \A t \in Tasks : Len(inputQueue[t]) <= InputCap
      /\ stuckOn \in Tasks \cup {NoTask}
      /\ parent \in [Tasks -> Tasks \cup {NoTask}]
      /\ MessageInv
  BY DEF Inv, TypeOK
<1>1. ASSUME NEW t \in Tasks, SpawnRootTask(t)
      PROVE  QueueTypes'
  BY <1>0, <1>1 DEF SpawnRootTask, Ledger!Create, Ledger!Move, Ledger!EmptyHanded,
     QueueTypes, agentVars, poolVars
<1>2. ASSUME NEW t \in Tasks, EnqueueRootTask(t)
      PROVE  QueueTypes'
  BY <1>0, <1>2 DEF EnqueueRootTask, Ledger!Submit, Ledger!Move, QueueTypes, agentVars,
     poolVars
<1>3. ASSUME NEW t \in Tasks, DropTask(t)
      PROVE  QueueTypes'
  BY <1>0, <1>3 DEF DropTask, Ledger!Drop, Ledger!Move, QueueTypes, agentVars, poolVars
<1>4. ASSUME NEW t \in Tasks, ReleaseContainer(t)
      PROVE  QueueTypes'
  BY <1>0, <1>4 DEF ReleaseContainer, QueueTypes, agentVars, poolVars
<1>5. ASSUME NEW w \in Workers, NextTask(w)
      PROVE  QueueTypes'
  BY <1>0, <1>5 DEF NextTask, Goto, QueueTypes, agentVars, poolVars
<1>6. ASSUME NEW w \in Workers, DequeueNil(w)
      PROVE  QueueTypes'
  BY <1>0, <1>6 DEF DequeueNil, Goto, QueueTypes, agentVars, poolVars
<1>7. ASSUME NEW w \in Workers, NEW t \in Tasks, Dequeue(w, t)
      PROVE  QueueTypes'
  BY <1>0, <1>7 DEF Dequeue, Ledger!Take, Ledger!Move, Ledger!EmptyHanded, Goto,
     QueueTypes, agentVars, poolVars
<1>8. ASSUME NEW w \in Workers, NEW t \in Tasks, Spawn(w, t)
      PROVE  QueueTypes'
  BY <1>0, <1>8 DEF Spawn, SpawnAgent, At, Goto, QueueTypes, agentVars, poolVars
<1>9. ASSUME NEW w \in Workers, NEW t \in Tasks, SpawnFails(w, t)
      PROVE  QueueTypes'
  BY <1>0, <1>9 DEF SpawnFails, Ledger!Submit, Ledger!Move, At, Goto, QueueTypes,
     agentVars, poolVars
<1>10. ASSUME NEW w \in Workers, NEW t \in Tasks, FinishTask(w, t)
      PROVE  QueueTypes'
  BY <1>0, <1>10 DEF FinishTask, RemoveAgent, Ledger!Finish, Ledger!Move, At, Goto,
     QueueTypes, agentVars, poolVars
<1>11. ASSUME IdleCheck
      PROVE  QueueTypes'
  BY <1>0, <1>11 DEF IdleCheck, cleanupIdleAgents, QueueTypes, agentVars, poolVars
<1>12. ASSUME Stop
      PROVE  QueueTypes'
  BY <1>0, <1>12 DEF Stop, QueueTypes, agentVars, poolVars
<1>13. ASSUME NEW w \in Workers, NEW t \in Tasks, Execute(w, t)
      PROVE  QueueTypes'
  <2> USE DEF At, Goto
  <2>1. CASE AssignTask(w, t)
    BY <1>0, <2>1 DEF AssignTask, QueueTypes, agentVars, poolVars
  <2>2. CASE Prepare(w, t)
    BY <1>0, <2>2 DEF Prepare, GetOrCreateContainer, CreateContainer, QueueTypes,
       agentVars, poolVars
  <2>3. CASE Register(w, t)
    BY <1>0, <2>3 DEF Register, QueueTypes, agentVars, poolVars
  <2>4. CASE SendStart(w, t)
    BY <1>0, <2>4, SendType DEF SendStart, QueueTypes
  <2>5. CASE Receive(w, t)
    BY <1>0, <2>5 DEF Receive, GetInput, CountTaken, QueueTypes, agentVars, poolVars
  <2>6. CASE LLMFails(w, t)
    BY <1>0, <2>6 DEF LLMFails, QueueTypes, agentVars, poolVars
  <2>7. CASE LLMReplies(w, t)
    BY <1>0, <2>7 DEF LLMReplies, QueueTypes, agentVars, poolVars
  <2>8. ASSUME NEW s \in States, SetState(w, t, s)
        PROVE  QueueTypes'
    BY <1>0, <2>8 DEF SetState, Call, Counted, QueueTypes, agentVars, poolVars
  <2>9. ASSUME NEW c \in Tasks, SpawnSubTask(w, t, c)
        PROVE  QueueTypes'
    BY <1>0, <2>9 DEF SpawnSubTask, Call, Counted, Ledger!Create, Ledger!Move,
       Ledger!EmptyHanded, QueueTypes, agentVars, poolVars
  <2>10. ASSUME NEW c \in Tasks, EnqueueSubTask(w, t, c)
        PROVE  QueueTypes'
    BY <1>0, <2>10 DEF EnqueueSubTask, Ledger!Submit, Ledger!Move, QueueTypes, agentVars,
       poolVars
  <2>11. CASE OtherTool(w, t)
    BY <1>0, <2>11 DEF OtherTool, Call, Counted, QueueTypes, agentVars, poolVars
  <2>12. CASE SendParent(w, t)
    BY <1>0, <2>12 DEF SendParent, Call, Counted, QueueTypes, agentVars, poolVars
  <2>13. CASE CheckRegistered(w, t)
    BY <1>0, <2>13 DEF CheckRegistered, QueueTypes, agentVars, poolVars
  <2>14. CASE GetParentAgent(w, t)
    BY <1>0, <2>14 DEF GetParentAgent, GetAgent, QueueTypes, agentVars, poolVars
  <2>15. CASE Deliver(w, t)
    BY <1>0, <2>15, SendType DEF Deliver, At, QueueTypes, MessageInv, InCall
  <2>16. CASE EndReply(w, t)
    BY <1>0, <2>16 DEF EndReply, Unregister, QueueTypes, agentVars, poolVars
  <2> QED
    BY <1>13, <2>1, <2>2, <2>3, <2>4, <2>5, <2>6, <2>7, <2>8, <2>9, <2>10, <2>11, <2>12,
       <2>13, <2>14, <2>15, <2>16 DEF Execute
<1>14. CASE UNCHANGED vars
  BY <1>0, <1>14 DEF vars, QueueTypes, agentVars, poolVars
<1> QED
  BY <1>1, <1>2, <1>3, <1>4, <1>5, <1>6, <1>7, <1>8, <1>9, <1>10, <1>11, <1>12, <1>13,
     <1>14 DEF Next

\* A record of a function whose counter is below its bound may count one more,
\* and its other field may take any of its values.
LEMMA RecordUpdate ==
    ASSUME NEW n \in Nat, NEW S, NEW T, NEW r \in [T -> [calls : 0..n, stateChange : S]], NEW t \in T
    PROVE  /\ r[t].calls < n =>
              [r EXCEPT ![t].calls = @ + 1] \in [T -> [calls : 0..n, stateChange : S]]
           /\ \A s \in S :
              [r EXCEPT ![t].stateChange = s] \in [T -> [calls : 0..n, stateChange : S]]
OBVIOUS

\* The calls of a reply are counted up to their bound.
LEMMA CountedType ==
    ASSUME reply \in Replies, NEW t \in Tasks, reply[t].calls < MaxCalls
    PROVE  /\ Counted(t) \in Replies
           /\ \A s \in States : [Counted(t) EXCEPT ![t].stateChange = s] \in Replies
<1>1. MaxCalls \in Nat
  BY WorkerRuntimeAssumption
<1>2. Counted(t) \in Replies
  BY <1>1, RecordUpdate DEF Counted, Replies
<1>3. ASSUME NEW s \in States
      PROVE  [Counted(t) EXCEPT ![t].stateChange = s] \in Replies
  BY <1>1, <1>2, RecordUpdate DEF Replies
<1> QED
  BY <1>2, <1>3

\* A reply never runs more calls than its bound, and its state is one of the tool's.
LEMMA ReplyTypeStep == Inv /\ [Next]_vars => (reply \in Replies)'
<1> SUFFICES ASSUME Inv, [Next]_vars
             PROVE  (reply \in Replies)'
  OBVIOUS
<1> USE WorkerRuntimeAssumption, AgentPoolAssumption
<1>0. /\ reply \in Replies
  BY DEF Inv, TypeOK, Replies
<1>1. ASSUME NEW t \in Tasks, SpawnRootTask(t)
      PROVE  (reply \in Replies)'
  BY <1>0, <1>1 DEF SpawnRootTask, Ledger!Create, Ledger!Move, Ledger!EmptyHanded,
     Replies, NoReply
<1>2. ASSUME NEW t \in Tasks, EnqueueRootTask(t)
      PROVE  (reply \in Replies)'
  BY <1>0, <1>2 DEF EnqueueRootTask, Ledger!Submit, Ledger!Move, Replies, NoReply
<1>3. ASSUME NEW t \in Tasks, DropTask(t)
      PROVE  (reply \in Replies)'
  BY <1>0, <1>3 DEF DropTask, Ledger!Drop, Ledger!Move, Replies, NoReply
<1>4. ASSUME NEW t \in Tasks, ReleaseContainer(t)
      PROVE  (reply \in Replies)'
  BY <1>0, <1>4 DEF ReleaseContainer, Replies, NoReply
<1>5. ASSUME NEW w \in Workers, NextTask(w)
      PROVE  (reply \in Replies)'
  BY <1>0, <1>5 DEF NextTask, Goto, Replies, NoReply
<1>6. ASSUME NEW w \in Workers, DequeueNil(w)
      PROVE  (reply \in Replies)'
  BY <1>0, <1>6 DEF DequeueNil, Goto, Replies, NoReply
<1>7. ASSUME NEW w \in Workers, NEW t \in Tasks, Dequeue(w, t)
      PROVE  (reply \in Replies)'
  BY <1>0, <1>7 DEF Dequeue, Ledger!Take, Ledger!Move, Ledger!EmptyHanded, Goto, Replies,
     NoReply
<1>8. ASSUME NEW w \in Workers, NEW t \in Tasks, Spawn(w, t)
      PROVE  (reply \in Replies)'
  BY <1>0, <1>8 DEF Spawn, SpawnAgent, At, Goto, Replies, NoReply
<1>9. ASSUME NEW w \in Workers, NEW t \in Tasks, SpawnFails(w, t)
      PROVE  (reply \in Replies)'
  BY <1>0, <1>9 DEF SpawnFails, Ledger!Submit, Ledger!Move, At, Goto, Replies, NoReply
<1>10. ASSUME NEW w \in Workers, NEW t \in Tasks, FinishTask(w, t)
      PROVE  (reply \in Replies)'
  BY <1>0, <1>10, NoReplyType DEF FinishTask, Replies
<1>11. ASSUME IdleCheck
      PROVE  (reply \in Replies)'
  BY <1>0, <1>11 DEF IdleCheck, cleanupIdleAgents, Replies, NoReply
<1>12. ASSUME Stop
      PROVE  (reply \in Replies)'
  BY <1>0, <1>12 DEF Stop, Replies, NoReply
<1>13. ASSUME NEW w \in Workers, NEW t \in Tasks, Execute(w, t)
      PROVE  (reply \in Replies)'
  <2> USE DEF At, Goto
  <2>1. CASE AssignTask(w, t)
    BY <1>0, <2>1 DEF AssignTask, Replies, NoReply
  <2>2. CASE Prepare(w, t)
    BY <1>0, <2>2 DEF Prepare, GetOrCreateContainer, CreateContainer, Replies, NoReply
  <2>3. CASE Register(w, t)
    BY <1>0, <2>3 DEF Register, Replies, NoReply
  <2>4. CASE SendStart(w, t)
    BY <1>0, <2>4 DEF SendStart, SendInput, Replies, NoReply
  <2>5. CASE Receive(w, t)
    BY <1>0, <2>5 DEF Receive, GetInput, CountTaken, Replies, NoReply
  <2>6. CASE LLMFails(w, t)
    BY <1>0, <2>6 DEF LLMFails, Replies, NoReply
  <2>7. CASE LLMReplies(w, t)
    BY <1>0, <2>7, NoReplyType DEF LLMReplies, Replies
  <2>8. ASSUME NEW s \in States, SetState(w, t, s)
        PROVE  (reply \in Replies)'
    BY <1>0, <2>8, CountedType DEF SetState, Call, At
  <2>9. ASSUME NEW c \in Tasks, SpawnSubTask(w, t, c)
        PROVE  (reply \in Replies)'
    BY <1>0, <2>9, CountedType DEF SpawnSubTask, Call, At
  <2>10. ASSUME NEW c \in Tasks, EnqueueSubTask(w, t, c)
        PROVE  (reply \in Replies)'
    BY <1>0, <2>10 DEF EnqueueSubTask, Ledger!Submit, Ledger!Move, Replies, NoReply
  <2>11. CASE OtherTool(w, t)
    BY <1>0, <2>11, CountedType DEF OtherTool, Call, At
  <2>12. CASE SendParent(w, t)
    BY <1>0, <2>12, CountedType DEF SendParent, Call, At
  <2>13. CASE CheckRegistered(w, t)
    BY <1>0, <2>13 DEF CheckRegistered, Replies, NoReply
  <2>14. CASE GetParentAgent(w, t)
    BY <1>0, <2>14 DEF GetParentAgent, GetAgent, Replies, NoReply
  <2>15. CASE Deliver(w, t)
    BY <1>0, <2>15 DEF Deliver, SendInput, Replies, NoReply
  <2>16. CASE EndReply(w, t)
    BY <1>0, <2>16 DEF EndReply, Unregister, Replies, NoReply
  <2> QED
    BY <1>13, <2>1, <2>2, <2>3, <2>4, <2>5, <2>6, <2>7, <2>8, <2>9, <2>10, <2>11, <2>12,
       <2>13, <2>14, <2>15, <2>16 DEF Execute
<1>14. CASE UNCHANGED vars
  BY <1>0, <1>14 DEF vars, Replies, NoReply
<1> QED
  BY <1>1, <1>2, <1>3, <1>4, <1>5, <1>6, <1>7, <1>8, <1>9, <1>10, <1>11, <1>12, <1>13,
     <1>14 DEF Next

\* The counts stay in their ranges, and the registry holds agents of tasks.
LEMMA CountTypesStep == Inv /\ [Next]_vars => CountTypes'
<1> SUFFICES ASSUME Inv, [Next]_vars
             PROVE  CountTypes'
  OBVIOUS
<1> USE WorkerRuntimeAssumption, AgentPoolAssumption
<1>0. /\ turns \in 0..MaxTurns
      /\ registry \subseteq Tasks
      /\ containers \subseteq Tasks
      /\ releasing \subseteq Tasks
      /\ acked \in [Tasks -> Nat]
      /\ taken \in [Tasks -> Nat]
      /\ told \in [Tasks -> Nat]
      /\ stopping \in BOOLEAN
      /\ inputQueue \in [Tasks -> Seq(Tasks \cup {NoTask})]
  BY DEF Inv, TypeOK
<1>1. ASSUME NEW t \in Tasks, SpawnRootTask(t)
      PROVE  CountTypes'
  BY <1>0, <1>1 DEF SpawnRootTask, Ledger!Create, Ledger!Move, Ledger!EmptyHanded,
     CountTypes, infraVars, msgVars
<1>2. ASSUME NEW t \in Tasks, EnqueueRootTask(t)
      PROVE  CountTypes'
  BY <1>0, <1>2 DEF EnqueueRootTask, Ledger!Submit, Ledger!Move, CountTypes, infraVars,
     msgVars
<1>3. ASSUME NEW t \in Tasks, DropTask(t)
      PROVE  CountTypes'
  BY <1>0, <1>3 DEF DropTask, Ledger!Drop, Ledger!Move, CountTypes, infraVars, msgVars
<1>4. ASSUME NEW t \in Tasks, ReleaseContainer(t)
      PROVE  CountTypes'
  BY <1>0, <1>4 DEF ReleaseContainer, CountTypes, infraVars, msgVars
<1>5. ASSUME NEW w \in Workers, NextTask(w)
      PROVE  CountTypes'
  BY <1>0, <1>5 DEF NextTask, Goto, CountTypes, infraVars, msgVars
<1>6. ASSUME NEW w \in Workers, DequeueNil(w)
      PROVE  CountTypes'
  BY <1>0, <1>6 DEF DequeueNil, Goto, CountTypes, infraVars, msgVars
<1>7. ASSUME NEW w \in Workers, NEW t \in Tasks, Dequeue(w, t)
      PROVE  CountTypes'
  BY <1>0, <1>7 DEF Dequeue, Ledger!Take, Ledger!Move, Ledger!EmptyHanded, Goto,
     CountTypes, infraVars, msgVars
<1>8. ASSUME NEW w \in Workers, NEW t \in Tasks, Spawn(w, t)
      PROVE  CountTypes'
  BY <1>0, <1>8 DEF Spawn, SpawnAgent, At, Goto, CountTypes, infraVars, msgVars
<1>9. ASSUME NEW w \in Workers, NEW t \in Tasks, SpawnFails(w, t)
      PROVE  CountTypes'
  BY <1>0, <1>9 DEF SpawnFails, Ledger!Submit, Ledger!Move, At, Goto, CountTypes,
     infraVars, msgVars
<1>10. ASSUME NEW w \in Workers, NEW t \in Tasks, FinishTask(w, t)
      PROVE  CountTypes'
  BY <1>0, <1>10 DEF FinishTask, RemoveAgent, Ledger!Finish, Ledger!Move, At, Goto,
     CountTypes, infraVars, msgVars
<1>11. ASSUME IdleCheck
      PROVE  CountTypes'
  BY <1>0, <1>11 DEF IdleCheck, cleanupIdleAgents, CountTypes, infraVars, msgVars
<1>12. ASSUME Stop
      PROVE  CountTypes'
  BY <1>0, <1>12 DEF Stop, CountTypes, infraVars, msgVars
<1>13. ASSUME NEW w \in Workers, NEW t \in Tasks, Execute(w, t)
      PROVE  CountTypes'
  <2> USE DEF At, Goto
  <2>1. CASE AssignTask(w, t)
    BY <1>0, <2>1 DEF AssignTask, CountTypes, infraVars, msgVars
  <2>2. CASE Prepare(w, t)
    BY <1>0, <2>2 DEF Prepare, GetOrCreateContainer, CreateContainer, CountTypes,
       infraVars, msgVars
  <2>3. CASE Register(w, t)
    BY <1>0, <2>3 DEF Register, CountTypes, infraVars, msgVars
  <2>4. CASE SendStart(w, t)
    BY <1>0, <2>4 DEF SendStart, SendInput, CountTypes, infraVars, msgVars
  <2>5. CASE Receive(w, t)
    <3>1. /\ Head(inputQueue[t]) \in Tasks \cup {NoTask}
          /\ taken' = CountTaken(Head(inputQueue[t]))
          /\ UNCHANGED <<turns, infraVars, acked, told, stopping>>
      BY <1>0, <2>5, InputType DEF Receive, GetInput
    <3>2. taken' \in [Tasks -> Nat]
      BY <1>0, <3>1 DEF CountTaken
    <3> QED
      BY <1>0, <3>1, <3>2 DEF CountTypes, infraVars
  <2>6. CASE LLMFails(w, t)
    BY <1>0, <2>6 DEF LLMFails, CountTypes, infraVars, msgVars
  <2>7. CASE LLMReplies(w, t)
    BY <1>0, <2>7 DEF LLMReplies, CountTypes, infraVars, msgVars
  <2>8. ASSUME NEW s \in States, SetState(w, t, s)
        PROVE  CountTypes'
    BY <1>0, <2>8 DEF SetState, Call, Counted, CountTypes, infraVars, msgVars
  <2>9. ASSUME NEW c \in Tasks, SpawnSubTask(w, t, c)
        PROVE  CountTypes'
    BY <1>0, <2>9 DEF SpawnSubTask, Call, Counted, Ledger!Create, Ledger!Move,
       Ledger!EmptyHanded, CountTypes, infraVars, msgVars
  <2>10. ASSUME NEW c \in Tasks, EnqueueSubTask(w, t, c)
        PROVE  CountTypes'
    BY <1>0, <2>10 DEF EnqueueSubTask, Ledger!Submit, Ledger!Move, CountTypes, infraVars,
       msgVars
  <2>11. CASE OtherTool(w, t)
    BY <1>0, <2>11 DEF OtherTool, Call, Counted, CountTypes, infraVars, msgVars
  <2>12. CASE SendParent(w, t)
    BY <1>0, <2>12 DEF SendParent, CountTypes, infraVars, agentVars
  <2>13. CASE CheckRegistered(w, t)
    BY <1>0, <2>13 DEF CheckRegistered, CountTypes, infraVars, msgVars
  <2>14. CASE GetParentAgent(w, t)
    BY <1>0, <2>14 DEF GetParentAgent, GetAgent, CountTypes, infraVars, msgVars
  <2>15. CASE Deliver(w, t)
    <3>1. acked' \in [Tasks -> Nat]
      <4>1. PICK ok \in BOOLEAN :
               acked' = IF ok THEN [acked EXCEPT ![t] = acked[t] + 1] ELSE acked
        BY <2>15 DEF Deliver
      <4> QED
        BY <1>0, <4>1
    <3> QED
      BY <1>0, <2>15, <3>1 DEF Deliver, CountTypes, infraVars
  <2>16. CASE EndReply(w, t)
    BY <1>0, <2>16 DEF EndReply, Unregister, CountTypes, infraVars, msgVars
  <2> QED
    BY <1>13, <2>1, <2>2, <2>3, <2>4, <2>5, <2>6, <2>7, <2>8, <2>9, <2>10, <2>11, <2>12,
       <2>13, <2>14, <2>15, <2>16 DEF Execute
<1>14. CASE UNCHANGED vars
  BY <1>0, <1>14 DEF vars, CountTypes, infraVars, msgVars
<1> QED
  BY <1>1, <1>2, <1>3, <1>4, <1>5, <1>6, <1>7, <1>8, <1>9, <1>10, <1>11, <1>12, <1>13,
     <1>14 DEF Next

\* Every step keeps the types of the variables.
LEMMA TypeStep == Inv /\ [Next]_vars => TypeOK'
BY LedgerTypesStep, QueueTypesStep, ReplyTypeStep, CountTypesStep
   DEF TypeOK, LedgerTypes, QueueTypes, Replies, CountTypes

\* An agent registers at the head of its execution and its container is released after
\* it unregisters.
LEMMA RegistryStep == Inv /\ [Next]_vars => RegistryInv'
<1> SUFFICES ASSUME Inv, [Next]_vars
             PROVE  RegistryInv'
  OBVIOUS
<1> USE WorkerRuntimeAssumption, AgentPoolAssumption
<1>0. /\ OwnerInv
      /\ RegistryInv
      /\ status \in [Tasks -> Ledger!Statuses]
      /\ owner \in [Tasks -> Workers \cup Producers \cup {NoClient}]
      /\ wpc \in [Workers -> Locations]
      /\ registry \subseteq Tasks
      /\ containers \subseteq Tasks
      /\ releasing \subseteq Tasks
  BY DEF Inv, TypeOK
<1>1. ASSUME NEW t \in Tasks, SpawnRootTask(t)
      PROVE  RegistryInv'
  BY <1>0, <1>1 DEF SpawnRootTask, Ledger!Create, Ledger!Move, Ledger!EmptyHanded,
     OwnerInv, RegistryInv, Begun, HasAgent, EmptyLocations, InLoop, Producers,
     ledgerVars, infraVars
<1>2. ASSUME NEW t \in Tasks, EnqueueRootTask(t)
      PROVE  RegistryInv'
  BY <1>0, <1>2 DEF EnqueueRootTask, Ledger!Submit, Ledger!Move, OwnerInv, RegistryInv,
     Begun, HasAgent, EmptyLocations, InLoop, Producers, ledgerVars, infraVars
<1>3. ASSUME NEW t \in Tasks, DropTask(t)
      PROVE  RegistryInv'
  BY <1>0, <1>3 DEF DropTask, Ledger!Drop, Ledger!Move, OwnerInv, RegistryInv, Begun,
     HasAgent, EmptyLocations, InLoop, Producers, ledgerVars, infraVars
<1>4. ASSUME NEW t \in Tasks, ReleaseContainer(t)
      PROVE  RegistryInv'
  BY <1>0, <1>4 DEF ReleaseContainer, OwnerInv, RegistryInv, Begun, HasAgent,
     EmptyLocations, InLoop, Producers, ledgerVars, infraVars
<1>5. ASSUME NEW w \in Workers, NextTask(w)
      PROVE  RegistryInv'
  BY <1>0, <1>5 DEF NextTask, Goto, OwnerInv, RegistryInv, Begun, HasAgent,
     EmptyLocations, InLoop, Producers, ledgerVars, infraVars
<1>6. ASSUME NEW w \in Workers, DequeueNil(w)
      PROVE  RegistryInv'
  BY <1>0, <1>6 DEF DequeueNil, Goto, OwnerInv, RegistryInv, Begun, HasAgent,
     EmptyLocations, InLoop, Producers, ledgerVars, infraVars
<1>7. ASSUME NEW w \in Workers, NEW t \in Tasks, Dequeue(w, t)
      PROVE  RegistryInv'
  BY <1>0, <1>7 DEF Dequeue, Ledger!Take, Ledger!Move, Ledger!EmptyHanded, Goto, OwnerInv,
     RegistryInv, Begun, HasAgent, EmptyLocations, InLoop, Producers, ledgerVars,
     infraVars
<1>8. ASSUME NEW w \in Workers, NEW t \in Tasks, Spawn(w, t)
      PROVE  RegistryInv'
  BY <1>0, <1>8 DEF Spawn, SpawnAgent, At, Goto, OwnerInv, RegistryInv, Begun, HasAgent,
     EmptyLocations, InLoop, Producers, ledgerVars, infraVars
<1>9. ASSUME NEW w \in Workers, NEW t \in Tasks, SpawnFails(w, t)
      PROVE  RegistryInv'
  BY <1>0, <1>9 DEF SpawnFails, Ledger!Submit, Ledger!Move, At, Goto, OwnerInv,
     RegistryInv, Begun, HasAgent, EmptyLocations, InLoop, Producers, ledgerVars,
     infraVars
<1>10. ASSUME NEW w \in Workers, NEW t \in Tasks, FinishTask(w, t)
      PROVE  RegistryInv'
  BY <1>0, <1>10 DEF FinishTask, RemoveAgent, Ledger!Finish, Ledger!Move, At, Goto,
     OwnerInv, RegistryInv, Begun, HasAgent, EmptyLocations, InLoop, Producers,
     ledgerVars, infraVars
<1>11. ASSUME IdleCheck
      PROVE  RegistryInv'
  BY <1>0, <1>11 DEF IdleCheck, cleanupIdleAgents, OwnerInv, RegistryInv, Begun, HasAgent,
     EmptyLocations, InLoop, Producers, ledgerVars, infraVars
<1>12. ASSUME Stop
      PROVE  RegistryInv'
  BY <1>0, <1>12 DEF Stop, OwnerInv, RegistryInv, Begun, HasAgent, EmptyLocations, InLoop,
     Producers, ledgerVars, infraVars
<1>13. ASSUME NEW w \in Workers, NEW t \in Tasks, Execute(w, t)
      PROVE  RegistryInv'
  <2> USE DEF At, Goto
  <2>1. CASE AssignTask(w, t)
    BY <1>0, <2>1 DEF AssignTask, OwnerInv, RegistryInv, Begun, HasAgent, EmptyLocations,
       InLoop, Producers, ledgerVars, infraVars
  <2>2. CASE Prepare(w, t)
    BY <1>0, <2>2 DEF Prepare, GetOrCreateContainer, CreateContainer, OwnerInv,
       RegistryInv, Begun, HasAgent, EmptyLocations, InLoop, Producers, ledgerVars,
       infraVars
  <2>3. CASE Register(w, t)
    BY <1>0, <2>3 DEF Register, OwnerInv, RegistryInv, Begun, HasAgent, EmptyLocations,
       InLoop, Producers, ledgerVars, infraVars
  <2>4. CASE SendStart(w, t)
    BY <1>0, <2>4 DEF SendStart, SendInput, OwnerInv, RegistryInv, Begun, HasAgent,
       EmptyLocations, InLoop, Producers, ledgerVars, infraVars
  <2>5. CASE Receive(w, t)
    BY <1>0, <2>5 DEF Receive, GetInput, CountTaken, OwnerInv, RegistryInv, Begun,
       HasAgent, EmptyLocations, InLoop, Producers, ledgerVars, infraVars
  <2>6. CASE LLMFails(w, t)
    BY <1>0, <2>6 DEF LLMFails, OwnerInv, RegistryInv, Begun, HasAgent, EmptyLocations,
       InLoop, Producers, ledgerVars, infraVars
  <2>7. CASE LLMReplies(w, t)
    BY <1>0, <2>7 DEF LLMReplies, OwnerInv, RegistryInv, Begun, HasAgent, EmptyLocations,
       InLoop, Producers, ledgerVars, infraVars
  <2>8. ASSUME NEW s \in States, SetState(w, t, s)
        PROVE  RegistryInv'
    BY <1>0, <2>8 DEF SetState, Call, Counted, OwnerInv, RegistryInv, Begun, HasAgent,
       EmptyLocations, InLoop, Producers, ledgerVars, infraVars
  <2>9. ASSUME NEW c \in Tasks, SpawnSubTask(w, t, c)
        PROVE  RegistryInv'
    BY <1>0, <2>9 DEF SpawnSubTask, Call, Counted, Ledger!Create, Ledger!Move,
       Ledger!EmptyHanded, OwnerInv, RegistryInv, Begun, HasAgent, EmptyLocations, InLoop,
       Producers, ledgerVars, infraVars
  <2>10. ASSUME NEW c \in Tasks, EnqueueSubTask(w, t, c)
        PROVE  RegistryInv'
    BY <1>0, <2>10 DEF EnqueueSubTask, Ledger!Submit, Ledger!Move, OwnerInv, RegistryInv,
       Begun, HasAgent, EmptyLocations, InLoop, Producers, ledgerVars, infraVars
  <2>11. CASE OtherTool(w, t)
    BY <1>0, <2>11 DEF OtherTool, Call, Counted, OwnerInv, RegistryInv, Begun, HasAgent,
       EmptyLocations, InLoop, Producers, ledgerVars, infraVars
  <2>12. CASE SendParent(w, t)
    BY <1>0, <2>12 DEF SendParent, Call, Counted, OwnerInv, RegistryInv, Begun, HasAgent,
       EmptyLocations, InLoop, Producers, ledgerVars, infraVars
  <2>13. CASE CheckRegistered(w, t)
    BY <1>0, <2>13 DEF CheckRegistered, OwnerInv, RegistryInv, Begun, HasAgent,
       EmptyLocations, InLoop, Producers, ledgerVars, infraVars
  <2>14. CASE GetParentAgent(w, t)
    BY <1>0, <2>14 DEF GetParentAgent, GetAgent, OwnerInv, RegistryInv, Begun, HasAgent,
       EmptyLocations, InLoop, Producers, ledgerVars, infraVars
  <2>15. CASE Deliver(w, t)
    BY <1>0, <2>15 DEF Deliver, SendInput, OwnerInv, RegistryInv, Begun, HasAgent,
       EmptyLocations, InLoop, Producers, ledgerVars, infraVars
  <2>16. CASE EndReply(w, t)
    BY <1>0, <2>16 DEF EndReply, Unregister, OwnerInv, RegistryInv, Begun, HasAgent,
       EmptyLocations, InLoop, Producers, ledgerVars, infraVars
  <2> QED
    BY <1>13, <2>1, <2>2, <2>3, <2>4, <2>5, <2>6, <2>7, <2>8, <2>9, <2>10, <2>11, <2>12,
       <2>13, <2>14, <2>15, <2>16 DEF Execute
<1>14. CASE UNCHANGED vars
  BY <1>0, <1>14 DEF vars, OwnerInv, RegistryInv, Begun, HasAgent, EmptyLocations, InLoop,
     Producers, ledgerVars, infraVars
<1> QED
  BY <1>1, <1>2, <1>3, <1>4, <1>5, <1>6, <1>7, <1>8, <1>9, <1>10, <1>11, <1>12, <1>13,
     <1>14 DEF Next

\* The input an agent takes is its task, or a message of one of its children.
LEMMA InputIsOfChild ==
    ASSUME inputQueue \in [Tasks -> Seq(Tasks \cup {NoTask})], InputInv,
           NEW t \in Tasks, inputQueue[t] # <<>>
    PROVE  Head(inputQueue[t]) # NoTask =>
              Head(inputQueue[t]) \in Tasks /\ parent[Head(inputQueue[t])] = t
<1>1. /\ Head(inputQueue[t]) \in Tasks \cup {NoTask}
      /\ 1 \in DOMAIN inputQueue[t]
      /\ Head(inputQueue[t]) = inputQueue[t][1]
  OBVIOUS
<1>2. \A i \in DOMAIN inputQueue[t] :
         inputQueue[t][i] # NoTask => parent[inputQueue[t][i]] = t
  BY DEF InputInv
<1>3. Head(inputQueue[t]) # NoTask => parent[Head(inputQueue[t])] = t
  BY <1>1, <1>2
<1> QED
  BY <1>1, <1>3

\* Whoever is sending was sending before, with the same parent, and no execution
\* is undone.
LEMMA MessageKept ==
    ASSUME MessageInv,
           \A u \in Tasks : Begun(u) => Begun(u)',
           \A c \in Tasks : status'[c] = "none" =>
              /\ status[c] = "none"
              /\ acked'[c] = acked[c] /\ taken'[c] = taken[c] /\ told'[c] = told[c]
              /\ parent'[c] = parent[c],
           \A t \in Tasks, w \in Workers : owner'[t] = w /\ wpc'[w] \in InCall =>
              owner[t] = w /\ wpc[w] \in InCall /\ parent'[t] = parent[t]
    PROVE  MessageInv'
<1>1. ASSUME NEW t \in Tasks, NEW w \in Workers, owner'[t] = w, wpc'[w] \in InCall
      PROVE  parent'[t] \in Tasks /\ Begun(parent[t])'
  <2>1. parent[t] \in Tasks /\ Begun(parent[t]) /\ parent'[t] = parent[t]
    BY <1>1 DEF MessageInv
  <2>2. \A u \in Tasks : u = parent[t] => Begun(u)'
    BY <2>1
  <2> QED
    BY <2>1, <2>2 DEF Begun, HasAgent
<1>2. ASSUME NEW c \in Tasks, status'[c] = "none"
      PROVE  acked'[c] = 0 /\ taken'[c] = 0 /\ told'[c] = 0 /\ parent'[c] = NoTask
  BY <1>2 DEF MessageInv
<1> QED
  BY <1>1, <1>2 DEF MessageInv

\* A task that sends to its parent has a parent whose execution has begun.
LEMMA MessageStep == Inv /\ [Next]_vars => MessageInv'
<1> SUFFICES ASSUME Inv, [Next]_vars
             PROVE  MessageInv'
  OBVIOUS
<1> USE WorkerRuntimeAssumption, AgentPoolAssumption
<1>0. /\ OwnerInv
      /\ PoolIsExecutions
      /\ RegistryInv
      /\ InputInv
      /\ MessageInv
      /\ registry \subseteq Tasks
      /\ status \in [Tasks -> Ledger!Statuses]
      /\ owner \in [Tasks -> Workers \cup Producers \cup {NoClient}]
      /\ wpc \in [Workers -> Locations]
      /\ parent \in [Tasks -> Tasks \cup {NoTask}]
      /\ inputQueue \in [Tasks -> Seq(Tasks \cup {NoTask})]
      /\ acked \in [Tasks -> Nat]
      /\ taken \in [Tasks -> Nat]
      /\ told \in [Tasks -> Nat]
  BY DEF Inv, TypeOK
<1>1. ASSUME NEW t \in Tasks, SpawnRootTask(t)
      PROVE  MessageInv'
  BY <1>0, <1>1 DEF SpawnRootTask, Ledger!Create, Ledger!Move, Ledger!EmptyHanded,
     OwnerInv, PoolIsExecutions, RegistryInv, MessageInv, InCall, Begun, HasAgent,
     EmptyLocations, InLoop, Producers, ledgerVars, agentVars, infraVars, msgVars,
     poolVars
<1>2. ASSUME NEW t \in Tasks, EnqueueRootTask(t)
      PROVE  MessageInv'
  BY <1>0, <1>2 DEF EnqueueRootTask, Ledger!Submit, Ledger!Move, OwnerInv,
     PoolIsExecutions, RegistryInv, MessageInv, InCall, Begun, HasAgent, EmptyLocations,
     InLoop, Producers, ledgerVars, agentVars, infraVars, msgVars, poolVars
<1>3. ASSUME NEW t \in Tasks, DropTask(t)
      PROVE  MessageInv'
  BY <1>0, <1>3 DEF DropTask, Ledger!Drop, Ledger!Move, OwnerInv, PoolIsExecutions,
     RegistryInv, MessageInv, InCall, Begun, HasAgent, EmptyLocations, InLoop, Producers,
     ledgerVars, agentVars, infraVars, msgVars, poolVars
<1>4. ASSUME NEW t \in Tasks, ReleaseContainer(t)
      PROVE  MessageInv'
  BY <1>0, <1>4 DEF ReleaseContainer, OwnerInv, PoolIsExecutions, RegistryInv, MessageInv,
     InCall, Begun, HasAgent, EmptyLocations, InLoop, Producers, ledgerVars, agentVars,
     infraVars, msgVars, poolVars
<1>5. ASSUME NEW w \in Workers, NextTask(w)
      PROVE  MessageInv'
  BY <1>0, <1>5 DEF NextTask, Goto, OwnerInv, PoolIsExecutions, RegistryInv, MessageInv,
     InCall, Begun, HasAgent, EmptyLocations, InLoop, Producers, ledgerVars, agentVars,
     infraVars, msgVars, poolVars
<1>6. ASSUME NEW w \in Workers, DequeueNil(w)
      PROVE  MessageInv'
  BY <1>0, <1>6 DEF DequeueNil, Goto, OwnerInv, PoolIsExecutions, RegistryInv, MessageInv,
     InCall, Begun, HasAgent, EmptyLocations, InLoop, Producers, ledgerVars, agentVars,
     infraVars, msgVars, poolVars
<1>7. ASSUME NEW w \in Workers, NEW t \in Tasks, Dequeue(w, t)
      PROVE  MessageInv'
  BY <1>0, <1>7 DEF Dequeue, Ledger!Take, Ledger!Move, Ledger!EmptyHanded, Goto, OwnerInv,
     PoolIsExecutions, RegistryInv, MessageInv, InCall, Begun, HasAgent, EmptyLocations,
     InLoop, Producers, ledgerVars, agentVars, infraVars, msgVars, poolVars
<1>8. ASSUME NEW w \in Workers, NEW t \in Tasks, Spawn(w, t)
      PROVE  MessageInv'
  BY <1>0, <1>8 DEF Spawn, SpawnAgent, At, Goto, OwnerInv, PoolIsExecutions, RegistryInv,
     MessageInv, InCall, Begun, HasAgent, EmptyLocations, InLoop, Producers, ledgerVars,
     agentVars, infraVars, msgVars, poolVars
<1>9. ASSUME NEW w \in Workers, NEW t \in Tasks, SpawnFails(w, t)
      PROVE  MessageInv'
  BY <1>0, <1>9 DEF SpawnFails, Ledger!Submit, Ledger!Move, At, Goto, OwnerInv,
     PoolIsExecutions, RegistryInv, MessageInv, InCall, Begun, HasAgent, EmptyLocations,
     InLoop, Producers, ledgerVars, agentVars, infraVars, msgVars, poolVars
<1>10. ASSUME NEW w \in Workers, NEW t \in Tasks, FinishTask(w, t)
      PROVE  MessageInv'
  BY <1>0, <1>10 DEF FinishTask, RemoveAgent, Ledger!Finish, Ledger!Move, At, Goto,
     OwnerInv, PoolIsExecutions, RegistryInv, MessageInv, InCall, Begun, HasAgent,
     EmptyLocations, InLoop, Producers, ledgerVars, agentVars, infraVars, msgVars,
     poolVars
<1>11. ASSUME IdleCheck
      PROVE  MessageInv'
  BY <1>0, <1>11 DEF IdleCheck, cleanupIdleAgents, OwnerInv, PoolIsExecutions,
     RegistryInv, MessageInv, InCall, Begun, HasAgent, EmptyLocations, InLoop, Producers,
     ledgerVars, agentVars, infraVars, msgVars, poolVars
<1>12. ASSUME Stop
      PROVE  MessageInv'
  BY <1>0, <1>12 DEF Stop, OwnerInv, PoolIsExecutions, RegistryInv, MessageInv, InCall,
     Begun, HasAgent, EmptyLocations, InLoop, Producers, ledgerVars, agentVars, infraVars,
     msgVars, poolVars
<1>13. ASSUME NEW w \in Workers, NEW t \in Tasks, Execute(w, t)
      PROVE  MessageInv'
  <2> USE DEF At, Goto
  <2>1. CASE AssignTask(w, t)
    BY <1>0, <2>1 DEF AssignTask, OwnerInv, PoolIsExecutions, RegistryInv, MessageInv,
       InCall, Begun, HasAgent, EmptyLocations, InLoop, Producers, ledgerVars, agentVars,
       infraVars, msgVars, poolVars
  <2>2. CASE Prepare(w, t)
    BY <1>0, <2>2 DEF Prepare, GetOrCreateContainer, CreateContainer, OwnerInv,
       PoolIsExecutions, RegistryInv, MessageInv, InCall, Begun, HasAgent, EmptyLocations,
       InLoop, Producers, ledgerVars, agentVars, infraVars, msgVars, poolVars
  <2>3. CASE Register(w, t)
    BY <1>0, <2>3 DEF Register, OwnerInv, PoolIsExecutions, RegistryInv, MessageInv,
       InCall, Begun, HasAgent, EmptyLocations, InLoop, Producers, ledgerVars, agentVars,
       infraVars, msgVars, poolVars
  <2>4. CASE SendStart(w, t)
    BY <1>0, <2>4 DEF SendStart, SendInput, OwnerInv, PoolIsExecutions, RegistryInv,
       MessageInv, InCall, Begun, HasAgent, EmptyLocations, InLoop, Producers, ledgerVars,
       agentVars, infraVars, msgVars, poolVars
  <2>5. CASE Receive(w, t)
    <3>1. \A u \in Tasks : Begun(u) => Begun(u)'
      BY <1>0, <2>5 DEF Receive, Begun, HasAgent, ledgerVars
    <3>2. \A c \in Tasks : status[c] = "none" => taken'[c] = taken[c]
      BY <1>0, <2>5, InputIsOfChild DEF Receive, GetInput, CountTaken, MessageInv
    <3>3. \A c \in Tasks : status'[c] = "none" =>
             /\ status[c] = "none"
             /\ acked'[c] = acked[c] /\ taken'[c] = taken[c] /\ told'[c] = told[c]
             /\ parent'[c] = parent[c]
      BY <2>5, <3>2 DEF Receive, ledgerVars
    <3>4. \A u \in Tasks, v \in Workers : owner'[u] = v /\ wpc'[v] \in InCall =>
             owner[u] = v /\ wpc[v] \in InCall /\ parent'[u] = parent[u]
      BY <1>0, <2>5 DEF Receive, InCall, ledgerVars
    <3> QED
      BY <1>0, <3>1, <3>3, <3>4, MessageKept
  <2>6. CASE LLMFails(w, t)
    <3>1. \A u \in Tasks : Begun(u) => Begun(u)'
      BY <1>0, <2>6 DEF LLMFails, Begun, HasAgent, ledgerVars
    <3>2. \A d \in Tasks : status'[d] = "none" =>
             /\ status[d] = "none"
             /\ acked'[d] = acked[d] /\ taken'[d] = taken[d] /\ told'[d] = told[d]
             /\ parent'[d] = parent[d]
      BY <1>0, <2>6 DEF LLMFails, OwnerInv, Producers, ledgerVars, msgVars
    <3>3. \A u \in Tasks, v \in Workers : owner'[u] = v /\ wpc'[v] \in InCall =>
             owner[u] = v /\ wpc[v] \in InCall /\ parent'[u] = parent[u]
      BY <1>0, <2>6 DEF LLMFails, InCall, Producers, ledgerVars
    <3> QED
      BY <1>0, <3>1, <3>2, <3>3, MessageKept
  <2>7. CASE LLMReplies(w, t)
    <3>1. \A u \in Tasks : Begun(u) => Begun(u)'
      BY <1>0, <2>7 DEF LLMReplies, Begun, HasAgent, ledgerVars
    <3>2. \A d \in Tasks : status'[d] = "none" =>
             /\ status[d] = "none"
             /\ acked'[d] = acked[d] /\ taken'[d] = taken[d] /\ told'[d] = told[d]
             /\ parent'[d] = parent[d]
      BY <1>0, <2>7 DEF LLMReplies, OwnerInv, Producers, ledgerVars, msgVars
    <3>3. \A u \in Tasks, v \in Workers : owner'[u] = v /\ wpc'[v] \in InCall =>
             owner[u] = v /\ wpc[v] \in InCall /\ parent'[u] = parent[u]
      BY <1>0, <2>7 DEF LLMReplies, InCall, Producers, ledgerVars
    <3> QED
      BY <1>0, <3>1, <3>2, <3>3, MessageKept
  <2>8. ASSUME NEW s \in States, SetState(w, t, s)
        PROVE  MessageInv'
    BY <1>0, <2>8 DEF SetState, Call, Counted, OwnerInv, PoolIsExecutions, RegistryInv,
       MessageInv, InCall, Begun, HasAgent, EmptyLocations, InLoop, Producers, ledgerVars,
       agentVars, infraVars, msgVars, poolVars
  <2>9. ASSUME NEW c \in Tasks, SpawnSubTask(w, t, c)
        PROVE  MessageInv'
    <3>1. \A u \in Tasks : Begun(u) => Begun(u)'
      BY <1>0, <2>9 DEF SpawnSubTask, Call, Ledger!Create, Ledger!Move, OwnerInv,
         Begun, HasAgent, ledgerVars
    <3>2. \A d \in Tasks : status'[d] = "none" =>
             /\ status[d] = "none"
             /\ acked'[d] = acked[d] /\ taken'[d] = taken[d] /\ told'[d] = told[d]
             /\ parent'[d] = parent[d]
      BY <1>0, <2>9 DEF SpawnSubTask, Call, Ledger!Create, Ledger!Move, OwnerInv,
         Producers, ledgerVars, msgVars
    <3>3. \A u \in Tasks, v \in Workers : owner'[u] = v /\ wpc'[v] \in InCall =>
             owner[u] = v /\ wpc[v] \in InCall /\ parent'[u] = parent[u]
      BY <1>0, <2>9 DEF SpawnSubTask, Call, Ledger!Create, Ledger!Move, InCall,
         Producers, ledgerVars
    <3> QED
      BY <1>0, <3>1, <3>2, <3>3, MessageKept
  <2>10. ASSUME NEW c \in Tasks, EnqueueSubTask(w, t, c)
        PROVE  MessageInv'
    <3>1. \A u \in Tasks : Begun(u) => Begun(u)'
      BY <1>0, <2>10 DEF EnqueueSubTask, Ledger!Submit, Ledger!Move, Producers, Begun,
         HasAgent, ledgerVars
    <3>2. \A d \in Tasks : status'[d] = "none" =>
             /\ status[d] = "none"
             /\ acked'[d] = acked[d] /\ taken'[d] = taken[d] /\ told'[d] = told[d]
             /\ parent'[d] = parent[d]
      BY <1>0, <2>10 DEF EnqueueSubTask, Ledger!Submit, Ledger!Move, OwnerInv,
         Producers, ledgerVars, msgVars
    <3>3. \A u \in Tasks, v \in Workers : owner'[u] = v /\ wpc'[v] \in InCall =>
             owner[u] = v /\ wpc[v] \in InCall /\ parent'[u] = parent[u]
      BY <1>0, <2>10 DEF EnqueueSubTask, Ledger!Submit, Ledger!Move, InCall, Producers,
         ledgerVars
    <3> QED
      BY <1>0, <3>1, <3>2, <3>3, MessageKept
  <2>11. CASE OtherTool(w, t)
    BY <1>0, <2>11 DEF OtherTool, Call, Counted, OwnerInv, PoolIsExecutions, RegistryInv,
       MessageInv, InCall, Begun, HasAgent, EmptyLocations, InLoop, Producers, ledgerVars,
       agentVars, infraVars, msgVars, poolVars
  <2>12. CASE SendParent(w, t)
    <3>1. \A u \in Tasks : Begun(u) => Begun(u)'
      BY <1>0, <2>12 DEF SendParent, Call, Begun, HasAgent, ledgerVars
    <3>2. status[t] # "none"
      BY <1>0, <2>12 DEF SendParent, Call, OwnerInv, Producers
    <3>3. parent[t] \in registry => parent[t] \in Tasks /\ Begun(parent[t])
      BY <1>0 DEF RegistryInv
    <3> QED
      <4>1. \A c \in Tasks : status'[c] = "none" =>
               acked'[c] = 0 /\ taken'[c] = 0 /\ told'[c] = 0 /\ parent'[c] = NoTask
        BY <1>0, <2>12, <3>2 DEF SendParent, Call, MessageInv, ledgerVars
      <4>2. ASSUME NEW u \in Tasks, NEW v \in Workers,
                   owner'[u] = v, wpc'[v] \in InCall
            PROVE  parent'[u] \in Tasks /\ Begun(parent[u])'
        <5>1. CASE u = t
          <6>1. v = w /\ wpc'[w] # wpc[w]
            BY <1>0, <2>12, <4>2, <5>1 DEF SendParent, Call, InCall, ledgerVars
          <6>2. parent[t] \in registry
            BY <2>12, <6>1 DEF SendParent
          <6> QED
            BY <2>12, <3>1, <3>3, <5>1, <6>2 DEF SendParent, Begun, HasAgent
        <5>2. CASE u # t
          <6>1. v # w
            BY <1>0, <2>12, <4>2, <5>2 DEF SendParent, Call, OwnerInv, InCall, ledgerVars
          <6>2. parent[u] \in Tasks /\ Begun(parent[u])
            BY <1>0, <2>12, <4>2, <6>1 DEF SendParent, MessageInv, ledgerVars
          <6> QED
            BY <2>12, <3>1, <6>2 DEF SendParent, Begun, HasAgent
        <5> QED
          BY <5>1, <5>2
      <4> QED
        BY <4>1, <4>2 DEF MessageInv
  <2>13. CASE CheckRegistered(w, t)
    <3>1. \A u \in Tasks : Begun(u) => Begun(u)'
      BY <1>0, <2>13 DEF CheckRegistered, Begun, HasAgent, ledgerVars
    <3>2. \A d \in Tasks : status'[d] = "none" =>
             /\ status[d] = "none"
             /\ acked'[d] = acked[d] /\ taken'[d] = taken[d] /\ told'[d] = told[d]
             /\ parent'[d] = parent[d]
      BY <1>0, <2>13 DEF CheckRegistered, OwnerInv, Producers, ledgerVars, msgVars
    <3>3. \A u \in Tasks, v \in Workers : owner'[u] = v /\ wpc'[v] \in InCall =>
             owner[u] = v /\ wpc[v] \in InCall /\ parent'[u] = parent[u]
      BY <1>0, <2>13 DEF CheckRegistered, InCall, Producers, ledgerVars
    <3> QED
      BY <1>0, <3>1, <3>2, <3>3, MessageKept
  <2>14. CASE GetParentAgent(w, t)
    <3>1. \A u \in Tasks : Begun(u) => Begun(u)'
      BY <1>0, <2>14 DEF GetParentAgent, Begun, HasAgent, ledgerVars
    <3>2. \A d \in Tasks : status'[d] = "none" =>
             /\ status[d] = "none"
             /\ acked'[d] = acked[d] /\ taken'[d] = taken[d] /\ told'[d] = told[d]
             /\ parent'[d] = parent[d]
      BY <1>0, <2>14 DEF GetParentAgent, OwnerInv, Producers, ledgerVars, msgVars
    <3>3. \A u \in Tasks, v \in Workers : owner'[u] = v /\ wpc'[v] \in InCall =>
             owner[u] = v /\ wpc[v] \in InCall /\ parent'[u] = parent[u]
      BY <1>0, <2>14 DEF GetParentAgent, InCall, Producers, ledgerVars
    <3> QED
      BY <1>0, <3>1, <3>2, <3>3, MessageKept
  <2>15. CASE Deliver(w, t)
    <3>1. \A u \in Tasks : Begun(u) => Begun(u)'
      BY <1>0, <2>15 DEF Deliver, Begun, HasAgent, ledgerVars
    <3>2. status[t] # "none"
      BY <1>0, <2>15 DEF Deliver, OwnerInv, Producers
    <3>3. \A c \in Tasks : c # t => acked'[c] = acked[c]
      <4>1. PICK ok \in BOOLEAN :
               acked' = IF ok THEN [acked EXCEPT ![t] = acked[t] + 1] ELSE acked
        BY <2>15 DEF Deliver
      <4> QED
        BY <1>0, <4>1
    <3>4. \A c \in Tasks : status'[c] = "none" =>
             /\ status[c] = "none"
             /\ acked'[c] = acked[c] /\ taken'[c] = taken[c] /\ told'[c] = told[c]
             /\ parent'[c] = parent[c]
      BY <2>15, <3>2, <3>3 DEF Deliver, ledgerVars
    <3>5. \A u \in Tasks, v \in Workers : owner'[u] = v /\ wpc'[v] \in InCall =>
             owner[u] = v /\ wpc[v] \in InCall /\ parent'[u] = parent[u]
      BY <1>0, <2>15 DEF Deliver, InCall, ledgerVars
    <3> QED
      BY <1>0, <3>1, <3>4, <3>5, MessageKept
  <2>16. CASE EndReply(w, t)
    BY <1>0, <2>16 DEF EndReply, Unregister, OwnerInv, PoolIsExecutions, RegistryInv,
       MessageInv, InCall, Begun, HasAgent, EmptyLocations, InLoop, Producers, ledgerVars,
       agentVars, infraVars, msgVars, poolVars
  <2> QED
    BY <1>13, <2>1, <2>2, <2>3, <2>4, <2>5, <2>6, <2>7, <2>8, <2>9, <2>10, <2>11, <2>12,
       <2>13, <2>14, <2>15, <2>16 DEF Execute
<1>14. CASE UNCHANGED vars
  BY <1>0, <1>14 DEF vars, OwnerInv, PoolIsExecutions, RegistryInv, MessageInv, InCall,
     Begun, HasAgent, EmptyLocations, InLoop, Producers, ledgerVars, agentVars, infraVars,
     msgVars, poolVars
<1> QED
  BY <1>1, <1>2, <1>3, <1>4, <1>5, <1>6, <1>7, <1>8, <1>9, <1>10, <1>11, <1>12, <1>13,
     <1>14 DEF Next

\* Nothing is sent and no execution is undone.
LEMMA InputUnchanged ==
    ASSUME InputInv, UNCHANGED <<inputQueue, parent>>, \A u \in Tasks : Begun(u) => Begun(u)'
    PROVE  InputInv'
BY DEF InputInv

\* A message is sent by a child to the input queue of its parent.
LEMMA InputStep == Inv /\ [Next]_vars => InputInv'
<1> SUFFICES ASSUME Inv, [Next]_vars
             PROVE  InputInv'
  OBVIOUS
<1> USE WorkerRuntimeAssumption, AgentPoolAssumption
<1>0. /\ OwnerInv
      /\ MessageInv
      /\ InputInv
      /\ status \in [Tasks -> Ledger!Statuses]
      /\ owner \in [Tasks -> Workers \cup Producers \cup {NoClient}]
      /\ wpc \in [Workers -> Locations]
      /\ parent \in [Tasks -> Tasks \cup {NoTask}]
      /\ inputQueue \in [Tasks -> Seq(Tasks \cup {NoTask})]
  BY DEF Inv, TypeOK
<1>1. ASSUME NEW t \in Tasks, SpawnRootTask(t)
      PROVE  InputInv'
  BY <1>0, <1>1 DEF SpawnRootTask, Ledger!Create, Ledger!Move, Ledger!EmptyHanded,
     OwnerInv, MessageInv, InputInv, Begun, HasAgent, EmptyLocations, InLoop, Producers,
     ledgerVars, agentVars, poolVars
<1>2. ASSUME NEW t \in Tasks, EnqueueRootTask(t)
      PROVE  InputInv'
  BY <1>0, <1>2 DEF EnqueueRootTask, Ledger!Submit, Ledger!Move, OwnerInv, MessageInv,
     InputInv, Begun, HasAgent, EmptyLocations, InLoop, Producers, ledgerVars, agentVars,
     poolVars
<1>3. ASSUME NEW t \in Tasks, DropTask(t)
      PROVE  InputInv'
  BY <1>0, <1>3 DEF DropTask, Ledger!Drop, Ledger!Move, OwnerInv, MessageInv, InputInv,
     Begun, HasAgent, EmptyLocations, InLoop, Producers, ledgerVars, agentVars, poolVars
<1>4. ASSUME NEW t \in Tasks, ReleaseContainer(t)
      PROVE  InputInv'
  BY <1>0, <1>4 DEF ReleaseContainer, OwnerInv, MessageInv, InputInv, Begun, HasAgent,
     EmptyLocations, InLoop, Producers, ledgerVars, agentVars, poolVars
<1>5. ASSUME NEW w \in Workers, NextTask(w)
      PROVE  InputInv'
  BY <1>0, <1>5 DEF NextTask, Goto, OwnerInv, MessageInv, InputInv, Begun, HasAgent,
     EmptyLocations, InLoop, Producers, ledgerVars, agentVars, poolVars
<1>6. ASSUME NEW w \in Workers, DequeueNil(w)
      PROVE  InputInv'
  BY <1>0, <1>6 DEF DequeueNil, Goto, OwnerInv, MessageInv, InputInv, Begun, HasAgent,
     EmptyLocations, InLoop, Producers, ledgerVars, agentVars, poolVars
<1>7. ASSUME NEW w \in Workers, NEW t \in Tasks, Dequeue(w, t)
      PROVE  InputInv'
  <2>1. \A u \in Tasks : Begun(u) => Begun(u)'
    BY <1>0, <1>7 DEF Dequeue, Ledger!Take, Ledger!Move, Goto, OwnerInv, Begun, HasAgent
  <2> QED
    BY <1>0, <1>7, <2>1, InputUnchanged DEF Dequeue, agentVars
<1>8. ASSUME NEW w \in Workers, NEW t \in Tasks, Spawn(w, t)
      PROVE  InputInv'
  BY <1>0, <1>8 DEF Spawn, SpawnAgent, At, Goto, OwnerInv, MessageInv, InputInv, Begun,
     HasAgent, EmptyLocations, InLoop, Producers, ledgerVars, agentVars, poolVars
<1>9. ASSUME NEW w \in Workers, NEW t \in Tasks, SpawnFails(w, t)
      PROVE  InputInv'
  BY <1>0, <1>9 DEF SpawnFails, Ledger!Submit, Ledger!Move, At, Goto, OwnerInv,
     MessageInv, InputInv, Begun, HasAgent, EmptyLocations, InLoop, Producers, ledgerVars,
     agentVars, poolVars
<1>10. ASSUME NEW w \in Workers, NEW t \in Tasks, FinishTask(w, t)
      PROVE  InputInv'
  BY <1>0, <1>10 DEF FinishTask, RemoveAgent, Ledger!Finish, Ledger!Move, At, Goto,
     OwnerInv, MessageInv, InputInv, Begun, HasAgent, EmptyLocations, InLoop, Producers,
     ledgerVars, agentVars, poolVars
<1>11. ASSUME IdleCheck
      PROVE  InputInv'
  BY <1>0, <1>11 DEF IdleCheck, cleanupIdleAgents, OwnerInv, MessageInv, InputInv, Begun,
     HasAgent, EmptyLocations, InLoop, Producers, ledgerVars, agentVars, poolVars
<1>12. ASSUME Stop
      PROVE  InputInv'
  BY <1>0, <1>12 DEF Stop, OwnerInv, MessageInv, InputInv, Begun, HasAgent,
     EmptyLocations, InLoop, Producers, ledgerVars, agentVars, poolVars
<1>13. ASSUME NEW w \in Workers, NEW t \in Tasks, Execute(w, t)
      PROVE  InputInv'
  <2> USE DEF At, Goto
  <2>1. CASE AssignTask(w, t)
    BY <1>0, <2>1 DEF AssignTask, OwnerInv, MessageInv, InputInv, Begun, HasAgent,
       EmptyLocations, InLoop, Producers, ledgerVars, agentVars, poolVars
  <2>2. CASE Prepare(w, t)
    BY <1>0, <2>2 DEF Prepare, GetOrCreateContainer, CreateContainer, OwnerInv,
       MessageInv, InputInv, Begun, HasAgent, EmptyLocations, InLoop, Producers,
       ledgerVars, agentVars, poolVars
  <2>3. CASE Register(w, t)
    BY <1>0, <2>3 DEF Register, OwnerInv, MessageInv, InputInv, Begun, HasAgent,
       EmptyLocations, InLoop, Producers, ledgerVars, agentVars, poolVars
  <2>4. CASE SendStart(w, t)
    BY <1>0, <2>4 DEF SendStart, SendInput, OwnerInv, MessageInv, InputInv, Begun,
       HasAgent, EmptyLocations, InLoop, Producers, ledgerVars, agentVars, poolVars
  <2>5. CASE Receive(w, t)
    <3>1. \A u \in Tasks : Begun(u) => Begun(u)'
      BY <1>0, <2>5 DEF Receive, Begun, HasAgent, ledgerVars
    <3>2. /\ Tail(inputQueue[t]) \in Seq(Tasks \cup {NoTask})
          /\ \A i \in DOMAIN Tail(inputQueue[t]) :
                i + 1 \in DOMAIN inputQueue[t] /\ Tail(inputQueue[t])[i] = inputQueue[t][i + 1]
      BY <1>0, <2>5 DEF Receive, GetInput
    <3>3. \A i \in DOMAIN Tail(inputQueue[t]) :
             Tail(inputQueue[t])[i] # NoTask => parent[Tail(inputQueue[t])[i]] = t
      BY <1>0, <3>2 DEF InputInv
    <3>4. Begun(t)
      BY <1>0, <2>5 DEF Receive, Begun, HasAgent
    <3> QED
      BY <1>0, <2>5, <3>1, <3>3, <3>4 DEF Receive, GetInput, InputInv
  <2>6. CASE LLMFails(w, t)
    BY <1>0, <2>6 DEF LLMFails, OwnerInv, MessageInv, InputInv, Begun, HasAgent,
       EmptyLocations, InLoop, Producers, ledgerVars, agentVars, poolVars
  <2>7. CASE LLMReplies(w, t)
    BY <1>0, <2>7 DEF LLMReplies, OwnerInv, MessageInv, InputInv, Begun, HasAgent,
       EmptyLocations, InLoop, Producers, ledgerVars, agentVars, poolVars
  <2>8. ASSUME NEW s \in States, SetState(w, t, s)
        PROVE  InputInv'
    BY <1>0, <2>8 DEF SetState, Call, Counted, OwnerInv, MessageInv, InputInv, Begun,
       HasAgent, EmptyLocations, InLoop, Producers, ledgerVars, agentVars, poolVars
  <2>9. ASSUME NEW c \in Tasks, SpawnSubTask(w, t, c)
        PROVE  InputInv'
    <3>1. \A u \in Tasks : Begun(u) => Begun(u)'
      BY <1>0, <2>9 DEF SpawnSubTask, Call, Ledger!Create, Ledger!Move, OwnerInv,
         Begun, HasAgent
    <3>2. status[c] = "none" /\ parent[c] = NoTask
      BY <1>0, <2>9 DEF SpawnSubTask, Ledger!Create, MessageInv
    <3>3. \A u \in Tasks : \A i \in DOMAIN inputQueue[u] : inputQueue[u][i] # c
      BY <1>0, <3>2 DEF InputInv
    <3> QED
      BY <1>0, <2>9, <3>1, <3>3 DEF SpawnSubTask, InputInv, agentVars
  <2>10. ASSUME NEW c \in Tasks, EnqueueSubTask(w, t, c)
        PROVE  InputInv'
    BY <1>0, <2>10 DEF EnqueueSubTask, Ledger!Submit, Ledger!Move, OwnerInv, MessageInv,
       InputInv, Begun, HasAgent, EmptyLocations, InLoop, Producers, ledgerVars,
       agentVars, poolVars
  <2>11. CASE OtherTool(w, t)
    BY <1>0, <2>11 DEF OtherTool, Call, Counted, OwnerInv, MessageInv, InputInv, Begun,
       HasAgent, EmptyLocations, InLoop, Producers, ledgerVars, agentVars, poolVars
  <2>12. CASE SendParent(w, t)
    BY <1>0, <2>12 DEF SendParent, Call, Counted, OwnerInv, MessageInv, InputInv, Begun,
       HasAgent, EmptyLocations, InLoop, Producers, ledgerVars, agentVars, poolVars
  <2>13. CASE CheckRegistered(w, t)
    <3>1. \A u \in Tasks : Begun(u) => Begun(u)'
      BY <1>0, <2>13 DEF CheckRegistered, Begun, HasAgent, ledgerVars
    <3> QED
      BY <1>0, <2>13, <3>1, InputUnchanged DEF CheckRegistered, agentVars
  <2>14. CASE GetParentAgent(w, t)
    <3>1. \A u \in Tasks : Begun(u) => Begun(u)'
      BY <1>0, <2>14 DEF GetParentAgent, Begun, HasAgent, ledgerVars
    <3> QED
      BY <1>0, <2>14, <3>1, InputUnchanged DEF GetParentAgent, GetAgent, poolVars
  <2>15. CASE Deliver(w, t)
    <3>1. \A u \in Tasks : Begun(u) => Begun(u)'
      BY <1>0, <2>15 DEF Deliver, Begun, HasAgent, ledgerVars
    <3>2. parent[t] \in Tasks /\ Begun(parent[t])
      BY <1>0, <2>15 DEF Deliver, MessageInv, InCall
    <3>3. \A i \in DOMAIN Append(inputQueue[parent[t]], t) :
             \/ Append(inputQueue[parent[t]], t)[i] = t
             \/ /\ i \in DOMAIN inputQueue[parent[t]]
                /\ Append(inputQueue[parent[t]], t)[i] = inputQueue[parent[t]][i]
      BY <1>0, <3>2
    <3>4. \/ UNCHANGED inputQueue
          \/ inputQueue' = [inputQueue EXCEPT ![parent[t]] = Append(inputQueue[parent[t]], t)]
      BY <2>15 DEF Deliver, SendInput
    <3> QED
      <4>1. \A u \in Tasks : ~Begun(u)' => inputQueue'[u] = <<>>
        BY <1>0, <3>1, <3>2, <3>4 DEF InputInv
      <4>2. ASSUME NEW u \in Tasks, NEW i \in DOMAIN inputQueue'[u], inputQueue'[u][i] # NoTask
            PROVE  parent'[inputQueue'[u][i]] = u
        <5>1. CASE inputQueue'[u] = inputQueue[u]
          BY <1>0, <2>15, <4>2, <5>1 DEF Deliver, InputInv
        <5>2. CASE u = parent[t] /\ inputQueue'[u] = Append(inputQueue[u], t)
          BY <1>0, <2>15, <3>3, <4>2, <5>2 DEF Deliver, InputInv
        <5> QED
          BY <1>0, <3>2, <3>4, <5>1, <5>2
      <4> QED
        BY <4>1, <4>2 DEF InputInv
  <2>16. CASE EndReply(w, t)
    BY <1>0, <2>16 DEF EndReply, Unregister, OwnerInv, MessageInv, InputInv, Begun,
       HasAgent, EmptyLocations, InLoop, Producers, ledgerVars, agentVars, poolVars
  <2> QED
    BY <1>13, <2>1, <2>2, <2>3, <2>4, <2>5, <2>6, <2>7, <2>8, <2>9, <2>10, <2>11, <2>12,
       <2>13, <2>14, <2>15, <2>16 DEF Execute
<1>14. CASE UNCHANGED vars
  BY <1>0, <1>14 DEF vars, OwnerInv, MessageInv, InputInv, Begun, HasAgent,
     EmptyLocations, InLoop, Producers, ledgerVars, agentVars, poolVars
<1> QED
  BY <1>1, <1>2, <1>3, <1>4, <1>5, <1>6, <1>7, <1>8, <1>9, <1>10, <1>11, <1>12, <1>13,
     <1>14 DEF Next

\* The places of a sequence that hold x are finitely many.
LEMMA CountType ==
    ASSUME NEW S, NEW s \in Seq(S), NEW x
    PROVE  /\ IsFiniteSet({i \in DOMAIN s : s[i] = x})
           /\ Count(s, x) \in Nat
<1>1. IsFiniteSet(1..Len(s)) /\ DOMAIN s = 1..Len(s)
  BY FS_Interval
<1>2. IsFiniteSet({i \in DOMAIN s : s[i] = x})
  BY <1>1, FS_Subset
<1> QED
  BY <1>2, FS_CardinalityType DEF Count

\* A sequence without x holds no x.
LEMMA CountNone ==
    ASSUME NEW s, NEW x, \A i \in DOMAIN s : s[i] # x
    PROVE  Count(s, x) = 0
<1>1. {i \in DOMAIN s : s[i] = x} = {}
  OBVIOUS
<1> QED
  BY <1>1, FS_EmptySet DEF Count

\* What is appended is counted.
LEMMA CountAppend ==
    ASSUME NEW S, NEW s \in Seq(S), NEW m \in S, NEW x
    PROVE  Count(Append(s, m), x) = Count(s, x) + (IF m = x THEN 1 ELSE 0)
<1> DEFINE at == {i \in DOMAIN s : s[i] = x}
<1>1. IsFiniteSet(at)
  BY CountType
<1>2. Len(s) + 1 \notin at
  OBVIOUS
<1>3. Count(s, x) \in Nat /\ Count(s, x) = Cardinality(at)
  BY CountType DEF Count
<1>4. CASE m = x
  <2>1. {i \in DOMAIN Append(s, m) : Append(s, m)[i] = x} = at \cup {Len(s) + 1}
    BY <1>4
  <2> QED
    BY <1>1, <1>4, <1>2, <1>3, <2>1, FS_AddElement DEF Count
<1>5. CASE m # x
  <2>1. {i \in DOMAIN Append(s, m) : Append(s, m)[i] = x} = at
    BY <1>5
  <2>2. Count(Append(s, m), x) = Cardinality(at)
    BY <2>1 DEF Count
  <2> QED
    BY <1>5, <1>3, <2>2
<1> QED
  BY <1>4, <1>5

\* What is taken from the head is no longer counted.
LEMMA CountTail ==
    ASSUME NEW S, NEW s \in Seq(S), s # <<>>, NEW x
    PROVE  Count(s, x) = Count(Tail(s), x) + (IF Head(s) = x THEN 1 ELSE 0)
<1> DEFINE at == {i \in DOMAIN s : s[i] = x}
           later == at \ {1}
           tail == {i \in DOMAIN Tail(s) : Tail(s)[i] = x}
           shift == [i \in tail |-> i + 1]
<1>1. Tail(s) \in Seq(S)
  OBVIOUS
<1>2. IsFiniteSet(at) /\ IsFiniteSet(tail)
  BY <1>1, CountType
<1>3. /\ Len(s) \in Nat \ {0}
      /\ DOMAIN s = 1..Len(s)
      /\ DOMAIN Tail(s) = 1..(Len(s) - 1)
      /\ \A i \in 1..(Len(s) - 1) : Tail(s)[i] = s[i + 1]
      /\ Head(s) = s[1]
  OBVIOUS
<1>4. shift \in Bijection(tail, later)
  <2>1. shift \in [tail -> later]
    BY <1>3
  <2>2. \A j \in later : j - 1 \in tail
    BY <1>3
  <2>3. \A j \in later : \E i \in tail : shift[i] = j
    <3> TAKE j \in later
    <3>1. j - 1 \in tail /\ (j - 1) + 1 = j
      BY <1>3, <2>2
    <3> WITNESS j - 1 \in tail
    <3> QED
      BY <3>1
  <2>4. \A i, j \in tail : shift[i] = shift[j] => i = j
    BY <1>3
  <2> QED
    BY <2>1, <2>3, <2>4 DEF Bijection, Injection, Surjection, IsInjective
<1>5. Cardinality(later) = Cardinality(tail)
  <2>1. ExistsBijection(tail, later)
    BY <1>4 DEF ExistsBijection
  <2> QED
    BY <1>2, <2>1, FS_Bijection
<1>6. Cardinality(at) = Cardinality(later) + (IF 1 \in at THEN 1 ELSE 0)
  <2>1. Cardinality(at) \in Nat
    BY <1>2, FS_CardinalityType
  <2>2. Cardinality(later) = IF 1 \in at THEN Cardinality(at) - 1 ELSE Cardinality(at)
    BY <1>2, FS_RemoveElement
  <2> QED
    BY <2>1, <2>2
<1>7. 1 \in at <=> Head(s) = x
  BY <1>3
<1> QED
  BY <1>5, <1>6, <1>7 DEF Count

\* Nothing is sent and nothing is taken.
LEMMA KeptUnchanged ==
    ASSUME AckedMessageIsKept, UNCHANGED <<inputQueue, parent, msgVars>>
    PROVE  AckedMessageIsKept'
BY DEF AckedMessageIsKept, msgVars

\* A message moves from its sender to an input queue and from there to its reader.
LEMMA KeptStep == Inv /\ [Next]_vars => AckedMessageIsKept'
<1> SUFFICES ASSUME Inv, [Next]_vars
             PROVE  AckedMessageIsKept'
  OBVIOUS
<1> USE WorkerRuntimeAssumption, AgentPoolAssumption
<1>0. /\ OwnerInv
      /\ InputInv
      /\ MessageInv
      /\ AckedMessageIsKept
      /\ NoTask \notin Tasks
      /\ status \in [Tasks -> Ledger!Statuses]
      /\ owner \in [Tasks -> Workers \cup Producers \cup {NoClient}]
      /\ wpc \in [Workers -> Locations]
      /\ parent \in [Tasks -> Tasks \cup {NoTask}]
      /\ inputQueue \in [Tasks -> Seq(Tasks \cup {NoTask})]
      /\ acked \in [Tasks -> Nat]
      /\ taken \in [Tasks -> Nat]
      /\ told \in [Tasks -> Nat]
  BY DEF Inv, TypeOK
<1>1. ASSUME NEW t \in Tasks, SpawnRootTask(t)
      PROVE  AckedMessageIsKept'
  BY <1>0, <1>1, KeptUnchanged DEF SpawnRootTask, agentVars, poolVars, msgVars
<1>2. ASSUME NEW t \in Tasks, EnqueueRootTask(t)
      PROVE  AckedMessageIsKept'
  BY <1>0, <1>2, KeptUnchanged DEF EnqueueRootTask, agentVars, poolVars, msgVars
<1>3. ASSUME NEW t \in Tasks, DropTask(t)
      PROVE  AckedMessageIsKept'
  BY <1>0, <1>3, KeptUnchanged DEF DropTask, agentVars, poolVars, msgVars
<1>4. ASSUME NEW t \in Tasks, ReleaseContainer(t)
      PROVE  AckedMessageIsKept'
  BY <1>0, <1>4, KeptUnchanged DEF ReleaseContainer, agentVars, poolVars, msgVars
<1>5. ASSUME NEW w \in Workers, NextTask(w)
      PROVE  AckedMessageIsKept'
  BY <1>0, <1>5, KeptUnchanged DEF NextTask, agentVars, poolVars, msgVars
<1>6. ASSUME NEW w \in Workers, DequeueNil(w)
      PROVE  AckedMessageIsKept'
  BY <1>0, <1>6, KeptUnchanged DEF DequeueNil, agentVars, poolVars, msgVars
<1>7. ASSUME NEW w \in Workers, NEW t \in Tasks, Dequeue(w, t)
      PROVE  AckedMessageIsKept'
  BY <1>0, <1>7, KeptUnchanged DEF Dequeue, agentVars, poolVars, msgVars
<1>8. ASSUME NEW w \in Workers, NEW t \in Tasks, Spawn(w, t)
      PROVE  AckedMessageIsKept'
  <2>1. status[t] = "held" /\ ~HasAgent(t)
    BY <1>0, <1>8 DEF Spawn, At, OwnerInv, HasAgent
  <2>2. inputQueue[t] = <<>>
    BY <1>0, <2>1 DEF InputInv, Begun
  <2>3. UNCHANGED inputQueue
    BY <1>0, <1>8, <2>2 DEF Spawn, SpawnAgent
  <2> QED
    BY <1>0, <1>8, <2>3, KeptUnchanged DEF Spawn
<1>9. ASSUME NEW w \in Workers, NEW t \in Tasks, SpawnFails(w, t)
      PROVE  AckedMessageIsKept'
  BY <1>0, <1>9, KeptUnchanged DEF SpawnFails, agentVars, poolVars, msgVars
<1>10. ASSUME NEW w \in Workers, NEW t \in Tasks, FinishTask(w, t)
      PROVE  AckedMessageIsKept'
  BY <1>0, <1>10, KeptUnchanged DEF FinishTask, RemoveAgent, agentVars, poolVars, msgVars
<1>11. ASSUME IdleCheck
      PROVE  AckedMessageIsKept'
  BY <1>0, <1>11, KeptUnchanged DEF IdleCheck, cleanupIdleAgents, agentVars, poolVars,
     msgVars
<1>12. ASSUME Stop
      PROVE  AckedMessageIsKept'
  BY <1>0, <1>12, KeptUnchanged DEF Stop, agentVars, poolVars, msgVars
<1>13. ASSUME NEW w \in Workers, NEW t \in Tasks, Execute(w, t)
      PROVE  AckedMessageIsKept'
  <2> USE DEF At, Goto
  <2>1. CASE AssignTask(w, t)
    BY <1>0, <2>1, KeptUnchanged DEF AssignTask, agentVars, poolVars, msgVars
  <2>2. CASE Prepare(w, t)
    BY <1>0, <2>2, KeptUnchanged DEF Prepare, GetOrCreateContainer, CreateContainer,
       agentVars, poolVars, msgVars
  <2>3. CASE Register(w, t)
    BY <1>0, <2>3, KeptUnchanged DEF Register, agentVars, poolVars, msgVars
  <2>4. CASE SendStart(w, t)
    <3>1. CASE UNCHANGED inputQueue
      BY <1>0, <2>4, <3>1, KeptUnchanged DEF SendStart
    <3>2. CASE inputQueue' = [inputQueue EXCEPT ![t] = Append(inputQueue[t], NoTask)]
      <4>1. \A c \in Tasks : Count(Append(inputQueue[t], NoTask), c) = Count(inputQueue[t], c)
        <5> TAKE c \in Tasks
        <5>1. inputQueue[t] \in Seq(Tasks \cup {NoTask}) /\ NoTask # c
          BY <1>0
        <5>2. Count(inputQueue[t], c) \in Nat
          BY <5>1, CountType
        <5>3. NoTask \in Tasks \cup {NoTask}
          OBVIOUS
        <5>4. Count(Append(inputQueue[t], NoTask), c)
                 = Count(inputQueue[t], c) + (IF NoTask = c THEN 1 ELSE 0)
          BY <5>1, <5>3, CountAppend
        <5> QED
          BY <5>1, <5>2, <5>4
      <4>2. \A c \in Tasks : parent[c] # NoTask =>
               Count(inputQueue'[parent[c]], c) = Count(inputQueue[parent[c]], c)
        BY <1>0, <3>2, <4>1
      <4> QED
        BY <1>0, <2>4, <4>2 DEF SendStart, AckedMessageIsKept, msgVars
    <3> QED
      BY <2>4, <3>1, <3>2 DEF SendStart, SendInput
  <2>5. CASE Receive(w, t)
    <3> DEFINE m == Head(inputQueue[t])
    <3>1. /\ inputQueue[t] # <<>>
          /\ inputQueue' = [inputQueue EXCEPT ![t] = Tail(inputQueue[t])]
          /\ taken' = CountTaken(m)
          /\ UNCHANGED <<parent, acked, told>>
      BY <2>5 DEF Receive, GetInput
    <3>2. m # NoTask => m \in Tasks /\ parent[m] = t
      BY <1>0, <3>1, InputIsOfChild
    <3> SUFFICES ASSUME NEW c \in Tasks
                 PROVE  acked'[c] = taken'[c] + told'[c]
                           + (IF parent'[c] = NoTask THEN 0
                                                     ELSE Count(inputQueue'[parent'[c]], c))
      BY DEF AckedMessageIsKept
    <3>3. acked[c] = taken[c] + told[c]
                     + (IF parent[c] = NoTask THEN 0 ELSE Count(inputQueue[parent[c]], c))
      BY <1>0 DEF AckedMessageIsKept
    <3>4. inputQueue[t] \in Seq(Tasks \cup {NoTask}) /\ Tail(inputQueue[t]) \in Seq(Tasks \cup {NoTask})
      BY <1>0, <3>1
    <3>5. /\ Count(Tail(inputQueue[t]), c) \in Nat
          /\ Count(inputQueue[t], c) = Count(Tail(inputQueue[t]), c) + (IF m = c THEN 1 ELSE 0)
      BY <3>1, <3>4, CountType, CountTail
    <3>6. CASE m = c
      <4>1. c # NoTask /\ parent[c] = t /\ parent[c] # NoTask
        BY <1>0, <3>2, <3>6
      <4>2. taken'[c] = taken[c] + 1
        BY <1>0, <3>1, <3>6, <4>1 DEF CountTaken
      <4>3. inputQueue'[t] = Tail(inputQueue[t])
        BY <1>0, <3>1
      <4>4. taken[c] \in Nat /\ told[c] \in Nat
        BY <1>0
      <4>5. Count(inputQueue[t], c) = Count(Tail(inputQueue[t]), c) + 1
        BY <3>5, <3>6
      <4>6. acked'[c] = taken[c] + told[c] + Count(Tail(inputQueue[t]), c) + 1
        <5>1. acked'[c] = taken[c] + told[c] + Count(inputQueue[t], c)
          BY <3>1, <3>3, <4>1
        <5> HIDE DEF m
        <5> QED
          BY <3>5, <4>4, <4>5, <5>1
      <4>7. parent'[c] # NoTask /\ inputQueue'[parent'[c]] = Tail(inputQueue[t]) /\ told'[c] = told[c]
        BY <3>1, <4>1, <4>3
      <4> QED
        BY <3>5, <4>2, <4>4, <4>6, <4>7
    <3>7. CASE m # c
      <4>1. taken'[c] = taken[c]
        BY <1>0, <3>1, <3>7 DEF CountTaken
      <4>2. CASE parent[c] = t
        <5>1. parent[c] # NoTask /\ inputQueue'[t] = Tail(inputQueue[t])
          BY <1>0, <3>1, <4>2
        <5>2. Count(inputQueue[t], c) = Count(Tail(inputQueue[t]), c)
          BY <3>5, <3>7
        <5> QED
          BY <3>1, <3>3, <4>1, <4>2, <5>1, <5>2
      <4>3. CASE parent[c] # t
        <5>1. parent[c] # NoTask => inputQueue'[parent[c]] = inputQueue[parent[c]]
          BY <1>0, <3>1, <4>3
        <5> QED
          BY <3>1, <3>3, <4>1, <4>3, <5>1
      <4> QED
        BY <4>2, <4>3
    <3> QED
      BY <3>6, <3>7
  <2>6. CASE LLMFails(w, t)
    BY <1>0, <2>6, KeptUnchanged DEF LLMFails, agentVars, poolVars, msgVars
  <2>7. CASE LLMReplies(w, t)
    BY <1>0, <2>7, KeptUnchanged DEF LLMReplies, agentVars, poolVars, msgVars
  <2>8. ASSUME NEW s \in States, SetState(w, t, s)
        PROVE  AckedMessageIsKept'
    BY <1>0, <2>8, KeptUnchanged DEF SetState, agentVars, poolVars, msgVars
  <2>9. ASSUME NEW c \in Tasks, SpawnSubTask(w, t, c)
        PROVE  AckedMessageIsKept'
    <3>1. /\ status[c] = "none"
          /\ parent' = [parent EXCEPT ![c] = t]
          /\ UNCHANGED <<inputQueue, msgVars>>
      BY <2>9 DEF SpawnSubTask, Ledger!Create, agentVars
    <3>2. acked[c] = 0 /\ taken[c] = 0 /\ told[c] = 0 /\ parent[c] = NoTask
      BY <1>0, <3>1 DEF MessageInv
    <3>3. \A u \in Tasks : \A i \in DOMAIN inputQueue[u] : inputQueue[u][i] # c
      <4> SUFFICES ASSUME NEW u \in Tasks, NEW i \in DOMAIN inputQueue[u], inputQueue[u][i] = c
                   PROVE  FALSE
        OBVIOUS
      <4>1. c # NoTask
        BY <1>0
      <4>2. inputQueue[u][i] # NoTask => parent[inputQueue[u][i]] = u
        BY <1>0 DEF InputInv
      <4> QED
        BY <1>0, <3>2, <4>1, <4>2
    <3>4. Count(inputQueue[t], c) = 0
      BY <3>3, CountNone
    <3> QED
      BY <1>0, <3>1, <3>2, <3>4 DEF AckedMessageIsKept, msgVars
  <2>10. ASSUME NEW c \in Tasks, EnqueueSubTask(w, t, c)
        PROVE  AckedMessageIsKept'
    BY <1>0, <2>10, KeptUnchanged DEF EnqueueSubTask, agentVars, poolVars, msgVars
  <2>11. CASE OtherTool(w, t)
    BY <1>0, <2>11, KeptUnchanged DEF OtherTool, agentVars, poolVars, msgVars
  <2>12. CASE SendParent(w, t)
    <3>1. CASE parent[t] \in registry
      BY <1>0, <2>12, <3>1, KeptUnchanged DEF SendParent, agentVars, msgVars
    <3>2. CASE parent[t] \notin registry
      <4>1. /\ acked' = [acked EXCEPT ![t] = acked[t] + 1]
            /\ told' = [told EXCEPT ![t] = told[t] + 1]
            /\ UNCHANGED <<taken, parent, inputQueue>>
        BY <2>12, <3>2 DEF SendParent, agentVars
      <4>2. ASSUME NEW c \in Tasks
            PROVE  acked'[c] = taken[c] + told'[c]
                      + (IF parent[c] = NoTask THEN 0 ELSE Count(inputQueue[parent[c]], c))
        <5>1. acked[c] = taken[c] + told[c]
                  + (IF parent[c] = NoTask THEN 0 ELSE Count(inputQueue[parent[c]], c))
          BY <1>0 DEF AckedMessageIsKept
        <5>2. parent[c] # NoTask => Count(inputQueue[parent[c]], c) \in Nat
          BY <1>0, CountType
        <5>3. taken[c] \in Nat /\ told[c] \in Nat
          BY <1>0
        <5>4. acked'[c] - acked[c] = told'[c] - told[c] /\ acked'[c] \in Nat /\ told'[c] \in Nat
          BY <1>0, <4>1
        <5>5. CASE parent[c] = NoTask
          BY <5>1, <5>3, <5>4, <5>5
        <5>6. CASE parent[c] # NoTask
          BY <5>1, <5>2, <5>3, <5>4, <5>6
        <5> QED
          BY <5>5, <5>6
      <4> QED
        BY <4>1, <4>2 DEF AckedMessageIsKept
    <3> QED
      BY <2>12, <3>1, <3>2 DEF SendParent
  <2>13. CASE CheckRegistered(w, t)
    BY <1>0, <2>13, KeptUnchanged DEF CheckRegistered, agentVars, poolVars, msgVars
  <2>14. CASE GetParentAgent(w, t)
    BY <1>0, <2>14, KeptUnchanged DEF GetParentAgent, GetAgent, agentVars, poolVars,
       msgVars
  <2>15. CASE Deliver(w, t)
    <3>1. parent[t] \in Tasks /\ parent[t] # NoTask
      BY <1>0, <2>15 DEF Deliver, MessageInv, InCall
    <3>2. PICK ok \in BOOLEAN : /\ SendInput(parent[t], t, ok)
                                /\ acked' = IF ok THEN [acked EXCEPT ![t] = acked[t] + 1] ELSE acked
      BY <2>15 DEF Deliver
    <3>3. CASE ~ok
      BY <1>0, <2>15, <3>3, <3>2, KeptUnchanged DEF Deliver, SendInput, msgVars
    <3>4. CASE ok
      <4>1. UNCHANGED <<parent, taken, told>>
        BY <2>15 DEF Deliver
      <4>2. acked' = [acked EXCEPT ![t] = acked[t] + 1]
        BY <3>4, <3>2
      <4>3. inputQueue' = [inputQueue EXCEPT ![parent[t]] = Append(inputQueue[parent[t]], t)]
        BY <3>4, <3>2 DEF SendInput
      <4>4. inputQueue[parent[t]] \in Seq(Tasks \cup {NoTask}) /\ t \in Tasks \cup {NoTask}
        BY <1>0, <3>1
      <4>5. ASSUME NEW c
            PROVE  /\ Count(inputQueue[parent[t]], c) \in Nat
                   /\ Count(Append(inputQueue[parent[t]], t), c)
                        = Count(inputQueue[parent[t]], c) + (IF t = c THEN 1 ELSE 0)
        <5>1. Count(inputQueue[parent[t]], c) \in Nat
          BY <4>4, CountType
        <5>2. Count(Append(inputQueue[parent[t]], t), c)
                 = Count(inputQueue[parent[t]], c) + (IF t = c THEN 1 ELSE 0)
          BY <4>4, CountAppend
        <5> QED
          BY <5>1, <5>2
      <4>6. inputQueue'[parent[t]] = Append(inputQueue[parent[t]], t)
        BY <1>0, <3>1, <4>3
      <4>7. \A c \in Tasks : parent[c] # NoTask /\ parent[c] # parent[t] =>
               inputQueue'[parent[c]] = inputQueue[parent[c]]
        BY <1>0, <4>3
      <4>8. ASSUME NEW c \in Tasks
            PROVE  acked'[c] = taken[c] + told[c]
                      + (IF parent[c] = NoTask THEN 0 ELSE Count(inputQueue'[parent[c]], c))
        <5>1. acked[c] = taken[c] + told[c]
                  + (IF parent[c] = NoTask THEN 0 ELSE Count(inputQueue[parent[c]], c))
          BY <1>0 DEF AckedMessageIsKept
        <5>2. taken[c] \in Nat /\ told[c] \in Nat
          BY <1>0
        <5>3. CASE c = t
          <6>1. acked'[c] = acked[c] + 1
            BY <1>0, <4>2, <5>3
          <6>2. Count(inputQueue'[parent[c]], c) = Count(inputQueue[parent[c]], c) + 1
            BY <4>5, <4>6, <5>3
          <6> QED
            BY <3>1, <4>5, <5>1, <5>2, <5>3, <6>1, <6>2
        <5>4. CASE c # t
          <6>1. acked'[c] = acked[c]
            BY <1>0, <4>2, <5>4
          <6>2. parent[c] # NoTask =>
                   Count(inputQueue'[parent[c]], c) = Count(inputQueue[parent[c]], c)
            <7>1. CASE parent[c] = parent[t]
              <8>1. Count(Append(inputQueue[parent[t]], t), c) = Count(inputQueue[parent[t]], c)
                BY <4>5, <5>4
              <8> QED
                BY <4>6, <7>1, <8>1
            <7>2. CASE parent[c] # parent[t]
              BY <4>7, <7>2
            <7> QED
              BY <7>1, <7>2
          <6> QED
            BY <5>1, <6>1, <6>2
        <5> QED
          BY <5>3, <5>4
      <4> QED
        BY <4>1, <4>8 DEF AckedMessageIsKept
    <3> QED
      BY <3>3, <3>4
  <2>16. CASE EndReply(w, t)
    BY <1>0, <2>16, KeptUnchanged DEF EndReply, Unregister, agentVars, poolVars, msgVars
  <2> QED
    BY <1>13, <2>1, <2>2, <2>3, <2>4, <2>5, <2>6, <2>7, <2>8, <2>9, <2>10, <2>11, <2>12,
       <2>13, <2>14, <2>15, <2>16 DEF Execute
<1>14. CASE UNCHANGED vars
  BY <1>0, <1>14, KeptUnchanged DEF vars, agentVars
<1> QED
  BY <1>1, <1>2, <1>3, <1>4, <1>5, <1>6, <1>7, <1>8, <1>9, <1>10, <1>11, <1>12, <1>13,
     <1>14 DEF Next
\* No task, no agent and no message: the invariant holds at the start.
LEMMA InitInv == Init => Inv
<1> SUFFICES ASSUME Init
             PROVE  Inv
  OBVIOUS
<1> USE WorkerRuntimeAssumption, AgentPoolAssumption DEF Init, PoolInit, Ledger!Init
<1>1. TypeOK
  <2>1. LedgerTypes
    BY DEF LedgerTypes, Ledger!Statuses, Locations
  <2>2. QueueTypes
    BY DEF QueueTypes
  <2>3. reply \in Replies
    BY NoReplyType DEF Replies
  <2>4. CountTypes
    <3>1. turns \in 0..MaxTurns
      OBVIOUS
    <3>2. stopping \in BOOLEAN
      BY Zenon
    <3>3. /\ acked \in [Tasks -> Nat]
          /\ taken \in [Tasks -> Nat]
          /\ told \in [Tasks -> Nat]
      OBVIOUS
    <3> QED
      BY <3>1, <3>2, <3>3 DEF CountTypes
  <2> QED
    BY <2>1, <2>2, <2>3, <2>4 DEF TypeOK, LedgerTypes, QueueTypes, Replies, CountTypes
<1>2. OwnerInv
  BY DEF OwnerInv, EmptyLocations, Producers
<1>3. \A t \in Tasks : ~Begun(t) /\ ~HasAgent(t)
  BY DEF Begun, HasAgent
<1>4. StatusInv
  BY DEF StatusInv, Producers
<1>5. PoolIsExecutions
  BY <1>3 DEF PoolIsExecutions
<1>6. RegistryInv
  BY DEF RegistryInv, InLoop, Producers
<1>7. InputInv
  BY DEF InputInv
<1>8. MessageInv
  BY DEF MessageInv, InCall, Producers
<1>9. AckedMessageIsKept
  BY DEF AckedMessageIsKept
<1> QED
  BY <1>1, <1>2, <1>4, <1>5, <1>6, <1>7, <1>8, <1>9 DEF Inv

-----------------------------------------------------------------------------
(* What the workers keep.                                                      *)

\* The invariant holds in every state the workers, the agents, the queue and
\* the idle check of runtime.go can reach.
THEOREM InvCorrect == Spec => []Inv
<1>1. Init => Inv
  BY InitInv
<1>2. Inv /\ [Next]_vars => Inv'
  BY TypeStep, OwnerStep, StatusStep, PoolStep, RegistryStep, InputStep, MessageStep,
     KeptStep
     DEF Inv
<1> QED
  BY <1>1, <1>2, PTL DEF Spec

\* Every variable keeps its type, and an input queue never holds more than the
\* buffer of its channel.
THEOREM TypeCorrect == Spec => []TypeOK
<1>1. Inv => TypeOK
  BY DEF Inv
<1> QED
  BY <1>1, InvCorrect, PTL

\* However an execution ends, its agent is in the pool until then and no
\* longer: the pool is not filled up by executions that failed.
THEOREM PoolCorrect == Spec => []PoolIsExecutions
<1>1. Inv => PoolIsExecutions
  BY DEF Inv
<1> QED
  BY <1>1, InvCorrect, PTL

\* An agent in its loop, blocked or not, is registered and in the pool, so that
\* SendToolResultToAgent finds it.
THEOREM LoopCorrect == Spec => []LoopIsReachable
<1>1. Inv => LoopIsReachable
  BY DEF Inv, RegistryInv, PoolIsExecutions, LoopIsReachable, Looping, HasAgent, InLoop
<1> QED
  BY <1>1, InvCorrect, PTL

\* The status of a task agrees with the queue: what waits is pending, what was
\* executed never is again.
THEOREM StatusCorrect == Spec => []StatusFollowsQueue
<1>1. Inv => StatusFollowsQueue
  <2> SUFFICES ASSUME Inv, NEW t \in Tasks
               PROVE  /\ status[t] \in {"queued", "dropped"} => taskStatus[t] = "pending"
                      /\ status[t] = "finished" => taskStatus[t] \notin {"none", "pending"}
                      /\ taskStatus[t] \in Final => status[t] \in {"held", "finished"}
    BY DEF StatusFollowsQueue
  <2>1. StatusInv /\ status[t] \in Ledger!Statuses
    BY DEF Inv, TypeOK
  <2> QED
    BY <2>1 DEF StatusInv, Ledger!Statuses, Final
<1> QED
  BY <1>1, InvCorrect, PTL

\* No container is released while its agent runs, and every container belongs
\* to an execution, to a release or to an entry that was never removed.
THEOREM ContainerCorrect == Spec => []ContainerIsAccountedFor
<1>1. Inv => ContainerIsAccountedFor
  BY DEF Inv, TypeOK, OwnerInv, RegistryInv, ContainerIsAccountedFor, Looping, InLoop
<1> QED
  BY <1>1, InvCorrect, PTL

\* A message whose SEND_PARENT was answered "success" is read, waits in the
\* parent's input queue or went to the orchestrator, and is counted once.
THEOREM MessageCorrect == Spec => []AckedMessageIsKept
<1>1. Inv => AckedMessageIsKept
  BY DEF Inv
<1> QED
  BY <1>1, InvCorrect, PTL
------------------------------------------------------------------------------
(* The protocol of containers.                                               *)

\* Only a container that is there is being released.
ReleasingInv == containers \subseteq Tasks /\ releasing \subseteq containers

Leased == [t \in Tasks |-> LeaseOf(t)]

\* What a step does to the container of one task is what the ledger allows.
LEMMA LeaseOfOneTask ==
    ASSUME NEW t \in Tasks, \A x \in Tasks \ {t} : LeaseOf(x)' = LeaseOf(x),
           \/ LeaseOf(t) = "none" /\ LeaseOf(t)' \in {"none", "held"}
           \/ LeaseOf(t) = "held" /\ LeaseOf(t)' \in {"held", "releasing"}
           \/ LeaseOf(t) = "releasing" /\ LeaseOf(t)' \in {"releasing", "none"}
    PROVE  [Leases!Lend]_Leased
<1>1. Leased' = [Leased EXCEPT ![t] = LeaseOf(t)'] /\ Leased[t] = LeaseOf(t)
  BY DEF Leased
<1>2. CASE LeaseOf(t)' = LeaseOf(t)
  BY <1>2 DEF Leased
<1>3. CASE LeaseOf(t)' # LeaseOf(t)
  <2>1. Leases!Acquire(t) \/ Leases!GiveUp(t) \/ Leases!Release(t)
    BY <1>1, <1>3 DEF Leases!Acquire, Leases!GiveUp, Leases!Release, Leased
  <2> QED BY <2>1 DEF Leases!Lend
<1> QED BY <1>2, <1>3

\* Unregister gives up the container of its agent, if there is one.
LEMMA UnregisterGivesUp ==
    ASSUME ReleasingInv, NEW t \in Tasks, Unregister(t)
    PROVE  ReleasingInv' /\ [Leases!Lend]_Leased
<1>1. ReleasingInv'
  BY DEF ReleasingInv, Unregister
<1>2. /\ \A x \in Tasks \ {t} : LeaseOf(x)' = LeaseOf(x)
      /\ \/ LeaseOf(t) = "none" /\ LeaseOf(t)' = "none"
         \/ LeaseOf(t) = "held" /\ LeaseOf(t)' \in {"held", "releasing"}
         \/ LeaseOf(t) = "releasing" /\ LeaseOf(t)' = "releasing"
  BY DEF ReleasingInv, Unregister, LeaseOf
<1> QED BY <1>1, <1>2, LeaseOfOneTask

\* Every step is one of the ledger, or leaves the containers alone.
LEMMA LeaseStep ==
    ASSUME ReleasingInv, [Next]_vars
    PROVE  ReleasingInv' /\ [Leases!Lend]_Leased
<1>1. CASE UNCHANGED <<containers, releasing>>
  BY <1>1 DEF ReleasingInv, Leased, LeaseOf
<1>2. ASSUME NEW t \in Tasks, ReleaseContainer(t)
      PROVE  ReleasingInv' /\ [Leases!Lend]_Leased
  <2>1. ReleasingInv'
    BY <1>2 DEF ReleasingInv, ReleaseContainer
  <2>2. /\ \A x \in Tasks \ {t} : LeaseOf(x)' = LeaseOf(x)
        /\ LeaseOf(t) = "releasing" /\ LeaseOf(t)' = "none"
    BY <1>2 DEF ReleaseContainer, LeaseOf
  <2> QED BY <2>1, <2>2, LeaseOfOneTask
<1>3. ASSUME NEW w \in Workers, NEW t \in Tasks, Prepare(w, t)
      PROVE  ReleasingInv' /\ [Leases!Lend]_Leased
  <2>1. releasing' = releasing /\ containers' \in {containers, containers \cup {t}}
    BY <1>3 DEF Prepare, GetOrCreateContainer, CreateContainer
  <2>2. ReleasingInv'
    BY <2>1 DEF ReleasingInv
  <2>3. /\ \A x \in Tasks \ {t} : LeaseOf(x)' = LeaseOf(x)
        /\ \/ LeaseOf(t)' = LeaseOf(t)
           \/ LeaseOf(t) = "none" /\ LeaseOf(t)' = "held"
    BY <2>1 DEF ReleasingInv, LeaseOf
  <2>4. LeaseOf(t) \in {"none", "held", "releasing"}
    BY DEF LeaseOf
  <2> QED BY <2>2, <2>3, <2>4, LeaseOfOneTask
<1>4. ASSUME NEW w \in Workers, NEW t \in Tasks, EndReply(w, t)
      PROVE  ReleasingInv' /\ [Leases!Lend]_Leased
  <2>1. Unregister(t) \/ UNCHANGED <<containers, releasing>>
    BY <1>4 DEF EndReply, infraVars
  <2> QED BY <1>1, <2>1, UnregisterGivesUp
<1> QED
  BY <1>1, <1>2, <1>3, <1>4 DEF Next, SpawnRootTask, EnqueueRootTask, DropTask, NextTask,
     DequeueNil, Dequeue, Spawn, SpawnFails, Execute, FinishTask, IdleCheck, Stop, AssignTask,
     Register, SendStart, Receive, LLMFails, LLMReplies, SetState, SpawnSubTask,
     EnqueueSubTask, OtherTool, SendParent, CheckRegistered, GetParentAgent, Deliver, vars,
     infraVars

\* The workers keep to the protocol of containers (ContainerLedger), which
\* ContainerManager implements: a container is given up before it is released,
\* by EndReply and by nothing else, and taken again only after that.
THEOREM LeasesCorrect == Spec => UsesLeases
<1>1. Init => ReleasingInv /\ Leases!Init
  BY DEF Init, ReleasingInv, Leases!Init, LeaseOf
<1>2. ReleasingInv /\ [Next]_vars => ReleasingInv' /\ [Leases!Lend]_Leased
  BY LeaseStep
<1> QED
  BY <1>1, <1>2, PTL DEF Spec, UsesLeases, Leases!LendingSpec, Leased
=============================================================================
