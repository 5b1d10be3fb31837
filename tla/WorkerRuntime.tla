---------------------------- MODULE WorkerRuntime ----------------------------
(***************************************************************************)
(* The workers of internal/runtime/runtime.go.  A worker takes a task from *)
(* the global queue, spawns an agent for it, runs the agent's loop (wait   *)
(* for input, ask the LLM, run the tools it calls) and removes the agent.  *)
(* An agent may spawn subtasks and block until their agents write to it.   *)
(*                                                                         *)
(* The queue is used through TaskLedger, which TaskQueue implements; the   *)
(* agents through AgentPool.  The LLM is a free choice of tool calls.      *)
(***************************************************************************)
EXTENDS AgentPool

CONSTANTS Workers,       \* the goroutines of workerLoop (MinAgents of them)
          Orchestrator,  \* the session, which spawns root tasks
          Roots,         \* the tasks the orchestrator may spawn
          NoClient,      \* the owner of a task nobody holds
          MaxQueueSize,  \* Global.MaxQueueSize
          MaxCalls,      \* bound on the tool calls of one LLM reply
          MaxTurns,      \* bound on the LLM replies to all tasks together
          CanStop        \* may Stop be called?

\* SPAWN_TASK runs on the goroutine of the parent's agent: as a creator of
\* tasks the agent goes by the name of its task.
Producers == Tasks \cup {Orchestrator}

ASSUME WorkerRuntimeAssumption ==
    /\ Workers \cap Producers = {}
    /\ NoClient \notin Workers \cup Producers
    /\ Orchestrator \notin Tasks \cup {NoTask}
    /\ Roots \subseteq Tasks
    /\ MaxQueueSize \in Nat
    /\ MaxCalls \in Nat
    /\ MaxTurns \in Nat
    /\ CanStop \in BOOLEAN

VARIABLES status,       \* TaskLedger: where a task is
          owner,        \* TaskLedger: who holds it
          parent,       \* parent[t]: ParentInstanceID
          taskStatus,   \* taskStatus[t]: TaskInstance.Status
          wpc,          \* wpc[w]: where worker w is
          reply,        \* reply[t]: the calls run and the stateChange so far
          turns,        \* the LLM replies so far
          registry,     \* the agents in rc.blockedAgents
          containers,   \* the tasks with a container
          releasing,    \* the tasks whose container a goroutine will release
          acked,        \* acked[c]: SEND_PARENT calls of c answered "success"
          taken,        \* taken[c]: messages of c its parent's loop has read
          told,         \* told[c]: messages of c given to HandleUserMessage
          stopping      \* rc.stopCh is closed

ledgerVars == <<status, owner>>
msgVars == <<acked, taken, told>>
agentVars == <<pool, inputQueue, stuckOn>>
infraVars == <<registry, containers, releasing>>
vars == <<ledgerVars, agentVars, infraVars, msgVars, parent, taskStatus, wpc,
          reply, turns, stopping>>

Ledger == INSTANCE TaskLedger

States == {"BLOCKING", "COMPLETED", "FAILED", "other"}
Final == {"completed", "failed"}
InLoop == {"receive", "think", "call", "submit", "check", "get", "deliver"}
Locations == {"idle", "dequeue", "spawn", "assign", "prepare", "register",
              "start", "remove", "stopped"} \cup InLoop
NoReply == [calls |-> 0, stateChange |-> ""]

At(w, t, loc) == wpc[w] = loc /\ owner[t] = w
Goto(w, loc) == wpc' = [wpc EXCEPT ![w] = loc]

Init == /\ PoolInit
        /\ Ledger!Init
        /\ parent = [t \in Tasks |-> NoTask]
        /\ taskStatus = [t \in Tasks |-> "none"]
        /\ wpc = [w \in Workers |-> "idle"]
        /\ reply = [t \in Tasks |-> NoReply]
        /\ turns = 0
        /\ registry = {}
        /\ containers = {}
        /\ releasing = {}
        /\ acked = [t \in Tasks |-> 0]
        /\ taken = [t \in Tasks |-> 0]
        /\ told = [t \in Tasks |-> 0]
        /\ stopping = FALSE

------------------------------------------------------------------------------
(* Tasks enter the queue.                                                    *)

\* CreateTask, called by the orchestrator for a root task.
SpawnRootTask(t) ==
    /\ t \in Roots
    /\ Ledger!Create(Orchestrator, t)
    /\ taskStatus' = [taskStatus EXCEPT ![t] = "pending"]
    /\ UNCHANGED <<agentVars, infraVars, msgVars, parent, wpc, reply, turns, stopping>>

EnqueueRootTask(t) ==
    /\ Ledger!Submit(Orchestrator, t)
    /\ UNCHANGED <<agentVars, infraVars, msgVars, parent, taskStatus, wpc, reply,
                   turns, stopping>>

\* The queue is over its limit: processLoop drops the task.
DropTask(t) ==
    /\ Ledger!Drop(t)
    /\ UNCHANGED <<agentVars, infraVars, msgVars, parent, taskStatus, wpc, reply,
                   turns, stopping>>

------------------------------------------------------------------------------
(* workerLoop.                                                               *)

\* A loop that does not look at stopCh.
NextTaskIgnoresStop(w) ==
    /\ wpc[w] = "idle"
    /\ Goto(w, "dequeue")
    /\ UNCHANGED <<ledgerVars, agentVars, infraVars, msgVars, parent, taskStatus,
                   reply, turns, stopping>>

\* The head of the loop looks at stopCh.
NextTask(w) ==
    /\ wpc[w] = "idle"
    /\ Goto(w, IF stopping THEN "stopped" ELSE "dequeue")
    /\ UNCHANGED <<ledgerVars, agentVars, infraVars, msgVars, parent, taskStatus,
                   reply, turns, stopping>>

Dequeue(w, t) ==
    /\ wpc[w] = "dequeue"
    /\ Ledger!Take(w, t)
    /\ Goto(w, "spawn")
    /\ UNCHANGED <<agentVars, infraVars, msgVars, parent, taskStatus, reply, turns,
                   stopping>>

\* Dequeue returns nil: nothing was sorted in when the request was served.
DequeueNil(w) ==
    /\ wpc[w] = "dequeue"
    /\ Goto(w, "idle")
    /\ UNCHANGED <<ledgerVars, agentVars, infraVars, msgVars, parent, taskStatus,
                   reply, turns, stopping>>

Spawn(w, t) ==
    /\ At(w, t, "spawn")
    /\ SpawnAgent(t)
    /\ Goto(w, "assign")
    /\ UNCHANGED <<ledgerVars, infraVars, msgVars, parent, taskStatus, reply, turns,
                   stopping>>

\* The pool is full, or the agent's row could not be written: the task goes
\* back to the queue.
SpawnFails(w, t) ==
    /\ At(w, t, "spawn")
    /\ PoolUnlocked
    /\ Ledger!Submit(w, t)
    /\ Goto(w, "idle")
    /\ UNCHANGED <<agentVars, infraVars, msgVars, parent, taskStatus, reply, turns,
                   stopping>>

FinishTask(w, t) ==
    /\ At(w, t, "remove")
    /\ RemoveAgent(t)
    /\ Ledger!Finish(w, t)
    /\ Goto(w, "idle")
    /\ reply' = [reply EXCEPT ![t] = NoReply]
    /\ UNCHANGED <<infraVars, msgVars, parent, taskStatus, turns, stopping>>

------------------------------------------------------------------------------
(* executeTask.                                                              *)

\* An assignment that is only recorded when the family and session are found.
AssignTaskLate(w, t) ==
    /\ At(w, t, "assign")
    /\ \/ /\ taskStatus' = [taskStatus EXCEPT ![t] = "in_progress"]
          /\ Goto(w, "prepare")
       \/ /\ Goto(w, "remove")
          /\ UNCHANGED taskStatus
    /\ UNCHANGED <<ledgerVars, agentVars, infraVars, msgVars, parent, reply, turns,
                   stopping>>

\* The task is in progress; without its family or its session executeTask
\* returns an error and leaves it so.
AssignTask(w, t) ==
    /\ At(w, t, "assign")
    /\ taskStatus' = [taskStatus EXCEPT ![t] = "in_progress"]
    /\ \E loc \in {"prepare", "remove"} : Goto(w, loc)
    /\ UNCHANGED <<ledgerVars, agentVars, infraVars, msgVars, parent, reply, turns,
                   stopping>>

\* The image is pulled, the container created and started, or one of it fails.
CreateContainer(t, ok) == containers' = IF ok THEN containers \cup {t} ELSE containers

\* A task that has a container keeps it.
GetOrCreateContainer(t) ==
    \/ t \in containers /\ UNCHANGED containers
    \/ t \notin containers /\ \E ok \in BOOLEAN : CreateContainer(t, ok)

\* ResetForNewTask, then the task's container, which may not be created.
Prepare(w, t) ==
    /\ At(w, t, "prepare")
    /\ AgentUnlocked(t)
    /\ GetOrCreateContainer(t)
    /\ Goto(w, "register")
    /\ UNCHANGED <<ledgerVars, agentVars, registry, releasing, msgVars, parent,
                   taskStatus, reply, turns, stopping>>

\* registerAgentForCallback.
Register(w, t) ==
    /\ At(w, t, "register")
    /\ registry' = registry \cup {t}
    /\ Goto(w, "start")
    /\ UNCHANGED <<ledgerVars, agentVars, containers, releasing, msgVars, parent,
                   taskStatus, reply, turns, stopping>>

\* The task's description is the first input; NoTask stands for it.
SendStart(w, t) ==
    /\ At(w, t, "start")
    /\ \E ok \in BOOLEAN :
          /\ SendInput(t, NoTask, ok)
          /\ Goto(w, IF ok THEN "receive" ELSE "remove")
    /\ UNCHANGED <<ledgerVars, infraVars, msgVars, parent, taskStatus, reply, turns,
                   stopping>>

------------------------------------------------------------------------------
(* runAgentLoop.                                                             *)

\* The task and the messages of its children; one input is one LLM turn.
CountTaken(m) == IF m = NoTask THEN taken ELSE [taken EXCEPT ![m] = @ + 1]

\* A loop that skips every input but the first, as an unknown type.
ReceiveStartOnly(w, t) ==
    /\ At(w, t, "receive")
    /\ GetInput(t)
    /\ Goto(w, IF Head(inputQueue[t]) = NoTask THEN "think" ELSE "receive")
    /\ UNCHANGED <<ledgerVars, infraVars, msgVars, parent, taskStatus, reply, turns,
                   stopping>>

\* The agent waits for input, with no timeout and without watching stopCh.
Receive(w, t) ==
    /\ At(w, t, "receive")
    /\ GetInput(t)
    /\ taken' = CountTaken(Head(inputQueue[t]))
    /\ Goto(w, "think")
    /\ UNCHANGED <<ledgerVars, infraVars, acked, told, parent, taskStatus, reply,
                   turns, stopping>>

\* The LLM call fails or returns no choice: the loop returns as it is.
LLMFails(w, t) ==
    /\ At(w, t, "think")
    /\ Goto(w, "remove")
    /\ UNCHANGED <<ledgerVars, agentVars, infraVars, msgVars, parent, taskStatus,
                   reply, turns, stopping>>

LLMReplies(w, t) ==
    /\ At(w, t, "think")
    /\ turns < MaxTurns
    /\ turns' = turns + 1
    /\ reply' = [reply EXCEPT ![t] = NoReply]
    /\ Goto(w, "call")
    /\ UNCHANGED <<ledgerVars, agentVars, infraVars, msgVars, parent, taskStatus,
                   stopping>>

\* The next tool call of the reply, which the loop runs in their order.
Call(w, t) == At(w, t, "call") /\ reply[t].calls < MaxCalls
Counted(t) == [reply EXCEPT ![t].calls = @ + 1]

\* SET_STATE; a state that is not one of the three is answered with an error
\* and overrides an earlier one all the same.
SetState(w, t, s) ==
    /\ Call(w, t)
    /\ s # "other" => AgentUnlocked(t)
    /\ reply' = [Counted(t) EXCEPT ![t].stateChange = s]
    /\ taskStatus' = CASE s = "COMPLETED" -> [taskStatus EXCEPT ![t] = "completed"]
                       [] s = "FAILED"    -> [taskStatus EXCEPT ![t] = "failed"]
                       [] OTHER           -> taskStatus
    /\ UNCHANGED <<ledgerVars, agentVars, infraVars, msgVars, parent, wpc, turns,
                   stopping>>

\* SPAWN_TASK: the child's row is created, then the child is enqueued.
SpawnSubTask(w, t, c) ==
    /\ Call(w, t)
    /\ c \notin Roots
    /\ Ledger!Create(t, c)
    /\ parent' = [parent EXCEPT ![c] = t]
    /\ taskStatus' = [taskStatus EXCEPT ![c] = "pending"]
    /\ reply' = Counted(t)
    /\ Goto(w, "submit")
    /\ UNCHANGED <<agentVars, infraVars, msgVars, turns, stopping>>

EnqueueSubTask(w, t, c) ==
    /\ At(w, t, "submit")
    /\ Ledger!Submit(t, c)
    /\ Goto(w, "call")
    /\ UNCHANGED <<agentVars, infraVars, msgVars, parent, taskStatus, reply, turns,
                   stopping>>

\* A call without effect on the state: EXECUTE_CMD, an unknown tool, a call
\* that is answered with an error.
OtherTool(w, t) ==
    /\ Call(w, t)
    /\ reply' = Counted(t)
    /\ UNCHANGED <<ledgerVars, agentVars, infraVars, msgVars, parent, taskStatus, wpc,
                   turns, stopping>>

\* SEND_PARENT: an agent that executes the parent is looked up in the
\* registry; without one the message goes to the orchestrator.
SendParent(w, t) ==
    /\ Call(w, t)
    /\ reply' = Counted(t)
    /\ \/ /\ parent[t] \in registry
          /\ Goto(w, "check")
          /\ UNCHANGED <<acked, told>>
       \/ /\ parent[t] \notin registry
          /\ acked' = [acked EXCEPT ![t] = @ + 1]
          /\ told' = [told EXCEPT ![t] = @ + 1]
          /\ UNCHANGED wpc
    /\ UNCHANGED <<ledgerVars, agentVars, infraVars, taken, parent, taskStatus, turns,
                   stopping>>

\* SendToolResultToAgent, in its three critical sections: the registry, the
\* pool, the input queue.  Each failure answers the call with an error.
CheckRegistered(w, t) ==
    /\ At(w, t, "check")
    /\ Goto(w, IF parent[t] \in registry THEN "get" ELSE "call")
    /\ UNCHANGED <<ledgerVars, agentVars, infraVars, msgVars, parent, taskStatus,
                   reply, turns, stopping>>

GetParentAgent(w, t) ==
    /\ At(w, t, "get")
    /\ \E found \in BOOLEAN :
          /\ GetAgent(parent[t], found)
          /\ Goto(w, IF found THEN "deliver" ELSE "call")
    /\ UNCHANGED <<ledgerVars, infraVars, msgVars, parent, taskStatus, reply, turns,
                   stopping>>

\* The answer of SendInput is not looked at.
DeliverIgnoresFull(w, t) ==
    /\ At(w, t, "deliver")
    /\ \E ok \in BOOLEAN : SendInput(parent[t], t, ok)
    /\ acked' = [acked EXCEPT ![t] = @ + 1]
    /\ Goto(w, "call")
    /\ UNCHANGED <<ledgerVars, infraVars, taken, told, parent, taskStatus, reply,
                   turns, stopping>>

Deliver(w, t) ==
    /\ At(w, t, "deliver")
    /\ \E ok \in BOOLEAN :
          /\ SendInput(parent[t], t, ok)
          /\ acked' = IF ok THEN [acked EXCEPT ![t] = @ + 1] ELSE acked
    /\ Goto(w, "call")
    /\ UNCHANGED <<ledgerVars, infraVars, taken, told, parent, taskStatus, reply,
                   turns, stopping>>

\* The entry is deleted and its container forgotten.
UnregisterOnly(t) ==
    /\ registry' = registry \ {t}
    /\ UNCHANGED <<containers, releasing>>

\* unregisterAgentForCallback: the container is released by a goroutine.
Unregister(t) ==
    /\ registry' = registry \ {t}
    /\ releasing' = releasing \cup ({t} \cap registry \cap containers)
    /\ UNCHANGED containers

\* Every end of a reply unregisters the agent, also when it blocks.
EndReplyUnregisters(w, t) ==
    /\ At(w, t, "call")
    /\ Unregister(t)
    /\ Goto(w, IF reply[t].stateChange = "BLOCKING" THEN "receive" ELSE "remove")
    /\ UNCHANGED <<ledgerVars, agentVars, msgVars, parent, taskStatus, reply, turns,
                   stopping>>

\* An agent with a final state unregisters and waits on.
EndReplyWaits(w, t) ==
    /\ At(w, t, "call")
    /\ LET state == reply[t].stateChange
       IN  /\ Goto(w, IF state = "" THEN "remove" ELSE "receive")
           /\ IF state \in {"COMPLETED", "FAILED"} THEN Unregister(t)
                                                   ELSE UNCHANGED infraVars
    /\ UNCHANGED <<ledgerVars, agentVars, msgVars, parent, taskStatus, reply, turns,
                   stopping>>

\* The reply's calls are done: a blocking agent waits for more input, an agent
\* with a final state unregisters and leaves, any other just leaves.
EndReply(w, t) ==
    /\ At(w, t, "call")
    /\ LET state == reply[t].stateChange
       IN  /\ Goto(w, IF state = "BLOCKING" THEN "receive" ELSE "remove")
           /\ IF state \in {"COMPLETED", "FAILED"} THEN Unregister(t)
                                                   ELSE UNCHANGED infraVars
    /\ UNCHANGED <<ledgerVars, agentVars, msgVars, parent, taskStatus, reply, turns,
                   stopping>>

------------------------------------------------------------------------------
(* The rest of the process.                                                  *)

\* A sweep of the containers whose agent is not registered.
ReleaseUnregistered(t) ==
    /\ t \in containers \ registry
    /\ releasing' = releasing \ {t}
    /\ containers' = containers \ {t}
    /\ UNCHANGED <<ledgerVars, agentVars, registry, msgVars, parent, taskStatus, wpc,
                   reply, turns, stopping>>

\* The goroutine of unregisterAgentForCallback.
ReleaseContainer(t) ==
    /\ t \in releasing
    /\ releasing' = releasing \ {t}
    /\ containers' = containers \ {t}
    /\ UNCHANGED <<ledgerVars, agentVars, registry, msgVars, parent, taskStatus, wpc,
                   reply, turns, stopping>>

\* The ticker of the pool's idle check.
IdleCheck ==
    /\ cleanupIdleAgents
    /\ UNCHANGED <<ledgerVars, infraVars, msgVars, parent, taskStatus, wpc, reply,
                   turns, stopping>>

\* Stop closes stopCh and then waits until every worker has seen it.
Stop ==
    /\ CanStop
    /\ ~stopping
    /\ stopping' = TRUE
    /\ UNCHANGED <<ledgerVars, agentVars, infraVars, msgVars, parent, taskStatus, wpc,
                   reply, turns>>

\* executeTask, one goroutine's steps.
Execute(w, t) ==
    \/ AssignTask(w, t) \/ Prepare(w, t) \/ Register(w, t) \/ SendStart(w, t)
    \/ Receive(w, t)
    \/ LLMFails(w, t) \/ LLMReplies(w, t)
    \/ \E s \in States : SetState(w, t, s)
    \/ \E c \in Tasks : SpawnSubTask(w, t, c) \/ EnqueueSubTask(w, t, c)
    \/ OtherTool(w, t)
    \/ SendParent(w, t)
    \/ CheckRegistered(w, t) \/ GetParentAgent(w, t) \/ Deliver(w, t)
    \/ EndReply(w, t)

Next == \/ \E t \in Tasks : \/ SpawnRootTask(t) \/ EnqueueRootTask(t)
                            \/ DropTask(t)
                            \/ ReleaseContainer(t)
        \/ \E w \in Workers : NextTask(w) \/ DequeueNil(w)
        \/ \E w \in Workers, t \in Tasks : \/ Dequeue(w, t)
                                           \/ Spawn(w, t) \/ SpawnFails(w, t)
                                           \/ Execute(w, t)
                                           \/ FinishTask(w, t)
        \/ IdleCheck
        \/ Stop

Spec == Init /\ [][Next]_vars

------------------------------------------------------------------------------
(* An agent that does as its tools say, and nothing around it fails; there is *)
(* no Docker service, hence no container (rc.containerMgr is nil).            *)

Unheard(t) == {c \in Tasks : parent[c] = t /\ taken[c] = 0}

\* tools/set_state.json, send_parent.json: an agent blocks while it waits for
\* a child, reports once to the task that spawned it before it completes, and
\* ends every reply with its new state.
Obedient(w, t) ==
    LET before == reply[t].stateChange
        after  == reply'[t].stateChange
        more   == reply[t].calls + 1 < MaxCalls
    IN  /\ wpc[w] = "prepare" => containers' = containers
        /\ wpc'[w] = "remove" => before = "COMPLETED"
        /\ wpc[w] = "call" =>
              \/ before # "" /\ reply' = reply
              \/ before = "" /\ after = "BLOCKING" /\ Unheard(t) # {}
              \/ /\ before = "" /\ after = "COMPLETED" /\ Unheard(t) = {}
                 /\ parent[t] # NoTask => acked[t] = 1
              \/ before = "" /\ more /\ wpc'[w] = "submit" /\ acked[t] = 0
              \/ /\ before = "" /\ more /\ Unheard(t) = {}
                 /\ parent[t] # NoTask /\ acked[t] = 0
                 /\ wpc'[w] = "check" \/ acked' # acked

\* A worker whose Dequeue returned nil asks again: here it just waits, unless
\* the runtime stops.
Work(w) == \/ NextTask(w)
           \/ stopping /\ DequeueNil(w)
           \/ \E t \in Tasks : \/ Dequeue(w, t)
                               \/ Spawn(w, t)
                               \/ Execute(w, t) /\ Obedient(w, t)
                               \/ FinishTask(w, t)

ObedientNext == \/ \E t \in Tasks : SpawnRootTask(t) \/ EnqueueRootTask(t)
                \/ \E w \in Workers : Work(w)
                \/ IdleCheck
                \/ Stop

\* Every goroutine runs while it can, the LLM answers, and the queue answers a
\* worker that asks while a task waits (DequeueReturns and WaitingTaskIsServed
\* of TaskQueue).
Fairness == /\ \A t \in Tasks : WF_vars(EnqueueRootTask(t))
            /\ \A w \in Workers : WF_vars(Work(w))

ObedientSpec == Init /\ [][ObedientNext]_vars /\ Fairness

------------------------------------------------------------------------------
(* Properties.                                                               *)

\* Every variable has its type, and no input queue is over its capacity.
TypeOK == /\ pool \subseteq Tasks
          /\ inputQueue \in [Tasks -> Seq(Tasks \cup {NoTask})]
          /\ \A t \in Tasks : Len(inputQueue[t]) <= InputCap
          /\ stuckOn \in Tasks \cup {NoTask}
          /\ status \in [Tasks -> Ledger!Statuses]
          /\ owner \in [Tasks -> Workers \cup Producers \cup {NoClient}]
          /\ parent \in [Tasks -> Tasks \cup {NoTask}]
          /\ taskStatus \in [Tasks -> {"none", "pending", "in_progress"} \cup Final]
          /\ wpc \in [Workers -> Locations]
          /\ reply \in [Tasks -> [calls : 0..MaxCalls, stateChange : States \cup {""}]]
          /\ turns \in 0..MaxTurns
          /\ registry \subseteq Tasks
          /\ containers \subseteq Tasks
          /\ releasing \subseteq Tasks
          /\ acked \in [Tasks -> Nat]
          /\ taken \in [Tasks -> Nat]
          /\ told \in [Tasks -> Nat]
          /\ stopping \in BOOLEAN

HasAgent(t) == \E w \in Workers : /\ owner[t] = w
                                  /\ wpc[w] \notin {"idle", "dequeue", "spawn", "stopped"}
Looping(t) == \E w \in Workers : owner[t] = w /\ wpc[w] \in InLoop

\* The pool holds exactly the agents of the executions under way, whichever
\* way they end, so that failed executions never fill it up.
PoolIsExecutions == pool = {t \in Tasks : HasAgent(t)}

\* While an agent is in its loop, blocked or not, a child's message finds it:
\* it is registered and in the pool.
LoopIsReachable == \A t \in Tasks : Looping(t) => t \in registry /\ t \in pool

Count(s, x) == Cardinality({i \in DOMAIN s : s[i] = x})

\* A message that was acknowledged is in exactly one place: read by the parent,
\* in the parent's input queue, or given to the orchestrator; one that was
\* refused is nowhere.
AckedMessageIsKept ==
    \A c \in Tasks :
        acked[c] = taken[c] + told[c]
                   + (IF parent[c] = NoTask THEN 0 ELSE Count(inputQueue[parent[c]], c))

\* TaskInstance.Status agrees with the queue: a task that waits or is about to
\* be given an agent is pending, one that was executed never is again.
StatusFollowsQueue ==
    \A t \in Tasks :
        /\ status[t] \in {"queued", "dropped"} => taskStatus[t] = "pending"
        /\ status[t] = "finished" => taskStatus[t] \notin {"none", "pending"}
        /\ taskStatus[t] \in Final => status[t] \in {"held", "finished"}

\* A container is never released under a running agent, and only the entry of
\* an agent that left without unregistering can keep one after its execution.
ContainerIsAccountedFor ==
    /\ \A t \in releasing : t \notin registry /\ ~Looping(t)
    /\ \A t \in containers : HasAgent(t) \/ t \in releasing \/ t \in registry

\* The container of a task as its execution sees it.
LeaseOf(t) == IF t \in releasing THEN "releasing"
              ELSE IF t \in containers THEN "held" ELSE "none"

Leases == INSTANCE ContainerLedger
          WITH Executions <- Tasks, lease <- [t \in Tasks |-> LeaseOf(t)]

\* The workers keep to the protocol of containers that ContainerManager
\* implements: one that is being released is not used again, and none is
\* released that its agent has not given up, however the agent leaves.
UsesLeases == Leases!LendingSpec

WaitsForChild(w) == \E t \in Tasks : /\ At(w, t, "receive") /\ inputQueue[t] = <<>>
                                     /\ Unheard(t) # {}

\* A chain of parents holds every worker, and the child that the last of them
\* waits for is queued: nobody is left to execute it.
NobodyLeft == /\ \A w \in Workers : WaitsForChild(w)
              /\ \E c \in Tasks : status[c] = "queued"

\* With obedient agents and no idle timeout every task that is queued completes,
\* unless the runtime stops or blocked agents hold all of its workers: that is
\* the only deadlock, and no wake-up is lost between a child's message and its
\* parent's blocking.
EveryTaskCompletes ==
    \A t \in Tasks :
        status[t] = "queued" ~> \/ taskStatus[t] = "completed" /\ t \notin pool
                               \/ stopping \/ NobodyLeft

\* The parent reads what its child was told had been sent.
AckedMessageIsRead ==
    \A c \in Tasks \ Roots : acked[c] > 0 /\ parent[c] # NoTask ~> taken[c] = acked[c]

\* Stop waits for every worker, and every worker stops, but for those whose
\* agents wait, at the end of a chain of parents, for a child that is still
\* queued: nobody executes it any more, and Stop does not return.
StopReturns ==
    stopping ~> \A w \in Workers :
                    \/ wpc[w] = "stopped"
                    \/ WaitsForChild(w) /\ \E t \in Tasks : status[t] = "queued"

------------------------------------------------------------------------------
(* What a comment says and the code does not do.                             *)

\* runtime.go:221, "agents are removed after task completion".
AgentIsRemoved ==
    \A w \in Workers : wpc[w] = "remove" ~> wpc[w] # "remove"
=============================================================================
