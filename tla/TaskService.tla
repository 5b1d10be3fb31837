----------------------------- MODULE TaskService -----------------------------
(***************************************************************************)
(* Spawning tasks: TaskService of internal/services/task/task_queue.go     *)
(* (SpawnRootTask, SpawnSubTask, CreateTask) and the SPAWN_TASK tool of    *)
(* internal/runtime/runtime.go, which counts the depth of the parent by a  *)
(* walk over the rows.  One task family; a call is named by the task it is *)
(* to create.  Any statement may fail; the code goes on after some.        *)
(***************************************************************************)
EXTENDS Integers, FiniteSetsExt

CONSTANTS Tasks,         \* the task instances that may be created
          Root,          \* the root task of the family
          NoTask,        \* no parent
          MaxTaskDepth,  \* Global.MaxTaskDepth
          MaxFailures,   \* bound on the statements that fail
          MaxRestarts    \* bound on the restarts of the process

ASSUME TaskServiceAssumption ==
    /\ IsFiniteSet(Tasks)
    /\ Root \in Tasks
    /\ NoTask \notin Tasks
    /\ MaxTaskDepth \in Nat
    /\ MaxFailures \in Nat
    /\ MaxRestarts \in Nat

VARIABLES family,    \* there is a row of task_families
          maxDepth,  \* its max_depth_reached
          rows,      \* the tasks with a row in task_instances
          channels,  \* the tasks with a row in task_owner_channels
          place,     \* place[t]: not handed out, queued, running, done, or lost
          pc,        \* pc[t]: where the call that creates t is
          parent,    \* parent[t]: ParentInstanceID
          at,        \* at[t]: the row the walk of t's call has reached
          depth,     \* depth[t]: parentDepth, then the depth given to CreateTask
          level,     \* an observer: level[t] is the true depth of t
          failures,  \* statements that failed
          restarts,  \* restarts of the process
          overlap    \* an observer: two calls have been under way at once

tableVars == <<family, maxDepth, rows, channels>>
callVars == <<parent, at, depth, level>>
boundVars == <<failures, restarts, overlap>>
vars == <<tableVars, place, pc, callVars, boundVars>>

Ended == {"new", "ok", "error", "crashed"}
Calls == Ended \cup {"root", "walk", "spawn", "insert", "enqueue", "family",
                     "channel", "max", "update"}
Places == {"nowhere", "queued", "running", "done", "lost"}

Init == /\ family = FALSE
        /\ maxDepth = 0
        /\ rows = {}
        /\ channels = {}
        /\ place = [t \in Tasks |-> "nowhere"]
        /\ pc = [t \in Tasks |-> "new"]
        /\ parent = [t \in Tasks |-> NoTask]
        /\ at = [t \in Tasks |-> NoTask]
        /\ depth = [t \in Tasks |-> 0]
        /\ level = [t \in Tasks |-> 0]
        /\ failures = 0
        /\ restarts = 0
        /\ overlap = FALSE

UnderWay == {t \in Tasks : pc[t] \notin Ended}
Goto(t, loc) == pc' = [pc EXCEPT ![t] = loc]

------------------------------------------------------------------------------
(* The calls.                                                                *)

\* The orchestrator's SPAWN_TASK.
SpawnRootTask ==
    /\ pc[Root] = "new"
    /\ Goto(Root, "root")
    /\ UNCHANGED <<tableVars, place, callVars, boundVars>>

CreateTaskFamily ==
    /\ pc[Root] = "root"
    /\ family' = TRUE
    /\ Goto(Root, "insert")
    /\ UNCHANGED <<maxDepth, rows, channels, place, callVars, boundVars>>

\* An agent's SPAWN_TASK up to the first row of the walk; an agent has one
\* call under way at a time.
SpawnTask(p, t) ==
    /\ place[p] = "running"
    /\ \A u \in UnderWay : parent[u] # p
    /\ t # Root /\ pc[t] = "new"
    /\ parent' = [parent EXCEPT ![t] = p]
    /\ at' = [at EXCEPT ![t] = p]
    /\ level' = [level EXCEPT ![t] = level[p] + 1]
    /\ overlap' = (overlap \/ UnderWay # {})
    /\ Goto(t, "walk")
    /\ UNCHANGED <<tableVars, place, depth, failures, restarts>>

\* A walk that looks only at the row of the parent.
WalkParentOnly(t) ==
    /\ pc[t] = "walk"
    /\ Goto(t, "spawn")
    /\ UNCHANGED <<tableVars, place, callVars, boundVars>>

\* One round of the loop that counts parents, or its end.
Walk(t) ==
    /\ pc[t] = "walk"
    /\ IF parent[at[t]] # NoTask
       THEN /\ depth' = [depth EXCEPT ![t] = @ + 1]
            /\ at' = [at EXCEPT ![t] = parent[at[t]]]
            /\ UNCHANGED pc
       ELSE Goto(t, "spawn") /\ UNCHANGED <<depth, at>>
    /\ UNCHANGED <<tableVars, place, parent, level, boundVars>>

\* A read of the walk fails.  The first one leaves the depth at 0; a later one
\* has been counted already, and its empty row has no parent: the walk ends.
WalkFails(t) ==
    /\ pc[t] = "walk"
    /\ failures < MaxFailures
    /\ failures' = failures + 1
    /\ \/ at[t] = parent[t] /\ UNCHANGED depth
       \/ parent[at[t]] # NoTask /\ depth' = [depth EXCEPT ![t] = @ + 1]
    /\ Goto(t, "spawn")
    /\ UNCHANGED <<tableVars, place, parent, at, level, restarts, overlap>>

\* A limit that is kept, but not reported.
SpawnSubTaskNoError(t) ==
    /\ pc[t] = "spawn"
    /\ depth' = [depth EXCEPT ![t] = @ + 1]
    /\ Goto(t, IF depth[t] + 1 > MaxTaskDepth THEN "ok" ELSE "insert")
    /\ UNCHANGED <<tableVars, place, parent, at, level, boundVars>>

SpawnSubTask(t) ==
    /\ pc[t] = "spawn"
    /\ depth' = [depth EXCEPT ![t] = @ + 1]
    /\ Goto(t, IF depth[t] + 1 > MaxTaskDepth THEN "error" ELSE "insert")
    /\ UNCHANGED <<tableVars, place, parent, at, level, boundVars>>

\* CreateTask: the row is written before the depth is tested again.
CreateTaskInstance(t) ==
    /\ pc[t] = "insert"
    /\ rows' = rows \cup {t}
    /\ Goto(t, IF depth[t] > MaxTaskDepth THEN "error" ELSE "enqueue")
    /\ UNCHANGED <<family, maxDepth, channels, place, callVars, boundVars>>

Enqueue(t) ==
    /\ pc[t] = "enqueue"
    /\ place' = [place EXCEPT ![t] = "queued"]
    /\ Goto(t, "family")
    /\ UNCHANGED <<tableVars, callVars, boundVars>>

GetTaskFamily(t) ==
    /\ pc[t] = "family"
    /\ Goto(t, IF family THEN "channel" ELSE "error")
    /\ UNCHANGED <<tableVars, place, callVars, boundVars>>

AfterCreateTask(t) == IF t = Root THEN "ok" ELSE "max"

CreateTaskOwnerChannel(t) ==
    /\ pc[t] = "channel"
    /\ channels' = channels \cup {t}
    /\ Goto(t, AfterCreateTask(t))
    /\ UNCHANGED <<family, maxDepth, rows, place, callVars, boundVars>>

\* The rest of SpawnSubTask: the family is read, and written back as a whole
\* when the new depth is larger.
ReadMaxDepth(t) ==
    /\ pc[t] = "max"
    /\ Goto(t, IF depth[t] > maxDepth THEN "update" ELSE "ok")
    /\ UNCHANGED <<tableVars, place, callVars, boundVars>>

UpdateTaskFamily(t) ==
    /\ pc[t] = "update"
    /\ maxDepth' = depth[t]
    /\ Goto(t, "ok")
    /\ UNCHANGED <<family, rows, channels, place, callVars, boundVars>>

\* A statement fails.  A channel that is not created is only logged; a family
\* that cannot be read or written at the end is not noticed.
StatementFails(t) ==
    /\ pc[t] \in {"root", "insert", "family", "channel", "max", "update"}
    /\ failures < MaxFailures
    /\ failures' = failures + 1
    /\ Goto(t, CASE pc[t] \in {"root", "insert", "family"} -> "error"
                 [] pc[t] = "channel"                      -> AfterCreateTask(t)
                 [] OTHER                                  -> "ok")
    /\ UNCHANGED <<tableVars, place, callVars, restarts, overlap>>

------------------------------------------------------------------------------
(* The workers, and the end of the process.                                  *)

Dequeue(t) ==
    /\ place[t] = "queued"
    /\ place' = [place EXCEPT ![t] = "running"]
    /\ UNCHANGED <<tableVars, pc, callVars, boundVars>>

Finish(t) ==
    /\ place[t] = "running"
    /\ \A u \in UnderWay : parent[u] # t
    /\ place' = [place EXCEPT ![t] = "done"]
    /\ UNCHANGED <<tableVars, pc, callVars, boundVars>>

\* A start that puts the tasks with pending rows into the queue again.
RestartRequeues ==
    /\ restarts < MaxRestarts
    /\ restarts' = restarts + 1
    /\ place' = [t \in Tasks |-> IF place[t] = "running" THEN "lost" ELSE place[t]]
    /\ pc' = [t \in Tasks |-> IF pc[t] \in Ended THEN pc[t] ELSE "crashed"]
    /\ UNCHANGED <<tableVars, callVars, failures, overlap>>

\* The process is killed and started again.  Nothing reads the pending rows.
Restart ==
    /\ restarts < MaxRestarts
    /\ restarts' = restarts + 1
    /\ place' = [t \in Tasks |-> IF place[t] \in {"queued", "running"} THEN "lost" ELSE place[t]]
    /\ pc' = [t \in Tasks |-> IF pc[t] \in Ended THEN pc[t] ELSE "crashed"]
    /\ UNCHANGED <<tableVars, callVars, failures, overlap>>

Next == \/ SpawnRootTask
        \/ CreateTaskFamily
        \/ \E p, t \in Tasks : SpawnTask(p, t)
        \/ \E t \in Tasks : \/ Walk(t) \/ WalkFails(t)
                            \/ SpawnSubTask(t)
                            \/ CreateTaskInstance(t)
                            \/ Enqueue(t)
                            \/ GetTaskFamily(t)
                            \/ CreateTaskOwnerChannel(t)
                            \/ ReadMaxDepth(t) \/ UpdateTaskFamily(t)
                            \/ StatementFails(t)
                            \/ Dequeue(t) \/ Finish(t)
        \/ Restart

Spec == Init /\ [][Next]_vars

------------------------------------------------------------------------------
(* Properties.                                                               *)

\* Every variable has its type; no count is larger than the number of tasks.
TypeOK == /\ family \in BOOLEAN
          /\ maxDepth \in 0..Cardinality(Tasks)
          /\ rows \subseteq Tasks
          /\ channels \subseteq Tasks
          /\ place \in [Tasks -> Places]
          /\ pc \in [Tasks -> Calls]
          /\ parent \in [Tasks -> Tasks \cup {NoTask}]
          /\ at \in [Tasks -> Tasks \cup {NoTask}]
          /\ depth \in [Tasks -> 0..Cardinality(Tasks)]
          /\ level \in [Tasks -> 0..Cardinality(Tasks)]
          /\ failures \in 0..MaxFailures
          /\ restarts \in 0..MaxRestarts
          /\ overlap \in BOOLEAN

Handed(t) == place[t] # "nowhere"

\* The depth limit holds although the depth is counted anew over the table by
\* every call, and every read that fails lifts it by at most one level.
DepthIsLimited == \A t \in Tasks : Handed(t) => level[t] <= MaxTaskDepth + failures

\* A worker finds the rows it needs: the task it takes has a row, its family
\* has one, and so has its parent, whatever failed on the way.
QueuedTaskHasRows ==
    \A t \in Tasks : Handed(t) => /\ t \in rows /\ family
                                  /\ parent[t] # NoTask => parent[t] \in rows

\* A row whose task was never queued is one the call under way has just
\* written, or a call that the end of the process cut off at this point: no
\* row stays pending because a call was refused or a statement failed.
NoOrphanRow == \A t \in rows : Handed(t) \/ pc[t] \in {"enqueue", "crashed"}

\* The queue is in memory only, so that a restart loses a family as a whole:
\* no task waits or runs whose parent was lost, to report to nobody.
NoOrphanTask ==
    \A t \in Tasks : place[t] \in {"queued", "running"} /\ parent[t] # NoTask
                        => place[parent[t]] # "lost"

\* The tables agree with the tasks in memory.
RowsFollowTasks == TypeOK /\ QueuedTaskHasRows /\ NoOrphanRow /\ NoOrphanTask

\* What the caller is told is true: after a success the task was handed out,
\* and an error for a task that was handed out means that a statement failed.
AnswerIsTrue ==
    \A t \in Tasks : /\ pc[t] = "ok" => Handed(t) /\ (failures = 0 => t \in channels)
                     /\ pc[t] = "error" /\ Handed(t) => failures > 0

\* max_depth_reached is the depth of a task that exists, and, while calls do
\* not overlap and no statement fails, of the deepest one created.
MaxDepthIsReached ==
    /\ maxDepth > 0 => \E t \in rows : level[t] >= maxDepth
    /\ ~overlap /\ failures = 0 => \A t \in Tasks : pc[t] = "ok" => level[t] <= maxDepth

\* The depths that the calls count are those of the tree of tasks.
DepthIsKept == DepthIsLimited /\ MaxDepthIsReached
=============================================================================
