-------------------------- MODULE TaskServiceProofs --------------------------
(***************************************************************************)
(* Proofs about TaskService, for any set of tasks, any depth limit and any *)
(* number of failing statements and restarts.  The invariant says of every *)
(* task what its call has written so far (CallAt), how it hangs on its     *)
(* parent (TreeAt) and how far its depth has been counted (DepthAt); the   *)
(* depth limit follows along the tree, from a parent to its child.         *)
(***************************************************************************)
EXTENDS TaskService, FiniteSetTheorems, TLAPS

Placed == {"family", "channel", "max", "update", "ok"}
Accepted == {"insert", "enqueue"} \cup Placed

\* Types, without the bounds that the number of tasks gives.
Types == /\ family \in BOOLEAN
         /\ maxDepth \in Nat
         /\ rows \subseteq Tasks
         /\ channels \subseteq Tasks
         /\ place \in [Tasks -> Places]
         /\ pc \in [Tasks -> Calls]
         /\ parent \in [Tasks -> Tasks \cup {NoTask}]
         /\ at \in [Tasks -> Tasks \cup {NoTask}]
         /\ depth \in [Tasks -> Nat]
         /\ level \in [Tasks -> Nat]
         /\ failures \in 0..MaxFailures
         /\ restarts \in 0..MaxRestarts
         /\ overlap \in BOOLEAN

\* What the call of t has written, and where t is.
CallAt(t) ==
    /\ pc[t] \in {"new", "root", "walk", "spawn", "insert"} => t \notin rows
    /\ pc[t] \in {"new", "root", "walk", "spawn", "insert", "enqueue"} => ~Handed(t)
    /\ pc[t] \in Placed => Handed(t)
    /\ Handed(t) \/ pc[t] = "enqueue" => t \in rows
    /\ Handed(t) \/ pc[t] \in Accepted => family
    /\ t \in rows => Handed(t) \/ pc[t] \in {"enqueue", "crashed"}
    /\ pc[t] = "root" => t = Root
    /\ pc[t] \in {"walk", "spawn"} => t # Root
    /\ failures = 0 /\ pc[t] \in {"max", "update", "ok"} => t \in channels
    /\ pc[t] = "error" /\ Handed(t) => failures > 0

\* The parent of t is there before t and lives as long as it.
TreeAt(t) ==
    /\ pc[t] = "new" => depth[t] = 0
    /\ t = Root \/ pc[t] = "new" => parent[t] = NoTask /\ level[t] = 0
    /\ t # Root /\ pc[t] # "new" =>
           parent[t] \in Tasks /\ Handed(parent[t]) /\ level[t] = level[parent[t]] + 1
    /\ t # Root /\ t \in UnderWay => place[parent[t]] = "running"
    /\ t # Root /\ place[t] \in {"queued", "running"} => place[parent[t]] \in {"running", "done"}
    /\ pc[t] # "new" => pc[Root] # "new"

\* What has been counted of the depth of t.
DepthAt(t) ==
    /\ depth[t] <= level[t]
    /\ pc[t] = "walk" => /\ at[t] \in Tasks /\ pc[at[t]] # "new"
                         /\ depth[t] + level[at[t]] + 1 = level[t]
    /\ pc[t] = "spawn" => /\ depth[t] + 1 <= level[t]
                          /\ \/ depth[t] + 1 = level[t]
                             \/ (failures > 0 /\ level[t] <= MaxTaskDepth + failures)
    /\ pc[t] = "insert" => depth[t] <= MaxTaskDepth
    /\ pc[t] \in Accepted \/ Handed(t) => level[t] <= MaxTaskDepth + failures
    /\ failures = 0 /\ pc[t] \in Accepted => depth[t] = level[t]

\* The row of the family.
MaxInv ==
    /\ maxDepth > 0 => \E t \in rows : level[t] >= maxDepth
    /\ ~overlap => \A t, u \in UnderWay : t = u
    /\ ~overlap => \A t \in Tasks : pc[t] = "update" => depth[t] >= maxDepth
    /\ ~overlap /\ failures = 0 => \A t \in Tasks : pc[t] = "ok" => level[t] <= maxDepth

Begun == {t \in Tasks : pc[t] # "new"}

\* A task has as many ancestors as its level says, all of them begun.
CountInv == \A t \in Begun : level[t] + 1 <= Cardinality(Begun)

TasksInv == \A t \in Tasks : CallAt(t) /\ TreeAt(t) /\ DepthAt(t)
Inv == Types /\ TasksInv /\ MaxInv

\* Every step keeps the types.
LEMMA TypesNext ==
    ASSUME Inv, [Next]_vars
    PROVE  Types'
<1>1. ASSUME SpawnRootTask PROVE Types'
  BY <1>1 DEF Types, SpawnRootTask, Goto, tableVars, callVars, boundVars, Calls, Inv
<1>2. ASSUME CreateTaskFamily PROVE Types'
  BY <1>2 DEF Types, CreateTaskFamily, Goto, callVars, boundVars, Calls, Inv
<1>3. ASSUME NEW p \in Tasks, NEW t \in Tasks, SpawnTask(p, t) PROVE Types'
  BY <1>3 DEF Types, SpawnTask, Goto, tableVars, Calls, Inv
<1>4. ASSUME NEW t \in Tasks, Walk(t) PROVE Types'
  BY <1>4 DEF Types, Walk, Goto, tableVars, boundVars, Calls, DepthAt, TasksInv, Inv
<1>5. ASSUME NEW t \in Tasks, WalkFails(t) PROVE Types'
  BY <1>5, TaskServiceAssumption DEF Types, WalkFails, Goto, tableVars, Calls, Inv
<1>6. ASSUME NEW t \in Tasks, SpawnSubTask(t) PROVE Types'
  BY <1>6 DEF Types, SpawnSubTask, Goto, tableVars, boundVars, Calls, Ended, Inv
<1>7. ASSUME NEW t \in Tasks, CreateTaskInstance(t) PROVE Types'
  BY <1>7, TaskServiceAssumption DEF Types, CreateTaskInstance, Goto, callVars, boundVars, Calls,
     DepthAt, TasksInv, Inv
<1>8. ASSUME NEW t \in Tasks, Enqueue(t) PROVE Types'
  BY <1>8 DEF Types, Enqueue, Goto, tableVars, callVars, boundVars, Calls, Places, Inv
<1>9. ASSUME NEW t \in Tasks, GetTaskFamily(t) PROVE Types'
  BY <1>9 DEF Types, GetTaskFamily, Goto, tableVars, callVars, boundVars, Calls, Placed, CallAt,
     TasksInv, Inv
<1>10. ASSUME NEW t \in Tasks, CreateTaskOwnerChannel(t) PROVE Types'
  BY <1>10 DEF Types, CreateTaskOwnerChannel, AfterCreateTask, Goto, callVars, boundVars, Calls,
     Ended, Inv
<1>11. ASSUME NEW t \in Tasks, ReadMaxDepth(t) PROVE Types'
  BY <1>11 DEF Types, ReadMaxDepth, Goto, tableVars, callVars, boundVars, Calls, Ended, Inv
<1>12. ASSUME NEW t \in Tasks, UpdateTaskFamily(t) PROVE Types'
  BY <1>12 DEF Types, UpdateTaskFamily, Goto, callVars, boundVars, Calls, Ended, Inv
<1>13. ASSUME NEW t \in Tasks, StatementFails(t) PROVE Types'
  BY <1>13, TaskServiceAssumption DEF Types, StatementFails, AfterCreateTask, Goto, tableVars,
     callVars, Calls, Ended, Inv
<1>14. ASSUME NEW t \in Tasks, Dequeue(t) PROVE Types'
  BY <1>14 DEF Types, Dequeue, tableVars, callVars, boundVars, Places, Inv
<1>15. ASSUME NEW t \in Tasks, Finish(t) PROVE Types'
  BY <1>15 DEF Types, Finish, tableVars, callVars, boundVars, Places, Inv
<1>16. ASSUME Restart PROVE Types'
  BY <1>16, TaskServiceAssumption DEF Types, Restart, tableVars, callVars, Calls, Ended, Places, Inv
<1>17. CASE UNCHANGED vars
  BY <1>17 DEF Types, tableVars, callVars, boundVars, vars, Inv
<1> QED BY <1>1, <1>2, <1>3, <1>4, <1>5, <1>6, <1>7, <1>8, <1>9, <1>10, <1>11, <1>12, <1>13, <1>14,
           <1>15, <1>16, <1>17 DEF Next

\* What the calls have written follows them.
LEMMA CallNext ==
    ASSUME Inv, [Next]_vars, NEW u \in Tasks
    PROVE  CallAt(u)'
<1>1. ASSUME SpawnRootTask PROVE CallAt(u)'
  BY <1>1 DEF CallAt, SpawnRootTask, Goto, tableVars, Placed, Accepted, Handed, TreeAt, TasksInv,
     Inv
<1>2. ASSUME CreateTaskFamily PROVE CallAt(u)'
  BY <1>2 DEF CallAt, CreateTaskFamily, Goto, boundVars, Placed, Handed, TasksInv, Inv
<1>3. ASSUME NEW p \in Tasks, NEW t \in Tasks, SpawnTask(p, t) PROVE CallAt(u)'
  BY <1>3 DEF CallAt, SpawnTask, Goto, tableVars, Placed, Handed, TasksInv, Inv
<1>4. ASSUME NEW t \in Tasks, Walk(t) PROVE CallAt(u)'
  BY <1>4 DEF CallAt, Walk, Goto, tableVars, boundVars, Placed, Handed, TreeAt, TasksInv, Inv, Types
<1>5. ASSUME NEW t \in Tasks, WalkFails(t) PROVE CallAt(u)'
  BY <1>5 DEF CallAt, WalkFails, Goto, tableVars, Placed, Handed, TreeAt, TasksInv, Inv, Types
<1>6. ASSUME NEW t \in Tasks, SpawnSubTask(t) PROVE CallAt(u)'
  BY <1>6 DEF CallAt, SpawnSubTask, Goto, tableVars, boundVars, Placed, Handed, TreeAt, TasksInv,
     Inv
<1>7. ASSUME NEW t \in Tasks, CreateTaskInstance(t) PROVE CallAt(u)'
  BY <1>7, TaskServiceAssumption DEF CallAt, CreateTaskInstance, Goto, boundVars, Placed, Accepted,
     Handed, DepthAt, TasksInv, Inv, Types
<1>8. ASSUME NEW t \in Tasks, Enqueue(t) PROVE CallAt(u)'
  BY <1>8 DEF CallAt, Enqueue, Goto, tableVars, boundVars, Accepted, Handed, TasksInv, Inv, Types
<1>9. ASSUME NEW t \in Tasks, GetTaskFamily(t) PROVE CallAt(u)'
  BY <1>9 DEF CallAt, GetTaskFamily, Goto, tableVars, boundVars, Placed, Handed, TasksInv, Inv
<1>10. ASSUME NEW t \in Tasks, CreateTaskOwnerChannel(t) PROVE CallAt(u)'
  BY <1>10 DEF CallAt, CreateTaskOwnerChannel, AfterCreateTask, Goto, boundVars, Placed, Handed,
     TasksInv, Inv
<1>11. ASSUME NEW t \in Tasks, ReadMaxDepth(t) PROVE CallAt(u)'
  BY <1>11 DEF CallAt, ReadMaxDepth, Goto, tableVars, boundVars, Placed, Handed, TasksInv, Inv
<1>12. ASSUME NEW t \in Tasks, UpdateTaskFamily(t) PROVE CallAt(u)'
  BY <1>12 DEF CallAt, UpdateTaskFamily, Goto, boundVars, Placed, Handed, TasksInv, Inv
<1>13. ASSUME NEW t \in Tasks, StatementFails(t) PROVE CallAt(u)'
  BY <1>13 DEF CallAt, StatementFails, AfterCreateTask, Goto, tableVars, Placed, Accepted, Handed,
     TasksInv, Inv, Types
<1>14. ASSUME NEW t \in Tasks, Dequeue(t) PROVE CallAt(u)'
  BY <1>14 DEF CallAt, Dequeue, tableVars, boundVars, Handed, TasksInv, Inv
<1>15. ASSUME NEW t \in Tasks, Finish(t) PROVE CallAt(u)'
  BY <1>15 DEF CallAt, Finish, tableVars, boundVars, Handed, TasksInv, Inv
<1>16. ASSUME Restart PROVE CallAt(u)'
  BY <1>16 DEF CallAt, Restart, tableVars, Placed, Accepted, Handed, TasksInv, Inv
<1>17. CASE UNCHANGED vars
  BY <1>17 DEF CallAt, tableVars, boundVars, vars, Handed, TasksInv, Inv
<1> QED BY <1>1, <1>2, <1>3, <1>4, <1>5, <1>6, <1>7, <1>8, <1>9, <1>10, <1>11, <1>12, <1>13, <1>14,
           <1>15, <1>16, <1>17 DEF Next

\* Parents outlive the calls of their children.
LEMMA TreeNext ==
    ASSUME Inv, [Next]_vars, NEW u \in Tasks
    PROVE  TreeAt(u)'
<1>1. ASSUME SpawnRootTask PROVE TreeAt(u)'
  BY <1>1 DEF TreeAt, SpawnRootTask, Goto, callVars, UnderWay, TasksInv, Inv
<1>2. ASSUME CreateTaskFamily PROVE TreeAt(u)'
  BY <1>2 DEF TreeAt, CreateTaskFamily, Goto, callVars, Handed, UnderWay, TasksInv, Inv
<1>3. ASSUME NEW p \in Tasks, NEW t \in Tasks, SpawnTask(p, t) PROVE TreeAt(u)'
  BY <1>3 DEF TreeAt, SpawnTask, UnderWay, Goto, Handed, CallAt, TasksInv, Inv, Types
<1>4. ASSUME NEW t \in Tasks, Walk(t) PROVE TreeAt(u)'
  BY <1>4, TaskServiceAssumption DEF TreeAt, Walk, Goto, Ended, Handed, UnderWay, TasksInv, Inv,
     Types
<1>5. ASSUME NEW t \in Tasks, WalkFails(t) PROVE TreeAt(u)'
  BY <1>5 DEF TreeAt, WalkFails, Goto, Ended, Handed, UnderWay, TasksInv, Inv, Types
<1>6. ASSUME NEW t \in Tasks, SpawnSubTask(t) PROVE TreeAt(u)'
  BY <1>6 DEF TreeAt, SpawnSubTask, Goto, Ended, Handed, UnderWay, TasksInv, Inv
<1>7. ASSUME NEW t \in Tasks, CreateTaskInstance(t) PROVE TreeAt(u)'
  BY <1>7 DEF TreeAt, CreateTaskInstance, Goto, callVars, Ended, Handed, UnderWay, TasksInv, Inv
<1>8. ASSUME NEW t \in Tasks, Enqueue(t) PROVE TreeAt(u)'
  BY <1>8 DEF TreeAt, Enqueue, Goto, callVars, Ended, Handed, UnderWay, CallAt, TasksInv, Inv
<1>9. ASSUME NEW t \in Tasks, GetTaskFamily(t) PROVE TreeAt(u)'
  BY <1>9 DEF TreeAt, GetTaskFamily, Goto, callVars, Ended, Handed, UnderWay, TasksInv, Inv
<1>10. ASSUME NEW t \in Tasks, CreateTaskOwnerChannel(t) PROVE TreeAt(u)'
  BY <1>10 DEF TreeAt, CreateTaskOwnerChannel, AfterCreateTask, Goto, callVars, Ended, Handed,
     UnderWay, TasksInv, Inv
<1>11. ASSUME NEW t \in Tasks, ReadMaxDepth(t) PROVE TreeAt(u)'
  BY <1>11 DEF TreeAt, ReadMaxDepth, Goto, callVars, Ended, Handed, UnderWay, TasksInv, Inv
<1>12. ASSUME NEW t \in Tasks, UpdateTaskFamily(t) PROVE TreeAt(u)'
  BY <1>12 DEF TreeAt, UpdateTaskFamily, Goto, callVars, Ended, Handed, UnderWay, TasksInv, Inv
<1>13. ASSUME NEW t \in Tasks, StatementFails(t) PROVE TreeAt(u)'
  BY <1>13 DEF TreeAt, StatementFails, AfterCreateTask, Goto, callVars, Ended, Handed, UnderWay,
     TasksInv, Inv
<1>14. ASSUME NEW t \in Tasks, Dequeue(t) PROVE TreeAt(u)'
  BY <1>14 DEF TreeAt, Dequeue, callVars, Handed, UnderWay, TasksInv, Inv
<1>15. ASSUME NEW t \in Tasks, Finish(t) PROVE TreeAt(u)'
  BY <1>15 DEF TreeAt, Finish, UnderWay, callVars, Handed, TasksInv, Inv
<1>16. ASSUME Restart PROVE TreeAt(u)'
  BY <1>16, TaskServiceAssumption DEF TreeAt, Restart, callVars, Ended, Handed, UnderWay, TasksInv,
     Inv
<1>17. CASE UNCHANGED vars
  BY <1>17 DEF TreeAt, callVars, vars, Handed, UnderWay, TasksInv, Inv
<1> QED BY <1>1, <1>2, <1>3, <1>4, <1>5, <1>6, <1>7, <1>8, <1>9, <1>10, <1>11, <1>12, <1>13, <1>14,
           <1>15, <1>16, <1>17 DEF Next

\* The depths are counted along the tree.
LEMMA DepthNext ==
    ASSUME Inv, [Next]_vars, NEW u \in Tasks
    PROVE  DepthAt(u)'
<1>1. ASSUME SpawnRootTask PROVE DepthAt(u)'
  BY <1>1 DEF DepthAt, SpawnRootTask, Goto, callVars, Placed, Accepted, Handed, CallAt, TreeAt,
     TasksInv, Inv
<1>2. ASSUME CreateTaskFamily PROVE DepthAt(u)'
  BY <1>2, TaskServiceAssumption DEF DepthAt, CreateTaskFamily, Goto, callVars, boundVars, Handed,
     TreeAt, TasksInv, Inv, Types
<1>3. ASSUME NEW p \in Tasks, NEW t \in Tasks, SpawnTask(p, t) PROVE DepthAt(u)'
  BY <1>3 DEF DepthAt, SpawnTask, Goto, Placed, Accepted, Handed, CallAt, TreeAt, TasksInv, Inv,
     Types
<1>4. ASSUME NEW t \in Tasks, Walk(t) PROVE DepthAt(u)'
  BY <1>4, TaskServiceAssumption DEF DepthAt, Walk, Goto, boundVars, Placed, Accepted, Handed,
     CallAt, TreeAt, TasksInv, Inv, Types
<1>5. ASSUME NEW t \in Tasks, WalkFails(t) PROVE DepthAt(u)'
  BY <1>5, TaskServiceAssumption DEF DepthAt, WalkFails, Goto, TreeAt, TasksInv, Inv, Types
<1>6. ASSUME NEW t \in Tasks, SpawnSubTask(t) PROVE DepthAt(u)'
  BY <1>6, TaskServiceAssumption DEF DepthAt, SpawnSubTask, Goto, boundVars, Placed, Accepted,
     Handed, TasksInv, Inv, Types
<1>7. ASSUME NEW t \in Tasks, CreateTaskInstance(t) PROVE DepthAt(u)'
  BY <1>7 DEF DepthAt, CreateTaskInstance, Goto, callVars, boundVars, Accepted, Handed, TasksInv,
     Inv
<1>8. ASSUME NEW t \in Tasks, Enqueue(t) PROVE DepthAt(u)'
  BY <1>8 DEF DepthAt, Enqueue, Goto, callVars, boundVars, Accepted, Handed, TasksInv, Inv
<1>9. ASSUME NEW t \in Tasks, GetTaskFamily(t) PROVE DepthAt(u)'
  BY <1>9 DEF DepthAt, GetTaskFamily, Goto, callVars, boundVars, Placed, Accepted, Handed, TasksInv,
     Inv
<1>10. ASSUME NEW t \in Tasks, CreateTaskOwnerChannel(t) PROVE DepthAt(u)'
  BY <1>10 DEF DepthAt, CreateTaskOwnerChannel, AfterCreateTask, Goto, callVars, boundVars, Placed,
     Accepted, Handed, TasksInv, Inv
<1>11. ASSUME NEW t \in Tasks, ReadMaxDepth(t) PROVE DepthAt(u)'
  BY <1>11 DEF DepthAt, ReadMaxDepth, Goto, callVars, boundVars, Placed, Accepted, Handed, TasksInv,
     Inv
<1>12. ASSUME NEW t \in Tasks, UpdateTaskFamily(t) PROVE DepthAt(u)'
  BY <1>12 DEF DepthAt, UpdateTaskFamily, Goto, callVars, boundVars, Placed, Accepted, Handed,
     TasksInv, Inv
<1>13. ASSUME NEW t \in Tasks, StatementFails(t) PROVE DepthAt(u)'
  BY <1>13, TaskServiceAssumption DEF DepthAt, StatementFails, AfterCreateTask, Goto, callVars,
     TreeAt, TasksInv, Inv, Types
<1>14. ASSUME NEW t \in Tasks, Dequeue(t) PROVE DepthAt(u)'
  BY <1>14 DEF DepthAt, Dequeue, callVars, boundVars, Handed, TasksInv, Inv
<1>15. ASSUME NEW t \in Tasks, Finish(t) PROVE DepthAt(u)'
  BY <1>15 DEF DepthAt, Finish, callVars, boundVars, Handed, TasksInv, Inv
<1>16. ASSUME Restart PROVE DepthAt(u)'
  BY <1>16 DEF DepthAt, Restart, callVars, Placed, Accepted, Handed, TasksInv, Inv
<1>17. CASE UNCHANGED vars
  BY <1>17 DEF DepthAt, callVars, boundVars, vars, Handed, TasksInv, Inv
<1> QED BY <1>1, <1>2, <1>3, <1>4, <1>5, <1>6, <1>7, <1>8, <1>9, <1>10, <1>11, <1>12, <1>13, <1>14,
           <1>15, <1>16, <1>17 DEF Next

\* The row of the family holds a depth that was reached.
LEMMA MaxNext ==
    ASSUME Inv, [Next]_vars
    PROVE  MaxInv'
<1>1. ASSUME SpawnRootTask PROVE MaxInv'
  BY <1>1 DEF MaxInv, SpawnRootTask, Goto, tableVars, Ended, UnderWay, TreeAt, TasksInv, Inv, Types
<1>2. ASSUME CreateTaskFamily PROVE MaxInv'
  BY <1>2 DEF MaxInv, CreateTaskFamily, Goto, callVars, boundVars, Ended, UnderWay, Inv
<1>3. ASSUME NEW p \in Tasks, NEW t \in Tasks, SpawnTask(p, t) PROVE MaxInv'
  BY <1>3 DEF MaxInv, SpawnTask, UnderWay, Goto, tableVars, Handed, CallAt, TasksInv, Inv, Types
<1>4. ASSUME NEW t \in Tasks, Walk(t) PROVE MaxInv'
  BY <1>4 DEF MaxInv, Walk, Goto, tableVars, boundVars, Ended, UnderWay, Inv, Types
<1>5. ASSUME NEW t \in Tasks, WalkFails(t) PROVE MaxInv'
  BY <1>5 DEF MaxInv, WalkFails, Goto, tableVars, Ended, UnderWay, Inv, Types
<1>6. ASSUME NEW t \in Tasks, SpawnSubTask(t) PROVE MaxInv'
  BY <1>6 DEF MaxInv, SpawnSubTask, Goto, tableVars, boundVars, Ended, UnderWay, Inv
<1>7. ASSUME NEW t \in Tasks, CreateTaskInstance(t) PROVE MaxInv'
  BY <1>7 DEF MaxInv, CreateTaskInstance, Goto, callVars, boundVars, Ended, UnderWay, Inv
<1>8. ASSUME NEW t \in Tasks, Enqueue(t) PROVE MaxInv'
  BY <1>8 DEF MaxInv, Enqueue, Goto, tableVars, callVars, boundVars, Ended, UnderWay, Inv
<1>9. ASSUME NEW t \in Tasks, GetTaskFamily(t) PROVE MaxInv'
  BY <1>9 DEF MaxInv, GetTaskFamily, Goto, tableVars, callVars, boundVars, Ended, UnderWay, Inv
<1>10. ASSUME NEW t \in Tasks, CreateTaskOwnerChannel(t) PROVE MaxInv'
  BY <1>10 DEF MaxInv, CreateTaskOwnerChannel, AfterCreateTask, Goto, callVars, boundVars, Ended,
     UnderWay, TreeAt, TasksInv, Inv, Types
<1>11. ASSUME NEW t \in Tasks, ReadMaxDepth(t) PROVE MaxInv'
  BY <1>11 DEF MaxInv, ReadMaxDepth, Goto, tableVars, callVars, boundVars, Ended, Placed, Accepted,
     UnderWay, DepthAt, TasksInv, Inv, Types
<1>12. ASSUME NEW t \in Tasks, UpdateTaskFamily(t) PROVE MaxInv'
  BY <1>12 DEF MaxInv, UpdateTaskFamily, Goto, callVars, boundVars, Ended, Placed, Accepted,
     UnderWay, CallAt, DepthAt, TasksInv, Inv, Types
<1>13. ASSUME NEW t \in Tasks, StatementFails(t) PROVE MaxInv'
  BY <1>13 DEF MaxInv, StatementFails, AfterCreateTask, Goto, tableVars, callVars, Ended, UnderWay,
     Inv, Types
<1>14. ASSUME NEW t \in Tasks, Dequeue(t) PROVE MaxInv'
  BY <1>14 DEF MaxInv, Dequeue, tableVars, callVars, boundVars, UnderWay, Inv
<1>15. ASSUME NEW t \in Tasks, Finish(t) PROVE MaxInv'
  BY <1>15 DEF MaxInv, Finish, UnderWay, tableVars, callVars, boundVars, Inv
<1>16. ASSUME Restart PROVE MaxInv'
  BY <1>16 DEF MaxInv, Restart, tableVars, callVars, UnderWay, Inv
<1>17. CASE UNCHANGED vars
  BY <1>17 DEF MaxInv, tableVars, callVars, boundVars, vars, UnderWay, Inv
<1> QED BY <1>1, <1>2, <1>3, <1>4, <1>5, <1>6, <1>7, <1>8, <1>9, <1>10, <1>11, <1>12, <1>13, <1>14,
           <1>15, <1>16, <1>17 DEF Next

\* What has begun stays begun, and a step begins one task at most.
LEMMA BegunGrows ==
    ASSUME Types, [Next]_vars
    PROVE  Begun' = Begun \/ \E t \in Tasks : pc[t] = "new" /\ Begun' = Begun \cup {t}
<1>1. ASSUME SpawnRootTask PROVE Begun' = Begun \cup {Root} /\ pc[Root] = "new"
  BY <1>1, TaskServiceAssumption DEF Begun, SpawnRootTask, Goto, Types
<1>2. ASSUME NEW p \in Tasks, NEW t \in Tasks, SpawnTask(p, t)
      PROVE  Begun' = Begun \cup {t} /\ pc[t] = "new"
  BY <1>2 DEF Begun, SpawnTask, Goto, Types
<1>3. ASSUME NEW t \in Tasks, NEW loc \in Calls \ {"new"}, pc[t] # "new", Goto(t, loc)
      PROVE  Begun' = Begun
  BY <1>3 DEF Begun, Goto
<1>4. CASE CreateTaskFamily
  BY <1>3, <1>4, TaskServiceAssumption DEF CreateTaskFamily, Calls
<1>5. ASSUME NEW t \in Tasks,
             \/ Walk(t) \/ WalkFails(t) \/ SpawnSubTask(t) \/ CreateTaskInstance(t) \/ Enqueue(t)
             \/ GetTaskFamily(t) \/ CreateTaskOwnerChannel(t)
      PROVE  Begun' = Begun
  BY <1>3, <1>5 DEF Begun, Walk, WalkFails, SpawnSubTask, CreateTaskInstance, Enqueue,
     GetTaskFamily, CreateTaskOwnerChannel, AfterCreateTask, Calls, Ended
<1>6. ASSUME NEW t \in Tasks, ReadMaxDepth(t) \/ UpdateTaskFamily(t) \/ StatementFails(t)
      PROVE  Begun' = Begun
  BY <1>3, <1>6 DEF ReadMaxDepth, UpdateTaskFamily, StatementFails, AfterCreateTask, Calls, Ended
<1>7. ASSUME NEW t \in Tasks, Dequeue(t) \/ Finish(t) PROVE Begun' = Begun
  BY <1>7 DEF Begun, Dequeue, Finish
<1>8. CASE Restart
  BY <1>8 DEF Begun, Restart, Ended
<1>9. CASE UNCHANGED vars
  BY <1>9 DEF Begun, vars
<1> QED
  BY <1>1, <1>2, <1>4, <1>5, <1>6, <1>7, <1>8, <1>9, TaskServiceAssumption DEF Next

LEMMA BegunIsFinite ==
    /\ IsFiniteSet(Begun)
    /\ Cardinality(Begun) \in Nat /\ Cardinality(Tasks) \in Nat
    /\ Cardinality(Begun) <= Cardinality(Tasks)
<1>1. Begun \subseteq Tasks /\ IsFiniteSet(Tasks)
  BY TaskServiceAssumption DEF Begun
<1> QED BY <1>1, FS_Subset, FS_CardinalityType

\* A level changes only when its task begins.
LEMMA LevelIsKept ==
    ASSUME Types, [Next]_vars, NEW t \in Tasks, pc[t] # "new"
    PROVE  level'[t] = level[t]
BY DEF Next, SpawnRootTask, CreateTaskFamily, SpawnTask, Walk, WalkFails, SpawnSubTask,
   CreateTaskInstance, Enqueue, GetTaskFamily, CreateTaskOwnerChannel, ReadMaxDepth,
   UpdateTaskFamily, StatementFails, Dequeue, Finish, Restart, callVars, vars, Types

\* The level of a task is less than the number of tasks that have begun.
LEMMA CountNext ==
    ASSUME Inv, Inv', CountInv, [Next]_vars
    PROVE  CountInv'
<1>1. CASE Begun' = Begun
  <2>1. \A t \in Begun : level'[t] = level[t]
    BY LevelIsKept DEF Inv, Begun
  <2> QED BY <1>1, <2>1 DEF CountInv
<1>2. ASSUME NEW t \in Tasks, pc[t] = "new", Begun' = Begun \cup {t} PROVE CountInv'
  <2>1. Cardinality(Begun') = Cardinality(Begun) + 1
    BY <1>2, BegunIsFinite, FS_AddElement DEF Begun
  <2>2. \A u \in Begun : level'[u] = level[u] /\ level[u] + 1 <= Cardinality(Begun)
    BY LevelIsKept DEF Inv, Begun, CountInv
  <2>3. level'[t] <= Cardinality(Begun)
    <3>1. CASE t = Root
      BY <3>1, BegunIsFinite DEF Inv, TasksInv, TreeAt
    <3>2. CASE t # Root
      <4>1. pc'[t] # "new"
        BY <1>2 DEF Begun
      <4>2. parent'[t] \in Tasks /\ Handed(parent[t])' /\ level'[t] = level'[parent'[t]] + 1
        BY <3>2, <4>1 DEF Inv, TasksInv, TreeAt
      <4>3. parent'[t] # t
        BY <4>2 DEF Inv, Types
      <4>4. parent'[t] \in Begun
        BY <1>2, <4>2, <4>3 DEF Inv, TasksInv, CallAt, Begun
      <4> QED BY <2>2, <4>2, <4>4
    <3> QED BY <3>1, <3>2
  <2>4. ASSUME NEW u \in Begun' PROVE level'[u] + 1 <= Cardinality(Begun')
    <3>1. u \in Tasks /\ level'[u] \in Nat
      BY DEF Begun, Inv, Types
    <3> QED BY <1>2, <2>1, <2>2, <2>3, <3>1, BegunIsFinite
  <2> QED BY <2>4 DEF CountInv
<1> QED BY <1>1, <1>2, BegunGrows DEF Inv

LEMMA InvInit == ASSUME Init PROVE Inv /\ CountInv
<1>1. Types
  <2>1. family \in BOOLEAN /\ overlap \in BOOLEAN
    BY DEF Init
  <2>2. maxDepth \in Nat /\ failures \in 0..MaxFailures /\ restarts \in 0..MaxRestarts
    BY TaskServiceAssumption DEF Init
  <2>3. rows \subseteq Tasks /\ channels \subseteq Tasks
    BY DEF Init
  <2>4. /\ place \in [Tasks -> Places] /\ pc \in [Tasks -> Calls]
        /\ parent \in [Tasks -> Tasks \cup {NoTask}] /\ at \in [Tasks -> Tasks \cup {NoTask}]
        /\ depth \in [Tasks -> Nat] /\ level \in [Tasks -> Nat]
    BY DEF Init, Calls, Ended, Places
  <2> QED BY <2>1, <2>2, <2>3, <2>4 DEF Types
<1>2. TasksInv
  BY DEF Init, TasksInv, CallAt, TreeAt, DepthAt, Handed, UnderWay, Ended, Placed, Accepted
<1>3. MaxInv
  BY DEF Init, MaxInv, UnderWay, Ended
<1>4. CountInv
  BY DEF Init, CountInv, Begun
<1> QED BY <1>1, <1>2, <1>3, <1>4 DEF Inv

LEMMA InvInvariant == Spec => [](Inv /\ CountInv)
<1>1. ASSUME Inv /\ CountInv, [Next]_vars PROVE (Inv /\ CountInv)'
  <2>1. Types' /\ MaxInv'
    BY <1>1, TypesNext, MaxNext
  <2>2. TasksInv'
    BY <1>1, CallNext, TreeNext, DepthNext DEF TasksInv
  <2>3. Inv'
    BY <2>1, <2>2 DEF Inv
  <2> QED BY <1>1, <2>3, CountNext
<1> QED BY <1>1, InvInit, PTL DEF Spec

------------------------------------------------------------------------------
\* Every variable has its type, and no depth is larger than the number of tasks.
LEMMA TypeCorrect == ASSUME Inv, CountInv PROVE TypeOK
<1>1. ASSUME NEW t \in Tasks
      PROVE  level[t] \in 0..Cardinality(Tasks) /\ depth[t] \in 0..Cardinality(Tasks)
  <2>1. level[t] <= Cardinality(Tasks)
    <3>1. CASE pc[t] = "new"
      BY <3>1, BegunIsFinite DEF Inv, TasksInv, TreeAt
    <3>2. CASE pc[t] # "new"
      <4>1. level[t] \in Nat /\ level[t] + 1 <= Cardinality(Begun)
        BY <3>2 DEF Inv, Types, CountInv, Begun
      <4> QED BY <4>1, BegunIsFinite
    <3> QED BY <3>1, <3>2
  <2> QED BY <2>1, BegunIsFinite DEF Inv, Types, TasksInv, DepthAt
<1>2. maxDepth \in 0..Cardinality(Tasks)
  <2>1. \A t \in rows : level[t] <= Cardinality(Tasks) /\ level[t] \in Nat
    BY <1>1 DEF Inv, Types
  <2> QED BY <2>1, BegunIsFinite DEF Inv, Types, MaxInv
<1> QED BY <1>1, <1>2 DEF Inv, Types, TypeOK

\* The tables agree with the tasks in memory (RowsFollowTasks): a task that was
\* handed out has its rows, a row stays without a task only when the process
\* ended, and no task outlives the end of the process that took its parent.
THEOREM RowsAlwaysFollowTasks == Spec => []RowsFollowTasks
<1>1. ASSUME Inv, CountInv PROVE RowsFollowTasks
  <2>1. TypeOK
    BY <1>1, TypeCorrect
  <2>2. QueuedTaskHasRows
    BY <1>1 DEF Inv, TasksInv, CallAt, TreeAt, QueuedTaskHasRows
  <2>3. NoOrphanRow
    BY <1>1 DEF Inv, Types, TasksInv, CallAt, NoOrphanRow
  <2>4. NoOrphanTask
    BY <1>1 DEF Inv, TasksInv, TreeAt, NoOrphanTask
  <2> QED BY <2>1, <2>2, <2>3, <2>4 DEF RowsFollowTasks
<1> QED BY <1>1, InvInvariant, PTL

\* The depth limit holds, but for one level per read that fails, and
\* max_depth_reached is a depth that was reached (DepthIsKept).
THEOREM DepthIsAlwaysKept == Spec => []DepthIsKept
<1>1. ASSUME Inv PROVE DepthIsKept
  <2>1. DepthIsLimited
    BY <1>1 DEF Inv, TasksInv, DepthAt, DepthIsLimited
  <2>2. MaxDepthIsReached
    BY <1>1 DEF Inv, MaxInv, MaxDepthIsReached
  <2> QED BY <2>1, <2>2 DEF DepthIsKept
<1> QED BY <1>1, InvInvariant, PTL

\* What an agent, or the orchestrator, is told of a task is true (AnswerIsTrue).
THEOREM AnswersAreTrue == Spec => []AnswerIsTrue
<1>1. ASSUME Inv PROVE AnswerIsTrue
  BY <1>1 DEF Inv, TasksInv, CallAt, AnswerIsTrue, Placed
<1> QED BY <1>1, InvInvariant, PTL
=============================================================================
