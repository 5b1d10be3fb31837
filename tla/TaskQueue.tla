------------------------------ MODULE TaskQueue ------------------------------
(***************************************************************************)
(* The global task queue, internal/services/task/task_queue.go: a priority *)
(* queue owned by the goroutine processLoop, reached through a buffered    *)
(* channel of tasks (enqueueCh) and one of requests (dequeueCh).  Clients  *)
(* are the producers (callers of TaskService.CreateTask) and the workers   *)
(* of internal/runtime/runtime.go, which take tasks out and, when no agent *)
(* can be spawned, put them back.                                          *)
(*                                                                         *)
(* Time is a clock of ticks; AgeUnit ticks are the sixty minutes after     *)
(* which CalculatePriorityScore stops adding age.  A score is kept in      *)
(* units of 1/AgeUnit, so that it is an integer.                           *)
(***************************************************************************)
EXTENDS Integers, SequencesExt

CONSTANTS Tasks,         \* task instances (InstanceID)
          Producers,     \* goroutines that call CreateTask
          Workers,       \* goroutines of workerLoop
          NoTask,        \* the nil *models.TaskInstance
          AnyType,       \* the empty agent type, which matches every task
          Types,         \* agent types
          Priority,      \* Priority[t]: the base priority, 0 (low) .. 3 (critical)
          AgentType,     \* AgentType[t]: the agent type task t asks for
          MaxQueueSize,  \* Global.MaxQueueSize, PriorityQueue.maxSize
          EnqueueCap,    \* capacity of enqueueCh (100 in the code)
          DequeueCap,    \* capacity of dequeueCh (100 in the code)
          AgeUnit,       \* ticks in sixty minutes
          MaxClock       \* bound on the clock

Clients == Producers \cup Workers

ASSUME TaskQueueAssumption ==
    /\ IsFiniteSet(Tasks)
    /\ NoTask \notin Tasks
    /\ Producers \cap Workers = {}
    /\ Priority \in [Tasks -> 0..3]
    /\ AgentType \in [Tasks -> Types]
    /\ MaxQueueSize \in Nat
    /\ EnqueueCap \in Nat \ {0}
    /\ DequeueCap \in Nat \ {0}
    /\ AgeUnit \in Nat \ {0}
    /\ MaxClock \in Nat

VARIABLES clock,      \* the current time, in ticks
          fate,       \* fate[t]: not created, live, or how it left the queue
          createdAt,  \* createdAt[t]: TaskInstance.CreatedAt
          score,      \* score[t]: TaskInstance.PriorityScore
          hand,       \* hand[c]: the task goroutine c holds, or NoTask
          enqueueCh,  \* the channel of tasks to insert
          dequeueCh,  \* the channel of requests [from, type]
          resultCh,   \* resultCh[w]: the one-place ResultCh of w's request
          waiting,    \* workers blocked on their ResultCh
          items       \* PriorityQueue.items

taskVars == <<fate, createdAt>>
chanVars == <<enqueueCh, dequeueCh, resultCh>>
vars == <<clock, fate, createdAt, score, hand, enqueueCh, dequeueCh, resultCh,
          waiting, items>>

Requests == [from : Workers, type : Types \cup {AnyType}]
Fates == {"none", "live", "finished", "dropped", "removed"}
MaxScore == 4 * AgeUnit

Init == /\ clock = 0
        /\ fate = [t \in Tasks |-> "none"]
        /\ createdAt = [t \in Tasks |-> 0]
        /\ score = [t \in Tasks |-> 0]
        /\ hand = [c \in Clients |-> NoTask]
        /\ enqueueCh = <<>>
        /\ dequeueCh = <<>>
        /\ resultCh = [w \in Workers |-> <<>>]
        /\ waiting = {}
        /\ items = <<>>

------------------------------------------------------------------------------
(* The priority queue.                                                      *)

\* The boost without its cap, and with its operands swapped.
AgeBoostUncapped(t) == clock - createdAt[t]
AgeBoostNegative(t) == createdAt[t] - clock

\* min(ageMinutes/60, 1), in units of 1/AgeUnit.
AgeBoost(t) == LET age == clock - createdAt[t]
               IN  IF age < AgeUnit THEN age ELSE AgeUnit

\* The score a task gets when it is inserted (sessionBoost is always 0).
CalculatePriorityScore(t) == AgeUnit * Priority[t] + AgeBoost(t)

\* The less function sortDesc hands to sort.Slice.
Before(sc, x, y) == \/ sc[x] > sc[y]
                    \/ sc[x] = sc[y] /\ createdAt[x] < createdAt[y]

InOrder(sc, q) == \A i, j \in DOMAIN q : i < j => ~Before(sc, q[j], q[i])

Arrangements(q) ==
    {[i \in DOMAIN q |-> q[p[i]]] : p \in Bijection(DOMAIN q, DOMAIN q)}

\* What sortDesc may leave behind: sort.Slice is not stable, so every
\* arrangement in order is a possible outcome.
SortDesc(sc, q) == {r \in Arrangements(q) : InOrder(sc, r)}

\* The index Dequeue takes: the first task of the requested type, or, when
\* there is none, the head of the queue whatever its type.
DequeueIndex(i, ty) ==
    LET match == {j \in DOMAIN items : ty = AnyType \/ AgentType[items[j]] = ty}
    IN  /\ i \in DOMAIN items
        /\ IF match = {} THEN i = 1 ELSE i \in match /\ \A j \in match : i <= j

------------------------------------------------------------------------------
(* The clients.                                                             *)

\* CreateTask up to queue.Enqueue: the instance gets its creation time and
\* its row, and the producer holds it.
CreateTask(p, t) ==
    /\ fate[t] = "none"
    /\ hand[p] = NoTask
    /\ fate' = [fate EXCEPT ![t] = "live"]
    /\ createdAt' = [createdAt EXCEPT ![t] = clock]
    /\ hand' = [hand EXCEPT ![p] = t]
    /\ UNCHANGED <<clock, score, chanVars, waiting, items>>

\* A send that keeps its reference: the task is in flight twice.
EnqueueKeepsTask(c) ==
    /\ hand[c] # NoTask
    /\ Len(enqueueCh) < EnqueueCap
    /\ enqueueCh' = Append(enqueueCh, hand[c])
    /\ UNCHANGED <<clock, taskVars, score, hand, dequeueCh, resultCh, waiting, items>>

\* GlobalTaskQueue.Enqueue, from CreateTask or from a worker that could not
\* spawn an agent; the send blocks while the channel is full.
Enqueue(c) ==
    /\ hand[c] # NoTask
    /\ Len(enqueueCh) < EnqueueCap
    /\ enqueueCh' = Append(enqueueCh, hand[c])
    /\ hand' = [hand EXCEPT ![c] = NoTask]
    /\ UNCHANGED <<clock, taskVars, score, dequeueCh, resultCh, waiting, items>>

\* A worker that asks again before its first request was answered.
DequeueAgain(w, ty) ==
    /\ hand[w] = NoTask
    /\ Len(dequeueCh) < DequeueCap
    /\ dequeueCh' = Append(dequeueCh, [from |-> w, type |-> ty])
    /\ waiting' = waiting \cup {w}
    /\ UNCHANGED <<clock, taskVars, score, hand, enqueueCh, resultCh, items>>

\* GlobalTaskQueue.Dequeue up to its receive: the request is sent.
Dequeue(w, ty) ==
    /\ w \notin waiting
    /\ hand[w] = NoTask
    /\ Len(dequeueCh) < DequeueCap
    /\ dequeueCh' = Append(dequeueCh, [from |-> w, type |-> ty])
    /\ waiting' = waiting \cup {w}
    /\ UNCHANGED <<clock, taskVars, score, hand, enqueueCh, resultCh, items>>

\* The receive that ends Dequeue: a task, or nil when the queue was empty.
Receive(w) ==
    /\ w \in waiting
    /\ resultCh[w] # <<>>
    /\ hand' = [hand EXCEPT ![w] = Head(resultCh[w])]
    /\ resultCh' = [resultCh EXCEPT ![w] = Tail(@)]
    /\ waiting' = waiting \ {w}
    /\ UNCHANGED <<clock, taskVars, score, enqueueCh, dequeueCh, items>>

\* The worker is done with the task it dequeued (executeTask returned).
Finish(w) ==
    /\ hand[w] # NoTask
    /\ fate' = [fate EXCEPT ![hand[w]] = "finished"]
    /\ hand' = [hand EXCEPT ![w] = NoTask]
    /\ UNCHANGED <<clock, createdAt, score, chanVars, waiting, items>>

\* GlobalTaskQueue.Remove takes the lock of the priority queue itself and
\* does not go through processLoop; a task that is not in items is left alone.
RemoveTask(t) ==
    \E i \in DOMAIN items :
        /\ items[i] = t
        /\ \A j \in DOMAIN items : items[j] = t => i <= j
        /\ items' = RemoveAt(items, i)
        /\ fate' = [fate EXCEPT ![t] = "removed"]
        /\ UNCHANGED <<clock, createdAt, score, hand, chanVars, waiting>>

------------------------------------------------------------------------------
(* processLoop: one case of its select is one step.                         *)

\* An insertion without the trailing sort.
EnqueueUnsorted ==
    /\ enqueueCh # <<>>
    /\ LET t == Head(enqueueCh)
       IN  /\ Len(items) < MaxQueueSize
           /\ score' = [score EXCEPT ![t] = CalculatePriorityScore(t)]
           /\ items' = Append(items, t)
    /\ enqueueCh' = Tail(enqueueCh)
    /\ UNCHANGED <<clock, taskVars, hand, dequeueCh, resultCh, waiting>>

\* A full queue tested with a limit one too low.
EnqueueOffByOne ==
    /\ enqueueCh # <<>>
    /\ LET t == Head(enqueueCh)
       IN  \/ /\ Len(items) + 1 < MaxQueueSize
              /\ score' = [score EXCEPT ![t] = CalculatePriorityScore(t)]
              /\ items' \in SortDesc(score', Append(items, t))
              /\ UNCHANGED fate
           \/ /\ Len(items) + 1 >= MaxQueueSize
              /\ fate' = [fate EXCEPT ![t] = "dropped"]
              /\ UNCHANGED <<score, items>>
    /\ enqueueCh' = Tail(enqueueCh)
    /\ UNCHANGED <<clock, createdAt, hand, dequeueCh, resultCh, waiting>>

\* case task := <-enqueueCh: the task is scored and sorted in, or, when the
\* queue is full, only an error is logged and nobody holds the task any more.
ProcessEnqueue ==
    /\ enqueueCh # <<>>
    /\ LET t == Head(enqueueCh)
       IN  \/ /\ Len(items) < MaxQueueSize
              /\ score' = [score EXCEPT ![t] = CalculatePriorityScore(t)]
              /\ items' \in SortDesc(score', Append(items, t))
              /\ UNCHANGED fate
           \/ /\ Len(items) >= MaxQueueSize
              /\ fate' = [fate EXCEPT ![t] = "dropped"]
              /\ UNCHANGED <<score, items>>
    /\ enqueueCh' = Tail(enqueueCh)
    /\ UNCHANGED <<clock, createdAt, hand, dequeueCh, resultCh, waiting>>

\* An empty queue that is not answered: the request is put back to wait.
DequeueWaits ==
    /\ dequeueCh # <<>>
    /\ LET r == Head(dequeueCh)
       IN  \E i \in DOMAIN items :
              /\ DequeueIndex(i, r.type)
              /\ resultCh' = [resultCh EXCEPT ![r.from] = Append(@, items[i])]
              /\ items' = RemoveAt(items, i)
    /\ UNCHANGED <<clock, taskVars, score, hand, enqueueCh, dequeueCh, waiting>>

\* A request that no task of its type is there for is answered with nil.
ProcessDequeueOfType ==
    /\ dequeueCh # <<>>
    /\ LET r == Head(dequeueCh)
           match == {i \in DOMAIN items : r.type = AnyType \/ AgentType[items[i]] = r.type}
       IN  \/ \E i \in match :
                 /\ \A j \in match : i <= j
                 /\ resultCh' = [resultCh EXCEPT ![r.from] = Append(@, items[i])]
                 /\ items' = RemoveAt(items, i)
           \/ /\ match = {}
              /\ resultCh' = [resultCh EXCEPT ![r.from] = Append(@, NoTask)]
              /\ UNCHANGED items
    /\ dequeueCh' = Tail(dequeueCh)
    /\ UNCHANGED <<clock, taskVars, score, hand, enqueueCh, waiting>>

\* case req := <-dequeueCh: the answer, possibly nil, goes to the request's
\* own buffered channel, so the loop never blocks on it.
ProcessDequeue ==
    /\ dequeueCh # <<>>
    /\ LET r == Head(dequeueCh)
       IN  \/ \E i \in DOMAIN items :
                 /\ DequeueIndex(i, r.type)
                 /\ resultCh' = [resultCh EXCEPT ![r.from] = Append(@, items[i])]
                 /\ items' = RemoveAt(items, i)
           \/ /\ items = <<>>
              /\ resultCh' = [resultCh EXCEPT ![r.from] = Append(@, NoTask)]
              /\ UNCHANGED items
    /\ dequeueCh' = Tail(dequeueCh)
    /\ UNCHANGED <<clock, taskVars, score, hand, enqueueCh, waiting>>

\* Time passes.  rebalancePriorities, which the loop calls once a second when
\* it is idle, takes and releases a lock: scores are left as they are.
Rebalance ==
    /\ clock < MaxClock
    /\ clock' = clock + 1
    /\ UNCHANGED <<taskVars, score, hand, chanVars, waiting, items>>

Next == \/ \E p \in Producers, t \in Tasks : CreateTask(p, t)
        \/ \E c \in Clients : Enqueue(c)
        \/ \E w \in Workers, ty \in Types \cup {AnyType} : Dequeue(w, ty)
        \/ \E w \in Workers : Receive(w)
        \/ \E w \in Workers : Finish(w)
        \/ \E t \in Tasks : RemoveTask(t)
        \/ ProcessEnqueue
        \/ ProcessDequeue
        \/ Rebalance

Spec == Init /\ [][Next]_vars

------------------------------------------------------------------------------
(* Properties.                                                              *)

\* Every variable has its type.
TypeOK == /\ clock \in Nat
          /\ fate \in [Tasks -> Fates]
          /\ createdAt \in [Tasks -> 0..clock]
          /\ score \in [Tasks -> Nat]
          /\ hand \in [Clients -> Tasks \cup {NoTask}]
          /\ enqueueCh \in Seq(Tasks)
          /\ dequeueCh \in Seq(Requests)
          /\ resultCh \in [Workers -> Seq(Tasks \cup {NoTask})]
          /\ waiting \in SUBSET Workers
          /\ items \in Seq(Tasks)

\* The places a task can be at: a goroutine's hand, enqueueCh, items, or the
\* result channel of a request.
Has(s, t) == \E i \in DOMAIN s : s[i] = t
InHand(t) == \E c \in Clients : hand[c] = t
InResult(t) == \E w \in Workers : Has(resultCh[w], t)
Placed(t) == InHand(t) \/ Has(enqueueCh, t) \/ Has(items, t) \/ InResult(t)

OneHandEach(h) == \A c, d \in Clients : h[c] = h[d] /\ h[c] # NoTask => c = d

\* No place holds a task twice, and no two places hold the same task.
NoTaskTwice ==
    /\ OneHandEach(hand)
    /\ IsInjective(enqueueCh)
    /\ IsInjective(items)
    /\ \A v, w \in Workers : \A t \in Tasks :
          Has(resultCh[v], t) /\ Has(resultCh[w], t) => v = w
    /\ \A t \in Tasks :
          /\ InHand(t) => ~Has(enqueueCh, t) /\ ~Has(items, t) /\ ~InResult(t)
          /\ Has(enqueueCh, t) => ~Has(items, t) /\ ~InResult(t)
          /\ Has(items, t) => ~InResult(t)

\* A task that is neither finished, dropped, removed nor still to be created
\* is somewhere, and the others are nowhere.
LiveTaskSomewhere ==
    \A t \in Tasks : fate[t] = "live" <=> Placed(t)

\* The queue hands a task over exactly once: whatever the interleaving of
\* producers, workers, Remove and the loop, a live task is in exactly one place.
ExactlyOnePlace == NoTaskTwice /\ LiveTaskSomewhere

\* The reply of processLoop never blocks it: a pending request comes from a
\* worker that still waits and whose one-place result channel is empty, and a
\* worker that waits holds nothing a reply could overwrite.
ReplyNeverBlocks ==
    /\ \A i, j \in DOMAIN dequeueCh : dequeueCh[i].from = dequeueCh[j].from => i = j
    /\ \A i \in DOMAIN dequeueCh : /\ dequeueCh[i].from \in waiting
                                   /\ resultCh[dequeueCh[i].from] = <<>>
    /\ \A w \in Workers : resultCh[w] = <<>> \/ (w \in waiting /\ Len(resultCh[w]) = 1)
    /\ \A w \in waiting : hand[w] = NoTask

\* items is in the order of sortDesc in every state, although scores are
\* written when a task comes back and tasks are taken from the middle.
QueueInOrder == InOrder(score, items)

\* The age boost lifts a task over at most one class: nothing is ever served
\* before a task whose base priority is two classes higher.
ClassInversionBounded ==
    \A i, j \in DOMAIN items : i < j => Priority[items[i]] + 1 >= Priority[items[j]]

\* A task on its way into the queue gets there or is dropped by it, and one in
\* the queue is given to a worker, unless Remove takes it: tasks that overtake
\* it, because they are more urgent, of the type that is asked for, or put back
\* time and again, do not starve it.
WaitingTaskIsServed ==
    \A t \in Tasks : /\ Has(enqueueCh, t) ~> Has(items, t) \/ fate[t] = "dropped"
                     /\ Has(items, t) ~> InHand(t) \/ fate[t] = "removed"

\* Every Dequeue returns, with a task or with nil: the loop is never stuck.
DequeueReturns == \A w \in Workers : w \in waiting ~> w \notin waiting

------------------------------------------------------------------------------
(* Refinement: the queue implements TaskLedger.                             *)

CONSTANT NoClient  \* the owner of a task nobody holds
ASSUME NoClientAssumption == NoClient \notin Clients

Holder(h, t) == IF \E c \in Clients : h[c] = t
                THEN CHOOSE c \in Clients : h[c] = t
                ELSE NoClient

ledgerStatus == [t \in Tasks |-> IF fate[t] # "live" THEN fate[t]
                                 ELSE IF InHand(t) THEN "held" ELSE "queued"]
ledgerOwner == [t \in Tasks |-> Holder(hand, t)]

Ledger == INSTANCE TaskLedger WITH status <- ledgerStatus, owner <- ledgerOwner

\* The queue implements TaskLedger: tasks change hands one at a time, and a
\* task is dropped only while more than MaxQueueSize tasks wait.
ImplementsLedger == Ledger!Spec
=============================================================================
