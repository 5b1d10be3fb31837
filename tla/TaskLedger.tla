----------------------------- MODULE TaskLedger -----------------------------
(***************************************************************************)
(* What the global task queue promises its callers, without saying how: a  *)
(* task instance is held by one goroutine, or it waits in the queue, or it *)
(* is settled.  Handing a task over moves it, so it is never executed by   *)
(* two workers, and a task is lost only when more tasks wait than the      *)
(* queue was configured to keep.                                           *)
(* TaskQueue (internal/services/task/task_queue.go) implements this.       *)
(***************************************************************************)
EXTENDS Integers, FiniteSets

CONSTANTS Tasks,         \* task instances
          Producers,     \* goroutines that create tasks
          Workers,       \* goroutines of workerLoop
          NoClient,      \* the owner of a task nobody holds
          MaxQueueSize   \* Global.MaxQueueSize

VARIABLES status,  \* status[t]: where task t is in its life
          owner    \* owner[t]: the goroutine that holds t

ledgerVars == <<status, owner>>

Statuses == {"none", "held", "queued", "finished", "dropped", "removed"}

Queued == {t \in Tasks : status[t] = "queued"}

EmptyHanded(c) == \A t \in Tasks : owner[t] # c

Init == /\ status = [t \in Tasks |-> "none"]
        /\ owner = [t \in Tasks |-> NoClient]

Move(t, s, c) == /\ status' = [status EXCEPT ![t] = s]
                 /\ owner' = [owner EXCEPT ![t] = c]

Create(p, t) == /\ status[t] = "none"
                /\ EmptyHanded(p)
                /\ Move(t, "held", p)

Submit(c, t) == /\ status[t] = "held"
                /\ owner[t] = c
                /\ Move(t, "queued", NoClient)

Take(w, t) == /\ status[t] = "queued"
              /\ EmptyHanded(w)
              /\ Move(t, "held", w)

Finish(w, t) == /\ status[t] = "held"
                /\ owner[t] = w
                /\ Move(t, "finished", NoClient)

\* The only way to lose a task: more tasks wait than the queue may keep.
Drop(t) == /\ status[t] = "queued"
           /\ Cardinality(Queued) > MaxQueueSize
           /\ Move(t, "dropped", NoClient)

Remove(t) == /\ status[t] = "queued"
             /\ Move(t, "removed", NoClient)

Next == \E t \in Tasks : \/ \E p \in Producers : Create(p, t)
                         \/ \E c \in Producers \cup Workers : Submit(c, t)
                         \/ \E w \in Workers : Take(w, t) \/ Finish(w, t)
                         \/ Drop(t)
                         \/ Remove(t)

Spec == Init /\ [][Next]_ledgerVars
=============================================================================
