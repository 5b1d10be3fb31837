------------------------------ MODULE MCServices ------------------------------
(* Small instances of what the goroutines of the process share and wait for:  *)
(* the task queue, the container manager and the tool loader.  They have no   *)
(* state in common; a behaviour runs the one that focus names, so that their  *)
(* states add up and do not multiply.                                         *)
EXTENDS MCTaskQueue, ContainerManager, ToolLoader

CONSTANTS a1, a2, b, nameA, nameB

VARIABLE focus

allVars == <<vars, containerVars, loaderVars, focus>>

\* Two tools of one name, and another one.
MCNameOf == [t \in Tools |-> IF t = b THEN nameB ELSE nameA]

\* A directory that cannot be read: the loader has nothing to do.
LoaderAsleep == dir = "unreadable" /\ file = [f \in Files |-> NoTool]

ServicesInit ==
    /\ focus \in {"queue", "containers", "tools"}
    /\ Init
    /\ ContainerInit
    /\ LoaderInit
    /\ focus # "tools" => LoaderAsleep

ServicesNext ==
    /\ \/ focus = "queue" /\ Next /\ UNCHANGED <<containerVars, loaderVars>>
       \/ focus = "containers" /\ ContainerNext /\ UNCHANGED <<vars, loaderVars>>
       \/ focus = "tools" /\ LoaderNext /\ UNCHANGED <<vars, containerVars>>
    /\ UNCHANGED focus

\* processLoop takes every case that stays ready (select chooses at random
\* among the ready ones), and a worker goes on when it can.  Strong fairness
\* of Finish: spawning an agent does not fail for ever.
Queue(A) == focus = "queue" /\ A
QueueFairness ==
    /\ WF_vars(Queue(ProcessEnqueue))
    /\ WF_vars(Queue(ProcessDequeue))
    /\ \A w \in Workers : /\ WF_vars(Queue(\/ \E ty \in Types \cup {AnyType} : Dequeue(w, ty)
                                            \/ Receive(w)))
                          /\ SF_vars(Queue(Finish(w)))

\* The fairness of the other two asks nothing of a component that sleeps.
ServicesSpec == /\ ServicesInit /\ [][ServicesNext]_allVars
                /\ QueueFairness /\ ContainerFairness /\ LoaderFairness
=============================================================================
