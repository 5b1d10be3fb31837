----------------------------- MODULE MCTaskQueue -----------------------------
(* Small instances of TaskQueue: a low and a high priority task and a third *)
(* one, two agent types.                                                     *)
EXTENDS TaskQueue

CONSTANTS t1, t2, typeA, typeB

MCPriority == [t \in Tasks |-> IF t = t2 THEN 2 ELSE 0]
MCAgentType == [t \in Tasks |-> IF t = t1 THEN typeA ELSE typeB]
=============================================================================
