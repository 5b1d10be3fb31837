--------------------------- MODULE ContainerLedger ---------------------------
(***************************************************************************)
(* What the executions of tasks may expect of their containers, whoever    *)
(* keeps them: a container is lent to one execution, it is taken back only *)
(* after the execution has given it up, and only the end of the process    *)
(* takes it away from an execution that has not.                           *)
(***************************************************************************)
CONSTANT Executions

VARIABLE lease   \* lease[e]: does execution e have a container?

Leases == {"none", "held", "releasing"}

Init == lease = [e \in Executions |-> "none"]

Acquire(e) == lease[e] = "none" /\ lease' = [lease EXCEPT ![e] = "held"]

GiveUp(e) == lease[e] = "held" /\ lease' = [lease EXCEPT ![e] = "releasing"]

Release(e) == lease[e] = "releasing" /\ lease' = [lease EXCEPT ![e] = "none"]

\* The process ends, and with it whatever it knew of containers.
Forget == lease' = [e \in Executions |-> "none"]

Lend == \E e \in Executions : Acquire(e) \/ GiveUp(e) \/ Release(e)

Next == Forget \/ Lend

Spec == Init /\ [][Next]_lease

\* As long as the process lives.
LendingSpec == Init /\ [][Lend]_lease
=============================================================================
