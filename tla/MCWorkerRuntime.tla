--------------------------- MODULE MCWorkerRuntime ---------------------------
(* Small instances of WorkerRuntime.  Subtasks, and workers, are alike.        *)
EXTENDS WorkerRuntime

Symmetric == Permutations(Tasks \ Roots) \cup Permutations(Workers)
=============================================================================
