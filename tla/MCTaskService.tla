---------------------------- MODULE MCTaskService ----------------------------
(* Small instances of TaskService.  The tasks but the root are alike.         *)
EXTENDS TaskService, TLC

Symmetric == Permutations(Tasks \ {Root})
=============================================================================
