--------------------------- MODULE MCTaskManager ---------------------------
(***************************************************************************)
(* TLC instances of TaskManager: the tasks are model values.               *)
(***************************************************************************)
EXTENDS TaskManagerProperties, TLC

\* Task ids are interchangeable: no action or invariant tells them apart.
TaskSymmetry == Permutations(Task)
=============================================================================
