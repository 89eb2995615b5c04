---------------------------- MODULE MCTaskRuntime ----------------------------
(* TaskRuntime on small instances: README.md says what each .cfg chooses.   *)
EXTENDS TaskRuntime, TLC

(* No definition of TaskRuntime chooses between two tasks by anything but   *)
(* their state, so tasks may be permuted.                                   *)
TaskSymmetry == Permutations(Tasks)
=============================================================================
