--------------------------- MODULE MCTaskExecutor ---------------------------
(***************************************************************************)
(* Small instances of TaskExecutor: four tasks over up to three workers,  *)
(* so that a worker can take two tasks, start late, or not start at all.   *)
(***************************************************************************)
EXTENDS TaskExecutor

(* A fresh executor, and one whose earlier call left its cursor overshot. *)
MCLeftoverCursors == {0, 5}

=============================================================================
