------------------------------ MODULE ForEach ------------------------------
(***************************************************************************)
(* What ITaskExecutor::forEach promises its caller, whoever schedules the  *)
(* work: the body is called once for each index, and the call returns only *)
(* after every one of those invocations has completed                      *)
(* (Simulator/include/Simulator/TaskExecutor.h, the ITaskExecutor notes).  *)
(***************************************************************************)
EXTENDS Naturals

CONSTANT Tasks      \* the indices of one call, 0 .. count - 1

VARIABLES
  status,           \* what has become of the body's invocation for an index
  returned          \* whether forEach has returned to its caller

vars == <<status, returned>>

Init ==
  /\ status = [i \in Tasks |-> "waiting"]
  /\ returned = FALSE

(* The body is entered for index i, on whatever thread, in whatever order. *)
Invoke(i) ==
  /\ ~returned
  /\ status[i] = "waiting"
  /\ status' = [status EXCEPT ![i] = "running"]
  /\ UNCHANGED returned

(* The body returns. *)
Complete(i) ==
  /\ status[i] = "running"
  /\ status' = [status EXCEPT ![i] = "done"]
  /\ UNCHANGED returned

Return ==
  /\ ~returned
  /\ \A i \in Tasks : status[i] = "done"
  /\ returned' = TRUE
  /\ UNCHANGED status

Next ==
  \/ \E i \in Tasks : Invoke(i) \/ Complete(i)
  \/ Return

Safe == Init /\ [][Next]_vars

Spec == Safe /\ WF_vars(Next)

=============================================================================
