------------------------- MODULE TaskExecutorProofs -------------------------
(***************************************************************************)
(* For every number of requested threads and of tasks: the pool's type     *)
(* correctness, its safety invariants, and that every step of it is a step *)
(* of ForEach.                                                             *)
(***************************************************************************)
EXTENDS TaskExecutor, TLAPS

(* How many workers the rule allows, and which threads there are. *)
LEMMA WorkerCountType ==
  /\ WorkerCount \in Nat
  /\ Main \in Threads /\ Main \notin Workers
  /\ Workers \subseteq Threads
  /\ \A t \in Threads : t = Main \/ t \in Workers
BY ExecutorAssumption
   DEF WorkerCount, WorkerCountFor, Main, Threads, Workers

LEMMA InitIInv == Init => IInv
BY ExecutorAssumption, WorkerCountType
   DEF Init, IInv, TypeOK, BorderInv, HeldInv, PhaseInv, HandedOut, Returned,
       Main, Threads, Workers, Tasks

LEMMA NextIInv == IInv /\ [Next]_vars => IInv'
<1> SUFFICES ASSUME IInv, [Next]_vars
             PROVE  IInv'
  OBVIOUS
<1> USE ExecutorAssumption, WorkerCountType DEF IInv, Main
<1>1. CASE Begin
  BY <1>1 DEF Begin, TypeOK, BorderInv, HeldInv, PhaseInv, HandedOut, Returned,
              Threads, Workers, Tasks
<1>2. CASE SpawnWorker
  <2>. DEFINE next == spawned + 1
  <2>1. next \in Workers /\ next \in Threads /\ next # Main
    BY <1>2 DEF SpawnWorker, TypeOK, Workers, Threads
  <2>2. /\ pc' \in [Threads -> {"unborn", "begin", "spawn", "join", "claim", "body", "finished"}]
        /\ pc'[next] = "claim"
        /\ pc'[Main] = IF next = WorkerCount THEN "join" ELSE "spawn"
        /\ \A t \in Threads : t # next /\ t # Main => pc'[t] = pc[t]
        /\ UNCHANGED <<cursor, index, joined, invoked, completed>>
        /\ spawned' = next /\ spawned < WorkerCount
        /\ pc[Main] = "spawn"
    BY <1>2, <2>1 DEF SpawnWorker, TypeOK
  <2>3. pc[next] = "unborn"
    BY <2>1, <2>2 DEF PhaseInv, TypeOK
  <2>. HIDE DEF next
  <2>4. \A t \in Threads : pc'[t] = "body" <=> pc[t] = "body"
    BY <2>1, <2>2, <2>3
  <2>5. TypeOK'
    <3>1. spawned' \in 0 .. WorkerCount /\ joined' \in 0 .. spawned'
      BY <2>2 DEF TypeOK, next
    <3>2. QED
      BY <2>2, <2>4, <3>1 DEF TypeOK
  <2>6. BorderInv'
    BY <2>2 DEF BorderInv, HandedOut
  <2>7. HeldInv'
    BY <2>2, <2>4 DEF HeldInv
  <2>8. PhaseInv'
    <3>1. \A v \in Workers : pc'[v] = "unborn" <=> v > next
      BY <2>1, <2>2 DEF PhaseInv, TypeOK, Workers, next
    <3>2. QED
      BY <2>1, <2>2, <3>1 DEF PhaseInv, TypeOK, Workers, Returned, next
  <2>9. QED
    BY <2>5, <2>6, <2>7, <2>8
<1>3. CASE SpawnFails
  <2>1. /\ pc[Main] = "spawn" /\ pc' = [pc EXCEPT ![Main] = "join"]
        /\ UNCHANGED <<cursor, index, spawned, joined, invoked, completed>>
        /\ Main \in Threads /\ Main \notin Workers
    BY <1>3 DEF SpawnFails, Threads, Workers
  <2>2. TypeOK'
    BY <2>1 DEF TypeOK
  <2>3. /\ pc'[Main] = "join"
        /\ \A t \in Threads : t # Main => pc'[t] = pc[t]
        /\ \A t \in Threads : pc'[t] = "body" <=> pc[t] = "body"
    BY <2>1 DEF TypeOK
  <2>4. BorderInv'
    BY <2>1, <2>3 DEF BorderInv, HandedOut
  <2>5. HeldInv'
    BY <2>1, <2>3 DEF HeldInv
  <2>6. PhaseInv'
    BY <2>1, <2>3 DEF PhaseInv, Returned, Threads
  <2>7. QED
    BY <2>2, <2>4, <2>5, <2>6
<1>4. CASE JoinWorker
  BY <1>4 DEF JoinWorker, TypeOK, BorderInv, HeldInv, PhaseInv, HandedOut, Returned,
              Threads, Workers, Tasks
<1>5. CASE JoinedAll
  BY <1>5 DEF JoinedAll, TypeOK, BorderInv, HeldInv, PhaseInv, HandedOut, Returned,
              Threads, Workers, Tasks
<1>6. ASSUME NEW t \in Threads, Claim(t)
      PROVE  IInv'
  <2>1. /\ pc[t] = "claim"
        /\ index' = [index EXCEPT ![t] = cursor]
        /\ cursor' = cursor + 1
        /\ UNCHANGED <<spawned, joined, completed>>
    BY <1>6 DEF Claim
  <2>2. pc[Main] # "begin" /\ pc'[Main] # "begin"
    BY <1>6 DEF Claim, PhaseInv, TypeOK, Workers, Threads
  <2>3. CASE cursor < TaskCount
    <3>1. /\ cursor \in Tasks
          /\ pc' = [pc EXCEPT ![t] = "body"]
          /\ invoked' = [invoked EXCEPT ![cursor] = @ + 1]
      BY <1>6, <2>3 DEF Claim, TypeOK, Tasks
    <3>2. invoked[cursor] = 0 /\ completed[cursor] = 0 /\ invoked'[cursor] = 1
      BY <3>1 DEF TypeOK, BorderInv, HandedOut, HeldInv, Tasks
    <3>3. \A u \in Threads : pc[u] = "body" => index[u] # cursor
      BY <3>2 DEF HeldInv
    <3>4. TypeOK'
      <4>1. /\ pc' \in [Threads -> {"unborn", "begin", "spawn", "join", "claim", "body", "finished"}]
            /\ UNCHANGED <<spawned, joined, completed>>
        BY <2>1, <3>1 DEF TypeOK
      <4>2. invoked' \in [Tasks -> Nat] /\ cursor' \in Nat
        BY <2>1, <3>1, <3>2 DEF TypeOK
      <4>3. index' \in [Threads -> Nat]
        BY <2>1 DEF TypeOK
      <4>4. \A u \in Threads : pc'[u] = "body" => index'[u] \in Tasks
        BY <2>1, <3>1 DEF TypeOK
      <4>5. QED
        BY <4>1, <4>2, <4>3, <4>4 DEF TypeOK
    <3>5. BorderInv'
      BY <2>1, <2>2, <3>1, <3>2 DEF TypeOK, BorderInv, HandedOut, Tasks
    <3>6. HeldInv'
      <4>1. ASSUME NEW u \in Threads, pc'[u] = "body"
            PROVE  /\ invoked'[index'[u]] = 1
                   /\ completed'[index'[u]] = 0
        BY <2>1, <3>1, <3>2, <3>3, <4>1 DEF TypeOK, HeldInv
      <4>2. ASSUME NEW u \in Threads, NEW v \in Threads,
                   pc'[u] = "body", pc'[v] = "body", index'[u] = index'[v]
            PROVE  u = v
        BY <2>1, <3>1, <3>3, <4>2 DEF TypeOK, HeldInv
      <4>3. ASSUME NEW i \in Tasks
            PROVE  /\ completed'[i] <= invoked'[i]
                   /\ completed'[i] < invoked'[i] =>
                        \E u \in Threads : pc'[u] = "body" /\ index'[u] = i
        BY <2>1, <3>1, <3>2 DEF TypeOK, HeldInv
      <4>4. QED
        BY <4>1, <4>2, <4>3 DEF HeldInv
    <3>7. PhaseInv'
      BY <2>1, <3>1 DEF TypeOK, PhaseInv, Returned, Workers, Threads
    <3>8. QED
      BY <3>4, <3>5, <3>6, <3>7
  <2>4. CASE ~(cursor < TaskCount)
    <3>1. pc' = [pc EXCEPT ![t] = "finished"] /\ invoked' = invoked
      BY <1>6, <2>4 DEF Claim
    <3>2. TypeOK'
      BY <2>1, <3>1 DEF TypeOK
    <3>3. BorderInv'
      BY <2>1, <2>2, <2>4, <3>1 DEF TypeOK, BorderInv, HandedOut, Tasks
    <3>4. HeldInv'
      BY <2>1, <3>1 DEF TypeOK, HeldInv
    <3>5. PhaseInv'
      BY <2>1, <2>4, <3>1 DEF TypeOK, PhaseInv, Returned, Workers, Threads
    <3>6. QED
      BY <3>2, <3>3, <3>4, <3>5
  <2>5. QED
    BY <2>3, <2>4
<1>7. ASSUME NEW t \in Threads, FinishBody(t)
      PROVE  IInv'
  <2>1. /\ pc[t] = "body" /\ index[t] \in Tasks
        /\ completed' = [completed EXCEPT ![index[t]] = @ + 1]
        /\ pc' = [pc EXCEPT ![t] = "claim"]
        /\ UNCHANGED <<cursor, index, spawned, joined, invoked>>
    BY <1>7 DEF FinishBody, TypeOK
  <2>2. /\ invoked[index[t]] = 1 /\ completed[index[t]] = 0
        /\ completed'[index[t]] = 1
        /\ \A u \in Threads : u # t /\ pc[u] = "body" => index[u] # index[t]
    BY <2>1 DEF HeldInv, TypeOK
  <2>3. TypeOK'
    BY <2>1 DEF TypeOK
  <2>4. BorderInv'
    BY <2>1 DEF TypeOK, BorderInv, HandedOut
  <2>5. HeldInv'
    <3>1. ASSUME NEW u \in Threads, pc'[u] = "body"
          PROVE  invoked'[index'[u]] = 1 /\ completed'[index'[u]] = 0
      BY <2>1, <2>2, <3>1 DEF TypeOK, HeldInv
    <3>2. ASSUME NEW u \in Threads, NEW v \in Threads,
                 pc'[u] = "body", pc'[v] = "body", index'[u] = index'[v]
          PROVE  u = v
      BY <2>1, <3>2 DEF TypeOK, HeldInv
    <3>3. ASSUME NEW i \in Tasks
          PROVE  /\ completed'[i] <= invoked'[i]
                 /\ completed'[i] < invoked'[i] =>
                      \E u \in Threads : pc'[u] = "body" /\ index'[u] = i
      BY <2>1, <2>2 DEF TypeOK, HeldInv
    <3>4. QED
      BY <3>1, <3>2, <3>3 DEF HeldInv
  <2>6. PhaseInv'
    BY <2>1 DEF TypeOK, PhaseInv, Returned, Workers, Threads
  <2>7. QED
    BY <2>3, <2>4, <2>5, <2>6
<1>8. CASE UNCHANGED vars
  BY <1>8 DEF vars, TypeOK, BorderInv, HeldInv, PhaseInv, HandedOut, Returned
<1>9. QED
  BY <1>1, <1>2, <1>3, <1>4, <1>5, <1>6, <1>7, <1>8 DEF Next, Terminated

(* The invariant of every reachable state. *)
THEOREM ExecutorInvariant == Spec => []IInv
BY InitIInv, NextIInv, PTL DEF Spec

(* Every variable keeps its type; an index in the body is one of the tasks. *)
THEOREM ExecutorTypeCorrect == Spec => []TypeOK
BY ExecutorInvariant, PTL DEF IInv

(* No index is handed out twice, for any number of workers and tasks and    *)
(* wherever the spawning loop was cut short (drain's fetch_add).            *)
THEOREM NoIndexRunsTwiceHolds == Spec => []NoIndexRunsTwice
<1>1. IInv => NoIndexRunsTwice
  BY DEF IInv, BorderInv, NoIndexRunsTwice
<1>2. QED
  BY <1>1, ExecutorInvariant, PTL

(* The call returns only when every index was run to its end.               *)
THEOREM ReturnsOnlyWhenAllDoneHolds == Spec => []ReturnsOnlyWhenAllDone
<1>1. IInv => ReturnsOnlyWhenAllDone
  <2> SUFFICES ASSUME IInv, Returned, NEW i \in Tasks
               PROVE  completed[i] = 1
    BY DEF ReturnsOnlyWhenAllDone
  <2>1. invoked[i] = 1
    BY ExecutorAssumption
       DEF IInv, TypeOK, BorderInv, HandedOut, PhaseInv, Returned, Tasks
  <2>2. \A t \in Threads : pc[t] # "body"
    BY WorkerCountType DEF IInv, PhaseInv, Returned, Workers, TypeOK
  <2>3. QED
    BY <2>1, <2>2 DEF IInv, TypeOK, HeldInv
<1>2. QED
  BY <1>1, ExecutorInvariant, PTL

(* No worker is running, or about to run, once forEach has returned.        *)
THEOREM NoWorkerOutlivesTheCallHolds == Spec => []NoWorkerOutlivesTheCall
<1>1. IInv => NoWorkerOutlivesTheCall
  BY WorkerCountType
     DEF IInv, TypeOK, PhaseInv, Returned, Workers, NoWorkerOutlivesTheCall
<1>2. QED
  BY <1>1, ExecutorInvariant, PTL

(* The caller's own drain starts only after the last worker's has ended.    *)
THEOREM CallerAndWorkersNeverBothRunHolds == Spec => []CallerAndWorkersNeverBothRun
<1>1. IInv => CallerAndWorkersNeverBothRun
  BY WorkerCountType
     DEF IInv, TypeOK, PhaseInv, Workers, CallerAndWorkersNeverBothRun
<1>2. QED
  BY <1>1, ExecutorInvariant, PTL

-----------------------------------------------------------------------------
(* The order of the claims, once a worker has been started: the thread that *)
(* took the last index still has it, a drain ends only past the last index, *)
(* and so nothing is left for Main.  Nothing is claimed before the first    *)
(* worker is there.                                                         *)
OrderInv ==
  /\ pc[Main] = "spawn" /\ spawned = 0 => cursor = 0
  /\ spawned > 0 /\ cursor \in 1 .. TaskCount =>
       \E w \in 1 .. spawned : index[w] = cursor - 1
  /\ \A w \in Workers : pc[w] = "finished" => cursor > TaskCount
  /\ pc[Main] = "body" => spawned = 0

LEMMA NextOrderInv == IInv /\ OrderInv /\ [Next]_vars => OrderInv'
<1> SUFFICES ASSUME IInv, OrderInv, [Next]_vars
             PROVE  OrderInv'
  OBVIOUS
<1> USE ExecutorAssumption, WorkerCountType DEF IInv, TypeOK, Main
<1>1. CASE Begin
  BY <1>1 DEF Begin, OrderInv, PhaseInv, Workers, Threads
<1>2. CASE SpawnWorker
  <2>1. /\ spawned' = spawned + 1 /\ UNCHANGED <<cursor, index>> /\ pc'[Main] # "body"
        /\ \A w \in Workers : pc'[w] = "finished" => pc[w] = "finished"
    BY <1>2 DEF SpawnWorker, Workers, Threads
  <2>2. pc[Main] = "spawn" /\ spawned < WorkerCount
    BY <1>2 DEF SpawnWorker
  <2>3. spawned = 0 => cursor = 0
    BY <2>2 DEF OrderInv
  <2>4. 1 .. spawned \subseteq 1 .. spawned'
    BY <2>1
  <2>5. QED
    BY <2>1, <2>3, <2>4 DEF OrderInv
<1>3. CASE SpawnFails \/ JoinWorker \/ UNCHANGED vars
  BY <1>3 DEF SpawnFails, JoinWorker, OrderInv, Workers, Threads, vars
<1>4. CASE JoinedAll
  BY <1>4 DEF JoinedAll, OrderInv, Workers, Threads
<1>5. ASSUME NEW t \in Threads, Claim(t)
      PROVE  OrderInv'
  <2>1. /\ pc[t] = "claim" /\ cursor' = cursor + 1 /\ UNCHANGED spawned
        /\ index' = [index EXCEPT ![t] = cursor]
        /\ pc' = [pc EXCEPT ![t] = IF cursor < TaskCount THEN "body" ELSE "finished"]
    BY <1>5 DEF Claim
  <2>2. ASSUME t = Main, spawned > 0
        PROVE  cursor > TaskCount
    <3>1. 1 \in Workers /\ pc[1] = "finished"
      BY <2>1, <2>2 DEF PhaseInv, Workers
    <3>2. QED
      BY <3>1 DEF OrderInv
  <2>3. t # Main => t \in 1 .. spawned
    BY <2>1 DEF PhaseInv, Workers, Threads
  <2>4. (spawned > 0 /\ cursor \in 1 .. TaskCount =>
           \E w \in 1 .. spawned : index[w] = cursor - 1)'
    <3>1. SUFFICES ASSUME spawned > 0, cursor + 1 <= TaskCount
                   PROVE  \E w \in 1 .. spawned : index'[w] = cursor
      BY <2>1
    <3>2. t \in 1 .. spawned
      BY <2>2, <2>3, <3>1
    <3>3. QED
      BY <2>1, <3>2
  <2>5. (\A w \in Workers : pc[w] = "finished" => cursor > TaskCount)'
    <3>1. SUFFICES ASSUME NEW w \in Workers, pc'[w] = "finished"
                   PROVE  cursor + 1 > TaskCount
      BY <2>1
    <3>2. CASE w = t
      BY <2>1, <3>1, <3>2
    <3>3. CASE w # t
      BY <2>1, <3>1, <3>3 DEF OrderInv
    <3>4. QED
      BY <3>2, <3>3
  <2>6. (pc[Main] = "body" => spawned = 0)'
    <3>1. SUFFICES ASSUME pc'[Main] = "body", spawned > 0
                   PROVE  FALSE
      BY <2>1
    <3>2. CASE t = Main
      BY <2>1, <2>2, <3>1, <3>2
    <3>3. CASE t # Main
      BY <2>1, <3>1, <3>3 DEF OrderInv
    <3>4. QED
      BY <3>2, <3>3
  <2>7. pc'[Main] # "spawn" \/ spawned > 0
    BY <2>1, <2>3
  <2>8. QED
    BY <2>1, <2>4, <2>5, <2>6, <2>7 DEF OrderInv
<1>6. ASSUME NEW t \in Threads, FinishBody(t)
      PROVE  OrderInv'
  BY <1>6 DEF FinishBody, OrderInv, Workers, Threads
<1>7. QED
  BY <1>1, <1>2, <1>3, <1>4, <1>5, <1>6 DEF Next, Terminated

(* The task claimed last is the current index of a thread that was spawned; *)
(* nothing is claimed before there is one, and a thread finishes only when  *)
(* the table has run out.                                                   *)
THEOREM ClaimsAreMadeInOrder == Spec => []OrderInv
<1>1. Init => OrderInv
  BY WorkerCountType DEF Init, OrderInv, Main, Workers, Threads
<1>2. QED
  BY <1>1, NextOrderInv, ExecutorInvariant, PTL DEF Spec

-----------------------------------------------------------------------------

LEMMA InitRefines == Init => Promise!Init
BY ExecutorAssumption, WorkerCountType
   DEF Init, Promise!Init, StatusOf, Returned, Main, Threads

LEMMA StepRefines == IInv /\ IInv' /\ [Next]_vars => [Promise!Next]_(Promise!vars)
<1> SUFFICES ASSUME IInv, IInv', [Next]_vars
             PROVE  Promise!Next \/ UNCHANGED Promise!vars
  OBVIOUS
<1> USE ExecutorAssumption, WorkerCountType DEF IInv, TypeOK
<1>1. ASSUME UNCHANGED <<invoked, completed>>, Returned' = Returned
      PROVE  UNCHANGED Promise!vars
  BY <1>1 DEF Promise!vars, StatusOf
<1>2. CASE Begin
  BY <1>1, <1>2 DEF Begin, Returned
<1>3. CASE SpawnWorker
  BY <1>1, <1>3 DEF SpawnWorker, Returned, Main, Workers, Threads
<1>4. CASE SpawnFails
  BY <1>1, <1>4 DEF SpawnFails, Returned
<1>5. CASE JoinWorker
  BY <1>1, <1>5 DEF JoinWorker, Returned
<1>6. CASE JoinedAll
  BY <1>1, <1>6 DEF JoinedAll, Returned
<1>7. ASSUME NEW t \in Threads, Claim(t), cursor < TaskCount
      PROVE  Promise!Next
  <2>1. cursor \in Tasks /\ pc[Main] # "finished" /\ pc'[Main] # "finished"
    BY <1>7 DEF Claim, PhaseInv, Returned, Tasks, Workers, Threads
  <2>2. invoked[cursor] = 0 /\ invoked' = [invoked EXCEPT ![cursor] = 1]
    BY <1>7, <2>1 DEF Claim, BorderInv, HandedOut
  <2>3. completed[cursor] = 0
    BY <2>1, <2>2 DEF HeldInv
  <2>4. completed' = completed
    BY <1>7 DEF Claim
  <2>5. \A i \in Tasks : StatusOf(i)' = IF i = cursor THEN "running" ELSE StatusOf(i)
    BY <2>1, <2>2, <2>3, <2>4 DEF StatusOf
  <2>6. StatusOf(cursor) = "waiting"
    BY <2>2 DEF StatusOf
  <2>7. Promise!Invoke(cursor)
    BY <2>1, <2>5, <2>6 DEF Promise!Invoke, Returned
  <2>8. QED
    BY <2>1, <2>7 DEF Promise!Next
<1>8. ASSUME NEW t \in Threads, Claim(t), ~(cursor < TaskCount)
      PROVE  Promise!Next \/ UNCHANGED Promise!vars
  <2>1. CASE t # Main
    BY <1>1, <1>8, <2>1 DEF Claim, Returned
  <2>2. CASE t = Main
    <3>1. ~Returned /\ Returned'
      BY <1>8, <2>2 DEF Claim, Returned
    <3>2. \A i \in Tasks : invoked'[i] = 1 /\ completed'[i] = 1
      <4>1. \A w \in Workers : pc'[w] # "body"
        BY <3>1 DEF PhaseInv, Returned, Workers
      <4>2. \A u \in Threads : pc'[u] # "body"
        BY <3>1, <4>1 DEF Returned
      <4>3. \A i \in Tasks : invoked'[i] = 1
        BY <3>1 DEF BorderInv, HandedOut, PhaseInv, Returned, Tasks
      <4>4. QED
        BY <4>2, <4>3 DEF HeldInv
    <3>3. QED
      BY <1>8, <3>1, <3>2 DEF Claim, Promise!Next, Promise!Return, StatusOf
  <2>3. QED
    BY <2>1, <2>2
<1>9. ASSUME NEW t \in Threads, FinishBody(t)
      PROVE  Promise!Next
  <2>1. index[t] \in Tasks /\ invoked[index[t]] = 1 /\ completed[index[t]] = 0
    BY <1>9 DEF FinishBody, HeldInv
  <2>2. completed' = [completed EXCEPT ![index[t]] = 1] /\ invoked' = invoked
    BY <1>9, <2>1 DEF FinishBody
  <2>3. Returned' = Returned
    BY <1>9 DEF FinishBody, Returned
  <2>4. \A i \in Tasks : StatusOf(i)' = IF i = index[t] THEN "done" ELSE StatusOf(i)
    BY <2>1, <2>2 DEF StatusOf
  <2>5. StatusOf(index[t]) = "running"
    BY <2>1 DEF StatusOf
  <2>6. Promise!Complete(index[t])
    BY <2>1, <2>3, <2>4, <2>5 DEF Promise!Complete
  <2>7. QED
    BY <2>1, <2>6 DEF Promise!Next
<1>10. CASE UNCHANGED vars
  BY <1>1, <1>10 DEF vars, Returned
<1>11. QED
  BY <1>2, <1>3, <1>4, <1>5, <1>6, <1>7, <1>8, <1>9, <1>10
     DEF Next, Terminated

(* The pool implements ForEach (its safety part): every step of the pool is *)
(* one entry or end of the body for one index, the return, or invisible.    *)
THEOREM ExecutorRefinesForEach == Spec => Promise!Safe
BY InitRefines, StepRefines, ExecutorInvariant, PTL DEF Spec, Promise!Safe

=============================================================================
