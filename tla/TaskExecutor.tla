---------------------------- MODULE TaskExecutor ----------------------------
(***************************************************************************)
(* ThreadPoolExecutor::forEach (Simulator/src/TaskExecutor.cpp): one call, *)
(* by the calling thread Main, over TaskCount tasks.  Workers claim        *)
(* indices from a shared atomic cursor; a thread that cannot be started    *)
(* ends the spawning loop; Main joins the workers that did start and then  *)
(* drains what is left itself.  With no workers at all Main does the whole *)
(* table, which is also what InlineExecutor::forEach does with its local   *)
(* loop variable in the place of the cursor.                               *)
(*                                                                         *)
(* The body is opaque here: it is entered, and it ends.                    *)
(***************************************************************************)
EXTENDS Integers, FiniteSets

CONSTANTS
  RequestedThreads,  \* the num_threads argument
  TaskCount,         \* how many cells the task table holds
  LeftoverCursors    \* what an earlier call on the same executor may have left in cursor_

ASSUME ExecutorAssumption ==
  /\ RequestedThreads \in Nat
  /\ TaskCount \in Nat
  /\ LeftoverCursors \subseteq Nat

(* One worker per requested thread or task, whichever is fewer, but never  *)
(* a lone worker: too few of either and the calling thread works alone.    *)
WorkerCountFor(requested, count) ==
  IF requested < 2 \/ count < 2 THEN 0
  ELSE IF requested < count THEN requested ELSE count

WorkerCount == WorkerCountFor(RequestedThreads, TaskCount)
Workers == 1 .. WorkerCount
Main == 0
Threads == 0 .. WorkerCount
Tasks == 0 .. (TaskCount - 1)

VARIABLES
  cursor,      \* cursor_, the next index to hand out
  pc,          \* where each thread stands
  index,       \* the index a thread claimed last
  spawned,     \* pool.size(): workers 1 .. spawned were started
  joined,      \* workers 1 .. joined have been joined
  invoked,     \* history: how often the body was entered for an index
  completed    \* history: how often it ended

vars == <<cursor, pc, index, spawned, joined, invoked, completed>>

TypeOK ==
  /\ cursor \in Nat
  /\ pc \in [Threads -> {"unborn", "begin", "spawn", "join", "claim", "body", "finished"}]
  /\ index \in [Threads -> Nat]
  /\ spawned \in 0 .. WorkerCount
  /\ joined \in 0 .. spawned
  /\ invoked \in [Tasks -> Nat]
  /\ completed \in [Tasks -> Nat]
  /\ \A t \in Threads : pc[t] = "body" => index[t] \in Tasks

Init ==
  /\ cursor \in LeftoverCursors
  /\ pc = [t \in Threads |-> IF t = Main THEN "begin" ELSE "unborn"]
  /\ index = [t \in Threads |-> 0]
  /\ spawned = 0
  /\ joined = 0
  /\ invoked = [i \in Tasks |-> 0]
  /\ completed = [i \in Tasks |-> 0]

-----------------------------------------------------------------------------

(* forEach is entered: the cursor is reset and the schedule is decided. *)
Begin ==
  /\ pc[Main] = "begin"
  /\ cursor' = 0
  /\ pc' = [pc EXCEPT ![Main] = IF WorkerCount = 0 THEN "claim" ELSE "spawn"]
  /\ UNCHANGED <<index, spawned, joined, invoked, completed>>

(* The loop's next std::thread starts; the last one ends the loop. *)
SpawnWorker ==
  /\ pc[Main] = "spawn"
  /\ spawned < WorkerCount
  /\ spawned' = spawned + 1
  /\ pc' = [pc EXCEPT ![spawned + 1] = "claim",
                      ![Main] = IF spawned + 1 = WorkerCount THEN "join" ELSE "spawn"]
  /\ UNCHANGED <<cursor, index, joined, invoked, completed>>

(* std::thread's constructor throws std::system_error: no further worker. *)
SpawnFails ==
  /\ pc[Main] = "spawn"
  /\ pc' = [pc EXCEPT ![Main] = "join"]
  /\ UNCHANGED <<cursor, index, spawned, joined, invoked, completed>>

(* Main's join() on the next worker returns, which it does once that thread's *)
(* drain is over.                                                             *)
JoinWorker ==
  /\ pc[Main] = "join"
  /\ joined < spawned
  /\ pc[joined + 1] = "finished"
  /\ joined' = joined + 1
  /\ UNCHANGED <<cursor, pc, index, spawned, invoked, completed>>

(* A bug in the trailing drain: it starts beside workers that still run. *)
DrainBesideWorkers ==
  /\ pc[Main] = "join"
  /\ pc' = [pc EXCEPT ![Main] = "claim"]
  /\ UNCHANGED <<cursor, index, spawned, joined, invoked, completed>>

(* A bug in the join: it waits for workers that were planned and not started. *)
JoinedAllPlanned ==
  /\ pc[Main] = "join"
  /\ joined = WorkerCount
  /\ pc' = [pc EXCEPT ![Main] = "claim"]
  /\ UNCHANGED <<cursor, index, spawned, joined, invoked, completed>>

(* Every started worker is joined: the trailing drain begins. *)
JoinedAll ==
  /\ pc[Main] = "join"
  /\ joined = spawned
  /\ pc' = [pc EXCEPT ![Main] = "claim"]
  /\ UNCHANGED <<cursor, index, spawned, joined, invoked, completed>>

(* A bug in the claim: a read and a write in the place of the atomic        *)
(* fetch_add, so that an increment can be lost.                             *)
ClaimLosingAnIncrement(t) ==
  /\ pc[t] = "claim"
  /\ index' = [index EXCEPT ![t] = cursor]
  /\ cursor' \in {cursor, cursor + 1}
  /\ IF cursor < TaskCount
       THEN /\ pc' = [pc EXCEPT ![t] = "body"]
            /\ invoked' = [invoked EXCEPT ![cursor] = @ + 1]
       ELSE /\ pc' = [pc EXCEPT ![t] = "finished"]
            /\ UNCHANGED invoked
  /\ UNCHANGED <<spawned, joined, completed>>

(* One fetch_add and the comparison after it: an index below TaskCount is  *)
(* this thread's to run, any other ends its drain.  The cursor overshoots. *)
Claim(t) ==
  /\ pc[t] = "claim"
  /\ index' = [index EXCEPT ![t] = cursor]
  /\ cursor' = cursor + 1
  /\ IF cursor < TaskCount
       THEN /\ pc' = [pc EXCEPT ![t] = "body"]
            /\ invoked' = [invoked EXCEPT ![cursor] = @ + 1]
       ELSE /\ pc' = [pc EXCEPT ![t] = "finished"]
            /\ UNCHANGED invoked
  /\ UNCHANGED <<spawned, joined, completed>>

(* The body returns, and the thread goes back to the cursor. *)
FinishBody(t) ==
  /\ pc[t] = "body"
  /\ completed' = [completed EXCEPT ![index[t]] = @ + 1]
  /\ pc' = [pc EXCEPT ![t] = "claim"]
  /\ UNCHANGED <<cursor, index, spawned, joined, invoked>>

Returned == pc[Main] = "finished"

(* The call is over and nothing of it runs any more. *)
Terminated == Returned /\ UNCHANGED vars

Next ==
  \/ Begin
  \/ SpawnWorker
  \/ SpawnFails
  \/ JoinWorker
  \/ JoinedAll
  \/ \E t \in Threads : Claim(t) \/ FinishBody(t)
  \/ Terminated

(* Every thread that can run does, and a body that was entered ends: a run *)
(* is bounded by its step budget.  Nothing asks a spawn to fail.           *)
Fairness ==
  /\ WF_vars(Begin \/ SpawnWorker \/ JoinWorker \/ JoinedAll)
  /\ \A t \in Threads : WF_vars(Claim(t) \/ FinishBody(t))

Spec == Init /\ [][Next]_vars

FairSpec == Spec /\ Fairness

-----------------------------------------------------------------------------
(* No index is ever handed out twice, however the fetch_adds of the workers *)
(* and of the trailing drain interleave: a task claimed twice would run a   *)
(* mission twice over and overwrite its own output map (TaskExecutor.cpp,   *)
(* drain).                                                                  *)
NoIndexRunsTwice == \A i \in Tasks : invoked[i] <= 1

(* forEach returns only when every index was run to its end, also when some *)
(* or all of the workers could not be started (the trailing drain).         *)
ReturnsOnlyWhenAllDone == Returned => \A i \in Tasks : completed[i] = 1

(* No worker outlives the call: once forEach has returned, no worker is in  *)
(* the body or about to claim an index.  It is what makes the teardown in   *)
(* main safe without main knowing of the pool.                              *)
NoWorkerOutlivesTheCall ==
  Returned => \A w \in Workers : pc[w] \in {"unborn", "finished"}

(* The calling thread takes no task while a worker may take one: it waits   *)
(* in join(), and its own drain starts only after the last worker's.        *)
CallerAndWorkersNeverBothRun ==
  pc[Main] \in {"claim", "body"} =>
    \A w \in Workers : pc[w] \in {"unborn", "finished"}

(* The call returns, whatever number of workers could be started. *)
AlwaysReturns == <>Returned

(* The inductive invariant: the cursor is exactly the border between the    *)
(* indices handed out and those still waiting, each index handed out and    *)
(* not yet completed is held by exactly one thread, and a thread whose      *)
(* drain is over has seen the cursor past the end.                          *)
HandedOut(i) == pc[Main] # "begin" /\ i < cursor

BorderInv ==
  \A i \in Tasks : invoked[i] = IF HandedOut(i) THEN 1 ELSE 0

HeldInv ==
  /\ \A t \in Threads : pc[t] = "body" =>
       /\ invoked[index[t]] = 1
       /\ completed[index[t]] = 0
  /\ \A t, u \in Threads :
       pc[t] = "body" /\ pc[u] = "body" /\ index[t] = index[u] => t = u
  /\ \A i \in Tasks :
       /\ completed[i] <= invoked[i]
       /\ completed[i] < invoked[i] => \E t \in Threads : pc[t] = "body" /\ index[t] = i

PhaseInv ==
  /\ pc[Main] # "unborn"
  /\ pc[Main] \in {"begin", "spawn", "join"} => \A w \in Workers :
       (pc[w] = "unborn" <=> w > spawned)
  /\ \A w \in Workers :
       /\ pc[w] \in {"unborn", "claim", "body", "finished"}
       /\ w <= joined => pc[w] = "finished"
       /\ pc[w] # "unborn" => w <= spawned
  /\ pc[Main] = "begin" => spawned = 0
  /\ pc[Main] = "spawn" => spawned < WorkerCount
  /\ pc[Main] \in {"claim", "body", "finished"} => joined = spawned
  /\ Returned => cursor >= TaskCount

IInv == TypeOK /\ BorderInv /\ HeldInv /\ PhaseInv

-----------------------------------------------------------------------------
(* The pool is one way to keep ForEach's promise. *)

StatusOf(i) ==
  IF invoked[i] = 0 THEN "waiting"
  ELSE IF invoked[i] > 1 THEN "repeated"
  ELSE IF completed[i] = 0 THEN "running" ELSE "done"

Promise == INSTANCE ForEach WITH
  status <- [i \in Tasks |-> StatusOf(i)],
  returned <- Returned

(* The pool implements ForEach: every step is an entry or an end of the     *)
(* body for one index, the return, or invisible; and the call returns.      *)
KeepsThePromise == Promise!Spec

=============================================================================
