----------------------- MODULE SimulationBatchProofs -----------------------
(***************************************************************************)
(* For every batch, of any size and in either mode: the batch is a run of  *)
(* the executor and a run of the registry at once, so that what is proved  *)
(* of each holds in the batch; the end of forEach is the end of every      *)
(* cell; and the summary says of every plugin what became of it.           *)
(***************************************************************************)
EXTENDS SimulationBatch, FiniteSetTheorems, TLAPS

(* The two components again, with what is proved of them. *)
Pool == INSTANCE TaskExecutorProofs WITH pc <- at, LeftoverCursors <- {0}
Plugins == INSTANCE PluginRegistryProofs

-----------------------------------------------------------------------------
(* The task table: which pair a cell belongs to. *)

LEMMA ProductInNat == ASSUME NEW a \in Nat, NEW b \in Nat PROVE a * b \in Nat
OBVIOUS

LEMMA ProductGrows ==
  ASSUME NEW a \in Nat, NEW b \in Nat, NEW n \in Nat, a <= b
  PROVE  a * n <= b * n
OBVIOUS

LEMMA Division ==
  ASSUME NEW n \in Nat \ {0}, NEW c \in Nat
  PROVE  c \div n \in Nat /\ n * (c \div n) <= c /\ c < n * (c \div n) + n
OBVIOUS

LEMMA QuotientIsLess ==
  ASSUME NEW n \in Nat \ {0}, NEW c \in Nat, NEW k \in Nat, c < k * n
  PROVE  c \div n < k
<1>1. PICK q \in Nat : q = c \div n
  BY Division
<1>2. n * q <= c
  BY <1>1, Division
<1>3. SUFFICES ASSUME k <= q
               PROVE  FALSE
  BY <1>1
<1>4. k * n <= q * n /\ q * n = n * q
  BY <1>3, ProductGrows
<1>5. QED
  BY <1>2, <1>4

LEMMA QuotientIs ==
  ASSUME NEW n \in Nat \ {0}, NEW c \in Nat, NEW i \in Nat, i * n <= c, c < (i + 1) * n
  PROVE  c \div n = i
<1>1. PICK q \in Nat : q = c \div n
  BY Division
<1>2. q < i + 1
  BY <1>1, QuotientIsLess
<1>3. c < (q + 1) * n
  BY <1>1, Division
<1>4. SUFFICES ASSUME q + 1 <= i
               PROVE  FALSE
  BY <1>1, <1>2
<1>5. (q + 1) * n <= i * n
  BY <1>4, ProductGrows
<1>6. QED
  BY <1>3, <1>5

LEMMA SequenceType ==
  ASSUME NEW S, NEW s \in Seq(S)
  PROVE  Len(s) \in Nat /\ DOMAIN s = 1 .. Len(s) /\ \A i \in DOMAIN s : s[i] \in S
OBVIOUS

LEMMA TableType ==
  /\ Len(VariedPlugins) \in Nat /\ Pairs = 1 .. Len(VariedPlugins)
  /\ TaskCount \in Nat
  /\ CellsPerPair \in Nat
<1>1. Len(VariedPlugins) \in Nat /\ Pairs = 1 .. Len(VariedPlugins) /\ CellsPerPair \in Nat
  BY BatchAssumption, SequenceType DEF Pairs
<1>2. QED
  BY <1>1, ProductInNat DEF TaskCount

(* A cell's pair is one of the pairs, and a pair's range holds its cells.   *)
LEMMA CellHasPair == ASSUME NEW c \in Cells PROVE PairOf(c) \in Pairs
<1>1. c \in Nat /\ c < Len(VariedPlugins) * CellsPerPair
  BY TableType DEF Cells, TaskCount
<1>2. CellsPerPair \in Nat \ {0}
  <2>1. SUFFICES ASSUME CellsPerPair = 0
                 PROVE  FALSE
    BY TableType
  <2>2. QED
    BY <1>1, <2>1, TableType
<1>3. c \div CellsPerPair < Len(VariedPlugins)
  BY <1>1, <1>2, TableType, QuotientIsLess
<1>4. c \div CellsPerPair \in Nat
  BY <1>1, <1>2, Division
<1>5. QED
  BY <1>3, <1>4, TableType DEF PairOf

LEMMA RangeHoldsItsCells ==
  ASSUME NEW i \in Pairs, NEW c \in RangeOf(i)
  PROVE  c \in Cells /\ PairOf(c) = i
<1>1. PICK j \in Nat : i = j + 1 /\ j + 1 <= Len(VariedPlugins)
  <2>1. i - 1 \in Nat /\ i = (i - 1) + 1 /\ i <= Len(VariedPlugins)
    BY TableType
  <2>2. QED
    BY <2>1
<1>2. c \in Int /\ j * CellsPerPair <= c /\ c < (j + 1) * CellsPerPair
  <2>1. (j + 1) * CellsPerPair \in Nat /\ j * CellsPerPair \in Nat
    BY TableType, ProductInNat
  <2>2. RangeOf(i) = j * CellsPerPair .. (j + 1) * CellsPerPair - 1
    BY <1>1 DEF RangeOf
  <2>3. QED
    BY <2>1, <2>2
<1>3. c \in Nat /\ j * CellsPerPair \in Nat
  BY <1>2, TableType, ProductInNat
<1>4. CellsPerPair \in Nat \ {0}
  BY <1>2, <1>3, TableType
<1>5. c \div CellsPerPair = j
  BY <1>2, <1>3, <1>4, QuotientIs
<1>6. (j + 1) * CellsPerPair <= TaskCount
  BY <1>1, TableType, ProductGrows DEF TaskCount
<1>7. QED
  BY <1>1, <1>2, <1>3, <1>5, <1>6, TableType DEF Cells, PairOf

-----------------------------------------------------------------------------
(* What the two components assume of their constants holds in a batch. *)

LEMMA VariedAreSlots ==
  /\ FixedPlugin \in Slots
  /\ \A i \in Pairs : VariedPlugins[i] \in Slots /\ VariedPlugins[i] # FixedPlugin
<1>1. \A i \in Pairs : VariedPlugins[i] \in Slots \ {FixedPlugin}
  BY BatchAssumption, SequenceType DEF Pairs
<1>2. QED
  BY <1>1 DEF Slots

LEMMA SlotsAreFinite == IsFiniteSet(Slots)
<1>1. ASSUME NEW S, NEW s \in Seq(S)
      PROVE  IsFiniteSet(ToSet(s))
  <2>1. s \in Surjection(1 .. Len(s), ToSet(s))
    BY DEF Surjection, ToSet
  <2>2. IsFiniteSet(1 .. Len(s))
    BY FS_Interval
  <2>3. QED
    BY <2>1, <2>2, FS_Surjection
<1>2. IsFiniteSet(ToSet(VariedPlugins))
  BY <1>1, BatchAssumption
<1>3. IsFiniteSet({FixedPlugin})
  BY FS_Singleton
<1>4. QED
  BY <1>2, <1>3, FS_Union DEF Slots

LEMMA ExecutorIsWellFormed ==
  RequestedThreads \in Nat /\ TaskCount \in Nat /\ {0} \subseteq Nat
<1>1. RequestedThreads \in Nat
  BY BatchAssumption
<1>2. QED
  BY <1>1, TableType

LEMMA SameIsFiniteSet == \A S : IsFiniteSet(S) <=> Plugins!IsFiniteSet(S)
BY DEF IsFiniteSet, Plugins!IsFiniteSet

LEMMA SameCardinality == \A S : Registry!Cardinality(S) = Plugins!Cardinality(S)
BY DEF Registry!Cardinality, Plugins!Cardinality

LEMMA RegistryIsWellFormed == Plugins!RegistryAssumption
<1>1. IsFiniteSet(Cells)
  BY TableType, FS_Interval DEF Cells
<1>2. KindOf \in [Slots -> Plugins!Kinds]
  BY DEF KindOf, Plugins!Kinds
<1>3. ASSUME NEW c \in Cells, NEW k \in Plugins!Kinds
      PROVE  Plugin[c][k] \in Slots /\ KindOf[Plugin[c][k]] = k
  <2>1. Plugin[c][k] = IF k = FixedKind THEN FixedPlugin ELSE VariedPlugins[PairOf(c)]
    BY DEF Plugin, Plugins!Kinds
  <2>2. VariedPlugins[PairOf(c)] \in Slots /\ VariedPlugins[PairOf(c)] # FixedPlugin
    BY CellHasPair, VariedAreSlots
  <2>3. Comparative = TRUE \/ Comparative = FALSE
    BY BatchAssumption
  <2>4. CASE Comparative = TRUE
    <3>1. FixedKind = "algorithm"
      BY <2>4, Zenon DEF FixedKind
    <3>2. \A s \in Slots : KindOf[s] = IF s = FixedPlugin THEN "algorithm" ELSE "mission control"
      BY <2>4 DEF KindOf
    <3>3. QED
      BY <2>1, <2>2, <3>1, <3>2, VariedAreSlots DEF Plugins!Kinds
  <2>5. CASE Comparative = FALSE
    <3>1. FixedKind = "mission control"
      BY <2>5, Zenon DEF FixedKind
    <3>2. \A s \in Slots : KindOf[s] = IF s = FixedPlugin THEN "mission control" ELSE "algorithm"
      BY <2>5 DEF KindOf
    <3>3. QED
      BY <2>1, <2>2, <3>1, <3>2, VariedAreSlots DEF Plugins!Kinds
  <2>6. QED
    BY <2>3, <2>4, <2>5
<1>4. Plugin \in [Cells -> [Plugins!Kinds -> Slots]]
  BY <1>3 DEF Plugin, Plugins!Kinds
<1>5. /\ Adopted \subseteq Slots
      /\ MaxRegistered \in Nat \ {0}
      /\ Faults \subseteq {"open fails", "odd registrations", "run throws", "run reports errors"}
      /\ None \notin Slots /\ None \notin Cells
  BY BatchAssumption
<1>6. QED
  BY <1>1, <1>2, <1>3, <1>4, <1>5, SlotsAreFinite, SameIsFiniteSet
     DEF Plugins!RegistryAssumption

-----------------------------------------------------------------------------
(* A definition has two names here: the instance's that the batch is built  *)
(* from and the instance's that the proofs are about.                       *)

LEMMA SamePoolInit == Executor!Init => Pool!Init
BY DEF Executor!Init, Pool!Init, Executor!Threads, Pool!Threads, Executor!Workers,
       Pool!Workers, Executor!WorkerCount, Pool!WorkerCount, Executor!WorkerCountFor,
       Pool!WorkerCountFor, Executor!Main, Pool!Main, Executor!Tasks, Pool!Tasks

LEMMA SamePoolNext == [Executor!Next]_executorVars => [Pool!Next]_(Pool!vars)
BY DEF executorVars, Executor!Next, Pool!Next, Executor!Begin, Pool!Begin,
       Executor!SpawnWorker, Pool!SpawnWorker, Executor!SpawnFails, Pool!SpawnFails,
       Executor!JoinWorker, Pool!JoinWorker, Executor!JoinedAll, Pool!JoinedAll,
       Executor!Claim, Pool!Claim, Executor!FinishBody, Pool!FinishBody,
       Executor!Terminated, Pool!Terminated, Executor!Returned, Pool!Returned,
       Executor!vars, Pool!vars, Executor!Threads, Pool!Threads, Executor!Workers,
       Pool!Workers, Executor!WorkerCount, Pool!WorkerCount, Executor!WorkerCountFor,
       Pool!WorkerCountFor, Executor!Main, Pool!Main, Executor!Tasks, Pool!Tasks

LEMMA SamePluginsInit == Registry!Init => Plugins!Init
BY DEF Registry!Init, Plugins!Init, Registry!Kinds, Plugins!Kinds

LEMMA SameEnsure == ASSUME NEW c, Registry!Ensure(c) PROVE Plugins!Ensure(c)
BY DEF Registry!Ensure, Plugins!Ensure, Registry!Check, Plugins!Check,
       Registry!CheckAgain, Plugins!CheckAgain, Registry!LockToLoad, Plugins!LockToLoad,
       Registry!LookAgain, Plugins!LookAgain, Registry!Registrations,
       Plugins!Registrations, Registry!OpenLibrary, Plugins!OpenLibrary,
       Registry!OpenFails, Plugins!OpenFails, Registry!Registered, Plugins!Registered,
       Registry!Usable, Plugins!Usable, Registry!Claim, Plugins!Claim,
       Registry!DropStrays, Plugins!DropStrays, Registry!CloseRejected,
       Plugins!CloseRejected, Registry!ReportFailure, Plugins!ReportFailure,
       Registry!Publish, Plugins!Publish, Registry!RecordLoad, Plugins!RecordLoad,
       Registry!Unlock, Plugins!Unlock, Registry!slotVars, Plugins!slotVars,
       Registry!loaderVars, Plugins!loaderVars, Registry!logVars, Plugins!logVars,
       Registry!runVars, Plugins!runVars, Registry!Goto, Plugins!Goto, Registry!Lock,
       Plugins!Lock, Registry!Target, Plugins!Target, Registry!CountOpen,
       Plugins!CountOpen, Registry!CountClose, Plugins!CountClose, Registry!Record,
       Plugins!Record, Registry!Acquired, Plugins!Acquired, Registry!Unavailable,
       Plugins!Unavailable, Registry!Answer, Plugins!Answer, Registry!Kinds,
       Plugins!Kinds

LEMMA SameRun == ASSUME NEW c, Registry!Run(c) PROVE Plugins!Run(c)
BY DEF Registry!Run, Plugins!Run, Registry!MakeAlgorithm, Plugins!MakeAlgorithm,
       Registry!MakeMissionControl, Plugins!MakeMissionControl, Registry!RunReturns,
       Plugins!RunReturns, Registry!RunThrows, Plugins!RunThrows,
       Registry!DestroyInstance, Plugins!DestroyInstance, Registry!Torn, Plugins!Torn,
       Registry!LeaveTry, Plugins!LeaveTry, Registry!Catch, Plugins!Catch,
       Registry!slotVars, Plugins!slotVars, Registry!loaderVars, Plugins!loaderVars,
       Registry!logVars, Plugins!logVars, Registry!runVars, Plugins!runVars,
       Registry!Goto, Plugins!Goto, Registry!Kinds, Plugins!Kinds

LEMMA SameRelease == ASSUME NEW c, Registry!Release(c) PROVE Plugins!Release(c)
BY DEF Registry!Release, Plugins!Release, Registry!GiveBack, Plugins!GiveBack,
       Registry!LockToUnload, Plugins!LockToUnload, Registry!NothingToUnload,
       Plugins!NothingToUnload, Registry!ClearFactory, Plugins!ClearFactory,
       Registry!CloseLibrary, Plugins!CloseLibrary, Registry!Retire, Plugins!Retire,
       Registry!slotVars, Plugins!slotVars, Registry!loaderVars, Plugins!loaderVars,
       Registry!logVars, Plugins!logVars, Registry!runVars, Plugins!runVars,
       Registry!Goto, Plugins!Goto, Registry!Lock, Plugins!Lock, Registry!Target,
       Plugins!Target, Registry!CountClose, Plugins!CountClose, Registry!Record,
       Plugins!Record, Registry!NextRelease, Plugins!NextRelease, Registry!Kinds,
       Plugins!Kinds

LEMMA SamePluginsNext == [Registry!Next]_registryVars => [Plugins!Next]_(Plugins!vars)
<1>1. \A c \in Cells : Registry!Start(c) => Plugins!Start(c)
  BY DEF Registry!Start, Plugins!Start, Registry!slotVars, Plugins!slotVars,
         Registry!loaderVars, Plugins!loaderVars, Registry!logVars, Plugins!logVars,
         Registry!runVars, Plugins!runVars, Registry!Goto, Plugins!Goto
<1>2. Registry!Reserve => Plugins!Reserve
  <2>1. \A s : Registry!UsersOf(s) = Plugins!UsersOf(s)
    BY DEF Registry!UsersOf, Plugins!UsersOf
  <2>2. QED
    BY <2>1, SameCardinality
         DEF Registry!Reserve, Plugins!Reserve, Registry!slotVars, Plugins!slotVars,
             Registry!loaderVars, Plugins!loaderVars, Registry!logVars, Plugins!logVars,
             Registry!runVars, Plugins!runVars
<1>3. Registry!ClearRegistrar => Plugins!ClearRegistrar
  BY DEF Registry!ClearRegistrar, Plugins!ClearRegistrar, Registry!BatchOver,
         Plugins!BatchOver, Registry!slotVars, Plugins!slotVars, Registry!loaderVars,
         Plugins!loaderVars, Registry!logVars, Plugins!logVars, Registry!runVars,
         Plugins!runVars, Registry!Kinds, Plugins!Kinds
<1>4. Registry!ReleaseAll => Plugins!ReleaseAll
  BY SameCardinality
       DEF Registry!ReleaseAll, Plugins!ReleaseAll, Registry!runVars, Plugins!runVars
<1>5. UNCHANGED registryVars => UNCHANGED Plugins!vars
  BY DEF registryVars, Plugins!vars, Registry!slotVars, Plugins!slotVars,
         Registry!loaderVars, Plugins!loaderVars, Registry!logVars, Plugins!logVars,
         Registry!runVars, Plugins!runVars
<1>6. Registry!Terminated => UNCHANGED registryVars
  BY DEF Registry!Terminated, Registry!vars, registryVars, Registry!slotVars,
         Plugins!slotVars, Registry!loaderVars, Plugins!loaderVars, Registry!logVars,
         Plugins!logVars, Registry!runVars, Plugins!runVars
<1>7. QED
  BY <1>1, <1>2, <1>3, <1>4, <1>5, <1>6, SameEnsure, SameRun, SameRelease
     DEF Registry!Next, Plugins!Next

-----------------------------------------------------------------------------
(* The batch is a run of the executor. *)

LEMMA StepOfTheExecutor == [Next]_vars => [Executor!Next]_executorVars
BY DEF Next, vars, Reserve, Schedule, Report, Teardown, Terminated, ClaimCell, StepCell,
       LeaveCell, Executor!Next

(* Whatever the cells do, and however long they take, the executor does     *)
(* nothing in a batch that it does not do alone (forEach takes any body).   *)
THEOREM BatchRunsTheExecutor == Spec => Executor!Spec
<1>1. Init => Executor!Init
  BY DEF Init
<1>2. executorVars = Executor!vars
  BY DEF executorVars, Executor!vars
<1>3. [Next]_vars => [Executor!Next]_(Executor!vars)
  BY StepOfTheExecutor DEF executorVars, Executor!vars
<1>4. QED
  BY <1>1, <1>3, PTL DEF Spec, Executor!Spec

LEMMA ExecutorKeepsItsInvariant == Spec => []Pool!IInv /\ []Pool!ReturnsOnlyWhenAllDone
<1>1. Init => Pool!Init
  BY SamePoolInit DEF Init
<1>2. [Next]_vars => [Pool!Next]_(Pool!vars)
  BY StepOfTheExecutor, SamePoolNext
<1>3. (Pool!Spec => []Pool!IInv) /\ (Pool!Spec => []Pool!ReturnsOnlyWhenAllDone)
  BY ExecutorIsWellFormed, Pool!ExecutorInvariant, Pool!ReturnsOnlyWhenAllDoneHolds
<1>4. QED
  BY <1>1, <1>2, <1>3, PTL DEF Spec, Pool!Spec

(* What the batch needs of it: an index that is claimed or held is a cell's.*)
ExecutorType ==
  /\ cursor \in Nat
  /\ at = [t \in Executor!Threads |-> at[t]]
  /\ \A t \in Executor!Threads : at[t] = "body" => index[t] \in Cells
  /\ completed \in [Cells -> Nat]

LEMMA SameThreads == Executor!Threads = Pool!Threads /\ Pool!Tasks = Cells
BY DEF Executor!Threads, Pool!Threads, Executor!WorkerCount, Pool!WorkerCount,
       Executor!WorkerCountFor, Pool!WorkerCountFor, Pool!Tasks, Cells

LEMMA ExecutorIsTyped == Pool!IInv => ExecutorType
BY SameThreads DEF Pool!IInv, Pool!TypeOK, ExecutorType

-----------------------------------------------------------------------------
(* It is a run of the registry: what the executor hands out is a cell. *)

LEMMA StepOfTheRegistry == ExecutorType /\ [Next]_vars => [Registry!Next]_registryVars
<1> SUFFICES ASSUME ExecutorType, [Next]_vars
             PROVE  [Registry!Next]_registryVars
  OBVIOUS
<1>1. CASE Reserve \/ Teardown
  BY <1>1 DEF Reserve, Teardown, Registry!Next
<1>2. ASSUME NEW t \in Executor!Threads, ClaimCell(t)
      PROVE  [Registry!Next]_registryVars
  <2>1. cursor < TaskCount => cursor \in Cells
    BY TableType DEF ExecutorType, Cells
  <2>2. PICK c \in Nat : c = cursor
    BY DEF ExecutorType
  <2>3. CASE c < TaskCount
    <3>1. Registry!Start(cursor)
      BY <1>2, <2>2, <2>3 DEF ClaimCell
    <3>2. Registry!Start(c)
      BY <2>2, <3>1 DEF Registry!Start, Registry!Goto
    <3>3. QED
      BY <2>1, <2>2, <2>3, <3>2 DEF Registry!Next
  <2>4. CASE ~(c < TaskCount)
    BY <1>2, <2>2, <2>4 DEF ClaimCell
  <2>5. QED
    BY <2>3, <2>4
<1>3. ASSUME NEW t \in Executor!Threads, StepCell(t)
      PROVE  Registry!Next
  <2>1. PICK c \in Cells : c = index[t]
    BY <1>3 DEF ExecutorType, StepCell
  <2>2. index' = index
    BY <1>3 DEF StepCell, executorVars
  <2>3. Registry!Ensure(c) \/ Registry!Run(c) \/ Registry!Release(c)
    BY <1>3, <2>1, <2>2 DEF StepCell
  <2>4. QED
    BY <2>3 DEF Registry!Next
<1>4. CASE UNCHANGED registryVars
  BY <1>4
<1>5. QED
  BY <1>1, <1>2, <1>3, <1>4 DEF Next, vars, Schedule, Report, Terminated, LeaveCell

(* Whatever schedule the executor makes, with one thread or many, spawned   *)
(* or not, the registry does nothing in a batch that it does not do under   *)
(* every schedule of its own runs.                                          *)
THEOREM BatchRunsTheRegistry == Spec => Registry!Spec
<1>1. Init => Registry!Init
  BY DEF Init
<1>2. ExecutorType /\ [Next]_vars => [Registry!Next]_(Registry!vars)
  BY StepOfTheRegistry
       DEF registryVars, Registry!vars, Registry!slotVars, Registry!loaderVars,
           Registry!logVars, Registry!runVars
<1>3. QED
  BY <1>1, <1>2, ExecutorKeepsItsInvariant, ExecutorIsTyped, PTL
       DEF Spec, Registry!Spec

LEMMA RegistryKeepsItsInvariant ==
  Spec => []Plugins!IInv /\ []Plugins!OneVerdictPerPlugin /\ []Plugins!AuditTrailBalances
<1>1. Init => Plugins!Init
  BY SamePluginsInit DEF Init
<1>2. ExecutorType /\ [Next]_vars => [Plugins!Next]_(Plugins!vars)
  BY StepOfTheRegistry, SamePluginsNext
<1>3. Plugins!Spec => []Plugins!IInv
  BY RegistryIsWellFormed, Plugins!RegistryInvariant DEF Plugins!RegistryAssumption
<1>4. Plugins!Spec => []Plugins!OneVerdictPerPlugin
  BY RegistryIsWellFormed, Plugins!OneVerdictPerPluginHolds
       DEF Plugins!RegistryAssumption
<1>5. Plugins!Spec => []Plugins!AuditTrailBalances
  BY RegistryIsWellFormed, Plugins!AuditTrailBalancesHolds
     DEF Plugins!RegistryAssumption
<1>6. QED
  BY <1>1, <1>2, <1>3, <1>4, <1>5, ExecutorKeepsItsInvariant, ExecutorIsTyped, PTL
     DEF Spec, Plugins!Spec

-----------------------------------------------------------------------------
(* What ties the two: a body that has ended was the whole of its cell. *)

CellsEndTogether == \A c \in Cells : completed[c] # 0 => pc[c] = "done"

(* Between its start and its end a cell stays where it is, or goes on to a  *)
(* place that is not its start again.                                       *)
Moves(d) ==
  /\ pc[d] \notin {"idle", "done"}
  /\ pc' = pc \/ \E to : to # "idle" /\ pc' = [pc EXCEPT ![d] = to]

LEMMA CellsMoveOn ==
  ASSUME NEW d \in Cells, Plugins!Ensure(d) \/ Plugins!Run(d) \/ Plugins!Release(d)
  PROVE  Moves(d)
<1> USE DEF Plugins!Goto, Moves
<1>1. CASE Plugins!Ensure(d)
  <2>1. Plugins!Check(d) => Moves(d)
    BY DEF Plugins!Check, Plugins!Unavailable
  <2>2. Plugins!CheckAgain(d) => Moves(d)
    BY DEF Plugins!CheckAgain, Plugins!Answer, Plugins!Acquired, Plugins!Unavailable
  <2>3. Plugins!LockToLoad(d) => Moves(d)
    BY DEF Plugins!LockToLoad
  <2>4. Plugins!LookAgain(d) => Moves(d)
    BY DEF Plugins!LookAgain
  <2>5. Plugins!OpenLibrary(d) => Moves(d)
    BY DEF Plugins!OpenLibrary
  <2>6. Plugins!OpenFails(d) => Moves(d)
    BY DEF Plugins!OpenFails
  <2>7. Plugins!Claim(d) => Moves(d)
    BY DEF Plugins!Claim
  <2>8. Plugins!DropStrays(d) => Moves(d)
    BY DEF Plugins!DropStrays
  <2>9. Plugins!CloseRejected(d) => Moves(d)
    BY DEF Plugins!CloseRejected
  <2>10. Plugins!ReportFailure(d) => Moves(d)
    BY DEF Plugins!ReportFailure
  <2>11. Plugins!Publish(d) => Moves(d)
    BY DEF Plugins!Publish
  <2>12. Plugins!RecordLoad(d) => Moves(d)
    BY DEF Plugins!RecordLoad
  <2>13. Plugins!Unlock(d) => Moves(d)
    BY DEF Plugins!Unlock, Plugins!Answer, Plugins!Acquired, Plugins!Unavailable
  <2>14. QED
    BY <1>1, <2>1, <2>2, <2>3, <2>4, <2>5, <2>6, <2>7, <2>8, <2>9, <2>10, <2>11, <2>12, <2>13 DEF Plugins!Ensure
<1>2. CASE Plugins!Run(d)
  <2>1. Plugins!MakeAlgorithm(d) => Moves(d)
    BY DEF Plugins!MakeAlgorithm
  <2>2. Plugins!MakeMissionControl(d) => Moves(d)
    BY DEF Plugins!MakeMissionControl
  <2>3. Plugins!RunReturns(d) => Moves(d)
    BY DEF Plugins!RunReturns
  <2>4. Plugins!RunThrows(d) => Moves(d)
    BY DEF Plugins!RunThrows
  <2>5. Plugins!DestroyInstance(d) => Moves(d)
    BY DEF Plugins!DestroyInstance
  <2>6. Plugins!LeaveTry(d) => Moves(d)
    BY DEF Plugins!LeaveTry
  <2>7. Plugins!Catch(d) => Moves(d)
    BY DEF Plugins!Catch
  <2>8. QED
    BY <1>2, <2>1, <2>2, <2>3, <2>4, <2>5, <2>6, <2>7 DEF Plugins!Run
<1>3. CASE Plugins!Release(d)
  <2>1. Plugins!GiveBack(d) => Moves(d)
    BY DEF Plugins!GiveBack, Plugins!NextRelease
  <2>2. Plugins!LockToUnload(d) => Moves(d)
    BY DEF Plugins!LockToUnload
  <2>3. Plugins!NothingToUnload(d) => Moves(d)
    BY DEF Plugins!NothingToUnload, Plugins!NextRelease
  <2>4. Plugins!ClearFactory(d) => Moves(d)
    BY DEF Plugins!ClearFactory
  <2>5. Plugins!CloseLibrary(d) => Moves(d)
    BY DEF Plugins!CloseLibrary
  <2>6. Plugins!Retire(d) => Moves(d)
    BY DEF Plugins!Retire, Plugins!NextRelease
  <2>7. QED
    BY <1>3, <2>1, <2>2, <2>3, <2>4, <2>5, <2>6 DEF Plugins!Release
<1>4. QED
  BY <1>1, <1>2, <1>3

(* A cell that is over stays as it is. *)
LEMMA DoneStaysDone ==
  ASSUME Plugins!TypeOK, [Plugins!Next]_(Plugins!vars), NEW c \in Cells, pc[c] = "done"
  PROVE  pc'[c] = "done"
<1>0. DOMAIN pc = Cells
  BY DEF Plugins!TypeOK
<1>1. CASE UNCHANGED pc
  BY <1>1
<1>2. ASSUME NEW d \in Cells, Plugins!Start(d)
      PROVE  pc'[c] = "done"
  BY <1>0, <1>2 DEF Plugins!Start, Plugins!Goto
<1>3. ASSUME NEW d \in Cells, Plugins!Ensure(d) \/ Plugins!Run(d) \/ Plugins!Release(d)
      PROVE  pc'[c] = "done"
  <2>1. Moves(d)
    BY <1>3, CellsMoveOn
  <2>2. QED
    BY ONLY <1>0, <2>1, c \in Cells, pc[c] = "done" DEF Moves
<1>4. QED
  BY <1>1, <1>2, <1>3
     DEF Plugins!Next, Plugins!vars, Plugins!Reserve, Plugins!ClearRegistrar,
         Plugins!ReleaseAll, Plugins!Terminated

LEMMA NextCellsEndTogether ==
  ASSUME ExecutorType, Plugins!TypeOK, CellsEndTogether, [Next]_vars
  PROVE  CellsEndTogether'
<1>1. [Plugins!Next]_(Plugins!vars)
  BY StepOfTheRegistry, SamePluginsNext
<1>2. CASE UNCHANGED completed
  BY <1>1, <1>2, DoneStaysDone DEF CellsEndTogether
<1>3. ASSUME NEW t \in Executor!Threads, LeaveCell(t)
      PROVE  CellsEndTogether'
  <2>1. PICK c \in Cells : c = index[t] /\ pc[c] = "done"
    BY <1>3 DEF ExecutorType, LeaveCell
  <2>2. \A d \in Cells : completed'[d] # 0 => d = c \/ completed[d] # 0
    BY <1>3, <2>1 DEF LeaveCell, Executor!FinishBody, ExecutorType
  <2>3. pc' = pc
    BY <1>3 DEF LeaveCell, registryVars
  <2>4. QED
    BY <2>1, <2>2, <2>3 DEF CellsEndTogether
<1>4. QED
  BY <1>2, <1>3
       DEF Next, vars, executorVars, Reserve, Schedule, Report, Teardown, Terminated,
           ClaimCell, StepCell, Executor!Begin, Executor!SpawnWorker,
           Executor!SpawnFails, Executor!JoinWorker, Executor!JoinedAll, Executor!Claim

(* forEach has returned only when every cell is over and has its result.    *)
EveryCellIsOver ==
  Executor!Returned => \A c \in Cells : pc[c] = "done" /\ result[c] # "default"

LEMMA OverWhenReturned ==
  Pool!IInv /\ Pool!ReturnsOnlyWhenAllDone /\ Plugins!IInv /\ CellsEndTogether => EveryCellIsOver
<1> SUFFICES ASSUME Pool!IInv, Pool!ReturnsOnlyWhenAllDone, Plugins!IInv, CellsEndTogether,
                    Executor!Returned, NEW c \in Cells
             PROVE  pc[c] = "done" /\ result[c] # "default"
  BY DEF EveryCellIsOver
<1>1. Pool!Returned
  BY DEF Executor!Returned, Pool!Returned, Executor!Main, Pool!Main
<1>2. completed[c] = 1
  BY <1>1, SameThreads DEF Pool!ReturnsOnlyWhenAllDone
<1>3. pc[c] = "done"
  BY <1>2 DEF CellsEndTogether
<1>4. Plugins!RunOK(c, "algorithm")
  BY DEF Plugins!IInv, Plugins!CodeInv, Plugins!RunInv, Plugins!Kinds
<1>5. QED
  BY <1>3, <1>4 DEF Plugins!RunOK

(* The guard of the registry's teardown holds whenever main reaches it,     *)
(* although main does not look: releaseAll runs beside no cell (main.cpp,   *)
(* after execute), and the summary is made of results that were written.    *)
THEOREM EveryCellIsOverHolds == Spec => []EveryCellIsOver
<1>1. Init => CellsEndTogether
  BY SameThreads DEF Init, Executor!Init, Executor!Tasks, Cells, CellsEndTogether
<1>2. Pool!IInv /\ Plugins!IInv /\ CellsEndTogether /\ [Next]_vars => CellsEndTogether'
  BY ExecutorIsTyped, NextCellsEndTogether DEF Plugins!IInv, Plugins!CodeInv
<1>3. QED
  BY <1>1, <1>2, OverWhenReturned, ExecutorKeepsItsInvariant, RegistryKeepsItsInvariant, PTL
       DEF Spec

-----------------------------------------------------------------------------
(* The summary. *)

ReportInv ==
  report.written =>
    /\ Executor!Returned
    /\ report.failed = FailedSlots
    /\ report.outcomes = {i \in Pairs : VariedPlugins[i] \notin FailedSlots}

(* No verdict changes once every cell is over: the teardown unloads what is *)
(* loaded, and a plugin that failed stays failed.                           *)
LEMMA VerdictsAreFinal ==
  ASSUME Plugins!TypeOK, [Plugins!Next]_(Plugins!vars), \A c \in Cells : pc[c] = "done"
  PROVE  FailedSlots' = FailedSlots
<1>1. ASSUME NEW d \in Cells, Plugins!Start(d) \/ Plugins!Ensure(d)
      PROVE  FALSE
  BY <1>1
       DEF Plugins!Start, Plugins!Goto, Plugins!Ensure, Plugins!Check,
           Plugins!CheckAgain, Plugins!LockToLoad, Plugins!LookAgain,
           Plugins!OpenLibrary, Plugins!OpenFails, Plugins!Claim, Plugins!DropStrays,
           Plugins!CloseRejected, Plugins!ReportFailure, Plugins!Publish,
           Plugins!RecordLoad, Plugins!Unlock
<1>2. ASSUME NEW d \in Cells, Plugins!Run(d) \/ Plugins!Release(d)
      PROVE  FALSE
  BY <1>2
       DEF Plugins!Run, Plugins!Goto, Plugins!MakeAlgorithm, Plugins!MakeMissionControl,
           Plugins!RunReturns, Plugins!RunThrows, Plugins!DestroyInstance,
           Plugins!LeaveTry, Plugins!Catch, Plugins!Release, Plugins!GiveBack,
           Plugins!LockToUnload, Plugins!NothingToUnload, Plugins!ClearFactory,
           Plugins!CloseLibrary, Plugins!Retire
<1>3. CASE Plugins!ReleaseAll
  BY <1>3 DEF Plugins!ReleaseAll, Plugins!TypeOK, FailedSlots
<1>4. CASE UNCHANGED state
  BY <1>4 DEF FailedSlots
<1>5. QED
  BY <1>1, <1>2, <1>3, <1>4
     DEF Plugins!Next, Plugins!vars, Plugins!slotVars, Plugins!Reserve,
         Plugins!ClearRegistrar, Plugins!Terminated

LEMMA ReturnedForGood ==
  ASSUME ExecutorType, [Next]_vars, Executor!Returned
  PROVE  Executor!Returned'
<1>1. Executor!Main \in Executor!Threads
  BY ExecutorIsWellFormed
       DEF Executor!Main, Executor!Threads, Executor!WorkerCount,
           Executor!WorkerCountFor
<1>2. [Executor!Next]_executorVars
  BY StepOfTheExecutor
<1>3. CASE UNCHANGED executorVars
  BY <1>3 DEF executorVars, Executor!Returned
<1>4. CASE Executor!Next
  BY <1>1, <1>4
       DEF Executor!Next, Executor!Begin, Executor!SpawnWorker, Executor!SpawnFails,
           Executor!JoinWorker, Executor!JoinedAll, Executor!Claim, Executor!FinishBody,
           Executor!Terminated, Executor!Returned, Executor!vars, ExecutorType
<1>5. QED
  BY <1>2, <1>3, <1>4

LEMMA NextReportInv ==
  ASSUME ExecutorType, Plugins!TypeOK, EveryCellIsOver, ReportInv, [Next]_vars
  PROVE  ReportInv'
<1>1. CASE Report
  BY <1>1
       DEF Report, ReportInv, executorVars, registryVars, FailedSlots, Executor!Returned
<1>2. CASE UNCHANGED report
  <2>1. SUFFICES ASSUME report.written
                 PROVE  ReportInv'
    BY <1>2 DEF ReportInv
  <2>2. Executor!Returned
    BY <2>1 DEF ReportInv
  <2>3. \A c \in Cells : pc[c] = "done"
    BY <2>2 DEF EveryCellIsOver
  <2>4. FailedSlots' = FailedSlots
    BY <2>3, StepOfTheRegistry, SamePluginsNext, VerdictsAreFinal
  <2>5. Executor!Returned'
    BY <2>2, ReturnedForGood
  <2>6. QED
    BY <1>2, <2>1, <2>4, <2>5 DEF ReportInv
<1>3. QED
  BY <1>1, <1>2
       DEF Next, vars, Reserve, Schedule, ClaimCell, StepCell, LeaveCell, Teardown,
           Terminated

LEMMA ReportIsTrue == Spec => []ReportInv
<1>1. Init => ReportInv
  BY DEF Init, Unwritten, ReportInv
<1>2. Pool!IInv /\ Plugins!IInv /\ EveryCellIsOver /\ ReportInv /\ [Next]_vars => ReportInv'
  BY ExecutorIsTyped, NextReportInv DEF Plugins!IInv, Plugins!CodeInv
<1>3. QED
  BY <1>1, <1>2, ExecutorKeepsItsInvariant, RegistryKeepsItsInvariant, EveryCellIsOverHolds, PTL
       DEF Spec

(* The summary has every varied plugin, either among the failures or among  *)
(* the outcomes, and no outcome is summarised from an unwritten result.     *)
THEOREM ReportAccountsForEveryPluginHolds == Spec => []ReportAccountsForEveryPlugin
<1>1. ReportInv /\ EveryCellIsOver => ReportAccountsForEveryPlugin
  BY VariedAreSlots, RangeHoldsItsCells
     DEF ReportInv, EveryCellIsOver, ReportAccountsForEveryPlugin, FailedSlots
<1>2. QED
  BY <1>1, ReportIsTrue, EveryCellIsOverHolds, PTL

LEMMA PluginsOfACell ==
  ASSUME NEW i \in Pairs, NEW c \in RangeOf(i)
  PROVE  {Plugin[c][k] : k \in Plugins!Kinds} = {FixedPlugin, VariedPlugins[i]}
<1>1. c \in Cells /\ PairOf(c) = i
  BY RangeHoldsItsCells
<1>2. \A k \in Plugins!Kinds :
        Plugin[c][k] = IF k = FixedKind THEN FixedPlugin ELSE VariedPlugins[i]
  BY <1>1 DEF Plugin, Plugins!Kinds
<1>3. FixedKind \in Plugins!Kinds
  BY DEF FixedKind, Plugins!Kinds
<1>4. QED
  BY <1>2, <1>3 DEF Plugins!Kinds

(* A pair whose own plugin did not fail is turned away only for the fixed   *)
(* one, which the summary then names.                                       *)
THEOREM BlameFallsOnTheRightPluginHolds == Spec => []BlameFallsOnTheRightPlugin
<1>1. ASSUME ReportInv, EveryCellIsOver, Plugins!IInv, Plugins!OneVerdictPerPlugin
      PROVE  BlameFallsOnTheRightPlugin
  <2>1. SUFFICES ASSUME report.written, NEW i \in report.outcomes, NEW c \in RangeOf(i)
                 PROVE  /\ failing[c] = "unavailable" <=> FixedPlugin \in report.failed
                        /\ FixedPlugin \in report.failed => result[c] = "error"
    BY DEF BlameFallsOnTheRightPlugin
  <2>2. i \in Pairs /\ state[VariedPlugins[i]] # "Failed"
    BY <2>1, <1>1, VariedAreSlots DEF ReportInv, FailedSlots
  <2>3. FixedPlugin \in report.failed <=> state[FixedPlugin] = "Failed"
    BY <2>1, <1>1, VariedAreSlots DEF ReportInv, FailedSlots
  <2>4. c \in Cells /\ pc[c] = "done"
    BY <1>1, <2>1, <2>2, RangeHoldsItsCells DEF ReportInv, EveryCellIsOver
  <2>5. failing[c] = "unavailable" <=> \E k \in Plugins!Kinds : state[Plugin[c][k]] = "Failed"
    BY <1>1, <2>4 DEF Plugins!OneVerdictPerPlugin
  <2>6. failing[c] = "unavailable" <=> state[FixedPlugin] = "Failed"
    BY <2>1, <2>2, <2>5, PluginsOfACell
  <2>7. Plugins!RunOK(c, "algorithm")
    BY <1>1, <2>4 DEF Plugins!IInv, Plugins!CodeInv, Plugins!RunInv, Plugins!Kinds
  <2>8. QED
    BY <2>3, <2>4, <2>6, <2>7 DEF Plugins!RunOK
<1>2. QED
  BY <1>1, ReportIsTrue, EveryCellIsOverHolds, RegistryKeepsItsInvariant, PTL

-----------------------------------------------------------------------------
(* The order of the unloads in the comparative mode. *)

(* Every cell borrows the fixed plugin, as its algorithm in this mode. *)
LEMMA EveryCellBorrowsTheFixedPlugin ==
  ASSUME Comparative, NEW c \in Cells
  PROVE  Plugin[c]["algorithm"] = FixedPlugin /\ c \in Plugins!UsersOf(FixedPlugin)
<1>1. FixedKind = "algorithm"
  BY Zenon DEF FixedKind
<1>2. KindOf[FixedPlugin] = "algorithm"
  BY VariedAreSlots DEF KindOf
<1>3. Plugin[c]["algorithm"] = FixedPlugin
  BY <1>1 DEF Plugin
<1>4. QED
  BY <1>2, <1>3 DEF Plugins!UsersOf

(* When nobody owes the algorithm any more, nobody owes anything, and who  *)
(* still unloads stands at the algorithm: a run gives that back last.       *)
LEMMA NothingIsOwed ==
  ASSUME Plugins!TypeOK, Comparative, Plugins!Owing(FixedPlugin) = {}, NEW c \in Cells
  PROVE  /\ pc[c] = "done" \/ pc[c] \in Plugins!ReleaseLabels
         /\ pc[c] \in {"lockUnload"} \cup Plugins!UnloadLabels => Plugins!Target(c) = FixedPlugin
         /\ \A s \in Slots : c \notin Plugins!Owing(s)
<1>1. KindOf[FixedPlugin] = "algorithm"
  BY VariedAreSlots DEF KindOf
<1>2. ~Plugins!Owes(c, "algorithm")
  BY <1>1, EveryCellBorrowsTheFixedPlugin DEF Plugins!Owing
<1>3. role[c] \in Plugins!Kinds
  BY DEF Plugins!TypeOK
<1>4. ~Plugins!Owes(c, "mission control")
  BY <1>2 DEF Plugins!Owes
<1>5. \A s \in Slots : KindOf[s] \in Plugins!Kinds
  BY DEF KindOf, Plugins!Kinds
<1>6. \A s \in Slots : c \notin Plugins!Owing(s)
  BY <1>2, <1>4, <1>5 DEF Plugins!Owing, Plugins!Kinds
<1>7. pc[c] \in {"lockUnload"} \cup Plugins!UnloadLabels => role[c] = "algorithm"
  BY <1>2, <1>3
     DEF Plugins!Owes, Plugins!Kinds, Plugins!ReleaseLabels, Plugins!UnloadLabels
<1>8. QED
  BY <1>2, <1>6, <1>7, EveryCellBorrowsTheFixedPlugin DEF Plugins!Owes, Plugins!Target

LEMMA NoLibraryIsLeftMapped ==
  ASSUME Plugins!IInv, Comparative, Plugins!Owing(FixedPlugin) = {}, NEW s \in Slots,
         s # FixedPlugin, mapped[s]
  PROVE  FALSE
<1>1. Plugins!TypeOK /\ Plugins!SlotOK(s) /\ Plugins!SlotBooks(s)
  BY DEF Plugins!IInv, Plugins!CodeInv, Plugins!SlotInv, Plugins!BooksInv
<1>2. \A c \in Cells : pc[c] = "done" \/ pc[c] \in Plugins!ReleaseLabels
  BY <1>1, NothingIsOwed
<1>3. ~Plugins!At(s, {"judge", "reject", "publish"})
  BY <1>2 DEF Plugins!At, Plugins!ReleaseLabels, Plugins!UnloadLabels
<1>4. state[s] = "Loaded" /\ s \notin Adopted /\ attempts[s] = 1
  BY <1>1, <1>3 DEF Plugins!TypeOK, Plugins!SlotOK
<1>5. Plugins!UsersOf(s) # {}
  BY <1>1, <1>4 DEF Plugins!SlotBooks, Plugins!Started
<1>6. PICK c \in Cells : c \in Plugins!UsersOf(s)
  BY <1>5 DEF Plugins!UsersOf
<1>7. phase # "discovered"
  BY <1>2, <1>6
     DEF Plugins!IInv, Plugins!CodeInv, Plugins!PhaseInv, Plugins!ReleaseLabels,
         Plugins!UnloadLabels
<1>8. Plugins!Owing(s) = {}
  BY <1>1, NothingIsOwed DEF Plugins!Owing, Plugins!UsersOf
<1>9. Plugins!At(s, {"lockUnload"} \cup Plugins!UnloadLabels)
  BY <1>1, <1>4, <1>5, <1>7, <1>8 DEF Plugins!SlotBooks
<1>10. QED
  BY <1>1, <1>9, NothingIsOwed DEF Plugins!At

(* The fixed plugin is the last library to be unloaded (buildManagers), in  *)
(* the mode whose fixed plugin is the one each run gives back last.         *)
THEOREM FixedPluginGoesLastHolds ==
  ASSUME Comparative
  PROVE  Spec => []FixedPluginGoesLast
<1>1. ASSUME Plugins!IInv, Plugins!AuditTrailBalances
      PROVE  FixedPluginGoesLast
  <2>1. SUFFICES ASSUME state[FixedPlugin] = "Unloaded", NEW s \in Slots, mapped[s]
                 PROVE  FALSE
    BY DEF FixedPluginGoesLast
  <2>2. Plugins!SlotOK(FixedPlugin)
    BY <1>1, VariedAreSlots DEF Plugins!IInv, Plugins!CodeInv, Plugins!SlotInv
  <2>3. CASE phase = "swept"
    <3>1. Plugins!BatchOver
      BY <1>1, <2>3
         DEF Plugins!IInv, Plugins!CodeInv, Plugins!PhaseInv, Plugins!BatchOver
    <3>2. QED
      BY <1>1, <2>1, <3>1 DEF Plugins!AuditTrailBalances
  <2>4. CASE phase # "swept"
    <3>1. Plugins!Owing(FixedPlugin) = {} /\ ~mapped[FixedPlugin]
      BY <2>1, <2>2, <2>4 DEF Plugins!SlotOK
    <3>2. QED
      BY <1>1, <2>1, <3>1, NoLibraryIsLeftMapped
  <2>5. QED
    BY <2>3, <2>4
<1>2. QED
  BY <1>1, RegistryKeepsItsInvariant, PTL

-----------------------------------------------------------------------------
(* How many libraries are mapped at once. *)

LEMMA ExecutorClaimsInOrder == Spec => []Pool!OrderInv
<1>1. Init => Pool!Init
  BY SamePoolInit DEF Init
<1>2. [Next]_vars => [Pool!Next]_(Pool!vars)
  BY StepOfTheExecutor, SamePoolNext
<1>3. Pool!Spec => []Pool!OrderInv
  BY ExecutorIsWellFormed, Pool!ClaimsAreMadeInOrder
<1>4. QED
  BY <1>1, <1>2, <1>3, PTL DEF Spec, Pool!Spec

(* A cell is started by the claim of its index and by nothing else. *)
CellsStartTogether == \A c \in Cells : pc[c] = "idle" <=> invoked[c] = 0

(* No other step starts a cell, or makes one that was started idle. *)
LEMMA OnlyStartStarts ==
  ASSUME Plugins!TypeOK, NEW d \in Cells,
         Plugins!Ensure(d) \/ Plugins!Run(d) \/ Plugins!Release(d)
  PROVE  \A c \in Cells : pc'[c] = "idle" <=> pc[c] = "idle"
<1>1. Moves(d)
  BY CellsMoveOn
<1>2. DOMAIN pc = Cells
  BY DEF Plugins!TypeOK
<1>3. QED
  BY ONLY <1>1, <1>2, d \in Cells DEF Moves

LEMMA NextCellsStartTogether ==
  ASSUME Pool!IInv, Plugins!TypeOK, CellsStartTogether, [Next]_vars
  PROVE  CellsStartTogether'
<1>0. ExecutorType /\ invoked \in [Cells -> Nat]
  BY ExecutorIsTyped, SameThreads DEF Pool!IInv, Pool!TypeOK
<1>1. ASSUME NEW t \in Executor!Threads, ClaimCell(t)
      PROVE  CellsStartTogether'
  <2>1. PICK c \in Nat : c = cursor
    BY <1>0 DEF ExecutorType
  <2>2. CASE c < TaskCount
    <3>1. c \in Cells
      BY <2>2, TableType DEF Cells
    <3>2. Registry!Start(cursor)
      BY <1>1, <2>1, <2>2 DEF ClaimCell
    <3>3. pc' = [pc EXCEPT ![c] = "check"]
      BY <2>1, <3>2 DEF Registry!Start, Registry!Goto
    <3>4. invoked' = [invoked EXCEPT ![c] = @ + 1]
      BY <1>1, <2>1, <2>2 DEF ClaimCell, Executor!Claim
    <3>5. QED
      BY <1>0, <3>1, <3>3, <3>4 DEF CellsStartTogether, Plugins!TypeOK
  <2>3. CASE ~(c < TaskCount)
    BY <1>1, <2>1, <2>3 DEF ClaimCell, Executor!Claim, registryVars, CellsStartTogether
  <2>4. QED
    BY <2>2, <2>3
<1>2. ASSUME NEW t \in Executor!Threads, StepCell(t)
      PROVE  CellsStartTogether'
  <2>1. PICK c \in Cells : c = index[t]
    BY <1>0, <1>2 DEF ExecutorType, StepCell
  <2>2. index' = index /\ invoked' = invoked
    BY <1>2 DEF StepCell, executorVars
  <2>3. Registry!Ensure(c) \/ Registry!Run(c) \/ Registry!Release(c)
    BY <1>2, <2>1, <2>2 DEF StepCell
  <2>4. \A d \in Cells : pc'[d] = "idle" <=> pc[d] = "idle"
    BY <2>3, SameEnsure, SameRun, SameRelease, OnlyStartStarts
  <2>5. QED
    BY <2>2, <2>4 DEF CellsStartTogether
<1>3. CASE UNCHANGED <<pc, invoked>>
  BY <1>3 DEF CellsStartTogether
<1>4. QED
  BY <1>1, <1>2, <1>3
     DEF Next, vars, executorVars, registryVars, Reserve, Schedule, Report, Teardown, Terminated,
         LeaveCell, Executor!Begin, Executor!SpawnWorker, Executor!SpawnFails,
         Executor!JoinWorker, Executor!JoinedAll, Executor!FinishBody, Registry!Reserve,
         Registry!ClearRegistrar, Registry!ReleaseAll

(* A varied plugin is borrowed by the cells of its own pair only. *)
LEMMA UsersAreOfThePair ==
  ASSUME NEW i \in Pairs, NEW c \in Cells, NEW k \in Plugins!Kinds,
         Plugin[c][k] = VariedPlugins[i]
  PROVE  PairOf(c) = i
<1>1. Plugin[c][k] = IF k = FixedKind THEN FixedPlugin ELSE VariedPlugins[PairOf(c)]
  BY DEF Plugin, Plugins!Kinds
<1>2. VariedPlugins[PairOf(c)] = VariedPlugins[i] /\ PairOf(c) \in Pairs
  BY <1>1, CellHasPair, VariedAreSlots
<1>3. QED
  BY <1>2, BatchAssumption DEF Pairs

(* The pair of an index between two of a pair's indices is that pair. *)
LEMMA DivisionIsMonotone ==
  ASSUME NEW n \in Nat \ {0}, NEW a \in Nat, NEW b \in Nat, NEW c \in Nat,
         a <= b, b <= c, a \div n = c \div n
  PROVE  b \div n = a \div n
<1>1. PICK q \in Nat : q = a \div n
  BY Division
<1>2. n * q <= a /\ c < n * q + n
  BY <1>1, Division
<1>3. n * q \in Nat /\ n * q = q * n /\ (q + 1) * n = n * q + n
  BY <1>1, ProductInNat
<1>4. QED
  BY <1>1, <1>2, <1>3, QuotientIs

Started(c) == pc[c] \notin {"idle", "done"}

(* A cell that is on its way is the body of some worker. *)
LEMMA StartedCellHasItsWorker ==
  ASSUME Pool!IInv, Pool!OrderInv, CellsStartTogether, CellsEndTogether, spawned > 0,
         NEW c \in Cells, Started(c)
  PROVE  \E w \in 1 .. spawned : index[w] = c
<1>1. invoked[c] # 0 /\ completed[c] = 0
  BY DEF CellsStartTogether, CellsEndTogether, Started
<1>2. invoked[c] \in Nat /\ c \in Pool!Tasks
  BY SameThreads DEF Pool!IInv, Pool!TypeOK
<1>3. PICK t \in Pool!Threads : at[t] = "body" /\ index[t] = c
  BY <1>1, <1>2 DEF Pool!IInv, Pool!HeldInv
<1>4. t # Pool!Main
  BY <1>3 DEF Pool!OrderInv
<1>5. t \in Pool!Workers
  BY <1>3, <1>4 DEF Pool!Threads, Pool!Workers, Pool!Main
<1>6. spawned \in Nat /\ t <= spawned
  BY <1>3, <1>5 DEF Pool!IInv, Pool!TypeOK, Pool!PhaseInv, Pool!Workers
<1>7. QED
  BY <1>3, <1>5, <1>6 DEF Pool!Workers

(* A varied plugin is mapped only while a cell of its pair is on its way, or *)
(* between two of them: some have ended and some are still to be claimed.    *)
LEMMA WhyItIsMapped ==
  ASSUME Plugins!IInv, NEW i \in Pairs, mapped[VariedPlugins[i]]
  PROVE  \/ \E c \in Cells : PairOf(c) = i /\ Started(c)
         \/ \E c, d \in Cells : /\ PairOf(c) = i /\ PairOf(d) = i
                               /\ pc[c] = "idle" /\ pc[d] = "done"
<1>. DEFINE v == VariedPlugins[i]
<1>1. v \in Slots
  BY VariedAreSlots
<1>2. Plugins!TypeOK /\ Plugins!SlotOK(v) /\ Plugins!SlotBooks(v)
  BY <1>1 DEF Plugins!IInv, Plugins!CodeInv, Plugins!SlotInv, Plugins!BooksInv
<1>3. KindOf[v] \in Plugins!Kinds
  BY <1>1 DEF KindOf, Plugins!Kinds
<1>4. ASSUME NEW c \in Plugins!UsersOf(v)
      PROVE  c \in Cells /\ PairOf(c) = i
  BY <1>3, UsersAreOfThePair DEF Plugins!UsersOf
<1>5. ASSUME NEW labels, Plugins!At(v, labels), "idle" \notin labels, "done" \notin labels
      PROVE  \E c \in Cells : PairOf(c) = i /\ Started(c)
  <2>1. PICK c \in Cells : pc[c] \in labels /\ Plugin[c][role[c]] = v
    BY <1>5 DEF Plugins!At, Plugins!Target
  <2>2. role[c] \in Plugins!Kinds
    BY <1>2 DEF Plugins!TypeOK
  <2>3. QED
    BY <1>5, <2>1, <2>2, UsersAreOfThePair DEF Started
<1>. HIDE DEF v
<1>6. mapped[v]
  BY DEF v
<1>7. CASE state[v] = "NotLoaded"
  <2>1. Plugins!At(v, {"judge", "reject", "publish"})
    BY <1>2, <1>6, <1>7 DEF Plugins!SlotOK
  <2>2. QED
    BY <2>1, <1>5
<1>8. CASE state[v] = "Loaded"
  <2>1. attempts[v] = 1
    BY <1>2, <1>6, <1>8 DEF Plugins!SlotOK
  <2>2. PICK d \in Plugins!UsersOf(v) : pc[d] # "idle"
    BY <1>2, <2>1 DEF Plugins!SlotBooks, Plugins!Started
  <2>3. phase # "discovered"
    BY <1>4, <2>2 DEF Plugins!IInv, Plugins!CodeInv, Plugins!PhaseInv
  <2>4. CASE Plugins!Owing(v) = {}
    <3>1. Plugins!At(v, {"lockUnload"} \cup Plugins!UnloadLabels)
      BY <1>2, <1>8, <2>2, <2>3, <2>4 DEF Plugins!SlotBooks
    <3>2. QED
      BY <3>1, <1>5 DEF Plugins!UnloadLabels
  <2>5. CASE Plugins!Owing(v) # {}
    <3>1. PICK c \in Plugins!UsersOf(v) : pc[c] # "done"
      BY <2>5 DEF Plugins!Owing, Plugins!Owes
    <3>2. QED
      BY <1>4, <2>2, <3>1 DEF Started
  <2>6. QED
    BY <2>4, <2>5
<1>9. QED
  BY <1>1, <1>2, <1>6, <1>7, <1>8 DEF Plugins!TypeOK, Plugins!SlotOK

(* Either way a worker has an index of that pair. *)
LEMMA MappedPluginHasItsWorker ==
  ASSUME Pool!IInv, Pool!OrderInv, Plugins!IInv, CellsStartTogether, CellsEndTogether,
         spawned > 0, NEW i \in Pairs, mapped[VariedPlugins[i]]
  PROVE  \E w \in 1 .. spawned : PairOf(index[w]) = i
<1>1. ASSUME NEW c \in Cells, PairOf(c) = i, Started(c)
      PROVE  \E w \in 1 .. spawned : PairOf(index[w]) = i
  BY <1>1, StartedCellHasItsWorker
<1>2. ASSUME NEW c \in Cells, NEW d \in Cells, PairOf(c) = i, PairOf(d) = i,
             pc[c] = "idle", pc[d] = "done"
      PROVE  \E w \in 1 .. spawned : PairOf(index[w]) = i
  <2>1. invoked[c] = 0 /\ invoked[d] # 0
    BY <1>2 DEF CellsStartTogether
  <2>2. c \in Nat /\ d \in Nat /\ c < TaskCount /\ cursor \in Nat
    BY TableType DEF Cells, Pool!IInv, Pool!TypeOK
  <2>3. d < cursor /\ cursor <= c
    <3>1. /\ invoked[c] = IF Pool!HandedOut(c) THEN 1 ELSE 0
          /\ invoked[d] = IF Pool!HandedOut(d) THEN 1 ELSE 0
      BY SameThreads DEF Pool!IInv, Pool!BorderInv
    <3>2. Pool!HandedOut(d) /\ ~Pool!HandedOut(c)
      BY <2>1, <3>1
    <3>3. QED
      BY <2>2, <3>2 DEF Pool!HandedOut
  <2>4. PICK w \in 1 .. spawned : index[w] = cursor - 1
    <3>1. cursor \in 1 .. TaskCount
      BY <2>2, <2>3, TableType
    <3>2. QED
      BY <3>1 DEF Pool!OrderInv
  <2>5. CellsPerPair \in Nat \ {0}
    <3>1. SUFFICES ASSUME CellsPerPair = 0
                   PROVE  FALSE
      BY TableType
    <3>2. QED
      BY <2>2, <3>1, TableType DEF TaskCount
  <2>6. PICK b \in Nat : b = cursor - 1 /\ d <= b /\ b <= c
    BY <2>2, <2>3
  <2>7. d \div CellsPerPair \in Nat /\ c \div CellsPerPair \in Nat
    BY <2>2, <2>5, Division
  <2>8. b \div CellsPerPair = d \div CellsPerPair
    <3>1. d \div CellsPerPair = c \div CellsPerPair
      BY <1>2, <2>7 DEF PairOf
    <3>2. QED
      BY <2>2, <2>5, <2>6, <3>1, DivisionIsMonotone
  <2>9. QED
    BY <1>2, <2>4, <2>6, <2>8 DEF PairOf
<1>3. QED
  BY <1>1, <1>2, WhyItIsMapped

MappedSlots == {s \in Slots : mapped[s]}

(* No two varied plugins have the same worker: one each, and the fixed one. *)
LEMMA MappedWithinLiveThreads ==
  ASSUME Pool!IInv, Pool!OrderInv, Plugins!IInv, CellsStartTogether, CellsEndTogether,
         spawned > 0
  PROVE  IsFiniteSet(MappedSlots) /\ Cardinality(MappedSlots) <= spawned + 1
<1>. DEFINE Varied == MappedSlots \ {FixedPlugin}
            Holds(s, w) == \E i \in Pairs : VariedPlugins[i] = s /\ PairOf(index[w]) = i
            f == [s \in Varied |-> CHOOSE w \in 1 .. spawned : Holds(s, w)]
<1>1. spawned \in Nat
  BY DEF Pool!IInv, Pool!TypeOK
<1>2. \A s \in Varied : \E w \in 1 .. spawned : Holds(s, w)
  <2>1. SUFFICES ASSUME NEW s \in Varied
                 PROVE  \E w \in 1 .. spawned : Holds(s, w)
    OBVIOUS
  <2>2. PICK i \in Pairs : VariedPlugins[i] = s
    BY <2>1 DEF MappedSlots, Slots, ToSet, Pairs
  <2>3. mapped[s]
    BY <2>1 DEF MappedSlots
  <2>4. QED
    BY <2>2, <2>3, MappedPluginHasItsWorker
<1>3. \A s \in Varied : f[s] \in 1 .. spawned /\ Holds(s, f[s])
  BY <1>2
<1>4. \A r, s \in Varied : f[r] = f[s] => r = s
  BY <1>3
<1>5. f \in Injection(Varied, 1 .. spawned)
  <2>1. f \in [Varied -> 1 .. spawned]
    BY <1>3
  <2>. HIDE DEF f
  <2>2. QED
    BY <2>1, <1>4 DEF Injection, IsInjective
<1>6. IsFiniteSet(1 .. spawned) /\ Cardinality(1 .. spawned) = spawned
  BY <1>1, FS_Interval
<1>. HIDE DEF Varied, f
<1>7. IsFiniteSet(Varied) /\ Cardinality(Varied) <= spawned
  BY <1>5, <1>6, FS_Injection
<1>8. IsFiniteSet(Varied \cup {FixedPlugin})
      /\ Cardinality(Varied \cup {FixedPlugin}) <= spawned + 1
  <2>1. FixedPlugin \notin Varied
    BY DEF Varied
  <2>2. /\ IsFiniteSet(Varied \cup {FixedPlugin})
        /\ Cardinality(Varied \cup {FixedPlugin}) = Cardinality(Varied) + 1
    BY <1>7, <2>1, FS_AddElement
  <2>3. Cardinality(Varied) \in Nat
    BY <1>7, FS_CardinalityType
  <2>4. QED
    BY <1>1, <1>7, <2>2, <2>3
<1>9. MappedSlots \subseteq Varied \cup {FixedPlugin}
  BY DEF Varied
<1>10. IsFiniteSet(MappedSlots) /\ Cardinality(MappedSlots) <= Cardinality(Varied \cup {FixedPlugin})
  BY <1>8, <1>9, FS_Subset
<1>11. Cardinality(MappedSlots) \in Nat /\ Cardinality(Varied \cup {FixedPlugin}) \in Nat
  BY <1>8, <1>10, FS_CardinalityType
<1>12. QED
  BY <1>1, <1>8, <1>10, <1>11

(* The peak moves only with a library that is opened, and to the number that *)
(* are then open.                                                            *)
LEMMA PeakMoves ==
  ASSUME Plugins!TypeOK, [Plugins!Next]_(Plugins!vars)
  PROVE  \/ peak' = peak
         \/ peak' = opens' - closes' /\ \E c \in Cells : pc[c] = "open"
<1>1. ASSUME NEW c \in Cells, Plugins!Ensure(c)
      PROVE  \/ peak' = peak
             \/ peak' = opens' - closes' /\ pc[c] = "open"
  <2>1. CASE Plugins!OpenLibrary(c)
    BY <2>1 DEF Plugins!OpenLibrary, Plugins!CountOpen, Plugins!Goto, Plugins!TypeOK
  <2>2. CASE ~Plugins!OpenLibrary(c)
    BY <1>1, <2>2
       DEF Plugins!Ensure, Plugins!Check, Plugins!CheckAgain, Plugins!LockToLoad,
           Plugins!LookAgain, Plugins!OpenFails, Plugins!Claim, Plugins!DropStrays,
           Plugins!CloseRejected, Plugins!ReportFailure, Plugins!Publish,
           Plugins!RecordLoad, Plugins!Unlock, Plugins!CountClose, Plugins!loaderVars
  <2>3. QED
    BY <2>1, <2>2
<1>2. ASSUME NEW c \in Cells, Plugins!Start(c) \/ Plugins!Run(c) \/ Plugins!Release(c)
      PROVE  peak' = peak
  BY <1>2
     DEF Plugins!Start, Plugins!Run, Plugins!MakeAlgorithm, Plugins!MakeMissionControl,
         Plugins!RunReturns, Plugins!RunThrows, Plugins!DestroyInstance, Plugins!LeaveTry,
         Plugins!Catch, Plugins!Release, Plugins!GiveBack, Plugins!LockToUnload,
         Plugins!NothingToUnload, Plugins!ClearFactory, Plugins!CloseLibrary,
         Plugins!Retire, Plugins!CountClose, Plugins!loaderVars
<1>3. QED
  BY <1>1, <1>2
     DEF Plugins!Next, Plugins!vars, Plugins!loaderVars, Plugins!Reserve,
         Plugins!ClearRegistrar, Plugins!ReleaseAll, Plugins!Terminated

(* The bound, and that nothing was opened before the first worker. *)
PeakInv ==
  /\ PeakWithinLiveThreads
  /\ spawned = 0 /\ at[Executor!Main] \in {"begin", "spawn"} => peak = 0

BatchInv ==
  /\ Pool!IInv /\ Pool!OrderInv /\ Plugins!IInv
  /\ CellsStartTogether /\ CellsEndTogether

OpenWithinLiveThreads == spawned > 0 => opens - closes <= spawned + 1

LEMMA OpenNow == BatchInv => OpenWithinLiveThreads
<1> SUFFICES ASSUME BatchInv, spawned > 0
             PROVE  opens - closes <= spawned + 1
  BY DEF OpenWithinLiveThreads
<1>1. opens - closes = Plugins!Cardinality(MappedSlots)
  BY DEF BatchInv, Plugins!IInv, Plugins!BooksInv, MappedSlots
<1>2. Plugins!Cardinality(MappedSlots) = Cardinality(MappedSlots)
  BY DEF Cardinality, Plugins!Cardinality
<1>3. QED
  BY <1>1, <1>2, MappedWithinLiveThreads DEF BatchInv

LEMMA NextPeakInv ==
  ASSUME BatchInv, OpenWithinLiveThreads', PeakInv, [Next]_vars
  PROVE  PeakInv'
<1>1. ExecutorType /\ Plugins!TypeOK /\ spawned \in Nat /\ peak \in Nat
  <2>1. Plugins!TypeOK /\ Pool!TypeOK /\ ExecutorType
    BY ExecutorIsTyped DEF BatchInv, Plugins!IInv, Plugins!CodeInv, Pool!IInv
  <2>2. QED
    BY <2>1 DEF Plugins!TypeOK, Pool!TypeOK
<1>2. [Plugins!Next]_(Plugins!vars)
  BY <1>1, StepOfTheRegistry, SamePluginsNext
<1>3. \/ peak' = peak
      \/ peak' = opens' - closes' /\ \E c \in Cells : pc[c] = "open"
  BY <1>1, <1>2, PeakMoves
<1>4. \/ spawned' = spawned
      \/ spawned' = spawned + 1 /\ peak' = peak /\ at[Executor!Main] = "spawn"
  BY DEF Next, vars, executorVars, registryVars, Reserve, Schedule, Report, Teardown,
         Terminated, ClaimCell, StepCell, LeaveCell, Executor!Begin, Executor!SpawnWorker,
         Executor!SpawnFails, Executor!JoinWorker, Executor!JoinedAll, Executor!Claim,
         Executor!FinishBody
<1>5. PeakWithinLiveThreads'
  <2>1. SUFFICES ASSUME spawned' > 0
                 PROVE  peak' <= spawned' + 1
    BY DEF PeakWithinLiveThreads
  <2>2. CASE peak' = peak
    <3>1. CASE spawned = 0
      BY <1>1, <1>4, <2>1, <2>2, <3>1 DEF PeakInv
    <3>2. CASE spawned # 0
      BY <1>1, <1>4, <2>2, <3>2 DEF PeakInv, PeakWithinLiveThreads
    <3>3. QED
      BY <3>1, <3>2
  <2>3. CASE peak' = opens' - closes'
    BY <2>1, <2>3 DEF OpenWithinLiveThreads
  <2>4. QED
    BY <1>3, <2>2, <2>3
<1>6. (spawned = 0 /\ at[Executor!Main] \in {"begin", "spawn"} => peak = 0)'
  <2>1. SUFFICES ASSUME spawned' = 0, at'[Executor!Main] \in {"begin", "spawn"}
                 PROVE  peak' = 0
    BY DEF Executor!Main
  <2>2. spawned = 0
    BY <1>1, <1>4, <2>1
  <2>3. at[Executor!Main] \in {"begin", "spawn"}
    <3>1. Executor!Main \in Executor!Threads
      BY ExecutorIsWellFormed
         DEF Executor!Main, Executor!Threads, Executor!WorkerCount, Executor!WorkerCountFor
    <3>2. [Executor!Next]_executorVars
      BY StepOfTheExecutor
    <3>3. QED
      BY <1>1, <2>1, <3>1, <3>2
         DEF executorVars, Executor!Next, Executor!Begin, Executor!SpawnWorker,
             Executor!SpawnFails, Executor!JoinWorker, Executor!JoinedAll, Executor!Claim,
             Executor!FinishBody, Executor!Terminated, Executor!vars, ExecutorType,
             Executor!Main
  <2>4. peak = 0
    BY <2>2, <2>3 DEF PeakInv
  <2>5. \A c \in Cells : invoked[c] = 0
    <3>1. SUFFICES ASSUME NEW c \in Cells
                   PROVE  ~Pool!HandedOut(c)
      BY SameThreads DEF BatchInv, Pool!IInv, Pool!BorderInv
    <3>2. at[Pool!Main] = "spawn" => cursor = 0
      BY <2>2 DEF BatchInv, Pool!OrderInv
    <3>3. c \in Nat /\ cursor \in Nat
      BY <1>1, TableType DEF Cells, ExecutorType
    <3>4. QED
      BY <2>3, <3>2, <3>3 DEF Pool!HandedOut, Executor!Main, Pool!Main
  <2>6. \A c \in Cells : pc[c] # "open"
    BY <2>5 DEF BatchInv, CellsStartTogether
  <2>7. QED
    BY <1>3, <2>4, <2>6
<1>7. QED
  BY <1>5, <1>6 DEF PeakInv

LEMMA BatchKeepsItsInvariant == Spec => []BatchInv
<1>1. Init => CellsStartTogether /\ CellsEndTogether
  BY SameThreads
     DEF Init, Executor!Init, Registry!Init, Executor!Tasks, Cells, CellsStartTogether,
         CellsEndTogether
<1>2. /\ Pool!IInv /\ Plugins!IInv /\ CellsEndTogether /\ [Next]_vars => CellsEndTogether'
      /\ Pool!IInv /\ Plugins!IInv /\ CellsStartTogether /\ [Next]_vars => CellsStartTogether'
  BY ExecutorIsTyped, NextCellsEndTogether, NextCellsStartTogether
     DEF Plugins!IInv, Plugins!CodeInv
<1>3. QED
  BY <1>1, <1>2, ExecutorKeepsItsInvariant, ExecutorClaimsInOrder, RegistryKeepsItsInvariant, PTL
       DEF Spec, BatchInv

(* However long the cells take and whatever fails, and whichever mode it is, *)
(* no more libraries are mapped at once than threads are alive.              *)
THEOREM PeakWithinLiveThreadsHolds == Spec => []PeakWithinLiveThreads
<1>1. Init => PeakInv
  BY DEF Init, Executor!Init, Registry!Init, PeakInv, PeakWithinLiveThreads
<1>2. BatchInv /\ OpenWithinLiveThreads' /\ PeakInv /\ [Next]_vars => PeakInv'
  BY NextPeakInv
<1>3. PeakInv => PeakWithinLiveThreads
  BY DEF PeakInv
<1>4. QED
  BY <1>1, <1>2, <1>3, OpenNow, BatchKeepsItsInvariant, PTL DEF Spec

=============================================================================
