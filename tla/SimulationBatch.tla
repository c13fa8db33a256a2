-------------------------- MODULE SimulationBatch --------------------------
(***************************************************************************)
(* One batch: SimulationOrchestrator::execute over the executor and the    *)
(* registry, then main's teardown.  TaskExecutor decides which thread runs *)
(* which cell when, PluginRegistry what each cell does to the plugins; the *)
(* task table ties them: cell i belongs to the pair whose contiguous range *)
(* holds i, and a body is over when its cell is.                           *)
(***************************************************************************)
EXTENDS Integers, Sequences, FiniteSets, SequencesExt

CONSTANTS
  Comparative,       \* the mode: one algorithm under many mission controls, or the reverse
  FixedPlugin,       \* the slot of the kind that is held fixed
  VariedPlugins,     \* the slots of the other kind, in discovery order
  CellsPerPair,      \* missions x drones x lidars of the composition
  RequestedThreads,
  Adopted,
  MaxRegistered,
  Faults,
  None

Slots == {FixedPlugin} \cup ToSet(VariedPlugins)
FixedKind  == IF Comparative THEN "algorithm" ELSE "mission control"

(* buildManagers: pair i is the fixed plugin with the i-th varied one.  The *)
(* table is enumerated pair by pair, so the ranges of pairs are contiguous. *)
Pairs == DOMAIN VariedPlugins
TaskCount == Len(VariedPlugins) * CellsPerPair
Cells == 0 .. (TaskCount - 1)
PairOf(c) == c \div CellsPerPair + 1
RangeOf(i) == (i - 1) * CellsPerPair .. i * CellsPerPair - 1

KindOf == [s \in Slots |->
  IF (s = FixedPlugin) = Comparative THEN "algorithm" ELSE "mission control"]
Plugin == [c \in Cells |-> [k \in {"algorithm", "mission control"} |->
  IF k = FixedKind THEN FixedPlugin ELSE VariedPlugins[PairOf(c)]]]

ASSUME BatchAssumption ==
  /\ Comparative \in BOOLEAN
  /\ VariedPlugins \in Seq(Slots \ {FixedPlugin})
  /\ \A i, j \in DOMAIN VariedPlugins : VariedPlugins[i] = VariedPlugins[j] => i = j
  /\ CellsPerPair \in Nat /\ RequestedThreads \in Nat
  /\ Adopted \subseteq Slots
  /\ MaxRegistered \in Nat \ {0}
  /\ Faults \subseteq {"open fails", "odd registrations", "run throws", "run reports errors"}
  /\ None \notin Slots /\ None \notin Cells

VARIABLES
  cursor, at, index, spawned, joined, invoked, completed,     \* the executor's
  state, pending, attempts, factory, mapped, opens, closes, peak, registrar, mutex, before,
  loadErrors, runErrors, lifecycle, pc, role, instance, failing, result, phase,  \* the registry's
  report            \* the summary of the mode report, once it is written

executorVars == <<cursor, at, index, spawned, joined, invoked, completed>>
registryVars == <<state, pending, attempts, factory, mapped, opens, closes, peak, registrar,
                  mutex, before, loadErrors, runErrors, lifecycle, pc, role, instance, failing,
                  result, phase>>
vars == <<executorVars, registryVars, report>>

Executor == INSTANCE TaskExecutor WITH pc <- at, LeftoverCursors <- {0}
Registry == INSTANCE PluginRegistry

Unwritten == [failed |-> {}, outcomes |-> {}, written |-> FALSE]

TypeOK ==
  /\ Executor!TypeOK
  /\ Registry!TypeOK
  /\ report.written \in BOOLEAN
  /\ report.failed \subseteq Slots
  /\ report.outcomes \subseteq Pairs

Init ==
  /\ Executor!Init
  /\ Registry!Init
  /\ report = Unwritten

-----------------------------------------------------------------------------

(* The uses of every pair are reserved before a thread starts. *)
Reserve ==
  /\ Registry!Reserve
  /\ UNCHANGED <<executorVars, report>>

(* forEach is called: it decides its schedule, starts workers and waits. *)
Schedule ==
  /\ phase = "dispatched"
  /\ Executor!Begin \/ Executor!SpawnWorker \/ Executor!SpawnFails
       \/ Executor!JoinWorker \/ Executor!JoinedAll
  /\ UNCHANGED <<registryVars, report>>

(* A thread claims the next cell and enters runCell, or finds none left. *)
ClaimCell(t) ==
  /\ Executor!Claim(t)
  /\ IF cursor < TaskCount THEN Registry!Start(cursor) ELSE UNCHANGED registryVars
  /\ UNCHANGED report

(* The thread goes on inside runCell. *)
StepCell(t) ==
  /\ at[t] = "body"
  /\ Registry!Ensure(index[t]) \/ Registry!Run(index[t]) \/ Registry!Release(index[t])
  /\ UNCHANGED <<executorVars, report>>

(* runCell has returned. *)
LeaveCell(t) ==
  /\ at[t] = "body" /\ pc[index[t]] = "done"
  /\ Executor!FinishBody(t)
  /\ UNCHANGED <<registryVars, report>>

FailedSlots == {s \in Slots : state[s] = "Failed"}

(* A bug: the results of a plugin that never loaded are summarised too. *)
ReportFailedPairsToo ==
  /\ Executor!Returned
  /\ ~report.written
  /\ report' =
       [failed |-> {FixedPlugin} \cap FailedSlots,
        outcomes |-> Pairs,
        written |-> TRUE]
  /\ UNCHANGED <<executorVars, registryVars>>

(* After the join: the fixed plugin is named if it failed, and each varied  *)
(* plugin that did; every other pair has its results summarised.            *)
Report ==
  /\ Executor!Returned
  /\ ~report.written
  /\ report' =
       [failed |-> FailedSlots,
        outcomes |-> {i \in Pairs : VariedPlugins[i] \notin FailedSlots},
        written |-> TRUE]
  /\ UNCHANGED <<executorVars, registryVars>>

(* main's teardown, once execute has returned. *)
Teardown ==
  /\ report.written
  /\ Registry!ClearRegistrar \/ Registry!ReleaseAll
  /\ UNCHANGED <<executorVars, report>>

Terminated == phase = "swept" /\ UNCHANGED vars

Next ==
  \/ Reserve \/ Schedule \/ Report \/ Teardown \/ Terminated
  \/ \E t \in Executor!Threads : ClaimCell(t) \/ StepCell(t) \/ LeaveCell(t)

Spec == Init /\ [][Next]_vars

(* The executor's fairness and the registry's, in the terms of the batch:   *)
(* every thread goes on while it can, and nothing asks a spawn to fail.     *)
FairSpec ==
  /\ Spec
  /\ WF_vars(Reserve \/ Report \/ Teardown)
  /\ WF_vars(Schedule /\ ~Executor!SpawnFails)
  /\ \A t \in Executor!Threads : WF_vars(ClaimCell(t) \/ StepCell(t) \/ LeaveCell(t))

-----------------------------------------------------------------------------
(* Once a worker has been started, no more libraries are mapped at any time *)
(* than threads are alive (PluginLibrary.h, peak_open): at most one varied  *)
(* plugin per worker and the fixed one.  Cells are claimed in table order,  *)
(* so a pair between two of its cells is one no other worker is busy with.  *)
(* Without a worker it does not hold: one run alone has two libraries.      *)
PeakWithinLiveThreads == spawned > 0 => peak <= spawned + 1

(* The fixed plugin is the last library to be unloaded (buildManagers): it  *)
(* is so in the comparative mode, whose fixed plugin is the one each run    *)
(* gives back last, but not in the competitive mode.                        *)
FixedPluginGoesLast ==
  state[FixedPlugin] = "Unloaded" => \A s \in Slots : ~mapped[s]

(* The summary has every varied plugin, either among the failures or among  *)
(* the outcomes, and no outcome is summarised from an unwritten result.     *)
ReportAccountsForEveryPlugin ==
  report.written => \A i \in Pairs :
    /\ VariedPlugins[i] \in report.failed <=> state[VariedPlugins[i]] = "Failed"
    /\ i \in report.outcomes <=> VariedPlugins[i] \notin report.failed
    /\ i \in report.outcomes => \A c \in RangeOf(i) : result[c] # "default"

(* A pair among the outcomes is there on its own plugin's merit: a run of   *)
(* it was turned away only because the fixed plugin failed, which is named  *)
(* then, and all of its runs have the error score.                          *)
BlameFallsOnTheRightPlugin ==
  report.written => \A i \in report.outcomes : \A c \in RangeOf(i) :
    /\ failing[c] = "unavailable" <=> FixedPlugin \in report.failed
    /\ FixedPlugin \in report.failed => result[c] = "error"

(* What each component assumes of the other is granted, whatever fails: a   *)
(* body that was entered ends, every cell of the table is started, and when *)
(* forEach returns every cell has given back what it borrowed, which is the *)
(* guard of the registry's teardown (main needs no check of its own).  The  *)
(* waits in join() and for load_mutex_ never close into a circle.           *)
EachServesTheOther == Executor!FairSpec /\ Registry!FairSpec

=============================================================================
