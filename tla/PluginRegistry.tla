--------------------------- MODULE PluginRegistry ---------------------------
(***************************************************************************)
(* The life of the plugin libraries during a batch: PluginRegistry with    *)
(* its slots, the process-wide Registrar, the dlopen/dlclose counters, and *)
(* the runs that borrow from it (SimulationManager::runCell, the factory's *)
(* create and PluginUseGuard).                                             *)
(*                                                                         *)
(* A cell of the task table is run once, by one thread, so the cell stands *)
(* for the thread that runs it.  Any number of cells may be in flight at   *)
(* once here, which covers every schedule of every executor; the bound on  *)
(* them is SimulationBatch's.  A step is one atomic access to state_ or    *)
(* pending_uses_, or a stretch of code between two of those under          *)
(* load_mutex_.                                                            *)
(***************************************************************************)
EXTENDS Integers, Sequences, FiniteSets

CONSTANTS
  Slots,          \* the plugin files discovered, and the factories adopted
  Cells,          \* the runs of the task table
  KindOf,         \* what each slot is expected to register
  Plugin,         \* Plugin[c][k]: the slot of kind k that cell c borrows
  Adopted,        \* the slots with a factory and no file
  MaxRegistered,  \* most factories of a kind one library registers
  Faults,         \* what may go wrong outside this code
  None            \* no slot, no cell

Kinds == {"algorithm", "mission control"}

ASSUME RegistryAssumption ==
  /\ IsFiniteSet(Cells) /\ IsFiniteSet(Slots)
  /\ KindOf \in [Slots -> Kinds]
  /\ Plugin \in [Cells -> [Kinds -> Slots]]
  /\ \A c \in Cells, k \in Kinds : KindOf[Plugin[c][k]] = k
  /\ Adopted \subseteq Slots
  /\ MaxRegistered \in Nat \ {0}
  /\ Faults \subseteq {"open fails", "odd registrations", "run throws", "run reports errors"}
  /\ None \notin Slots /\ None \notin Cells

(* The cells that will ever borrow a slot. *)
UsersOf(s) == {c \in Cells : Plugin[c][KindOf[s]] = s}

VARIABLES
  state,        \* PluginSlot::state_
  pending,      \* pending_uses_
  attempts,     \* load_attempts_
  factory,      \* the library whose factory the slot holds, or None
  mapped,       \* whether the slot's library is mapped
  opens,        \* g_opens
  closes,       \* g_closes
  peak,         \* g_peak_open
  registrar,    \* Registrar: the libraries of the unclaimed factories, by kind
  mutex,        \* the cell whose thread holds load_mutex_, or None
  before,       \* loadLocked's two counts, per thread
  loadErrors,   \* PLUGIN_LOAD_FAILED lines, by slot
  runErrors,    \* lines logged about a run itself, by cell
  lifecycle,    \* plugin_lifecycle.log: the lines about each slot
  pc,           \* where the thread that runs a cell stands
  role,         \* the kind it is acquiring or giving back
  instance,     \* the library each of the run's two plugin objects comes from
  failing,      \* the exception the cell is being unwound by
  result,       \* the cell's result slot in the task table
  phase         \* what main has done

slotVars   == <<state, pending, attempts, factory>>
loaderVars == <<mapped, opens, closes, peak>>
logVars    == <<loadErrors, runErrors, lifecycle>>
runVars    == <<instance, failing, result>>
vars == <<slotVars, loaderVars, registrar, mutex, before, logVars, pc, role, runVars, phase>>

LoadLabels    == {"locked", "open", "judge", "reject", "publish", "recordLoad",
                  "reportFailure", "answer"}
UnloadLabels  == {"unload", "close", "retire"}
ReleaseLabels == {"release", "lockUnload"} \cup UnloadLabels
Labels == {"idle", "check", "checkAgain", "lock", "prepare", "algorithmMade", "running",
           "unwind", "done"} \cup LoadLabels \cup ReleaseLabels

TypeOK ==
  /\ state \in [Slots -> {"NotLoaded", "Loaded", "Failed", "Unloaded"}]
  /\ pending \in [Slots -> Nat]
  /\ attempts \in [Slots -> Nat]
  /\ factory \in [Slots -> Slots \cup {None}]
  /\ mapped \in [Slots -> BOOLEAN]
  /\ opens \in Nat /\ closes \in Nat /\ peak \in Nat
  /\ registrar \in [Kinds -> Seq(Slots)]
  /\ mutex \in Cells \cup {None}
  /\ before \in [Cells -> [Kinds -> Nat]]
  /\ loadErrors \in [Slots -> Nat]
  /\ runErrors \in [Cells -> Nat]
  /\ lifecycle \in [Slots -> Seq({"LOAD", "LOAD_FAILED", "UNLOAD"})]
  /\ pc \in [Cells -> Labels]
  /\ role \in [Cells -> Kinds]
  /\ instance \in [Cells -> [Kinds -> Slots \cup {None}]]
  /\ failing \in [Cells -> {"none", "unavailable", "exception"}]
  /\ result \in [Cells -> {"default", "scored", "error"}]
  /\ phase \in {"discovered", "dispatched", "cleared", "swept"}

(* Every slot has been discovered or adopted; nothing is loaded yet. *)
Init ==
  /\ state = [s \in Slots |-> IF s \in Adopted THEN "Loaded" ELSE "NotLoaded"]
  /\ pending = [s \in Slots |-> 0]
  /\ attempts = [s \in Slots |-> 0]
  /\ factory = [s \in Slots |-> IF s \in Adopted THEN s ELSE None]
  /\ mapped = [s \in Slots |-> FALSE]
  /\ opens = 0 /\ closes = 0 /\ peak = 0
  /\ registrar = [k \in Kinds |-> <<>>]
  /\ mutex = None
  /\ before = [c \in Cells |-> [k \in Kinds |-> 0]]
  /\ loadErrors = [s \in Slots |-> 0]
  /\ runErrors = [c \in Cells |-> 0]
  /\ lifecycle = [s \in Slots |-> <<>>]
  /\ pc = [c \in Cells |-> "idle"]
  /\ role = [c \in Cells |-> "algorithm"]
  /\ instance = [c \in Cells |-> [k \in Kinds |-> None]]
  /\ failing = [c \in Cells |-> "none"]
  /\ result = [c \in Cells |-> "default"]
  /\ phase = "discovered"

-----------------------------------------------------------------------------
(* Small pieces the actions share. *)

Target(c) == Plugin[c][role[c]]

Goto(c, from, to) ==
  /\ pc[c] = from
  /\ pc' = [pc EXCEPT ![c] = to]

Lock(c) ==
  /\ mutex = None
  /\ mutex' = c

(* dlopen succeeded: PluginLibrary's constructor and countOpen. *)
CountOpen(s) ==
  /\ mapped' = [mapped EXCEPT ![s] = TRUE]
  /\ opens' = opens + 1
  /\ peak' = IF peak < opens + 1 - closes THEN opens + 1 - closes ELSE peak
  /\ UNCHANGED closes

(* PluginLibrary::close, which finds nothing to close in an adopted slot. *)
CountClose(s) ==
  /\ mapped' = [mapped EXCEPT ![s] = FALSE]
  /\ closes' = closes + IF mapped[s] THEN 1 ELSE 0
  /\ UNCHANGED <<opens, peak>>

Record(event, s) == lifecycle' = [lifecycle EXCEPT ![s] = Append(@, event)]

(* create has one plugin more, or both: algorithm first. *)
Acquired(c) ==
  /\ pc' = [pc EXCEPT ![c] = IF role[c] = "algorithm" THEN "check" ELSE "prepare"]
  /\ role' = [role EXCEPT ![c] = "mission control"]
  /\ UNCHANGED failing

(* acquire returned nullptr: create throws PluginUnavailable. *)
Unavailable(c) ==
  /\ pc' = [pc EXCEPT ![c] = "unwind"]
  /\ failing' = [failing EXCEPT ![c] = "unavailable"]
  /\ UNCHANGED role

(* The last read of state_ in ensureLoaded decides what acquire returns. *)
Answer(c) ==
  IF state[Target(c)] = "Loaded" THEN Acquired(c) ELSE Unavailable(c)

(* ~PluginUseGuard: the mission control's use goes back first. *)
NextRelease(c) ==
  /\ pc' = [pc EXCEPT ![c] = IF role[c] = "mission control" THEN "release" ELSE "done"]
  /\ role' = [role EXCEPT ![c] = "algorithm"]

-----------------------------------------------------------------------------
(* SimulationOrchestrator::execute before and after the batch, and main. *)

(* A bug the documentation warns of: one use too few is reserved. *)
ReserveOneTooFew ==
  /\ phase = "discovered"
  /\ pending' = [s \in Slots |->
       pending[s] + IF Cardinality(UsersOf(s)) > 1 THEN Cardinality(UsersOf(s)) - 1
                                                    ELSE Cardinality(UsersOf(s))]
  /\ phase' = "dispatched"
  /\ UNCHANGED <<state, attempts, factory, loaderVars, registrar, mutex, before, logVars,
                 pc, role, runVars>>

(* Every pair reserves, for each of its two slots, one use per cell of its *)
(* range, before any thread starts: a slot gets one per cell that borrows  *)
(* it.                                                                     *)
Reserve ==
  /\ phase = "discovered"
  /\ pending' = [s \in Slots |-> pending[s] + Cardinality(UsersOf(s))]
  /\ phase' = "dispatched"
  /\ UNCHANGED <<state, attempts, factory, loaderVars, registrar, mutex, before, logVars,
                 pc, role, runVars>>

(* A thread takes the cell: runCell is entered and its guard constructed. *)
Start(c) ==
  /\ phase = "dispatched"
  /\ Goto(c, "idle", "check")
  /\ UNCHANGED <<slotVars, loaderVars, registrar, mutex, before, logVars, role, runVars,
                 phase>>

BatchOver == phase # "discovered" /\ \A c \in Cells : pc[c] = "done"

(* Registrar::clear, once every worker is joined. *)
ClearRegistrar ==
  /\ phase = "dispatched"
  /\ BatchOver
  /\ registrar' = [k \in Kinds |-> <<>>]
  /\ phase' = "cleared"
  /\ UNCHANGED <<slotVars, loaderVars, mutex, before, logVars, pc, role, runVars>>

(* releaseAll, on main, when no other thread is left: unloadLocked on every *)
(* slot.                                                                    *)
ReleaseAll ==
  /\ phase = "cleared"
  /\ state' = [s \in Slots |-> IF state[s] = "Loaded" THEN "Unloaded" ELSE state[s]]
  /\ factory' = [s \in Slots |-> IF state[s] = "Loaded" THEN None ELSE factory[s]]
  /\ mapped' = [s \in Slots |-> mapped[s] /\ state[s] # "Loaded"]
  /\ closes' = closes + Cardinality({s \in Slots : mapped[s] /\ state[s] = "Loaded"})
  /\ lifecycle' = [s \in Slots |-> IF state[s] = "Loaded" /\ s \notin Adopted
                                     THEN Append(lifecycle[s], "UNLOAD") ELSE lifecycle[s]]
  /\ phase' = "swept"
  /\ UNCHANGED <<pending, attempts, opens, peak, registrar, mutex, before, loadErrors,
                 runErrors, pc, role, runVars>>

-----------------------------------------------------------------------------
(* ensureLoaded: the double-checked load. *)

(* The lock-free read.  A slot of the other kind is refused before it. *)
Check(c) ==
  /\ pc[c] = "check"
  /\ IF KindOf[Target(c)] # role[c] THEN Unavailable(c)
     ELSE /\ Goto(c, "check", IF state[Target(c)] = "NotLoaded" THEN "lock" ELSE "checkAgain")
          /\ UNCHANGED <<role, failing>>
  /\ UNCHANGED <<slotVars, loaderVars, registrar, mutex, before, logVars, instance, result,
                 phase>>

(* The fast path reads the state a second time to answer. *)
CheckAgain(c) ==
  /\ pc[c] = "checkAgain"
  /\ Answer(c)
  /\ UNCHANGED <<slotVars, loaderVars, registrar, mutex, before, logVars, instance, result,
                 phase>>

LockToLoad(c) ==
  /\ Lock(c)
  /\ Goto(c, "lock", "locked")
  /\ UNCHANGED <<slotVars, loaderVars, registrar, before, logVars, role, runVars, phase>>

(* A bug the second check guards against: the winner of the race loaded it. *)
LoadWithoutLookingAgain(c) ==
  /\ Goto(c, "locked", "open")
  /\ attempts' = [attempts EXCEPT ![Target(c)] = @ + 1]
  /\ before' = [before EXCEPT ![c] = [k \in Kinds |-> Len(registrar[k])]]
  /\ UNCHANGED <<state, pending, factory, loaderVars, registrar, mutex, logVars, role, runVars,
                 phase>>

(* Under the lock the state is read again; loadLocked counts the attempt   *)
(* and notes how many factories the registrar holds.                       *)
LookAgain(c) ==
  /\ Goto(c, "locked", IF state[Target(c)] = "NotLoaded" THEN "open" ELSE "answer")
  /\ IF state[Target(c)] = "NotLoaded"
       THEN /\ attempts' = [attempts EXCEPT ![Target(c)] = @ + 1]
            /\ before' = [before EXCEPT ![c] = [k \in Kinds |-> Len(registrar[k])]]
       ELSE UNCHANGED <<attempts, before>>
  /\ UNCHANGED <<state, pending, factory, loaderVars, registrar, mutex, logVars, role, runVars,
                 phase>>

(* How many factories of each kind the static initialisers of a library for *)
(* kind k may register: one of that kind, or anything.                      *)
Registrations(k) ==
  IF "odd registrations" \in Faults THEN [Kinds -> 0 .. MaxRegistered]
  ELSE {[l \in Kinds |-> IF l = k THEN 1 ELSE 0]}

(* dlopen maps the library, whose initialisers call the registrar. *)
OpenLibrary(c) ==
  \E count \in Registrations(KindOf[Target(c)]) :
    /\ Goto(c, "open", "judge")
    /\ CountOpen(Target(c))
    /\ registrar' = [k \in Kinds |-> registrar[k] \o [i \in 1 .. count[k] |-> Target(c)]]
    /\ UNCHANGED <<slotVars, mutex, before, logVars, role, runVars, phase>>

(* dlopen fails, and the slot with it. *)
OpenFails(c) ==
  /\ "open fails" \in Faults
  /\ Goto(c, "open", "reportFailure")
  /\ state' = [state EXCEPT ![Target(c)] = "Failed"]
  /\ UNCHANGED <<pending, attempts, factory, loaderVars, registrar, mutex, before, logVars,
                 role, runVars, phase>>

Registered(c, k) == Len(registrar[k]) - before[c][k]

(* Exactly one factory appeared, of the kind the slot is for. *)
Usable(c) ==
  \A k \in Kinds : Registered(c, k) = IF k = KindOf[Target(c)] THEN 1 ELSE 0

(* A bug the claim's count guards against: any registration will do. *)
ClaimAnything(c) ==
  /\ registrar[KindOf[Target(c)]] # <<>>
  /\ Goto(c, "judge", "publish")
  /\ LET k == KindOf[Target(c)] IN
       /\ factory' = [factory EXCEPT ![Target(c)] = registrar[k][Len(registrar[k])]]
       /\ registrar' = [registrar EXCEPT ![k] = SubSeq(@, 1, Len(@) - 1)]
  /\ UNCHANGED <<state, pending, attempts, loaderVars, mutex, before, logVars, role, runVars,
                 phase>>

(* takeLast on the one kind that registered, into the slot. *)
Claim(c) ==
  /\ Usable(c)
  /\ Goto(c, "judge", "publish")
  /\ LET k == KindOf[Target(c)] IN
       /\ factory' = [factory EXCEPT ![Target(c)] = registrar[k][Len(registrar[k])]]
       /\ registrar' = [registrar EXCEPT ![k] = SubSeq(@, 1, Len(@) - 1)]
  /\ UNCHANGED <<state, pending, attempts, loaderVars, mutex, before, logVars, role, runVars,
                 phase>>

(* Anything else: the strays are dropped while the library is still mapped. *)
DropStrays(c) ==
  /\ ~Usable(c)
  /\ Goto(c, "judge", "reject")
  /\ registrar' = [k \in Kinds |-> SubSeq(registrar[k], 1, before[c][k])]
  /\ UNCHANGED <<slotVars, loaderVars, mutex, before, logVars, role, runVars, phase>>

(* The rejected library is unmapped and the slot marked. *)
CloseRejected(c) ==
  /\ Goto(c, "reject", "reportFailure")
  /\ CountClose(Target(c))
  /\ state' = [state EXCEPT ![Target(c)] = "Failed"]
  /\ UNCHANGED <<pending, attempts, factory, registrar, mutex, before, logVars, role, runVars,
                 phase>>

(* Both failure paths end in one line in each log. *)
ReportFailure(c) ==
  /\ Goto(c, "reportFailure", "answer")
  /\ loadErrors' = [loadErrors EXCEPT ![Target(c)] = @ + 1]
  /\ Record("LOAD_FAILED", Target(c))
  /\ UNCHANGED <<slotVars, loaderVars, registrar, mutex, before, runErrors, role, runVars,
                 phase>>

(* The release store: from here the lock-free readers see the slot loaded. *)
Publish(c) ==
  /\ Goto(c, "publish", "recordLoad")
  /\ state' = [state EXCEPT ![Target(c)] = "Loaded"]
  /\ UNCHANGED <<pending, attempts, factory, loaderVars, registrar, mutex, before, logVars,
                 role, runVars, phase>>

(* lifecycle_.record, still under the lock. *)
RecordLoad(c) ==
  /\ Goto(c, "recordLoad", "answer")
  /\ Record("LOAD", Target(c))
  /\ UNCHANGED <<slotVars, loaderVars, registrar, mutex, before, loadErrors, runErrors, role,
                 runVars, phase>>

(* The last read of the state, and the lock is given up. *)
Unlock(c) ==
  /\ pc[c] = "answer"
  /\ mutex' = None
  /\ Answer(c)
  /\ UNCHANGED <<slotVars, loaderVars, registrar, before, logVars, instance, result, phase>>

-----------------------------------------------------------------------------
(* SimulationManager::runCell between the two acquisitions and the guard's  *)
(* destructor.                                                              *)

(* create's maps and sensors are built, then the algorithm, by the factory  *)
(* the acquired pointer leads to.                                           *)
MakeAlgorithm(c) ==
  /\ Goto(c, "prepare", "algorithmMade")
  /\ instance' = [instance EXCEPT ![c]["algorithm"] = factory[Plugin[c]["algorithm"]]]
  /\ UNCHANGED <<slotVars, loaderVars, registrar, mutex, before, logVars, role, failing, result,
                 phase>>

MakeMissionControl(c) ==
  /\ Goto(c, "algorithmMade", "running")
  /\ instance' = [instance EXCEPT
       ![c]["mission control"] = factory[Plugin[c]["mission control"]]]
  /\ UNCHANGED <<slotVars, loaderVars, registrar, mutex, before, logVars, role, failing, result,
                 phase>>

(* run() returns: the errors it reports are logged, at most one of them     *)
(* here, and the result is stored before the run is destroyed.              *)
RunReturns(c) ==
  /\ Goto(c, "running", "unwind")
  /\ result' = [result EXCEPT ![c] = "scored"]
  /\ \E lines \in IF "run reports errors" \in Faults THEN {0, 1} ELSE {0} :
       runErrors' = [runErrors EXCEPT ![c] = @ + lines]
  /\ UNCHANGED <<slotVars, loaderVars, registrar, mutex, before, loadErrors, lifecycle, role,
                 instance, failing, phase>>

(* A map that cannot be read, a factory or the run itself throws. *)
RunThrows(c) ==
  /\ "run throws" \in Faults
  /\ pc[c] \in {"prepare", "algorithmMade", "running"}
  /\ pc' = [pc EXCEPT ![c] = "unwind"]
  /\ failing' = [failing EXCEPT ![c] = "exception"]
  /\ UNCHANGED <<slotVars, loaderVars, registrar, mutex, before, logVars, role, instance,
                 result, phase>>

(* The run's two plugin objects die, the mission control first. *)
DestroyInstance(c) ==
  /\ pc[c] = "unwind"
  /\ \E k \in Kinds :
       /\ instance[c][k] # None
       /\ k = "algorithm" => instance[c]["mission control"] = None
       /\ instance' = [instance EXCEPT ![c][k] = None]
  /\ UNCHANGED <<slotVars, loaderVars, registrar, mutex, before, logVars, pc, role, failing,
                 result, phase>>

Torn(c) == \A k \in Kinds : instance[c][k] = None

(* A bug the order of declarations guards against: the use is given back   *)
(* while the run is still alive.                                           *)
LeaveTryEarly(c) ==
  /\ failing[c] = "none"
  /\ Goto(c, "unwind", "release")
  /\ role' = [role EXCEPT ![c] = "mission control"]
  /\ UNCHANGED <<slotVars, loaderVars, registrar, mutex, before, logVars, runVars, phase>>

(* The run is gone and nothing was thrown: the guard's destructor is next. *)
LeaveTry(c) ==
  /\ failing[c] = "none"
  /\ Torn(c)
  /\ Goto(c, "unwind", "release")
  /\ role' = [role EXCEPT ![c] = "mission control"]
  /\ UNCHANGED <<slotVars, loaderVars, registrar, mutex, before, logVars, runVars, phase>>

(* Bugs in the handlers: a load failure is logged again by each of its     *)
(* runs; and a failure leaves the slot as seal made it.                    *)
CatchLoggingEverything(c) ==
  /\ failing[c] # "none"
  /\ Torn(c)
  /\ Goto(c, "unwind", "release")
  /\ role' = [role EXCEPT ![c] = "mission control"]
  /\ result' = [result EXCEPT ![c] = "error"]
  /\ runErrors' = [runErrors EXCEPT ![c] = @ + 1]
  /\ UNCHANGED <<slotVars, loaderVars, registrar, mutex, before, loadErrors, lifecycle,
                 instance, failing, phase>>

CatchWithoutResult(c) ==
  /\ failing[c] # "none"
  /\ Torn(c)
  /\ Goto(c, "unwind", "release")
  /\ role' = [role EXCEPT ![c] = "mission control"]
  /\ UNCHANGED <<slotVars, loaderVars, registrar, mutex, before, logVars, runVars, phase>>

(* The handler: the error result, and a line unless the plugin's own load   *)
(* failure has already been reported.                                       *)
Catch(c) ==
  /\ failing[c] # "none"
  /\ Torn(c)
  /\ Goto(c, "unwind", "release")
  /\ role' = [role EXCEPT ![c] = "mission control"]
  /\ result' = [result EXCEPT ![c] = "error"]
  /\ runErrors' = [runErrors EXCEPT ![c] = @ + IF failing[c] = "exception" THEN 1 ELSE 0]
  /\ UNCHANGED <<slotVars, loaderVars, registrar, mutex, before, loadErrors, lifecycle,
                 instance, failing, phase>>

-----------------------------------------------------------------------------
(* ~PluginUseGuard: release on each of the two slots. *)

(* A bug in the last release: the last use does not unload. *)
GiveBackAndKeep(c) ==
  /\ pc[c] = "release"
  /\ pending' = [pending EXCEPT ![Target(c)] = @ - 1]
  /\ NextRelease(c)
  /\ UNCHANGED <<state, attempts, factory, loaderVars, registrar, mutex, before, logVars,
                 runVars, phase>>

(* fetch_sub: whoever gives back the last use goes on to unload. *)
GiveBack(c) ==
  /\ pc[c] = "release"
  /\ pending' = [pending EXCEPT ![Target(c)] = @ - 1]
  /\ IF pending[Target(c)] = 1
       THEN /\ Goto(c, "release", "lockUnload")
            /\ UNCHANGED role
       ELSE NextRelease(c)
  /\ UNCHANGED <<state, attempts, factory, loaderVars, registrar, mutex, before, logVars,
                 runVars, phase>>

LockToUnload(c) ==
  /\ Lock(c)
  /\ Goto(c, "lockUnload", "unload")
  /\ UNCHANGED <<slotVars, loaderVars, registrar, before, logVars, role, runVars, phase>>

(* A bug in the early return: the lock is not given up. *)
NothingToUnloadKeepingLock(c) ==
  /\ pc[c] = "unload"
  /\ state[Target(c)] # "Loaded"
  /\ NextRelease(c)
  /\ UNCHANGED <<slotVars, loaderVars, registrar, mutex, before, logVars, runVars, phase>>

(* unloadLocked: a slot that never loaded, or failed, has nothing to unmap. *)
NothingToUnload(c) ==
  /\ pc[c] = "unload"
  /\ state[Target(c)] # "Loaded"
  /\ mutex' = None
  /\ NextRelease(c)
  /\ UNCHANGED <<slotVars, loaderVars, registrar, before, logVars, runVars, phase>>

(* The slot's factory dies first, *)
ClearFactory(c) ==
  /\ state[Target(c)] = "Loaded"
  /\ Goto(c, "unload", "close")
  /\ factory' = [factory EXCEPT ![Target(c)] = None]
  /\ UNCHANGED <<state, pending, attempts, loaderVars, registrar, mutex, before, logVars, role,
                 runVars, phase>>

(* then the library is unmapped, *)
CloseLibrary(c) ==
  /\ Goto(c, "close", "retire")
  /\ CountClose(Target(c))
  /\ UNCHANGED <<slotVars, registrar, mutex, before, logVars, role, runVars, phase>>

(* A bug in the audit trail: an adopted slot has a line too. *)
RetireAlwaysRecording(c) ==
  /\ pc[c] = "retire"
  /\ state' = [state EXCEPT ![Target(c)] = "Unloaded"]
  /\ Record("UNLOAD", Target(c))
  /\ mutex' = None
  /\ NextRelease(c)
  /\ UNCHANGED <<pending, attempts, factory, loaderVars, registrar, before, loadErrors,
                 runErrors, runVars, phase>>

(* and the slot is retired; an adopted one leaves no line in the log. *)
Retire(c) ==
  /\ pc[c] = "retire"
  /\ state' = [state EXCEPT ![Target(c)] = "Unloaded"]
  /\ IF Target(c) \in Adopted THEN UNCHANGED lifecycle ELSE Record("UNLOAD", Target(c))
  /\ mutex' = None
  /\ NextRelease(c)
  /\ UNCHANGED <<pending, attempts, factory, loaderVars, registrar, before, loadErrors,
                 runErrors, runVars, phase>>

-----------------------------------------------------------------------------

(* Everything is over. *)
Terminated == phase = "swept" /\ UNCHANGED vars

Ensure(c) ==
  \/ Check(c) \/ CheckAgain(c) \/ LockToLoad(c) \/ LookAgain(c)
  \/ OpenLibrary(c) \/ OpenFails(c) \/ Claim(c) \/ DropStrays(c) \/ CloseRejected(c)
  \/ ReportFailure(c) \/ Publish(c) \/ RecordLoad(c) \/ Unlock(c)

Run(c) ==
  \/ MakeAlgorithm(c) \/ MakeMissionControl(c) \/ RunReturns(c) \/ RunThrows(c)
  \/ DestroyInstance(c) \/ LeaveTry(c) \/ Catch(c)

Release(c) ==
  \/ GiveBack(c) \/ LockToUnload(c) \/ NothingToUnload(c)
  \/ ClearFactory(c) \/ CloseLibrary(c) \/ Retire(c)

Next ==
  \/ Reserve \/ ClearRegistrar \/ ReleaseAll \/ Terminated
  \/ \E c \in Cells : Start(c) \/ Ensure(c) \/ Run(c) \/ Release(c)

Spec == Init /\ [][Next]_vars

(* Every thread goes on while it can, and so does main.  The mutex needs no *)
(* strong fairness: a cell takes it four times at most, so every wait ends  *)
(* when the others have no more use for it.                                 *)
FairSpec ==
  /\ Spec
  /\ WF_vars(Reserve \/ ClearRegistrar \/ ReleaseAll)
  /\ \A c \in Cells : WF_vars(Start(c) \/ Ensure(c) \/ Run(c) \/ Release(c))

-----------------------------------------------------------------------------
(* What a run holds. *)

AcquireLabels == {"check", "checkAgain", "lock"} \cup LoadLabels
BorrowLabels  == {"prepare", "algorithmMade", "running"}

(* The cell's acquire for kind k has returned a factory, and the code that *)
(* factory leads to may still be called: the run is not torn down yet.     *)
Using(c, k) ==
  \/ pc[c] \in BorrowLabels
  \/ pc[c] = "unwind" /\ failing[c] # "unavailable"
  \/ k = "algorithm" /\ role[c] = "mission control" /\ pc[c] \in AcquireLabels \cup {"unwind"}

(* The cell's use of kind k, reserved for it, has not been given back.  *)
Owes(c, k) ==
  /\ pc[c] # "done"
  /\ pc[c] \in ReleaseLabels =>
       \/ k = "algorithm" /\ (role[c] = "mission control" \/ pc[c] = "release")
       \/ k = "mission control" /\ role[c] = "mission control" /\ pc[c] = "release"

Owing(s) == {c \in UsersOf(s) : Owes(c, KindOf[s])}

Callable(s) == mapped[s] \/ s \in Adopted

-----------------------------------------------------------------------------
(* No code pointer leads into an unmapped library: neither a live plugin    *)
(* object of some run, nor a slot's factory, nor a factory waiting in the   *)
(* Registrar, at any point between two steps of any thread.  The dlclose of *)
(* unloadLocked and of a rejected load are the ones that could break it.    *)
NoDanglingCode ==
  /\ \A c \in Cells, k \in Kinds : instance[c][k] # None => Callable(instance[c][k])
  /\ \A s \in Slots : factory[s] # None => Callable(factory[s])
  /\ \A k \in Kinds : \A i \in DOMAIN registrar[k] : Callable(registrar[k][i])

(* A slot serves the factory of its own library, and so does every run that *)
(* borrows it.  The Registrar does not say which library a factory came     *)
(* from: loadLocked tells by counting, which is sound one load at a time.   *)
OwnFactory ==
  /\ \A s \in Slots : factory[s] \in {s, None}
  /\ \A c \in Cells, k \in Kinds : instance[c][k] \in {Plugin[c][k], None}

(* The pointer acquire returned stays good until the run is torn down: the  *)
(* slot is still loaded and the factory behind the pointer still there,     *)
(* whatever the other runs of the plugin have given back in the meantime.   *)
BorrowedStaysLoaded ==
  \A c \in Cells, k \in Kinds : Using(c, k) =>
    state[Plugin[c][k]] = "Loaded" /\ factory[Plugin[c][k]] = Plugin[c][k]

(* However many runs need a plugin first, its library is opened once, and a *)
(* failure is final (load_attempts_ is "0 or 1 by construction").           *)
LoadedAtMostOnce == \A s \in Slots : attempts[s] <= 1

(* A run is turned away for a plugin exactly when that plugin's one load    *)
(* failed: never because the library had already been unloaded again, and   *)
(* no run of a failed plugin gets through on a second try.                  *)
OneVerdictPerPlugin ==
  \A c \in Cells : pc[c] = "done" =>
    (failing[c] = "unavailable" <=> \E k \in Kinds : state[Plugin[c][k]] = "Failed")

(* A failed load has one line in the error log, however many runs it takes  *)
(* down; a run that is taken down for another reason has its own.           *)
EachFailureLoggedOnce ==
  BatchOver =>
    /\ \A s \in Slots : loadErrors[s] = IF state[s] = "Failed" THEN 1 ELSE 0
    /\ \A c \in Cells :
         /\ failing[c] = "unavailable" => runErrors[c] = 0
         /\ failing[c] = "exception" => runErrors[c] = 1

(* The books of a finished batch balance.  Each slot's lines are nothing, a  *)
(* failed load, or a load and its unload, in that order, and never a line for *)
(* an adopted factory; every use is returned and every library unmapped; the  *)
(* only factories left are the ones nobody borrowed; and the two process-wide *)
(* counters agree with each other.                                            *)
AuditTrailBalances ==
  BatchOver =>
    /\ \A s \in Slots :
         /\ lifecycle[s] = IF state[s] = "Failed" THEN <<"LOAD_FAILED">>
                           ELSE IF attempts[s] = 1 THEN <<"LOAD", "UNLOAD">>
                           ELSE <<>>
         /\ pending[s] = 0 /\ ~mapped[s]
         /\ UsersOf(s) # {} => factory[s] = None
    /\ opens = closes

(* The Registrar is empty whenever the lock is free: a factory left behind  *)
(* would be taken for the next library's.                                   *)
RegistrarEmptyBetweenLoads == mutex = None => \A k \in Kinds : registrar[k] = <<>>

-----------------------------------------------------------------------------
(* The inductive invariant.  Every claim about a slot depends on where the *)
(* one thread that holds load_mutex_ stands, so each is stated with it.    *)

(* The holder of the mutex is exactly the thread inside the locked code;   *)
(* and which kind a cell is at before it acquires and while it borrows.    *)
MutexInv ==
  /\ \A c \in Cells : mutex = c <=> pc[c] \in LoadLabels \cup UnloadLabels
  /\ \A c \in Cells : pc[c] = "idle" => role[c] = "algorithm"
  /\ \A c \in Cells : pc[c] \in BorrowLabels => role[c] = "mission control"

(* The threads that stand at one of the labels, at slot s. *)
At(s, labels) == \E c \in Cells : pc[c] \in labels /\ Target(c) = s

(* pending_uses_ counts the cells that have not given their use back. *)
PendingInv ==
  \A s \in Slots : pending[s] = IF phase = "discovered" THEN 0 ELSE Cardinality(Owing(s))

(* What a slot's fields are, state by state. *)
SlotOK(s) ==
  /\ state[s] = "NotLoaded" =>
       /\ s \notin Adopted
       /\ factory[s] = IF At(s, {"publish"}) THEN s ELSE None
       /\ mapped[s] <=> At(s, {"judge", "reject", "publish"})
       /\ attempts[s] = IF At(s, {"open", "judge", "reject", "publish"}) THEN 1 ELSE 0
  /\ state[s] = "Loaded" =>
       /\ factory[s] = IF At(s, {"close", "retire"}) THEN None ELSE s
       /\ mapped[s] <=> s \notin Adopted /\ ~At(s, {"retire"})
       /\ attempts[s] = IF s \in Adopted THEN 0 ELSE 1
  /\ state[s] = "Failed" =>
       s \notin Adopted /\ factory[s] = None /\ ~mapped[s] /\ attempts[s] = 1
  /\ state[s] = "Unloaded" =>
       /\ factory[s] = None /\ ~mapped[s]
       /\ attempts[s] = IF s \in Adopted THEN 0 ELSE 1
       /\ phase # "swept" => Owing(s) = {}

SlotInv == \A s \in Slots : SlotOK(s)

(* What the place of a thread says of its slot's state. *)
PlaceOK(c) ==
  /\ pc[c] \in {"open", "judge", "reject", "publish"} => state[Target(c)] = "NotLoaded"
  /\ pc[c] = "reportFailure" => state[Target(c)] = "Failed"
  /\ pc[c] \in {"recordLoad", "close", "retire"} => state[Target(c)] = "Loaded"
  /\ pc[c] \in {"checkAgain", "answer"} => state[Target(c)] # "NotLoaded"
  /\ pc[c] \in {"lockUnload"} \cup UnloadLabels => Owing(Target(c)) = {}

PlaceInv == \A c \in Cells : PlaceOK(c)

(* The registrar holds what the library being loaded registered, no more. *)
RegistrarInv ==
  /\ \A k \in Kinds : \A i \in DOMAIN registrar[k] : At(registrar[k][i], {"judge"})
  /\ \A c \in Cells : pc[c] \in {"open", "judge"} => \A k \in Kinds : before[c][k] = 0

(* What a run holds, and why it was turned away. *)
RunOK(c, k) ==
  /\ Using(c, k) => state[Plugin[c][k]] = "Loaded"
  /\ instance[c][k] # None => instance[c][k] = Plugin[c][k] /\ Using(c, k)
  /\ pc[c] \in {"idle"} \cup AcquireLabels \cup BorrowLabels => failing[c] = "none"
  /\ pc[c] \in {"unwind", "done"} \cup ReleaseLabels =>
       IF failing[c] = "unavailable"
         THEN \E l \in Kinds : state[Plugin[c][l]] = "Failed"
         ELSE state[Plugin[c][k]] \in {"Loaded", "Unloaded"}
  /\ failing[c] = "unavailable" /\ pc[c] = "unwind" => state[Target(c)] = "Failed"
  /\ failing[c] = "none" /\ pc[c] = "unwind" => result[c] = "scored"
  /\ pc[c] \in ReleaseLabels \cup {"done"} =>
       result[c] = IF failing[c] = "none" THEN "scored" ELSE "error"

RunInv == \A c \in Cells, k \in Kinds : RunOK(c, k)

(* Nothing runs before the reservation or after the workers are joined. *)
PhaseInv ==
  /\ phase = "discovered" => \A c \in Cells : pc[c] = "idle"
  /\ phase \in {"cleared", "swept"} => \A c \in Cells : pc[c] = "done"

CodeInv ==
  TypeOK /\ MutexInv /\ PendingInv /\ SlotInv /\ PlaceInv /\ RegistrarInv /\ RunInv /\ PhaseInv

(* Some run that borrows the slot has been started. *)
Started(s) == \E c \in UsersOf(s) : pc[c] # "idle"

(* What the logs hold of a slot, state by state: the thread that changes   *)
(* the state writes the line, so the line is missing only while that thread *)
(* stands between the two.  And whoever gave back the last use of a loaded  *)
(* slot is on its way to unload it.                                         *)
SlotBooks(s) ==
  /\ state[s] = "NotLoaded" => lifecycle[s] = <<>>
  /\ state[s] = "Loaded" =>
       lifecycle[s] = IF s \in Adopted \/ At(s, {"recordLoad"}) THEN <<>> ELSE <<"LOAD">>
  /\ At(s, {"recordLoad"}) => s \notin Adopted
  /\ state[s] = "Failed" =>
       lifecycle[s] = IF At(s, {"reportFailure"}) THEN <<>> ELSE <<"LOAD_FAILED">>
  /\ state[s] = "Unloaded" =>
       lifecycle[s] = IF s \in Adopted THEN <<>> ELSE <<"LOAD", "UNLOAD">>
  /\ loadErrors[s] = IF state[s] = "Failed" /\ ~At(s, {"reportFailure"}) THEN 1 ELSE 0
  /\ attempts[s] = 1 => Started(s)
  /\ state[s] = "Loaded" /\ phase # "discovered" /\ UsersOf(s) # {} /\ Owing(s) = {} =>
       At(s, {"lockUnload"} \cup UnloadLabels)

(* A run's own lines: none before it ends, and one for an exception. *)
RunBooks(c) ==
  /\ failing[c] = "unavailable" => runErrors[c] = 0
  /\ failing[c] = "exception" => runErrors[c] = IF pc[c] = "unwind" THEN 0 ELSE 1
  /\ pc[c] \in {"idle"} \cup AcquireLabels \cup BorrowLabels => runErrors[c] = 0

(* The process-wide counters differ by the libraries that are mapped. *)
BooksInv ==
  /\ \A s \in Slots : SlotBooks(s)
  /\ \A c \in Cells : RunBooks(c)
  /\ opens - closes = Cardinality({s \in Slots : mapped[s]})

IInv == CodeInv /\ BooksInv

-----------------------------------------------------------------------------
(* The registry is one way to keep PluginLifecycle's promise. *)

OfferOf(s) ==
  CASE state[s] = "NotLoaded" -> "waiting"
    [] state[s] = "Loaded"    -> "offered"
    [] state[s] = "Failed"    -> "rejected"
    [] state[s] = "Unloaded"  -> "retired"

UsingOf(s) == {c \in UsersOf(s) : Using(c, KindOf[s])}

Lifecycle == INSTANCE PluginLifecycle WITH
  Needs <- [s \in Slots |-> UsersOf(s)],
  Ready <- Adopted,
  offer <- [s \in Slots |-> OfferOf(s)],
  using <- [s \in Slots |-> UsingOf(s)],
  owed <- [s \in Slots |-> Owing(s)]

(* The registry implements the lifecycle: every step of every thread is one *)
(* of its moves or invisible, and in the end nothing is owed or offered.    *)
KeepsTheLifecycle == Lifecycle!Spec

=============================================================================
