# Drone Mapper Simulator: the TLA+ project

The simulator runs a batch of missions: every plugin pair (a mapping algorithm
and a mission control, each compiled into a shared library of its own) against
every combination of simulation, mission, drone and lidar of a composition. In
the *comparative* mode one algorithm is fixed and the mission controls vary, in
the *competitive* mode it is the other way round. Runs are dispatched over a
pool of threads; a library is opened by the first run that needs it and closed
by the run that gives back its last use.

This directory holds the specifications of that program, the TLC models that
check them on small instances, and the TLAPS proofs of what matters most for
every instance.

## Inventory

| component (source) | state | operations | properties that make it correct |
|---|---|---|---|
| `ThreadPoolExecutor`, `InlineExecutor` (TaskExecutor) | the atomic cursor, the pool of one `forEach` | `workerCountFor`, `forEach`, `drain` | each index runs once and completely before the return, whatever spawns fail; no worker outlives the call; the caller never works beside a worker |
| `PluginRegistry`, `PluginSlot` | per file: load state, outstanding uses, attempts, factory, library handle; one mutex | `discover`, `adopt*`, `reserve`, `acquire*`, `release`, `releaseAll` | one load and one unload per file; no pointer into an unmapped library; one verdict per plugin; nothing mapped at the end |
| `Registrar` | unclaimed factories by kind | registration from static initialisers, `takeLast*`, `clear` | empty between loads, so that counting tells whose factory it is |
| `PluginLibrary` | a handle; process-wide counters of opens, closes, peak | `dlopen`, `dlclose` | counters agree; peak within the live threads |
| `PluginUseGuard`, `SimulationManager::runCell`, run factory, `SimulationRunImpl` | one run and its plugin objects; one result slot | create, run, catch, destroy, give back | plugin objects die before the use is given back; every slot has a result or an error |
| `SimulationTaskTable` | cells in contiguous ranges by pair, result slots | `append`, `closePluginRange`, `seal`, slices | a cell's result ends up with its own pair |
| `SimulationOrchestrator`, `main` | pairs, summary input | build, reserve, dispatch, report; teardown | the summary names each plugin once and blames the right one; teardown finds nobody left |
| `PluginLifecycleLog`, `ErrorLogger` | lines in two files | `record`, `recordSummary`, `log` | a load before its unload, once; a failed load reported once |
| command line (`CommandLineArgs`) | what has been tokenised: flags, values, faults | `tokenize`, `parseCommandLine`, `validateCommandLinePaths` | every fault is named, whatever the order of the arguments; nothing in order is accused |
| `PluginDiscovery`, `PluginRegistry::discover` | the slots found so far | enumerate, canonicalise, place | one slot per file, however it is named and for whatever role it is asked |
| results directory | the folder, which other simulators share | `createResultsDirectory` | every simulator gets a directory that nobody had, or an error |
| `main` up to the batch | none of its own | the sequence of all these with its early returns | it ends; if it ends without a batch it has said why |
| composition loader, identity index | groups, devices, the paths they came from | parse with defaults, skip, name | lists and paths stay parallel; an empty error log is a clean load |
| `MissionControlImpl`, `DroneControlImpl`, `ScanResultToVoxels` | step count, pose, output map | `runMission`, `step`, `applyToMap` | bounded, stops on the right status, the map only gets stronger |
| `MappingAlgorithmImpl` | surveyed set, queued commands, search scratch | `nextStep` and the frontier search | routes lead through mapped-empty cells only; it ends |
| maps, mock sensors, comparison | voxels, pose | scan, move, compare | the score compares the cells both maps share |
| output writer (`SimulationOutputWriter`) | none | statistics, labels, representative run | each result is labelled with its own files; failed runs spoil no figure |
| mode reports (`ModeReportWriters`) | usable outcomes, groups | partition, group, rank, write | grouping is by equal behaviour; the report is a function of the results alone |

How they interact: `main` reads the command line, makes a results directory, loads the
composition, discovers the plugin files and calls `execute`; the orchestrator fills the task table, reserves
one use per cell and library and calls `forEach`; each cell runs `runCell` on
whatever thread claimed it, and calls into the registry from there. The threads
share four things: the cursor, the slots' atomics, what `load_mutex_` guards,
and the logs. Result slots are disjoint.

What is hard: the double-checked load against concurrent first uses and failed
loads; claiming a factory by counting; the decrement that decides who unloads,
against runs that are still alive; spawns that fail part of the way; and a
summary that is written from state the threads have left behind; a file system
that other processes change between a look and the next; lists that are matched
by position only. The full list
is `hazards` in PROJECT.json.

## Modules

| module | what it is |
|---|---|
| `ForEach` | abstract: the body is invoked once for each index, and the return comes after the last completion |
| `TaskExecutor` | `ThreadPoolExecutor::forEach`, step by step; implements `ForEach` |
| `TaskExecutorProofs` | its theorems |
| `PluginLifecycle` | abstract: offered or rejected once, borrowed while offered, retired after the last use is returned |
| `PluginRegistry` | the registry, the registrar, the library counters, the logs and the runs that borrow; implements `PluginLifecycle` |
| `PluginRegistryProofs` | its theorems |
| `FrontierSearch` | the breadth-first search of the mapping algorithm over its reused scratch, with the surveys between searches |
| `FrontierSearchProofs` | its theorems |
| `VoxelGeometry` | grids, poses and beams as operators |
| `DroneMission` | one mission: step loop, drone control, algorithm, sensor, output map, score |
| `DroneMissionProofs` | its theorems |
| `SimulationBatch` | one batch: `TaskExecutor` and `PluginRegistry` composed through the task table, with the summary and the teardown |
| `SimulationBatchProofs` | its theorems, from those of the two components |
| `CommandLine` | what becomes of an argument vector, as operators |
| `PluginDiscovery` | from a path to plugin slots, as operators |
| `FreshNames` | abstract: whoever asks is given a name nobody had, or refused |
| `ResultsNames` | the names a results directory may have, and the assumptions on them |
| `ResultsDirectory` | `createResultsDirectory` in simulators that race; implements `FreshNames` |
| `SimulatorStart` | `main` up to the batch: composes `CommandLine`, `PluginDiscovery` and `ResultsDirectory` |
| `SimulatorStartProofs` | its theorems and those of `ResultsDirectory` and `PluginDiscovery` |
| `Composition` | loader, identity index, expansion into runs, output maps and the labelled report |
| `CompositionProofs` | its theorems |
| `ModeReports` | the comparative and the competitive report |
| `ModeReportsProofs` | its theorems |
| `MC...` | the instances TLC checks |

**TaskExecutor.** `cursor` is `cursor_`, `spawned` is `pool.size()`, `joined` is
how far the join loop has come, and `pc`/`index` are where each thread stands;
thread 0 is the caller. `invoked` and `completed` are history. `Claim` is one
`fetch_add` with the comparison that follows it; the atomic's relaxed ordering
does not matter, as the cursor only hands out numbers. `SpawnFails` is the
caught `std::system_error` and may happen at any spawn. `LeftoverCursors` is what
an earlier call on the same executor has left.

**PluginRegistry.** A cell of the task table is run once, by one thread, so a
cell stands for its thread. `state`, `pending`, `attempts`, `factory` are the
slot's fields; a factory is represented by the library it came from, so that
"whose factory is it" and "is its code still mapped" can be asked. One step is
one atomic access to `state_` or `pending_uses_`, or a stretch between two such
accesses under `load_mutex_`. Memory orders: every read that decides anything is
an acquire of a release store, or is made under the lock, or is the acq_rel
decrement, so the interleaving model loses nothing. `Faults` says what may go
wrong outside this code: `dlopen` fails, a library registers any other number of
factories than the one it should, a run throws, a run reports an error.

**SimulationBatch.** `Executor` and `Registry` are instances of the two modules,
and an action of the batch is an action of one with the other unchanged, except
`ClaimCell`, which is the executor's claim and the registry's start of that cell
together. A body ends when its cell is done. `report` is the summary's split of
the plugins into failures and outcomes; both are sets here, their order is the
subject of `ModeReports`.

**SimulatorStart.** `phase` is how far `main` has come; the actions are its
statements in their order (`ReadArgument`, `Parse`, `Validate`, `MakeDirectory`,
`Load`, `DiscoverAlgorithms`, `DiscoverMissionControls`, `Execute`), each with its
early return. Every look at the file system is given a sight of its own out of
`Sights`, so what was valid when the arguments were checked may be gone, empty or
unreadable later. `argv` is a bag: the arguments that were read, in any order;
it and `found.seen` are history. The phase `terminated` is the program ended by an
exception nobody catches. In the folder, `OtherSimulator` is a step of any other
process. `CommandLine` keeps `RawArguments` as `raw` and the messages as records
of a category and the things it names.

**ResultsDirectory.** `create_directory` is one atomic system call, with three
answers: made it, a directory is there already (`NameTaken`, the next suffix is tried),
or an error (`CreateFails`, also when a plain file has the name).

**Composition.** A configuration is a function on its fields to the path of the file the
field was read from, or `Default`: the numbers do not matter, where they came
from does. `LoadSimulation` and `LoadDevice` are one turn of the loader's loops,
with the default and the line in the log for every field that is missing or of the
wrong type; `EndSection` is the end of a loop and, after the last, `enumerate`.
`Run` is one run in any order, which may throw, end in error or score, and saves
its map under `outputMapFile` in both of the last two; a run whose simulation has no map file
(the default is an empty name) always throws (`HasMap`). An entry that is no path
(`NoPath`) leaves the composition's own folder as the file to read, which is taken to give
yaml-cpp an empty stream or a bad file, so that the loader goes on with defaults. Should
the standard library throw something else there, the whole load fails (CompositionLoader.cpp:397)
and the model has behaviours the program has not. `Write` is `writeSimulationOutput`.

**ModeReports.** `Partition` and `Group` are one turn of their loops. `std::sort`
gives any arrangement its comparison allows (`Sorted`), so a comparison that
leaves two elements equal makes the result nondeterministic.

**FrontierSearch.** `stamp`, `parent`, `generation`, `queue` and `head` are the
fields of `FrontierSearchScratch`, and `occupancy` and `surveyed` what the algorithm
knows. `BeginSearch`, `Dequeue` (with the target test), `LookAround` (the loop
over the neighbours) and `WalkBack` are the parts of `planRouteToFrontier`;
`Survey` stands for a flight to the target and the scans made there, and merges
any of the reports in `Scans` into the map with the ranking of `setIfStronger`.
What the module asks is what reusing the scratch could break: the searches of
one mission must behave as if each began with fresh arrays.

**DroneMission.** The configuration of a run is the state `config`, chosen at the
start, with everything the factory derives from it: the world frame, the
resolution of the output map, the two grids (`Translated`, `OutputResolution`,
`Output`, `Hidden`). A step of the loop is two actions. First the algorithm
decides, in the order of `nextStep`: `Drain`, `LeaveOutside`, `Survey`, `Travel`,
`GiveUp`. Then `DroneControlImpl::step` obeys: `Refuse` is its three early
returns, `Obey` the movement, then the scan from the new pose and its recording,
then the step index and the status. `Settle` ends the loop and scores the map.
`plan`, `surveyed` and `command` are `plan_`, `surveyed_` and `last_command_`;
`finished_` is not kept, since the loop ends with the first terminal command.
`Travel` takes a shortest route to a nearest frontier, which is what
`FrontierSearch` shows the search to return, and of several the one the search
meets first: the queue is in the order of `kNeighbours`, so it is the first one in
that order of directions (`MetBefore`). `destination` is
history: the end of the route the current plan was compiled from.

Lengths are integers. A voxel edge is a multiple of ten, so that the marches of
the sensor and of the recording, a tenth of an edge, land on integers, and all
beams and flights lie along an axis, where `snapToAxis` makes the arithmetic
of the code exact as well.

## Checks

| run | instance | what it shows |
|---|---|---|
| `executor` | 3 threads requested, 4 tasks, cursor left at 0 or 5, any spawn may fail, fair | the inductive invariant, that the caller takes tasks only when no worker can, and that every step is one of `ForEach`'s, to the return. Four tasks on three workers let a worker take two tasks, start late or not at all |
| `registry` | 3 cells in flight, one shared mission control, one algorithm for two of the cells, an adopted algorithm for the third, an adopted mission control nobody uses; all faults, fair | the inductive invariant, the safety properties, and that the registry implements `PluginLifecycle`, liveness included (70,140 states). Two cells race for one library, and two libraries are loaded at once |
| `batch` | comparative, 3 pairs with 2 cells, 2 workers, loads may fail, fair (144,731 states) | executor, registry and summary fit together: at most one library per live thread once a worker runs; the fixed algorithm is unloaded last; the summary has every plugin once and blames the right one; and each component grants the other what it assumes, fairness included (`EachServesTheOther`) |
| `startup` | two simulators on one folder; up to five of fifteen arguments in any order; three states of the composition file, two of the plugin files and eight of the folder, chosen anew at every look; two attempts at a directory, fair (488,795 states) | a rejected command line names every fault and blames nothing else, and an accepted one is taken as it was written; every plugin file has one slot; no end is silent; every start ends; directories are fresh |
| `composition` | up to two simulations, two missions each, two drones and two lidars, at most four runs, over files that are good, miss a field, have one of the wrong type, hold another section or do not load; scores 0 and 70 (23,667 states) | paths stay parallel to configurations; every result is labelled with its own files; failures spoil no figure; an empty log is a clean load; maps are kept when stems differ |
| `reports` | four plugins found in any order, five behaviours of two runs with ties in score, in steps and in both totals; none or two that did not load | groups are classes of equal behaviour; the report does not depend on the order of discovery or on what `std::sort` does with equals |
| `frontier_search` | 3 x 2 cells of one layer, start in a corner or away from it, any report a survey could make, stamps that wrap after two searches, fair | the inductive invariant; routes lead through empty cells and to a nearest frontier; nothing reachable is given up; exploration ends |
| `mission` | fourteen configurations, each with every set of walls that leaves the start free (in the one of twelve voxels, with up to three walls; 44,724 states) | the drone stays out of walls; the map is true; no command is refused; each plan ends where the search meant; no scan weakens what the map claims; a completed mission has mapped everything reachable; score and steps add up |
| `mission_coarse` | 4 x 2 output voxels over 8 x 4 voxels, two walls | the drone enters a wall |
| `mission_partial_voxel` | a region 15 long with voxels of 10 | a planned command is refused |
| `mission_fine_score` | output voxels half as long as the world's, a drone that starts below the middle of its voxel, any set of walls | a wall that was found does not count |
| `composition_stems` | two drones whose files have one stem, every file whole | the map of a scored run is overwritten |

**Bounds.** The only bounds are the sizes of the instances and `MaxRegistered`
(two factories of a kind: none, the right one and too many are what the code
tells apart). No behaviour is cut off: every counter is bounded by the number of
cells, since a cell takes each of its steps once. Three workers are enough for
two of them to race while a third is late or missing; three cells are enough for
a first use, a last release and an independent load at once. Three pairs on two
workers are needed for the peak: with fewer, everything could be mapped at once
without exceeding the threads.

`FrontierSearch` needs a grid on which two routes meet and a frontier can lie
behind another: two by three cells. `MaxGeneration` is 255 in the code and two in
the run, so that the stamps wrap several times within one exploration; the
proofs are for every value. The configurations of `mission` are in
`MCDroneMission`: a cube of eight voxels, the same seen from a corner where
voxels meet, a region that starts away from the map's origin and goes on beyond
its end, an output map finer or coarser than the world's, a sensor blind to what is
near, the same in a block long enough to go round a wall it never resolves, a drone that cannot advance, a start outside the region, and budgets of 0,
7 and 19 steps besides one that is never used up. The limits of the drone are chosen so that a
turn takes two or three commands and a voxel two or three. No bound cuts a
behaviour off: a mission is bounded by its `max_steps`, which is part of the
configuration.

`startup` needs an argument of every sort the code tells apart (each key, a mode
flag, another flag, junk, an unknown key, an empty value, a repeated key, numbers good and bad), and
five of them make a valid command line with one fault, or several faults at
once. A file, a link to it and a second file are what one slot per file is about.
`kMaxAttempts` is 1000 in the code and two in the run, which makes running out of
them reachable; the proofs are for every value. `MaxArguments` and `MaxRuns` are
bounds on the inputs, not on the behaviour. `composition` has every shape of a list at least once:
missing, empty, one, two, a skipped entry before and after a good one; four runs
are enough for each loop of the expansion to turn twice in some document. In
`reports` four plugins allow two groups of two, the smallest case in which
groups tie in size; the five behaviours tie in each of the ranking's keys.

What some of the properties of `mission` require is part of their statement:

- `GridsAlign`: every output voxel lies within one voxel of the world. Without it
  one beam does not tell of all of a voxel, and the drone may enter a wall
  (`mission_coarse`).
- `VoxelsNest`: besides, the sensor's samples, a tenth of the world's voxels
  apart, do not step over an output voxel (`mapResolution` is at most ten times
  the output's resolution), and `z_max` is a whole number of them. The proof
  asked for both, and TLC shows that without them a free voxel is recorded
  beyond what the sensor has sampled: with world voxels of 30, output voxels of
  10 and `z_max` 25, and with world voxels of 110 and output voxels of 10. No
  configuration that is shipped is of either kind.
- `WholeVoxels`: the region is a whole number of voxels long on every axis.
  Without it planned commands are refused (`mission_partial_voxel`).
- `SensorResolves`: `z_min` is at most the length of an output voxel and `z_max` at
  least. Without it a free voxel next to a wall may stay `PotentiallyOccupied`, and the
  drone never goes there. The shipped configurations (`z_min` 20, output voxels
  of 5 or 10) are of this kind: for them the run shows everything but
  `EverythingReachableIsMapped`.

`EverythingReachableIsMapped` asks for `VoxelsNest`, too, which the proof made
plain. In a region of two by two output voxels, each two of the world's voxels
long, with `z_min` one output voxel and a single wall in the second of them, the
beams from the start pass by the wall, so that its voxel is taken for free; the
drone flies there and stands within `z_min` of the wall, so that its look past it is
blind, and it completes with the free voxel behind `PotentiallyOccupied`. No theorem or run says more of such maps than
`MapTellsTheTruth` does.

**Fairness.** Weak fairness for every thread: an operating system schedules every
thread that can run. A body that was entered ends because a mission is bounded
by its `max_steps`. `load_mutex_` needs no strong fairness: a cell asks for it
four times at most, so whoever waits is alone in the end. No fairness is asked
of spawns that fail or of loads that fail. `FrontierSearch` is one thread that
only computes, so `WF_vars(Next)` says no more than that it is run.
`DroneMission` needs none: that a mission ends is the bound of its loop.
`SimulatorStart` assumes that `main` is scheduled (`WF_vars(Start)`), and nothing
of the other simulators: they may work, stop or never start. `Composition` and
`ModeReports` have no fairness and no liveness: they are loops over finite lists.

## Findings

Places where a comment or a document says one thing and the code does another,
each with a run that TLC ends with a counterexample.

- `mission_coarse`: with `output_mapping_resolution_factor` 2 the drone flies into
  a wall. The voxel was seen to be free by a beam through its one half; the wall
  is in the other half, and was too near the drone to be resolved. Coarser voxels
  can also end a mission in an error, when the survey marks the drone's own voxel
  `Occupied` and every move out of it is refused.
- `mission_partial_voxel`: a region that ends inside its last voxel makes the
  planner ask for a position beyond it, and the mission ends with an error, which
  scores -1.
- `mission_fine_score`: when output voxels are half as long as the world's, as in the
  shipped missions of 5 cm in worlds of 10 cm, the scoring sample lies on the corner of
  eight of them and reads only the upper one on each axis. A drone that starts
  below the middle of its voxel finds the near side of the wall beside it and
  marks that `Occupied`; the voxel that is read is another, so the wall does not count.
- `composition_stems`: the name of an output map is made of the stems of the files its
  configurations came from, so two configurations of a kind with one stem (in
  different folders, or listed twice) make two runs write one file, and the map
  of the run that ends first is lost. `project_context.md` asks for unique names.
  When the stems differ the maps are kept (`MapsAreKeptWhenStemsDiffer`).

Noted while modelling, and not the subject of a run:

- The total of live threads can be exactly two, against the note at
  TaskExecutor.h:116, when the first spawn succeeds and the second fails.
- `opens == files_loaded` (PluginLifecycleLog.cpp:71) does not hold when a library
  opens and is then rejected.
- The fixed plugin is unloaded last in the comparative mode only: in the
  competitive mode a run gives back its algorithm, the varied one, last
  (SimulationOrchestrator.cpp:89).
- A fixed mission control that lies in the algorithms folder is discovered as an
  algorithm first; the mission control's role is then empty and the batch is
  refused with `PLUGIN_SET_INCOMPLETE` (PluginRegistry.cpp:78).
- `enumerateSharedObjects` is said never to throw (PluginDiscovery.h:52), but the
  `++` of its range-for may; nothing catches it (`terminated` in `SimulatorStart`).
- While the mode is missing, missing paths stay unsaid until the next attempt.
- `partitionOutcomes` says that load failures come first; the list is sorted afterwards.
- `describesRuns` is true of every batch that has runs
  (`EveryRunIsLabelledWithItsOwnFiles` says so), so the flat list is never written for one.
- The registrar is not used "serially on the main thread before any worker
  exists" (Registrar.h:27, Registrar.cpp:4): loads happen on the workers, and
  `load_mutex_` is what makes it safe.
- `PluginSlot::library_` is declared after the factories, so it is destroyed
  *before* them, the reverse of what its note wants (PluginRegistry.h:149-157).
  Nothing destroys a loaded slot, because the registry sweeps first.
- `peak_open` is bounded by the live threads (PluginLibrary.h:20) only when there
  are workers: one thread alone maps two libraries.
- `main`'s sweep is said to catch "the library no run ever needed" (main.cpp:245),
  which lazy loading never maps.
- The stamps of the search wrap once in 255 searches (MappingAlgorithmImpl.cpp:430), not "once every
  four billion searches" (line 400).
- `discover`'s note (PluginRegistry.cpp:49-51) describes one file serving both
  kinds, which the code refuses.

## Proofs

`TaskExecutorProofs` proves, for every number of threads and tasks and every
leftover cursor (`ExecutorAssumption`: they are natural numbers):

- `ExecutorInvariant`, `Spec => []IInv`. The safety properties are not inductive:
  that no index runs twice needs to know that the cursor is the border between
  the indices handed out and the others (`BorderInv`); that everything is
  completed at the return needs to know that an index handed out and not
  completed is held by exactly one thread (`HeldInv`), that every thread the
  caller has joined is finished, and that a finished caller has seen the cursor
  past the end (`PhaseInv`).
- `ClaimsAreMadeInOrder`, `Spec => []OrderInv`: nothing is claimed before the first
  worker is there; after that the thread that took the last index still has it,
  a drain ends only past the last index, and nothing is left for the caller. It is
  what the batch needs to bound how many libraries are open at once.
- from `IInv` `ExecutorTypeCorrect`, `NoIndexRunsTwiceHolds`,
  `ReturnsOnlyWhenAllDoneHolds`, `NoWorkerOutlivesTheCallHolds` and
  `CallerAndWorkersNeverBothRunHolds`;
- `ExecutorRefinesForEach`, `Spec => Promise!Safe`: the initial states and every
  step map to `ForEach`'s.

`PluginRegistryProofs` proves, for every finite set of cells and slots, every
assignment of plugins to cells that respects the kinds, every set of adopted
slots and every choice of faults (`RegistryAssumption`):

- `RegistryInvariant`, `Spec => []IInv`. What a slot's fields are depends on where
  the one thread inside `load_mutex_` stands, so the conjuncts lean on each other:
  - `MutexInv`: the holder of the mutex is exactly the thread inside the locked
    code. Without it two threads could stand between `open` and `publish`.
  - `PendingInv`: `pending_uses_` is the number of cells that have not given
    their use back. A use is therefore never given back before it was reserved,
    and the decrement that finds 1 is the last one. This is where the proof
    counts (`FS_CardinalityType`, `FS_RemoveElement` of the library).
  - `SlotInv`: for each load state, what factory, mapping and attempts must be,
    given the place of the thread in the lock; an unloaded slot owes nothing.
  - `PlaceInv`: what a thread at a place knows of its slot, above all that
    nobody owes a use while a thread unloads.
  - `RegistrarInv`: the registrar holds only what the library now being judged
    registered, and the count noted before it was zero. It makes counting sound.
  - `RunInv`: a run that uses a plugin finds it loaded, its objects come from its
    own plugins, and it is turned away only for a failed one.
  - `PhaseInv`: no thread runs before the reservation or after the join.
  - `BooksInv`: what each log holds of a slot or a run, state by state. The thread
    that changes a state writes the line for it, so a line is missing only while
    that thread stands between the two; whoever gave back the last use of a loaded slot is on
    its way to unload it; and the process-wide counters differ by what is mapped.
- from it `RegistryTypeCorrect`, `NoDanglingCodeHolds`, `OwnFactoryHolds`,
  `BorrowedStaysLoadedHolds`, `LoadedAtMostOnceHolds`, `OneVerdictPerPluginHolds`,
  `RegistrarEmptyBetweenLoadsHolds`, `EachFailureLoggedOnceHolds` and
  `AuditTrailBalancesHolds`;
- `RegistryKeepsTheLifecycle`, `Spec => Lifecycle!Safe`: every step of every
  thread is a move of `PluginLifecycle` or a stutter.

`FrontierSearchProofs` proves, for every finite set of cells with any neighbour
lists, every set of reports and every width of the stamps
(`SearchAssumption`):

- `FrontierSearchInvariant`, `Spec => []IInv`. That nothing reachable is given up is a
  statement about an exhausted queue, and leans on what holds while it fills:
  - `StampInv`: no stamp is of a generation to come, so that beginning a search leaves
    nothing visited, whether or not the stamps have just been cleared;
  - `QueuedOnce`, `QueueInv`: the queue holds exactly the visited cells, each once,
    and each is the start or empty, with a predecessor that stands before it;
  - `ExpansionInv`: the neighbours of a cell already taken are visited unless they
    are not empty, and it was no target;
  - `RouteInv`: the part of the route walked back so far is a path of visited
    cells, so it ends where the search began.
- from it `FrontierSearchTypeCorrect`, `RouteLeadsThroughEmptySpaceHolds`,
  `NothingReachableIsLeftHolds` and `QueueFitsItsReserveHolds`;
- `NearestFrontierFirstHolds`, from `NearInv`: there are levels for the queued cells,
  each one more than its predecessor's, which never fall along the queue and are
  never more than one beyond the cell being expanded. A path through empty cells
  from the start therefore reaches no cell sooner than its level says, and the route
  that is walked back goes down one level with each cell.

`DroneMissionProofs` proves, for every set of configurations (`MissionAssumption`:
lengths are whole, an edge is a multiple of ten, headings are degrees) and every
set of worlds (`WorldsAssumption`: walls are voxels of the map and leave the start free):

- `MissionInvariant`, `Spec => []MissionInv`. The map is true, the drone stands in a
  free voxel, and what is still to be obeyed is one of three things: looks along
  the axes from where it stands, an end, or the legs of a flight that leads,
  through voxels the map calls empty, to the voxel the search chose. The parts need one another: the
  drone is safe because the map is true, and the map is true because the drone
  looks from where the model says it is, along an axis. The argument goes along
  the code:
  - beams: a scan records a voxel as empty only if the march of the sensor has
    sampled the world's voxel that holds it, and as occupied only at a hit, so `ApplyToMap`
    keeps the map true (`MapTellsTheTruth`);
  - routes: every step of a route of `Travel` goes to an adjacent voxel that is
    mapped empty. Nothing more is used of the route than that it is one of
    `NearestRoutes`, so the theorems do not depend on the order of `kNeighbours`;
  - compilation: the commands of `BuildRouteCommands`, cut at the drone's limits,
    add up to that step, and each cut of it ends in one of its two voxels. This is induction
    over the route and over the pieces of a length;
  - validation: inside a region of whole voxels none of those commands is
    refused, so the survey and the flight are what was planned.
- from it `NeverInsideAWallWhenVoxelsNestHolds`, `MapTellsTheTruthHolds`,
  `NeverRefusedInWholeVoxelsHolds` and `ArrivesWhereThePlanLeadsHolds`;
- `EverythingReachableIsMappedHolds`, when the voxels nest, the sensor resolves what
  is next to the drone and the start's voxel is free. That a mission completes says
  only that the search found no target; that nothing is left then takes
  `ExploredInvariant`, `Spec => []ExploredInv`, which TLC checked first on the
  configurations of `mission` and which says, besides `MissionInv`:
  - around each surveyed voxel, the neighbour in each of the six directions is known,
    and known empty if it is free, or a command that looks there is still
    ahead (`SurveyGoesOn`). A scan settles its neighbour because no beam from free
    space ends short of the next voxel: it is blind only when what it
    strikes is there, clear to the end of what is recorded, or strikes there or
    beyond (`ScanEnds`, `ScanTells`). A survey looks in all six, whatever the
    heading (`SurveyLooksEverywhere`);
  - what is in doubt is not free, unless it is the start (`DoubtIsRight`): the drone
    surveys only voxels it has seen empty, and a stronger claim stands;
  - every set of voxels that is closed under flying on and holds the destination holds
    the start (`Linked`). A plan keeps it because a way can be flown back
    (`WayBack`), a scan because what is empty stays so;
  - a command that ends the mission is issued only when all is mapped (`Concluded`,
    `Mapped`).
  For the last, `NothingLeft` shows that the search has seen everything when it
  returns no route: its levels grow within a finite set, so one of them is the last
  (`GrowthSettles`, a pigeonhole), it is closed under flying on, and a target in
  it would have been reached at its least distance by a route. By `Linked` the start is
  in that set; its voxels are surveyed, or are no frontiers; so it takes in
  each free neighbour, and `ConnectedToStart` is within it
  (`ConnectedIsWithin`);
- `ScoreIsExactHolds`: with both maps on one grid the loop of the comparison visits
  each voxel once, so that it counts the walls found and all walls; `ScoredInv` keeps that score to the end;
- `StepsAddUpHolds`, from the inductive invariant `StepsInv`: while the
  loop runs, the step index is the number of steps, the status is still
  `MaxSteps`, and no command obeyed so far was terminal; a refused step is the
  one that is counted and not carried out;
- `TypesHold`, and `MapNeverForgetsHolds`: marking voxels keeps the grid and weakens nothing
  (`MarkedKeeps`), so neither does a scan (`ApplyToMapKeeps`), and only `Obey` changes the map.

`SimulatorStartProofs` proves, for any number of simulators, modes, seconds and
attempts and whatever the folder holds at first (`ResultsDirectoryAssumption`,
`NoneIsNoName`, `LeftoversAssumption`), of `createResultsDirectory` by itself:

- `ResultsDirectoryTypeCorrect`, which is inductive: a simulator that tries a
  name tries one of `Names`, because the counter stops before `kMaxAttempts`;
- from it `ResultsDirectoryRefinesFreshNames`: `Create` is `Grant`, because what did
  not exist becomes a directory in the same step; the errors are `Refuse`;

and of the start, for every set of arguments and of sights (`StartAssumption`: the
prefixes are those of the modes, and `Self` is one of the simulators;
`GivenAssumption`: a flag is known by its name; `NamesAssumption`: there are
finitely many file names, and the files behind them are numbered):

- `StartRunsTheDirectorySearch`: what `main` and the others do in the folder is
  `createResultsDirectory` and nothing else. It needs that the arguments always
  have a mode (`ModeInv`), if only the default one.
- from that and the theorems above `GivesFreshNamesHolds` and `OwnDirectoriesHolds`:
  no two simulators have one directory;
- `NoSilentEndHolds`: an end without a batch has left a message or a line in the log;
- `RejectionNamesEveryFaultHolds`, from `CommandInv`: what `tokenize` keeps of the
  arguments read so far is a function of the bag of them (which keys have a value,
  which have two, which modes were asked for, what was not understood), except
  for the value of a key that was given twice, which is the fault that is then
  named. So the messages are those the bag deserves, whatever the order: for each
  category, an empty value, a wrong number of threads and the mode included, it is raised
  exactly when the arguments have that fault, and names exactly what has it
  (`TheParseNamesTheFaults`). When there is none, each key has the one value
  the run then uses, the fixed plugin's and the number of threads included
  (`TheParseTakesWhatIsWritten`).
- `EveryPluginFileHasOneSlotHolds`, from `SlotsInv`: slots are only added, for files
  that have none, and each role's list is served by them. A folder's list has
  every file once because an ascending sequence of a finite set of numbers
  exists and meets each of them; the loop of `discover` is followed turn by turn.

`SimulationBatchProofs` proves, for every number of pairs, cells and threads, in
either mode and with any faults (`BatchAssumption`), by composition:

- `BatchRunsTheExecutor` and `BatchRunsTheRegistry`: every step of the batch is a step or a
  stutter of each component, so the theorems about the components hold in the batch.
  The second needs the first: an index that is claimed is a cell's index.
- `EveryCellIsOverHolds`: a body that has ended is the whole of its cell
  (`CellsEndTogether`), and the executor returns only after every body
  has ended. It is the guard that `releaseAll` lacks in `main`.
- `ReportAccountsForEveryPluginHolds` and `BlameFallsOnTheRightPluginHolds`: when the
  report is written the verdicts are final (`VerdictsAreFinal`), and a run was
  turned away exactly for a plugin that failed (`OneVerdictPerPlugin`). The first says that a varied
  plugin is reported as failed exactly when its slot is; the second that the runs of an outcome
  are marked unavailable exactly when the fixed plugin is reported, and then score -1. Which factory made a run's objects
  is not in the report; that is `OwnFactory`, of the registry.
- `PeakWithinLiveThreadsHolds`: by the executor's `OrderInv` and the registry's
  invariant a mapped library belongs to a cell that a thread is running, or is
  the fixed one, so opens and closes never differ by more (`OpenWithinLiveThreads`), and
  `peak` is that difference at some earlier time (`PeakInv`);
- `FixedPluginGoesLastHolds`: in the comparative mode (its hypothesis, as in the run)
  a cell gives back its algorithm last, so whoever unloads the fixed one finds
  every cell past its mission control. That no two pairs
  share a varied plugin, which `BatchAssumption` says, is the third part of `EveryPluginFileHasOneSlot`.

`CompositionProofs` proves, for every set of documents and files
(`CompositionAssumption`: a document's sections are sequences, a default is no path, and
a score that is no error is not negative; `NoPathOpensNothing`: an entry without a path loads nothing):

- `PathsStayAlignedHolds`, from `IInv`: the loader only appends, to both sides of a
  pair of lists at once or to neither (`AppendAligned`);
- `CleanLogMeansCleanLoadHolds`, from `CleanIInv`: as long as the log is empty as
  many groups were made as entries read, and every configuration so far is whole;
- `CompositionInvariant`: the two and `RunsInv`: each place of the expansion has one
  result, a score only if its geometry is known, and the report is what the final state gives;
- from it `EveryRunIsLabelledWithItsOwnFilesHolds`: the expansion over the paths and the
  one over the configurations are flattened from lists of the same lengths, so
  the i-th place of one is that of the other;
- `FailuresSpoilNoFigureHolds`: the sums the statistics are made of lie between
  the number of runs times their least and their greatest score;
- `MapsAreKeptWhenStemsDifferHolds`, from `KeepInv`: places that differ have names that
  differ, so what a run has saved is never written over.

`ModeReportsProofs` proves, for every number of plugins and runs
(`InputsAssumption`: no two plugins have one name, a run has a score and a number of steps):

- `ReportsInvariant`: the usable outcomes and the names of the others are lists that
  have each once; a group's names are those of the plugins grouped so far that
  behaved as its key says; once sorted they are the one ascending list of them;
- from it `ReportIsReproducibleHolds`: the reference puts in place i the element that
  has i - 1 before it. `Ranks` shows that a list in which the earlier of any two
  comes before the later is that list, so what is needed of `groupBefore` and of `rankedBefore`
  is that they tell any two rows apart (`GroupOrder`, `RankOrder`). The groups need for it that
  two of one size have different first names; the ranking that totals are numbers;
- `GroupsAreBehaviourClassesHolds`.

The flattening, the sums, the pieces of a length, the levels and the turns of a loop
are inductions. The library's induction theorems take an operator
as a parameter and cannot be used, but a set can stand in for the operator: `LeastNat`
(every set of naturals that is not empty has a least element, from the well-foundedness
the library proves) gives induction over a set of numbers, `Onward`. A recursive
function in a `LET` is the `CHOOSE` of a function that satisfies its equation; that
there is one is proved by the same induction.

Only model-checked: everything about fairness, which is out of the prover's
reach (the liveness halves of `KeepsThePromise` and `KeepsTheLifecycle`,
`ExplorationEnds`, `EveryStartEnds`, `EachServesTheOther`). Every invariant and
every action property that a passing run checks is also a theorem.

`NoIndexRunsTwice`, `ReturnsOnlyWhenAllDone`, `NoWorkerOutlivesTheCall`,
`LoadedAtMostOnce`, `OneVerdictPerPlugin`, `RegistrarEmptyBetweenLoads` and
`QueueFitsItsReserve` are proved and not in a run of their own: each follows from the
inductive invariant that a run checks. `TypeOK` of `SimulationBatch`,
`SimulatorStart` and `DroneMission` documents the variables and is in no run.

## Not modelled

File and console output, time stamps and the texts of messages; YAML, `.npy` and
the dynamic loader, of which only the outcomes are modelled; floating-point
geometry, and with it the rings of beams around the centre beam of a scan
(`DroneMission` is the case `fov_circles` 1), GPS rounding and hovering. In
`SimulationBatch` and `PluginRegistry` a run's inside is opaque: it returns or
throws. Plugins with one name in two folders are not told apart in `ModeReports`,
where names are taken to differ; nor is the fixed plugin's file name there twice, as
it may be when discovery reports a failure under that name and the plugin does not load
(SimulationOrchestrator.cpp:180-193). Failures that discovery reports are in
`SimulatorStart` and, as names, in the inputs of `ModeReports`; in
`SimulationBatch` the slots are given. `SimulationManager::run`, which composes
enumerate, runCell and assemble for one plugin, is not called by the simulator
and left out. The logging calls that could themselves throw (no memory,
a broken stream) are taken not to. A crash has no recovery in this
code: nothing is read back.

## Plan

Done, in this order: the executor, the registry, the batch, the frontier search,
the mission, the start of the simulator with its results directories, the
composition, the reports, and their proofs. What would add most next are beams
off the axes, over a table of the voxels each of them crosses: the rings of
a scan, and what they add to what a survey sees.
