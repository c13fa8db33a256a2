---------------------------- MODULE Composition ----------------------------
(***************************************************************************)
(* One plugin's way through a composition: CompositionLoader reads the     *)
(* document and the files it refers to, ConfigIdentityIndex names each     *)
(* configuration after its file, SimulationManager expands them into runs, *)
(* and SimulationOutputWriter labels the results by position again.        *)
(*                                                                         *)
(* A configuration is a function on its fields.  A field's value is the    *)
(* path of the file it was read from, or Default: what the number was does *)
(* not matter here, where it came from does.                               *)
(***************************************************************************)
EXTENDS Integers, Sequences, FiniteSets, SequencesExt

CONSTANTS
  Documents,    \* the composition documents
  File,         \* what loading a path gives; a path is resolved against the document's folder
  Stem,         \* std::filesystem::path::stem
  NoPath,       \* the empty path, of an entry that is no scalar
  Absent,       \* a section the document does not have as a sequence
  Default,
  Scores        \* bound: the scores a run may get

Kinds == {"simulation", "mission", "drone", "lidar"}
Devices == {"drone", "lidar"}
Paths == DOMAIN File

(* A document has three lists, of which any may be missing.  A score is in  *)
(* units small enough to be whole; the error score is below all of them.    *)
ASSUME CompositionAssumption ==
  /\ Default \notin Paths
  /\ Scores \subseteq Nat
  /\ \A document \in Documents :
       /\ document["simulation"] # Absent =>
            document["simulation"] \in Seq([path : Paths, missions : Seq(Paths)])
       /\ \A kind \in Devices : document[kind] # Absent => document[kind] \in Seq(Paths)

(* The scalars that parseSimulation, parseMission with parseBounds,         *)
(* parseDrone and parseLidar read, by the sections they are read from.      *)
Fields == [kind \in Kinds |->
  CASE kind = "simulation" -> {"map_filename", "map_resolution_cm", "initial_drone_position",
                               "initial_angle_deg", "map_axes_offset"}
    [] kind = "mission" -> {"max_steps", "gps_resolution_cm", "output_mapping_resolution_factor",
                            "boundaries"}
    [] kind = "drone" -> {"dimensions_cm", "max_rotate_deg", "max_advance_cm", "max_elevate_cm"}
    [] OTHER -> {"z_min_cm", "z_max_cm", "d_cm", "fov_circles"}]

(* A file loads or not; has the section of one kind, or none; and its       *)
(* fields are good, or bad (of the wrong type), or missing.                 *)
Opens(kind, path) == File[path].loads /\ File[path].section = kind
Good(kind, path) == IF Opens(kind, path) THEN File[path].good \cap Fields[kind] ELSE {}
Bad(kind, path)  == IF Opens(kind, path) THEN File[path].bad \cap Fields[kind] ELSE {}

(* The empty path resolves to the document's own folder, which holds no     *)
(* section.                                                                 *)
ASSUME NoPathOpensNothing == \A kind \in Kinds : ~Opens(kind, NoPath)

(* loadReferencedConfig and the parse function: never a failure, at worst   *)
(* every field is a default.                                                *)
Config(kind, path) == [f \in Fields[kind] |-> IF f \in Good(kind, path) THEN path ELSE Default]

(* A factor that is just not there is 1, and nothing to complain about.     *)
Optional(kind, path) == {"output_mapping_resolution_factor"} \ Bad(kind, path)

(* A bug: what cannot be converted is passed over. *)
LinesOfTheMissing(kind, path) ==
  {[about |-> path, what |-> w] :
     w \in (IF Opens(kind, path) THEN {} ELSE {"reference"})
             \cup (Fields[kind] \ (Good(kind, path) \cup Bad(kind, path)))}

(* The lines it logs: one about a reference that does not open, and one for *)
(* each default.                                                            *)
Lines(kind, path) ==
  {[about |-> path, what |-> w] :
     w \in (IF Opens(kind, path) THEN {} ELSE {"reference"})
             \cup (Fields[kind] \ (Good(kind, path) \cup Optional(kind, path)))}

Section(line) == [about |-> "document", what |-> line]

VARIABLES
  phase,       \* the section that is being loaded, then the runs, then the report
  document,    \* the composition document
  read,        \* how far each of its sections has been read
  groups,      \* simulation_mission_groups
  devices,     \* drone_configs and lidar_configs
  paths,       \* CompositionPaths
  log,         \* the lines logged as input errors
  result,      \* the result of each run of the task table
  maps,        \* the .npy files: name to the run that wrote it last
  report       \* <label>__simulation_output.yaml

vars == <<phase, document, read, groups, devices, paths, log, result, maps, report>>
loading == <<document, read, groups, devices, paths, log>>
running == <<result, maps, report>>

NoReport == [written |-> FALSE]

Init ==
  /\ phase = "simulation"
  /\ document \in Documents /\ read = [kind \in Kinds |-> 0]
  /\ groups = << >> /\ devices = [kind \in Devices |-> << >>]
  /\ paths = [kind \in Kinds |-> << >>]
  /\ log = {}
  /\ result = << >> /\ maps = << >> /\ report = NoReport

-----------------------------------------------------------------------------

Left(kind) == document[kind] # Absent /\ read[kind] < Len(document[kind])
Here(kind) == document[kind][read[kind] + 1]

ConfigsAt(kind, where) == [i \in DOMAIN where |-> Config(kind, where[i])]
LinesAt(kind, where) == UNION {Lines(kind, where[i]) : i \in DOMAIN where}

(* A bug: the paths of a simulation that is skipped are recorded. *)
LoadSimulationRecordingFirst ==
  /\ phase = "simulation" /\ Left("simulation")
  /\ LET entry == Here("simulation")
     IN  /\ paths' = [paths EXCEPT !["simulation"] = Append(@, entry.path),
                                   !["mission"] = Append(@, entry.missions)]
         /\ log' = log \cup Lines("simulation", entry.path) \cup LinesAt("mission", entry.missions)
         /\ groups' = IF entry.missions = << >> THEN groups
                      ELSE Append(groups, [simulation |-> Config("simulation", entry.path),
                                           missions |-> ConfigsAt("mission", entry.missions)])
  /\ read' = [read EXCEPT !["simulation"] = @ + 1]
  /\ UNCHANGED <<phase, document, devices, running>>

(* One turn of parseSimulationGroups.  A simulation without missions is     *)
(* skipped, after its own lines were logged; its paths are not recorded.    *)
LoadSimulation ==
  /\ phase = "simulation" /\ Left("simulation")
  /\ LET entry == Here("simulation")
     IN  IF entry.missions = << >>
         THEN /\ log' = log \cup Lines("simulation", entry.path) \cup {Section("no missions")}
              /\ UNCHANGED <<groups, paths>>
         ELSE /\ groups' = Append(groups, [simulation |-> Config("simulation", entry.path),
                                           missions |-> ConfigsAt("mission", entry.missions)])
              /\ paths' = [paths EXCEPT !["simulation"] = Append(@, entry.path),
                                        !["mission"] = Append(@, entry.missions)]
              /\ log' = log \cup Lines("simulation", entry.path)
                            \cup LinesAt("mission", entry.missions)
  /\ read' = [read EXCEPT !["simulation"] = @ + 1]
  /\ UNCHANGED <<phase, document, devices, running>>

(* A turn of the loop over the drones, or of the one over the lidars. *)
LoadDevice(kind) ==
  /\ phase = kind /\ Left(kind)
  /\ LET path == Here(kind)
     IN  /\ paths' = [paths EXCEPT ![kind] = Append(@, path)]
         /\ devices' = [devices EXCEPT ![kind] = Append(@, Config(kind, path))]
         /\ log' = log \cup Lines(kind, path)
  /\ read' = [read EXCEPT ![kind] = @ + 1]
  /\ UNCHANGED <<phase, document, groups, running>>

-----------------------------------------------------------------------------

(* SimulationManager::enumerate: every run by the places of the four        *)
(* configurations it borrows, the lidars turning fastest.                   *)
RunsOf(group, drones, lidars) ==
  FlattenSeq([g \in DOMAIN group |->
    FlattenSeq([m \in DOMAIN group[g] |->
      FlattenSeq([d \in DOMAIN drones |->
        [l \in DOMAIN lidars |->
          [simulation |-> g, mission |-> m, drone |-> d, lidar |-> l]]])])])

(* A bug: the drones turn fastest. *)
EnumerateByLidar ==
  FlattenSeq([g \in DOMAIN groups |->
    FlattenSeq([m \in DOMAIN groups[g].missions |->
      FlattenSeq([l \in DOMAIN devices["lidar"] |->
        [d \in DOMAIN devices["drone"] |->
          [simulation |-> g, mission |-> m, drone |-> d, lidar |-> l]]])])])

Enumerate ==
  RunsOf([g \in DOMAIN groups |-> groups[g].missions], devices["drone"], devices["lidar"])

NotRun == [score |-> -2, geometry |-> FALSE]

(* The document has no more of a section, or never had it. *)
EndSection ==
  /\ phase \in Kinds /\ ~Left(phase)
  /\ log' = log \cup (IF document[phase] = Absent THEN {Section(phase)} ELSE {})
  /\ phase' = CASE phase = "simulation" -> "drone" [] phase = "drone" -> "lidar" [] OTHER -> "runs"
  /\ result' = IF phase = "lidar" THEN [i \in DOMAIN Enumerate |-> NotRun] ELSE result
  /\ UNCHANGED <<document, read, groups, devices, paths, maps, report>>

(* nameFor: the stem of the file, or a name by the place. *)
nameFor(where, i, prefix) ==
  IF i \in DOMAIN where /\ where[i] # NoPath THEN [stem |-> Stem[where[i]]]
  ELSE [prefix |-> prefix, index |-> i - 1]

(* A bug: the lidar is not in the name. *)
outputMapFileWithoutLidar(run) ==
  <<nameFor(paths["simulation"], run.simulation, "simulation"),
    nameFor(paths["mission"][run.simulation], run.mission, "mission"),
    nameFor(paths["drone"], run.drone, "drone")>>

(* outputMapFile, with the names that ConfigIdentityIndex keeps under the   *)
(* addresses of the run's four configurations.                              *)
outputMapFile(run) ==
  <<nameFor(paths["simulation"], run.simulation, "simulation"),
    nameFor(paths["mission"][run.simulation], run.mission, "mission"),
    nameFor(paths["drone"], run.drone, "drone"),
    nameFor(paths["lidar"], run.lidar, "lidar")>>

Saved(i) == [name \in DOMAIN maps \cup {outputMapFile(Enumerate[i])} |->
               IF name = outputMapFile(Enumerate[i]) THEN i ELSE maps[name]]

(* The file of the hidden map; the default, the empty name, is of none.     *)
HasMap(run) == groups[run.simulation].simulation["map_filename"] # Default

(* runCell.  A run that throws has no geometry, and one without a hidden    *)
(* map throws; a mission in error has no score; a mission control saves its *)
(* map if it comes that far.                                                *)
Run(i) ==
  /\ phase = "runs" /\ result[i] = NotRun
  /\ \E score \in Scores \cup {-1}, geometry \in BOOLEAN :
       /\ score # -1 => geometry
       /\ geometry => HasMap(Enumerate[i])
       /\ result' = [result EXCEPT ![i] = [score |-> score, geometry |-> geometry]]
       /\ maps' \in IF geometry THEN {Saved(i)} \cup (IF score = -1 THEN {maps} ELSE {}) ELSE {maps}
  /\ UNCHANGED <<phase, loading, report>>

-----------------------------------------------------------------------------

isErrored(run) == run.score < 0

(* The statistics are of the scored runs.  The average is sum by scored. *)
buildSummary ==
  LET scores == {result[i].score : i \in {j \in DOMAIN result : ~isErrored(result[j])}}
      sum[n \in 0 .. Len(result)] ==
        IF n = 0 THEN 0
        ELSE sum[n - 1] + (IF isErrored(result[n]) THEN 0 ELSE result[n].score)
  IN  [total |-> Len(result),
       scored |-> Cardinality({i \in DOMAIN result : ~isErrored(result[i])}),
       sum |-> sum[Len(result)],
       min |-> IF scores = {} THEN 0 ELSE Min(scores),
       max |-> IF scores = {} THEN 0 ELSE Max(scores)]

(* A bug: the first run, whatever became of it. *)
representativeFirst(places) == Min(places)

(* The run a mission's resolution is read from: the first that has a score, *)
(* else the first.                                                          *)
representativeRun(places) ==
  LET scored == {n \in places : ~isErrored(result[n])}
  IN  Min(IF scored = {} THEN places ELSE scored)

PlacesByPath == RunsOf(paths["mission"], paths["drone"], paths["lidar"])

(* describesRuns: the paths tell of as many runs as there are results. *)
describesRuns ==
  /\ \A kind \in Kinds \ {"mission"} : paths[kind] # << >>
  /\ Len(paths["mission"]) = Len(paths["simulation"])
  /\ Len(PlacesByPath) = Len(result)

label(where, i, prefix) ==
  IF where[i] # NoPath THEN [path |-> where[i]] ELSE [prefix |-> prefix, index |-> i - 1]

(* buildNestedSimulations: the n-th result stands at the n-th place.        *)
buildNestedSimulations ==
  [n \in DOMAIN PlacesByPath |->
     LET at == PlacesByPath[n]
     IN  [simulation |-> label(paths["simulation"], at.simulation, "simulation"),
          mission |-> label(paths["mission"][at.simulation], at.mission, "mission"),
          drone |-> label(paths["drone"], at.drone, "drone"),
          lidar |-> label(paths["lidar"], at.lidar, "lidar"),
          outcome |-> result[n]]]

RunsOfMission(g, m) ==
  {n \in DOMAIN PlacesByPath : PlacesByPath[n].simulation = g /\ PlacesByPath[n].mission = m}

(* appendMissionResolution, for each mission in the report. *)
Resolutions ==
  [g \in DOMAIN paths["mission"] |-> [m \in DOMAIN paths["mission"][g] |->
     result[representativeRun(RunsOfMission(g, m))].geometry]]

(* writeSimulationOutput: labelled if the paths describe the runs, and      *)
(* otherwise a flat list of the outcomes.                                   *)
simulationOutput ==
  [written |-> TRUE, summary |-> buildSummary, nested |-> describesRuns,
   runs |-> IF describesRuns THEN buildNestedSimulations
            ELSE [n \in DOMAIN result |-> [outcome |-> result[n]]],
   resolutions |-> IF describesRuns THEN Resolutions ELSE << >>]

(* It is written once every run is over. *)
Write ==
  /\ phase = "runs" /\ \A i \in DOMAIN result : result[i] # NotRun
  /\ report' = simulationOutput
  /\ phase' = "written"
  /\ UNCHANGED <<loading, result, maps>>

Written == phase = "written" /\ UNCHANGED vars

Next ==
  \/ LoadSimulation \/ EndSection \/ Write \/ Written
  \/ \E kind \in Devices : LoadDevice(kind)
  \/ \E i \in DOMAIN result : Run(i)

Spec == Init /\ [][Next]_vars

-----------------------------------------------------------------------------

LoadedFrom(kind, config, path) == config = Config(kind, path)

Aligned(kind, configs, where) ==
  /\ DOMAIN configs = DOMAIN where
  /\ \A i \in DOMAIN where : LoadedFrom(kind, configs[i], where[i])

(* The recorded paths are index-parallel to the configurations, whatever    *)
(* was skipped or came out as defaults (CompositionPaths.h).  The identity  *)
(* index and the report's labels rest on it.                                *)
PathsStayAligned ==
  /\ Aligned("simulation", [g \in DOMAIN groups |-> groups[g].simulation], paths["simulation"])
  /\ DOMAIN paths["mission"] = DOMAIN groups
  /\ \A g \in DOMAIN groups : Aligned("mission", groups[g].missions, paths["mission"][g])
  /\ \A kind \in Devices : Aligned(kind, devices[kind], paths[kind])

(* A label in the report is the path the run's own configuration was read   *)
(* from, although it was found by counting; no report of a batch with runs  *)
(* falls back to the flat list (SimulationOutputWriter.cpp, the notes on    *)
(* describesRuns and buildNestedSimulations).                               *)
CameFrom(config, stated) == \A f \in DOMAIN config :
  config[f] # Default => stated = [path |-> config[f]]

EveryRunIsLabelledWithItsOwnFiles ==
  report.written =>
    /\ Len(report.runs) = Len(Enumerate)
    /\ report.nested \/ Enumerate = << >>
    /\ \A n \in DOMAIN Enumerate :
         LET run == Enumerate[n] stated == report.runs[n] IN
         /\ CameFrom(groups[run.simulation].simulation, stated.simulation)
         /\ CameFrom(groups[run.simulation].missions[run.mission], stated.mission)
         /\ CameFrom(devices["drone"][run.drone], stated.drone)
         /\ CameFrom(devices["lidar"][run.lidar], stated.lidar)
         /\ stated.outcome = result[n]

(* No failed run spoils what the report says of the others: the statistics  *)
(* stay within the scores of the runs that have one, and a mission one of   *)
(* whose runs scored states that run's resolution.                          *)
FailuresSpoilNoFigure ==
  report.written =>
    LET scored == {i \in DOMAIN result : ~isErrored(result[i])} summary == report.summary IN
    /\ summary.total = Len(result) /\ summary.scored = Cardinality(scored)
    /\ scored # {} =>
         /\ summary.min * summary.scored <= summary.sum
         /\ summary.sum <= summary.max * summary.scored
         /\ {summary.min, summary.max} \subseteq {result[i].score : i \in scored}
    /\ \A i \in scored : report.nested =>
         report.resolutions[Enumerate[i].simulation][Enumerate[i].mission]

(* An empty log means a clean load: no simulation was left out, no section  *)
(* is missing, and no configuration that will be flown holds a default      *)
(* nobody heard of (CompositionLoader.cpp, the notes on readScalar).        *)
WholeConfig(config) ==
  \A f \in DOMAIN config \ {"output_mapping_resolution_factor"} : config[f] # Default

CleanLogMeansCleanLoad ==
  phase = "runs" /\ log = {} =>
    /\ \A kind \in Kinds \ {"mission"} : document[kind] # Absent
    /\ Len(groups) = Len(document["simulation"])
    /\ \A g \in DOMAIN groups :
         /\ WholeConfig(groups[g].simulation)
         /\ \A m \in DOMAIN groups[g].missions : WholeConfig(groups[g].missions[m])
    /\ \A kind \in Devices : \A i \in DOMAIN devices[kind] : WholeConfig(devices[kind][i])

(* Every run that has a score still has its own output map when all is over *)
(* (project_context.md, "all output map files, uniquely named").            *)
EveryRunKeepsItsMap ==
  report.written => \A i \in DOMAIN result :
    ~isErrored(result[i]) => maps[outputMapFile(Enumerate[i])] = i

NamesDiffer(where, prefix) ==
  \A i, j \in DOMAIN where : nameFor(where, i, prefix) = nameFor(where, j, prefix) => i = j

(* It holds when no two configurations of a kind have files of one stem.    *)
MapsAreKeptWhenStemsDiffer ==
  /\ \A kind \in Kinds \ {"mission"} : NamesDiffer(paths[kind], kind)
  /\ \A g \in DOMAIN paths["mission"] : NamesDiffer(paths["mission"][g], "mission")
  => EveryRunKeepsItsMap

=============================================================================
