---------------------------- MODULE DroneMission ----------------------------
(***************************************************************************)
(* One mission: MissionControlImpl::runMission drives DroneControlImpl     *)
(* step by step; each step asks MappingAlgorithmImpl for a command,        *)
(* validates it, moves the drone, and records a scan of the hidden world   *)
(* in the output map.  At the end SimulationRunImpl scores the map.        *)
(*                                                                         *)
(* The frontier search is taken from its specification: a shortest route   *)
(* to a nearest frontier (FrontierSearch checks that it is one), and of    *)
(* those the first in the order in which neighbours are looked at.         *)
(***************************************************************************)
EXTENDS VoxelGeometry, FiniteSetsExt, SequencesExt

CONSTANTS
  Configs,      \* the combinations of simulation, mission, drone and lidar
  WorldsOf(_)   \* the sets of solid voxels a configuration's map may hold

(* Lengths are whole units, an edge a multiple of ten of them; a limit or a *)
(* resolution that is not positive counts as none.                          *)
ASSUME MissionAssumption ==
  \A c \in Configs :
    /\ c.mapShape \in [Axes -> Nat]
    /\ {c.mapOffset, c.start, c.bounds.min, c.bounds.max} \subseteq [Axes -> Int]
    /\ c.heading \in 0 .. 359
    /\ c.mapResolution > 0 /\ c.mapResolution % 10 = 0 /\ c.gpsResolution % 10 = 0
    /\ {c.mapResolution, c.gpsResolution, c.factor, c.maxSteps, c.maxRotate, c.maxAdvance,
        c.maxElevate, c.zMin, c.zMax} \subseteq Nat

(* A world is made of voxels of the map, and leaves the start free.         *)
ASSUME WorldsAssumption ==
  \A c \in Configs : \A w \in WorldsOf(c) :
    /\ w \subseteq (0 .. c.mapShape[1] - 1) \X (0 .. c.mapShape[2] - 1) \X (0 .. c.mapShape[3] - 1)
    /\ [a \in Axes |-> (c.start[a] + c.mapOffset[a]) \div c.mapResolution] \notin w

VARIABLES
  config,       \* the configuration of this run
  world,        \* the solid voxels of the hidden map
  map,          \* the output map
  position, heading,  \* MockGPS
  plan,         \* plan_
  surveyed,     \* surveyed_
  command,      \* last_command_
  stepIndex,    \* step_index_
  steps,        \* MissionRunResult::steps
  status,       \* MissionRunResult::status
  score,        \* mission_score
  destination,  \* history: the voxel the current plan should end in
  pc

pose == <<position, heading>>
algorithm == <<plan, surveyed, destination>>
result == <<steps, status, score>>
vars == <<config, world, map, pose, algorithm, command, stepIndex, result, pc>>

-----------------------------------------------------------------------------
(* The run's wiring (SimulationRunFactoryImpl::create). *)

Translated(p) == [a \in Axes |-> p[a] + config.mapOffset[a]]

(* resolveOutputResolution *)
OutputResolution ==
  LET base == IF config.gpsResolution > 0 THEN config.gpsResolution ELSE config.mapResolution
  IN IF config.factor >= 1 THEN base * config.factor ELSE base

(* The mission bounds in the world's frame anchor the output map; the       *)
(* hidden map is anchored at the world's origin.                            *)
MissionBounds == [min |-> Translated(config.bounds.min), max |-> Translated(config.bounds.max)]

Output == GridOf(MissionBounds, OutputResolution)

Hidden == [origin |-> <<0, 0, 0>>, resolution |-> config.mapResolution, size |-> config.mapShape]

EmptyMap == [v \in Voxels(Output) |-> "Unmapped"]

March(resolution) == resolution \div 10

NoCommand == [movement |-> <<>>, scan |-> <<>>, status |-> "Working"]

Init ==
  /\ config \in Configs
  /\ world \in WorldsOf(config)
  /\ map = EmptyMap
  /\ position = Translated(config.start) /\ heading = config.heading
  /\ plan = <<>> /\ surveyed = {}
  /\ command = NoCommand
  /\ stepIndex = 0
  /\ steps = 0 /\ status = "MaxSteps" /\ score = "none"
  /\ destination = IndexOf(Output, position)
  /\ pc = "decide"

-----------------------------------------------------------------------------
(* The algorithm's decision (MappingAlgorithmImpl::nextStep). *)

Current == IndexOf(Output, position)

Scan(relative) == [NoCommand EXCEPT !.scan = <<relative>>]
Move(type, direction, amount) ==
  [NoCommand EXCEPT !.movement = <<[type |-> type, direction |-> direction, amount |-> amount]>>]
Terminal(ending) == [NoCommand EXCEPT !.status = ending]

(* Mutant: a survey that forgets to look down. *)
SurveyDirectionsWithoutDown == <<<<0, 0>>, <<180, 0>>, <<90, 0>>, <<270, 0>>, <<0, 90>>>>

(* buildSurvey: the six axis directions, relative to the heading. *)
SurveyDirections == <<<<0, 0>>, <<180, 0>>, <<90, 0>>, <<270, 0>>, <<0, 90>>, <<0, -90>>>>

BuildSurvey ==
  [i \in DOMAIN SurveyDirections |->
     Scan([horizontal |-> SurveyDirections[i][1] - heading, altitude |-> SurveyDirections[i][2]])]

(* shortestSignedDegrees: in (-180, 180]. *)
ShortestSigned(degrees) ==
  LET wrapped == degrees % 360 IN IF wrapped > 180 THEN wrapped - 360 ELSE wrapped

(* appendRotation *)
Rotations(from, to) ==
  LET delta == ShortestSigned(to - from)
      turns == Chunks(IF delta < 0 THEN -delta ELSE delta, config.maxRotate)
  IN IF delta = 0 THEN <<>>
     ELSE [i \in DOMAIN turns |-> Move("Rotate", IF delta > 0 THEN "Left" ELSE "Right", turns[i])]

(* Mutant: a voxel is crossed in one command, whatever the limit. *)
AdvancesInOne == <<Move("Advance", "Left", OutputResolution)>>

(* appendAdvance, appendElevate: one voxel. *)
Advances ==
  LET legs == Chunks(OutputResolution, config.maxAdvance)
  IN [i \in DOMAIN legs |-> Move("Advance", "Left", legs[i])]

Elevations(sign) ==
  LET legs == Chunks(OutputResolution, config.maxElevate)
  IN [i \in DOMAIN legs |-> Move("Elevate", "Left", sign * legs[i])]

Bearing(dx, dy) == IF dx > 0 THEN 0 ELSE IF dx < 0 THEN 180 ELSE IF dy > 0 THEN 90 ELSE 270

(* buildRouteCommands: the heading is the one planned so far, not measured. *)
BuildRouteCommands(route) ==
  LET Gap(i, a) == route[i + 1][a] - route[i][a]
      planned[i \in 0 .. Len(route) - 1] ==
        IF i = 0 THEN [commands |-> <<>>, heading |-> heading]
        ELSE LET before == planned[i - 1]
                 target == Bearing(Gap(i, 1), Gap(i, 2))
             IN IF Gap(i, 3) # 0
                THEN [before EXCEPT !.commands = @ \o Elevations(Gap(i, 3))]
                ELSE [commands |-> before.commands \o Rotations(before.heading, target) \o Advances,
                      heading |-> target]
  IN planned[Len(route) - 1].commands

BordersUnmapped(v) == \E w \in DOMAIN map : AreAdjacent(v, w) /\ map[w] = "Unmapped"

IsTarget(v) ==
  v # Current /\ v \notin surveyed /\ map[v] = "Empty" /\ BordersUnmapped(v)

(* Mutant: what may be occupied may as well be empty. *)
FlyableInDoubt(v) == map[v] \in {"Empty", "PotentiallyOccupied"}

(* Only what a scan has proven empty is flown through. *)
Flyable(v) == map[v] = "Empty"

(* The shortest routes to a nearest target. *)
NearestRoutes ==
  LET flyable == {w \in DOMAIN map : Flyable(w)}
      within[n \in 0 .. Cardinality(flyable)] ==
        IF n = 0 THEN {Current}
        ELSE LET nearer == within[n - 1]
             IN nearer \cup {w \in flyable : \E v \in nearer : AreAdjacent(v, w)}
      distances == {n \in DOMAIN within : \E v \in within[n] : IsTarget(v)}
      routes[n \in DOMAIN within] ==
        IF n = 0 THEN {<<Current>>}
        ELSE UNION {{Append(r, w) : w \in {x \in within[n] \ within[n - 1] : AreAdjacent(Last(r), x)}} :
                      r \in routes[n - 1]}
  IN IF distances = {} THEN {} ELSE {r \in routes[Min(distances)] : IsTarget(Last(r))}

(* Breadth-first search meets the routes of one length in the order of the  *)
(* neighbours they take, at the first voxel where they part.                *)
NeighbourTaken(route, i) ==
  CHOOSE n \in DOMAIN Neighbours : route[i + 1] = PointAlongBeam(route[i], Neighbours[n], 1)

MetBefore(r, s) ==
  \E i \in 1 .. Len(r) - 1 :
    (\A j \in 1 .. i : r[j] = s[j]) /\ NeighbourTaken(r, i) < NeighbourTaken(s, i)

(* classifyEnding *)
Ending == IF \E v \in DOMAIN map : map[v] = "Unmapped"
            THEN "FinishedWithUnmappableVoxels" ELSE "Finished"

(* The loop of runMission asks for another step. *)
Deciding == pc = "decide" /\ steps < config.maxSteps

Issue(c) ==
  /\ command' = c
  /\ pc' = "obey"
  /\ UNCHANGED <<config, world, map, pose, stepIndex, result>>

(* A queued command is drained first. *)
Drain ==
  /\ Deciding
  /\ plan # <<>>
  /\ plan' = Tail(plan)
  /\ UNCHANGED <<surveyed, destination>>
  /\ Issue(Head(plan))

(* A drone outside the region it should map is given up. *)
LeaveOutside ==
  /\ Deciding
  /\ plan = <<>> /\ ~InGrid(Output, Current)
  /\ UNCHANGED algorithm
  /\ Issue(Terminal("Finished"))

(* A voxel is surveyed the first time the drone stands in it. *)
Survey ==
  /\ Deciding
  /\ plan = <<>> /\ InGrid(Output, Current) /\ Current \notin surveyed
  /\ surveyed' = surveyed \cup {Current}
  /\ plan' = Tail(BuildSurvey)
  /\ UNCHANGED destination
  /\ Issue(Head(BuildSurvey))

(* planRouteToFrontier returns the route it meets first. *)
Travel ==
  /\ Deciding
  /\ plan = <<>> /\ InGrid(Output, Current) /\ Current \in surveyed
  /\ \E route \in NearestRoutes :
       LET commands == BuildRouteCommands(route)
       IN /\ \A other \in NearestRoutes : ~MetBefore(other, route)
          /\ destination' = Last(route)
          /\ plan' = Tail(commands)
          /\ Issue(Head(commands))
  /\ UNCHANGED surveyed

GiveUp ==
  /\ Deciding
  /\ plan = <<>> /\ InGrid(Output, Current) /\ Current \in surveyed
  /\ NearestRoutes = {}
  /\ UNCHANGED algorithm
  /\ Issue(Terminal(Ending))

-----------------------------------------------------------------------------
(* The sensor (MockLidar::traceBeam). *)

IsSolid(p) == IndexOf(Hidden, p) \in world

Miss == -1

(* The first sample in a solid voxel; 0 when it is too near to resolve. *)
TraceBeam(origin, direction) ==
  LET hits == {i \in 0 .. config.zMax \div March(config.mapResolution) :
                 IsSolid(PointAlongBeam(origin, direction, i * March(config.mapResolution)))}
      distance == Min(hits) * March(config.mapResolution)
  IN IF hits = {} THEN Miss ELSE IF distance < config.zMin THEN 0 ELSE distance

-----------------------------------------------------------------------------
(* Recording a scan (ScanResultToVoxels). *)

OccupancyPriority(o) ==
  CASE o = "Occupied" -> 3 [] o = "Empty" -> 2 [] o = "PotentiallyOccupied" -> 1 [] OTHER -> 0

(* Mutant: the latest observation wins. *)
MarkedRegardless(m, voxels, value) == [v \in DOMAIN m |-> IF v \in voxels THEN value ELSE m[v]]

(* setIfStronger for a set of voxels; those outside the map are left out. *)
Marked(m, voxels, value) ==
  [v \in DOMAIN m |->
     IF v \in voxels /\ OccupancyPriority(value) > OccupancyPriority(m[v]) THEN value ELSE m[v]]

(* markBeamSegment: the voxels sampled up to a distance. *)
Segment(origin, direction, end) ==
  {IndexOf(Output, PointAlongBeam(origin, direction, i * March(OutputResolution))) :
     i \in 0 .. end \div March(OutputResolution)}

(* Mutant: what is too near to resolve is taken for free. *)
ApplyToMapTrustingTheNear(m, origin, direction, distance) ==
  IF ~InGrid(Output, IndexOf(Output, origin)) THEN m
  ELSE IF distance = 0 THEN Marked(m, Segment(origin, direction, config.zMin), "Empty")
  ELSE IF distance = Miss THEN Marked(m, Segment(origin, direction, config.zMax), "Empty")
  ELSE Marked(Marked(m, Segment(origin, direction, distance), "Empty"),
              {IndexOf(Output, PointAlongBeam(origin, direction, distance))}, "Occupied")

(* applyToMap *)
ApplyToMap(m, origin, direction, distance) ==
  IF ~InGrid(Output, IndexOf(Output, origin)) THEN m
  ELSE IF distance = 0 THEN Marked(m, Segment(origin, direction, config.zMin), "PotentiallyOccupied")
  ELSE IF distance = Miss THEN Marked(m, Segment(origin, direction, config.zMax), "Empty")
  ELSE Marked(Marked(m, Segment(origin, direction, distance), "Empty"),
              {IndexOf(Output, PointAlongBeam(origin, direction, distance))}, "Occupied")

(* The scan is traced and recorded along the same world direction: each     *)
(* side adds the heading to the relative orientation.                       *)
Recorded(p, h, relative) ==
  LET traced == AbsoluteBeam(h, relative)
      recorded == AbsoluteBeam(h, relative)
  IN ApplyToMap(map, p, Direction(recorded.horizontal, recorded.altitude),
                TraceBeam(p, Direction(traced.horizontal, traced.altitude)))

-----------------------------------------------------------------------------
(* Obeying the command (DroneControlImpl::step). *)

Magnitude(n) == IF n < 0 THEN -n ELSE n

WithinLimits(m) ==
  CASE m.type = "Rotate" -> Magnitude(m.amount) <= config.maxRotate
    [] m.type = "Advance" -> Magnitude(m.amount) <= config.maxAdvance
    [] m.type = "Elevate" -> Magnitude(m.amount) <= config.maxElevate

(* predictPosition, and what the actuator does. *)
Moved(m) ==
  CASE m.type = "Rotate" -> position
    [] m.type = "Advance" -> PointAlongBeam(position, Direction(heading % 360, 0), m.amount)
    [] m.type = "Elevate" -> PointAlongBeam(position, <<0, 0, 1>>, m.amount)

(* A bug in the turn: left and right are swapped. *)
TurnedTheWrongWay(m) ==
  IF m.type # "Rotate" THEN heading
  ELSE (IF m.direction = "Left" THEN heading - m.amount ELSE heading + m.amount) % 360

Turned(m) ==
  IF m.type # "Rotate" THEN heading
  ELSE (IF m.direction = "Left" THEN heading + m.amount ELSE heading - m.amount) % 360

WithinMissionBounds(p) ==
  \A a \in Axes : p[a] >= MissionBounds.min[a] /\ p[a] <= MissionBounds.max[a]

(* Samples a tenth of a voxel apart, none in a voxel known to be occupied. *)
PathIsClear(from, to) ==
  LET span == Max({Magnitude(to[a] - from[a]) : a \in Axes})
      samples == (span + March(OutputResolution) - 1) \div March(OutputResolution)
      Sampled(i) == IndexPartWay(Output, from, to, i, samples)
  IN \A i \in 1 .. samples : InGrid(Output, Sampled(i)) => map[Sampled(i)] # "Occupied"

IsLegal(m) ==
  WithinLimits(m) /\ WithinMissionBounds(Moved(m)) /\ PathIsClear(position, Moved(m))

(* Mutant: a refused command counts as a step of the drone. *)
RefuseAndCount ==
  /\ pc = "obey"
  /\ command.movement # <<>> /\ ~IsLegal(Head(command.movement))
  /\ steps' = steps + 1
  /\ stepIndex' = stepIndex + 1
  /\ status' = "Error"
  /\ pc' = "settle"
  /\ UNCHANGED <<config, world, map, pose, algorithm, command, score>>

(* A refused command ends the mission before anything is moved or scanned.  *)
Refuse ==
  /\ pc = "obey"
  /\ command.movement # <<>> /\ ~IsLegal(Head(command.movement))
  /\ steps' = steps + 1
  /\ status' = "Error"
  /\ pc' = "settle"
  /\ UNCHANGED <<config, world, map, pose, algorithm, command, stepIndex, score>>

(* The drone moves, and then scans from where it has come to be. *)
Obey ==
  /\ pc = "obey"
  /\ command.movement # <<>> => IsLegal(Head(command.movement))
  /\ IF command.movement = <<>> THEN UNCHANGED pose
     ELSE position' = Moved(Head(command.movement)) /\ heading' = Turned(Head(command.movement))
  /\ map' = IF command.scan = <<>> THEN map ELSE Recorded(position', heading', Head(command.scan))
  /\ stepIndex' = stepIndex + 1
  /\ steps' = steps + 1
  /\ IF command.status = "Working" THEN pc' = "decide" /\ UNCHANGED status
     ELSE pc' = "settle" /\ status' = "Completed"
  /\ UNCHANGED <<config, world, algorithm, command, score>>

-----------------------------------------------------------------------------
(* Mutant: the two maps are compared index by index, as if they had one grid. *)
OccupiedInOutputByIndex(v) == v \in DOMAIN map /\ map[v] = "Occupied"

(* MapsComparison::compare: voxels occupied in both maps, and in either,    *)
(* sampled at the centres of the hidden map's voxels.                       *)
OccupiedInOutput(v) == AtVoxel(Output, map, CentreOf(Hidden, v)) = "Occupied"

Compare ==
  LET either == {v \in Voxels(Hidden) : v \in world \/ OccupiedInOutput(v)}
  IN IF either = {} THEN [both |-> 1, either |-> 1]
     ELSE [both |-> Cardinality({v \in either : v \in world /\ OccupiedInOutput(v)}),
           either |-> Cardinality(either)]

(* The loop has ended: a failed mission is not compared. *)
Settle ==
  /\ pc = "settle" \/ (pc = "decide" /\ steps >= config.maxSteps)
  /\ score' = IF status = "Error" THEN "failed" ELSE Compare
  /\ pc' = "done"
  /\ UNCHANGED <<config, world, map, pose, algorithm, command, stepIndex, steps, status>>

Done == pc = "done" /\ UNCHANGED vars

Next ==
  \/ Drain \/ LeaveOutside \/ Survey \/ Travel \/ GiveUp
  \/ Refuse \/ Obey \/ Settle \/ Done

Spec == Init /\ [][Next]_vars

-----------------------------------------------------------------------------
TypeOK ==
  /\ map \in [Voxels(Output) -> {"Unmapped", "PotentiallyOccupied", "Empty", "Occupied"}]
  /\ surveyed \subseteq Voxels(Output)
  /\ heading \in 0 .. 359
  /\ status \in {"MaxSteps", "Completed", "Error"}
  /\ pc \in {"decide", "obey", "settle", "done"}

(* The drone flies only where it has seen free space, so it is never inside *)
(* a wall: "every path emitted here is through space the drone has already  *)
(* seen to be free" (MappingAlgorithmImpl.h).                               *)
NeverInsideAWall == ~IsSolid(position)

(* Every output voxel lies within one voxel of the world, so that one beam  *)
(* through it tells of all of it;                                           *)
GridsAlign ==
  /\ config.mapResolution % OutputResolution = 0
  /\ \A a \in Axes : MissionBounds.min[a] % OutputResolution = 0

(* and the sensor, which looks a tenth of the world's voxels apart, cannot  *)
(* step over an output voxel of a wall, nor end short of what is recorded.  *)
VoxelsNest ==
  /\ GridsAlign
  /\ config.mapResolution <= 10 * OutputResolution
  /\ config.zMax % March(config.mapResolution) = 0

(* So it is when voxels nest.                                               *)
NeverInsideAWallWhenVoxelsNest == VoxelsNest => ~IsSolid(position)

(* The part of the world an output voxel covers. *)
Covered(v) ==
  LET low == [a \in Axes |-> Output.origin[a] + v[a] * OutputResolution]
  IN {w \in Voxels(Hidden) : \A a \in Axes :
        /\ low[a] < (w[a] + 1) * config.mapResolution
        /\ w[a] * config.mapResolution < low[a] + OutputResolution}

(* What the scans of a whole mission claim, from every pose and in whatever *)
(* order they were recorded, is so: what is mapped Occupied holds a wall,   *)
(* and what is mapped Empty holds none, when one beam can tell.             *)
MapTellsTheTruth ==
  \A v \in DOMAIN map :
    /\ map[v] = "Empty" /\ VoxelsNest => Covered(v) \cap world = {}
    /\ map[v] = "Occupied" => Covered(v) \cap world # {}

(* A later scan never takes back what a stronger observation has claimed:   *)
(* "the map getting *worse* the more it scanned" (setIfStronger).           *)
MapNeverForgets ==
  [][\A v \in DOMAIN map :
       /\ v \in DOMAIN map'
       /\ OccupancyPriority(map'[v]) >= OccupancyPriority(map[v])]_vars

(* "Every command respects the drone's limits, so the mission control never *)
(* has to refuse one" (buildRouteCommands).                                 *)
NeverRefused == status # "Error"

(* So it is for a drone that can move at all, when voxels nest and none     *)
(* sticks out of the region: the planner, which thinks in voxels, and the validation,     *)
(* which thinks in centimetres, agree on every command of every plan.       *)
WholeVoxels ==
  \A a \in Axes : (config.bounds.max[a] - config.bounds.min[a]) % OutputResolution = 0

NeverRefusedInWholeVoxels ==
  WholeVoxels /\ VoxelsNest /\ config.maxRotate > 0 /\ config.maxAdvance > 0 /\ config.maxElevate > 0
    => status # "Error"

(* The plan is compiled from a heading and a pose that are only foreseen:   *)
(* when it has run out, the drone is in the voxel the search chose.         *)
ArrivesWhereThePlanLeads == pc = "decide" /\ plan = <<>> => Current = destination

(* The free output voxels connected to the start, said without paths. *)
StartVoxel == IndexOf(Output, Translated(config.start))
IsFree(v) == v \in DOMAIN map /\ Covered(v) \cap world = {}

ConnectedToStart ==
  LET open == {w \in DOMAIN map : IsFree(w)}
      grown[n \in 0 .. Cardinality(open)] ==
        IF n = 0 THEN {StartVoxel}
        ELSE LET nearer == grown[n - 1]
             IN nearer \cup {w \in open : \E v \in nearer : AreAdjacent(v, w)}
  IN grown[Cardinality(open)]

(* The sensor resolves what lies next to the drone. *)
SensorResolves == config.zMin <= OutputResolution /\ config.zMax >= OutputResolution

(* A mission that completes has mapped every free voxel it could have flown *)
(* to from a start in a free voxel, and has seen every wall next to one,    *)
(* when voxels nest: a beam that passes by a wall in a coarser voxel takes  *)
(* the voxel for free, and the drone surveys where it cannot see.           *)
EverythingReachableIsMapped ==
  pc = "done" /\ status = "Completed" /\ VoxelsNest /\ SensorResolves /\ IsFree(StartVoxel)
  => \A v \in ConnectedToStart, w \in DOMAIN map :
       /\ map[v] = "Empty" \/ v = StartVoxel
       /\ AreAdjacent(v, w) => map[w] # "Unmapped"

(* A wall of which any part is known counts as found. *)
FoundWallsCount ==
  Cardinality({w \in world : \E v \in DOMAIN map : w \in Covered(v) /\ map[v] = "Occupied"})

(* With both maps on one grid of voxels the score is exact: nothing is      *)
(* claimed that is not there, and every wall found counts.                  *)
ScoreIsExact ==
  pc = "done" /\ status # "Error" /\ GridsAlign /\ OutputResolution = config.mapResolution /\ world # {}
  => score.both = FoundWallsCount /\ score.either = Cardinality(world)

(* Sampling at the centre "lands squarely on the intended cell"             *)
(* (MapsComparison.cpp): every wall found counts, at any resolution.        *)
EveryFoundWallCounts ==
  pc = "done" /\ status # "Error" /\ world # {} => score.both = FoundWallsCount

(* The mission ends within its budget and says why: out of steps only when  *)
(* the budget is used up by steps that were all carried out, and completed  *)
(* even when that took the last one.                                        *)
StepsAddUp ==
  pc \in {"settle", "done"} =>
    /\ steps <= config.maxSteps
    /\ stepIndex = IF status = "Error" THEN steps - 1 ELSE steps
    /\ status = "MaxSteps" => steps = config.maxSteps /\ command.status = "Working"
    /\ status = "Completed" => command.status # "Working"

-----------------------------------------------------------------------------
(* What is true of the step budget at every point of the loop. *)
StepsInv ==
  /\ config \in Configs
  /\ steps \in Nat /\ stepIndex \in Nat
  /\ pc \in {"decide", "obey", "settle", "done"}
  /\ status \in {"MaxSteps", "Completed", "Error"}
  /\ steps <= config.maxSteps
  /\ pc \in {"decide", "obey"} => stepIndex = steps /\ status = "MaxSteps"
  /\ pc = "decide" => command.status = "Working"
  /\ pc = "obey" => steps < config.maxSteps
  /\ pc = "settle" => status # "MaxSteps"
  /\ pc \in {"settle", "done"} =>
       /\ stepIndex = IF status = "Error" THEN steps - 1 ELSE steps
       /\ status = "MaxSteps" => steps = config.maxSteps /\ command.status = "Working"
       /\ status = "Completed" => command.status # "Working"

=============================================================================
