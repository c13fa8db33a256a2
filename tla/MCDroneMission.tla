--------------------------- MODULE MCDroneMission ---------------------------
(***************************************************************************)
(* Small worlds: every set of walls that leaves the start free, and in a   *)
(* map of more than eight voxels every set of up to three.                 *)
(***************************************************************************)
EXTENDS DroneMission

MCWorldsOf(c) ==
  LET cells == (0 .. c.mapShape[1] - 1) \X (0 .. c.mapShape[2] - 1) \X (0 .. c.mapShape[3] - 1)
      start == [a \in Axes |-> (c.start[a] + c.mapOffset[a]) \div c.mapResolution]
  IN IF Cardinality(cells) <= 8 THEN SUBSET (cells \ {start})
     ELSE UNION {kSubset(n, cells \ {start}) : n \in 0 .. 3}

(* Two by two by two voxels, seen from the middle of one, and a square seen *)
(* from the corner where all four meet; the drone crosses a voxel in three  *)
(* commands.                                                                *)
Cube == [mapShape |-> <<2, 2, 2>>, mapResolution |-> 10, mapOffset |-> <<0, 0, 0>>,
         start |-> <<5, 5, 5>>, heading |-> 0,
         bounds |-> [min |-> <<0, 0, 0>>, max |-> <<20, 20, 20>>],
         gpsResolution |-> 10, factor |-> 1, maxSteps |-> 200,
         maxRotate |-> 60, maxAdvance |-> 4, maxElevate |-> 7, zMin |-> 3, zMax |-> 25]

SquareFromCorner == [Cube EXCEPT !.mapShape = <<2, 2, 1>>, !.bounds.max = <<20, 20, 10>>,
                                 !.start = <<10, 10, 5>>, !.heading = 45]

(* A corridor in the middle of the map whose region goes on beyond the map, *)
(* also seen with a sensor blind to the next voxel.                         *)
Corridor == [Cube EXCEPT !.mapShape = <<3, 2, 1>>, !.mapOffset = <<10, 0, 0>>, !.heading = 90,
                         !.bounds.max = <<30, 20, 10>>, !.gpsResolution = 0, !.factor = 0]
BlindCorridor == [Corridor EXCEPT !.zMin = 12]

(* As blind, with detours to fly: a wall that was never resolved may lie on *)
(* the shortest way to a voxel that was seen from the other side.           *)
BlindBlock == [Cube EXCEPT !.mapShape = <<3, 2, 2>>, !.bounds.max = <<30, 20, 20>>, !.zMin = 12]

(* The output map finer or coarser than the world's, and a sensor blind to what is near. *)
Fine == [Cube EXCEPT !.mapShape = <<2, 1, 1>>, !.mapResolution = 20, !.start = <<20, 10, 10>>,
                     !.bounds.max = <<40, 20, 20>>, !.zMax = 30]
Coarse == [Cube EXCEPT !.mapShape = <<4, 2, 1>>, !.bounds.max = <<40, 20, 10>>, !.factor = 2]
FineBlind == [Fine EXCEPT !.zMin = 20]

(* Budgets that run out, and a start outside the region. *)
ShortOf(c, n) == [c EXCEPT !.maxSteps = n]
Outside == [Cube EXCEPT !.start = <<5, 5, 25>>]

(* A drone that cannot move forward, and a region that ends inside its last *)
(* voxel.                                                                   *)
Grounded == [Cube EXCEPT !.maxAdvance = 0, !.mapShape = <<2, 1, 1>>, !.bounds.max = <<20, 10, 10>>]
Partial == [Cube EXCEPT !.mapShape = <<2, 2, 1>>, !.bounds.max = <<15, 20, 10>>, !.start = <<8, 5, 5>>]

MCConfigs ==
  {Cube, SquareFromCorner, Corridor, BlindCorridor, BlindBlock, Fine, FineBlind,
   Coarse, Grounded, Partial, Outside, ShortOf(Cube, 0), ShortOf(Cube, 7), ShortOf(Corridor, 19)}

MCPartial == {Partial}

(* The output map coarser than the world's, and a sensor that is blind to   *)
(* a wall in the far half of the voxel the drone stands in.                 *)
MCCoarse == {[Cube EXCEPT !.mapShape = <<8, 4, 1>>, !.bounds.max = <<80, 40, 10>>, !.factor = 2,
                          !.start = <<25, 25, 5>>, !.zMin = 7, !.zMax = 45]}
MCTwoWalls(c) == {{<<3, 0, 0>>, <<6, 2, 0>>}}

(* A wall two output voxels thick, of which the drone can see the near one. *)
MCFine == {[Fine EXCEPT !.start = <<10, 10, 10>>]}

=============================================================================
