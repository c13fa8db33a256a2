--------------------------- MODULE VoxelGeometry ---------------------------
(***************************************************************************)
(* Grids, poses and beams (UserCommon/VoxelGrid.h, BeamGeometry.h, and the *)
(* lookup of Map3DImpl).  A length is an integer; a voxel edge is a        *)
(* multiple of ten units, since both the sensor and the converter march at *)
(* a tenth of one.  Beams and flights lie along an axis.                   *)
(***************************************************************************)
EXTENDS Integers, Sequences, FiniteSets

Axes == 1 .. 3

(* The world direction of a bearing and an altitude angle: 0 is +X, 90 is   *)
(* +Y, and the sine and cosine of a multiple of 90 are snapped to the axis. *)
Direction(horizontal, altitude) ==
  CASE altitude = 90 -> <<0, 0, 1>>
    [] altitude = -90 -> <<0, 0, -1>>
    [] altitude = 0 /\ horizontal = 0 -> <<1, 0, 0>>
    [] altitude = 0 /\ horizontal = 90 -> <<0, 1, 0>>
    [] altitude = 0 /\ horizontal = 180 -> <<-1, 0, 0>>
    [] altitude = 0 /\ horizontal = 270 -> <<0, -1, 0>>

(* pointAlongBeam *)
PointAlongBeam(origin, direction, distance) ==
  [a \in Axes |-> origin[a] + distance * direction[a]]

(* absoluteBeam: what is relative to the heading, in world terms. *)
AbsoluteBeam(heading, relative) ==
  [horizontal |-> (relative.horizontal + heading) % 360, altitude |-> relative.altitude]

-----------------------------------------------------------------------------
(* axisCount: a partial trailing voxel is kept. *)
AxisCount(span, resolution) == IF span > 0 THEN (span + resolution - 1) \div resolution ELSE 0

GridOf(bounds, resolution) ==
  [origin |-> bounds.min, resolution |-> resolution,
   size |-> [a \in Axes |-> AxisCount(bounds.max[a] - bounds.min[a], resolution)]]

Voxels(grid) ==
  (0 .. grid.size[1] - 1) \X (0 .. grid.size[2] - 1) \X (0 .. grid.size[3] - 1)

(* The cell that contains a position, which may lie outside the grid.       *)
IndexOf(grid, position) ==
  [a \in Axes |-> (position[a] - grid.origin[a]) \div grid.resolution]

InGrid(grid, voxel) == \A a \in Axes : voxel[a] >= 0 /\ voxel[a] < grid.size[a]

(* Map3DImpl: what a map holds in the voxel that contains a position. *)
AtVoxel(grid, stored, position) ==
  IF InGrid(grid, IndexOf(grid, position)) THEN stored[IndexOf(grid, position)] ELSE "OutOfBounds"

CentreOf(grid, voxel) ==
  [a \in Axes |-> grid.origin[a] + voxel[a] * grid.resolution + grid.resolution \div 2]

(* The cell a part of the way, i of n, along a straight move.               *)
IndexPartWay(grid, from, to, i, n) ==
  [a \in Axes |-> (n * (from[a] - grid.origin[a]) + i * (to[a] - from[a])) \div (n * grid.resolution)]

(* The axis neighbours, in the order of kNeighbours. *)
Neighbours == <<<<1, 0, 0>>, <<-1, 0, 0>>, <<0, 1, 0>>, <<0, -1, 0>>, <<0, 0, 1>>, <<0, 0, -1>>>>

AreAdjacent(v, w) == \E i \in DOMAIN Neighbours : w = PointAlongBeam(v, Neighbours[i], 1)

(* A move of a total length, in commands of at most a limit each; without a *)
(* limit it is one command.                                                 *)
Chunks(total, limit) ==
  LET chunk == IF limit > 0 THEN limit ELSE total
  IN [i \in 1 .. (total + chunk - 1) \div chunk |->
        IF i * chunk <= total THEN chunk ELSE total - (i - 1) * chunk]

=============================================================================
