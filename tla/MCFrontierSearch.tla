-------------------------- MODULE MCFrontierSearch --------------------------
(***************************************************************************)
(* Grids of one layer.  A survey sends a beam along each axis: it hits     *)
(* something nearer than the sensor can resolve, hits a cell, or misses.   *)
(***************************************************************************)
EXTENDS FrontierSearch

CONSTANTS Width, Height

MCCells == (0 .. Width - 1) \X (0 .. Height - 1)

Directions == <<<<1, 0>>, <<-1, 0>>, <<0, 1>>, <<0, -1>>>>

Ahead(c, d, n) == <<c[1] + n * Directions[d][1], c[2] + n * Directions[d][2]>>

MCAround == [c \in MCCells |->
  LET InGrid(d) == Ahead(c, d, 1) \in MCCells
      inside == SelectSeq(<<1, 2, 3, 4>>, InGrid)
  IN [i \in DOMAIN inside |-> Ahead(c, inside[i], 1)]]

(* The direction in which a cell lies on an axis through c, and how far.    *)
Bearing(c, cell) ==
  IF cell[1] > c[1] /\ cell[2] = c[2] THEN 1
  ELSE IF cell[1] < c[1] /\ cell[2] = c[2] THEN 2
  ELSE IF cell[1] = c[1] /\ cell[2] > c[2] THEN 3
  ELSE IF cell[1] = c[1] /\ cell[2] < c[2] THEN 4
  ELSE 0

Distance(c, cell) ==
  LET gap(i) == IF cell[i] > c[i] THEN cell[i] - c[i] ELSE c[i] - cell[i] IN gap(1) + gap(2)

(* What a beam that hits at distance hit proves of the cell at distance n;  *)
(* hit 0 is one too near to be placed, and a beam Short of the next cell    *)
(* proves nothing of it.                                                    *)
Short == -1

Seen(hit, n) ==
  IF hit = Short THEN "Unmapped"
  ELSE IF hit = 0 THEN IF n = 1 THEN "PotentiallyOccupied" ELSE "Unmapped"
  ELSE IF n = hit THEN "Occupied"
  ELSE IF n < hit THEN "Empty"
  ELSE "Unmapped"

(* A beam along the edge of the grid shows only the cell itself.            *)
Hits(c, d) ==
  LET range == {n \in 1 .. Width + Height : Ahead(c, d, n) \in MCCells}
  IN Short .. Cardinality(range) + 1

Report(c, hits) == [cell \in MCCells |->
  IF cell = c THEN IF hits = <<0, 0, 0, 0>> THEN "PotentiallyOccupied" ELSE "Empty"
  ELSE IF Bearing(c, cell) = 0 THEN "Unmapped"
  ELSE Seen(hits[Bearing(c, cell)], Distance(c, cell))]

MCScans == [c \in MCCells |->
  {Report(c, <<a, b, d, e>>) : a \in Hits(c, 1), b \in Hits(c, 2), d \in Hits(c, 3), e \in Hits(c, 4)}]

(* The drone starts in a corner, or away from it.                           *)
MCHomes == {<<0, 0>>, <<1, 1>>}

=============================================================================
