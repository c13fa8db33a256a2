------------------------- MODULE DroneMissionProofs -------------------------
(***************************************************************************)
(* Theorems about a mission, for every set of configurations and worlds.   *)
(* A mission's invariant says of the map that it is true, and of what is   *)
(* still to be obeyed that it is a flight through free places or a survey: *)
(* beams make the map true, a true map makes routes free, and free routes  *)
(* make flights whose every leg is within the limits and the bounds.       *)
(***************************************************************************)
EXTENDS DroneMission, FiniteSetTheorems, TLAPS

(* The strength of evidence is a number. *)
LEMMA PriorityIsNat == \A o : OccupancyPriority(o) \in Nat
  BY DEF OccupancyPriority

(* Marking voxels keeps the grid and weakens nothing. *)
LEMMA MarkedKeeps ==
  ASSUME NEW m, NEW voxels, NEW value
  PROVE  /\ DOMAIN Marked(m, voxels, value) = DOMAIN m
         /\ \A v \in DOMAIN m :
              OccupancyPriority(Marked(m, voxels, value)[v]) >= OccupancyPriority(m[v])
<1>1. DOMAIN Marked(m, voxels, value) = DOMAIN m
  BY DEF Marked
<1>2. ASSUME NEW v \in DOMAIN m
      PROVE  OccupancyPriority(Marked(m, voxels, value)[v]) >= OccupancyPriority(m[v])
  <2>1. OccupancyPriority(value) \in Nat /\ OccupancyPriority(m[v]) \in Nat
    BY PriorityIsNat
  <2>2. CASE v \in voxels /\ OccupancyPriority(value) > OccupancyPriority(m[v])
    <3>1. Marked(m, voxels, value)[v] = value
      BY <2>2 DEF Marked
    <3>2. QED  BY <2>1, <2>2, <3>1
  <2>3. CASE ~(v \in voxels /\ OccupancyPriority(value) > OccupancyPriority(m[v]))
    <3>1. Marked(m, voxels, value)[v] = m[v]
      BY <2>3 DEF Marked
    <3>2. QED  BY <2>1, <3>1
  <2>4. QED  BY <2>2, <2>3
<1>3. QED  BY <1>1, <1>2

(* A scan, whatever it hit, keeps the grid and weakens nothing. *)
LEMMA ApplyToMapKeeps ==
  ASSUME NEW m, NEW origin, NEW direction, NEW distance
  PROVE  /\ DOMAIN ApplyToMap(m, origin, direction, distance) = DOMAIN m
         /\ \A v \in DOMAIN m :
              OccupancyPriority(ApplyToMap(m, origin, direction, distance)[v])
                >= OccupancyPriority(m[v])
<1> DEFINE after == ApplyToMap(m, origin, direction, distance)
           free  == Marked(m, Segment(origin, direction, distance), "Empty")
           struck == {IndexOf(Output, PointAlongBeam(origin, direction, distance))}
<1>1. \/ after = m
      \/ \E voxels, value : after = Marked(m, voxels, value)
      \/ after = Marked(free, struck, "Occupied")
  BY DEF ApplyToMap
<1>2. CASE after = m
  BY <1>2, PriorityIsNat
<1>3. CASE \E voxels, value : after = Marked(m, voxels, value)
  BY <1>3, MarkedKeeps
<1>4. CASE after = Marked(free, struck, "Occupied")
  <2>1. /\ DOMAIN free = DOMAIN m
        /\ \A v \in DOMAIN m : OccupancyPriority(free[v]) >= OccupancyPriority(m[v])
    BY MarkedKeeps
  <2>2. /\ DOMAIN after = DOMAIN free
        /\ \A v \in DOMAIN free : OccupancyPriority(after[v]) >= OccupancyPriority(free[v])
    BY <1>4, MarkedKeeps
  <2>3. ASSUME NEW v \in DOMAIN m
        PROVE  OccupancyPriority(after[v]) >= OccupancyPriority(m[v])
    <3>1. /\ OccupancyPriority(after[v]) \in Nat
          /\ OccupancyPriority(free[v]) \in Nat
          /\ OccupancyPriority(m[v]) \in Nat
      BY PriorityIsNat
    <3> HIDE DEF after, free
    <3>2. OccupancyPriority(free[v]) >= OccupancyPriority(m[v])
      BY <2>1
    <3>3. OccupancyPriority(after[v]) >= OccupancyPriority(free[v])
      BY <2>1, <2>2
    <3>4. QED  BY <3>1, <3>2, <3>3
  <2>4. QED  BY <2>1, <2>2, <2>3
<1>5. QED  BY <1>1, <1>2, <1>3, <1>4

(* Whatever a mission does, no step weakens what the output map claims: the *)
(* ranking of setIfStronger, over all poses, scans and orders.              *)
THEOREM MapNeverForgetsHolds == Spec => MapNeverForgets
<1> DEFINE Keeps == \A v \in DOMAIN map :
                      /\ v \in DOMAIN map'
                      /\ OccupancyPriority(map'[v]) >= OccupancyPriority(map[v])
<1>1. ASSUME map' = map PROVE Keeps
  BY <1>1, PriorityIsNat
<1>2. ASSUME Obey PROVE Keeps
  <2>1. CASE command.scan = <<>>
    BY <1>1, <1>2, <2>1 DEF Obey
  <2>2. CASE command.scan # <<>>
    <3>1. map' = Recorded(position', heading', Head(command.scan))
      BY <1>2, <2>2 DEF Obey
    <3>2. \E origin, direction, distance : map' = ApplyToMap(map, origin, direction, distance)
      BY <3>1 DEF Recorded
    <3>3. QED  BY <3>2, ApplyToMapKeeps
  <2>3. QED  BY <2>1, <2>2
<1>3. ASSUME [Next]_vars PROVE map' = map \/ Obey
  BY <1>3 DEF Next, vars, Drain, LeaveOutside, Survey, Travel, GiveUp, Issue, Refuse, Settle, Done
<1>4. [Next]_vars => [Keeps]_vars
  BY <1>1, <1>2, <1>3
<1>5. QED  BY <1>4, PTL DEF Spec, MapNeverForgets

-----------------------------------------------------------------------------
(* The budget at every point of the loop. *)
THEOREM StepsInvariant == Spec => []StepsInv
<1>1. Init => StepsInv
  BY MissionAssumption DEF Init, StepsInv, NoCommand
<1>2. ASSUME StepsInv, [Next]_vars PROVE StepsInv'
  <2> USE MissionAssumption
  <2>1. ASSUME Deciding, NEW c, Issue(c) PROVE StepsInv'
    BY <1>2, <2>1 DEF StepsInv, Deciding, Issue, result
  <2>2. CASE Drain \/ LeaveOutside \/ Survey \/ Travel \/ GiveUp
    <3>1. Deciding /\ \E c : Issue(c)
      BY <2>2 DEF Drain, LeaveOutside, Survey, Travel, GiveUp
    <3>2. QED  BY <2>1, <3>1
  <2>3. CASE Refuse
    BY <1>2, <2>3 DEF StepsInv, Refuse
  <2>4. CASE Obey
    <3>1. CASE command.status = "Working"
      BY <1>2, <2>4, <3>1 DEF StepsInv, Obey
    <3>2. CASE command.status # "Working"
      BY <1>2, <2>4, <3>2 DEF StepsInv, Obey
    <3>3. QED  BY <3>1, <3>2
  <2>5. CASE Settle
    BY <1>2, <2>5 DEF StepsInv, Settle
  <2>6. CASE UNCHANGED vars
    BY <1>2, <2>6 DEF StepsInv, vars, result
  <2>7. QED  BY <1>2, <2>2, <2>3, <2>4, <2>5, <2>6 DEF Next, Done
<1>3. QED  BY <1>1, <1>2, PTL DEF Spec

(* The mission ends within its budget, and its status and its step index    *)
(* agree with how: out of steps only when every step of the budget was      *)
(* carried out, completed also when that took the last one.                 *)
THEOREM StepsAddUpHolds == Spec => []StepsAddUp
<1>1. StepsInv => StepsAddUp
  BY DEF StepsInv, StepsAddUp
<1>2. QED  BY <1>1, StepsInvariant, PTL

-----------------------------------------------------------------------------
(* Division by a resolution. *)

(* A quotient, bounded by its dividend. *)
LEMMA DivBounds ==
  ASSUME NEW a \in Int, NEW r \in Nat \ {0}
  PROVE  /\ a \div r \in Int
         /\ (a \div r) * r <= a /\ a < (a \div r) * r + r
OBVIOUS

(* Products with a positive factor keep the order, *)
LEMMA MulMono ==
  ASSUME NEW a \in Int, NEW b \in Int, NEW r \in Nat, a <= b
  PROVE  a * r <= b * r
OBVIOUS

(* and keep it backwards. *)
LEMMA MulCancel ==
  ASSUME NEW a \in Int, NEW b \in Int, NEW r \in Nat, a * r < b * r
  PROVE  a < b
<1>1. ~(b <= a)
  <2>1. b <= a => b * r <= a * r
    BY MulMono
  <2>2. a * r \in Int /\ b * r \in Int
    OBVIOUS
  <2>3. QED
    BY <2>1, <2>2
<1>2. QED
  BY <1>1

(* A quotient is known by its bounds. *)
LEMMA DivUnique ==
  ASSUME NEW a \in Int, NEW r \in Nat \ {0}, NEW q \in Int, q * r <= a, a < q * r + r
  PROVE  a \div r = q
<1>. PICK d \in Int : d = a \div r
  BY DivBounds
<1>1. d * r <= a /\ a < d * r + r
  BY DivBounds
<1>2. CASE d < q
  <2>1. (d + 1) * r <= q * r
    BY <1>2, MulMono
  <2>2. (d + 1) * r = d * r + r
    OBVIOUS
  <2>3. QED
    BY <1>1, <2>1, <2>2
<1>3. CASE q < d
  <2>1. (q + 1) * r <= d * r
    BY <1>3, MulMono
  <2>2. (q + 1) * r = q * r + r
    OBVIOUS
  <2>3. QED
    BY <1>1, <2>1, <2>2
<1>4. QED
  BY <1>2, <1>3

(* Quotients keep the order. *)
LEMMA DivMono ==
  ASSUME NEW a \in Int, NEW b \in Int, NEW r \in Nat \ {0}, a <= b
  PROVE  a \div r <= b \div r
<1>. PICK p \in Int, q \in Int : p = a \div r /\ q = b \div r
  BY DivBounds
<1>1. p * r <= a /\ b < q * r + r
  BY DivBounds
<1>2. p * r < (q + 1) * r
  <2>1. (q + 1) * r = q * r + r
    OBVIOUS
  <2>2. p * r \in Int /\ q * r \in Int
    OBVIOUS
  <2>3. QED
    BY <1>1, <2>1, <2>2
<1>3. p < q + 1
  BY <1>2, MulCancel
<1>4. QED
  BY <1>3

(* On one axis: what the cell of a fine grid and the cell of a coarse one   *)
(* have in common, they have in common as cells, where the edges align.     *)
LEMMA CellWithinCell ==
  ASSUME NEW r \in Nat \ {0}, NEW m \in Nat \ {0}, NEW k \in Int, NEW x \in Int,
         NEW v \in Int, NEW w \in Int, v = (x - k * r) \div r,
         k * r + v * r < (w + 1) * (m * r), w * (m * r) < k * r + v * r + r
  PROVE  w = x \div (m * r)
<1>1. k * r \in Int /\ v * r \in Int /\ m * r \in Nat \ {0} /\ (w + 1) * m \in Int /\ w * m \in Int
  OBVIOUS
<1>2. v * r <= x - k * r /\ x - k * r < v * r + r
  BY <1>1, DivBounds
<1>3. k * r + v * r + r <= (w + 1) * (m * r)
  <2>1. (k + v) * r < ((w + 1) * m) * r
    <3>1. (k + v) * r = k * r + v * r
      OBVIOUS
    <3>2. ((w + 1) * m) * r = (w + 1) * (m * r)
      OBVIOUS
    <3>3. QED
      BY <3>1, <3>2
  <2>2. k + v + 1 <= (w + 1) * m
    BY <1>1, <2>1, MulCancel
  <2>3. (k + v + 1) * r <= ((w + 1) * m) * r
    BY <1>1, <2>2, MulMono
  <2>4. (k + v + 1) * r = k * r + v * r + r
    OBVIOUS
  <2>5. ((w + 1) * m) * r = (w + 1) * (m * r)
    OBVIOUS
  <2>6. QED
    BY <2>3, <2>4, <2>5
<1>4. w * (m * r) <= k * r + v * r
  <2>1. (k + v + 1) * r = k * r + v * r + r
    OBVIOUS
  <2>2. (w * m) * r = w * (m * r)
    OBVIOUS
  <2>3. (w * m) * r < (k + v + 1) * r
    BY <2>1, <2>2
  <2>4. w * m <= k + v
    BY <1>1, <2>3, MulCancel
  <2>5. (w * m) * r <= (k + v) * r
    BY <1>1, <2>4, MulMono
  <2>6. (k + v) * r = k * r + v * r
    OBVIOUS
  <2>7. QED
    BY <2>2, <2>5, <2>6
<1>5. (w + 1) * (m * r) = w * (m * r) + m * r
  OBVIOUS
<1>6. w * (m * r) <= x /\ x < w * (m * r) + m * r
  <2>1. w * (m * r) \in Int
    BY <1>1
  <2>2. QED
    BY <1>1, <1>2, <1>3, <1>4, <1>5, <2>1
<1>7. QED
  BY <1>1, <1>6, DivUnique

-----------------------------------------------------------------------------
(* Marching along a beam. *)

(* Of two samples a tenth of a cell apart, one on each side of its edge, the*)
(* later one is in the cell's first tenth.                                 *)
LEMMA Straddle ==
  ASSUME NEW M \in Nat \ {0}, NEW x \in Int, NEW low \in Int, NEW f \in Int, NEW s \in {1, -1},
         NEW t \in Int, f <= t, t < f + M, low <= x + t * s, x + t * s < low + 10 * M,
         ~(low <= x + f * s /\ x + f * s < low + 10 * M)
  PROVE  /\ f < t
         /\ \/ s = 1 /\ low <= x + (f + M) * s /\ x + (f + M) * s < low + M
                     /\ low <= x + t * s /\ x + t * s < low + M
            \/ s = -1 /\ low + 9 * M <= x + (f + M) * s /\ x + (f + M) * s < low + 10 * M
                      /\ low + 9 * M <= x + t * s /\ x + t * s < low + 10 * M
<1>1. CASE s = 1
  <2>1. x + t * s = x + t /\ x + f * s = x + f /\ x + (f + M) * s = x + f + M
    BY <1>1
  <2>2. QED
    BY <1>1, <2>1
<1>2. CASE s = -1
  <2>1. x + t * s = x - t /\ x + f * s = x - f /\ x + (f + M) * s = x - f - M
    BY <1>2
  <2>2. QED
    BY <1>2, <2>1
<1>3. QED
  BY <1>1, <1>2

(* A length is made of whole cells. *)
MultipleOf(a, r) == \E k \in Int : a = k * r

(* Along a beam, a point before the end shares its coarse cell with a       *)
(* sample of the sensor; where that sample is the end of the beam, it       *)
(* shares the fine cell with it as well.                                    *)
SharesCells(x, s, t, e, M, R, r, o) ==
  \E i \in 0 .. e :
    /\ (x + (i * M) * s) \div R = (x + t * s) \div R
    /\ i * M = e * M => (x + (i * M) * s - o) \div r = (x + t * s - o) \div r

(* The samples, taken every M, miss nothing: each length up to the last    *)
(* sample has one in its cell of R; and when that is the last sample, it   *)
(* lies in the same cell of r.                                             *)
LEMMA SampleInSameCell ==
  ASSUME NEW r \in Nat \ {0}, NEW M \in Nat \ {0}, NEW o \in Int, NEW R \in Nat \ {0},
         MultipleOf(o, r), MultipleOf(R, r), R = 10 * M, M <= r,
         NEW x \in Int, NEW s \in {1, -1}, NEW t \in Nat, NEW e \in Nat, t <= e * M
  PROVE  SharesCells(x, s, t, e, M, R, r, o)
<1>. SUFFICES \E i \in 0 .. e :
           /\ (x + (i * M) * s) \div R = (x + t * s) \div R
           /\ i * M = e * M => (x + (i * M) * s - o) \div r = (x + t * s - o) \div r
  BY DEF SharesCells
<1>. PICK k \in Int, m \in Nat \ {0} : o = k * r /\ R = m * r
  <2>. PICK k \in Int, m \in Int : o = k * r /\ R = m * r
    BY DEF MultipleOf
  <2>1. 0 * r < m * r
    OBVIOUS
  <2>2. 0 < m
    BY <2>1, MulCancel
  <2>3. QED
    BY <2>2
<1>. PICK y \in Int : y = x + t * s
  OBVIOUS
<1>. PICK c \in Int : c = y \div (10 * M)
  BY DivBounds
<1>. PICK i \in Int : i = t \div M
  BY DivBounds
<1>. PICK low \in Int : low = c * (10 * M)
  OBVIOUS
<1>. PICK f \in Int : f = i * M
  OBVIOUS
<1>1. low <= y /\ y < low + 10 * M
  <2>1. 10 * M \in Nat \ {0}
    OBVIOUS
  <2>2. QED
    BY ONLY <2>1, y \in Int, c = y \div (10 * M), low = c * (10 * M), DivBounds
<1>2. f <= t /\ t < f + M
  BY DivBounds
<1>3. i \in 0 .. e
  <2>1. i <= e
    <3>1. i * M < (e + 1) * M
      <4>1. (e + 1) * M = e * M + M /\ e * M \in Int
        OBVIOUS
      <4>2. QED
        BY <1>2, <4>1
    <3>2. QED
      BY <3>1, MulCancel
  <2>2. 0 <= i
    <3>1. 0 * M < (i + 1) * M
      <4>1. (i + 1) * M = i * M + M /\ 0 * M = 0
        OBVIOUS
      <4>2. QED
        BY <1>2, <4>1
    <3>2. 0 < i + 1
      BY <3>1, MulCancel
    <3>3. QED
      BY <3>2
  <2>3. QED
    BY <2>1, <2>2
<1>4. CASE low <= x + f * s /\ x + f * s < low + 10 * M
  <2>1. (x + f * s) \div (10 * M) = c
    <3>1. x + f * s \in Int /\ 10 * M \in Nat \ {0}
      OBVIOUS
    <3>2. QED
      BY ONLY <1>4, <3>1, c \in Int, low = c * (10 * M), DivUnique
  <2>2. f = e * M => f = t
    BY <1>2
  <2>3. (x + (i * M) * s) \div R = (x + t * s) \div R
    BY ONLY <2>1, R = 10 * M, f = i * M, c = y \div (10 * M), y = x + t * s
  <2>4. QED
    BY <1>3, <2>2, <2>3
<1>5. CASE ~(low <= x + f * s /\ x + f * s < low + 10 * M)
  <2>. PICK z \in Int : z = x + (f + M) * s
    OBVIOUS
  <2>1. /\ f < t
        /\ \/ low <= z /\ z < low + M /\ low <= y /\ y < low + M
           \/ low + 9 * M <= z /\ z < low + 10 * M /\ low + 9 * M <= y /\ y < low + 10 * M
    BY ONLY <1>1, <1>2, <1>5, M \in Nat \ {0}, x \in Int, low \in Int, f \in Int, s \in {1, -1},
            t \in Nat, y = x + t * s, z = x + (f + M) * s, Straddle
  <2>2. i < e
    <3>1. i * M < e * M
      BY <2>1
    <3>2. QED
      BY <3>1, MulCancel
  <2>3. f + M = (i + 1) * M
    OBVIOUS
  <2>4. z \div (10 * M) = c
    <3>1. low <= z /\ z < low + 10 * M
      BY ONLY <2>1, M \in Nat, low \in Int, z \in Int
    <3>2. 10 * M \in Nat \ {0}
      OBVIOUS
    <3>3. QED
      BY ONLY <3>1, <3>2, c \in Int, z \in Int, low = c * (10 * M), DivUnique
  <2>5. (z - o) \div r = (y - o) \div r
    <3>. PICK a \in Int, b \in Int : a = y - o /\ b = z - o
      OBVIOUS
    <3>1. (c * m) * r = low /\ c * m \in Int
      <4>1. c * (m * r) = (c * m) * r
        OBVIOUS
      <4>2. QED
        BY <4>1
    <3>2. CASE low <= z /\ z < low + M /\ low <= y /\ y < low + M
      <4>. PICK p \in Int : p = c * m - k
        BY ONLY <3>1, k \in Int
      <4>1. p * r = low - o
        <5>1. (c * m - k) * r = (c * m) * r - k * r
          OBVIOUS
        <5>2. QED
          BY <3>1, <5>1
      <4>2. p * r <= a /\ a < p * r + r /\ p * r <= b /\ b < p * r + r
        BY ONLY <3>2, <4>1, a = y - o, b = z - o, o \in Int, M \in Nat, r \in Nat, low \in Int,
                y \in Int, z \in Int, M <= r
      <4>3. a \div r = p /\ b \div r = p
        BY ONLY <4>2, p \in Int, a \in Int, b \in Int, r \in Nat \ {0}, DivUnique
      <4>4. QED
        BY <4>3
    <3>3. CASE low + 9 * M <= z /\ z < low + 10 * M /\ low + 9 * M <= y /\ y < low + 10 * M
      <4>. PICK p \in Int : p = c * m + m - 1 - k
        BY ONLY <3>1, k \in Int, m \in Nat
      <4>1. p * r = low + 10 * M - r - o
        <5>1. (c * m + m - 1 - k) * r = (c * m) * r + m * r - r - k * r
          OBVIOUS
        <5>2. QED
          BY <3>1, <5>1
      <4>2. p * r <= a /\ a < p * r + r /\ p * r <= b /\ b < p * r + r
        BY ONLY <3>3, <4>1, a = y - o, b = z - o, o \in Int, M \in Nat, r \in Nat, low \in Int,
                y \in Int, z \in Int, M <= r
      <4>3. a \div r = p /\ b \div r = p
        BY ONLY <4>2, p \in Int, a \in Int, b \in Int, r \in Nat \ {0}, DivUnique
      <4>4. QED
        BY <4>3
    <3>4. QED
      BY <2>1, <3>2, <3>3
  <2>6. i + 1 \in 0 .. e
    BY ONLY <1>3, <2>2, e \in Nat
  <2>. PICK j \in 0 .. e : j = i + 1
    BY ONLY <2>6
  <2>7. z = x + (j * M) * s
    BY <2>3
  <2>8. (x + (j * M) * s) \div R = (x + t * s) \div R
    BY ONLY <2>4, <2>7, R = 10 * M, c = y \div (10 * M), y = x + t * s
  <2>9. (x + (j * M) * s - o) \div r = (x + t * s - o) \div r
    BY ONLY <2>5, <2>7, y = x + t * s
  <2>10. QED
    BY <2>8, <2>9, Zenon
<1>6. QED
  BY <1>4, <1>5

-----------------------------------------------------------------------------
(* The grids of the world and of the output map. *)

(* The positions, and the voxels, are triples of integers. *)
Positions == [Axes -> Int]

(* A function on the axes is a triple. *)
LEMMA TripleIsFunction ==
  ASSUME NEW x, NEW y, NEW z, NEW f, f = [a \in Axes |-> f[a]], f[1] = x, f[2] = y, f[3] = z
  PROVE  f = <<x, y, z>>
<1>1. <<x, y, z>> = [a \in 1 .. 3 |-> <<x, y, z>>[a]]
  OBVIOUS
<1>2. \A a \in 1 .. 3 : f[a] = <<x, y, z>>[a]
  <2>1. \A a \in 1 .. 3 : a = 1 \/ a = 2 \/ a = 3
    OBVIOUS
  <2>2. QED
    BY <2>1
<1>3. QED
  BY <1>1, <1>2 DEF Axes

(* The voxels of a grid are the triples of integers within its size. *)
LEMMA VoxelsAreTriples ==
  ASSUME NEW grid, grid.size \in [Axes -> Int], NEW v
  PROVE  v \in Voxels(grid) <=> v \in Positions /\ InGrid(grid, v)
<1>1. ASSUME v \in Voxels(grid) PROVE v \in Positions /\ InGrid(grid, v)
  <2>1. PICK x \in 0 .. grid.size[1] - 1, y \in 0 .. grid.size[2] - 1, z \in 0 .. grid.size[3] - 1 :
          v = <<x, y, z>>
    BY <1>1 DEF Voxels
  <2>2. grid.size[1] \in Int /\ grid.size[2] \in Int /\ grid.size[3] \in Int
    BY DEF Axes
  <2>3. x \in Int /\ y \in Int /\ z \in Int
    BY <2>2
  <2>4. v[1] = x /\ v[2] = y /\ v[3] = z /\ v \in [1 .. 3 -> Int]
    BY <2>1, <2>3
  <2>5. \A a \in Axes : a = 1 \/ a = 2 \/ a = 3
    BY DEF Axes
  <2>6. \A a \in Axes : v[a] >= 0 /\ v[a] < grid.size[a]
    BY <2>2, <2>4, <2>5
  <2>7. QED
    BY <2>4, <2>6 DEF Positions, Axes, InGrid
<1>2. ASSUME v \in Positions, InGrid(grid, v) PROVE v \in Voxels(grid)
  <2>1. v = <<v[1], v[2], v[3]>>
    BY <1>2, TripleIsFunction DEF Positions
  <2>2. 1 \in Axes /\ 2 \in Axes /\ 3 \in Axes
    BY DEF Axes
  <2>3. /\ v[1] \in 0 .. grid.size[1] - 1 /\ v[2] \in 0 .. grid.size[2] - 1
        /\ v[3] \in 0 .. grid.size[3] - 1
    BY <1>2, <2>2 DEF Positions, InGrid
  <2>4. QED
    BY <2>1, <2>3 DEF Voxels
<1>3. QED
  BY <1>1, <1>2

(* A multiple of ten is ten marches. *)
LEMMA Tens ==
  ASSUME NEW r \in Nat \ {0}, r % 10 = 0
  PROVE  March(r) \in Nat \ {0} /\ r = 10 * March(r)
BY DEF March

(* A multiple of ten stays one when it is multiplied. *)
LEMMA TenTimes == ASSUME NEW n \in Nat, NEW b \in Nat, b % 10 = 0 PROVE (b * n) % 10 = 0
<1>1. PICK c \in Nat : b = 10 * c
  <2>1. b = 10 * (b \div 10) /\ b \div 10 \in Nat
    OBVIOUS
  <2>2. QED
    BY <2>1
<1>. PICK q \in Nat : q = c * n
  OBVIOUS
<1>2. b * n = 10 * q
  BY <1>1
<1>3. (10 * q) % 10 = 0
  OBVIOUS
<1>4. QED
  BY <1>2, <1>3

(* What is known of a configuration. *)
LEMMA Resolutions ==
  ASSUME config \in Configs
  PROVE  /\ config.mapResolution \in Nat \ {0} /\ March(config.mapResolution) \in Nat \ {0}
         /\ config.mapResolution = 10 * March(config.mapResolution)
         /\ OutputResolution \in Nat \ {0} /\ March(OutputResolution) \in Nat \ {0}
         /\ OutputResolution = 10 * March(OutputResolution)
<1>1. /\ config.mapResolution \in Nat \ {0} /\ config.mapResolution % 10 = 0
      /\ config.gpsResolution \in Nat /\ config.gpsResolution % 10 = 0 /\ config.factor \in Nat
  BY MissionAssumption
<1>2. OutputResolution \in Nat \ {0} /\ OutputResolution % 10 = 0
  <2>. PICK base \in Nat \ {0} :
         /\ base = IF config.gpsResolution > 0 THEN config.gpsResolution ELSE config.mapResolution
         /\ base % 10 = 0
    BY <1>1
  <2>1. OutputResolution = IF config.factor >= 1 THEN base * config.factor ELSE base
    BY DEF OutputResolution
  <2>2. CASE config.factor >= 1
    <3>1. base * config.factor \in Nat \ {0}
      BY <1>1, <2>2
    <3>2. (base * config.factor) % 10 = 0
      BY <1>1, TenTimes
    <3>3. QED
      BY <2>1, <2>2, <3>1, <3>2
  <2>3. CASE ~(config.factor >= 1)
    BY <2>1, <2>3
  <2>4. QED
    BY <2>2, <2>3
<1>3. QED
  BY <1>1, <1>2, Tens

(* The grids of the two maps. *)
LEMMA Grids ==
  ASSUME config \in Configs
  PROVE  /\ MissionBounds.min \in Positions /\ MissionBounds.max \in Positions
         /\ Output.origin = MissionBounds.min /\ Output.resolution = OutputResolution
         /\ Output.size \in [Axes -> Nat]
         /\ Hidden.origin \in Positions /\ (\A a \in Axes : Hidden.origin[a] = 0)
         /\ Hidden.resolution = config.mapResolution /\ Hidden.size \in [Axes -> Nat]
         /\ Translated(config.start) \in Positions
<1>1. /\ config.mapOffset \in Positions /\ config.start \in Positions
      /\ config.bounds.min \in Positions /\ config.bounds.max \in Positions
      /\ config.mapShape \in [Axes -> Nat]
  BY MissionAssumption DEF Positions
<1>2. /\ Translated(config.start) \in Positions /\ Translated(config.bounds.min) \in Positions
      /\ Translated(config.bounds.max) \in Positions
  BY <1>1 DEF Translated, Positions
<1>3. MissionBounds.min \in Positions /\ MissionBounds.max \in Positions
  BY <1>2 DEF MissionBounds
<1>4. Output.size \in [Axes -> Nat]
  <2>1. ASSUME NEW a \in Axes
        PROVE  AxisCount(MissionBounds.max[a] - MissionBounds.min[a], OutputResolution) \in Nat
    <3>1. PICK span \in Int : span = MissionBounds.max[a] - MissionBounds.min[a]
      BY <1>3 DEF Positions
    <3>2. CASE span > 0
      <4>1. (span + OutputResolution - 1) \div OutputResolution \in Nat
        <5>. PICK r \in Nat \ {0} : r = OutputResolution
          BY Resolutions
        <5>1. span + r - 1 \in Nat
          BY <3>2
        <5>2. (span + r - 1) \div r \in Nat
          BY <5>1
        <5>3. QED
          BY <5>2
      <4>2. QED
        BY <3>1, <3>2, <4>1 DEF AxisCount
    <3>3. CASE ~(span > 0)
      BY <3>1, <3>3 DEF AxisCount
    <3>4. QED
      BY <3>2, <3>3
  <2>2. Output.size = [a \in Axes |->
                         AxisCount(MissionBounds.max[a] - MissionBounds.min[a], OutputResolution)]
    BY DEF Output, GridOf
  <2>3. QED
    BY <2>1, <2>2
<1>5. Output.origin = MissionBounds.min /\ Output.resolution = OutputResolution
  BY DEF Output, GridOf
<1>6. /\ Hidden.origin \in Positions /\ (\A a \in Axes : Hidden.origin[a] = 0)
      /\ Hidden.resolution = config.mapResolution /\ Hidden.size = config.mapShape
  <2>1. Hidden.origin = <<0, 0, 0>>
    BY DEF Hidden
  <2>2. <<0, 0, 0>> \in Positions /\ \A a \in Axes : <<0, 0, 0>>[a] = 0
    BY DEF Positions, Axes
  <2>3. QED
    BY <2>1, <2>2 DEF Hidden
<1>7. QED
  BY <1>1, <1>2, <1>3, <1>4, <1>5, <1>6

(* A quotient without a remainder is exact. *)
LEMMA DivIsExact ==
  ASSUME NEW a \in Int, NEW r \in Nat \ {0}, a % r = 0
  PROVE  a = (a \div r) * r /\ a \div r \in Int
OBVIOUS

(* The cell of a position, in either map. *)
LEMMA IndexType ==
  ASSUME config \in Configs, NEW p \in Positions
  PROVE  /\ IndexOf(Output, p) \in Positions /\ IndexOf(Hidden, p) \in Positions
         /\ \A a \in Axes : /\ IndexOf(Output, p)[a] = (p[a] - MissionBounds.min[a]) \div OutputResolution
                            /\ IndexOf(Hidden, p)[a] = p[a] \div config.mapResolution
<1>. PICK R \in Nat \ {0}, r \in Nat \ {0} : R = config.mapResolution /\ r = OutputResolution
  BY Resolutions
<1>1. /\ IndexOf(Output, p) = [a \in Axes |-> (p[a] - MissionBounds.min[a]) \div r]
      /\ IndexOf(Hidden, p) = [a \in Axes |-> (p[a] - Hidden.origin[a]) \div R]
  BY Grids DEF IndexOf
<1>2. ASSUME NEW a \in Axes
      PROVE  /\ (p[a] - MissionBounds.min[a]) \div r \in Int
             /\ p[a] \div R \in Int /\ p[a] - Hidden.origin[a] = p[a]
  <2>1. p[a] \in Int /\ MissionBounds.min[a] \in Int /\ Hidden.origin[a] = 0
    BY Grids DEF Positions
  <2>2. QED
    BY <2>1
<1>3. QED
  BY <1>1, <1>2 DEF Positions

(* What an aligned configuration means in numbers.                          *)
LEMMA Alignment ==
  ASSUME config \in Configs, GridsAlign
  PROVE  /\ MultipleOf(config.mapResolution, OutputResolution)
         /\ \A a \in Axes : MultipleOf(MissionBounds.min[a], OutputResolution)
<1>. PICK r \in Nat \ {0} : r = OutputResolution
  BY Resolutions
<1>1. ASSUME NEW n \in Int, n % r = 0 PROVE MultipleOf(n, r)
  BY <1>1, DivIsExact DEF MultipleOf
<1>2. /\ config.mapResolution \in Int /\ config.mapResolution % r = 0
      /\ \A a \in Axes : MissionBounds.min[a] \in Int /\ MissionBounds.min[a] % r = 0
  BY Grids, Resolutions DEF GridsAlign, Positions
<1>3. QED
  BY <1>1, <1>2

(* The part of the world at a point is part of what its voxel covers.       *)
LEMMA SolidIsCovered ==
  ASSUME config \in Configs, world \in WorldsOf(config), NEW p \in Positions, IsSolid(p)
  PROVE  IndexOf(Hidden, p) \in Covered(IndexOf(Output, p)) \cap world
<1>. PICK w \in Positions, v \in Positions : w = IndexOf(Hidden, p) /\ v = IndexOf(Output, p)
  BY IndexType
<1>. PICK R \in Nat \ {0}, r \in Nat \ {0} : R = config.mapResolution /\ r = OutputResolution
  BY Resolutions
<1>1. w \in world /\ w \in Voxels(Hidden)
  BY WorldsAssumption DEF IsSolid, Voxels, Hidden
<1>2. ASSUME NEW a \in Axes
      PROVE  /\ MissionBounds.min[a] + v[a] * r < (w[a] + 1) * R
             /\ w[a] * R < MissionBounds.min[a] + v[a] * r + r
  <2>. PICK o \in Int, x \in Int : o = MissionBounds.min[a] /\ x = p[a]
    BY Grids DEF Positions
  <2>. PICK va \in Int, wa \in Int : va = v[a] /\ wa = w[a]
    BY DEF Positions
  <2>1. va = (x - o) \div r /\ wa = x \div R
    BY IndexType
  <2>. PICK y \in Int : y = x - o
    OBVIOUS
  <2>2. va = y \div r
    BY <2>1
  <2>3. va * r <= y /\ y < va * r + r
    BY ONLY <2>2, y \in Int, r \in Nat \ {0}, DivBounds
  <2>4. wa * R <= x /\ x < wa * R + R
    BY <2>1, DivBounds
  <2>5. (wa + 1) * R = wa * R + R /\ va * r \in Int /\ wa * R \in Int
    OBVIOUS
  <2>6. QED
    BY <2>2, <2>3, <2>4, <2>5
<1>3. w \in Covered(v)
  <2>1. Covered(v) = {u \in Voxels(Hidden) : \A a \in Axes :
           /\ MissionBounds.min[a] + v[a] * r < (u[a] + 1) * R
           /\ u[a] * R < MissionBounds.min[a] + v[a] * r + r}
    <3>. PICK low : low = [a \in Axes |-> MissionBounds.min[a] + v[a] * r]
      OBVIOUS
    <3>1. Covered(v) = {u \in Voxels(Hidden) : \A a \in Axes :
             /\ low[a] < (u[a] + 1) * R
             /\ u[a] * R < low[a] + r}
      BY Grids DEF Covered
    <3>2. QED
      BY <3>1
  <2>2. QED
    BY <1>1, <1>2, <2>1
<1>4. QED
  BY <1>1, <1>3

(* Where the grids align, that is all that its voxel covers.                *)
LEMMA CoveredIsOneCell ==
  ASSUME config \in Configs, GridsAlign, NEW p \in Positions,
         NEW w \in Covered(IndexOf(Output, p))
  PROVE  w = IndexOf(Hidden, p)
<1>. PICK v \in Positions : v = IndexOf(Output, p)
  BY IndexType
<1>. PICK R \in Nat \ {0}, r \in Nat \ {0} : R = config.mapResolution /\ r = OutputResolution
  BY Resolutions
<1>1. PICK m \in Nat \ {0} : R = m * r
  <2>. PICK m \in Int : R = m * r
    BY Alignment DEF MultipleOf
  <2>1. 0 * r < m * r
    OBVIOUS
  <2>2. 0 < m
    BY <2>1, MulCancel
  <2>3. QED
    BY <2>2
<1>2. /\ w \in Voxels(Hidden)
      /\ \A a \in Axes : /\ MissionBounds.min[a] + v[a] * r < (w[a] + 1) * R
                         /\ w[a] * R < MissionBounds.min[a] + v[a] * r + r
  <2>. PICK low : low = [a \in Axes |-> MissionBounds.min[a] + v[a] * r]
    OBVIOUS
  <2>1. Covered(v) = {u \in Voxels(Hidden) : \A a \in Axes :
           /\ low[a] < (u[a] + 1) * R
           /\ u[a] * R < low[a] + r}
    BY Grids DEF Covered
  <2>2. QED
    BY <2>1
<1>3. w \in Positions
  <2>1. Hidden.size \in [Axes -> Int]
    BY Grids
  <2>2. QED
    BY <1>2, <2>1, VoxelsAreTriples
<1>4. ASSUME NEW a \in Axes PROVE w[a] = IndexOf(Hidden, p)[a]
  <2>. PICK x \in Int, va \in Int, wa \in Int : x = p[a] /\ va = v[a] /\ wa = w[a]
    BY <1>3 DEF Positions
  <2>1. PICK k \in Int : MissionBounds.min[a] = k * r
    BY Alignment DEF MultipleOf
  <2>2. va = (x - k * r) \div r
    BY <2>1, IndexType
  <2>3. k * r + va * r < (wa + 1) * (m * r) /\ wa * (m * r) < k * r + va * r + r
    BY <1>1, <1>2, <2>1
  <2>4. wa = x \div (m * r)
    BY ONLY <2>2, <2>3, r \in Nat \ {0}, m \in Nat \ {0}, k \in Int, x \in Int, va \in Int,
            wa \in Int, CellWithinCell
  <2>5. QED
    BY <1>1, <2>4, IndexType
<1>5. QED
  BY <1>3, <1>4, IndexType DEF Positions

-----------------------------------------------------------------------------
(* Beams. *)

(* The directions of beams and of flights. *)
UnitVectors == {<<1, 0, 0>>, <<-1, 0, 0>>, <<0, 1, 0>>, <<0, -1, 0>>, <<0, 0, 1>>, <<0, 0, -1>>}

(* Along one of them a single coordinate changes, by one. *)
LEMMA UnitVectorFacts ==
  ASSUME NEW d \in UnitVectors
  PROVE  /\ d \in Positions
         /\ \E b \in Axes, s \in {1, -1} : d[b] = s /\ \A a \in Axes : a # b => d[a] = 0
<1>1. \A a \in Axes : a = 1 \/ a = 2 \/ a = 3
  BY DEF Axes
<1>2. 1 \in Axes /\ 2 \in Axes /\ 3 \in Axes
  BY DEF Axes
<1>3. ASSUME NEW x \in Int, NEW y \in Int, NEW z \in Int, d = <<x, y, z>>
      PROVE  d \in Positions /\ d[1] = x /\ d[2] = y /\ d[3] = z
  BY <1>3 DEF Positions, Axes
<1>4. CASE d = <<1, 0, 0>>
  <2>1. d \in Positions /\ d[1] = 1 /\ d[2] = 0 /\ d[3] = 0
    BY <1>3, <1>4
  <2>2. \A a \in Axes : a # 1 => d[a] = 0
    BY <1>1, <2>1
  <2>3. QED
    BY <1>2, <2>1, <2>2
<1>5. CASE d = <<-1, 0, 0>>
  <2>1. d \in Positions /\ d[1] = -1 /\ d[2] = 0 /\ d[3] = 0
    BY <1>3, <1>5
  <2>2. \A a \in Axes : a # 1 => d[a] = 0
    BY <1>1, <2>1
  <2>3. QED
    BY <1>2, <2>1, <2>2
<1>6. CASE d = <<0, 1, 0>>
  <2>1. d \in Positions /\ d[1] = 0 /\ d[2] = 1 /\ d[3] = 0
    BY <1>3, <1>6
  <2>2. \A a \in Axes : a # 2 => d[a] = 0
    BY <1>1, <2>1
  <2>3. QED
    BY <1>2, <2>1, <2>2
<1>7. CASE d = <<0, -1, 0>>
  <2>1. d \in Positions /\ d[1] = 0 /\ d[2] = -1 /\ d[3] = 0
    BY <1>3, <1>7
  <2>2. \A a \in Axes : a # 2 => d[a] = 0
    BY <1>1, <2>1
  <2>3. QED
    BY <1>2, <2>1, <2>2
<1>8. CASE d = <<0, 0, 1>>
  <2>1. d \in Positions /\ d[1] = 0 /\ d[2] = 0 /\ d[3] = 1
    BY <1>3, <1>8
  <2>2. \A a \in Axes : a # 3 => d[a] = 0
    BY <1>1, <2>1
  <2>3. QED
    BY <1>2, <2>1, <2>2
<1>9. CASE d = <<0, 0, -1>>
  <2>1. d \in Positions /\ d[1] = 0 /\ d[2] = 0 /\ d[3] = -1
    BY <1>3, <1>9
  <2>2. \A a \in Axes : a # 3 => d[a] = 0
    BY <1>1, <2>1
  <2>3. QED
    BY <1>2, <2>1, <2>2
<1>10. QED
  BY <1>4, <1>5, <1>6, <1>7, <1>8, <1>9 DEF UnitVectors

(* A point along a beam is a position. *)
LEMMA PointType ==
  ASSUME NEW o \in Positions, NEW d \in Positions, NEW t \in Int
  PROVE  /\ PointAlongBeam(o, d, t) \in Positions
         /\ \A a \in Axes : PointAlongBeam(o, d, t)[a] = o[a] + t * d[a]
<1>1. ASSUME NEW a \in Axes PROVE o[a] + t * d[a] \in Int
  <2>. PICK x \in Int, y \in Int : x = o[a] /\ y = d[a]
    BY DEF Positions
  <2>1. x + t * y \in Int
    OBVIOUS
  <2>2. QED
    BY <2>1
<1>2. QED
  BY <1>1 DEF PointAlongBeam, Positions

(* Positions agree when their coordinates do. *)
LEMMA SamePosition ==
  ASSUME NEW p \in Positions, NEW q \in Positions, \A a \in Axes : p[a] = q[a]
  PROVE  p = q
BY DEF Positions

(* A point of a beam before its end lies in the same voxel of the world as  *)
(* a sample of the sensor; if that sample is the end, in the same voxel of  *)
(* the output map as well.                                                  *)
NearbySample(o, d, M, e, t) ==
  \E i \in 0 .. e :
    /\ IndexOf(Hidden, PointAlongBeam(o, d, i * M)) = IndexOf(Hidden, PointAlongBeam(o, d, t))
    /\ i = e => IndexOf(Output, PointAlongBeam(o, d, i * M))
                  = IndexOf(Output, PointAlongBeam(o, d, t))

(* So it is for a beam through the world when voxels nest. *)
LEMMA SampleNearby ==
  ASSUME config \in Configs, VoxelsNest, NEW o \in Positions, NEW d \in UnitVectors,
         NEW M \in Nat \ {0}, M = March(config.mapResolution),
         NEW e \in Nat, NEW t \in Nat, t <= e * M
  PROVE  NearbySample(o, d, M, e, t)
<1>. PICK R \in Nat \ {0}, r \in Nat \ {0} : R = config.mapResolution /\ r = OutputResolution
  BY Resolutions
<1>1. R = 10 * M /\ M <= r
  BY Resolutions DEF VoxelsNest
<1>2. MultipleOf(R, r)
  BY Alignment DEF VoxelsNest
<1>3. PICK b \in Axes, s \in {1, -1} : d[b] = s /\ \A a \in Axes : a # b => d[a] = 0
  BY UnitVectorFacts
<1>. PICK x \in Int, min \in Int : x = o[b] /\ min = MissionBounds.min[b]
  BY Grids DEF Positions
<1>4. MultipleOf(min, r)
  BY Alignment DEF VoxelsNest
<1>5. PICK i \in 0 .. e :
        /\ (x + (i * M) * s) \div R = (x + t * s) \div R
        /\ i * M = e * M => (x + (i * M) * s - min) \div r = (x + t * s - min) \div r
  <2>1. M <= r /\ R = 10 * M
    BY <1>1
  <2>2. SharesCells(x, s, t, e, M, R, r, min)
    BY ONLY <1>2, <1>4, <2>1, R \in Nat \ {0}, r \in Nat \ {0}, M \in Nat \ {0},
            min \in Int, x \in Int, s \in {1, -1}, t \in Nat, e \in Nat, t <= e * M,
            SampleInSameCell
  <2>3. QED
    BY <2>2 DEF SharesCells
<1>. PICK u \in Int : u = i * M
  OBVIOUS
<1>. d \in Positions
  BY UnitVectorFacts
<1>. PICK p \in Positions, q \in Positions : p = PointAlongBeam(o, d, u) /\ q = PointAlongBeam(o, d, t)
  BY PointType
<1>. \A a \in Axes : p[a] = o[a] + u * d[a] /\ q[a] = o[a] + t * d[a]
  BY DEF PointAlongBeam
<1>6. p[b] = x + u * s /\ q[b] = x + t * s
  BY <1>3
<1>7. ASSUME NEW a \in Axes, a # b PROVE p[a] = q[a]
  <2>1. d[a] = 0 /\ o[a] \in Int
    BY <1>3, <1>7 DEF Positions
  <2>2. u * 0 = 0 /\ t * 0 = 0
    OBVIOUS
  <2>3. QED
    BY <2>1, <2>2
<1>8. ASSUME NEW a \in Axes
      PROVE  /\ IndexOf(Hidden, p)[a] = IndexOf(Hidden, q)[a]
             /\ i = e => IndexOf(Output, p)[a] = IndexOf(Output, q)[a]
  <2>1. /\ IndexOf(Hidden, p)[a] = p[a] \div R /\ IndexOf(Hidden, q)[a] = q[a] \div R
        /\ IndexOf(Output, p)[a] = (p[a] - MissionBounds.min[a]) \div r
        /\ IndexOf(Output, q)[a] = (q[a] - MissionBounds.min[a]) \div r
    BY IndexType
  <2>2. CASE a # b
    BY <1>7, <2>1, <2>2
  <2>3. CASE a = b
    <3>1. p[a] \div R = q[a] \div R
      BY <1>1, <1>5, <1>6, <2>3
    <3>2. i = e => (p[a] - min) \div r = (q[a] - min) \div r
      <4>1. i = e => i * M = e * M
        OBVIOUS
      <4>2. i = e => (x + u * s - min) \div r = (x + t * s - min) \div r
        BY ONLY <1>5, <4>1, u = i * M
      <4>3. QED
        BY ONLY <1>6, <2>3, <4>2
    <3>3. QED
      BY <2>1, <2>3, <3>1, <3>2
  <2>4. QED
    BY <2>2, <2>3
<1>9. /\ IndexOf(Hidden, p) = IndexOf(Hidden, q)
      /\ i = e => IndexOf(Output, p) = IndexOf(Output, q)
  BY <1>8, IndexType, SamePosition
<1>10. QED
  BY <1>9 DEF NearbySample

-----------------------------------------------------------------------------
(* What a beam tells of the world. *)

(* A set of numbers has a least one, *)
LEMMA LeastNat ==
  ASSUME NEW T, T \subseteq Nat, T # {}
  PROVE  \E n \in T : \A m \in T : n <= m
<1>1. IsWellFoundedOn({p \in Nat \X Nat : p[1] < p[2]}, Nat)
  BY NatLessThanWellFounded DEF OpToRel
<1>2. PICK n \in T : \A m \in T : ~(<<m, n>> \in {p \in Nat \X Nat : p[1] < p[2]})
  BY <1>1, WFMin
<1>3. \A m \in T : ~(m < n)
  BY <1>2
<1>4. QED
  BY <1>3

(* and the least one is what Min returns. *)
LEMMA MinIsLeast ==
  ASSUME NEW T, T \subseteq Nat, T # {}
  PROVE  Min(T) \in T /\ \A m \in T : Min(T) <= m
<1>1. \E n \in T : \A m \in T : n <= m
  BY LeastNat
<1>2. QED
  BY <1>1 DEF Min

(* What a beam tells.                                                       *)
LEMMA BeamTells ==
  ASSUME config \in Configs, NEW o \in Positions, NEW d \in UnitVectors,
         NEW M \in Nat \ {0}, M = March(config.mapResolution), NEW n \in Nat, n = config.zMax \div M
  PROVE  \/ /\ TraceBeam(o, d) = Miss
            /\ \A i \in 0 .. n : ~IsSolid(PointAlongBeam(o, d, i * M))
         \/ TraceBeam(o, d) = 0
         \/ \E e \in 0 .. n :
              /\ TraceBeam(o, d) = e * M
              /\ IsSolid(PointAlongBeam(o, d, e * M))
              /\ \A i \in 0 .. n : i < e => ~IsSolid(PointAlongBeam(o, d, i * M))
<1>. PICK hits : hits = {i \in 0 .. n : IsSolid(PointAlongBeam(o, d, i * M))}
  OBVIOUS
<1>1. TraceBeam(o, d) = IF hits = {} THEN Miss
                        ELSE IF Min(hits) * M < config.zMin THEN 0 ELSE Min(hits) * M
  BY DEF TraceBeam
<1>2. CASE hits = {}
  BY <1>1, <1>2
<1>3. CASE hits # {}
  <2>. PICK e : e = Min(hits)
    OBVIOUS
  <2>1. e \in hits /\ \A i \in hits : e <= i
    <3>1. hits \subseteq Nat
      OBVIOUS
    <3>2. QED
      BY <1>3, <3>1, MinIsLeast
  <2>2. \A i \in 0 .. n : i < e => ~IsSolid(PointAlongBeam(o, d, i * M))
    <3>1. ASSUME NEW i \in 0 .. n, i < e, IsSolid(PointAlongBeam(o, d, i * M)) PROVE FALSE
      <4>1. i \in hits
        BY <3>1
      <4>2. e <= i /\ e \in Int
        BY <2>1, <4>1
      <4>3. QED
        BY <3>1, <4>2
    <3>2. QED
      BY <3>1
  <2>3. e \in 0 .. n /\ IsSolid(PointAlongBeam(o, d, e * M))
    BY <2>1
  <2>4. TraceBeam(o, d) = 0 \/ TraceBeam(o, d) = e * M
    BY <1>1, <1>3
  <2>5. QED
    BY <2>2, <2>3, <2>4
<1>4. QED
  BY <1>2, <1>3

(* What a converter records along a beam that was free so far is free; the  *)
(* voxel of the hit is recorded too, before it is marked as hit.            *)
LEMMA SegmentIsFree ==
  ASSUME config \in Configs, VoxelsNest, NEW o \in Positions, NEW d \in UnitVectors,
         NEW M \in Nat \ {0}, M = March(config.mapResolution), NEW e \in Nat,
         \A i \in 0 .. e : i < e => ~IsSolid(PointAlongBeam(o, d, i * M)),
         NEW v \in Segment(o, d, e * M)
  PROVE  \/ Covered(v) \cap world = {}
         \/ v = IndexOf(Output, PointAlongBeam(o, d, e * M)) /\ IsSolid(PointAlongBeam(o, d, e * M))
<1>. PICK step \in Nat \ {0} : step = March(OutputResolution)
  BY Resolutions
<1>. PICK end \in Nat : end = e * M
  OBVIOUS
<1>1. PICK i \in 0 .. end \div step : v = IndexOf(Output, PointAlongBeam(o, d, i * step))
  BY DEF Segment
<1>. PICK t \in Nat : t = i * step
  BY <1>1
<1>2. t <= end
  <2>. PICK last \in Int : last = end \div step
    BY DivBounds
  <2>1. i <= last /\ i \in Int
    BY <1>1
  <2>2. i * step <= last * step
    BY <2>1, MulMono
  <2>3. last * step <= end /\ last * step \in Int
    BY ONLY last = end \div step, end \in Nat, last \in Int, step \in Nat \ {0}, DivBounds
  <2>4. QED
    BY <2>2, <2>3
<1>3. PICK j \in 0 .. e :
        /\ IndexOf(Hidden, PointAlongBeam(o, d, j * M)) = IndexOf(Hidden, PointAlongBeam(o, d, t))
        /\ j = e => IndexOf(Output, PointAlongBeam(o, d, j * M))
                      = IndexOf(Output, PointAlongBeam(o, d, t))
  <2>1. NearbySample(o, d, M, e, t)
    BY <1>2, SampleNearby
  <2>2. QED
    BY <2>1 DEF NearbySample
<1>4. SUFFICES ASSUME NEW w \in Covered(v) \cap world
               PROVE  /\ v = IndexOf(Output, PointAlongBeam(o, d, e * M))
                      /\ IsSolid(PointAlongBeam(o, d, e * M))
  OBVIOUS
<1>5. PointAlongBeam(o, d, t) \in Positions
  BY PointType, UnitVectorFacts
<1>6. w = IndexOf(Hidden, PointAlongBeam(o, d, t))
  BY <1>1, <1>5, CoveredIsOneCell DEF VoxelsNest
<1>7. IsSolid(PointAlongBeam(o, d, j * M))
  BY <1>3, <1>6 DEF IsSolid
<1>8. j = e
  BY <1>7
<1>9. QED
  BY <1>1, <1>3, <1>7, <1>8

-----------------------------------------------------------------------------
(* A scan makes no false claim (ScanResultToVoxels). *)

(* MapTellsTheTruth, of any map. *)
IsTrue(m) ==
  \A v \in DOMAIN m :
    /\ m[v] = "Empty" /\ VoxelsNest => Covered(v) \cap world = {}
    /\ m[v] = "Occupied" => Covered(v) \cap world # {}

(* What marking voxels changes. *)
LEMMA MarkedIs ==
  ASSUME NEW m, NEW voxels, NEW value
  PROVE  /\ DOMAIN Marked(m, voxels, value) = DOMAIN m
         /\ \A v \in DOMAIN m : \/ Marked(m, voxels, value)[v] = m[v]
                                \/ v \in voxels /\ Marked(m, voxels, value)[v] = value
         /\ value = "Occupied" => \A v \in DOMAIN m \cap voxels : Marked(m, voxels, value)[v] = value
<1>1. /\ DOMAIN Marked(m, voxels, value) = DOMAIN m
      /\ \A v \in DOMAIN m : \/ Marked(m, voxels, value)[v] = m[v]
                             \/ v \in voxels /\ Marked(m, voxels, value)[v] = value
  BY DEF Marked
<1>2. ASSUME value = "Occupied", NEW v \in DOMAIN m \cap voxels
      PROVE  Marked(m, voxels, value)[v] = value
  <2>1. OccupancyPriority(value) = 3
    BY <1>2 DEF OccupancyPriority
  <2>2. m[v] = "Occupied" \/ OccupancyPriority(m[v]) \in {0, 1, 2}
    BY DEF OccupancyPriority
  <2>3. Marked(m, voxels, value)[v] =
          IF OccupancyPriority(value) > OccupancyPriority(m[v]) THEN value ELSE m[v]
    BY <1>2 DEF Marked
  <2>4. CASE m[v] = "Occupied"
    BY <1>2, <2>3, <2>4
  <2>5. CASE OccupancyPriority(m[v]) \in {0, 1, 2}
    BY <2>1, <2>3, <2>5
  <2>6. QED
    BY <2>2, <2>4, <2>5
<1>3. QED
  BY <1>1, <1>2

(* Recording a scan keeps the map true.                                     *)
LEMMA RecordingIsTrue ==
  ASSUME config \in Configs, world \in WorldsOf(config), NEW m, IsTrue(m),
         NEW o \in Positions, NEW d \in UnitVectors
  PROVE  IsTrue(ApplyToMap(m, o, d, TraceBeam(o, d)))
<1>. PICK M \in Nat \ {0}, zMax \in Nat : M = March(config.mapResolution) /\ zMax = config.zMax
  BY Resolutions, MissionAssumption
<1>. PICK n \in Nat : n = zMax \div M
  OBVIOUS
<1>. PICK distance : distance = TraceBeam(o, d)
  OBVIOUS
<1>. PICK after : after = ApplyToMap(m, o, d, distance)
  OBVIOUS
<1>1. CASE ~InGrid(Output, IndexOf(Output, o))
  BY <1>1 DEF ApplyToMap
<1>2. CASE InGrid(Output, IndexOf(Output, o)) /\ distance = 0
  <2>1. after = Marked(m, Segment(o, d, config.zMin), "PotentiallyOccupied")
    BY <1>2 DEF ApplyToMap
  <2>2. DOMAIN after = DOMAIN m
    BY <2>1, MarkedIs
  <2>3. \A v \in DOMAIN m : after[v] = m[v] \/ after[v] = "PotentiallyOccupied"
    BY <2>1, MarkedIs
  <2>4. QED
    BY <2>2, <2>3 DEF IsTrue
<1>3. CASE /\ InGrid(Output, IndexOf(Output, o)) /\ distance = Miss
           /\ \A i \in 0 .. n : ~IsSolid(PointAlongBeam(o, d, i * M))
  <2>1. after = Marked(m, Segment(o, d, zMax), "Empty")
    BY <1>3 DEF ApplyToMap, Miss
  <2>2. DOMAIN after = DOMAIN m
    BY <2>1, MarkedIs
  <2>3. ASSUME NEW v \in DOMAIN m
        PROVE  after[v] = m[v] \/ (v \in Segment(o, d, zMax) /\ after[v] = "Empty")
    BY <2>1, MarkedIs
  <2>4. ASSUME VoxelsNest, NEW v \in Segment(o, d, zMax)
        PROVE  Covered(v) \cap world = {}
    <3>1. zMax = n * M
      <4>1. zMax % M = 0
        BY <2>4 DEF VoxelsNest
      <4>2. QED
        BY ONLY <4>1, n = zMax \div M, zMax \in Nat, M \in Nat \ {0}, DivIsExact
    <3>2. \A i \in 0 .. n : i < n => ~IsSolid(PointAlongBeam(o, d, i * M))
      BY <1>3
    <3>3. v \in Segment(o, d, n * M)
      BY <2>4, <3>1
    <3>4. ~IsSolid(PointAlongBeam(o, d, n * M))
      BY <1>3
    <3>5. QED
      BY ONLY <2>4, <3>2, <3>3, <3>4, config \in Configs, o \in Positions, d \in UnitVectors,
              M \in Nat \ {0}, M = March(config.mapResolution), n \in Nat, SegmentIsFree
  <2>5. QED
    BY <2>2, <2>3, <2>4 DEF IsTrue
<1>4. ASSUME InGrid(Output, IndexOf(Output, o)), distance # 0, distance # Miss, NEW e \in 0 .. n,
             distance = e * M, IsSolid(PointAlongBeam(o, d, e * M)),
             \A i \in 0 .. n : i < e => ~IsSolid(PointAlongBeam(o, d, i * M))
      PROVE  IsTrue(after)
  <2>. PICK p \in Positions : p = PointAlongBeam(o, d, distance)
    <3>1. distance \in Int
      BY <1>4
    <3>2. QED
      BY <3>1, PointType, UnitVectorFacts
  <2>. PICK struck : struck = IndexOf(Output, p)
    OBVIOUS
  <2>. PICK free : free = Marked(m, Segment(o, d, distance), "Empty")
    OBVIOUS
  <2>1. after = Marked(free, {struck}, "Occupied")
    BY <1>4 DEF ApplyToMap
  <2>2. DOMAIN free = DOMAIN m /\ DOMAIN after = DOMAIN m
    BY <2>1, MarkedIs
  <2>3. ASSUME NEW v \in DOMAIN m
        PROVE  free[v] = m[v] \/ (v \in Segment(o, d, distance) /\ free[v] = "Empty")
    BY MarkedIs
  <2>4. ASSUME NEW v \in DOMAIN m
        PROVE  /\ after[v] = free[v] \/ (v = struck /\ after[v] = "Occupied")
               /\ v = struck => after[v] = "Occupied"
    <3>1. v \in DOMAIN free
      BY <2>2
    <3>2. QED
      BY <2>1, <3>1, MarkedIs
  <2>5. ASSUME VoxelsNest, NEW v \in Segment(o, d, distance), v # struck
        PROVE  Covered(v) \cap world = {}
    <3>1. \A i \in 0 .. e : i < e => ~IsSolid(PointAlongBeam(o, d, i * M))
      BY <1>4
    <3>2. v \in Segment(o, d, e * M) /\ v # IndexOf(Output, PointAlongBeam(o, d, e * M)) /\ e \in Nat
      BY <1>4, <2>5
    <3>3. QED
      BY ONLY <2>5, <3>1, <3>2, config \in Configs, o \in Positions, d \in UnitVectors,
              M \in Nat \ {0}, M = March(config.mapResolution), SegmentIsFree
  <2>6. Covered(struck) \cap world # {}
    <3>1. IsSolid(p)
      BY <1>4
    <3>2. QED
      BY <3>1, SolidIsCovered
  <2>7. ASSUME NEW v \in DOMAIN m
        PROVE  /\ after[v] = "Empty" /\ VoxelsNest => Covered(v) \cap world = {}
               /\ after[v] = "Occupied" => Covered(v) \cap world # {}
    <3>1. CASE v = struck
      BY <2>4, <2>6, <3>1
    <3>2. CASE v # struck /\ free[v] = m[v]
      BY <2>4, <3>2 DEF IsTrue
    <3>3. CASE v # struck /\ v \in Segment(o, d, distance) /\ free[v] = "Empty"
      BY <2>4, <2>5, <3>3
    <3>4. QED
      BY <2>3, <3>1, <3>2, <3>3
  <2>8. QED
    BY <2>2, <2>7 DEF IsTrue
<1>5. \/ distance = Miss /\ \A i \in 0 .. n : ~IsSolid(PointAlongBeam(o, d, i * M))
      \/ distance = 0
      \/ \E e \in 0 .. n :
           /\ distance = e * M
           /\ IsSolid(PointAlongBeam(o, d, e * M))
           /\ \A i \in 0 .. n : i < e => ~IsSolid(PointAlongBeam(o, d, i * M))
  BY ONLY config \in Configs, o \in Positions, d \in UnitVectors, M \in Nat \ {0},
          M = March(config.mapResolution), n \in Nat, n = zMax \div M, zMax = config.zMax,
          distance = TraceBeam(o, d), BeamTells
<1>6. \A e \in 0 .. n : e * M # Miss
  <2>1. \A e \in 0 .. n : e * M \in Nat
    OBVIOUS
  <2>2. QED
    BY <2>1 DEF Miss
<1>7. QED
  BY <1>1, <1>2, <1>3, <1>4, <1>5, <1>6

(* Bearings and altitudes along the axes. *)
LEMMA DirectionIsAxis ==
  ASSUME NEW horizontal \in {0, 90, 180, 270}, NEW altitude \in {0, 90, -90}
  PROVE  Direction(horizontal, altitude) \in UnitVectors
<1>1. CASE altitude = 90
  BY <1>1 DEF Direction, UnitVectors
<1>2. CASE altitude = -90
  BY <1>2 DEF Direction, UnitVectors
<1>3. CASE altitude = 0
  BY <1>3 DEF Direction, UnitVectors
<1>4. QED
  BY <1>1, <1>2, <1>3

(* A look along an axis of the world. *)
Looks(h, relative) ==
  /\ (relative.horizontal + h) % 360 \in {0, 90, 180, 270}
  /\ relative.altitude \in {0, 90, -90}

(* A scan along an axis leaves a true map true. *)
LEMMA RecordedIsTrue ==
  ASSUME config \in Configs, world \in WorldsOf(config), IsTrue(map),
         NEW p \in Positions, NEW h, NEW relative, Looks(h, relative)
  PROVE  IsTrue(Recorded(p, h, relative))
<1>. PICK beam : beam = AbsoluteBeam(h, relative)
  OBVIOUS
<1>1. beam.horizontal \in {0, 90, 180, 270} /\ beam.altitude \in {0, 90, -90}
  BY DEF Looks, AbsoluteBeam
<1>. PICK d \in UnitVectors : d = Direction(beam.horizontal, beam.altitude)
  BY <1>1, DirectionIsAxis
<1>2. Recorded(p, h, relative) = ApplyToMap(map, p, d, TraceBeam(p, d))
  BY DEF Recorded
<1>3. QED
  BY <1>2, RecordingIsTrue

-----------------------------------------------------------------------------
(* Cutting a length into commands. *)

(* A length cut in pieces: where each piece ends.                           *)
Pieces(legs, total, limit, n, ends) ==
  /\ legs \in Seq(1 .. total) /\ Len(legs) = n
  /\ ends[0] = 0 /\ ends[n] = total
  /\ \A i \in 1 .. n : /\ legs[i] \in 1 .. total /\ (limit > 0 => legs[i] <= limit)
                       /\ ends[i] = ends[i - 1] + legs[i]

(* So many pieces of a length are enough, and one less is not. *)
LEMMA CeilingBounds ==
  ASSUME NEW total \in Nat \ {0}, NEW chunk \in Nat \ {0}, NEW n \in Int,
         n = (total + chunk - 1) \div chunk
  PROVE  n >= 1 /\ (n - 1) * chunk < total /\ total <= n * chunk
<1>. PICK a \in Nat : a = total + chunk - 1
  OBVIOUS
<1>1. n * chunk <= a /\ a < n * chunk + chunk
  BY ONLY n = (total + chunk - 1) \div chunk, a = total + chunk - 1, a \in Nat,
          chunk \in Nat \ {0}, DivBounds
<1>2. (n - 1) * chunk = n * chunk - chunk /\ n * chunk \in Int
  OBVIOUS
<1>3. (n - 1) * chunk < total /\ total <= n * chunk
  BY <1>1, <1>2
<1>4. 0 * chunk < n * chunk
  BY <1>3
<1>5. 0 < n
  BY <1>4, MulCancel
<1>6. QED
  BY <1>3, <1>5

(* The commands a length is cut into add up to it, none above the limit    *)
(* (appendRotation, appendAdvance, appendElevate).                         *)
LEMMA ChunksAre ==
  ASSUME NEW total \in Nat \ {0}, NEW limit \in Nat
  PROVE  \E n \in Nat \ {0} : \E ends \in [0 .. n -> 0 .. total] :
           Pieces(Chunks(total, limit), total, limit, n, ends)
<1>. PICK chunk \in Nat \ {0} : chunk = IF limit > 0 THEN limit ELSE total
  OBVIOUS
<1>. PICK n \in Int : n = (total + chunk - 1) \div chunk
  OBVIOUS
<1>1. n >= 1 /\ (n - 1) * chunk < total /\ total <= n * chunk
  BY CeilingBounds
<1>. PICK legs : legs = [i \in 1 .. n |-> IF i * chunk <= total THEN chunk
                                          ELSE total - (i - 1) * chunk]
  OBVIOUS
<1>2. Chunks(total, limit) = legs
  BY DEF Chunks
<1>. PICK ends : ends = [i \in 0 .. n |-> IF i * chunk <= total THEN i * chunk ELSE total]
  OBVIOUS
<1>3. ASSUME NEW i \in 0 .. n PROVE i * chunk \in Nat
  OBVIOUS
<1>4. ends \in [0 .. n -> 0 .. total]
  <2>1. ASSUME NEW i \in 0 .. n PROVE (IF i * chunk <= total THEN i * chunk ELSE total) \in 0 .. total
    BY <1>3
  <2>2. QED
    BY <2>1
<1>5. ends[0] = 0 /\ ends[n] = total
  <2>1. 0 \in 0 .. n /\ n \in 0 .. n
    BY <1>1
  <2>2. ends[0] = 0
    BY <2>1
  <2>3. ends[n] = IF n * chunk <= total THEN n * chunk ELSE total
    BY <2>1
  <2>4. n * chunk \in Nat
    BY <1>3, <2>1
  <2>5. QED
    BY <1>1, <2>2, <2>3, <2>4
<1>6. ASSUME NEW i \in 1 .. n
      PROVE  /\ legs[i] \in 1 .. total /\ (limit > 0 => legs[i] <= limit)
             /\ ends[i] = ends[i - 1] + legs[i]
  <2>. PICK a \in Nat, b \in Nat : a = (i - 1) * chunk /\ b = i * chunk
    <3>1. i - 1 \in 0 .. n /\ i \in 0 .. n
      OBVIOUS
    <3>2. QED
      BY <1>3, <3>1
  <2>1. b = a + chunk
    <3>1. i * chunk = (i - 1) * chunk + chunk
      BY ONLY i \in Int, chunk \in Nat
    <3>2. QED
      BY <3>1
  <2>2. a < total
    <3>1. i - 1 \in Int /\ n - 1 \in Int /\ i - 1 <= n - 1
      BY ONLY i \in 1 .. n, n \in Int
    <3>2. (i - 1) * chunk <= (n - 1) * chunk
      BY ONLY <3>1, chunk \in Nat, MulMono
    <3>3. (n - 1) * chunk \in Int
      BY ONLY n \in Int, chunk \in Int
    <3>4. QED
      BY ONLY <1>1, <3>2, <3>3, a = (i - 1) * chunk, a \in Nat, total \in Nat
  <2>3. legs[i] = IF b <= total THEN chunk ELSE total - a
    OBVIOUS
  <2>4. ends[i] = (IF b <= total THEN b ELSE total) /\ ends[i - 1] = a
    <3>1. i \in 0 .. n /\ i - 1 \in 0 .. n
      OBVIOUS
    <3>2. ends[i] = IF i * chunk <= total THEN i * chunk ELSE total
      BY ONLY <3>1, ends = [k \in 0 .. n |-> IF k * chunk <= total THEN k * chunk ELSE total]
    <3>3. ends[i - 1] = IF (i - 1) * chunk <= total THEN (i - 1) * chunk ELSE total
      BY ONLY <3>1, ends = [k \in 0 .. n |-> IF k * chunk <= total THEN k * chunk ELSE total]
    <3>4. a <= total
      BY <2>2
    <3>5. QED
      BY ONLY <3>2, <3>3, <3>4, a = (i - 1) * chunk, b = i * chunk
  <2>5. legs[i] \in 1 .. total /\ legs[i] <= chunk /\ ends[i] = ends[i - 1] + legs[i]
    BY ONLY <2>1, <2>2, <2>3, <2>4, a \in Nat, b \in Nat, chunk \in Nat \ {0}, total \in Nat \ {0}
  <2>6. limit > 0 => chunk = limit
    OBVIOUS
  <2>7. QED
    BY <2>5, <2>6
<1>7. n \in Nat \ {0}
  BY <1>1
<1>8. legs \in Seq(1 .. total) /\ Len(legs) = n
  <2>1. legs = [i \in 1 .. n |-> legs[i]]
    OBVIOUS
  <2>2. \A i \in 1 .. n : legs[i] \in 1 .. total
    BY <1>6
  <2>3. QED
    BY ONLY <1>7, <2>1, <2>2
<1>9. Pieces(legs, total, limit, n, ends)
  BY ONLY <1>5, <1>6, <1>8 DEF Pieces
<1>10. QED
  BY ONLY <1>2, <1>4, <1>7, <1>9

-----------------------------------------------------------------------------
(* Where the drone is, and where it faces. *)
Pose == [at : Positions, facing : 0 .. 359]

(* The movements a command may hold, *)
Moves == [type : {"Rotate", "Advance", "Elevate"}, direction : {"Left", "Right"}, amount : Int]

(* the command for one of them, *)
Moving(m) == [NoCommand EXCEPT !.movement = <<m>>]

(* and all such commands. *)
Orders == {Moving(m) : m \in Moves}

(* A place in the region, and in no wall.                                   *)
Free(p) == InGrid(Output, IndexOf(Output, p)) /\ (VoxelsNest => ~IsSolid(p))

(* What a command does to a pose, when it keeps to the limits and goes no   *)
(* further than one voxel.                                                  *)
Turns(m, from, to) ==
  /\ m.type = "Rotate" /\ to.at = from.at
  /\ to.facing = (IF m.direction = "Left" THEN from.facing + m.amount
                                          ELSE from.facing - m.amount) % 360
  /\ m.amount >= 0 /\ (config.maxRotate > 0 => m.amount <= config.maxRotate)

(* So for a step forward, *)
Advanced(m, from, to) ==
  /\ m.type = "Advance" /\ to.facing = from.facing /\ from.facing \in {0, 90, 180, 270}
  /\ to.at = PointAlongBeam(from.at, Direction(from.facing, 0), m.amount)
  /\ m.amount \in 0 .. OutputResolution /\ (config.maxAdvance > 0 => m.amount <= config.maxAdvance)

(* and for one up or down. *)
Elevated(m, from, to) ==
  /\ m.type = "Elevate" /\ to.facing = from.facing
  /\ to.at = PointAlongBeam(from.at, <<0, 0, 1>>, m.amount)
  /\ m.amount \in -OutputResolution .. OutputResolution
  /\ config.maxElevate > 0 => Magnitude(m.amount) <= config.maxElevate

(* A command that leads from a pose to a pose, in a free place. *)
Leg(c, from, to) ==
  /\ Free(to.at)
  /\ \E m \in Moves : /\ c = Moving(m)
                      /\ Turns(m, from, to) \/ Advanced(m, from, to) \/ Elevated(m, from, to)

(* The poses that commands lead through. *)
Tracks(s, track) ==
  /\ s \in Seq(Orders) /\ track \in [0 .. Len(s) -> Pose]
  /\ \A i \in 1 .. Len(s) : Leg(s[i], track[i - 1], track[i])

(* The commands lead from a pose to a pose. *)
Flight(s, from, to) ==
  \E track : Tracks(s, track) /\ track[0] = from /\ track[Len(s)] = to

(* No commands lead nowhere. *)
LEMMA NoFlight == ASSUME NEW a \in Pose PROVE Flight(<< >>, a, a)
<1>. PICK track : track = [i \in 0 .. 0 |-> a]
  OBVIOUS
<1>1. << >> \in Seq(Orders) /\ Len(<< >>) = 0
  OBVIOUS
<1>2. Tracks(<< >>, track) /\ track[0] = a
  BY <1>1 DEF Tracks
<1>3. QED
  BY <1>1, <1>2 DEF Flight

(* Flights may be joined, *)
LEMMA FlightOnward ==
  ASSUME NEW s, NEW t, NEW a, NEW b, NEW c, Flight(s, a, b), Flight(t, b, c)
  PROVE  Flight(s \o t, a, c)
<1>. PICK x : Tracks(s, x) /\ x[0] = a /\ x[Len(s)] = b
  BY DEF Flight
<1>. PICK y : Tracks(t, y) /\ y[0] = b /\ y[Len(t)] = c
  BY DEF Flight
<1>. PICK m \in Nat, n \in Nat : m = Len(s) /\ n = Len(t)
  BY DEF Tracks
<1>. PICK all : all = s \o t
  OBVIOUS
<1>1. s \in Seq(Orders) /\ t \in Seq(Orders)
  BY DEF Tracks
<1>2. /\ all \in Seq(Orders) /\ Len(all) = m + n
      /\ \A i \in 1 .. m : all[i] = s[i]
      /\ \A i \in 1 .. n : all[m + i] = t[i]
  BY <1>1
<1>. PICK z : z = [i \in 0 .. m + n |-> IF i <= m THEN x[i] ELSE y[i - m]]
  OBVIOUS
<1>3. /\ \A i \in 0 .. m : z[i] = x[i]
      /\ \A i \in 0 .. n : z[m + i] = y[i]
  <2>1. \A i \in 0 .. m : i \in 0 .. m + n /\ i <= m
    OBVIOUS
  <2>2. ASSUME NEW i \in 0 .. n PROVE z[m + i] = y[i]
    <3>1. m + i \in 0 .. m + n /\ (m + i) - m = i
      OBVIOUS
    <3>2. CASE i = 0
      <4>1. z[m] = x[m]
        BY <2>1
      <4>2. QED
        BY <3>2, <4>1
    <3>3. CASE i # 0
      <4>1. ~(m + i <= m)
        BY <3>3
      <4>2. QED
        BY <3>1, <4>1
    <3>4. QED
      BY <3>2, <3>3
  <2>3. QED
    BY <2>1, <2>2
<1>4. z \in [0 .. Len(all) -> Pose]
  <2>1. ASSUME NEW i \in 0 .. m + n PROVE (IF i <= m THEN x[i] ELSE y[i - m]) \in Pose
    <3>1. CASE i <= m
      <4>1. i \in 0 .. m
        BY <3>1
      <4>2. QED
        BY <3>1, <4>1 DEF Tracks
    <3>2. CASE ~(i <= m)
      <4>1. i - m \in 0 .. n
        BY <3>2
      <4>2. QED
        BY <3>2, <4>1 DEF Tracks
    <3>3. QED
      BY <3>1, <3>2
  <2>2. QED
    BY <1>2, <2>1
<1>5. ASSUME NEW i \in 1 .. m + n PROVE Leg(all[i], z[i - 1], z[i])
  <2>1. CASE i <= m
    <3>1. i \in 1 .. m /\ i \in 0 .. m /\ i - 1 \in 0 .. m
      BY <2>1
    <3>2. Leg(s[i], x[i - 1], x[i])
      BY <3>1 DEF Tracks
    <3>3. QED
      BY <1>2, <1>3, <3>1, <3>2
  <2>2. CASE ~(i <= m)
    <3>. PICK j \in 1 .. n : i = m + j
      <4>1. i - m \in 1 .. n /\ i = m + (i - m)
        BY <2>2
      <4>2. QED
        BY <4>1
    <3>1. j \in 0 .. n /\ j - 1 \in 0 .. n /\ i - 1 = m + (j - 1)
      OBVIOUS
    <3>2. Leg(t[j], y[j - 1], y[j])
      BY DEF Tracks
    <3>3. z[i] = y[j] /\ z[i - 1] = y[j - 1]
      BY <1>3, <3>1
    <3>4. QED
      BY <1>2, <3>2, <3>3
  <2>3. QED
    BY <2>1, <2>2
<1>6. Tracks(all, z)
  BY <1>2, <1>4, <1>5 DEF Tracks
<1>7. z[0] = a /\ z[Len(all)] = c
  <2>1. 0 \in 0 .. m /\ n \in 0 .. n
    OBVIOUS
  <2>2. QED
    BY <1>2, <1>3, <2>1
<1>8. QED
  BY <1>6, <1>7 DEF Flight

(* and begin with a leg. *)
LEMMA FlightBegins ==
  ASSUME NEW s, NEW a, NEW c, Flight(s, a, c), s # << >>
  PROVE  \E b \in Pose : Leg(Head(s), a, b) /\ Flight(Tail(s), b, c)
<1>. PICK x : Tracks(s, x) /\ x[0] = a /\ x[Len(s)] = c
  BY DEF Flight
<1>1. s \in Seq(Orders) /\ x \in [0 .. Len(s) -> Pose]
  BY DEF Tracks
<1>. PICK n \in Nat : Len(s) = n + 1
  <2>1. Len(s) \in Nat /\ Len(s) # 0
    BY <1>1
  <2>2. Len(s) - 1 \in Nat /\ Len(s) = Len(s) - 1 + 1
    BY <2>1
  <2>3. QED
    BY <2>2
<1>. PICK rest : rest = Tail(s)
  OBVIOUS
<1>2. /\ Head(s) = s[1] /\ rest \in Seq(Orders) /\ Len(rest) = n
      /\ \A i \in 1 .. n : rest[i] = s[i + 1]
  BY <1>1
<1>. PICK y : y = [i \in 0 .. n |-> x[i + 1]]
  OBVIOUS
<1>3. y \in [0 .. n -> Pose]
  <2>1. \A i \in 0 .. n : i + 1 \in 0 .. n + 1
    OBVIOUS
  <2>2. QED
    BY <1>1, <2>1
<1>4. ASSUME NEW i \in 1 .. n PROVE Leg(rest[i], y[i - 1], y[i])
  <2>1. i + 1 \in 1 .. n + 1 /\ i \in 0 .. n /\ i - 1 \in 0 .. n /\ (i - 1) + 1 = i /\ (i + 1) - 1 = i
    OBVIOUS
  <2>2. Leg(s[i + 1], x[i], x[i + 1])
    <3>. PICK j \in 1 .. n + 1 : j = i + 1
      BY <2>1
    <3>1. Leg(s[j], x[j - 1], x[j])
      BY DEF Tracks
    <3>2. j - 1 = i
      OBVIOUS
    <3>3. QED
      BY <3>1, <3>2
  <2>3. y[i] = x[i + 1] /\ y[i - 1] = x[i]
    BY <2>1
  <2>4. QED
    BY <1>2, <2>2, <2>3
<1>5. Tracks(rest, y)
  BY <1>2, <1>3, <1>4 DEF Tracks
<1>6. y[0] = x[1] /\ y[n] = c /\ y[0] \in Pose
  <2>1. 0 \in 0 .. n /\ n \in 0 .. n
    OBVIOUS
  <2>2. y[0] = x[0 + 1] /\ y[n] = x[n + 1] /\ 0 + 1 = 1
    BY <2>1
  <2>3. QED
    BY <1>3, <2>1, <2>2
<1>7. Leg(s[1], x[0], x[1])
  <2>1. 1 \in 1 .. n + 1 /\ 1 - 1 = 0
    OBVIOUS
  <2>2. QED
    BY <2>1 DEF Tracks
<1>8. Flight(rest, y[0], c)
  BY <1>2, <1>5, <1>6 DEF Flight
<1>9. QED
  BY <1>2, <1>6, <1>7, <1>8

-----------------------------------------------------------------------------
(* From one voxel to the next. *)

(* On one axis: a voxel further on, and on the way there. *)
OneCellOn(y, r, s, t) ==
  /\ (y + r * s) \div r = y \div r + s
  /\ (y + t * s) \div r \in {y \div r, y \div r + s}

(* A length of one cell leads to the next, and a shorter one no further. *)
LEMMA OneCellOnward ==
  ASSUME NEW y \in Int, NEW r \in Nat \ {0}, NEW s \in {1, -1}, NEW t \in 0 .. r
  PROVE  OneCellOn(y, r, s, t)
<1>. PICK c \in Int : c = y \div r
  BY DivBounds
<1>. PICK low \in Int : low = c * r
  OBVIOUS
<1>1. low <= y /\ y < low + r
  BY DivBounds
<1>2. (c + 1) * r = low + r /\ (c - 1) * r = low - r
  OBVIOUS
<1>3. CASE s = 1
  <2>. PICK z \in Int, x \in Int : z = y + r /\ x = y + t
    OBVIOUS
  <2>1. y + r * s = z /\ y + t * s = x
    BY <1>3
  <2>2. (c + 1) * r <= z /\ z < (c + 1) * r + r
    BY ONLY <1>1, <1>2, z = y + r, y \in Int, r \in Nat, low \in Int
  <2>3. z \div r = c + 1
    BY ONLY <2>2, c + 1 \in Int, c \in Int, z \in Int, r \in Nat \ {0}, DivUnique
  <2>4. CASE x < low + r
    <3>1. c * r <= x /\ x < c * r + r
      BY ONLY <1>1, <2>4, low = c * r, x = y + t, t \in 0 .. r, y \in Int, r \in Nat, low \in Int
    <3>2. x \div r = c
      BY ONLY <3>1, c \in Int, x \in Int, r \in Nat \ {0}, DivUnique
    <3>3. QED
      BY ONLY <1>3, <2>1, <2>3, <3>2, c = y \div r DEF OneCellOn
  <2>5. CASE ~(x < low + r)
    <3>1. (c + 1) * r <= x /\ x < (c + 1) * r + r
      BY ONLY <1>1, <1>2, <2>5, x = y + t, t \in 0 .. r, y \in Int, r \in Nat, low \in Int
    <3>2. x \div r = c + 1
      BY ONLY <3>1, c + 1 \in Int, c \in Int, x \in Int, r \in Nat \ {0}, DivUnique
    <3>3. QED
      BY ONLY <1>3, <2>1, <2>3, <3>2, c = y \div r DEF OneCellOn
  <2>6. QED
    BY <2>4, <2>5
<1>4. CASE s = -1
  <2>. PICK z \in Int, x \in Int : z = y - r /\ x = y - t
    OBVIOUS
  <2>1. y + r * s = z /\ y + t * s = x
    BY <1>4
  <2>2. (c - 1) * r <= z /\ z < (c - 1) * r + r
    BY ONLY <1>1, <1>2, z = y - r, y \in Int, r \in Nat, low \in Int
  <2>3. z \div r = c - 1
    BY ONLY <2>2, c - 1 \in Int, c \in Int, z \in Int, r \in Nat \ {0}, DivUnique
  <2>4. CASE x >= low
    <3>1. c * r <= x /\ x < c * r + r
      BY ONLY <1>1, <2>4, low = c * r, x = y - t, t \in 0 .. r, y \in Int, r \in Nat, low \in Int
    <3>2. x \div r = c
      BY ONLY <3>1, c \in Int, x \in Int, r \in Nat \ {0}, DivUnique
    <3>3. QED
      BY ONLY <1>4, <2>1, <2>3, <3>2, c \in Int, c = y \div r DEF OneCellOn
  <2>5. CASE ~(x >= low)
    <3>1. (c - 1) * r <= x /\ x < (c - 1) * r + r
      BY ONLY <1>1, <1>2, <2>5, x = y - t, t \in 0 .. r, y \in Int, r \in Nat, low \in Int
    <3>2. x \div r = c - 1
      BY ONLY <3>1, c - 1 \in Int, c \in Int, x \in Int, r \in Nat \ {0}, DivUnique
    <3>3. QED
      BY ONLY <1>4, <2>1, <2>3, <3>2, c \in Int, c = y \div r DEF OneCellOn
  <2>6. QED
    BY <2>4, <2>5
<1>5. QED
  BY <1>3, <1>4

(* A voxel further on along an axis, and on the way there. *)
LEMMA NextVoxel ==
  ASSUME config \in Configs, NEW p \in Positions, NEW d \in UnitVectors,
         NEW t \in 0 .. OutputResolution
  PROVE  /\ IndexOf(Output, PointAlongBeam(p, d, OutputResolution))
              = PointAlongBeam(IndexOf(Output, p), d, 1)
         /\ \/ IndexOf(Output, PointAlongBeam(p, d, t)) = IndexOf(Output, p)
            \/ IndexOf(Output, PointAlongBeam(p, d, t))
                 = IndexOf(Output, PointAlongBeam(p, d, OutputResolution))
<1>. PICK r \in Nat \ {0} : r = OutputResolution
  BY Resolutions
<1>. d \in Positions
  BY UnitVectorFacts
<1>1. PICK b \in Axes, s \in {1, -1} : d[b] = s /\ \A a \in Axes : a # b => d[a] = 0
  BY UnitVectorFacts
<1>. PICK x \in Positions, q \in Positions :
       x = PointAlongBeam(p, d, t) /\ q = PointAlongBeam(p, d, r)
  <2>1. t \in Int /\ r \in Int
    OBVIOUS
  <2>2. QED
    BY <2>1, PointType
<1>. PICK u \in Positions, v \in Positions, w \in Positions :
       u = IndexOf(Output, p) /\ v = IndexOf(Output, x) /\ w = IndexOf(Output, q)
  BY IndexType
<1>. PICK n \in Positions : n = PointAlongBeam(u, d, 1)
  BY PointType
<1>2. \A a \in Axes : /\ x[a] = p[a] + t * d[a] /\ q[a] = p[a] + r * d[a]
                      /\ n[a] = u[a] + 1 * d[a]
  BY DEF PointAlongBeam
<1>3. \A a \in Axes : /\ u[a] = (p[a] - MissionBounds.min[a]) \div r
                      /\ v[a] = (x[a] - MissionBounds.min[a]) \div r
                      /\ w[a] = (q[a] - MissionBounds.min[a]) \div r
  BY IndexType
<1>4. ASSUME NEW a \in Axes, a # b PROVE v[a] = u[a] /\ w[a] = u[a] /\ n[a] = u[a]
  <2>1. d[a] = 0 /\ p[a] \in Int /\ u[a] \in Int
    BY <1>1, <1>4 DEF Positions
  <2>2. t * 0 = 0 /\ r * 0 = 0 /\ 1 * 0 = 0
    OBVIOUS
  <2>3. x[a] = p[a] /\ q[a] = p[a] /\ n[a] = u[a]
    BY <1>2, <2>1, <2>2
  <2>4. QED
    BY <1>3, <2>3
<1>5. w[b] = u[b] + s /\ n[b] = u[b] + s /\ (v[b] = u[b] \/ v[b] = u[b] + s)
  <2>. PICK o \in Int, pb \in Int : o = MissionBounds.min[b] /\ pb = p[b]
    BY Grids DEF Positions
  <2>. PICK y \in Int : y = pb - o
    OBVIOUS
  <2>1. OneCellOn(y, r, s, t)
    BY OneCellOnward
  <2>2. q[b] - o = y + r * s /\ x[b] - o = y + t * s
    BY <1>1, <1>2
  <2>3. u[b] = y \div r /\ w[b] = (y + r * s) \div r /\ v[b] = (y + t * s) \div r
    BY <1>3, <2>2
  <2>4. n[b] = u[b] + s
    <3>1. u[b] \in Int /\ 1 * s = s
      BY DEF Positions
    <3>2. QED
      BY <1>1, <1>2, <3>1
  <2>5. QED
    BY ONLY <2>1, <2>3, <2>4 DEF OneCellOn
<1>6. w = n
  BY <1>4, <1>5, SamePosition
<1>7. v = u \/ v = w
  <2>1. CASE v[b] = u[b]
    <3>1. \A a \in Axes : v[a] = u[a]
      BY <1>4, <2>1
    <3>2. QED
      BY <3>1, SamePosition
  <2>2. CASE v[b] = u[b] + s
    <3>1. \A a \in Axes : v[a] = w[a]
      BY <1>4, <1>5, <2>2
    <3>2. QED
      BY <3>1, SamePosition
  <2>3. QED
    BY <1>5, <2>1, <2>2
<1>8. QED
  BY <1>6, <1>7

(* Of two places in one voxel, both are free or none.                       *)
LEMMA FreeTogether ==
  ASSUME config \in Configs, world \in WorldsOf(config), NEW p \in Positions, NEW x \in Positions,
         IndexOf(Output, x) = IndexOf(Output, p), Free(p)
  PROVE  Free(x)
<1>1. ASSUME VoxelsNest, IsSolid(x) PROVE FALSE
  <2>1. IndexOf(Hidden, x) \in Covered(IndexOf(Output, p)) \cap world
    BY <1>1, SolidIsCovered
  <2>2. IndexOf(Hidden, x) = IndexOf(Hidden, p)
    BY <1>1, <2>1, CoveredIsOneCell DEF VoxelsNest
  <2>3. IsSolid(p)
    BY <2>1, <2>2 DEF IsSolid
  <2>4. QED
    BY <1>1, <2>3 DEF Free
<1>2. QED
  BY <1>1 DEF Free

(* Between a free place and the next voxel, when that is free, all is free. *)
LEMMA FreeOnTheWay ==
  ASSUME config \in Configs, world \in WorldsOf(config), NEW p \in Positions,
         NEW d \in UnitVectors, NEW t \in 0 .. OutputResolution,
         Free(p), Free(PointAlongBeam(p, d, OutputResolution))
  PROVE  Free(PointAlongBeam(p, d, t))
<1>. PICK r \in Nat \ {0} : r = OutputResolution
  BY Resolutions
<1>. d \in Positions
  BY UnitVectorFacts
<1>. PICK x \in Positions, q \in Positions :
       x = PointAlongBeam(p, d, t) /\ q = PointAlongBeam(p, d, r)
  <2>1. t \in Int /\ r \in Int
    OBVIOUS
  <2>2. QED
    BY <2>1, PointType
<1>1. IndexOf(Output, x) = IndexOf(Output, p) \/ IndexOf(Output, x) = IndexOf(Output, q)
  BY NextVoxel
<1>2. QED
  BY <1>1, FreeTogether

-----------------------------------------------------------------------------
(* Turning. *)

(* The commands of the algorithm are orders. *)
LEMMA MovesAre ==
  ASSUME NEW type \in {"Rotate", "Advance", "Elevate"}, NEW direction \in {"Left", "Right"},
         NEW amount \in Int
  PROVE  \E m \in Moves : /\ m.type = type /\ m.direction = direction /\ m.amount = amount
                          /\ Move(type, direction, amount) = Moving(m)
<1>. PICK m : m = [type |-> type, direction |-> direction, amount |-> amount]
  OBVIOUS
<1>1. m \in Moves
  BY DEF Moves
<1>2. Move(type, direction, amount) = Moving(m)
  BY DEF Move, Moving
<1>3. QED
  BY <1>1, <1>2

(* A command for each piece of a length, and the poses in between.          *)
LEMMA FlightInPieces ==
  ASSUME NEW n \in Nat \ {0}, NEW legs, NEW s, DOMAIN legs = 1 .. n, s = [i \in DOMAIN legs |-> s[i]],
         \A i \in 1 .. n : s[i] \in Orders,
         NEW track \in [0 .. n -> Pose],
         \A i \in 1 .. n : Leg(s[i], track[i - 1], track[i])
  PROVE  Flight(s, track[0], track[n]) /\ s # << >>
<1>1. s = [i \in 1 .. n |-> s[i]]
  OBVIOUS
<1>2. s \in Seq(Orders) /\ Len(s) = n /\ s # << >>
  BY ONLY <1>1, n \in Nat \ {0}, \A i \in 1 .. n : s[i] \in Orders
<1>3. Tracks(s, track)
  BY <1>2 DEF Tracks
<1>4. QED
  BY <1>2, <1>3 DEF Flight

(* One piece of a length, and where it begins and ends. *)
Piece(legs, total, limit, ends, i) ==
  /\ legs[i] \in 1 .. total /\ legs[i] \in Nat /\ (limit > 0 => legs[i] <= limit)
  /\ ends[i - 1] \in 0 .. total /\ ends[i] = ends[i - 1] + legs[i] /\ ends[i] \in 0 .. total

(* Every piece of a cut length is one. *)
LEMMA PieceFacts ==
  ASSUME NEW total \in Nat \ {0}, NEW limit, NEW n \in Nat \ {0},
         NEW ends \in [0 .. n -> 0 .. total], NEW legs, Pieces(legs, total, limit, n, ends)
  PROVE  \A i \in 1 .. n : Piece(legs, total, limit, ends, i)
<1>. SUFFICES ASSUME NEW i \in 1 .. n PROVE Piece(legs, total, limit, ends, i)
  OBVIOUS
<1>1. legs[i] \in 1 .. total /\ (limit > 0 => legs[i] <= limit) /\ ends[i] = ends[i - 1] + legs[i]
  BY DEF Pieces
<1>2. i \in 0 .. n /\ i - 1 \in 0 .. n
  OBVIOUS
<1>3. ends[i] \in 0 .. total /\ ends[i - 1] \in 0 .. total
  BY <1>2
<1>4. QED
  BY <1>1, <1>3 DEF Piece

(* Where a drone faces that turns from a heading to one side. *)
Facing(h, direction, e) == (IF direction = "Left" THEN h + e ELSE h - e) % 360

(* Turns to one side add up, *)
LEMMA FacingOnward ==
  ASSUME NEW h \in Int, NEW direction, NEW a \in Int, NEW b \in Int
  PROVE  Facing(Facing(h, direction, a), direction, b) = Facing(h, direction, a + b)
BY DEF Facing

(* and end on a heading. *)
LEMMA FacingFacts ==
  ASSUME NEW h \in 0 .. 359, NEW direction, NEW a \in Int
  PROVE  Facing(h, direction, a) \in 0 .. 359 /\ Facing(h, direction, 0) = h
BY DEF Facing

(* A turn by so many degrees leads from one heading to another. *)
Leads(from, delta, to) == (from + delta) % 360 = to /\ (delta = 0 => from = to)

(* So does the shortest one (shortestSignedDegrees). *)
LEMMA ShortestSignedIs ==
  ASSUME NEW from \in 0 .. 359, NEW to \in 0 .. 359, NEW delta \in Int,
         delta = ShortestSigned(to - from)
  PROVE  Leads(from, delta, to)
<1>. PICK wrapped \in Int : wrapped = (to - from) % 360
  OBVIOUS
<1>1. delta = IF wrapped > 180 THEN wrapped - 360 ELSE wrapped
  BY DEF ShortestSigned
<1>2. wrapped = to - from \/ wrapped = to - from + 360
  OBVIOUS
<1>3. QED
  BY <1>1, <1>2 DEF Leads

(* The turns of appendRotation end on the heading they are for. *)
LEMMA RotationsLead ==
  ASSUME config \in Configs, NEW p \in Positions, Free(p),
         NEW from \in 0 .. 359, NEW to \in 0 .. 359
  PROVE  Flight(Rotations(from, to), [at |-> p, facing |-> from], [at |-> p, facing |-> to])
<1>. PICK delta \in Int : delta = ShortestSigned(to - from)
  BY DEF ShortestSigned
<1>. PICK limit \in Nat : limit = config.maxRotate
  BY MissionAssumption
<1>. PICK s : s = Rotations(from, to)
  OBVIOUS
<1>. PICK a \in Pose, b \in Pose : a = [at |-> p, facing |-> from] /\ b = [at |-> p, facing |-> to]
  BY DEF Pose
<1>1. (from + delta) % 360 = to /\ (delta = 0 => from = to)
  <2>1. Leads(from, delta, to)
    BY ShortestSignedIs
  <2>2. QED
    BY <2>1 DEF Leads
<1>2. CASE delta = 0
  <2>1. s = << >>
    BY <1>2 DEF Rotations
  <2>2. a = b
    BY <1>1, <1>2
  <2>3. QED
    BY <2>1, <2>2, NoFlight
<1>3. CASE delta # 0
  <2>. PICK total \in Nat \ {0} : total = IF delta < 0 THEN -delta ELSE delta
    BY <1>3
  <2>. PICK direction \in {"Left", "Right"} : direction = IF delta > 0 THEN "Left" ELSE "Right"
    OBVIOUS
  <2>. PICK legs : legs = Chunks(total, limit)
    OBVIOUS
  <2>0. PICK n \in Nat \ {0} : \E ends \in [0 .. n -> 0 .. total] : Pieces(legs, total, limit, n, ends)
    BY ChunksAre
  <2>1. PICK ends \in [0 .. n -> 0 .. total] : Pieces(legs, total, limit, n, ends)
    BY <2>0
  <2>2. s = [i \in DOMAIN legs |-> Move("Rotate", direction, legs[i])]
    BY <1>3 DEF Rotations
  <2>3. DOMAIN legs = 1 .. n
    BY <2>1 DEF Pieces
  <2>. PICK track : track = [i \in 0 .. n |-> [at |-> p, facing |-> Facing(from, direction, ends[i])]]
    OBVIOUS
  <2>4. ASSUME NEW i \in 0 .. n
        PROVE  /\ track[i] \in Pose /\ track[i].at = p
               /\ track[i].facing = Facing(from, direction, ends[i])
    <3>1. ends[i] \in Int
      OBVIOUS
    <3>2. Facing(from, direction, ends[i]) \in 0 .. 359
      BY ONLY <3>1, from \in 0 .. 359, FacingFacts
    <3>3. QED
      BY <3>2 DEF Pose
  <2>5. ASSUME NEW i \in 1 .. n
        PROVE  s[i] \in Orders /\ Leg(s[i], track[i - 1], track[i])
    <3>1. /\ legs[i] \in Nat /\ (limit > 0 => legs[i] <= limit)
          /\ i \in 0 .. n /\ i - 1 \in 0 .. n
          /\ ends[i - 1] \in 0 .. total /\ ends[i] = ends[i - 1] + legs[i]
      <4>1. Piece(legs, total, limit, ends, i)
        BY <2>1, PieceFacts
      <4>2. QED
        BY <4>1 DEF Piece
    <3>2. PICK m \in Moves : /\ m.type = "Rotate" /\ m.direction = direction /\ m.amount = legs[i]
                             /\ s[i] = Moving(m)
      <4>1. s[i] = Move("Rotate", direction, legs[i])
        BY <2>2, <2>3
      <4>2. legs[i] \in Int
        BY <3>1
      <4>3. QED
        BY ONLY <4>1, <4>2, direction \in {"Left", "Right"}, MovesAre
    <3>3. /\ track[i - 1].at = p /\ track[i].at = p
          /\ track[i - 1].facing = Facing(from, direction, ends[i - 1])
          /\ track[i].facing = Facing(from, direction, ends[i])
      BY <2>4, <3>1
    <3>4. track[i].facing = Facing(track[i - 1].facing, direction, legs[i])
      <4>1. ends[i - 1] \in Int /\ legs[i] \in Int
        BY <3>1
      <4>2. from \in 0 .. 359
        OBVIOUS
      <4>. PICK x \in Int, y \in Int : x = ends[i - 1] /\ y = legs[i]
        BY <4>1
      <4>3. Facing(Facing(from, direction, x), direction, y) = Facing(from, direction, x + y)
        BY FacingOnward
      <4>4. QED
        BY <3>1, <3>3, <4>3
    <3>5. Turns(m, track[i - 1], track[i])
      BY ONLY <3>1, <3>2, <3>3, <3>4, limit = config.maxRotate DEF Turns, Facing
    <3>6. Free(track[i].at)
      BY <3>3
    <3>7. QED
      BY ONLY <3>2, <3>5, <3>6 DEF Leg, Orders
  <2>6. track[0] = a /\ track[n] = b
    <3>1. 0 \in 0 .. n /\ n \in 0 .. n /\ ends[0] = 0 /\ ends[n] = total
      BY <2>1 DEF Pieces
    <3>2. track[0] = [at |-> p, facing |-> Facing(from, direction, 0)]
      BY <3>1
    <3>3. track[n] = [at |-> p, facing |-> Facing(from, direction, total)]
      BY <3>1
    <3>4. Facing(from, direction, 0) = from
      BY FacingFacts
    <3>5. Facing(from, direction, total) = to
      <4>1. (IF direction = "Left" THEN from + total ELSE from - total) = from + delta
        BY <1>3
      <4>2. QED
        BY ONLY <1>1, <4>1 DEF Facing
    <3>6. QED
      BY ONLY <3>2, <3>3, <3>4, <3>5, a = [at |-> p, facing |-> from], b = [at |-> p, facing |-> to]
  <2>7. track \in [0 .. n -> Pose]
    BY <2>4
  <2>8. s = [i \in DOMAIN legs |-> s[i]]
    BY <2>2
  <2>9. Flight(s, track[0], track[n])
    BY ONLY <2>3, <2>5, <2>7, <2>8, n \in Nat \ {0}, FlightInPieces
  <2>10. QED
    BY <2>6, <2>9
<1>4. QED
  BY <1>2, <1>3

-----------------------------------------------------------------------------
(* Crossing a voxel. *)

(* Lengths along a beam add up, *)
LEMMA PointOnward ==
  ASSUME NEW p \in Positions, NEW d \in Positions, NEW s \in Int, NEW t \in Int
  PROVE  PointAlongBeam(PointAlongBeam(p, d, s), d, t) = PointAlongBeam(p, d, s + t)
<1>. PICK q \in Positions, x \in Positions, y \in Positions :
       /\ q = PointAlongBeam(p, d, s) /\ x = PointAlongBeam(q, d, t)
       /\ y = PointAlongBeam(p, d, s + t)
  BY PointType
<1>1. ASSUME NEW a \in Axes PROVE x[a] = y[a]
  <2>. PICK pa \in Int, da \in Int : pa = p[a] /\ da = d[a]
    BY DEF Positions
  <2>1. q[a] = pa + s * da /\ x[a] = q[a] + t * da /\ y[a] = pa + (s + t) * da
    BY DEF PointAlongBeam
  <2>2. (s + t) * da = s * da + t * da /\ s * da \in Int /\ t * da \in Int
    OBVIOUS
  <2>3. QED
    BY <2>1, <2>2
<1>2. QED
  BY <1>1, SamePosition

(* from none at all. *)
LEMMA PointHere ==
  ASSUME NEW p \in Positions, NEW d \in Positions
  PROVE  PointAlongBeam(p, d, 0) = p
<1>. PICK x \in Positions : x = PointAlongBeam(p, d, 0)
  BY PointType
<1>1. ASSUME NEW a \in Axes PROVE x[a] = p[a]
  <2>. PICK pa \in Int, da \in Int : pa = p[a] /\ da = d[a]
    BY DEF Positions
  <2>1. x[a] = pa + 0 * da
    BY DEF PointAlongBeam
  <2>2. QED
    BY <2>1
<1>2. QED
  BY <1>1, SamePosition

(* Up by a negative length is down. *)
LEMMA UpAndDown ==
  ASSUME NEW p \in Positions, NEW t \in Int
  PROVE  PointAlongBeam(p, <<0, 0, -1>>, t) = PointAlongBeam(p, <<0, 0, 1>>, -t)
<1>. PICK up \in UnitVectors, down \in UnitVectors : up = <<0, 0, 1>> /\ down = <<0, 0, -1>>
  BY DEF UnitVectors
<1>. up \in Positions /\ down \in Positions
  BY UnitVectorFacts
<1>. PICK x \in Positions, y \in Positions :
       x = PointAlongBeam(p, down, t) /\ y = PointAlongBeam(p, up, -t)
  <2>1. -t \in Int
    OBVIOUS
  <2>2. QED
    BY <2>1, PointType
<1>1. ASSUME NEW a \in Axes PROVE x[a] = y[a]
  <2>1. x[a] = p[a] + t * down[a] /\ y[a] = p[a] + (-t) * up[a]
    BY DEF PointAlongBeam
  <2>2. t * 0 = 0 /\ (-t) * 0 = 0 /\ t * (-1) = -t /\ (-t) * 1 = -t
    OBVIOUS
  <2>3. t * down[a] = (-t) * up[a]
    <3>1. a = 1 \/ a = 2 \/ a = 3
      BY DEF Axes
    <3>2. /\ up[1] = 0 /\ up[2] = 0 /\ up[3] = 1 /\ down[1] = 0 /\ down[2] = 0 /\ down[3] = -1
      OBVIOUS
    <3>3. QED
      BY <2>2, <3>1, <3>2
  <2>4. QED
    BY <2>1, <2>3
<1>2. QED
  BY <1>1, SamePosition

(* A voxel is crossed on a bearing. *)
Crosses(p, b) ==
  /\ Flight(Advances, [at |-> p, facing |-> b],
            [at |-> PointAlongBeam(p, Direction(b, 0), OutputResolution), facing |-> b])
  /\ Advances # << >>

(* The steps of appendAdvance cross one voxel, when the next is free. *)
LEMMA AdvancesLead ==
  ASSUME config \in Configs, world \in WorldsOf(config), NEW p \in Positions, Free(p),
         NEW b \in {0, 90, 180, 270},
         Free(PointAlongBeam(p, Direction(b, 0), OutputResolution))
  PROVE  Crosses(p, b)
<1>. PICK total \in Nat \ {0} : total = OutputResolution
  BY Resolutions
<1>. PICK limit \in Nat : limit = config.maxAdvance
  BY MissionAssumption
<1>. PICK d \in UnitVectors : d = Direction(b, 0)
  BY DirectionIsAxis
<1>. d \in Positions
  BY UnitVectorFacts
<1>. PICK s : s = Advances
  OBVIOUS
<1>. PICK legs : legs = Chunks(total, limit)
  OBVIOUS
<1>0. PICK n \in Nat \ {0} : \E ends \in [0 .. n -> 0 .. total] : Pieces(legs, total, limit, n, ends)
  BY ONLY total \in Nat \ {0}, limit \in Nat, legs = Chunks(total, limit), ChunksAre
<1>1. PICK ends \in [0 .. n -> 0 .. total] : Pieces(legs, total, limit, n, ends)
  BY <1>0
<1>2. s = [i \in DOMAIN legs |-> Move("Advance", "Left", legs[i])]
  BY DEF Advances
<1>3. DOMAIN legs = 1 .. n
  BY <1>1 DEF Pieces
<1>. PICK track : track = [i \in 0 .. n |-> [at |-> PointAlongBeam(p, d, ends[i]), facing |-> b]]
  OBVIOUS
<1>4. ASSUME NEW i \in 0 .. n
      PROVE  /\ track[i] \in Pose /\ track[i].at = PointAlongBeam(p, d, ends[i])
             /\ track[i].facing = b
  <2>1. ends[i] \in Int
    OBVIOUS
  <2>2. PointAlongBeam(p, d, ends[i]) \in Positions /\ b \in 0 .. 359
    BY <2>1, PointType
  <2>3. QED
    BY <2>2 DEF Pose
<1>5. ASSUME NEW i \in 1 .. n
      PROVE  s[i] \in Orders /\ Leg(s[i], track[i - 1], track[i])
  <2>. PICK length \in 1 .. total, x \in 0 .. total, y \in 0 .. total :
         /\ length = legs[i] /\ x = ends[i - 1] /\ y = ends[i]
         /\ y = x + length /\ (limit > 0 => length <= limit)
    <3>1. Piece(legs, total, limit, ends, i)
      BY <1>1, PieceFacts
    <3>2. QED
      BY <3>1 DEF Piece
  <2>1. i \in 0 .. n /\ i - 1 \in 0 .. n
    OBVIOUS
  <2>2. PICK m \in Moves : m.type = "Advance" /\ m.amount = length /\ s[i] = Moving(m)
    <3>1. s[i] = Move("Advance", "Left", length)
      BY <1>2, <1>3
    <3>2. length \in Int
      OBVIOUS
    <3>3. QED
      BY ONLY <3>1, <3>2, MovesAre
  <2>3. /\ track[i - 1].at = PointAlongBeam(p, d, x) /\ track[i].at = PointAlongBeam(p, d, y)
        /\ track[i - 1].facing = b /\ track[i].facing = b
    BY <1>4, <2>1
  <2>4. track[i].at = PointAlongBeam(track[i - 1].at, d, length)
    <3>1. x \in Int /\ length \in Int
      OBVIOUS
    <3>2. PointAlongBeam(PointAlongBeam(p, d, x), d, length) = PointAlongBeam(p, d, x + length)
      BY <3>1, PointOnward
    <3>3. QED
      BY <2>3, <3>2
  <2>5. Advanced(m, track[i - 1], track[i])
    <3>1. length \in 0 .. OutputResolution
      OBVIOUS
    <3>2. config.maxAdvance > 0 => length <= config.maxAdvance
      OBVIOUS
    <3>3. QED
      BY <2>2, <2>3, <2>4, <3>1, <3>2 DEF Advanced
  <2>6. Free(track[i].at)
    <3>1. Free(PointAlongBeam(p, d, y))
      BY FreeOnTheWay
    <3>2. QED
      BY <2>3, <3>1
  <2>7. s[i] \in Orders
    BY ONLY <2>2, m \in Moves DEF Orders
  <2>8. Leg(s[i], track[i - 1], track[i])
    BY ONLY <2>2, <2>5, <2>6, m \in Moves DEF Leg
  <2>9. QED
    BY <2>7, <2>8
<1>6. track[0] = [at |-> p, facing |-> b] /\ track[n] = [at |-> PointAlongBeam(p, d, total), facing |-> b]
  <2>1. 0 \in 0 .. n /\ n \in 0 .. n /\ ends[0] = 0 /\ ends[n] = total
    BY <1>1 DEF Pieces
  <2>2. /\ track[0] = [at |-> PointAlongBeam(p, d, 0), facing |-> b]
        /\ track[n] = [at |-> PointAlongBeam(p, d, total), facing |-> b]
    BY <2>1
  <2>3. QED
    BY <2>2, PointHere
<1>7. track \in [0 .. n -> Pose]
  BY <1>4
<1>8. s = [i \in DOMAIN legs |-> s[i]]
  BY <1>2
<1>9. Flight(s, track[0], track[n]) /\ s # << >>
  <2>1. /\ \A i \in 1 .. n : s[i] \in Orders
        /\ \A i \in 1 .. n : Leg(s[i], track[i - 1], track[i])
    BY ONLY <1>5
  <2>2. QED
    BY ONLY <1>3, <1>7, <1>8, <2>1, n \in Nat \ {0}, FlightInPieces, SMTT(60)
<1>10. QED
  BY <1>6, <1>9 DEF Crosses

(* So do those of appendElevate, up or down. *)
LEMMA ElevationsLead ==
  ASSUME config \in Configs, world \in WorldsOf(config), NEW p \in Positions, Free(p),
         NEW b \in 0 .. 359, NEW sign \in {1, -1},
         Free(PointAlongBeam(p, <<0, 0, sign>>, OutputResolution))
  PROVE  /\ Flight(Elevations(sign), [at |-> p, facing |-> b],
                   [at |-> PointAlongBeam(p, <<0, 0, sign>>, OutputResolution), facing |-> b])
         /\ Elevations(sign) # << >>
<1>. PICK total \in Nat \ {0} : total = OutputResolution
  BY Resolutions
<1>. PICK limit \in Nat : limit = config.maxElevate
  BY MissionAssumption
<1>. PICK d \in UnitVectors, up \in UnitVectors : d = <<0, 0, sign>> /\ up = <<0, 0, 1>>
  BY DEF UnitVectors
<1>. d \in Positions /\ up \in Positions
  BY UnitVectorFacts
<1>. PICK s : s = Elevations(sign)
  OBVIOUS
<1>. PICK legs : legs = Chunks(total, limit)
  OBVIOUS
<1>0. PICK n \in Nat \ {0} : \E ends \in [0 .. n -> 0 .. total] : Pieces(legs, total, limit, n, ends)
  BY ONLY total \in Nat \ {0}, limit \in Nat, legs = Chunks(total, limit), ChunksAre
<1>1. PICK ends \in [0 .. n -> 0 .. total] : Pieces(legs, total, limit, n, ends)
  BY <1>0
<1>2. s = [i \in DOMAIN legs |-> Move("Elevate", "Left", sign * legs[i])]
  BY DEF Elevations
<1>3. DOMAIN legs = 1 .. n
  BY <1>1 DEF Pieces
<1>. PICK track : track = [i \in 0 .. n |-> [at |-> PointAlongBeam(p, d, ends[i]), facing |-> b]]
  OBVIOUS
<1>4. ASSUME NEW i \in 0 .. n
      PROVE  /\ track[i] \in Pose /\ track[i].at = PointAlongBeam(p, d, ends[i])
             /\ track[i].facing = b
  <2>1. ends[i] \in Int
    OBVIOUS
  <2>2. PointAlongBeam(p, d, ends[i]) \in Positions
    BY <2>1, PointType
  <2>3. QED
    BY <2>2 DEF Pose
<1>5. ASSUME NEW i \in 1 .. n
      PROVE  s[i] \in Orders /\ Leg(s[i], track[i - 1], track[i])
  <2>. PICK length \in 1 .. total, x \in 0 .. total, y \in 0 .. total :
         /\ length = legs[i] /\ x = ends[i - 1] /\ y = ends[i]
         /\ y = x + length /\ (limit > 0 => length <= limit)
    <3>1. Piece(legs, total, limit, ends, i)
      BY <1>1, PieceFacts
    <3>2. QED
      BY <3>1 DEF Piece
  <2>1. i \in 0 .. n /\ i - 1 \in 0 .. n
    OBVIOUS
  <2>. PICK amount \in Int : amount = sign * length
    BY ONLY sign \in {1, -1}, length \in 1 .. total, total \in Nat \ {0}
  <2>2. PICK m \in Moves : m.type = "Elevate" /\ m.amount = amount /\ s[i] = Moving(m)
    <3>1. s[i] = Move("Elevate", "Left", amount)
      BY <1>2, <1>3
    <3>2. QED
      BY ONLY <3>1, amount \in Int, MovesAre
  <2>3. /\ track[i - 1].at = PointAlongBeam(p, d, x) /\ track[i].at = PointAlongBeam(p, d, y)
        /\ track[i - 1].facing = b /\ track[i].facing = b
    BY <1>4, <2>1
  <2>4. track[i].at = PointAlongBeam(track[i - 1].at, up, amount)
    <3>1. x \in Int /\ length \in Int
      BY ONLY x \in 0 .. total, length \in 1 .. total
    <3>. PICK q \in Positions : q = PointAlongBeam(p, d, x)
      BY <3>1, PointType
    <3>2. PointAlongBeam(q, d, length) = PointAlongBeam(p, d, y)
      <4>1. PointAlongBeam(PointAlongBeam(p, d, x), d, length) = PointAlongBeam(p, d, x + length)
        BY ONLY <3>1, p \in Positions, d \in Positions, PointOnward
      <4>2. QED
        BY <4>1
    <3>3. PointAlongBeam(q, d, length) = PointAlongBeam(q, up, amount)
      <4>1. CASE sign = 1
        <5>1. amount = length
          BY <4>1
        <5>2. QED
          BY <4>1, <5>1
      <4>2. CASE sign = -1
        <5>1. amount = -length
          BY ONLY <4>2, amount = sign * length, length \in 1 .. total, total \in Nat \ {0}
        <5>2. PointAlongBeam(q, <<0, 0, -1>>, length) = PointAlongBeam(q, <<0, 0, 1>>, -length)
          BY ONLY q \in Positions, <3>1, UpAndDown
        <5>3. QED
          BY <4>2, <5>1, <5>2
      <4>3. QED
        BY <4>1, <4>2
    <3>4. QED
      BY <2>3, <3>2, <3>3
  <2>5. Elevated(m, track[i - 1], track[i])
    <3>1. amount \in -OutputResolution .. OutputResolution /\ Magnitude(amount) = length
      <4>1. sign = 1 => amount = length
        OBVIOUS
      <4>2. sign = -1 => amount = -length
        BY ONLY amount = sign * length, length \in 1 .. total, total \in Nat \ {0}
      <4>3. total \in Nat /\ length \in 1 .. total /\ amount \in Int
        OBVIOUS
      <4>4. QED
        BY ONLY <4>1, <4>2, <4>3, sign \in {1, -1}, total = OutputResolution DEF Magnitude
    <3>2. config.maxElevate > 0 => Magnitude(amount) <= config.maxElevate
      BY <3>1
    <3>3. QED
      BY <2>2, <2>3, <2>4, <3>1, <3>2 DEF Elevated
  <2>6. Free(track[i].at)
    <3>1. Free(PointAlongBeam(p, d, y))
      BY FreeOnTheWay
    <3>2. QED
      BY <2>3, <3>1
  <2>7. s[i] \in Orders
    BY ONLY <2>2, m \in Moves DEF Orders
  <2>8. Leg(s[i], track[i - 1], track[i])
    BY ONLY <2>2, <2>5, <2>6, m \in Moves DEF Leg
  <2>9. QED
    BY <2>7, <2>8
<1>6. track[0] = [at |-> p, facing |-> b] /\ track[n] = [at |-> PointAlongBeam(p, d, total), facing |-> b]
  <2>1. 0 \in 0 .. n /\ n \in 0 .. n /\ ends[0] = 0 /\ ends[n] = total
    BY <1>1 DEF Pieces
  <2>2. /\ track[0] = [at |-> PointAlongBeam(p, d, 0), facing |-> b]
        /\ track[n] = [at |-> PointAlongBeam(p, d, total), facing |-> b]
    BY <2>1
  <2>3. QED
    BY <2>2, PointHere
<1>7. track \in [0 .. n -> Pose]
  BY <1>4
<1>8. s = [i \in DOMAIN legs |-> s[i]]
  BY <1>2
<1>9. Flight(s, track[0], track[n]) /\ s # << >>
  <2>1. /\ \A i \in 1 .. n : s[i] \in Orders
        /\ \A i \in 1 .. n : Leg(s[i], track[i - 1], track[i])
    BY <1>5
  <2>2. QED
    BY ONLY <1>3, <1>7, <1>8, <2>1, n \in Nat \ {0}, FlightInPieces
<1>10. QED
  BY <1>6, <1>9

-----------------------------------------------------------------------------
(* Induction and recursion over the numbers up to one. *)

(* What holds first and, from each number up to n to the next, goes on.     *)
LEMMA Onward ==
  ASSUME NEW n \in Nat, NEW with, 0 \in with,
         \A k \in 0 .. n : k \in with /\ k < n => k + 1 \in with
  PROVE  \A k \in 0 .. n : k \in with
<1>. DEFINE without == {k \in 0 .. n : k \notin with}
<1>1. SUFFICES ASSUME without # {} PROVE FALSE
  OBVIOUS
<1>2. PICK k \in without : \A m \in without : k <= m
  <2>1. without \subseteq Nat
    OBVIOUS
  <2>. HIDE DEF without
  <2>2. QED
    BY <1>1, <2>1, LeastNat
<1>3. k # 0
  BY <1>2
<1>4. k - 1 \in 0 .. n /\ k - 1 < n /\ k - 1 + 1 = k
  BY <1>2, <1>3
<1>5. k - 1 \in with
  BY <1>2, <1>4
<1>6. QED
  BY <1>2, <1>4, <1>5

(* A recursion over 0 .. n, as an equation. *)
Recursion(f, n, base, step) ==
  \A i \in 0 .. n : f[i] = IF i = 0 THEN base ELSE step[<<f[i - 1], i>>]

(* Such a function exists for every base and step. *)
LEMMA RecursionExists ==
  ASSUME NEW n \in Nat, NEW S, NEW base \in S, NEW step \in [S \X (1 .. n) -> S]
  PROVE  \E f \in [0 .. n -> S] : Recursion(f, n, base, step)
<1>. DEFINE with == {k \in Nat : \E f \in [0 .. k -> S] : Recursion(f, k, base, step)}
<1>1. 0 \in with
  <2>. PICK f \in [0 .. 0 -> S] : f = [i \in 0 .. 0 |-> base]
    OBVIOUS
  <2>1. Recursion(f, 0, base, step)
    BY DEF Recursion
  <2>2. QED
    BY <2>1
<1>2. ASSUME NEW k \in 0 .. n, k \in with, k < n PROVE k + 1 \in with
  <2>. PICK g \in [0 .. k -> S] : Recursion(g, k, base, step)
    BY <1>2
  <2>. PICK more \in 1 .. n : more = k + 1
    BY <1>2
  <2>1. k \in 0 .. k /\ g[k] \in S
    OBVIOUS
  <2>. PICK last \in S : last = step[<<g[k], more>>]
    BY <2>1
  <2>. PICK f : f = [i \in 0 .. more |-> IF i = more THEN last ELSE g[i]]
    OBVIOUS
  <2>2. f[more] = last /\ \A i \in 0 .. k : f[i] = g[i]
    <3>1. more \in 0 .. more /\ \A i \in 0 .. k : i \in 0 .. more /\ i # more
      OBVIOUS
    <3>2. QED
      BY <3>1
  <2>3. f \in [0 .. more -> S]
    <3>1. ASSUME NEW i \in 0 .. more PROVE (IF i = more THEN last ELSE g[i]) \in S
      <4>1. i # more => i \in 0 .. k
        OBVIOUS
      <4>2. QED
        BY <4>1
    <3>2. QED
      BY <3>1
  <2>4. ASSUME NEW i \in 0 .. more
        PROVE  f[i] = IF i = 0 THEN base ELSE step[<<f[i - 1], i>>]
    <3>1. CASE i = more
      <4>1. i # 0 /\ i - 1 = k
        BY <3>1
      <4>2. QED
        BY <2>1, <2>2, <3>1, <4>1
    <3>2. CASE i # more
      <4>1. i \in 0 .. k /\ (i # 0 => i - 1 \in 0 .. k)
        BY <3>2
      <4>2. g[i] = IF i = 0 THEN base ELSE step[<<g[i - 1], i>>]
        BY <4>1 DEF Recursion
      <4>3. QED
        BY <2>2, <4>1, <4>2
    <3>3. QED
      BY <3>1, <3>2
  <2>5. Recursion(f, more, base, step)
    BY <2>4 DEF Recursion
  <2>6. QED
    BY <2>3, <2>5
<1>3. \A k \in 0 .. n : k \in with /\ k < n => k + 1 \in with
  BY <1>2
<1>. HIDE DEF with
<1>4. n \in with
  <2>1. \A k \in 0 .. n : k \in with
    BY <1>1, <1>3, Onward
  <2>2. QED
    BY <2>1
<1>5. QED
  BY <1>4 DEF with

-----------------------------------------------------------------------------
(* Compiling a route into commands. *)

(* One more voxel of a route, as the loop of buildRouteCommands takes it.   *)
Planned(before, u, w) ==
  IF w[3] - u[3] # 0
    THEN [before EXCEPT !.commands = @ \o Elevations(w[3] - u[3])]
    ELSE [commands |-> before.commands \o Rotations(before.heading, Bearing(w[1] - u[1], w[2] - u[2]))
                         \o Advances,
          heading |-> Bearing(w[1] - u[1], w[2] - u[2])]

(* What the loop has planned so far. *)
Plans == [commands : Seq(Orders), heading : 0 .. 359]

(* The commands for the pieces of a length are orders, *)
LEMMA LegsAreOrders ==
  ASSUME NEW total \in Nat \ {0}, NEW limit \in Nat, NEW type \in {"Rotate", "Advance", "Elevate"},
         NEW direction \in {"Left", "Right"}, NEW k \in Int, NEW legs, legs = Chunks(total, limit)
  PROVE  [i \in DOMAIN legs |-> Move(type, direction, k * legs[i])] \in Seq(Orders)
<1>1. PICK n \in Nat \ {0} : \E ends \in [0 .. n -> 0 .. total] : Pieces(legs, total, limit, n, ends)
  BY ChunksAre
<1>2. PICK ends \in [0 .. n -> 0 .. total] : Pieces(legs, total, limit, n, ends)
  BY <1>1
<1>3. DOMAIN legs = 1 .. n /\ \A i \in 1 .. n : legs[i] \in 1 .. total
  <2>1. legs \in Seq(1 .. total) /\ Len(legs) = n
    BY <1>2 DEF Pieces
  <2>2. QED
    BY ONLY <2>1, n \in Nat \ {0}, total \in Nat
<1>4. ASSUME NEW i \in 1 .. n PROVE Move(type, direction, k * legs[i]) \in Orders
  <2>. PICK amount \in Int : amount = k * legs[i]
    <3>. PICK x \in Int : x = legs[i]
      BY <1>3
    <3>1. k * x \in Int
      OBVIOUS
    <3>2. QED
      BY <3>1
  <2>1. PICK m \in Moves : Move(type, direction, amount) = Moving(m)
    BY ONLY type \in {"Rotate", "Advance", "Elevate"}, direction \in {"Left", "Right"},
            amount \in Int, MovesAre
  <2>2. QED
    BY <2>1 DEF Orders
<1>5. [i \in 1 .. n |-> Move(type, direction, k * legs[i])] \in Seq(Orders)
  BY <1>4
<1>6. QED
  BY <1>3, <1>5

(* which those of the three kinds are, *)
LEMMA CommandsAreOrders ==
  ASSUME config \in Configs
  PROVE  /\ Advances \in Seq(Orders)
         /\ \A sign \in Int : Elevations(sign) \in Seq(Orders)
         /\ \A from \in 0 .. 359, to \in 0 .. 359 : Rotations(from, to) \in Seq(Orders)
<1>. PICK total \in Nat \ {0} : total = OutputResolution
  BY Resolutions
<1>0. config.maxRotate \in Nat /\ config.maxAdvance \in Nat /\ config.maxElevate \in Nat
  BY MissionAssumption
<1>1. Advances \in Seq(Orders)
  <2>. PICK legs : legs = Chunks(total, config.maxAdvance)
    OBVIOUS
  <2>1. PICK n \in Nat \ {0} : \E ends \in [0 .. n -> 0 .. total] :
                                 Pieces(legs, total, config.maxAdvance, n, ends)
    BY ONLY <1>0, legs = Chunks(total, config.maxAdvance), total \in Nat \ {0}, ChunksAre
  <2>2. \A i \in DOMAIN legs : 1 * legs[i] = legs[i]
    BY <2>1 DEF Pieces
  <2>3. [i \in DOMAIN legs |-> Move("Advance", "Left", 1 * legs[i])] \in Seq(Orders)
    BY <1>0, LegsAreOrders
  <2>4. Advances = [i \in DOMAIN legs |-> Move("Advance", "Left", legs[i])]
    BY DEF Advances
  <2>5. Advances = [i \in DOMAIN legs |-> Move("Advance", "Left", 1 * legs[i])]
    BY <2>2, <2>4
  <2>6. QED
    BY <2>3, <2>5
<1>2. ASSUME NEW sign \in Int PROVE Elevations(sign) \in Seq(Orders)
  <2>. PICK legs : legs = Chunks(total, config.maxElevate)
    OBVIOUS
  <2>1. [i \in DOMAIN legs |-> Move("Elevate", "Left", sign * legs[i])] \in Seq(Orders)
    BY <1>0, LegsAreOrders
  <2>2. QED
    BY <2>1 DEF Elevations
<1>3. ASSUME NEW from \in 0 .. 359, NEW to \in 0 .. 359 PROVE Rotations(from, to) \in Seq(Orders)
  <2>. PICK delta \in Int : delta = ShortestSigned(to - from)
    BY DEF ShortestSigned
  <2>1. CASE delta = 0
    <3>1. Rotations(from, to) = << >>
      BY <2>1 DEF Rotations
    <3>2. QED
      BY <3>1
  <2>2. CASE delta # 0
    <3>. PICK turn \in Nat \ {0} : turn = IF delta < 0 THEN -delta ELSE delta
      BY <2>2
    <3>. PICK direction \in {"Left", "Right"} : direction = IF delta > 0 THEN "Left" ELSE "Right"
      OBVIOUS
    <3>. PICK legs : legs = Chunks(turn, config.maxRotate)
      OBVIOUS
    <3>1. PICK n \in Nat \ {0} : \E ends \in [0 .. n -> 0 .. turn] :
                                   Pieces(legs, turn, config.maxRotate, n, ends)
      BY ONLY <1>0, legs = Chunks(turn, config.maxRotate), turn \in Nat \ {0}, ChunksAre
    <3>2. \A i \in DOMAIN legs : 1 * legs[i] = legs[i]
      BY <3>1 DEF Pieces
    <3>3. [i \in DOMAIN legs |-> Move("Rotate", direction, 1 * legs[i])] \in Seq(Orders)
      BY <1>0, LegsAreOrders
    <3>4. Rotations(from, to) = [i \in DOMAIN legs |-> Move("Rotate", direction, legs[i])]
      BY <2>2 DEF Rotations
    <3>5. Rotations(from, to) = [i \in DOMAIN legs |-> Move("Rotate", direction, 1 * legs[i])]
      BY <3>2, <3>4
    <3>6. QED
      BY <3>3, <3>5
  <2>3. QED
    BY <2>1, <2>2
<1>4. QED
  BY <1>1, <1>2, <1>3

(* and so those for one more voxel of a route. *)
LEMMA PlannedType ==
  ASSUME config \in Configs, NEW before \in Plans, NEW u \in Positions, NEW w \in Positions
  PROVE  Planned(before, u, w) \in Plans
<1>. PICK sign \in Int : sign = w[3] - u[3]
  <2>1. w[3] \in Int /\ u[3] \in Int
    BY DEF Positions, Axes
  <2>2. QED
    BY <2>1
<1>. PICK target \in {0, 90, 180, 270} : target = Bearing(w[1] - u[1], w[2] - u[2])
  BY DEF Bearing
<1>1. before.commands \in Seq(Orders) /\ before.heading \in 0 .. 359 /\ target \in 0 .. 359
  BY DEF Plans
<1>2. CASE sign # 0
  <2>1. before.commands \o Elevations(sign) \in Seq(Orders)
    <3>1. Elevations(sign) \in Seq(Orders)
      BY ONLY config \in Configs, sign \in Int, CommandsAreOrders
    <3>2. QED
      BY ONLY <1>1, <3>1
  <2>2. QED
    BY <1>2, <2>1 DEF Planned, Plans
<1>3. CASE sign = 0
  <2>1. before.commands \o Rotations(before.heading, target) \o Advances \in Seq(Orders)
    <3>1. Rotations(before.heading, target) \in Seq(Orders) /\ Advances \in Seq(Orders)
      <4>. PICK h : h = before.heading
        OBVIOUS
      <4>1. h \in 0 .. 359
        BY ONLY <1>1, h = before.heading
      <4>2. Advances \in Seq(Orders) /\ Rotations(h, target) \in Seq(Orders)
        BY ONLY <1>1, <4>1, config \in Configs, CommandsAreOrders
      <4>3. QED
        BY ONLY <4>2, h = before.heading
    <3>2. QED
      BY ONLY <1>1, <3>1
  <2>2. QED
    BY ONLY <1>1, <1>3, <2>1, sign = w[3] - u[3], target = Bearing(w[1] - u[1], w[2] - u[2])
       DEF Planned, Plans
<1>4. QED
  BY <1>2, <1>3

(* A voxel a drone may be in. *)
Open(w) == InGrid(Output, w) /\ (VoxelsNest => Covered(w) \cap world = {})

(* Every place in such a voxel is free. *)
LEMMA OpenIsFree ==
  ASSUME config \in Configs, world \in WorldsOf(config), NEW q \in Positions,
         Open(IndexOf(Output, q))
  PROVE  Free(q)
<1>1. IsSolid(q) => ~(Covered(IndexOf(Output, q)) \cap world = {})
  BY SolidIsCovered
<1>2. QED
  BY <1>1 DEF Open, Free

(* A plan leads from a pose to a free place in a voxel. *)
Compiled(plan0, from, v) ==
  /\ plan0 \in Plans
  /\ \E p \in Positions : /\ Free(p) /\ IndexOf(Output, p) = v
                          /\ Flight(plan0.commands, from, [at |-> p, facing |-> plan0.heading])

(* A neighbour lies one voxel along an axis: the one buildRouteCommands    *)
(* would take.                                                             *)
LEMMA AdjacentIs ==
  ASSUME NEW u \in Positions, NEW w, AreAdjacent(u, w)
  PROVE  \E d \in UnitVectors :
           /\ w = PointAlongBeam(u, d, 1) /\ w \in Positions
           /\ \/ \E sign \in {1, -1} : d = <<0, 0, sign>> /\ w[3] - u[3] = sign
              \/ /\ w[3] - u[3] = 0 /\ Bearing(w[1] - u[1], w[2] - u[2]) \in {0, 90, 180, 270}
                 /\ d = Direction(Bearing(w[1] - u[1], w[2] - u[2]), 0)
<1>1. PICK d \in UnitVectors : w = PointAlongBeam(u, d, 1)
  <2>1. PICK i \in DOMAIN Neighbours : w = PointAlongBeam(u, Neighbours[i], 1)
    BY DEF AreAdjacent
  <2>2. Neighbours[i] \in UnitVectors
    BY DEF Neighbours, UnitVectors
  <2>3. QED
    BY <2>1, <2>2
<1>. d \in Positions
  BY UnitVectorFacts
<1>2. w \in Positions
  BY <1>1, PointType
<1>3. /\ w[1] - u[1] = d[1] /\ w[2] - u[2] = d[2] /\ w[3] - u[3] = d[3]
  <2>1. ASSUME NEW a \in Axes PROVE w[a] - u[a] = d[a]
    <3>. PICK x \in Int, y \in Int : x = u[a] /\ y = d[a]
      BY DEF Positions
    <3>1. w[a] = x + 1 * y
      BY <1>1 DEF PointAlongBeam
    <3>2. QED
      BY <3>1
  <2>2. QED
    BY <2>1 DEF Axes
<1>4. CASE d \in {<<0, 0, 1>>, <<0, 0, -1>>}
  <2>1. PICK sign \in {1, -1} : d = <<0, 0, sign>>
    BY <1>4
  <2>2. w[3] - u[3] = sign
    BY <1>3, <2>1
  <2>3. QED
    BY <1>1, <1>2, <2>1, <2>2
<1>5. CASE d \in {<<1, 0, 0>>, <<-1, 0, 0>>, <<0, 1, 0>>, <<0, -1, 0>>}
  <2>1. PICK x \in {0, 1, -1}, y \in {0, 1, -1} :
          d = <<x, y, 0>> /\ (x = 0 \/ y = 0) /\ ~(x = 0 /\ y = 0)
    BY <1>5
  <2>2. w[1] - u[1] = x /\ w[2] - u[2] = y /\ w[3] - u[3] = 0
    BY <1>3, <2>1
  <2>3. Bearing(x, y) \in {0, 90, 180, 270} /\ d = Direction(Bearing(x, y), 0)
    <3>1. CASE x = 1
      <4>1. Bearing(x, y) = 0
        BY <3>1 DEF Bearing
      <4>2. Direction(0, 0) = <<1, 0, 0>>
        BY DEF Direction
      <4>3. QED
        BY <2>1, <3>1, <4>1, <4>2
    <3>2. CASE x = -1
      <4>1. Bearing(x, y) = 180
        BY <3>2 DEF Bearing
      <4>2. Direction(180, 0) = <<-1, 0, 0>>
        BY DEF Direction
      <4>3. QED
        BY <2>1, <3>2, <4>1, <4>2
    <3>3. CASE y = 1
      <4>1. Bearing(x, y) = 90
        BY <2>1, <3>3 DEF Bearing
      <4>2. Direction(90, 0) = <<0, 1, 0>>
        BY DEF Direction
      <4>3. QED
        BY <2>1, <3>3, <4>1, <4>2
    <3>4. CASE y = -1
      <4>1. Bearing(x, y) = 270
        BY <2>1, <3>4 DEF Bearing
      <4>2. Direction(270, 0) = <<0, -1, 0>>
        BY DEF Direction
      <4>3. QED
        BY <2>1, <3>4, <4>1, <4>2
    <3>5. QED
      BY <2>1, <3>1, <3>2, <3>3, <3>4
  <2>4. QED
    BY <1>1, <1>2, <2>2, <2>3
<1>6. QED
  BY <1>4, <1>5 DEF UnitVectors

(* One more voxel of a route leads on to it. *)
LEMMA HopOnward ==
  ASSUME config \in Configs, world \in WorldsOf(config), NEW before, NEW from,
         NEW u \in Positions, Compiled(before, from, u), NEW w, AreAdjacent(u, w), Open(w)
  PROVE  Compiled(Planned(before, u, w), from, w) /\ Planned(before, u, w).commands # << >>
<1>1. before \in Plans /\ before.commands \in Seq(Orders) /\ before.heading \in 0 .. 359
  BY DEF Compiled, Plans
<1>. PICK h \in 0 .. 359 : h = before.heading
  BY <1>1
<1>2. PICK p \in Positions : /\ Free(p) /\ IndexOf(Output, p) = u
                             /\ Flight(before.commands, from, [at |-> p, facing |-> h])
  BY DEF Compiled
<1>3. PICK d \in UnitVectors :
        /\ w = PointAlongBeam(u, d, 1) /\ w \in Positions
        /\ \/ \E sign \in {1, -1} : d = <<0, 0, sign>> /\ w[3] - u[3] = sign
           \/ /\ w[3] - u[3] = 0 /\ Bearing(w[1] - u[1], w[2] - u[2]) \in {0, 90, 180, 270}
              /\ d = Direction(Bearing(w[1] - u[1], w[2] - u[2]), 0)
  BY AdjacentIs
<1>. d \in Positions
  BY UnitVectorFacts
<1>. PICK r \in Nat \ {0} : r = OutputResolution
  BY Resolutions
<1>. PICK q \in Positions : q = PointAlongBeam(p, d, r)
  BY PointType
<1>4. IndexOf(Output, q) = w
  <2>1. r \in 0 .. OutputResolution
    OBVIOUS
  <2>2. IndexOf(Output, PointAlongBeam(p, d, OutputResolution)) = PointAlongBeam(IndexOf(Output, p), d, 1)
    BY <2>1, NextVoxel
  <2>3. QED
    BY <1>2, <1>3, <2>2
<1>5. Free(q)
  BY <1>4, OpenIsFree
<1>. PICK after : after = Planned(before, u, w)
  OBVIOUS
<1>6. after \in Plans
  BY <1>1, <1>3, PlannedType
<1>7. CASE \E sign \in {1, -1} : d = <<0, 0, sign>> /\ w[3] - u[3] = sign
  <2>1. PICK sign \in {1, -1} : d = <<0, 0, sign>> /\ w[3] - u[3] = sign
    BY <1>7
  <2>. PICK climb : climb = Elevations(sign)
    OBVIOUS
  <2>2. after.commands = before.commands \o climb /\ after.heading = h
    <3>1. after = [before EXCEPT !.commands = @ \o climb]
      <4>1. w[3] - u[3] # 0
        BY <2>1
      <4>2. climb = Elevations(w[3] - u[3])
        BY <2>1
      <4>3. QED
        BY ONLY <4>1, <4>2, after = Planned(before, u, w) DEF Planned
    <3>2. QED
      BY <1>1, <3>1 DEF Plans
  <2>3. Flight(climb, [at |-> p, facing |-> h], [at |-> q, facing |-> h]) /\ climb # << >>
    <3>1. h \in 0 .. 359 /\ Free(p) /\ q = PointAlongBeam(p, <<0, 0, sign>>, OutputResolution)
      BY <1>2, <2>1
    <3>2. Free(PointAlongBeam(p, <<0, 0, sign>>, OutputResolution))
      BY ONLY <1>5, <3>1
    <3>3. QED
      BY ONLY <3>1, <3>2, config \in Configs, world \in WorldsOf(config), p \in Positions,
              sign \in {1, -1}, climb = Elevations(sign), ElevationsLead
  <2>4. Flight(after.commands, from, [at |-> q, facing |-> h])
    BY <1>2, <2>2, <2>3, FlightOnward
  <2>5. after.commands # << >>
    <3>1. climb \in Seq(Orders)
      BY <2>3 DEF Flight, Tracks
    <3>2. QED
      BY <1>1, <2>2, <2>3, <3>1
  <2>6. QED
    BY <1>4, <1>5, <1>6, <2>2, <2>4, <2>5 DEF Compiled
<1>8. CASE /\ w[3] - u[3] = 0 /\ Bearing(w[1] - u[1], w[2] - u[2]) \in {0, 90, 180, 270}
           /\ d = Direction(Bearing(w[1] - u[1], w[2] - u[2]), 0)
  <2>. PICK target \in {0, 90, 180, 270} : target = Bearing(w[1] - u[1], w[2] - u[2])
    BY <1>8
  <2>. PICK turns : turns = Rotations(h, target)
    OBVIOUS
  <2>1. after = [commands |-> before.commands \o turns \o Advances, heading |-> target]
    BY <1>8 DEF Planned
  <2>2. Flight(turns, [at |-> p, facing |-> h], [at |-> p, facing |-> target])
    <3>1. target \in 0 .. 359
      OBVIOUS
    <3>2. QED
      BY ONLY <1>2, <3>1, config \in Configs, p \in Positions, h \in 0 .. 359,
              turns = Rotations(h, target), RotationsLead
  <2>3. /\ Flight(Advances, [at |-> p, facing |-> target], [at |-> q, facing |-> target])
        /\ Advances # << >>
    <3>1. d = Direction(target, 0)
      BY <1>8
    <3>2. q = PointAlongBeam(p, Direction(target, 0), OutputResolution)
      BY <3>1
    <3>3. Free(PointAlongBeam(p, Direction(target, 0), OutputResolution))
      BY <1>5, <3>2
    <3>4. Free(p)
      BY <1>2
    <3>5. Crosses(p, target)
      BY ONLY <3>3, <3>4, config \in Configs, world \in WorldsOf(config), p \in Positions,
              target \in {0, 90, 180, 270}, AdvancesLead
    <3>6. QED
      BY ONLY <3>2, <3>5 DEF Crosses
  <2>4. Flight(before.commands \o turns, from, [at |-> p, facing |-> target])
    BY <1>2, <2>2, FlightOnward
  <2>5. Flight(after.commands, from, [at |-> q, facing |-> target])
    BY <2>1, <2>3, <2>4, FlightOnward
  <2>6. after.commands # << >>
    <3>1. Advances \in Seq(Orders) /\ before.commands \o turns \in Seq(Orders)
      BY <2>3, <2>4 DEF Flight, Tracks
    <3>2. (before.commands \o turns) \o Advances # << >>
      BY <2>3, <3>1
    <3>3. QED
      BY <2>1, <3>2
  <2>7. QED
    <3>1. after.heading = target
      BY ONLY <2>1
    <3>2. QED
      BY ONLY <1>4, <1>5, <1>6, <2>5, <2>6, <3>1, q \in Positions, after = Planned(before, u, w) DEF Compiled
<1>9. QED
  BY <1>3, <1>7, <1>8

-----------------------------------------------------------------------------
(* The routes of the search. *)

(* A way from the drone's voxel, from voxel to adjacent voxel, all but the  *)
(* first mapped empty.                                                      *)
Ways ==
  {r \in Seq(Positions) :
     /\ r # << >> /\ r[1] = Current
     /\ \A i \in 1 .. Len(r) - 1 :
          AreAdjacent(r[i], r[i + 1]) /\ r[i + 1] \in DOMAIN map /\ map[r[i + 1]] = "Empty"}

(* The output map has finitely many voxels, each a triple. *)
LEMMA OutputVoxels ==
  ASSUME config \in Configs
  PROVE  Voxels(Output) \subseteq Positions /\ IsFiniteSet(Voxels(Output))
<1>1. Voxels(Output) \subseteq Positions
  <2>1. Output.size \in [Axes -> Int]
    BY Grids
  <2>2. QED
    BY <2>1, VoxelsAreTriples
<1>2. IsFiniteSet(Voxels(Output))
  <2>. PICK x \in Int, y \in Int, z \in Int :
         x = Output.size[1] - 1 /\ y = Output.size[2] - 1 /\ z = Output.size[3] - 1
    <3>1. Output.size[1] \in Nat /\ Output.size[2] \in Nat /\ Output.size[3] \in Nat
      BY Grids DEF Axes
    <3>2. QED
      BY <3>1
  <2>. PICK X, Y, Z : X = 0 .. x /\ Y = 0 .. y /\ Z = 0 .. z
    OBVIOUS
  <2>1. IsFiniteSet(X) /\ IsFiniteSet(Y) /\ IsFiniteSet(Z)
    <3>1. ASSUME NEW b \in Int PROVE IsFiniteSet(0 .. b)
      BY FS_Interval
    <3>2. QED
      BY <3>1
  <2>2. IsFiniteSet((X \X Y) \X Z)
    <3>1. IsFiniteSet(X \X Y)
      BY ONLY <2>1, FS_Product
    <3>2. QED
      BY ONLY <2>1, <3>1, FS_Product
  <2>3. Voxels(Output) = {<<p[1][1], p[1][2], p[2]>> : p \in (X \X Y) \X Z}
    <3>1. Voxels(Output) = X \X Y \X Z
      BY DEF Voxels
    <3>2. ASSUME NEW v \in X \X Y \X Z PROVE v \in {<<p[1][1], p[1][2], p[2]>> : p \in (X \X Y) \X Z}
      <4>1. PICK a \in X, b \in Y, c \in Z : v = <<a, b, c>>
        OBVIOUS
      <4>2. <<<<a, b>>, c>> \in (X \X Y) \X Z
        OBVIOUS
      <4>. PICK p \in (X \X Y) \X Z : p = <<<<a, b>>, c>>
        BY <4>2
      <4>3. <<p[1][1], p[1][2], p[2]>> = v
        BY <4>1
      <4>4. QED
        BY <4>3
    <3>3. ASSUME NEW p \in (X \X Y) \X Z PROVE <<p[1][1], p[1][2], p[2]>> \in X \X Y \X Z
      OBVIOUS
    <3>4. QED
      BY <3>1, <3>2, <3>3
  <2>. PICK P : P = (X \X Y) \X Z
    OBVIOUS
  <2>. PICK f : f = [p \in P |-> <<p[1][1], p[1][2], p[2]>>]
    OBVIOUS
  <2>4. f \in Surjection(P, Voxels(Output))
    BY ONLY <2>3, P = (X \X Y) \X Z, f = [p \in P |-> <<p[1][1], p[1][2], p[2]>>] DEF Surjection
  <2>5. QED
    BY <2>2, <2>4, FS_Surjection
<1>3. QED
  BY <1>1, <1>2

(* A way goes on to a neighbour that is mapped empty. *)
LEMMA WayOnward ==
  ASSUME config \in Configs, DOMAIN map = Voxels(Output), NEW r \in Ways, NEW w \in DOMAIN map,
         map[w] = "Empty", AreAdjacent(Last(r), w)
  PROVE  Append(r, w) \in Ways /\ Last(Append(r, w)) = w
<1>1. w \in Positions
  BY OutputVoxels
<1>2. /\ r \in Seq(Positions) /\ r # << >> /\ r[1] = Current
      /\ \A i \in 1 .. Len(r) - 1 :
           AreAdjacent(r[i], r[i + 1]) /\ r[i + 1] \in DOMAIN map /\ map[r[i + 1]] = "Empty"
  BY DEF Ways
<1>. PICK n \in Nat \ {0} : n = Len(r)
  BY <1>2
<1>. PICK t : t = Append(r, w)
  OBVIOUS
<1>3. /\ t \in Seq(Positions) /\ Len(t) = n + 1 /\ t[n + 1] = w
      /\ \A i \in 1 .. n : t[i] = r[i]
  BY <1>1, <1>2
<1>4. Last(r) = r[n] /\ Last(t) = w
  BY <1>3 DEF Last
<1>5. ASSUME NEW i \in 1 .. Len(t) - 1
      PROVE  AreAdjacent(t[i], t[i + 1]) /\ t[i + 1] \in DOMAIN map /\ map[t[i + 1]] = "Empty"
  <2>1. i \in 1 .. n
    BY <1>3
  <2>2. CASE i = n
    BY <1>3, <1>4, <2>1, <2>2
  <2>3. CASE i # n
    <3>1. i \in 1 .. n - 1 /\ i + 1 \in 1 .. n
      BY <2>1, <2>3
    <3>2. AreAdjacent(r[i], r[i + 1]) /\ r[i + 1] \in DOMAIN map /\ map[r[i + 1]] = "Empty"
      BY <1>2, <3>1
    <3>3. t[i] = r[i] /\ t[i + 1] = r[i + 1]
      BY <1>3, <2>1, <3>1
    <3>4. QED
      BY <3>2, <3>3
  <2>4. QED
    BY <2>2, <2>3
<1>6. t # << >> /\ t[1] = Current
  BY <1>2, <1>3
<1>7. QED
  BY <1>3, <1>4, <1>5, <1>6 DEF Ways

(* The search, unfolded: what is within each distance, and the ways that     *)
(* lead there (planRouteToFrontier).                                         *)
Search(most, within, routes) ==
  /\ most = Cardinality({w \in DOMAIN map : Flyable(w)})
  /\ within \in [0 .. most -> SUBSET Positions] /\ within[0] = {Current}
  /\ \A n \in 1 .. most :
       within[n] = within[n - 1] \cup {w \in DOMAIN map : /\ map[w] = "Empty"
                                                          /\ \E v \in within[n - 1] : AreAdjacent(v, w)}
  /\ routes \in [0 .. most -> SUBSET Ways] /\ routes[0] = {<<Current>>}
  /\ \A n \in 1 .. most : \A r \in routes[n - 1], w \in within[n] \ within[n - 1] :
       AreAdjacent(Last(r), w) => Append(r, w) \in routes[n]
  /\ LET distances == {n \in 0 .. most : \E v \in within[n] : IsTarget(v)}
     IN NearestRoutes = IF distances = {} THEN {}
                        ELSE {r \in routes[Min(distances)] : IsTarget(Last(r))}

(* So NearestRoutes is computed.                                             *)
LEMMA SearchUnfolds ==
  ASSUME config \in Configs, DOMAIN map = Voxels(Output), position \in Positions
  PROVE  \E most \in Nat : \E within, routes : Search(most, within, routes)
<1>. DEFINE flyable == {w \in DOMAIN map : Flyable(w)}
            within == CHOOSE within :
              within = [n \in 0 .. Cardinality(flyable) |->
                IF n = 0 THEN {Current}
                ELSE LET nearer == within[n - 1]
                     IN nearer \cup {w \in flyable : \E v \in nearer : AreAdjacent(v, w)}]
            distances == {n \in DOMAIN within : \E v \in within[n] : IsTarget(v)}
            routes == CHOOSE routes :
              routes = [n \in DOMAIN within |->
                IF n = 0 THEN {<<Current>>}
                ELSE UNION {{Append(r, w) : w \in {x \in within[n] \ within[n - 1] : AreAdjacent(Last(r), x)}} :
                              r \in routes[n - 1]}]
<1>1. NearestRoutes = IF distances = {} THEN {} ELSE {r \in routes[Min(distances)] : IsTarget(Last(r))}
  BY DEF NearestRoutes
<1>. PICK most \in Nat : most = Cardinality(flyable)
  <2>1. IsFiniteSet(flyable)
    <3>1. flyable \subseteq Voxels(Output)
      OBVIOUS
    <3>2. QED
      BY <3>1, OutputVoxels, FS_Subset
  <2>2. QED
    BY <2>1, FS_CardinalityType
<1>2. Current \in Positions
  BY IndexType DEF Current
<1>3. within = [n \in 0 .. most |->
                 IF n = 0 THEN {Current}
                 ELSE within[n - 1] \cup {w \in flyable : \E v \in within[n - 1] : AreAdjacent(v, w)}]
  <2>. DEFINE Grown(near) == near \cup {w \in flyable : \E v \in near : AreAdjacent(v, w)}
              S == SUBSET Positions
              step == [a \in S \X (1 .. most) |-> Grown(a[1])]
  <2>1. flyable \subseteq Positions
    BY OutputVoxels
  <2>2. \A near \in S : Grown(near) \in S
    BY <2>1
  <2>3. step \in [S \X (1 .. most) -> S]
    BY <2>2
  <2>4. {Current} \in S
    BY <1>2
  <2>. HIDE DEF Grown, step, S
  <2>5. PICK f \in [0 .. most -> S] : Recursion(f, most, {Current}, step)
    BY <2>3, <2>4, RecursionExists
  <2>6. \A i \in 0 .. most : f[i] = IF i = 0 THEN {Current} ELSE step[<<f[i - 1], i>>]
    BY <2>5 DEF Recursion
  <2>7. ASSUME NEW i \in 0 .. most, i # 0 PROVE step[<<f[i - 1], i>>] = Grown(f[i - 1])
    <3>1. i - 1 \in 0 .. most /\ i \in 1 .. most
      BY <2>7
    <3>2. f[i - 1] \in S
      BY <3>1
    <3>3. <<f[i - 1], i>> \in S \X (1 .. most)
      BY <3>1, <3>2
    <3>4. QED
      BY <3>3 DEF step
  <2>8. f = [i \in 0 .. most |-> IF i = 0 THEN {Current} ELSE Grown(f[i - 1])]
    <3>. PICK g : g = [i \in 0 .. most |-> IF i = 0 THEN {Current} ELSE Grown(f[i - 1])]
      OBVIOUS
    <3>1. \A i \in 0 .. most : f[i] = g[i]
      BY <2>6, <2>7
    <3>2. g = [i \in 0 .. most |-> g[i]] /\ f = [i \in 0 .. most |-> f[i]]
      OBVIOUS
    <3>3. f = g
      BY <3>1, <3>2
    <3>4. QED
      BY <3>3
  <2>9. QED
    <3>. DEFINE Is(g) ==
           g = [n \in 0 .. most |->
                  IF n = 0 THEN {Current}
                  ELSE g[n - 1] \cup {w \in flyable : \E v \in g[n - 1] : AreAdjacent(v, w)}]
    <3>1. Is(f)
      BY ONLY <2>8 DEF Grown
    <3>2. within = CHOOSE g : Is(g)
      BY ONLY most = Cardinality(flyable)
    <3>. HIDE DEF Is, within
    <3>3. Is(within)
      BY ONLY <3>1, <3>2
    <3>4. QED
      BY ONLY <3>3 DEF Is
<1>4. DOMAIN within = 0 .. most
  <2>. HIDE DEF within
  <2>1. QED
    BY <1>3
<1>5. ASSUME NEW n \in 1 .. most PROVE within[n] \ within[n - 1] \subseteq flyable
  <2>. HIDE DEF within, flyable
  <2>1. n \in 0 .. most /\ n # 0
    OBVIOUS
  <2>2. within[n] = within[n - 1] \cup {w \in flyable : \E v \in within[n - 1] : AreAdjacent(v, w)}
    BY <1>3, <2>1
  <2>3. QED
    BY <2>2
<1>. HIDE DEF within
<1>. DEFINE Longer(rs, n) ==
       UNION {{Append(r, w) : w \in {x \in within[n] \ within[n - 1] : AreAdjacent(Last(r), x)}} : r \in rs}
<1>6. ASSUME NEW rs \in SUBSET Ways, NEW n \in 1 .. most PROVE Longer(rs, n) \in SUBSET Ways
  <2>1. ASSUME NEW r \in rs, NEW x \in within[n] \ within[n - 1], AreAdjacent(Last(r), x)
        PROVE  Append(r, x) \in Ways
    <3>1. x \in flyable /\ r \in Ways
      BY <1>5
    <3>2. x \in DOMAIN map /\ map[x] = "Empty"
      BY <3>1 DEF Flyable
    <3>3. QED
      BY <2>1, <3>1, <3>2, WayOnward
  <2>2. ASSUME NEW q \in Longer(rs, n) PROVE q \in Ways
    <3>1. PICK r \in rs, x \in within[n] \ within[n - 1] :
            AreAdjacent(Last(r), x) /\ q = Append(r, x)
      BY <2>2
    <3>2. QED
      BY <2>1, <3>1
  <2>. HIDE DEF Longer
  <2>3. QED
    BY <2>2
<1>7. {<<Current>>} \in SUBSET Ways
  BY <1>2 DEF Ways
<1>. HIDE DEF Longer
<1>8. routes = [n \in 0 .. most |-> IF n = 0 THEN {<<Current>>} ELSE Longer(routes[n - 1], n)]
  <2>. DEFINE S == SUBSET Ways
              step == [a \in S \X (1 .. most) |-> Longer(a[1], a[2])]
  <2>1. step \in [S \X (1 .. most) -> S]
    BY <1>6
  <2>2. {<<Current>>} \in S
    BY <1>7
  <2>. HIDE DEF step, S
  <2>3. PICK f \in [0 .. most -> S] : Recursion(f, most, {<<Current>>}, step)
    BY <2>1, <2>2, RecursionExists
  <2>4. \A i \in 0 .. most : f[i] = IF i = 0 THEN {<<Current>>} ELSE step[<<f[i - 1], i>>]
    BY <2>3 DEF Recursion
  <2>5. ASSUME NEW i \in 0 .. most, i # 0 PROVE step[<<f[i - 1], i>>] = Longer(f[i - 1], i)
    <3>1. i - 1 \in 0 .. most /\ i \in 1 .. most
      BY <2>5
    <3>2. f[i - 1] \in S
      BY <3>1
    <3>3. <<f[i - 1], i>> \in S \X (1 .. most)
      BY <3>1, <3>2
    <3>4. QED
      BY <3>3 DEF step
  <2>6. f = [i \in 0 .. most |-> IF i = 0 THEN {<<Current>>} ELSE Longer(f[i - 1], i)]
    <3>. PICK g : g = [i \in 0 .. most |-> IF i = 0 THEN {<<Current>>} ELSE Longer(f[i - 1], i)]
      OBVIOUS
    <3>1. \A i \in 0 .. most : f[i] = g[i]
      BY <2>4, <2>5
    <3>2. g = [i \in 0 .. most |-> g[i]] /\ f = [i \in 0 .. most |-> f[i]]
      OBVIOUS
    <3>3. f = g
      BY <3>1, <3>2
    <3>4. QED
      BY <3>3
  <2>7. \E x : x = [n \in DOMAIN within |-> IF n = 0 THEN {<<Current>>} ELSE Longer(x[n - 1], n)]
    BY <1>4, <2>6
  <2>8. routes = [n \in DOMAIN within |-> IF n = 0 THEN {<<Current>>} ELSE Longer(routes[n - 1], n)]
    BY <2>7 DEF Longer
  <2>9. QED
    BY <1>4, <2>8
<1>. HIDE DEF routes
<1>9. \A k \in 0 .. most : routes[k] \in SUBSET Ways
  <2>. DEFINE with == {k \in 0 .. most : routes[k] \in SUBSET Ways}
  <2>1. 0 \in with
    BY <1>7, <1>8
  <2>2. ASSUME NEW k \in 0 .. most, k \in with, k < most PROVE k + 1 \in with
    <3>. PICK n \in 1 .. most : n = k + 1
      BY ONLY <2>2, k \in 0 .. most, most \in Nat
    <3>1. n \in 0 .. most /\ n # 0 /\ n - 1 = k
      OBVIOUS
    <3>2. routes[n] = Longer(routes[k], n)
      BY <1>8, <3>1
    <3>3. QED
      BY <1>6, <2>2, <3>1, <3>2
  <2>3. \A k \in 0 .. most : k \in with /\ k < most => k + 1 \in with
    BY <2>2
  <2>. HIDE DEF with
  <2>4. \A k \in 0 .. most : k \in with
    BY <2>1, <2>3, Onward
  <2>5. QED
    BY <2>4 DEF with
<1>10. within \in [0 .. most -> SUBSET Positions]
  <2>1. \A k \in 0 .. most : within[k] \in SUBSET Positions
    <3>. DEFINE with == {k \in 0 .. most : within[k] \in SUBSET Positions}
    <3>1. 0 \in with
      BY <1>2, <1>3
    <3>2. ASSUME NEW k \in 0 .. most, k \in with, k < most PROVE k + 1 \in with
      <4>. PICK n \in 1 .. most : n = k + 1
        BY ONLY <3>2, k \in 0 .. most, most \in Nat
      <4>1. n \in 0 .. most /\ n - 1 = k
        OBVIOUS
      <4>2. within[n] \ within[k] \subseteq flyable
        BY <1>5, <4>1
      <4>3. flyable \subseteq Positions
        BY OutputVoxels
      <4>4. QED
        BY <3>2, <4>1, <4>2, <4>3
    <3>3. \A k \in 0 .. most : k \in with /\ k < most => k + 1 \in with
      BY <3>2
    <3>. HIDE DEF with
    <3>4. \A k \in 0 .. most : k \in with
      BY <3>1, <3>3, Onward
    <3>5. QED
      BY <3>4 DEF with
  <2>2. QED
    BY <1>3, <2>1
<1>11. within[0] = {Current} /\ routes[0] = {<<Current>>}
  BY <1>3, <1>8
<1>12. ASSUME NEW n \in 1 .. most
       PROVE  within[n] = within[n - 1] \cup {w \in DOMAIN map : /\ map[w] = "Empty"
                                                                 /\ \E v \in within[n - 1] : AreAdjacent(v, w)}
  <2>1. n \in 0 .. most /\ n # 0
    OBVIOUS
  <2>2. within[n] = within[n - 1] \cup {w \in flyable : \E v \in within[n - 1] : AreAdjacent(v, w)}
    BY <1>3, <2>1
  <2>3. QED
    BY <2>2 DEF Flyable
<1>13. routes \in [0 .. most -> SUBSET Ways]
  BY <1>8, <1>9
<1>14. ASSUME NEW n \in 1 .. most, NEW r \in routes[n - 1], NEW w \in within[n] \ within[n - 1],
              AreAdjacent(Last(r), w)
       PROVE  Append(r, w) \in routes[n]
  <2>1. n \in 0 .. most /\ n # 0
    OBVIOUS
  <2>2. routes[n] = Longer(routes[n - 1], n)
    BY <1>8, <2>1
  <2>3. QED
    BY <1>14, <2>2 DEF Longer
<1>15. Search(most, within, routes)
  <2>. HIDE DEF flyable
  <2>1. most = Cardinality({w \in DOMAIN map : Flyable(w)})
    BY DEF flyable
  <2>2. NearestRoutes = IF distances = {} THEN {} ELSE {r \in routes[Min(distances)] : IsTarget(Last(r))}
    BY <1>1
  <2>3. distances = {n \in 0 .. most : \E v \in within[n] : IsTarget(v)}
    BY <1>4
  <2>4. QED
    BY <1>10, <1>11, <1>12, <1>13, <1>14, <2>1, <2>2, <2>3 DEF Search
<1>16. QED
  BY <1>15

(* Every route the search may return is a way, and leads elsewhere         *)
(* (planRouteToFrontier).                                                  *)
LEMMA RoutesAreWays ==
  ASSUME config \in Configs, DOMAIN map = Voxels(Output), position \in Positions,
         NEW route \in NearestRoutes
  PROVE  route \in Ways /\ Last(route) # Current
<1>. PICK most \in Nat : \E within, routes : Search(most, within, routes)
  BY SearchUnfolds
<1>1. PICK within, routes : Search(most, within, routes)
  OBVIOUS
<1>. DEFINE distances == {n \in 0 .. most : \E v \in within[n] : IsTarget(v)}
<1>2. distances # {} /\ route \in routes[Min(distances)] /\ IsTarget(Last(route))
  BY <1>1 DEF Search
<1>3. Min(distances) \in 0 .. most
  <2>1. distances \subseteq Nat /\ distances \subseteq 0 .. most
    OBVIOUS
  <2>. HIDE DEF distances
  <2>2. Min(distances) \in distances
    BY <1>2, <2>1, MinIsLeast
  <2>3. QED
    BY <2>1, <2>2
<1>4. QED
  BY <1>1, <1>2, <1>3 DEF Search, IsTarget

(* What is mapped empty is open. *)
LEMMA EmptyIsOpen ==
  ASSUME config \in Configs, DOMAIN map = Voxels(Output), IsTrue(map), NEW w \in DOMAIN map,
         map[w] = "Empty"
  PROVE  Open(w)
<1>1. InGrid(Output, w)
  <2>1. Output.size \in [Axes -> Int]
    BY Grids
  <2>2. QED
    BY <2>1, VoxelsAreTriples
<1>2. QED
  BY <1>1 DEF IsTrue, Open

(* The commands for a way, compiled ahead of the flight, lead to where it  *)
(* ends (buildRouteCommands).                                              *)
LEMMA RouteCommandsLead ==
  ASSUME config \in Configs, world \in WorldsOf(config), DOMAIN map = Voxels(Output),
         position \in Positions, heading \in 0 .. 359, Free(position), IsTrue(map),
         NEW route \in Ways, Last(route) # Current,
         NEW commands, commands = BuildRouteCommands(route)
  PROVE  /\ commands # << >>
         /\ \E to \in Pose : /\ Flight(commands, [at |-> position, facing |-> heading], to)
                             /\ IndexOf(Output, to.at) = Last(route)
<1>. PICK base : base = [commands |-> << >>, heading |-> heading]
  OBVIOUS
<1>. PICK from \in Pose : from = [at |-> position, facing |-> heading]
  BY DEF Pose
<1>1. /\ route \in Seq(Positions) /\ route # << >> /\ route[1] = Current
      /\ \A i \in 1 .. Len(route) - 1 :
           AreAdjacent(route[i], route[i + 1]) /\ route[i + 1] \in DOMAIN map /\ map[route[i + 1]] = "Empty"
  BY DEF Ways
<1>2. Len(route) \in Nat \ {0} /\ Last(route) = route[Len(route)]
  BY <1>1 DEF Last
<1>. PICK length \in Nat \ {0} : length = Len(route)
  BY ONLY <1>2
<1>. PICK n \in Nat : n = length - 1
  BY ONLY length \in Nat \ {0}
<1>3. n # 0
  <2>1. n = 0 => length = 1
    BY ONLY n = length - 1, length \in Nat \ {0}
  <2>2. n = 0 => Last(route) = route[1]
    BY <1>2, <2>1
  <2>3. QED
    BY <1>1, <2>2
<1>4. ASSUME NEW i \in 1 .. n
      PROVE  /\ route[i] \in Positions /\ route[i + 1] \in Positions
             /\ AreAdjacent(route[i], route[i + 1]) /\ Open(route[i + 1])
  <2>1. i \in 1 .. Len(route) /\ i + 1 \in 1 .. Len(route) /\ i \in 1 .. Len(route) - 1
    BY <1>2
  <2>2. route[i] \in Positions /\ route[i + 1] \in Positions
    BY ONLY <1>1, <2>1
  <2>3. AreAdjacent(route[i], route[i + 1]) /\ Open(route[i + 1])
    BY <1>1, <2>1, EmptyIsOpen
  <2>4. QED
    BY <2>2, <2>3
<1>. DEFINE planned == CHOOSE planned :
       planned = [i \in 0 .. Len(route) - 1 |->
         IF i = 0 THEN [commands |-> <<>>, heading |-> heading]
         ELSE LET before == planned[i - 1]
                  target == Bearing(route[i + 1][1] - route[i][1], route[i + 1][2] - route[i][2])
              IN IF route[i + 1][3] - route[i][3] # 0
                 THEN [before EXCEPT !.commands = @ \o Elevations(route[i + 1][3] - route[i][3])]
                 ELSE [commands |-> before.commands \o Rotations(before.heading, target) \o Advances,
                       heading |-> target]]
<1>5. commands = planned[n].commands
  BY DEF BuildRouteCommands
<1>6. planned = [i \in 0 .. n |-> IF i = 0 THEN base ELSE Planned(planned[i - 1], route[i], route[i + 1])]
  <2>. DEFINE step == [a \in Plans \X (1 .. n) |-> Planned(a[1], route[a[2]], route[a[2] + 1])]
  <2>1. step \in [Plans \X (1 .. n) -> Plans]
    <3>1. ASSUME NEW x \in Plans, NEW i \in 1 .. n PROVE Planned(x, route[i], route[i + 1]) \in Plans
      BY <1>4, PlannedType
    <3>2. QED
      BY <3>1
  <2>2. base \in Plans
    <3>1. << >> \in Seq(Orders)
      OBVIOUS
    <3>2. QED
      BY <3>1 DEF Plans
  <2>. HIDE DEF step
  <2>3. PICK f \in [0 .. n -> Plans] : Recursion(f, n, base, step)
    BY <2>1, <2>2, RecursionExists
  <2>4. \A i \in 0 .. n : f[i] = IF i = 0 THEN base ELSE step[<<f[i - 1], i>>]
    BY <2>3 DEF Recursion
  <2>5. ASSUME NEW i \in 0 .. n, i # 0
        PROVE  step[<<f[i - 1], i>>] = Planned(f[i - 1], route[i], route[i + 1])
    <3>1. i - 1 \in 0 .. n /\ i \in 1 .. n
      BY <2>5
    <3>2. f[i - 1] \in Plans
      BY <3>1
    <3>3. <<f[i - 1], i>> \in Plans \X (1 .. n)
      BY <3>1, <3>2
    <3>4. QED
      BY <3>3 DEF step
  <2>6. f = [i \in 0 .. n |-> IF i = 0 THEN base ELSE Planned(f[i - 1], route[i], route[i + 1])]
    <3>. PICK g : g = [i \in 0 .. n |-> IF i = 0 THEN base ELSE Planned(f[i - 1], route[i], route[i + 1])]
      OBVIOUS
    <3>1. \A i \in 0 .. n : f[i] = g[i]
      BY <2>4, <2>5
    <3>2. g = [i \in 0 .. n |-> g[i]] /\ f = [i \in 0 .. n |-> f[i]]
      OBVIOUS
    <3>3. f = g
      BY <3>1, <3>2
    <3>4. QED
      BY <3>3
  <2>7. \E x : x = [i \in 0 .. Len(route) - 1 |->
                      IF i = 0 THEN [commands |-> <<>>, heading |-> heading]
                      ELSE Planned(x[i - 1], route[i], route[i + 1])]
    <3>1. Len(route) - 1 = n
      OBVIOUS
    <3>2. QED
      BY ONLY <2>6, <3>1, base = [commands |-> <<>>, heading |-> heading]
  <2>8. planned = [i \in 0 .. Len(route) - 1 |->
                      IF i = 0 THEN [commands |-> <<>>, heading |-> heading]
                      ELSE Planned(planned[i - 1], route[i], route[i + 1])]
    BY <2>7 DEF Planned
  <2>. HIDE DEF planned
  <2>9. n = Len(route) - 1
    OBVIOUS
  <2>10. QED
    BY ONLY <2>8, <2>9, base = [commands |-> << >>, heading |-> heading]
<1>. HIDE DEF planned
<1>7. planned[0] = base /\ Compiled(base, from, Current)
  <2>1. planned[0] = base
    <3>1. 0 \in 0 .. n
      OBVIOUS
    <3>2. QED
      BY <1>6, <3>1
  <2>2. Flight(base.commands, from, [at |-> position, facing |-> base.heading])
    BY NoFlight
  <2>3. base \in Plans
    <3>1. << >> \in Seq(Orders)
      OBVIOUS
    <3>2. QED
      BY <3>1 DEF Plans
  <2>4. QED
    BY <2>1, <2>2, <2>3 DEF Compiled, Current
<1>8. ASSUME NEW i \in 1 .. n, Compiled(planned[i - 1], from, route[i])
      PROVE  Compiled(planned[i], from, route[i + 1]) /\ planned[i].commands # << >>
  <2>1. i \in 0 .. n /\ i # 0
    OBVIOUS
  <2>2. planned[i] = Planned(planned[i - 1], route[i], route[i + 1])
    BY <1>6, <2>1
  <2>3. QED
    BY <1>4, <1>8, <2>2, HopOnward
<1>9. \A k \in 0 .. n : Compiled(planned[k], from, route[k + 1])
  <2>. DEFINE with == {k \in 0 .. n : Compiled(planned[k], from, route[k + 1])}
  <2>1. 0 \in with
    BY <1>1, <1>7
  <2>2. ASSUME NEW k \in 0 .. n, k \in with, k < n PROVE k + 1 \in with
    <3>. PICK i \in 1 .. n : i = k + 1
      BY ONLY <2>2, k \in 0 .. n, n \in Nat
    <3>1. i - 1 = k /\ i \in 0 .. n
      OBVIOUS
    <3>2. Compiled(planned[i], from, route[i + 1])
      BY <1>8, <2>2, <3>1
    <3>3. QED
      BY <3>1, <3>2
  <2>3. \A k \in 0 .. n : k \in with /\ k < n => k + 1 \in with
    BY <2>2
  <2>. HIDE DEF with
  <2>4. \A k \in 0 .. n : k \in with
    BY <2>1, <2>3, Onward
  <2>5. QED
    BY <2>4 DEF with
<1>10. Compiled(planned[n], from, Last(route)) /\ commands # << >>
  <2>1. n \in 1 .. n /\ n \in 0 .. n /\ n - 1 \in 0 .. n /\ n - 1 + 1 = n /\ n + 1 = Len(route)
    BY <1>2, <1>3
  <2>2. Compiled(planned[n], from, route[n + 1])
    BY <1>9, <2>1
  <2>3. Compiled(planned[n - 1], from, route[n])
    <3>. PICK m \in 0 .. n : m = n - 1
      BY <2>1
    <3>1. Compiled(planned[m], from, route[m + 1]) /\ m + 1 = n
      BY <1>9
    <3>2. QED
      BY <3>1
  <2>4. planned[n].commands # << >>
    BY <1>8, <2>1, <2>3
  <2>5. QED
    BY <1>2, <1>5, <2>1, <2>2, <2>4
<1>11. PICK p \in Positions : /\ IndexOf(Output, p) = Last(route)
                              /\ Flight(commands, from, [at |-> p, facing |-> planned[n].heading])
  BY <1>5, <1>10 DEF Compiled
<1>12. [at |-> p, facing |-> planned[n].heading] \in Pose
  BY <1>10 DEF Compiled, Plans, Pose
<1>13. QED
  BY <1>10, <1>11, <1>12

-----------------------------------------------------------------------------
(* Steps that leave the world alone. *)

(* Nothing of this depends on more than the configuration and the world.    *)
LEMMA FixedGrids ==
  ASSUME UNCHANGED <<config, world>>
  PROVE  /\ OutputResolution' = OutputResolution /\ MissionBounds' = MissionBounds
         /\ Output' = Output /\ Hidden' = Hidden
         /\ VoxelsNest' = VoxelsNest /\ GridsAlign' = GridsAlign /\ WholeVoxels' = WholeVoxels
<1>1. \A p : Translated(p)' = Translated(p)
  BY DEF Translated
<1>2. OutputResolution' = OutputResolution /\ MissionBounds' = MissionBounds
  BY DEF OutputResolution, MissionBounds, Translated
<1>3. Output' = Output /\ Hidden' = Hidden
  BY <1>2 DEF Output, Hidden
<1>4. VoxelsNest' = VoxelsNest /\ GridsAlign' = GridsAlign /\ WholeVoxels' = WholeVoxels
  BY <1>2 DEF VoxelsNest, GridsAlign, WholeVoxels
<1>5. QED
  BY <1>2, <1>3, <1>4

(* Nor does what is true of places in it, *)
LEMMA FixedWorld ==
  ASSUME UNCHANGED <<config, world>>
  PROVE  /\ \A v : Covered(v)' = Covered(v)
         /\ \A m : IsTrue(m)' = IsTrue(m)
         /\ \A p : IsSolid(p)' = IsSolid(p)
         /\ \A p : Free(p)' = Free(p)
<1>1. \A v : Covered(v)' = Covered(v)
  BY FixedGrids DEF Covered
<1>2. \A m : IsTrue(m)' = IsTrue(m)
  BY <1>1, FixedGrids DEF IsTrue
<1>3. \A p : IsSolid(p)' = IsSolid(p)
  BY FixedGrids DEF IsSolid
<1>4. \A p : Free(p)' = Free(p)
  BY <1>3, FixedGrids DEF Free
<1>5. QED
  BY <1>1, <1>2, <1>3, <1>4

(* nor where commands lead. *)
LEMMA FixedFlights ==
  ASSUME UNCHANGED <<config, world>>
  PROVE  \A s, a, b : Flight(s, a, b)' = Flight(s, a, b)
<1>1. \A c, a, b : Leg(c, a, b)' = Leg(c, a, b)
  <2>1. \A m, a, b : Turns(m, a, b)' = Turns(m, a, b)
    BY DEF Turns
  <2>2. \A m, a, b : Advanced(m, a, b)' = Advanced(m, a, b)
    BY FixedGrids DEF Advanced
  <2>3. \A m, a, b : Elevated(m, a, b)' = Elevated(m, a, b)
    BY FixedGrids DEF Elevated
  <2>4. QED
    BY <2>1, <2>2, <2>3, FixedWorld DEF Leg
<1>2. \A s, t : Tracks(s, t)' = Tracks(s, t)
  BY <1>1 DEF Tracks
<1>3. QED
  BY <1>2 DEF Flight

-----------------------------------------------------------------------------
(* The validation of a command. *)

(* A part of the way to a place at most a cell away, on one axis.           *)
InOneOfTheCells(y, r, t, n, i) == (n * y + i * t) \div (n * r) \in {y \div r, (y + t) \div r}

(* It lies in one of the two cells. *)
LEMMA CellPartWay ==
  ASSUME NEW y \in Int, NEW r \in Nat \ {0}, NEW t \in -r .. r, NEW n \in Nat \ {0}, NEW i \in 0 .. n
  PROVE  InOneOfTheCells(y, r, t, n, i)
<1>. PICK c \in Int : c = y \div r
  BY DivBounds
<1>. PICK low \in Int : low = c * r
  OBVIOUS
<1>. PICK cell \in Nat \ {0} : cell = n * r
  OBVIOUS
<1>. PICK base \in Int : base = c * cell
  OBVIOUS
<1>. PICK ny \in Int, it \in Int, nt \in Int : ny = n * y /\ it = i * t /\ nt = n * t
  OBVIOUS
<1>. PICK z \in Int : z = ny + it
  OBVIOUS
<1>1. low <= y /\ y < low + r
  BY DivBounds
<1>2. n * low = base
  <2>1. n * (c * r) = c * (n * r)
    OBVIOUS
  <2>2. QED
    BY <2>1
<1>3. base <= ny /\ ny < base + cell
  <2>1. low * n <= y * n
    BY ONLY <1>1, low \in Int, y \in Int, n \in Nat, MulMono
  <2>2. (y + 1) * n <= (low + r) * n
    BY ONLY <1>1, low \in Int, y \in Int, r \in Nat, n \in Nat, MulMono
  <2>3. /\ low * n = n * low /\ y * n = n * y /\ (y + 1) * n = n * y + n
        /\ (low + r) * n = n * low + n * r
    OBVIOUS
  <2>4. QED
    BY ONLY <1>2, <2>1, <2>2, <2>3, ny = n * y, cell = n * r, ny \in Int, base \in Int, cell \in Nat,
            n \in Nat \ {0}
<1>4. (c + 1) * cell = base + cell /\ (c - 1) * cell = base - cell
  OBVIOUS
<1>5. (c + 1) * r = low + r /\ (c - 1) * r = low - r
  OBVIOUS
<1>. PICK there \in Int : there = (y + t) \div r
  BY DivBounds
<1>6. CASE 0 <= t
  <2>1. 0 <= it /\ it <= nt
    <3>1. i * t <= n * t
      BY ONLY <1>6, i \in 0 .. n, n \in Nat, t \in Int, MulMono
    <3>2. 0 * t <= i * t
      BY ONLY <1>6, i \in 0 .. n, n \in Nat, t \in Int, MulMono
    <3>3. QED
      BY <3>1, <3>2
  <2>2. z < base + cell => z \div cell = c
    BY ONLY <1>3, <2>1, z = ny + it, z \in Int, ny \in Int, it \in Int, c \in Int, base \in Int,
            base = c * cell, cell \in Nat \ {0}, DivUnique
  <2>3. CASE y + t < low + r
    <3>1. z < base + cell
      <4>1. (y + t + 1) * n <= (low + r) * n
        BY ONLY <2>3, low \in Int, y \in Int, t \in Int, r \in Nat, n \in Nat, MulMono
      <4>2. (y + t + 1) * n = n * y + n * t + n /\ (low + r) * n = n * low + n * r
        OBVIOUS
      <4>3. QED
        BY ONLY <1>2, <2>1, <4>1, <4>2, z = ny + it, ny = n * y, nt = n * t, cell = n * r, ny \in Int,
                nt \in Int, it \in Int, base \in Int, cell \in Nat, n \in Nat \ {0}
    <3>2. QED
      BY ONLY <2>2, <3>1, c = y \div r, z = ny + it, ny = n * y, it = i * t, cell = n * r
         DEF InOneOfTheCells
  <2>4. CASE ~(y + t < low + r)
    <3>1. there = c + 1
      <4>. PICK x \in Int, q \in Int : x = y + t /\ q = c + 1
        OBVIOUS
      <4>1. q * r <= x /\ x < q * r + r
        BY ONLY <1>1, <1>5, <2>4, t \in -r .. r, x = y + t, q = c + 1, low \in Int, y \in Int, r \in Nat
      <4>2. x \div r = q
        BY ONLY <4>1, x \in Int, q \in Int, r \in Nat \ {0}, DivUnique
      <4>3. QED
        BY <4>2
    <3>2. z < base + cell + cell
      <4>1. n * t <= n * r
        <5>1. t * n <= r * n
          BY ONLY t \in -r .. r, r \in Nat, n \in Nat, MulMono
        <5>2. t * n = n * t /\ r * n = n * r
          OBVIOUS
        <5>3. QED
          BY <5>1, <5>2
      <4>2. QED
        BY ONLY <1>3, <2>1, <4>1, z = ny + it, nt = n * t, cell = n * r, ny \in Int,
                nt \in Int, it \in Int, base \in Int, cell \in Nat
    <3>3. ~(z < base + cell) => z \div cell = c + 1
      <4>. PICK q \in Int : q = c + 1
        OBVIOUS
      <4>1. ~(z < base + cell) => q * cell <= z /\ z < q * cell + cell
        BY ONLY <1>4, <3>2, q = c + 1, z \in Int, base \in Int, cell \in Nat
      <4>2. ~(z < base + cell) => z \div cell = q
        BY ONLY <4>1, q \in Int, z \in Int, cell \in Nat \ {0}, DivUnique
      <4>3. QED
        BY <4>2
    <3>4. QED
      BY ONLY <2>2, <3>1, <3>3, c = y \div r, there = (y + t) \div r, z = ny + it, ny = n * y,
              it = i * t, cell = n * r
         DEF InOneOfTheCells
  <2>5. QED
    BY <2>3, <2>4
<1>7. CASE t < 0
  <2>1. it <= 0 /\ nt <= it
    <3>. PICK s \in Nat : s = -t
      BY <1>7
    <3>1. i * s <= n * s /\ 0 * s <= i * s
      BY ONLY i \in 0 .. n, n \in Nat, s \in Nat, MulMono
    <3>2. i * t = -(i * s) /\ n * t = -(n * s)
      <4>1. t = -s
        OBVIOUS
      <4>2. i * (-s) = -(i * s) /\ n * (-s) = -(n * s)
        OBVIOUS
      <4>3. QED
        BY <4>1, <4>2
    <3>3. QED
      BY <3>1, <3>2
  <2>2. z >= base => z \div cell = c
    BY ONLY <1>3, <2>1, z = ny + it, z \in Int, ny \in Int, it \in Int, c \in Int, base \in Int,
            base = c * cell, cell \in Nat \ {0}, DivUnique
  <2>3. CASE y + t >= low
    <3>1. z >= base
      <4>1. low * n <= (y + t) * n
        BY ONLY <2>3, low \in Int, y \in Int, t \in Int, n \in Nat, MulMono
      <4>2. (y + t) * n = n * y + n * t /\ low * n = n * low
        OBVIOUS
      <4>3. QED
        BY ONLY <1>2, <2>1, <4>1, <4>2, z = ny + it, ny = n * y, nt = n * t, ny \in Int,
                nt \in Int, it \in Int, base \in Int, n \in Nat \ {0}
    <3>2. QED
      BY ONLY <2>2, <3>1, c = y \div r, z = ny + it, ny = n * y, it = i * t, cell = n * r
         DEF InOneOfTheCells
  <2>4. CASE ~(y + t >= low)
    <3>1. there = c - 1
      <4>. PICK x \in Int, q \in Int : x = y + t /\ q = c - 1
        OBVIOUS
      <4>1. q * r <= x /\ x < q * r + r
        BY ONLY <1>1, <1>5, <2>4, t \in -r .. r, x = y + t, q = c - 1, low \in Int, y \in Int, r \in Nat
      <4>2. x \div r = q
        BY ONLY <4>1, x \in Int, q \in Int, r \in Nat \ {0}, DivUnique
      <4>3. QED
        BY <4>2
    <3>2. z >= base - cell
      <4>1. -(n * r) <= n * t
        <5>1. (-r) * n <= t * n
          BY ONLY t \in -r .. r, r \in Nat, n \in Nat, MulMono
        <5>2. t * n = n * t /\ (-r) * n = -(n * r)
          OBVIOUS
        <5>3. QED
          BY <5>1, <5>2
      <4>2. QED
        BY ONLY <1>3, <2>1, <4>1, z = ny + it, nt = n * t, cell = n * r, ny \in Int,
                nt \in Int, it \in Int, base \in Int, cell \in Nat
    <3>3. ~(z >= base) => z \div cell = c - 1
      <4>. PICK q \in Int : q = c - 1
        OBVIOUS
      <4>1. ~(z >= base) => q * cell <= z /\ z < q * cell + cell
        BY ONLY <1>4, <3>2, q = c - 1, z \in Int, base \in Int, cell \in Nat
      <4>2. ~(z >= base) => z \div cell = q
        BY ONLY <4>1, q \in Int, z \in Int, cell \in Nat \ {0}, DivUnique
      <4>3. QED
        BY <4>2
    <3>4. QED
      BY ONLY <2>2, <3>1, <3>3, c = y \div r, there = (y + t) \div r, z = ny + it, ny = n * y,
              it = i * t, cell = n * r
         DEF InOneOfTheCells
  <2>5. QED
    BY <2>3, <2>4
<1>8. QED
  BY <1>6, <1>7

(* The longest coordinate of a move is a length. *)
LEMMA SpanIsNat ==
  ASSUME NEW from \in Positions, NEW to \in Positions
  PROVE  Max({Magnitude(to[a] - from[a]) : a \in Axes}) \in Nat
<1>1. ASSUME NEW a \in Axes PROVE Magnitude(to[a] - from[a]) \in Nat
  BY DEF Magnitude, Positions
<1>. PICK x \in Nat, y \in Nat, z \in Nat :
       /\ x = Magnitude(to[1] - from[1]) /\ y = Magnitude(to[2] - from[2])
       /\ z = Magnitude(to[3] - from[3])
  BY <1>1 DEF Axes
<1>2. {Magnitude(to[a] - from[a]) : a \in Axes} = {x, y, z}
  <2>1. Axes = {1, 2, 3}
    BY DEF Axes
  <2>2. QED
    BY <2>1
<1>3. \E m \in {x, y, z} : \A k \in {x, y, z} : m >= k
  <2>1. CASE x >= y /\ x >= z
    BY <2>1
  <2>2. CASE y >= x /\ y >= z
    BY <2>2
  <2>3. CASE z >= x /\ z >= y
    BY <2>3
  <2>4. QED
    BY <2>1, <2>2, <2>3
<1>4. Max({x, y, z}) \in {x, y, z}
  BY <1>3 DEF Max
<1>5. QED
  BY <1>2, <1>4

(* A free voxel is not mapped occupied. *)
LEMMA FreeIsNotOccupied ==
  ASSUME config \in Configs, world \in WorldsOf(config), DOMAIN map = Voxels(Output), IsTrue(map),
         VoxelsNest, NEW p \in Positions, Free(p)
  PROVE  map[IndexOf(Output, p)] # "Occupied"
<1>. PICK u \in Positions : u = IndexOf(Output, p)
  BY IndexType
<1>1. u \in DOMAIN map
  <2>1. Output.size \in [Axes -> Int]
    BY Grids
  <2>2. InGrid(Output, u)
    BY DEF Free
  <2>3. QED
    BY <2>1, <2>2, VoxelsAreTriples
<1>2. ASSUME map[u] = "Occupied" PROVE FALSE
  <2>1. PICK w \in Covered(u) : w \in world
    BY <1>1, <1>2 DEF IsTrue
  <2>2. w = IndexOf(Hidden, p)
    BY <2>1, CoveredIsOneCell DEF VoxelsNest
  <2>3. IsSolid(p)
    BY <2>1, <2>2 DEF IsSolid
  <2>4. QED
    BY <2>3 DEF Free
<1>3. QED
  BY <1>2

(* The validation samples nothing occupied between two free places a voxel *)
(* apart.                                                                  *)
LEMMA WayIsClear ==
  ASSUME config \in Configs, world \in WorldsOf(config), DOMAIN map = Voxels(Output), IsTrue(map),
         VoxelsNest, NEW from \in Positions, Free(from), NEW d \in UnitVectors,
         NEW t \in -OutputResolution .. OutputResolution,
         NEW to, to = PointAlongBeam(from, d, t), Free(to)
  PROVE  PathIsClear(from, to)
<1>. PICK r \in Nat \ {0}, fine \in Nat \ {0} : r = OutputResolution /\ fine = March(OutputResolution)
  BY Resolutions
<1>. d \in Positions
  BY UnitVectorFacts
<1>1. to \in Positions
  BY PointType
<1>. PICK span \in Nat : span = Max({Magnitude(to[a] - from[a]) : a \in Axes})
  BY <1>1, SpanIsNat
<1>. PICK n \in Nat : n = (span + fine - 1) \div fine
  <2>1. span + fine - 1 \in Nat
    OBVIOUS
  <2>. PICK x \in Nat : x = span + fine - 1
    BY <2>1
  <2>2. x \div fine \in Nat
    OBVIOUS
  <2>3. QED
    BY <2>2
<1>. PICK u \in Positions, w \in Positions : u = IndexOf(Output, from) /\ w = IndexOf(Output, to)
  BY <1>1, IndexType
<1>2. map[u] # "Occupied" /\ map[w] # "Occupied"
  BY <1>1, FreeIsNotOccupied
<1>3. PICK b \in Axes, s \in {1, -1} : d[b] = s /\ \A a \in Axes : a # b => d[a] = 0
  BY UnitVectorFacts
<1>4. ASSUME NEW i \in 1 .. n PROVE IndexPartWay(Output, from, to, i, n) \in {u, w}
  <2>. PICK v : v = IndexPartWay(Output, from, to, i, n)
    OBVIOUS
  <2>. DEFINE Cell(a) == (n * (from[a] - MissionBounds.min[a]) + i * (to[a] - from[a])) \div (n * r)
  <2>1. v = [a \in Axes |-> Cell(a)]
    BY Grids DEF IndexPartWay
  <2>2. ASSUME NEW a \in Axes
        PROVE  Cell(a) \in {u[a], w[a]} /\ (a # b => w[a] = u[a])
    <3>. PICK x \in Int, o \in Int, da \in Int :
           x = from[a] /\ o = MissionBounds.min[a] /\ da = d[a]
      BY Grids DEF Positions
    <3>. PICK y \in Int : y = x - o
      OBVIOUS
    <3>. PICK e \in -r .. r : e = t * da /\ (a # b => e = 0)
      <4>1. t \in -r .. r
        OBVIOUS
      <4>2. da \in {0, 1, -1} /\ (a # b => da = 0)
        BY <1>3
      <4>3. t * 0 = 0 /\ t * 1 = t /\ t * (-1) = -t
        BY <4>1
      <4>4. QED
        BY <4>1, <4>2, <4>3
    <3>1. to[a] = x + e
      BY DEF PointAlongBeam
    <3>2. to[a] - from[a] = e /\ to[a] - o = y + e /\ from[a] - o = y
      BY <3>1
    <3>3. u[a] = y \div r /\ w[a] = (y + e) \div r
      BY <1>1, <3>2, IndexType
    <3>4. InOneOfTheCells(y, r, e, n, i)
      <4>1. n \in Nat \ {0} /\ i \in 0 .. n
        OBVIOUS
      <4>2. QED
        BY ONLY <4>1, y \in Int, r \in Nat \ {0}, e \in -r .. r, CellPartWay
    <3>5. Cell(a) = (n * y + i * e) \div (n * r)
      BY <3>2
    <3>6. a # b => y + e = y
      OBVIOUS
    <3>7. QED
      BY ONLY <3>3, <3>4, <3>5, <3>6 DEF InOneOfTheCells
  <2>. HIDE DEF Cell
  <2>3. CASE Cell(b) = u[b]
    <3>1. \A a \in Axes : v[a] = u[a]
      BY <2>1, <2>2, <2>3
    <3>2. v = u
      BY <2>1, <3>1 DEF Positions
    <3>3. QED
      BY <3>2
  <2>4. CASE Cell(b) = w[b]
    <3>1. \A a \in Axes : v[a] = w[a]
      BY <2>1, <2>2, <2>4
    <3>2. v = w
      BY <2>1, <3>1 DEF Positions
    <3>3. QED
      BY <3>2
  <2>5. QED
    BY <2>2, <2>3, <2>4
<1>5. \A i \in 1 .. n : map[IndexPartWay(Output, from, to, i, n)] # "Occupied"
  BY <1>2, <1>4
<1>6. QED
  BY <1>5 DEF PathIsClear

(* A place in the region's voxels is within its bounds. *)
LEMMA FreeIsWithinBounds ==
  ASSUME config \in Configs, WholeVoxels, NEW p \in Positions, Free(p)
  PROVE  WithinMissionBounds(p)
<1>. PICK r \in Nat \ {0} : r = OutputResolution
  BY Resolutions
<1>1. ASSUME NEW a \in Axes PROVE p[a] >= MissionBounds.min[a] /\ p[a] <= MissionBounds.max[a]
  <2>. PICK o \in Int, x \in Int, high \in Int :
         o = MissionBounds.min[a] /\ x = p[a] /\ high = MissionBounds.max[a]
    BY Grids DEF Positions
  <2>. PICK y \in Int, whole \in Int : y = x - o /\ whole = high - o
    OBVIOUS
  <2>. PICK c \in Int : c = y \div r
    BY DivBounds
  <2>1. whole % r = 0
    <3>1. whole = config.bounds.max[a] - config.bounds.min[a]
      <4>. PICK lo \in Int, hi \in Int, off \in Int :
             lo = config.bounds.min[a] /\ hi = config.bounds.max[a] /\ off = config.mapOffset[a]
        BY MissionAssumption
      <4>1. o = lo + off /\ high = hi + off
        BY DEF MissionBounds, Translated
      <4>2. QED
        BY <4>1
    <3>2. QED
      BY <3>1 DEF WholeVoxels
  <2>. PICK k \in Int : whole = k * r
    BY ONLY <2>1, whole \in Int, r \in Nat \ {0}, DivIsExact
  <2>2. c >= 0 /\ c < Output.size[a]
    <3>1. IndexOf(Output, p)[a] = c
      BY IndexType
    <3>2. QED
      BY <3>1 DEF Free, InGrid
  <2>3. Output.size[a] = IF whole > 0 THEN (whole + r - 1) \div r ELSE 0
    BY DEF Output, GridOf, AxisCount
  <2>4. whole > 0 /\ c < k
    <3>1. whole > 0
      BY <2>2, <2>3
    <3>2. (whole + r - 1) \div r = k
      <4>. PICK z \in Int : z = whole + r - 1
        OBVIOUS
      <4>1. k * r <= z /\ z < k * r + r
        OBVIOUS
      <4>2. z \div r = k
        BY ONLY <4>1, z \in Int, k \in Int, r \in Nat \ {0}, DivUnique
      <4>3. QED
        BY <4>2
    <3>3. QED
      BY <2>2, <2>3, <3>1, <3>2
  <2>5. c * r <= y /\ y < c * r + r
    BY DivBounds
  <2>6. 0 * r <= c * r /\ (c + 1) * r <= k * r
    <3>1. c + 1 <= k /\ c + 1 \in Int
      BY <2>4
    <3>2. QED
      BY ONLY <2>2, <3>1, c \in Int, k \in Int, r \in Nat, MulMono
  <2>7. (c + 1) * r = c * r + r /\ 0 * r = 0 /\ c * r \in Int
    OBVIOUS
  <2>8. 0 <= y /\ y < whole
    BY ONLY <2>5, <2>6, <2>7, y \in Int, whole \in Int, whole = k * r, r \in Nat
  <2>9. QED
    BY <2>8
<1>2. QED
  BY <1>1 DEF WithinMissionBounds

-----------------------------------------------------------------------------
(* The invariant of a mission. *)

(* A drone that can move at all, in a region of whole voxels that nest.     *)
Unhindered ==
  WholeVoxels /\ VoxelsNest /\ config.maxRotate > 0 /\ config.maxAdvance > 0 /\ config.maxElevate > 0

(* What a leg of a flight commands is what the drone does, and allowed.     *)
LEMMA LegMoves ==
  ASSUME config \in Configs, position \in Positions, heading \in 0 .. 359,
         NEW from, from = [at |-> position, facing |-> heading], NEW to,
         NEW m \in Moves, Turns(m, from, to) \/ Advanced(m, from, to) \/ Elevated(m, from, to)
  PROVE  /\ Moved(m) = to.at /\ Turned(m) = to.facing
         /\ \E d \in UnitVectors, t \in -OutputResolution .. OutputResolution :
              to.at = PointAlongBeam(position, d, t)
<1>. PICK r \in Nat \ {0} : r = OutputResolution
  BY Resolutions
<1>1. from.at = position /\ from.facing = heading
  OBVIOUS
<1>2. CASE Turns(m, from, to)
  <2>1. m.type = "Rotate" /\ to.at = position
    BY <1>1, <1>2 DEF Turns
  <2>2. Moved(m) = position
    BY <2>1 DEF Moved
  <2>3. Turned(m) = to.facing
    BY <1>1, <1>2 DEF Turns, Turned
  <2>4. PICK d \in UnitVectors : d = <<0, 0, 1>>
    BY DEF UnitVectors
  <2>5. d \in Positions
    BY UnitVectorFacts
  <2>6. PointAlongBeam(position, d, 0) = position /\ 0 \in -OutputResolution .. OutputResolution
    BY <2>5, PointHere
  <2>7. QED
    BY <2>1, <2>2, <2>3, <2>6
<1>3. CASE Advanced(m, from, to)
  <2>1. /\ m.type = "Advance" /\ to.facing = heading /\ heading \in {0, 90, 180, 270}
        /\ to.at = PointAlongBeam(position, Direction(heading, 0), m.amount)
        /\ m.amount \in 0 .. OutputResolution
    BY <1>1, <1>3 DEF Advanced
  <2>2. heading % 360 = heading
    OBVIOUS
  <2>3. Moved(m) = to.at
    BY <2>1, <2>2 DEF Moved
  <2>4. Turned(m) = heading
    BY <2>1 DEF Turned
  <2>5. Direction(heading, 0) \in UnitVectors
    BY <2>1, DirectionIsAxis
  <2>6. m.amount \in -OutputResolution .. OutputResolution
    BY <2>1
  <2>7. QED
    BY <2>1, <2>3, <2>4, <2>5, <2>6
<1>4. CASE Elevated(m, from, to)
  <2>1. /\ m.type = "Elevate" /\ to.facing = heading
        /\ to.at = PointAlongBeam(position, <<0, 0, 1>>, m.amount)
        /\ m.amount \in -OutputResolution .. OutputResolution
    BY <1>1, <1>4 DEF Elevated
  <2>2. Moved(m) = to.at
    BY <2>1 DEF Moved
  <2>3. Turned(m) = heading
    BY <2>1 DEF Turned
  <2>4. <<0, 0, 1>> \in UnitVectors
    BY DEF UnitVectors
  <2>5. QED
    BY <2>1, <2>2, <2>3, <2>4
<1>5. QED
  BY <1>2, <1>3, <1>4

(* The validation of DroneControlImpl::step allows every leg of a flight. *)
LEMMA LegIsLegal ==
  ASSUME config \in Configs, world \in WorldsOf(config), DOMAIN map = Voxels(Output), IsTrue(map),
         position \in Positions, heading \in 0 .. 359, Free(position), Unhindered,
         NEW to \in Pose, NEW m \in Moves,
         Leg(Moving(m), [at |-> position, facing |-> heading], to)
  PROVE  IsLegal(m)
<1>. PICK from : from = [at |-> position, facing |-> heading]
  OBVIOUS
<1>1. PICK k \in Moves : /\ Moving(m) = Moving(k)
                         /\ Turns(k, from, to) \/ Advanced(k, from, to) \/ Elevated(k, from, to)
  BY DEF Leg
<1>2. k = m
  <2>1. Moving(m).movement = <<m>> /\ Moving(k).movement = <<k>>
    BY DEF Moving, NoCommand
  <2>2. QED
    BY <1>1, <2>1
<1>3. Turns(m, from, to) \/ Advanced(m, from, to) \/ Elevated(m, from, to)
  BY <1>1, <1>2
<1>4. Free(to.at) /\ to.at \in Positions
  BY DEF Leg, Pose
<1>5. Moved(m) = to.at
  BY <1>3, LegMoves
<1>6. WithinLimits(m)
  <2>1. CASE Turns(m, from, to)
    <3>1. m.type = "Rotate" /\ m.amount >= 0 /\ m.amount <= config.maxRotate
      BY <2>1 DEF Turns, Unhindered
    <3>2. Magnitude(m.amount) = m.amount
      BY <3>1 DEF Magnitude, Moves
    <3>3. QED
      BY <3>1, <3>2 DEF WithinLimits
  <2>2. CASE Advanced(m, from, to)
    <3>1. m.type = "Advance" /\ m.amount \in 0 .. OutputResolution /\ m.amount <= config.maxAdvance
      BY <2>2 DEF Advanced, Unhindered
    <3>2. Magnitude(m.amount) = m.amount
      BY <3>1 DEF Magnitude, Moves
    <3>3. QED
      BY <3>1, <3>2 DEF WithinLimits
  <2>3. CASE Elevated(m, from, to)
    <3>1. m.type = "Elevate" /\ Magnitude(m.amount) <= config.maxElevate
      BY <2>3 DEF Elevated, Unhindered
    <3>2. QED
      BY <3>1 DEF WithinLimits
  <2>4. QED
    BY <1>3, <2>1, <2>2, <2>3
<1>7. WithinMissionBounds(to.at)
  BY <1>4, FreeIsWithinBounds DEF Unhindered
<1>8. PathIsClear(position, to.at)
  <2>1. PICK d \in UnitVectors, t \in -OutputResolution .. OutputResolution :
          to.at = PointAlongBeam(position, d, t)
    BY <1>3, LegMoves
  <2>2. QED
    BY <1>4, <2>1, WayIsClear DEF Unhindered
<1>9. QED
  BY <1>5, <1>6, <1>7, <1>8 DEF IsLegal

-----------------------------------------------------------------------------
(* The commands that are still to be obeyed. *)
Ahead == IF pc = "obey" THEN <<command>> \o plan ELSE plan

(* The commands that look around. *)
Scans == {Scan(relative) : relative \in [horizontal : Int, altitude : Int]}

(* They are looks around, along the axes of the world; *)
Looking(s) ==
  /\ s \in Seq(Scans)
  /\ \A i \in 1 .. Len(s) : \E relative \in [horizontal : Int, altitude : Int] :
       s[i] = Scan(relative) /\ Looks(heading, relative)

(* or the legs of a flight, through free places, to the chosen voxel;       *)
Flying(s) ==
  /\ Free(position)
  /\ \E to \in Pose : /\ Flight(s, [at |-> position, facing |-> heading], to)
                      /\ IndexOf(Output, to.at) = destination

(* or the end of the mission. *)
Stopping == pc = "obey" /\ plan = << >> /\ \E ending \in {"Finished", "FinishedWithUnmappableVoxels"} :
                                             command = Terminal(ending)

(* What holds of a mission at every point. *)
MissionInv ==
  /\ config \in Configs /\ world \in WorldsOf(config)
  /\ DOMAIN map = Voxels(Output) /\ IsTrue(map)
  /\ position \in Positions /\ heading \in 0 .. 359
  /\ VoxelsNest => ~IsSolid(position)
  /\ Unhindered => status # "Error"
  /\ plan \in Seq(Orders \cup Scans)
  /\ pc \in {"decide", "obey"} =>
       Flying(Ahead) \/ ((Looking(Ahead) \/ Stopping) /\ destination = Current)

(* It holds at the start. *)
LEMMA MissionBegins == Init => MissionInv
<1>. SUFFICES ASSUME Init PROVE MissionInv
  OBVIOUS
<1>1. config \in Configs /\ world \in WorldsOf(config) /\ position = Translated(config.start)
  BY DEF Init
<1>2. map = EmptyMap
  BY DEF Init
<1>3. DOMAIN map = Voxels(Output) /\ IsTrue(map)
  <2>1. DOMAIN map = Voxels(Output) /\ \A v \in DOMAIN map : map[v] = "Unmapped"
    BY <1>2 DEF EmptyMap
  <2>2. QED
    BY <2>1 DEF IsTrue
<1>4. position \in Positions
  BY <1>1, Grids
<1>5. heading \in 0 .. 359
  BY <1>1, MissionAssumption DEF Init
<1>6. ~IsSolid(position)
  <2>1. [a \in Axes |-> (config.start[a] + config.mapOffset[a]) \div config.mapResolution] \notin world
    BY <1>1, WorldsAssumption
  <2>2. IndexOf(Hidden, position)
          = [a \in Axes |-> (config.start[a] + config.mapOffset[a]) \div config.mapResolution]
    <3>. PICK c \in Positions : c = IndexOf(Hidden, position)
      BY <1>1, <1>4, IndexType
    <3>1. \A a \in Axes : c[a] = position[a] \div config.mapResolution
      BY <1>1, <1>4, IndexType
    <3>2. \A a \in Axes : position[a] = config.start[a] + config.mapOffset[a]
      BY <1>1 DEF Translated
    <3>3. c = [a \in Axes |-> c[a]]
      BY DEF Positions
    <3>4. QED
      BY <3>1, <3>2, <3>3
  <2>3. QED
    BY <2>1, <2>2 DEF IsSolid
<1>7. status # "Error"
  BY DEF Init
<1>8. Looking(Ahead) /\ destination = Current
  <2>1. Ahead = << >>
    BY DEF Init, Ahead
  <2>2. Looking(<< >>)
    BY DEF Looking
  <2>3. QED
    BY <2>1, <2>2 DEF Init, Current
<1>9. plan \in Seq(Orders \cup Scans)
  BY DEF Init
<1>10. QED
  BY <1>1, <1>3, <1>4, <1>5, <1>6, <1>7, <1>8, <1>9 DEF MissionInv

-----------------------------------------------------------------------------
(* Each step keeps it. *)

(* Where a plan has run out, the drone is where it led. *)
LEMMA Arrived ==
  ASSUME MissionInv, pc = "decide", plan = << >>
  PROVE  Current = destination
<1>1. Ahead = << >>
  BY DEF Ahead
<1>2. CASE Flying(<< >>)
  <2>1. PICK to \in Pose : /\ Flight(<< >>, [at |-> position, facing |-> heading], to)
                           /\ IndexOf(Output, to.at) = destination
    BY <1>2 DEF Flying
  <2>2. to = [at |-> position, facing |-> heading]
    <3>1. Len(<< >>) = 0
      OBVIOUS
    <3>2. QED
      BY <2>1, <3>1 DEF Flight
  <2>3. QED
    BY <2>1, <2>2 DEF Current
<1>3. QED
  BY <1>1, <1>2 DEF MissionInv, Stopping

(* What is still ahead stays ahead while the drone and the map stay. *)
LEMMA FlyingKept ==
  ASSUME UNCHANGED <<config, world, position, heading, destination>>, NEW s
  PROVE  Flying(s)' = Flying(s)
<1>1. Free(position)' = Free(position)
  BY FixedWorld
<1>2. \A to : IndexOf(Output, to.at)' = IndexOf(Output, to.at)
  BY FixedGrids
<1>3. \A to : Flight(s, [at |-> position, facing |-> heading], to)'
                = Flight(s, [at |-> position, facing |-> heading], to)
  BY FixedFlights
<1>4. QED
  BY <1>1, <1>2, <1>3 DEF Flying

(* So does the voxel it is in. *)
LEMMA CurrentKept ==
  ASSUME UNCHANGED <<config, position>>
  PROVE  Current' = Current
BY DEF Current, Output, OutputResolution, MissionBounds, Translated

(* What is left to show of a step that moves nothing and maps nothing. *)
LEMMA RestKept ==
  ASSUME MissionInv, UNCHANGED <<config, world, map, position, heading>>,
         Unhindered => status' # "Error", plan' \in Seq(Orders \cup Scans),
         pc' \in {"decide", "obey"} =>
           (Flying(Ahead) \/ ((Looking(Ahead) \/ Stopping) /\ destination = Current))'
  PROVE  MissionInv'
<1>1. Unhindered' = Unhindered
  BY FixedGrids DEF Unhindered
<1>2. Voxels(Output)' = Voxels(Output) /\ IsTrue(map)' = IsTrue(map) /\ VoxelsNest' = VoxelsNest
  BY FixedGrids, FixedWorld
<1>3. IsSolid(position)' = IsSolid(position)
  BY FixedWorld
<1>4. QED
  BY <1>1, <1>2, <1>3 DEF MissionInv

(* A sequence is its head and its tail, *)
LEMMA HeadAndTail ==
  ASSUME NEW S, NEW s \in Seq(S), s # << >>
  PROVE  <<Head(s)>> \o Tail(s) = s /\ Tail(s) \in Seq(S) /\ Head(s) \in S
OBVIOUS

(* and the other way round. *)
LEMMA OneMoreAhead ==
  ASSUME NEW S, NEW s \in Seq(S), NEW c
  PROVE  Head(<<c>> \o s) = c /\ Tail(<<c>> \o s) = s /\ <<c>> \o s # << >>
<1>. PICK T : T = S \cup {c}
  OBVIOUS
<1>1. <<c>> \in Seq(T) /\ s \in Seq(T)
  OBVIOUS
<1>2. QED
  BY <1>1

(* A queued command is still the next leg, or the next look. *)
LEMMA DrainKeeps == ASSUME MissionInv, Drain PROVE MissionInv'
<1>1. /\ pc = "decide" /\ plan # << >> /\ plan' = Tail(plan) /\ command' = Head(plan) /\ pc' = "obey"
      /\ UNCHANGED <<config, world, map, position, heading, destination, status>>
  BY DEF Drain, Deciding, Issue, pose, result
<1>2. plan \in Seq(Orders \cup Scans)
  BY DEF MissionInv
<1>3. Tail(plan) \in Seq(Orders \cup Scans) /\ <<Head(plan)>> \o Tail(plan) = plan
  BY <1>1, <1>2, HeadAndTail
<1>. PICK s : s = plan
  OBVIOUS
<1>4. Ahead = s /\ Ahead' = s
  BY <1>1, <1>3 DEF Ahead
<1>5. (Flying(Ahead) \/ ((Looking(Ahead) \/ Stopping) /\ destination = Current))'
  <2>1. Flying(s) \/ (Looking(s) /\ destination = Current)
    BY <1>1, <1>4 DEF MissionInv, Stopping
  <2>2. Looking(s)' = Looking(s)
    BY <1>1 DEF Looking
  <2>3. Flying(s)' = Flying(s)
    BY <1>1, FlyingKept
  <2>4. Current' = Current
    BY <1>1, CurrentKept
  <2>5. QED
    BY <1>1, <1>4, <2>1, <2>2, <2>3, <2>4
<1>6. QED
  BY <1>1, <1>3, <1>5, RestKept DEF MissionInv

(* Giving up outside the region only ends the mission, *)
LEMMA LeaveKeeps == ASSUME MissionInv, LeaveOutside PROVE MissionInv'
<1>1. /\ pc = "decide" /\ plan = << >> /\ plan' = plan /\ command' = Terminal("Finished") /\ pc' = "obey"
      /\ UNCHANGED <<config, world, map, position, heading, destination, status>>
  BY DEF LeaveOutside, Deciding, Issue, pose, result, algorithm
<1>2. Stopping'
  BY <1>1 DEF Stopping, Terminal, NoCommand
<1>3. destination' = Current'
  BY <1>1, Arrived, CurrentKept
<1>4. QED
  BY <1>1, <1>2, <1>3, RestKept DEF MissionInv

(* and so does giving up for lack of targets. *)
LEMMA GiveUpKeeps == ASSUME MissionInv, GiveUp PROVE MissionInv'
<1>1. /\ pc = "decide" /\ plan = << >> /\ plan' = plan /\ command' = Terminal(Ending) /\ pc' = "obey"
      /\ UNCHANGED <<config, world, map, position, heading, destination, status>>
  BY DEF GiveUp, Deciding, Issue, pose, result, algorithm
<1>2. Stopping'
  <2>1. Ending \in {"Finished", "FinishedWithUnmappableVoxels"}
    BY DEF Ending
  <2>2. QED
    BY <1>1, <2>1 DEF Stopping, Terminal, NoCommand
<1>3. destination' = Current'
  BY <1>1, Arrived, CurrentKept
<1>4. QED
  BY <1>1, <1>2, <1>3, RestKept DEF MissionInv

(* A survey looks along the axes of the world, whatever the heading.        *)
LEMMA SurveyLooks ==
  ASSUME heading \in 0 .. 359
  PROVE  Looking(BuildSurvey) /\ BuildSurvey # << >>
<1>1. DOMAIN SurveyDirections = 1 .. 6
  BY DEF SurveyDirections
<1>2. BuildSurvey = [i \in 1 .. 6 |->
        Scan([horizontal |-> SurveyDirections[i][1] - heading, altitude |-> SurveyDirections[i][2]])]
  BY <1>1 DEF BuildSurvey
<1>3. ASSUME NEW i \in 1 .. 6
      PROVE  SurveyDirections[i][1] \in {0, 90, 180, 270} /\ SurveyDirections[i][2] \in {0, 90, -90}
  BY DEF SurveyDirections
<1>4. ASSUME NEW i \in 1 .. 6
      PROVE  \E relative \in [horizontal : Int, altitude : Int] :
               BuildSurvey[i] = Scan(relative) /\ Looks(heading, relative)
  <2>. PICK x \in {0, 90, 180, 270}, y \in {0, 90, -90} :
         x = SurveyDirections[i][1] /\ y = SurveyDirections[i][2]
    BY <1>3
  <2>. PICK turn \in Int : turn = x - heading
    OBVIOUS
  <2>. PICK look \in Int : look = y
    OBVIOUS
  <2>. PICK relative : relative = [horizontal |-> turn, altitude |-> look]
    OBVIOUS
  <2>0. relative \in [horizontal : Int, altitude : Int]
    BY ONLY turn \in Int, look \in Int, relative = [horizontal |-> turn, altitude |-> look]
  <2>1. BuildSurvey[i] = Scan(relative)
    BY <1>2
  <2>2. Looks(heading, relative)
    <3>1. turn + heading = x
      BY ONLY turn = x - heading, heading \in 0 .. 359, x \in {0, 90, 180, 270}
    <3>2. x % 360 = x
      BY ONLY x \in {0, 90, 180, 270}
    <3>3. relative.horizontal = turn /\ relative.altitude = y
      BY ONLY relative = [horizontal |-> turn, altitude |-> look], look = y
    <3>4. QED
      BY ONLY <3>1, <3>2, <3>3, x \in {0, 90, 180, 270}, y \in {0, 90, -90} DEF Looks
  <2>3. QED
    BY <2>0, <2>1, <2>2
<1>5. BuildSurvey \in Seq(Scans) /\ Len(BuildSurvey) = 6
  <2>1. \A i \in 1 .. 6 : BuildSurvey[i] \in Scans
    BY <1>4 DEF Scans
  <2>. PICK s : s = BuildSurvey
    OBVIOUS
  <2>2. s = [i \in 1 .. 6 |-> s[i]]
    BY <1>2
  <2>3. s \in Seq(Scans) /\ Len(s) = 6
    BY ONLY <2>1, <2>2, s = BuildSurvey
  <2>4. QED
    BY <2>3
<1>6. BuildSurvey # << >>
  BY ONLY <1>5
<1>7. \A i \in 1 .. Len(BuildSurvey) : \E relative \in [horizontal : Int, altitude : Int] :
        BuildSurvey[i] = Scan(relative) /\ Looks(heading, relative)
  BY <1>4, <1>5
<1>8. QED
  BY <1>5, <1>6, <1>7 DEF Looking

(* A survey starts looking, in place. *)
LEMMA SurveyKeeps == ASSUME MissionInv, Survey PROVE MissionInv'
<1>. PICK s : s = BuildSurvey
  OBVIOUS
<1>1. /\ pc = "decide" /\ plan = << >> /\ plan' = Tail(s) /\ command' = Head(s) /\ pc' = "obey"
      /\ UNCHANGED <<config, world, map, position, heading, destination, status>>
  BY DEF Survey, Deciding, Issue, pose, result
<1>2. Looking(s) /\ s # << >>
  BY SurveyLooks DEF MissionInv
<1>3. s \in Seq(Scans)
  BY <1>2 DEF Looking
<1>4. s \in Seq(Orders \cup Scans)
  BY <1>3
<1>5. <<Head(s)>> \o Tail(s) = s /\ Tail(s) \in Seq(Orders \cup Scans)
  BY <1>2, <1>4, HeadAndTail
<1>6. Ahead' = s
  BY <1>1, <1>5 DEF Ahead
<1>7. Looking(s)'
  BY <1>1, <1>2 DEF Looking
<1>8. destination' = Current'
  BY <1>1, Arrived, CurrentKept
<1>9. QED
  BY <1>1, <1>5, <1>6, <1>7, <1>8, RestKept DEF MissionInv

(* A new plan is a flight to the voxel that the search chose. *)
LEMMA TravelKeeps == ASSUME MissionInv, Travel PROVE MissionInv'
<1>1. PICK route \in NearestRoutes :
        /\ destination' = Last(route)
        /\ plan' = Tail(BuildRouteCommands(route))
        /\ Issue(Head(BuildRouteCommands(route)))
  BY DEF Travel
<1>. PICK s, v : s = BuildRouteCommands(route) /\ v = Last(route)
  OBVIOUS
<1>2. /\ pc = "decide" /\ plan = << >> /\ plan' = Tail(s) /\ command' = Head(s) /\ pc' = "obey"
      /\ destination' = v /\ InGrid(Output, Current)
      /\ UNCHANGED <<config, world, map, position, heading, status>>
  BY <1>1 DEF Travel, Deciding, Issue, pose, result
<1>3. Free(position)
  BY <1>2 DEF MissionInv, Free, Current
<1>4. /\ config \in Configs /\ world \in WorldsOf(config) /\ DOMAIN map = Voxels(Output)
      /\ position \in Positions /\ heading \in 0 .. 359 /\ IsTrue(map)
  BY DEF MissionInv
<1>5. route \in Ways /\ Last(route) # Current
  BY <1>4, RoutesAreWays
<1>6. /\ s # << >>
      /\ \E to \in Pose : /\ Flight(s, [at |-> position, facing |-> heading], to)
                          /\ IndexOf(Output, to.at) = v
  BY <1>3, <1>4, <1>5, RouteCommandsLead
<1>7. s \in Seq(Orders \cup Scans)
  <2>1. s \in Seq(Orders)
    BY <1>6 DEF Flight, Tracks
  <2>2. QED
    BY <2>1
<1>8. <<Head(s)>> \o Tail(s) = s /\ Tail(s) \in Seq(Orders \cup Scans)
  BY <1>6, <1>7, HeadAndTail
<1>9. Ahead' = s
  BY <1>2, <1>8 DEF Ahead
<1>10. Flying(s)'
  <2>1. Free(position)'
    BY <1>2, <1>3, FixedWorld
  <2>2. \A to : IndexOf(Output, to.at)' = IndexOf(Output, to.at)
    BY <1>2, FixedGrids
  <2>3. \A to : Flight(s, [at |-> position, facing |-> heading], to)'
                  = Flight(s, [at |-> position, facing |-> heading], to)
    BY <1>2, FixedFlights
  <2>4. QED
    BY <1>2, <1>6, <2>1, <2>2, <2>3 DEF Flying
<1>11. QED
  BY <1>2, <1>8, <1>9, <1>10, RestKept DEF MissionInv

(* A drone in flight. *)
LEMMA InFlight ==
  ASSUME MissionInv, pc = "obey", Flying(Ahead)
  PROVE  \E m \in Moves, b \in Pose, to \in Pose :
           /\ command = Moving(m) /\ Leg(Moving(m), [at |-> position, facing |-> heading], b)
           /\ Flight(plan, b, to) /\ IndexOf(Output, to.at) = destination
<1>1. plan \in Seq(Orders \cup Scans) /\ Ahead = <<command>> \o plan
  BY DEF MissionInv, Ahead
<1>. PICK s : s = Ahead
  OBVIOUS
<1>2. Head(s) = command /\ Tail(s) = plan /\ s # << >>
  BY <1>1, OneMoreAhead
<1>3. PICK to \in Pose : /\ Flight(s, [at |-> position, facing |-> heading], to)
                         /\ IndexOf(Output, to.at) = destination
  BY DEF Flying
<1>4. PICK b \in Pose : Leg(command, [at |-> position, facing |-> heading], b) /\ Flight(plan, b, to)
  BY <1>2, <1>3, FlightBegins
<1>5. PICK m \in Moves : command = Moving(m)
  BY <1>4 DEF Leg
<1>6. QED
  BY <1>3, <1>4, <1>5

(* A drone that looks around. *)
LEMMA InLooking ==
  ASSUME MissionInv, pc = "obey", Looking(Ahead)
  PROVE  /\ \E relative \in [horizontal : Int, altitude : Int] :
              command = Scan(relative) /\ Looks(heading, relative)
         /\ Looking(plan)
<1>1. plan \in Seq(Orders \cup Scans) /\ Ahead = <<command>> \o plan
  BY DEF MissionInv, Ahead
<1>. PICK s : s = Ahead
  OBVIOUS
<1>2. Head(s) = command /\ Tail(s) = plan /\ s # << >>
  BY <1>1, OneMoreAhead
<1>3. /\ s \in Seq(Scans)
      /\ \A i \in 1 .. Len(s) : \E relative \in [horizontal : Int, altitude : Int] :
           s[i] = Scan(relative) /\ Looks(heading, relative)
  BY DEF Looking
<1>4. Len(s) \in Nat \ {0} /\ Head(s) = s[1]
  BY <1>2, <1>3
<1>5. 1 \in 1 .. Len(s)
  BY <1>4
<1>6. plan \in Seq(Scans) /\ Len(plan) = Len(s) - 1 /\ \A i \in 1 .. Len(plan) : plan[i] = s[i + 1]
  <2>1. s \in Seq(Scans)
    BY <1>3
  <2>2. /\ Tail(s) \in Seq(Scans) /\ Len(Tail(s)) = Len(s) - 1
        /\ \A i \in 1 .. Len(Tail(s)) : Tail(s)[i] = s[i + 1]
    BY ONLY <1>2, <2>1
  <2>3. QED
    BY <1>2, <2>2
<1>7. \A i \in 1 .. Len(plan) : i + 1 \in 1 .. Len(s)
  BY <1>4, <1>6
<1>8. QED
  BY <1>2, <1>3, <1>4, <1>5, <1>6, <1>7 DEF Looking

(* A leg is not refused, nor is anything but a movement. *)
LEMMA RefuseKeeps == ASSUME MissionInv, Refuse PROVE MissionInv'
<1>1. /\ pc = "obey" /\ command.movement # << >> /\ ~IsLegal(Head(command.movement))
      /\ pc' = "settle" /\ status' = "Error"
      /\ UNCHANGED <<config, world, map, position, heading, plan>>
  BY DEF Refuse, pose, algorithm
<1>2. Flying(Ahead)
  <2>1. ASSUME Looking(Ahead) PROVE FALSE
    <3>1. PICK relative : command = Scan(relative)
      BY <1>1, <2>1, InLooking
    <3>2. QED
      BY <1>1, <3>1 DEF Scan, NoCommand
  <2>2. ASSUME Stopping PROVE FALSE
    BY <1>1, <2>2 DEF Stopping, Terminal, NoCommand
  <2>3. QED
    BY <1>1, <2>1, <2>2 DEF MissionInv
<1>3. PICK m \in Moves, b \in Pose :
        command = Moving(m) /\ Leg(Moving(m), [at |-> position, facing |-> heading], b)
  BY <1>1, <1>2, InFlight
<1>4. Head(command.movement) = m
  BY <1>3 DEF Moving, NoCommand
<1>5. ~Unhindered
  <2>1. Unhindered => IsLegal(m)
    BY <1>2, <1>3, LegIsLegal DEF MissionInv, Flying
  <2>2. QED
    BY <1>1, <1>4, <2>1
<1>6. QED
  BY <1>1, <1>5, RestKept DEF MissionInv

(* A leg that is flown leaves the rest of the flight, *)
LEMMA ObeyFlying == ASSUME MissionInv, Obey, Flying(Ahead) PROVE MissionInv'
<1>1. /\ config \in Configs /\ world \in WorldsOf(config) /\ position \in Positions /\ heading \in 0 .. 359
      /\ pc = "obey" /\ plan' = plan /\ UNCHANGED <<config, world, destination>>
  BY DEF MissionInv, Obey, algorithm
<1>2. PICK m \in Moves, b \in Pose, to \in Pose :
        /\ command = Moving(m) /\ Leg(Moving(m), [at |-> position, facing |-> heading], b)
        /\ Flight(plan, b, to) /\ IndexOf(Output, to.at) = destination
  BY <1>1, InFlight
<1>3. /\ command.movement = <<m>> /\ command.scan = << >> /\ command.status = "Working"
      /\ Head(command.movement) = m
  BY <1>2 DEF Moving, NoCommand
<1>4. /\ position' = Moved(m) /\ heading' = Turned(m) /\ map' = map /\ pc' = "decide"
      /\ status' = status
  BY <1>3 DEF Obey
<1>. PICK from : from = [at |-> position, facing |-> heading]
  OBVIOUS
<1>5. Free(b.at) /\ (Turns(m, from, b) \/ Advanced(m, from, b) \/ Elevated(m, from, b))
  <2>1. PICK k \in Moves : /\ Moving(m) = Moving(k)
                           /\ Turns(k, from, b) \/ Advanced(k, from, b) \/ Elevated(k, from, b)
    BY <1>2 DEF Leg
  <2>2. k = m
    <3>1. Moving(m).movement = <<m>> /\ Moving(k).movement = <<k>>
      BY DEF Moving, NoCommand
    <3>2. QED
      BY <2>1, <3>1
  <2>3. QED
    BY <1>2, <2>1, <2>2 DEF Leg
<1>6. position' = b.at /\ heading' = b.facing
  BY <1>1, <1>4, <1>5, LegMoves
<1>7. position' \in Positions /\ heading' \in 0 .. 359
  BY <1>6 DEF Pose
<1>8. Free(position)'
  <2>1. Free(b.at)' = Free(b.at)
    BY <1>1, FixedWorld
  <2>2. QED
    BY <1>5, <1>6, <2>1
<1>. PICK s : s = plan
  OBVIOUS
<1>9. Flying(Ahead)'
  <2>1. Ahead' = s
    BY <1>1, <1>4 DEF Ahead
  <2>2. Flight(s, b, to)' = Flight(s, b, to)
    BY <1>1, FixedFlights
  <2>3. b = [at |-> b.at, facing |-> b.facing]
    BY DEF Pose
  <2>4. Flight(s, [at |-> position, facing |-> heading], to)'
    BY <1>2, <1>6, <2>2, <2>3
  <2>5. IndexOf(Output, to.at)' = destination'
    BY <1>1, <1>2, FixedGrids
  <2>6. QED
    BY <1>8, <2>1, <2>4, <2>5 DEF Flying
<1>10. Unhindered' = Unhindered
  BY <1>1, FixedGrids DEF Unhindered
<1>11. Voxels(Output)' = Voxels(Output) /\ IsTrue(map)' = IsTrue(map)
  BY <1>1, <1>4, FixedGrids, FixedWorld
<1>12. QED
  BY <1>1, <1>4, <1>7, <1>8, <1>9, <1>10, <1>11 DEF MissionInv, Free

(* a look leaves a map that is true, *)
LEMMA ObeyLooking ==
  ASSUME MissionInv, Obey, Looking(Ahead), destination = Current
  PROVE  MissionInv'
<1>1. /\ config \in Configs /\ world \in WorldsOf(config) /\ position \in Positions /\ heading \in 0 .. 359
      /\ DOMAIN map = Voxels(Output) /\ IsTrue(map)
      /\ pc = "obey" /\ plan' = plan /\ UNCHANGED <<config, world, destination>>
  BY DEF MissionInv, Obey, algorithm
<1>2. PICK relative \in [horizontal : Int, altitude : Int] :
        command = Scan(relative) /\ Looks(heading, relative)
  BY <1>1, InLooking
<1>3. /\ command.movement = << >> /\ command.scan = <<relative>> /\ command.status = "Working"
      /\ Head(command.scan) = relative
  BY <1>2 DEF Scan, NoCommand
<1>4. /\ position' = position /\ heading' = heading /\ pc' = "decide" /\ status' = status
      /\ map' = Recorded(position, heading, relative)
  BY <1>3 DEF Obey, pose
<1>. PICK after : after = Recorded(position, heading, relative)
  OBVIOUS
<1>5. IsTrue(after)
  BY <1>1, <1>2, RecordedIsTrue
<1>6. DOMAIN after = Voxels(Output)
  BY <1>1, ApplyToMapKeeps DEF Recorded
<1>7. /\ (DOMAIN map)' = Voxels(Output)' /\ IsTrue(map)' /\ Unhindered' = Unhindered
      /\ VoxelsNest' = VoxelsNest /\ IsSolid(position)' = IsSolid(position) /\ Current' = Current
  <2>1. IsTrue(after)' = IsTrue(after) /\ IsSolid(position)' = IsSolid(position)
    BY <1>1, <1>4, FixedWorld
  <2>2. Voxels(Output)' = Voxels(Output) /\ VoxelsNest' = VoxelsNest
    BY <1>1, FixedGrids
  <2>3. Unhindered' = Unhindered
    BY <1>1, FixedGrids DEF Unhindered
  <2>4. Current' = Current
    BY <1>1, <1>4, CurrentKept
  <2>5. QED
    BY <1>4, <1>5, <1>6, <2>1, <2>2, <2>3, <2>4
<1>. PICK s : s = plan
  OBVIOUS
<1>8. Looking(Ahead)'
  <2>1. Ahead' = s
    BY <1>1, <1>4 DEF Ahead
  <2>2. Looking(s)
    BY <1>1, InLooking
  <2>3. Looking(s)' = Looking(s)
    BY <1>4 DEF Looking
  <2>4. QED
    BY <2>1, <2>2, <2>3
<1>9. QED
  BY <1>1, <1>4, <1>7, <1>8 DEF MissionInv

(* and the end of the mission leaves everything. *)
LEMMA ObeyStopping == ASSUME MissionInv, Obey, Stopping PROVE MissionInv'
<1>1. command.movement = << >> /\ command.scan = << >> /\ command.status # "Working"
  BY DEF Stopping, Terminal, NoCommand
<1>2. /\ UNCHANGED <<config, world, map, position, heading, plan>>
      /\ pc' = "settle" /\ status' = "Completed"
  BY <1>1 DEF Obey, pose, algorithm
<1>3. QED
  BY <1>2, RestKept DEF MissionInv

(* It holds after every step. *)
LEMMA MissionGoesOn == ASSUME MissionInv, [Next]_vars PROVE MissionInv'
<1>1. CASE Drain
  BY <1>1, DrainKeeps
<1>2. CASE LeaveOutside
  BY <1>2, LeaveKeeps
<1>3. CASE Survey
  BY <1>3, SurveyKeeps
<1>4. CASE Travel
  BY <1>4, TravelKeeps
<1>5. CASE GiveUp
  BY <1>5, GiveUpKeeps
<1>6. CASE Refuse
  BY <1>6, RefuseKeeps
<1>7. CASE Obey
  <2>1. Flying(Ahead) \/ ((Looking(Ahead) \/ Stopping) /\ destination = Current)
    BY <1>7 DEF Obey, MissionInv
  <2>2. QED
    BY <1>7, <2>1, ObeyFlying, ObeyLooking, ObeyStopping
<1>8. CASE Settle
  <2>1. UNCHANGED <<config, world, map, position, heading, plan, status>> /\ pc' = "done"
    BY <1>8 DEF Settle, pose, algorithm
  <2>2. QED
    BY <2>1, RestKept DEF MissionInv
<1>9. CASE UNCHANGED vars
  <2>1. UNCHANGED <<config, world, map, position, heading, plan, status, pc, command, destination>>
    BY <1>9 DEF vars, pose, algorithm, result
  <2>. PICK s : s = Ahead
    OBVIOUS
  <2>2. Ahead' = s
    BY <2>1 DEF Ahead
  <2>3. Looking(s)' = Looking(s) /\ Stopping' = Stopping
    BY <2>1 DEF Looking, Stopping
  <2>4. Flying(s)' = Flying(s)
    BY <2>1, FlyingKept
  <2>5. Current' = Current
    BY <2>1, CurrentKept
  <2>6. QED
    BY <2>1, <2>2, <2>3, <2>4, <2>5, RestKept DEF MissionInv
<1>10. QED
  BY <1>1, <1>2, <1>3, <1>4, <1>5, <1>6, <1>7, <1>8, <1>9 DEF Next, Done

(* Whatever the world and the configuration, through every flight: the map *)
(* is true, the drone is in no wall, and what is still to be obeyed are    *)
(* looks around or the legs of a flight to the chosen voxel.               *)
THEOREM MissionInvariant == Spec => []MissionInv
BY MissionBegins, MissionGoesOn, PTL DEF Spec

-----------------------------------------------------------------------------
(* What it means. *)

(* The drone is never inside a wall, whatever the world and whatever the     *)
(* limits, when voxels nest: every leg of every flight goes through places   *)
(* that a beam has told to be free (MappingAlgorithmImpl::planRoute).        *)
THEOREM NeverInsideAWallWhenVoxelsNestHolds == Spec => []NeverInsideAWallWhenVoxelsNest
<1>1. MissionInv => NeverInsideAWallWhenVoxelsNest
  BY DEF MissionInv, NeverInsideAWallWhenVoxelsNest
<1>2. QED
  BY <1>1, MissionInvariant, PTL

(* What a mission's scans have claimed is so (ScanResultToVoxels).           *)
THEOREM MapTellsTheTruthHolds == Spec => []MapTellsTheTruth
<1>1. MissionInv => MapTellsTheTruth
  BY DEF MissionInv, IsTrue, MapTellsTheTruth
<1>2. QED
  BY <1>1, MissionInvariant, PTL

(* Whoever asks only for whole voxels is never refused: every leg that is    *)
(* planned is one that DroneControlImpl::step finds legal.                   *)
THEOREM NeverRefusedInWholeVoxelsHolds == Spec => []NeverRefusedInWholeVoxels
<1>1. MissionInv => NeverRefusedInWholeVoxels
  BY DEF MissionInv, Unhindered, NeverRefusedInWholeVoxels
<1>2. QED
  BY <1>1, MissionInvariant, PTL

(* A plan that has run out has led to the voxel the search chose             *)
(* (MappingAlgorithmImpl::buildRouteCommands).                               *)
THEOREM ArrivesWhereThePlanLeadsHolds == Spec => []ArrivesWhereThePlanLeads
<1>1. MissionInv => ArrivesWhereThePlanLeads
  BY Arrived DEF ArrivesWhereThePlanLeads
<1>2. QED
  BY <1>1, MissionInvariant, PTL

-----------------------------------------------------------------------------
(* The centre of a voxel of the world lies in it, and,                       *)
LEMMA CentreIsInside ==
  ASSUME config \in Configs, NEW w \in Voxels(Hidden)
  PROVE  /\ w \in Positions /\ CentreOf(Hidden, w) \in Positions
         /\ IndexOf(Hidden, CentreOf(Hidden, w)) = w
         /\ \A a \in Axes : CentreOf(Hidden, w)[a]
              = w[a] * config.mapResolution + config.mapResolution \div 2
<1>. PICK R \in Nat \ {0} : R = config.mapResolution
  BY Resolutions
<1>. PICK half \in Int : half = R \div 2 /\ 0 <= half /\ half < R
  OBVIOUS
<1>1. w \in Positions
  BY Grids, VoxelsAreTriples
<1>. PICK p : p = CentreOf(Hidden, w)
  OBVIOUS
<1>2. p = [a \in Axes |-> Hidden.origin[a] + w[a] * R + half]
  BY Grids DEF CentreOf
<1>3. ASSUME NEW a \in Axes PROVE p[a] = w[a] * R + half /\ p[a] \in Int
  <2>1. w[a] \in Int /\ w[a] * R \in Int
    BY <1>1 DEF Positions
  <2>2. p[a] = Hidden.origin[a] + w[a] * R + half /\ Hidden.origin[a] = 0
    BY <1>2, Grids
  <2>3. QED
    BY <2>1, <2>2
<1>4. p \in Positions
  BY <1>2, <1>3 DEF Positions
<1>5. ASSUME NEW a \in Axes PROVE p[a] \div R = w[a]
  <2>1. w[a] \in Int /\ w[a] * R <= p[a] /\ p[a] < w[a] * R + R
    BY <1>1, <1>3 DEF Positions
  <2>2. QED
    BY <1>3, <2>1, DivUnique
<1>6. IndexOf(Hidden, p) = w
  BY <1>1, <1>4, <1>5, IndexType, SamePosition
<1>7. QED
  BY <1>1, <1>3, <1>4, <1>6

(* on one grid of voxels, in the one output voxel that covers it.            *)
LEMMA CoveredByOneVoxel ==
  ASSUME config \in Configs, GridsAlign, OutputResolution = config.mapResolution,
         NEW w \in Voxels(Hidden), NEW v \in Voxels(Output), w \in Covered(v)
  PROVE  v = IndexOf(Output, CentreOf(Hidden, w))
<1>. PICK R \in Nat \ {0} : R = config.mapResolution
  BY Resolutions
<1>. PICK half \in Int : half = R \div 2 /\ 0 <= half /\ half < R
  OBVIOUS
<1>. PICK p : p = CentreOf(Hidden, w)
  OBVIOUS
<1>1. w \in Positions /\ v \in Positions /\ p \in Positions
  BY CentreIsInside, Grids, VoxelsAreTriples
<1>2. ASSUME NEW a \in Axes PROVE IndexOf(Output, p)[a] = v[a]
  <2>. PICK o \in Int : o = MissionBounds.min[a]
    BY Grids DEF Positions
  <2>. PICK k \in Int : o = k * R
    BY Alignment DEF MultipleOf
  <2>. PICK x \in Int : x = w[a]
    BY <1>1 DEF Positions
  <2>. PICK y \in Int : y = v[a]
    BY <1>1 DEF Positions
  <2>1. o + y * R < (x + 1) * R /\ x * R < o + y * R + R
    BY Grids DEF Covered
  <2>2. (k + y) * R < (x + 1) * R /\ x * R < (k + y + 1) * R
    BY ONLY <2>1, o = k * R, k \in Int, x \in Int, y \in Int, R \in Nat \ {0}
  <2>3. x = k + y
    <3>1. k + y < x + 1
      BY <2>2, MulCancel
    <3>2. x < k + y + 1
      BY <2>2, MulCancel
    <3>3. QED
      BY ONLY <3>1, <3>2, k \in Int, x \in Int, y \in Int
  <2>4. p[a] = x * R + half
    BY CentreIsInside
  <2>5. p[a] - o = y * R + half
    BY ONLY <2>3, <2>4, o = k * R, k \in Int, x \in Int, y \in Int, R \in Nat \ {0}, half \in Int
  <2>6. y * R \in Int /\ p[a] - o \in Int
    BY <2>5
  <2>7. (p[a] - o) \div R = y
    <3>1. y * R <= p[a] - o /\ p[a] - o < y * R + R
      BY ONLY <2>5, <2>6, 0 <= half, half < R, half \in Int, R \in Nat
    <3>2. QED
      BY <2>6, <3>1, DivUnique
  <2>8. IndexOf(Output, p)[a] = (p[a] - MissionBounds.min[a]) \div OutputResolution
    BY <1>1, IndexType
  <2>9. QED
    BY <2>7, <2>8
<1>3. QED
  BY <1>1, <1>2, IndexType, SamePosition

(* There the map is looked up: what it finds occupied is a wall, and every   *)
(* wall of which a part is known is found.                                   *)
LEMMA FoundAtTheCentre ==
  ASSUME config \in Configs, GridsAlign, OutputResolution = config.mapResolution,
         DOMAIN map = Voxels(Output), IsTrue(map), NEW w \in Voxels(Hidden)
  PROVE  /\ OccupiedInOutput(w) => w \in world
         /\ OccupiedInOutput(w) <=> \E v \in DOMAIN map : w \in Covered(v) /\ map[v] = "Occupied"
<1>. PICK p : p = CentreOf(Hidden, w)
  OBVIOUS
<1>1. p \in Positions /\ IndexOf(Hidden, p) = w
  BY CentreIsInside
<1>. PICK u : u = IndexOf(Output, p)
  OBVIOUS
<1>2. u \in Voxels(Output) <=> InGrid(Output, u)
  BY <1>1, IndexType, Grids, VoxelsAreTriples
<1>3. OccupiedInOutput(w) <=> u \in DOMAIN map /\ map[u] = "Occupied"
  BY <1>2 DEF OccupiedInOutput, AtVoxel
<1>4. ASSUME u \in DOMAIN map, map[u] = "Occupied"
      PROVE  w \in Covered(u) /\ w \in world
  <2>. PICK x \in Covered(u) \cap world : TRUE
    BY <1>4 DEF IsTrue
  <2>1. x = w
    BY <1>1, CoveredIsOneCell
  <2>2. QED
    BY <2>1
<1>5. ASSUME NEW v \in DOMAIN map, w \in Covered(v) PROVE v = u
  BY <1>5, CoveredByOneVoxel
<1>6. QED
  BY <1>3, <1>4, <1>5

(* The comparison of MapsComparison::compare is exact on one grid of voxels. *)
LEMMA CompareIsExact ==
  ASSUME config \in Configs, world \in WorldsOf(config), GridsAlign,
         OutputResolution = config.mapResolution, world # {},
         DOMAIN map = Voxels(Output), IsTrue(map)
  PROVE  Compare.both = FoundWallsCount /\ Compare.either = Cardinality(world)
<1>1. world \subseteq Voxels(Hidden)
  BY WorldsAssumption DEF Voxels, Hidden
<1>2. {v \in Voxels(Hidden) : v \in world \/ OccupiedInOutput(v)} = world
  BY <1>1, FoundAtTheCentre
<1>3. {v \in world : v \in world /\ OccupiedInOutput(v)}
        = {w \in world : \E v \in DOMAIN map : w \in Covered(v) /\ map[v] = "Occupied"}
  BY <1>1, FoundAtTheCentre
<1>4. Compare = [both |-> Cardinality({v \in world : v \in world /\ OccupiedInOutput(v)}),
                 either |-> Cardinality(world)]
  BY <1>2 DEF Compare
<1>5. QED
  BY <1>3, <1>4 DEF FoundWallsCount

(* A mission that is over has been scored by that comparison, and nothing    *)
(* that it depends on changes any more.                                      *)
ScoredInv == pc = "done" /\ status # "Error" => score = Compare

(* No step changes that. *)
LEMMA ScoreStays == ScoredInv /\ [Next]_vars => ScoredInv'
<1>. SUFFICES ASSUME ScoredInv, [Next]_vars PROVE ScoredInv'
  OBVIOUS
<1>1. ASSUME UNCHANGED <<config, world, map>> PROVE Compare' = Compare
  BY <1>1 DEF Compare, OccupiedInOutput, Hidden, Output, MissionBounds, Translated, OutputResolution
<1>2. CASE Settle
  <2>1. UNCHANGED <<config, world, map, status>> /\ (status # "Error" => score' = Compare)
    BY <1>2 DEF Settle
  <2>2. QED
    BY <1>1, <2>1 DEF ScoredInv
<1>3. CASE UNCHANGED vars
  <2>1. UNCHANGED <<config, world, map, status, pc, score>>
    BY <1>3 DEF vars, result
  <2>2. QED
    BY <1>1, <2>1 DEF ScoredInv
<1>4. CASE Drain \/ LeaveOutside \/ Survey \/ Travel \/ GiveUp
  <2>1. pc' = "obey"
    BY <1>4 DEF Drain, LeaveOutside, Survey, Travel, GiveUp, Issue
  <2>2. QED
    BY <2>1 DEF ScoredInv
<1>5. CASE Refuse \/ Obey
  <2>1. pc' \in {"decide", "settle"}
    BY <1>5 DEF Refuse, Obey
  <2>2. QED
    BY <2>1 DEF ScoredInv
<1>6. QED
  BY <1>2, <1>3, <1>4, <1>5 DEF Next, Done

(* With both maps on one grid of voxels the score is exact.                  *)
THEOREM ScoreIsExactHolds == Spec => []ScoreIsExact
<1>1. Init => ScoredInv
  BY DEF Init, ScoredInv
<1>2. MissionInv /\ ScoredInv => ScoreIsExact
  BY CompareIsExact DEF MissionInv, ScoredInv, ScoreIsExact
<1>3. QED
  BY <1>1, <1>2, ScoreStays, MissionInvariant, PTL DEF Spec

-----------------------------------------------------------------------------
(* Types. *)

(* What a voxel of the output map may hold. *)
Observations == {"Unmapped", "PotentiallyOccupied", "Empty", "Occupied"}

(* Marking voxels with an observation leaves a map of observations.          *)
LEMMA MarkedType ==
  ASSUME NEW D, NEW m \in [D -> Observations], NEW voxels, NEW value \in Observations
  PROVE  Marked(m, voxels, value) \in [D -> Observations]
BY DEF Marked

(* So does a scan.                                                           *)
LEMMA ApplyToMapType ==
  ASSUME NEW D, NEW m \in [D -> Observations], NEW origin, NEW direction, NEW distance
  PROVE  ApplyToMap(m, origin, direction, distance) \in [D -> Observations]
<1>1. {"PotentiallyOccupied", "Empty", "Occupied"} \subseteq Observations
  BY DEF Observations
<1>. DEFINE free == Marked(m, Segment(origin, direction, distance), "Empty")
<1>2. free \in [D -> Observations]
  BY <1>1, MarkedType
<1>. HIDE DEF free
<1>3. \A voxels : Marked(free, voxels, "Occupied") \in [D -> Observations]
  BY <1>1, <1>2, MarkedType
<1>4. \A voxels : /\ Marked(m, voxels, "Empty") \in [D -> Observations]
                  /\ Marked(m, voxels, "PotentiallyOccupied") \in [D -> Observations]
  BY <1>1, MarkedType
<1>5. QED
  BY <1>3, <1>4 DEF ApplyToMap, free

(* The types of a mission's state: the map keeps its grid and holds          *)
(* observations only, and only voxels of it are ever surveyed.               *)
THEOREM TypesHold == Spec => []TypeOK
<1>1. Init => TypeOK
  <2>. SUFFICES ASSUME Init PROVE TypeOK
    OBVIOUS
  <2>1. map \in [Voxels(Output) -> Observations]
    BY DEF Init, EmptyMap, Observations
  <2>2. heading \in 0 .. 359
    BY MissionAssumption DEF Init
  <2>3. QED
    BY <2>1, <2>2 DEF Init, TypeOK, Observations
<1>2. MissionInv /\ TypeOK /\ MissionInv' /\ [Next]_vars => TypeOK'
  <2>. SUFFICES ASSUME MissionInv, TypeOK, MissionInv', [Next]_vars PROVE TypeOK'
    OBVIOUS
  <2>1. config \in Configs /\ heading' \in 0 .. 359 /\ map \in [Voxels(Output) -> Observations]
    BY DEF MissionInv, TypeOK, Observations
  <2>2. UNCHANGED <<config, world>>
    BY DEF Next, vars, Drain, LeaveOutside, Survey, Travel, GiveUp, Issue, Refuse, Obey, Settle, Done
  <2>3. Voxels(Output)' = Voxels(Output)
    <3>1. Output' = Output
      BY <2>2, FixedGrids
    <3>2. QED
      BY <3>1 DEF Voxels
  <2>4. map' \in [Voxels(Output) -> Observations]
    <3>1. CASE map' = map
      BY <2>1, <3>1
    <3>2. CASE Obey /\ map' # map
      <4>1. \E origin, direction, distance : map' = ApplyToMap(map, origin, direction, distance)
        BY <3>2 DEF Obey, Recorded
      <4>2. QED
        BY <2>1, <4>1, ApplyToMapType
    <3>3. map' = map \/ Obey
      BY DEF Next, vars, Drain, LeaveOutside, Survey, Travel, GiveUp, Issue, Refuse, Settle, Done
    <3>4. QED
      BY <3>1, <3>2, <3>3
  <2>5. surveyed' \subseteq Voxels(Output)
    <3>1. CASE Survey
      <4>1. InGrid(Output, Current) /\ Current \in Positions
        BY <2>1, <3>1, IndexType DEF Survey, Current, MissionInv
      <4>2. Current \in Voxels(Output)
        BY <2>1, <4>1, Grids, VoxelsAreTriples
      <4>3. QED
        BY <3>1, <4>2 DEF Survey, TypeOK
    <3>2. CASE surveyed' = surveyed
      BY <3>2 DEF TypeOK
    <3>3. QED
      BY <3>1, <3>2 DEF Next, vars, algorithm, Drain, LeaveOutside, Travel, GiveUp, Refuse, Obey,
                        Settle, Done
  <2>6. status' \in {"MaxSteps", "Completed", "Error"}
    BY DEF TypeOK, Next, vars, result, Drain, LeaveOutside, Survey, Travel, GiveUp, Issue, Refuse,
           Obey, Settle, Done
  <2>7. pc' \in {"decide", "obey", "settle", "done"}
    BY DEF TypeOK, Next, vars, Drain, LeaveOutside, Survey, Travel, GiveUp, Issue, Refuse,
           Obey, Settle, Done
  <2>8. QED
    BY <2>1, <2>3, <2>4, <2>5, <2>6, <2>7 DEF TypeOK, Observations
<1>3. QED
  BY <1>1, <1>2, MissionInvariant, PTL DEF Spec

-----------------------------------------------------------------------------
(* What a scan makes known (for EverythingReachableIsMapped). *)

(* The sensor can tell what lies next to the drone, from a free start. *)
CanExplore == VoxelsNest /\ SensorResolves /\ IsFree(StartVoxel)

(* What marking voxels claims of each of them.                               *)
LEMMA MarkedClaims ==
  ASSUME NEW m, NEW voxels, NEW value, NEW v \in DOMAIN m, v \in voxels
  PROVE  OccupancyPriority(Marked(m, voxels, value)[v]) >= OccupancyPriority(value)
<1>1. OccupancyPriority(value) \in Nat /\ OccupancyPriority(m[v]) \in Nat
  BY PriorityIsNat
<1>2. CASE OccupancyPriority(value) > OccupancyPriority(m[v])
  <2>1. Marked(m, voxels, value)[v] = value
    BY <1>2 DEF Marked
  <2>2. QED
    BY <1>1, <2>1
<1>3. CASE ~(OccupancyPriority(value) > OccupancyPriority(m[v]))
  <2>1. Marked(m, voxels, value)[v] = m[v]
    BY <1>3 DEF Marked
  <2>2. QED
    BY <1>1, <1>3, <2>1
<1>4. QED
  BY <1>2, <1>3

(* A beam that tells nothing has struck something near.                      *)
LEMMA BeamIsBlind ==
  ASSUME config \in Configs, NEW o, NEW d,
         NEW M \in Nat \ {0}, M = March(config.mapResolution), NEW n \in Nat, n = config.zMax \div M,
         TraceBeam(o, d) = 0
  PROVE  \E e \in 0 .. n : /\ IsSolid(PointAlongBeam(o, d, e * M))
                           /\ e = 0 \/ e * M < config.zMin
<1>. PICK hits : hits = {i \in 0 .. n : IsSolid(PointAlongBeam(o, d, i * M))}
  OBVIOUS
<1>1. TraceBeam(o, d) = IF hits = {} THEN Miss
                        ELSE IF Min(hits) * M < config.zMin THEN 0 ELSE Min(hits) * M
  BY DEF TraceBeam
<1>2. hits # {}
  BY <1>1 DEF Miss
<1>. PICK e : e = Min(hits)
  OBVIOUS
<1>3. e \in hits
  <2>1. hits \subseteq Nat
    OBVIOUS
  <2>2. QED
    BY <1>2, <2>1, MinIsLeast
<1>4. e * M < config.zMin \/ e * M = 0
  BY <1>1, <1>2
<1>5. e * M = 0 => e = 0
  BY <1>3
<1>6. QED
  BY <1>3, <1>4, <1>5

(* A place at the distance of a sample of a segment is in it.                *)
LEMMA InSegment ==
  ASSUME config \in Configs, NEW o, NEW d, NEW end \in Nat, NEW i \in Nat,
         i * March(OutputResolution) <= end
  PROVE  IndexOf(Output, PointAlongBeam(o, d, i * March(OutputResolution))) \in Segment(o, d, end)
<1>. PICK step \in Nat \ {0} : step = March(OutputResolution)
  BY Resolutions
<1>. PICK last \in Int : last = end \div step
  BY DivBounds
<1>1. end < last * step + step
  BY ONLY end \in Nat, step \in Nat \ {0}, last = end \div step, DivBounds
<1>2. i <= last
  <2>1. (last + 1) * step = last * step + step /\ i * step \in Int /\ last * step \in Int
    OBVIOUS
  <2>2. i * step < (last + 1) * step
    BY <1>1, <2>1
  <2>3. i < last + 1
    BY <2>2, MulCancel
  <2>4. QED
    BY <2>3
<1>3. i \in 0 .. end \div step
  BY <1>2
<1>4. QED
  BY <1>3 DEF Segment

(* A scan from free space in a voxel: the voxel, and the next along the beam. *)
ScansFrom(o, u, d, w) ==
  /\ config \in Configs /\ world \in WorldsOf(config) /\ VoxelsNest /\ SensorResolves
  /\ o \in Positions /\ u = IndexOf(Output, o) /\ IsFree(u)
  /\ d \in UnitVectors /\ w = PointAlongBeam(u, d, 1)
  /\ DOMAIN map = Voxels(Output)

(* As far as an edge, a beam is in the one or in the other; where it strikes *)
(* something it is in the other.                                             *)
LEMMA BeamGoesOn ==
  ASSUME NEW o, NEW u, NEW d, NEW w, ScansFrom(o, u, d, w), NEW t \in 0 .. OutputResolution
  PROVE  /\ InGrid(Output, u)
         /\ IndexOf(Output, PointAlongBeam(o, d, 0)) = u
         /\ IndexOf(Output, PointAlongBeam(o, d, OutputResolution)) = w
         /\ IndexOf(Output, PointAlongBeam(o, d, t)) \in {u, w}
         /\ IsSolid(PointAlongBeam(o, d, t)) =>
              IndexOf(Output, PointAlongBeam(o, d, t)) = w /\ Covered(w) \cap world # {}
<1>0. /\ config \in Configs /\ world \in WorldsOf(config) /\ o \in Positions /\ d \in UnitVectors
      /\ u = IndexOf(Output, o) /\ w = PointAlongBeam(u, d, 1)
      /\ u \in Voxels(Output) /\ Covered(u) \cap world = {}
  BY DEF ScansFrom, IsFree
<1>. d \in Positions
  BY <1>0, UnitVectorFacts
<1>1. InGrid(Output, u)
  <2>1. Output.size \in [Axes -> Int]
    BY <1>0, Grids
  <2>2. QED
    BY <1>0, <2>1, VoxelsAreTriples
<1>2. IndexOf(Output, PointAlongBeam(o, d, 0)) = u
  BY <1>0, PointHere
<1>3. /\ IndexOf(Output, PointAlongBeam(o, d, OutputResolution)) = w
      /\ IndexOf(Output, PointAlongBeam(o, d, t)) \in {u, w}
  BY <1>0, NextVoxel
<1>4. ASSUME IsSolid(PointAlongBeam(o, d, t))
      PROVE  IndexOf(Output, PointAlongBeam(o, d, t)) = w /\ Covered(w) \cap world # {}
  <2>1. PointAlongBeam(o, d, t) \in Positions
    <3>1. t \in Int
      BY <1>0, Resolutions
    <3>2. QED
      BY <1>0, <3>1, PointType
  <2>2. Covered(IndexOf(Output, PointAlongBeam(o, d, t))) \cap world # {}
    BY <1>0, <1>4, <2>1, SolidIsCovered
  <2>3. QED
    BY <1>0, <1>3, <2>2
<1>5. QED
  BY <1>1, <1>2, <1>3, <1>4

(* The sensor's samples are samples of what is recorded, too.                *)
LEMMA SamplesAreRecorded ==
  ASSUME config \in Configs, GridsAlign, NEW e \in Nat
  PROVE  \E i \in Nat : e * March(config.mapResolution) = i * March(OutputResolution)
<1>. PICK M \in Nat \ {0}, step \in Nat \ {0} :
       M = March(config.mapResolution) /\ step = March(OutputResolution)
  BY Resolutions
<1>1. config.mapResolution = 10 * M /\ OutputResolution = 10 * step
  BY Resolutions
<1>2. PICK k \in Int : 10 * M = k * (10 * step)
  BY <1>1, Alignment DEF MultipleOf
<1>3. M = k * step
  <2>1. k * (10 * step) = 10 * (k * step) /\ k * step \in Int
    OBVIOUS
  <2>2. QED
    BY <1>2, <2>1
<1>4. k \in Nat
  <2>1. 0 * step < k * step
    BY <1>3
  <2>2. 0 < k
    BY <2>1, MulCancel
  <2>3. QED
    BY <2>2
<1>5. e * M = (e * k) * step /\ e * k \in Nat
  BY <1>3, <1>4
<1>6. QED
  BY <1>5

(* The three outcomes of a scan, and what each marks.                        *)
Blinded(o, u, d, w, after) ==
  /\ after = Marked(map, Segment(o, d, config.zMin), "PotentiallyOccupied")
  /\ Covered(w) \cap world # {} /\ w \in Segment(o, d, config.zMin)
  /\ Segment(o, d, config.zMin) \subseteq {u, w}

Clear(o, u, d, w, after) ==
  /\ after = Marked(map, Segment(o, d, config.zMax), "Empty")
  /\ {u, w} \subseteq Segment(o, d, config.zMax)

Struck(o, u, d, w, after) ==
  \E distance, struck :
    /\ after = Marked(Marked(map, Segment(o, d, distance), "Empty"), {struck}, "Occupied")
    /\ u \in Segment(o, d, distance)
    /\ w \in Segment(o, d, distance) \/ w = struck

(* A scan ends in one of them.                                               *)
LEMMA ScanEnds ==
  ASSUME NEW o, NEW u, NEW d, NEW w, ScansFrom(o, u, d, w),
         NEW after, after = ApplyToMap(map, o, d, TraceBeam(o, d))
  PROVE  \/ Blinded(o, u, d, w, after)
         \/ Clear(o, u, d, w, after)
         \/ Struck(o, u, d, w, after)
<1>0. /\ config \in Configs /\ world \in WorldsOf(config) /\ o \in Positions /\ d \in UnitVectors
      /\ u = IndexOf(Output, o) /\ GridsAlign /\ SensorResolves
  BY DEF ScansFrom, VoxelsNest
<1>. PICK M \in Nat \ {0}, step \in Nat \ {0}, r \in Nat \ {0} :
       /\ M = March(config.mapResolution) /\ step = March(OutputResolution)
       /\ r = OutputResolution /\ r = 10 * step
  BY <1>0, Resolutions
<1>. PICK zMin \in Nat, zMax \in Nat : zMin = config.zMin /\ zMax = config.zMax
  BY <1>0, MissionAssumption
<1>1. zMin <= r /\ r <= zMax
  BY <1>0 DEF SensorResolves
<1>. PICK n \in Nat : n = zMax \div M
  OBVIOUS
<1>. PICK distance : distance = TraceBeam(o, d)
  OBVIOUS
<1>2. InGrid(Output, IndexOf(Output, o)) /\ IndexOf(Output, PointAlongBeam(o, d, 0)) = u
  <2>1. 0 \in 0 .. OutputResolution
    OBVIOUS
  <2>2. QED
    BY <1>0, <2>1, BeamGoesOn
<1>3. ASSUME NEW end \in Nat PROVE u \in Segment(o, d, end)
  <2>1. 0 * step = 0 /\ 0 <= end
    OBVIOUS
  <2>2. IndexOf(Output, PointAlongBeam(o, d, 0 * step)) \in Segment(o, d, end)
    BY <1>0, <2>1, InSegment
  <2>3. QED
    BY <1>2, <2>1, <2>2
<1>4. ASSUME NEW end \in Nat, r <= end PROVE w \in Segment(o, d, end)
  <2>1. IndexOf(Output, PointAlongBeam(o, d, 10 * step)) \in Segment(o, d, end)
    BY <1>0, <1>4, InSegment
  <2>2. IndexOf(Output, PointAlongBeam(o, d, r)) = w
    <3>1. 0 \in 0 .. OutputResolution
      OBVIOUS
    <3>2. QED
      BY <3>1, BeamGoesOn
  <2>3. QED
    BY <2>1, <2>2
<1>5. CASE distance = 0
  <2>1. after = Marked(map, Segment(o, d, zMin), "PotentiallyOccupied")
    BY <1>2, <1>5 DEF ApplyToMap
  <2>2. PICK e \in 0 .. n : IsSolid(PointAlongBeam(o, d, e * M)) /\ (e = 0 \/ e * M < zMin)
    BY <1>0, <1>5, BeamIsBlind
  <2>. PICK t \in Nat : t = e * M
    OBVIOUS
  <2>3. t \in 0 .. r
    <3>1. e = 0 => t = 0
      OBVIOUS
    <3>2. QED
      BY <1>1, <2>2, <3>1
  <2>4. IndexOf(Output, PointAlongBeam(o, d, t)) = w /\ Covered(w) \cap world # {}
    BY <2>2, <2>3, BeamGoesOn
  <2>5. w \in Segment(o, d, zMin)
    <3>1. PICK i \in Nat : t = i * step
      BY <1>0, SamplesAreRecorded
    <3>2. t <= zMin
      <4>1. e = 0 => t = 0
        OBVIOUS
      <4>2. QED
        BY <2>2, <4>1
    <3>3. IndexOf(Output, PointAlongBeam(o, d, i * step)) \in Segment(o, d, zMin)
      BY <1>0, <3>1, <3>2, InSegment
    <3>4. QED
      BY <2>4, <3>1, <3>3
  <2>6. ASSUME NEW v \in Segment(o, d, zMin) PROVE v \in {u, w}
    <3>. PICK last \in Int : last = zMin \div step
      BY DivBounds
    <3>1. last * step <= zMin
      BY ONLY zMin \in Nat, step \in Nat \ {0}, last = zMin \div step, DivBounds
    <3>2. PICK i \in 0 .. last : v = IndexOf(Output, PointAlongBeam(o, d, i * step))
      BY <2>6 DEF Segment
    <3>3. i * step <= last * step /\ i * step \in Nat /\ last * step \in Int
      BY MulMono
    <3>4. i * step \in 0 .. r
      BY <1>1, <3>1, <3>3
    <3>5. QED
      BY <3>2, <3>4, BeamGoesOn
  <2>7. QED
    BY <2>1, <2>4, <2>5, <2>6 DEF Blinded
<1>6. CASE distance = Miss
  <2>1. after = Marked(map, Segment(o, d, zMax), "Empty")
    BY <1>2, <1>6 DEF ApplyToMap, Miss
  <2>2. QED
    BY <1>1, <1>3, <1>4, <2>1 DEF Clear
<1>7. ASSUME distance # 0, distance # Miss, NEW e \in 0 .. n, distance = e * M,
             IsSolid(PointAlongBeam(o, d, e * M))
      PROVE  Struck(o, u, d, w, after)
  <2>. PICK t \in Nat : t = distance
    BY <1>7
  <2>. PICK struck : struck = IndexOf(Output, PointAlongBeam(o, d, t))
    OBVIOUS
  <2>1. after = Marked(Marked(map, Segment(o, d, t), "Empty"), {struck}, "Occupied")
    BY <1>2, <1>7 DEF ApplyToMap
  <2>2. t \in 0 .. OutputResolution => w = struck
    BY <1>7, BeamGoesOn
  <2>3. ~(t \in 0 .. OutputResolution) => w \in Segment(o, d, t)
    BY <1>4
  <2>4. QED
    BY <1>3, <2>1, <2>2, <2>3 DEF Struck
<1>8. \/ distance = Miss \/ distance = 0
      \/ \E e \in 0 .. n : distance = e * M /\ IsSolid(PointAlongBeam(o, d, e * M))
  BY <1>0, BeamTells
<1>9. QED
  BY <1>5, <1>6, <1>7, <1>8

(* The strength of each observation. *)
LEMMA Priorities ==
  ASSUME NEW x \in Observations
  PROVE  /\ OccupancyPriority(x) >= 1 => x # "Unmapped"
         /\ OccupancyPriority(x) >= 2 => x \in {"Empty", "Occupied"}
         /\ x = "Empty" => OccupancyPriority(x) = 2
         /\ x = "Occupied" => OccupancyPriority(x) = 3
         /\ x = "PotentiallyOccupied" => OccupancyPriority(x) = 1
BY DEF Observations, OccupancyPriority

(* What the scan tells of the next voxel: it is known afterwards, and known  *)
(* empty when it is free;                                                    *)
LEMMA ScanTells ==
  ASSUME NEW o, NEW u, NEW d, NEW w, ScansFrom(o, u, d, w),
         map \in [Voxels(Output) -> Observations], IsTrue(map), w \in DOMAIN map,
         NEW after, after = ApplyToMap(map, o, d, TraceBeam(o, d))
  PROVE  after[w] # "Unmapped" /\ (IsFree(w) => after[w] = "Empty")
<1>1. after \in [Voxels(Output) -> Observations] /\ DOMAIN after = DOMAIN map
  BY ApplyToMapType, ApplyToMapKeeps
<1>2. IsTrue(after)
  BY RecordingIsTrue DEF ScansFrom
<1>3. CASE Blinded(o, u, d, w, after)
  <2>1. OccupancyPriority(after[w]) >= 1
    <3>1. OccupancyPriority("PotentiallyOccupied") = 1
      BY DEF OccupancyPriority
    <3>2. QED
      BY <1>3, <3>1, MarkedClaims DEF Blinded
  <2>2. ~IsFree(w)
    BY <1>3 DEF Blinded, IsFree
  <2>3. QED
    BY <1>1, <2>1, <2>2, Priorities
<1>4. ASSUME OccupancyPriority(after[w]) >= 2
      PROVE  after[w] # "Unmapped" /\ (IsFree(w) => after[w] = "Empty")
  <2>1. after[w] \in {"Empty", "Occupied"}
    BY <1>1, <1>4, Priorities
  <2>2. after[w] = "Occupied" => ~IsFree(w)
    BY <1>1, <1>2 DEF IsTrue, IsFree
  <2>3. QED
    BY <2>1, <2>2
<1>5. OccupancyPriority("Empty") = 2 /\ OccupancyPriority("Occupied") = 3
  BY DEF OccupancyPriority
<1>6. CASE Clear(o, u, d, w, after)
  <2>1. OccupancyPriority(after[w]) >= 2
    BY <1>5, <1>6, MarkedClaims DEF Clear
  <2>2. QED
    BY <1>4, <2>1
<1>7. CASE Struck(o, u, d, w, after)
  <2>1. PICK distance, struck :
          /\ after = Marked(Marked(map, Segment(o, d, distance), "Empty"), {struck}, "Occupied")
          /\ w \in Segment(o, d, distance) \/ w = struck
    BY <1>7 DEF Struck
  <2>. PICK free : free = Marked(map, Segment(o, d, distance), "Empty")
    OBVIOUS
  <2>2. w \in DOMAIN free
    BY MarkedKeeps
  <2>3. OccupancyPriority(after[w]) \in Nat /\ OccupancyPriority(free[w]) \in Nat
    BY PriorityIsNat
  <2>4. CASE w = struck
    <3>1. OccupancyPriority(after[w]) >= 3
      BY <1>5, <2>1, <2>2, <2>4, MarkedClaims
    <3>2. QED
      BY <1>4, <2>3, <3>1
  <2>5. CASE w \in Segment(o, d, distance)
    <3>1. OccupancyPriority(free[w]) >= 2
      BY <1>5, <2>5, MarkedClaims
    <3>2. OccupancyPriority(after[w]) >= OccupancyPriority(free[w])
      BY <2>1, <2>2, MarkedKeeps
    <3>3. QED
      BY <1>4, <2>3, <3>1, <3>2
  <2>6. QED
    BY <2>1, <2>4, <2>5
<1>8. QED
  BY <1>3, <1>6, <1>7, ScanEnds

(* and of the others: doubt is cast on nothing that is free but the voxel    *)
(* the scan starts in, and that voxel is known empty once any voxel is.      *)
LEMMA ScanSpares ==
  ASSUME NEW o, NEW u, NEW d, NEW w, ScansFrom(o, u, d, w),
         map \in [Voxels(Output) -> Observations], IsTrue(map),
         NEW after, after = ApplyToMap(map, o, d, TraceBeam(o, d)), NEW v \in DOMAIN map
  PROVE  /\ after[v] = "PotentiallyOccupied" =>
              map[v] = "PotentiallyOccupied" \/ v = u \/ ~IsFree(v)
         /\ after[v] = "Empty" => map[v] = "Empty" \/ after[u] = "Empty"
<1>1. after \in [Voxels(Output) -> Observations] /\ DOMAIN after = DOMAIN map
  BY ApplyToMapType, ApplyToMapKeeps
<1>2. IsTrue(after)
  BY RecordingIsTrue DEF ScansFrom
<1>3. u \in DOMAIN map /\ IsFree(u)
  BY DEF ScansFrom, IsFree
<1>4. OccupancyPriority(after[u]) >= 2 => after[u] = "Empty"
  <2>1. after[u] # "Occupied"
    BY <1>1, <1>2, <1>3 DEF IsTrue, IsFree
  <2>2. QED
    BY <1>1, <1>3, <2>1, Priorities
<1>5. OccupancyPriority("Empty") = 2
  BY DEF OccupancyPriority
<1>6. CASE Blinded(o, u, d, w, after)
  <2>1. after[v] = map[v] \/ (v \in Segment(o, d, config.zMin) /\ after[v] = "PotentiallyOccupied")
    BY <1>6, MarkedIs DEF Blinded
  <2>2. v \in Segment(o, d, config.zMin) => v = u \/ ~IsFree(v)
    BY <1>6 DEF Blinded, IsFree
  <2>3. QED
    BY <2>1, <2>2
<1>7. CASE Clear(o, u, d, w, after)
  <2>1. after[v] = map[v] \/ after[v] = "Empty"
    BY <1>7, MarkedIs DEF Clear
  <2>2. OccupancyPriority(after[u]) >= 2
    BY <1>3, <1>5, <1>7, MarkedClaims DEF Clear
  <2>3. QED
    BY <1>4, <2>1, <2>2
<1>8. CASE Struck(o, u, d, w, after)
  <2>1. PICK distance, struck :
          /\ after = Marked(Marked(map, Segment(o, d, distance), "Empty"), {struck}, "Occupied")
          /\ u \in Segment(o, d, distance)
    BY <1>8 DEF Struck
  <2>. PICK free : free = Marked(map, Segment(o, d, distance), "Empty")
    OBVIOUS
  <2>2. DOMAIN free = DOMAIN map
    BY MarkedKeeps
  <2>3. free[v] = map[v] \/ free[v] = "Empty"
    BY MarkedIs
  <2>4. after[v] = free[v] \/ after[v] = "Occupied"
    BY <2>1, <2>2, MarkedIs
  <2>5. OccupancyPriority(after[u]) >= 2
    <3>1. OccupancyPriority(after[u]) \in Nat /\ OccupancyPriority(free[u]) \in Nat
      BY PriorityIsNat
    <3>2. OccupancyPriority(free[u]) >= 2
      BY <1>3, <1>5, <2>1, MarkedClaims
    <3>3. OccupancyPriority(after[u]) >= OccupancyPriority(free[u])
      BY <1>3, <2>1, <2>2, MarkedKeeps
    <3>4. QED
      BY <3>1, <3>2, <3>3
  <2>6. QED
    BY <1>4, <2>3, <2>4, <2>5
<1>9. QED
  BY <1>6, <1>7, <1>8, ScanEnds

-----------------------------------------------------------------------------
(* Neighbours. *)

(* A neighbour is one voxel away along an axis, *)
LEMMA NeighbourAlong ==
  ASSUME NEW u \in Positions, NEW w
  PROVE  AreAdjacent(u, w) <=> \E d \in UnitVectors : w = PointAlongBeam(u, d, 1)
BY DEF AreAdjacent, Neighbours, UnitVectors

(* and so is the voxel from its neighbour.                                  *)
LEMMA AdjacentBothWays ==
  ASSUME NEW u \in Positions, NEW w, AreAdjacent(u, w)
  PROVE  w \in Positions /\ AreAdjacent(w, u)
<1>1. PICK d \in UnitVectors : w = PointAlongBeam(u, d, 1)
  BY NeighbourAlong
<1>. d \in Positions
  BY UnitVectorFacts
<1>2. w \in Positions
  BY <1>1, PointType
<1>3. PICK e \in UnitVectors : \A a \in Axes : e[a] = -d[a]
  BY DEF UnitVectors, Axes
<1>. e \in Positions
  BY UnitVectorFacts
<1>4. u = PointAlongBeam(w, e, 1)
  <2>. PICK x \in Positions : x = PointAlongBeam(w, e, 1)
    BY <1>2, PointType
  <2>1. \A a \in Axes : x[a] = w[a] + 1 * e[a] /\ w[a] = u[a] + 1 * d[a]
    BY <1>1 DEF PointAlongBeam
  <2>2. ASSUME NEW a \in Axes PROVE x[a] = u[a]
    <3>1. u[a] \in Int /\ d[a] \in Int
      BY DEF Positions
    <3>2. QED
      BY <1>3, <2>1, <3>1
  <2>3. QED
    BY <2>2, SamePosition
<1>5. QED
  BY <1>2, <1>4, NeighbourAlong

-----------------------------------------------------------------------------
(* A set that grows within a finite one, as many times as there is room,    *)
Growing(S, most, grow, f) ==
  /\ IsFiniteSet(S) /\ most \in Nat /\ Cardinality(S) <= most + 1
  /\ grow \in [SUBSET S -> SUBSET S] /\ \A X \in SUBSET S : X \subseteq grow[X]
  /\ f \in [0 .. most -> SUBSET S] /\ f[0] # {} /\ \A n \in 1 .. most : f[n] = grow[f[n - 1]]

(* has stopped growing.                                                      *)
LEMMA GrowthSettles ==
  ASSUME NEW S, NEW most, NEW grow, NEW f, Growing(S, most, grow, f)
  PROVE  grow[f[most]] = f[most]
<1>0. /\ IsFiniteSet(S) /\ most \in Nat /\ Cardinality(S) <= most + 1
      /\ grow \in [SUBSET S -> SUBSET S] /\ \A X \in SUBSET S : X \subseteq grow[X]
      /\ f \in [0 .. most -> SUBSET S] /\ f[0] # {} /\ \A n \in 1 .. most : f[n] = grow[f[n - 1]]
  BY DEF Growing
<1>. USE <1>0
<1>1. \A X \in SUBSET S : IsFiniteSet(X) /\ Cardinality(X) \in Nat /\ Cardinality(X) <= Cardinality(S)
  BY FS_Subset, FS_CardinalityType
<1>2. Cardinality(S) \in Nat
  BY FS_CardinalityType
<1>. DEFINE with == {n \in 0 .. most : grow[f[n]] = f[n] \/ Cardinality(f[n]) >= n + 1}
<1>3. 0 \in with
  <2>1. f[0] \in SUBSET S
    OBVIOUS
  <2>2. IsFiniteSet(f[0]) /\ Cardinality(f[0]) \in Nat
    BY <1>1, <2>1
  <2>3. Cardinality(f[0]) # 0
    BY <2>2, FS_EmptySet
  <2>4. QED
    BY <2>2, <2>3
<1>4. ASSUME NEW n \in 0 .. most, n \in with, n < most PROVE n + 1 \in with
  <2>. PICK k \in 1 .. most : k = n + 1
    BY ONLY <1>4, n \in 0 .. most, most \in Nat
  <2>1. k \in 0 .. most /\ k - 1 = n
    OBVIOUS
  <2>2. f[k] = grow[f[n]] /\ f[n] \in SUBSET S /\ f[k] \in SUBSET S
    BY <2>1
  <2>3. CASE grow[f[n]] = f[n]
    BY <2>1, <2>2, <2>3
  <2>4. CASE grow[f[n]] # f[n] /\ Cardinality(f[n]) >= n + 1
    <3>1. f[n] \subseteq f[k] /\ f[n] # f[k]
      BY <2>2, <2>4
    <3>2. IsFiniteSet(f[k])
      BY <1>1, <2>2
    <3>4. Cardinality(f[n]) \in Nat /\ Cardinality(f[k]) \in Nat
      BY <1>1, <2>2
    <3>. PICK A, B : A = f[n] /\ B = f[k]
      OBVIOUS
    <3>3. Cardinality(f[n]) < Cardinality(f[k])
      <4>1. Cardinality(A) <= Cardinality(B) /\ (Cardinality(B) = Cardinality(A) => B = A)
        BY ONLY <3>1, <3>2, A = f[n], B = f[k], FS_Subset
      <4>2. QED
        BY ONLY <3>1, <3>4, <4>1, A = f[n], B = f[k]
    <3>5. QED
      BY <2>1, <2>4, <3>3, <3>4
  <2>5. QED
    BY <1>4, <2>3, <2>4
<1>5. \A n \in 0 .. most : n \in with /\ n < most => n + 1 \in with
  BY <1>4
<1>. HIDE DEF with
<1>6. \A n \in 0 .. most : n \in with
  BY <1>3, <1>5, Onward
<1>7. grow[f[most]] = f[most] \/ Cardinality(f[most]) >= most + 1
  BY <1>6 DEF with
<1>8. CASE Cardinality(f[most]) >= most + 1
  <2>1. f[most] \in SUBSET S
    OBVIOUS
  <2>2. Cardinality(f[most]) = Cardinality(S)
    BY <1>1, <1>2, <1>8, <2>1
  <2>3. f[most] = S
    BY <1>2, <2>1, <2>2, FS_Subset
  <2>4. grow[S] \subseteq S /\ S \subseteq grow[S]
    OBVIOUS
  <2>5. QED
    BY <2>3, <2>4
<1>9. QED
  BY <1>7, <1>8

(* A set of voxels that the drone, once in it, does not leave by flying on.  *)
Closed(C) ==
  \A v \in C, w \in DOMAIN map : AreAdjacent(v, w) /\ map[w] = "Empty" => w \in C

(* Where the search finds no route, no target can be flown to.               *)
LEMMA NothingLeft ==
  ASSUME config \in Configs, DOMAIN map = Voxels(Output), position \in Positions,
         NearestRoutes = {}
  PROVE  \E C \in SUBSET (DOMAIN map \cup {Current}) :
           Current \in C /\ Closed(C) /\ \A v \in C : ~IsTarget(v)
<1>. PICK most \in Nat : \E within, routes : Search(most, within, routes)
  BY SearchUnfolds
<1>. PICK within, routes : Search(most, within, routes)
  OBVIOUS
<1>. DEFINE flyable == {w \in DOMAIN map : Flyable(w)}
            S == flyable \cup {Current}
            Grown(X) == X \cup {w \in DOMAIN map : map[w] = "Empty" /\ \E v \in X : AreAdjacent(v, w)}
            grow == [X \in SUBSET S |-> Grown(X)]
<1>1. /\ most = Cardinality(flyable)
      /\ within \in [0 .. most -> SUBSET Positions] /\ within[0] = {Current}
      /\ \A n \in 1 .. most : within[n] = Grown(within[n - 1])
      /\ routes \in [0 .. most -> SUBSET Ways] /\ routes[0] = {<<Current>>}
      /\ \A n \in 1 .. most : \A r \in routes[n - 1], w \in within[n] \ within[n - 1] :
           AreAdjacent(Last(r), w) => Append(r, w) \in routes[n]
  BY DEF Search
<1>2. IsFiniteSet(S) /\ Cardinality(S) <= most + 1
  <2>1. IsFiniteSet(flyable)
    <3>1. flyable \subseteq Voxels(Output)
      OBVIOUS
    <3>2. QED
      BY <3>1, OutputVoxels, FS_Subset
  <2>. PICK x, F, T : x = Current /\ F = flyable /\ T = F \cup {x}
    OBVIOUS
  <2>2. IsFiniteSet(T) /\ Cardinality(T) = IF x \in F THEN Cardinality(F) ELSE Cardinality(F) + 1
    BY ONLY <2>1, F = flyable, T = F \cup {x}, FS_AddElement
  <2>3. Cardinality(F) = most /\ S = T
    BY <1>1
  <2>4. QED
    BY ONLY <2>2, <2>3, most \in Nat
<1>3. \A X \in SUBSET S : Grown(X) \in SUBSET S /\ X \subseteq Grown(X)
  BY DEF Flyable
<1>. HIDE DEF Grown, S, flyable
<1>4. \A n \in 0 .. most : within[n] \in SUBSET S
  <2>. DEFINE with == {n \in 0 .. most : within[n] \in SUBSET S}
  <2>1. 0 \in with
    BY <1>1 DEF S
  <2>2. ASSUME NEW k \in 0 .. most, k \in with, k < most PROVE k + 1 \in with
    <3>. PICK n \in 1 .. most : n = k + 1
      BY ONLY <2>2, k \in 0 .. most, most \in Nat
    <3>1. n \in 0 .. most /\ n - 1 = k
      OBVIOUS
    <3>2. QED
      BY <1>1, <1>3, <2>2, <3>1
  <2>3. \A k \in 0 .. most : k \in with /\ k < most => k + 1 \in with
    BY <2>2
  <2>. HIDE DEF with
  <2>4. \A k \in 0 .. most : k \in with
    BY <2>1, <2>3, Onward
  <2>5. QED
    BY <2>4 DEF with
<1>. PICK C : C = within[most]
  OBVIOUS
<1>5. Grown(C) = C
  <2>1. grow \in [SUBSET S -> SUBSET S] /\ \A X \in SUBSET S : X \subseteq grow[X]
    BY <1>3
  <2>2. within \in [0 .. most -> SUBSET S] /\ within[0] # {}
    BY <1>1, <1>4
  <2>3. \A n \in 1 .. most : within[n] = grow[within[n - 1]]
    <3>1. \A n \in 1 .. most : n - 1 \in 0 .. most
      OBVIOUS
    <3>2. QED
      BY <1>1, <1>4, <3>1
  <2>4. most \in 0 .. most
    OBVIOUS
  <2>5. C \in SUBSET S
    BY <1>4, <2>4
  <2>6. grow[C] = Grown(C)
    BY <2>5
  <2>. HIDE DEF grow
  <2>. PICK T, g, f : T = S /\ g = grow /\ f = within
    OBVIOUS
  <2>7. g[f[most]] = f[most]
    <3>1. Growing(T, most, g, f)
      BY <1>2, <2>1, <2>2, <2>3 DEF Growing
    <3>2. QED
      BY <3>1, GrowthSettles
  <2>8. QED
    BY <2>6, <2>7
<1>6. Closed(C)
  BY <1>5 DEF Closed, Grown
<1>7. \A n \in 0 .. most : Current \in within[n]
  <2>. DEFINE with == {n \in 0 .. most : Current \in within[n]}
  <2>1. 0 \in with
    BY <1>1
  <2>2. ASSUME NEW k \in 0 .. most, k \in with, k < most PROVE k + 1 \in with
    <3>. PICK n \in 1 .. most : n = k + 1
      BY ONLY <2>2, k \in 0 .. most, most \in Nat
    <3>1. n \in 0 .. most /\ n - 1 = k
      OBVIOUS
    <3>2. QED
      BY <1>1, <2>2, <3>1 DEF Grown
  <2>3. \A k \in 0 .. most : k \in with /\ k < most => k + 1 \in with
    BY <2>2
  <2>. HIDE DEF with
  <2>4. \A k \in 0 .. most : k \in with
    BY <2>1, <2>3, Onward
  <2>5. QED
    BY <2>4 DEF with
<1>8. \A n \in 0 .. most : \A w \in within[n] :
        n = 0 \/ w \notin within[n - 1] => \E r \in routes[n] : Last(r) = w
  <2>. DEFINE Led(n) == \A w \in within[n] :
                n = 0 \/ w \notin within[n - 1] => \E r \in routes[n] : Last(r) = w
              with == {n \in 0 .. most : Led(n)}
  <2>1. 0 \in with
    <3>1. Last(<<Current>>) = Current
      BY DEF Last
    <3>2. QED
      BY <1>1, <3>1
  <2>2. ASSUME NEW k \in 0 .. most, k \in with, k < most PROVE k + 1 \in with
    <3>. PICK n \in 1 .. most : n = k + 1
      BY ONLY <2>2, k \in 0 .. most, most \in Nat
    <3>1. n \in 0 .. most /\ n - 1 = k /\ n # 0
      OBVIOUS
    <3>2. ASSUME NEW w \in within[n], w \notin within[k] PROVE \E r \in routes[n] : Last(r) = w
      <4>1. PICK v \in within[k] : w \in DOMAIN map /\ map[w] = "Empty" /\ AreAdjacent(v, w)
        BY <1>1, <3>1, <3>2 DEF Grown
      <4>2. k = 0 \/ v \notin within[k - 1]
        <5>1. ASSUME k # 0, v \in within[k - 1] PROVE FALSE
          <6>1. k \in 1 .. most
            BY <5>1
          <6>2. within[k] = Grown(within[k - 1])
            BY <1>1, <6>1
          <6>3. QED
            BY <3>2, <4>1, <5>1, <6>2 DEF Grown
        <5>2. QED
          BY <5>1
      <4>3. PICK r \in routes[k] : Last(r) = v
        BY <2>2, <4>2
      <4>4. r \in Ways
        BY <1>1
      <4>5. Append(r, w) \in Ways /\ Last(Append(r, w)) = w
        BY <4>1, <4>3, <4>4, WayOnward
      <4>6. Append(r, w) \in routes[n]
        BY <1>1, <3>1, <3>2, <4>1, <4>3
      <4>7. QED
        BY <4>5, <4>6
    <3>3. Led(n)
      BY <3>1, <3>2
    <3>4. QED
      BY <3>1, <3>3
  <2>3. \A k \in 0 .. most : k \in with /\ k < most => k + 1 \in with
    BY <2>2
  <2>. HIDE DEF with
  <2>4. \A k \in 0 .. most : k \in with
    BY <2>1, <2>3, Onward
  <2>5. QED
    BY <2>4 DEF with
<1>9. \A n \in 0 .. most : \A v \in within[n] : ~IsTarget(v)
  <2>. DEFINE distances == {n \in 0 .. most : \E v \in within[n] : IsTarget(v)}
  <2>1. distances # {} => {r \in routes[Min(distances)] : IsTarget(Last(r))} = {}
    BY DEF Search
  <2>2. ASSUME distances # {} PROVE FALSE
    <3>. PICK least : least = Min(distances)
      OBVIOUS
    <3>1. least \in distances /\ \A n \in distances : least <= n
      <4>1. distances \subseteq Nat
        OBVIOUS
      <4>. HIDE DEF distances
      <4>2. QED
        BY <2>2, <4>1, MinIsLeast
    <3>2. PICK v \in within[least] : IsTarget(v)
      BY <3>1
    <3>3. least = 0 \/ v \notin within[least - 1]
      <4>1. ASSUME least # 0, v \in within[least - 1] PROVE FALSE
        <5>1. least - 1 \in distances
          BY <3>1, <3>2, <4>1
        <5>2. QED
          BY <3>1, <5>1
      <4>2. QED
        BY <4>1
    <3>4. PICK r \in routes[least] : Last(r) = v
      BY <1>8, <3>1, <3>3
    <3>5. QED
      BY <2>1, <2>2, <3>2, <3>4
  <2>3. QED
    BY <2>2
<1>10. most \in 0 .. most
  OBVIOUS
<1>11. C \in SUBSET (DOMAIN map \cup {Current})
  BY <1>4, <1>10 DEF S, flyable
<1>12. QED
  BY <1>6, <1>7, <1>9, <1>10, <1>11

-----------------------------------------------------------------------------
(* What is left when nothing is left to fly to. *)

(* What is connected to the start is in every set that holds the start and  *)
(* the free neighbours of what it holds.                                     *)
LEMMA ConnectedIsWithin ==
  ASSUME config \in Configs, DOMAIN map = Voxels(Output), NEW Q, StartVoxel \in Q,
         \A v \in Q, w \in DOMAIN map : IsFree(w) /\ AreAdjacent(v, w) => w \in Q
  PROVE  ConnectedToStart \subseteq Q
<1>. DEFINE open == {w \in DOMAIN map : IsFree(w)}
            Grown(near) == near \cup {w \in open : \E v \in near : AreAdjacent(v, w)}
            grown == CHOOSE grown :
              grown = [n \in 0 .. Cardinality(open) |->
                IF n = 0 THEN {StartVoxel}
                ELSE LET nearer == grown[n - 1]
                     IN nearer \cup {w \in open : \E v \in nearer : AreAdjacent(v, w)}]
<1>1. ConnectedToStart = grown[Cardinality(open)]
  BY DEF ConnectedToStart
<1>. PICK most \in Nat : most = Cardinality(open)
  <2>1. IsFiniteSet(open)
    <3>1. open \subseteq Voxels(Output)
      OBVIOUS
    <3>2. QED
      BY <3>1, OutputVoxels, FS_Subset
  <2>2. QED
    BY <2>1, FS_CardinalityType
<1>. DEFINE S == SUBSET Q
            step == [a \in S \X (1 .. most) |-> Grown(a[1])]
<1>2. \A near \in S : Grown(near) \in S
  OBVIOUS
<1>3. step \in [S \X (1 .. most) -> S] /\ {StartVoxel} \in S
  BY <1>2
<1>. HIDE DEF Grown, step, S, open
<1>4. PICK f \in [0 .. most -> S] : Recursion(f, most, {StartVoxel}, step)
  BY <1>3, RecursionExists
<1>5. \A i \in 0 .. most : f[i] = IF i = 0 THEN {StartVoxel} ELSE step[<<f[i - 1], i>>]
  BY <1>4 DEF Recursion
<1>6. ASSUME NEW i \in 0 .. most, i # 0 PROVE step[<<f[i - 1], i>>] = Grown(f[i - 1])
  <2>1. i - 1 \in 0 .. most /\ i \in 1 .. most
    BY <1>6
  <2>2. f[i - 1] \in S
    BY <2>1
  <2>3. <<f[i - 1], i>> \in S \X (1 .. most)
    BY <2>1, <2>2
  <2>4. QED
    BY <2>3 DEF step
<1>7. f = [i \in 0 .. most |-> IF i = 0 THEN {StartVoxel} ELSE Grown(f[i - 1])]
  <2>. PICK g : g = [i \in 0 .. most |-> IF i = 0 THEN {StartVoxel} ELSE Grown(f[i - 1])]
    OBVIOUS
  <2>1. \A i \in 0 .. most : f[i] = g[i]
    BY <1>5, <1>6
  <2>2. g = [i \in 0 .. most |-> g[i]] /\ f = [i \in 0 .. most |-> f[i]]
    OBVIOUS
  <2>3. f = g
    BY <2>1, <2>2
  <2>4. QED
    BY <2>3
<1>8. grown = [n \in 0 .. most |-> IF n = 0 THEN {StartVoxel} ELSE Grown(grown[n - 1])]
  <2>. DEFINE Is(g) == g = [n \in 0 .. most |-> IF n = 0 THEN {StartVoxel} ELSE Grown(g[n - 1])]
  <2>1. Is(f)
    BY ONLY <1>7
  <2>2. grown = CHOOSE g : Is(g)
    BY ONLY most = Cardinality(open) DEF Grown
  <2>. HIDE DEF Is, grown
  <2>3. Is(grown)
    BY ONLY <2>1, <2>2
  <2>4. QED
    BY ONLY <2>3 DEF Is
<1>. HIDE DEF grown
<1>9. \A k \in 0 .. most : grown[k] \in S
  <2>. DEFINE with == {k \in 0 .. most : grown[k] \in S}
  <2>1. 0 \in with
    BY <1>3, <1>8
  <2>2. ASSUME NEW k \in 0 .. most, k \in with, k < most PROVE k + 1 \in with
    <3>. PICK n \in 0 .. most : n = k + 1
      BY ONLY <2>2, k \in 0 .. most, most \in Nat
    <3>1. n # 0 /\ n - 1 = k
      OBVIOUS
    <3>2. grown[n] = Grown(grown[k])
      BY <1>8, <3>1
    <3>3. QED
      BY <1>2, <2>2, <3>2
  <2>3. \A k \in 0 .. most : k \in with /\ k < most => k + 1 \in with
    BY <2>2
  <2>. HIDE DEF with
  <2>4. \A k \in 0 .. most : k \in with
    BY <2>1, <2>3, Onward
  <2>5. QED
    BY <2>4 DEF with
<1>10. most \in 0 .. most
  OBVIOUS
<1>11. QED
  BY <1>1, <1>9, <1>10 DEF S

(* A survey has told of the neighbour in a direction.                        *)
Told(v, d) ==
  LET w == PointAlongBeam(v, d, 1)
  IN w \in DOMAIN map => map[w] # "Unmapped" /\ (IsFree(w) => map[w] = "Empty")

(* Whoever flies on from a voxel comes by the start.                         *)
Linked(u) == \A C \in SUBSET DOMAIN map : u \in C /\ Closed(C) => StartVoxel \in C

(* Only doubt about the start may be in error.                               *)
DoubtIsRight == \A v \in DOMAIN map : map[v] = "PotentiallyOccupied" => v = StartVoxel \/ ~IsFree(v)

(* EverythingReachableIsMapped, of the map.                                  *)
Mapped ==
  \A v \in ConnectedToStart, w \in DOMAIN map :
    /\ map[v] = "Empty" \/ v = StartVoxel
    /\ AreAdjacent(v, w) => map[w] # "Unmapped"

(* Where nothing is left to fly to and every survey is over, all is mapped.  *)
LEMMA AllIsMapped ==
  ASSUME config \in Configs, IsTrue(map), map \in [Voxels(Output) -> Observations],
         position \in Positions, IsFree(StartVoxel), DoubtIsRight,
         NearestRoutes = {}, Current \in DOMAIN map, Linked(Current),
         {Current, StartVoxel} \subseteq surveyed,
         \A v \in surveyed, d \in UnitVectors : Told(v, d)
  PROVE  Mapped
<1>0. DOMAIN map = Voxels(Output)
  OBVIOUS
<1>1. PICK C \in SUBSET (DOMAIN map \cup {Current}) :
        Current \in C /\ Closed(C) /\ \A v \in C : ~IsTarget(v)
  BY <1>0, NothingLeft
<1>2. C \in SUBSET DOMAIN map /\ StartVoxel \in C
  BY <1>1 DEF Linked
<1>3. C \subseteq Positions
  BY <1>0, <1>2, OutputVoxels
<1>. DEFINE Q == {v \in C : v = StartVoxel \/ map[v] = "Empty"}
<1>4. ASSUME NEW v \in Q, NEW w \in DOMAIN map, AreAdjacent(v, w)
      PROVE  map[w] # "Unmapped" /\ (IsFree(w) => w = StartVoxel \/ map[w] = "Empty")
  <2>1. CASE v \in surveyed
    <3>1. PICK d \in UnitVectors : w = PointAlongBeam(v, d, 1)
      BY <1>3, <1>4, NeighbourAlong
    <3>2. QED
      BY <2>1, <3>1 DEF Told
  <2>2. CASE v \notin surveyed
    <3>1. v # Current /\ v # StartVoxel /\ map[v] = "Empty" /\ ~IsTarget(v)
      BY <1>1, <2>2
    <3>2. map[w] # "Unmapped"
      BY <1>4, <2>2, <3>1 DEF IsTarget, BordersUnmapped
    <3>3. map[w] \in Observations
      BY <1>0
    <3>4. IsFree(w) => map[w] # "Occupied"
      BY DEF IsTrue, IsFree
    <3>5. IsFree(w) => map[w] # "PotentiallyOccupied" \/ w = StartVoxel
      BY DEF DoubtIsRight
    <3>6. QED
      BY <3>2, <3>3, <3>4, <3>5 DEF Observations
  <2>3. QED
    BY <2>1, <2>2
<1>5. ConnectedToStart \subseteq Q
  <2>1. ASSUME NEW v \in Q, NEW w \in DOMAIN map, IsFree(w), AreAdjacent(v, w) PROVE w \in Q
    <3>1. w = StartVoxel \/ map[w] = "Empty"
      BY <1>4, <2>1
    <3>2. w \in C
      BY <1>1, <1>2, <2>1, <3>1 DEF Closed
    <3>3. QED
      BY <3>1, <3>2
  <2>2. StartVoxel \in Q
    BY <1>2
  <2>. HIDE DEF Q
  <2>3. QED
    BY <1>0, <2>1, <2>2, ConnectedIsWithin
<1>6. QED
  BY <1>4, <1>5 DEF Mapped

-----------------------------------------------------------------------------
(* A mission explores. *)

(* A command that looks in a direction.                                      *)
LooksAlong(c, d) ==
  /\ c.scan # << >>
  /\ d = Direction(AbsoluteBeam(heading, Head(c.scan)).horizontal,
                   AbsoluteBeam(heading, Head(c.scan)).altitude)

(* What is not yet told around a surveyed voxel is about to be looked at.    *)
SurveyGoesOn ==
  \A v \in surveyed :
    /\ IsFree(v)
    /\ \A d \in UnitVectors :
         Told(v, d) \/ (v = Current /\ \E i \in 1 .. Len(Ahead) : LooksAlong(Ahead[i], d))

(* The parts of the exploration that a step that maps nothing keeps.         *)
Charted ==
  /\ destination \in DOMAIN map
  /\ destination = StartVoxel \/ map[destination] = "Empty"
  /\ Linked(destination)
  /\ StartVoxel \in surveyed \/ (surveyed = {} /\ destination = StartVoxel)
  /\ DoubtIsRight
  /\ (\E v \in DOMAIN map : map[v] = "Empty") => map[StartVoxel] = "Empty"

(* The mission has decided to end, or has ended, for lack of targets.        *)
Concluded == (pc = "obey" /\ command.status # "Working") \/ status = "Completed"

ExploredInv ==
  CanExplore =>
    /\ Charted
    /\ pc \in {"decide", "obey"} => SurveyGoesOn
    /\ Concluded => Mapped

(* The grid, the start and what is free stay.                                *)
LEMMA FixedStart ==
  ASSUME UNCHANGED <<config, world>>, DOMAIN map' = DOMAIN map
  PROVE  /\ StartVoxel' = StartVoxel /\ \A v : IsFree(v)' = IsFree(v)
         /\ CanExplore' = CanExplore
<1>1. StartVoxel' = StartVoxel
  <2>1. Output' = Output /\ Translated(config.start)' = Translated(config.start)
    BY FixedGrids DEF Translated
  <2>2. QED
    BY <2>1 DEF StartVoxel
<1>2. \A v : IsFree(v)' = IsFree(v)
  BY FixedWorld DEF IsFree
<1>3. CanExplore' = CanExplore
  <2>1. VoxelsNest' = VoxelsNest /\ SensorResolves' = SensorResolves
    BY FixedGrids DEF SensorResolves
  <2>2. QED
    BY <1>1, <1>2, <2>1 DEF CanExplore
<1>4. QED
  BY <1>1, <1>2, <1>3

(* With the map, what is known of it stays.                                  *)
LEMMA FixedMap ==
  ASSUME UNCHANGED <<config, world, map>>
  PROVE  /\ \A v, d : Told(v, d)' = Told(v, d)
         /\ \A u : Linked(u)' = Linked(u)
         /\ DoubtIsRight' = DoubtIsRight /\ Mapped' = Mapped
<1>1. StartVoxel' = StartVoxel /\ \A v : IsFree(v)' = IsFree(v)
  BY FixedStart
<1>2. \A v, d : Told(v, d)' = Told(v, d)
  BY <1>1 DEF Told
<1>3. \A u : Linked(u)' = Linked(u)
  BY <1>1 DEF Linked, Closed
<1>4. DoubtIsRight' = DoubtIsRight
  BY <1>1 DEF DoubtIsRight
<1>5. ConnectedToStart' = ConnectedToStart
  <2>1. {w \in DOMAIN map : IsFree(w)}' = {w \in DOMAIN map : IsFree(w)}
    BY <1>1
  <2>2. QED
    BY <1>1, <2>1 DEF ConnectedToStart
<1>6. Mapped' = Mapped
  BY <1>1, <1>5 DEF Mapped
<1>7. QED
  BY <1>2, <1>3, <1>4, <1>6

(* What the steps' lemmas take as given.                                     *)
MissionState == MissionInv /\ StepsInv /\ TypeOK /\ ExploredInv

(* Where exploring, a plan that has run out leaves the drone in a free voxel *)
(* of the map, and nothing untold of what was surveyed.                      *)
LEMMA BetweenPlans ==
  ASSUME MissionState, CanExplore, destination = Current
  PROVE  /\ Charted /\ Current \in DOMAIN map /\ IsFree(Current)
         /\ Current \in Positions /\ InGrid(Output, Current)
         /\ pc = "decide" /\ plan = << >> => \A v \in surveyed, d \in UnitVectors : Told(v, d)
<1>1. Charted
  BY DEF MissionState, ExploredInv
<1>2. Current \in DOMAIN map /\ (Current = StartVoxel \/ map[Current] = "Empty")
  BY <1>1 DEF Charted
<1>3. config \in Configs /\ DOMAIN map = Voxels(Output) /\ IsTrue(map)
  BY DEF MissionState, MissionInv
<1>4. IsFree(Current)
  BY <1>2, <1>3 DEF CanExplore, IsTrue, IsFree
<1>5. Current \in Positions /\ InGrid(Output, Current)
  <2>1. Output.size \in [Axes -> Int]
    BY <1>3, Grids
  <2>2. QED
    BY <1>2, <1>3, <2>1, VoxelsAreTriples
<1>6. ASSUME pc = "decide", plan = << >>, NEW v \in surveyed, NEW d \in UnitVectors PROVE Told(v, d)
  <2>1. Ahead = << >>
    BY <1>6 DEF Ahead
  <2>2. SurveyGoesOn
    BY <1>6 DEF MissionState, ExploredInv
  <2>3. ~\E i \in 1 .. Len(Ahead) : LooksAlong(Ahead[i], d)
    <3>1. Len(Ahead) = 0
      BY <2>1
    <3>2. QED
      BY <3>1
  <2>4. QED
    BY <1>6, <2>2, <2>3 DEF SurveyGoesOn
<1>7. QED
  BY <1>1, <1>2, <1>4, <1>5, <1>6

(* What is left to show of a step that maps and surveys nothing.             *)
LEMMA ExploredKept ==
  ASSUME MissionState, UNCHANGED <<config, world, map, surveyed, destination>>,
         CanExplore /\ pc' \in {"decide", "obey"} => SurveyGoesOn',
         CanExplore /\ Concluded' => Mapped
  PROVE  ExploredInv'
<1>1. CanExplore' = CanExplore /\ StartVoxel' = StartVoxel
  BY FixedStart
<1>2. Mapped' = Mapped /\ DoubtIsRight' = DoubtIsRight /\ Linked(destination)' = Linked(destination)
  BY FixedMap
<1>3. CanExplore => Charted'
  <2>1. CanExplore => Charted
    BY DEF MissionState, ExploredInv
  <2>2. QED
    BY <1>1, <1>2, <2>1 DEF Charted
<1>4. QED
  BY <1>1, <1>2, <1>3 DEF ExploredInv

(* A drone that stays where it is still has the same to look at.             *)
LEMMA SurveyKept ==
  ASSUME UNCHANGED <<config, world, map, surveyed, position, heading>>, SurveyGoesOn,
         UNCHANGED Ahead \/ \A v \in surveyed, d \in UnitVectors : Told(v, d)
  PROVE  SurveyGoesOn'
<1>1. \A v : IsFree(v)' = IsFree(v)
  BY FixedStart
<1>2. \A v, d : Told(v, d)' = Told(v, d)
  BY FixedMap
<1>3. Current' = Current
  BY CurrentKept
<1>4. \A c, d : LooksAlong(c, d)' = LooksAlong(c, d)
  BY DEF LooksAlong
<1>5. ASSUME NEW v \in surveyed, NEW d \in UnitVectors
      PROVE  (Told(v, d) \/ (v = Current /\ \E i \in 1 .. Len(Ahead) : LooksAlong(Ahead[i], d)))'
  <2>1. CASE \A x \in surveyed, y \in UnitVectors : Told(x, y)
    BY <1>2, <2>1
  <2>2. CASE UNCHANGED Ahead
    BY <1>2, <1>3, <1>4, <2>2 DEF SurveyGoesOn
  <2>3. QED
    BY <2>1, <2>2
<1>6. QED
  BY <1>1, <1>5 DEF SurveyGoesOn

(* A queued command is drained: what was ahead is still ahead.               *)
LEMMA DrainExplores == ASSUME MissionState, Drain PROVE ExploredInv'
<1>1. /\ pc = "decide" /\ plan # << >> /\ plan' = Tail(plan) /\ command' = Head(plan) /\ pc' = "obey"
      /\ UNCHANGED <<config, world, map, position, heading, surveyed, destination, status>>
  BY DEF Drain, Deciding, Issue, pose, result
<1>2. plan \in Seq(Orders \cup Scans)
  BY DEF MissionState, MissionInv
<1>3. <<Head(plan)>> \o Tail(plan) = plan /\ Head(plan) \in Orders \cup Scans
  BY <1>1, <1>2, HeadAndTail
<1>4. Ahead' = Ahead
  BY <1>1, <1>3 DEF Ahead
<1>5. command'.status = "Working"
  BY <1>1, <1>3 DEF Orders, Moving, Scans, Scan, NoCommand
<1>6. CanExplore => SurveyGoesOn'
  BY <1>1, <1>4, SurveyKept DEF MissionState, ExploredInv
<1>7. CanExplore /\ Concluded' => Mapped
  BY <1>1, <1>5 DEF Concluded, MissionState, ExploredInv
<1>8. QED
  BY <1>1, <1>6, <1>7, ExploredKept

(* The drone is never outside the region.                                    *)
LEMMA LeaveExplores == ASSUME MissionState, LeaveOutside PROVE ExploredInv'
<1>1. /\ pc = "decide" /\ plan = << >> /\ ~InGrid(Output, Current)
      /\ UNCHANGED <<config, world, map, surveyed, destination>>
  BY DEF LeaveOutside, Deciding, Issue, algorithm
<1>2. destination = Current
  BY <1>1, Arrived DEF MissionState
<1>3. ~CanExplore
  BY <1>1, <1>2, BetweenPlans
<1>4. QED
  BY <1>1, <1>3, ExploredKept

(* Where there is no route, all is mapped.                                   *)
LEMMA GiveUpExplores == ASSUME MissionState, GiveUp PROVE ExploredInv'
<1>1. /\ pc = "decide" /\ plan = << >> /\ Current \in surveyed /\ NearestRoutes = {}
      /\ UNCHANGED <<config, world, map, position, heading, surveyed, destination>>
  BY DEF GiveUp, Deciding, Issue, pose, algorithm
<1>2. destination = Current
  BY <1>1, Arrived DEF MissionState
<1>3. ASSUME CanExplore PROVE SurveyGoesOn' /\ Mapped
  <2>1. /\ Charted /\ Current \in DOMAIN map
        /\ \A v \in surveyed, d \in UnitVectors : Told(v, d)
    BY <1>1, <1>2, <1>3, BetweenPlans
  <2>2. SurveyGoesOn'
    BY <1>1, <1>3, <2>1, SurveyKept DEF MissionState, ExploredInv
  <2>3. /\ config \in Configs /\ IsTrue(map) /\ position \in Positions
        /\ map \in [Voxels(Output) -> Observations]
    BY DEF MissionState, MissionInv, TypeOK, Observations
  <2>4. {Current, StartVoxel} \subseteq surveyed /\ DoubtIsRight /\ Linked(Current)
    BY <1>1, <1>2, <2>1 DEF Charted
  <2>5. Mapped
    BY <1>1, <1>3, <2>1, <2>3, <2>4, AllIsMapped DEF CanExplore
  <2>6. QED
    BY <2>2, <2>5
<1>4. QED
  BY <1>1, <1>3, ExploredKept

(* A survey looks in every direction, whatever the heading (buildSurvey).    *)
LEMMA SurveyLooksEverywhere ==
  ASSUME heading \in 0 .. 359, NEW d \in UnitVectors
  PROVE  \E i \in 1 .. Len(BuildSurvey) : LooksAlong(BuildSurvey[i], d)
<1>1. DOMAIN SurveyDirections = 1 .. 6
  BY DEF SurveyDirections
<1>2. BuildSurvey = [i \in 1 .. 6 |->
        Scan([horizontal |-> SurveyDirections[i][1] - heading, altitude |-> SurveyDirections[i][2]])]
  BY <1>1 DEF BuildSurvey
<1>3. Len(BuildSurvey) = 6
  <2>. PICK s : s = BuildSurvey
    OBVIOUS
  <2>1. s = [i \in 1 .. 6 |-> s[i]] /\ s \in Seq(Scans)
    BY <1>2, SurveyLooks DEF Looking
  <2>2. Len(s) = 6
    BY ONLY <2>1
  <2>3. QED
    BY <2>2
<1>4. PICK i \in 1 .. 6 : /\ SurveyDirections[i][1] \in {0, 90, 180, 270}
                          /\ d = Direction(SurveyDirections[i][1], SurveyDirections[i][2])
  <2>1. CASE d = <<1, 0, 0>>
    <3>1. d = Direction(SurveyDirections[1][1], SurveyDirections[1][2]) /\ SurveyDirections[1][1] = 0
      BY <2>1 DEF Direction, SurveyDirections
    <3>2. QED
      BY <3>1
  <2>2. CASE d = <<-1, 0, 0>>
    <3>1. d = Direction(SurveyDirections[2][1], SurveyDirections[2][2]) /\ SurveyDirections[2][1] = 180
      BY <2>2 DEF Direction, SurveyDirections
    <3>2. QED
      BY <3>1
  <2>3. CASE d = <<0, 1, 0>>
    <3>1. d = Direction(SurveyDirections[3][1], SurveyDirections[3][2]) /\ SurveyDirections[3][1] = 90
      BY <2>3 DEF Direction, SurveyDirections
    <3>2. QED
      BY <3>1
  <2>4. CASE d = <<0, -1, 0>>
    <3>1. d = Direction(SurveyDirections[4][1], SurveyDirections[4][2]) /\ SurveyDirections[4][1] = 270
      BY <2>4 DEF Direction, SurveyDirections
    <3>2. QED
      BY <3>1
  <2>5. CASE d = <<0, 0, 1>>
    <3>1. d = Direction(SurveyDirections[5][1], SurveyDirections[5][2]) /\ SurveyDirections[5][1] = 0
      BY <2>5 DEF Direction, SurveyDirections
    <3>2. QED
      BY <3>1
  <2>6. CASE d = <<0, 0, -1>>
    <3>1. d = Direction(SurveyDirections[6][1], SurveyDirections[6][2]) /\ SurveyDirections[6][1] = 0
      BY <2>6 DEF Direction, SurveyDirections
    <3>2. QED
      BY <3>1
  <2>7. QED
    BY <2>1, <2>2, <2>3, <2>4, <2>5, <2>6 DEF UnitVectors
<1>. PICK x \in {0, 90, 180, 270} : x = SurveyDirections[i][1]
  BY <1>4
<1>. PICK y : y = SurveyDirections[i][2]
  OBVIOUS
<1>5. (x - heading + heading) % 360 = x
  <2>1. x - heading + heading = x
    OBVIOUS
  <2>2. x % 360 = x
    BY ONLY x \in {0, 90, 180, 270}
  <2>3. QED
    BY <2>1, <2>2
<1>. PICK relative : relative = [horizontal |-> x - heading, altitude |-> y]
  OBVIOUS
<1>6. BuildSurvey[i] = Scan(relative)
  BY <1>2
<1>7. Scan(relative).scan = <<relative>> /\ Head(<<relative>>) = relative
  BY DEF Scan, NoCommand
<1>8. AbsoluteBeam(heading, relative).horizontal = x /\ AbsoluteBeam(heading, relative).altitude = y
  BY <1>5 DEF AbsoluteBeam
<1>9. LooksAlong(BuildSurvey[i], d)
  BY <1>4, <1>6, <1>7, <1>8 DEF LooksAlong
<1>10. QED
  BY <1>3, <1>9

(* So a survey that starts leaves nothing around the voxel out.              *)
LEMMA SurveyExplores == ASSUME MissionState, Survey PROVE ExploredInv'
<1>. PICK s : s = BuildSurvey
  OBVIOUS
<1>1. /\ pc = "decide" /\ plan = << >> /\ plan' = Tail(s) /\ command' = Head(s) /\ pc' = "obey"
      /\ surveyed' = surveyed \cup {Current}
      /\ UNCHANGED <<config, world, map, position, heading, destination, status>>
  BY DEF Survey, Deciding, Issue, pose, result
<1>2. heading \in 0 .. 359 /\ destination = Current
  BY <1>1, Arrived DEF MissionState, MissionInv
<1>3. s \in Seq(Scans) /\ s # << >>
  BY <1>2, SurveyLooks DEF Looking
<1>4. <<Head(s)>> \o Tail(s) = s /\ Head(s) \in Scans
  BY <1>3, HeadAndTail
<1>5. Ahead' = s /\ command'.status = "Working"
  BY <1>1, <1>4 DEF Ahead, Scans, Scan, NoCommand
<1>6. CanExplore' = CanExplore /\ StartVoxel' = StartVoxel /\ \A v : IsFree(v)' = IsFree(v)
  BY <1>1, FixedStart
<1>7. /\ \A v, d : Told(v, d)' = Told(v, d)
      /\ \A u : Linked(u)' = Linked(u)
      /\ DoubtIsRight' = DoubtIsRight /\ Mapped' = Mapped
  BY <1>1, FixedMap
<1>8. SUFFICES ASSUME CanExplore PROVE Charted' /\ SurveyGoesOn' /\ (Concluded => Mapped)
  BY <1>1, <1>5, <1>6, <1>7 DEF ExploredInv, Concluded
<1>9. /\ Charted /\ IsFree(Current) /\ \A v \in surveyed, d \in UnitVectors : Told(v, d)
  BY <1>1, <1>2, <1>8, BetweenPlans
<1>10. Charted'
  BY <1>1, <1>2, <1>6, <1>7, <1>9 DEF Charted
<1>11. Current' = Current /\ \A c, d : LooksAlong(c, d)' = LooksAlong(c, d)
  BY <1>1, CurrentKept DEF LooksAlong
<1>12. SurveyGoesOn'
  <2>1. \A v \in surveyed : IsFree(v)
    BY <1>1, <1>8 DEF MissionState, ExploredInv, SurveyGoesOn
  <2>2. \A d \in UnitVectors : \E i \in 1 .. Len(s) : LooksAlong(s[i], d)
    BY <1>2, SurveyLooksEverywhere
  <2>3. QED
    BY <1>1, <1>5, <1>6, <1>7, <1>9, <1>11, <2>1, <2>2 DEF SurveyGoesOn
<1>13. Concluded => Mapped
  BY <1>8 DEF MissionState, ExploredInv
<1>14. QED
  BY <1>10, <1>12, <1>13

(* A way can be flown back.                                                  *)
LEMMA WayBack ==
  ASSUME config \in Configs, DOMAIN map = Voxels(Output), Current \in DOMAIN map,
         Current = StartVoxel \/ map[Current] = "Empty", Linked(Current),
         (\E v \in DOMAIN map : map[v] = "Empty") => map[StartVoxel] = "Empty",
         NEW route \in Ways, Last(route) # Current
  PROVE  Last(route) \in DOMAIN map /\ map[Last(route)] = "Empty" /\ Linked(Last(route))
<1>1. /\ route \in Seq(Positions) /\ route # << >> /\ route[1] = Current
      /\ \A i \in 1 .. Len(route) - 1 :
           AreAdjacent(route[i], route[i + 1]) /\ route[i + 1] \in DOMAIN map /\ map[route[i + 1]] = "Empty"
  BY DEF Ways
<1>. PICK n \in Nat : n = Len(route)
  BY <1>1
<1>2. n >= 2 /\ Last(route) = route[n]
  <2>1. n # 0 /\ Last(route) = route[n]
    BY <1>1 DEF Last
  <2>2. n # 1
    BY <1>1, <2>1
  <2>3. QED
    BY <2>1, <2>2
<1>3. \A i \in 1 .. n : route[i] \in Positions
  BY <1>1
<1>4. \A i \in 1 .. n : route[i] \in DOMAIN map /\ map[route[i]] = "Empty"
  <2>1. \A i \in 2 .. n : route[i] \in DOMAIN map /\ map[route[i]] = "Empty"
    <3>1. ASSUME NEW i \in 2 .. n PROVE route[i] \in DOMAIN map /\ map[route[i]] = "Empty"
      <4>. PICK k \in 1 .. n - 1 : i = k + 1
        OBVIOUS
      <4>1. QED
        BY <1>1
    <3>2. QED
      BY <3>1
  <2>2. map[Current] = "Empty"
    <3>1. 2 \in 2 .. n
      BY <1>2
    <3>2. QED
      BY <2>1, <3>1
  <2>3. QED
    BY <1>1, <2>1, <2>2
<1>5. ASSUME NEW C \in SUBSET DOMAIN map, route[n] \in C, Closed(C) PROVE StartVoxel \in C
  <2>. DEFINE with == {k \in 0 .. n - 1 : route[n - k] \in C}
  <2>1. 0 \in with
    BY <1>2, <1>5
  <2>2. ASSUME NEW k \in 0 .. n - 1, k \in with, k < n - 1 PROVE k + 1 \in with
    <3>. PICK i \in 1 .. n - 1 : i = n - k - 1
      BY <2>2
    <3>1. i + 1 = n - k /\ n - (k + 1) = i /\ k + 1 \in 0 .. n - 1 /\ i \in 1 .. n
      BY <2>2
    <3>2. AreAdjacent(route[i + 1], route[i])
      BY <1>1, <1>3, <3>1, AdjacentBothWays
    <3>3. route[i] \in C
      BY <1>4, <1>5, <2>2, <3>1, <3>2 DEF Closed
    <3>4. QED
      BY <3>1, <3>3
  <2>3. \A k \in 0 .. n - 1 : k \in with /\ k < n - 1 => k + 1 \in with
    BY <2>2
  <2>. PICK top \in Nat : top = n - 1
    BY <1>2
  <2>. HIDE DEF with
  <2>4. \A k \in 0 .. top : k \in with
    BY <2>1, <2>3, Onward
  <2>5. top \in with
    BY <2>4
  <2>6. route[1] \in C
    <3>1. n - top = 1
      OBVIOUS
    <3>2. QED
      BY <2>5, <3>1 DEF with
  <2>7. QED
    BY <1>1, <1>5, <2>6 DEF Linked
<1>6. n \in 1 .. n
  BY <1>2
<1>7. QED
  BY <1>2, <1>4, <1>5, <1>6 DEF Linked

(* A new plan leads to a voxel from which the start can be reached again.    *)
LEMMA TravelExplores == ASSUME MissionState, Travel PROVE ExploredInv'
<1>1. PICK route \in NearestRoutes :
        /\ destination' = Last(route)
        /\ plan' = Tail(BuildRouteCommands(route))
        /\ Issue(Head(BuildRouteCommands(route)))
  BY DEF Travel
<1>. PICK s, v : s = BuildRouteCommands(route) /\ v = Last(route)
  OBVIOUS
<1>2. /\ pc = "decide" /\ plan = << >> /\ plan' = Tail(s) /\ command' = Head(s) /\ pc' = "obey"
      /\ destination' = v /\ InGrid(Output, Current) /\ Current \in surveyed
      /\ UNCHANGED <<config, world, map, position, heading, surveyed, status>>
  BY <1>1 DEF Travel, Deciding, Issue, pose, result
<1>3. Free(position)
  BY <1>2 DEF MissionState, MissionInv, Free, Current
<1>4. /\ config \in Configs /\ world \in WorldsOf(config) /\ DOMAIN map = Voxels(Output)
      /\ position \in Positions /\ heading \in 0 .. 359 /\ IsTrue(map)
  BY DEF MissionState, MissionInv
<1>5. route \in Ways /\ Last(route) # Current
  BY <1>4, RoutesAreWays
<1>6. command'.status = "Working"
  <2>1. s # << >> /\ s \in Seq(Orders)
    BY <1>3, <1>4, <1>5, RouteCommandsLead DEF Flight, Tracks
  <2>2. Head(s) \in Orders
    BY <2>1, HeadAndTail
  <2>3. QED
    BY <1>2, <2>2 DEF Orders, Moving, NoCommand
<1>7. CanExplore' = CanExplore /\ StartVoxel' = StartVoxel /\ \A x : IsFree(x)' = IsFree(x)
  BY <1>2, FixedStart
<1>8. /\ \A x, d : Told(x, d)' = Told(x, d)
      /\ \A u : Linked(u)' = Linked(u)
      /\ DoubtIsRight' = DoubtIsRight /\ Mapped' = Mapped
  BY <1>2, FixedMap
<1>9. SUFFICES ASSUME CanExplore PROVE Charted' /\ SurveyGoesOn' /\ (Concluded => Mapped)
  BY <1>2, <1>6, <1>7, <1>8 DEF ExploredInv, Concluded
<1>10. destination = Current
  BY <1>2, Arrived DEF MissionState
<1>11. Charted /\ Current \in DOMAIN map /\ \A x \in surveyed, d \in UnitVectors : Told(x, d)
  BY <1>2, <1>9, <1>10, BetweenPlans
<1>12. v \in DOMAIN map /\ map[v] = "Empty" /\ Linked(v)
  BY <1>4, <1>5, <1>10, <1>11, WayBack DEF Charted
<1>13. Charted'
  BY <1>2, <1>7, <1>8, <1>11, <1>12 DEF Charted
<1>14. SurveyGoesOn'
  BY <1>2, <1>9, <1>11, SurveyKept DEF MissionState, ExploredInv
<1>15. Concluded => Mapped
  BY <1>9 DEF MissionState, ExploredInv
<1>16. QED
  BY <1>13, <1>14, <1>15

(* A refusal ends the mission, but does not complete it.                     *)
LEMMA RefuseExplores == ASSUME MissionState, Refuse PROVE ExploredInv'
<1>1. /\ pc' = "settle" /\ status' = "Error"
      /\ UNCHANGED <<config, world, map, surveyed, destination>>
  BY DEF Refuse, algorithm
<1>2. ~Concluded'
  BY <1>1 DEF Concluded
<1>3. QED
  BY <1>1, <1>2, ExploredKept

(* What is still to be flown looks at nothing.                               *)
LEMMA FlightIsBlind ==
  ASSUME Flying(Ahead), NEW i \in 1 .. Len(Ahead), NEW d
  PROVE  ~LooksAlong(Ahead[i], d)
<1>. PICK s : s = Ahead
  OBVIOUS
<1>1. s \in Seq(Orders)
  BY DEF Flying, Flight, Tracks
<1>2. s[i] \in Orders
  BY <1>1
<1>3. s[i].scan = << >>
  BY <1>2 DEF Orders, Moving, NoCommand
<1>4. QED
  BY <1>3 DEF LooksAlong

(* A leg that is flown leaves what was told.                                 *)
LEMMA ObeyFlyingExplores == ASSUME MissionState, Obey, Flying(Ahead) PROVE ExploredInv'
<1>1. /\ pc = "obey" /\ UNCHANGED <<config, world, surveyed, destination>>
  BY DEF Obey, algorithm
<1>2. PICK m \in Moves : command = Moving(m)
  BY <1>1, InFlight DEF MissionState
<1>3. command.scan = << >> /\ command.status = "Working"
  BY <1>2 DEF Moving, NoCommand
<1>4. map' = map /\ pc' = "decide" /\ status' = status
  BY <1>3 DEF Obey
<1>5. status = "MaxSteps"
  BY <1>1 DEF MissionState, StepsInv
<1>6. ~Concluded'
  BY <1>4, <1>5 DEF Concluded
<1>7. ASSUME CanExplore PROVE SurveyGoesOn'
  <2>1. SurveyGoesOn
    BY <1>1, <1>7 DEF MissionState, ExploredInv
  <2>2. \A v \in surveyed : IsFree(v) /\ \A d \in UnitVectors : Told(v, d)
    BY <2>1, FlightIsBlind DEF SurveyGoesOn
  <2>3. (\A v : IsFree(v)' = IsFree(v)) /\ \A v, d : Told(v, d)' = Told(v, d)
    BY <1>1, <1>4, FixedStart, FixedMap
  <2>4. QED
    BY <1>1, <2>2, <2>3 DEF SurveyGoesOn
<1>8. QED
  BY <1>1, <1>4, <1>6, <1>7, ExploredKept

(* The end of the mission was decided for lack of targets.                   *)
LEMMA ObeyStoppingExplores == ASSUME MissionState, Obey, Stopping PROVE ExploredInv'
<1>1. command.scan = << >> /\ command.status # "Working"
  BY DEF Stopping, Terminal, NoCommand
<1>2. /\ pc = "obey" /\ pc' = "settle" /\ UNCHANGED <<config, world, map, surveyed, destination>>
  BY <1>1 DEF Obey, algorithm
<1>3. CanExplore => Mapped
  BY <1>1, <1>2 DEF MissionState, ExploredInv, Concluded
<1>4. QED
  BY <1>2, <1>3, ExploredKept

(* A mission that settles has ended as it had.                               *)
LEMMA SettleExplores == ASSUME MissionState, Settle PROVE ExploredInv'
<1>1. pc' = "done" /\ status' = status /\ UNCHANGED <<config, world, map, surveyed, destination>>
  BY DEF Settle, algorithm
<1>2. CanExplore /\ Concluded' => Mapped
  BY <1>1 DEF Concluded, MissionState, ExploredInv
<1>3. QED
  BY <1>1, <1>2, ExploredKept

(* So does one to which nothing happens.                                     *)
LEMMA StutterExplores == ASSUME MissionState, UNCHANGED vars PROVE ExploredInv'
<1>1. UNCHANGED <<config, world, map, position, heading, plan, surveyed, destination, command,
                  status, pc>>
  BY DEF vars, pose, algorithm, result
<1>. PICK s : s = Ahead
  OBVIOUS
<1>2. Ahead' = s
  BY <1>1 DEF Ahead
<1>3. CanExplore /\ pc' \in {"decide", "obey"} => SurveyGoesOn'
  BY <1>1, <1>2, SurveyKept DEF MissionState, ExploredInv
<1>4. CanExplore /\ Concluded' => Mapped
  BY <1>1 DEF Concluded, MissionState, ExploredInv
<1>5. QED
  BY <1>1, <1>3, <1>4, ExploredKept

(* A scan from a voxel takes nothing back, tells of the next voxel, and      *)
(* doubts nothing free but the voxel it is made from.                        *)
Scanned(after, u, d) ==
  /\ after \in [Voxels(Output) -> Observations]
  /\ \A v \in DOMAIN map :
       /\ map[v] # "Unmapped" => after[v] # "Unmapped"
       /\ map[v] = "Empty" => after[v] = "Empty"
       /\ after[v] = "PotentiallyOccupied" =>
            map[v] = "PotentiallyOccupied" \/ (v = u /\ map[v] # "Empty") \/ ~IsFree(v)
       /\ after[v] = "Empty" => map[v] = "Empty" \/ after[u] = "Empty"
       /\ v = PointAlongBeam(u, d, 1) => after[v] # "Unmapped" /\ (IsFree(v) => after[v] = "Empty")

(* So does every scan from a free voxel along an axis.                       *)
LEMMA ScansAreScanned ==
  ASSUME config \in Configs, world \in WorldsOf(config), CanExplore,
         map \in [Voxels(Output) -> Observations], IsTrue(map),
         position \in Positions, IsFree(Current), NEW d \in UnitVectors,
         NEW after, after = ApplyToMap(map, position, d, TraceBeam(position, d))
  PROVE  Scanned(after, Current, d)
<1>. PICK u, w : u = Current /\ w = PointAlongBeam(u, d, 1)
  OBVIOUS
<1>1. ScansFrom(position, u, d, w)
  BY DEF ScansFrom, CanExplore, Current
<1>2. after \in [Voxels(Output) -> Observations] /\ IsTrue(after)
  BY ApplyToMapType, RecordingIsTrue
<1>3. ASSUME NEW v \in DOMAIN map
      PROVE  /\ map[v] # "Unmapped" => after[v] # "Unmapped"
             /\ map[v] = "Empty" => after[v] = "Empty"
  <2>1. map[v] \in Observations /\ after[v] \in Observations /\ v \in DOMAIN after
    BY <1>2
  <2>2. OccupancyPriority(after[v]) >= OccupancyPriority(map[v])
    BY ApplyToMapKeeps
  <2>3. map[v] # "Unmapped" => after[v] # "Unmapped"
    BY <2>1, <2>2 DEF Observations, OccupancyPriority
  <2>4. map[v] = "Empty" => after[v] \in {"Empty", "Occupied"}
    BY <2>1, <2>2 DEF Observations, OccupancyPriority
  <2>5. map[v] = "Empty" => after[v] # "Occupied"
    BY <1>2, <2>1 DEF IsTrue, CanExplore
  <2>6. QED
    BY <2>3, <2>4, <2>5
<1>4. ASSUME NEW v \in DOMAIN map
      PROVE  /\ after[v] = "PotentiallyOccupied" =>
                  map[v] = "PotentiallyOccupied" \/ v = u \/ ~IsFree(v)
             /\ after[v] = "Empty" => map[v] = "Empty" \/ after[u] = "Empty"
  BY <1>1, ScanSpares
<1>5. w \in DOMAIN map => after[w] # "Unmapped" /\ (IsFree(w) => after[w] = "Empty")
  BY <1>1, ScanTells
<1>6. QED
  BY <1>2, <1>3, <1>4, <1>5 DEF Scanned

(* Such a scan leaves what is told, and all ways back.                       *)
LEMMA ScannedKeeps ==
  ASSUME UNCHANGED <<config, world, position>>, map \in [Voxels(Output) -> Observations],
         NEW d, Scanned(map', Current, d),
         Charted, UNCHANGED <<surveyed, destination>>, destination = Current
  PROVE  /\ \A v, e : Told(v, e) => Told(v, e)'
         /\ Told(Current, d)' /\ Charted'
<1>. PICK after, u : after = map' /\ u = Current
  OBVIOUS
<1>1. after \in [Voxels(Output) -> Observations] /\ DOMAIN after = DOMAIN map /\ map' = after
  BY DEF Scanned
<1>2. StartVoxel' = StartVoxel /\ \A v : IsFree(v)' = IsFree(v)
  BY <1>1, FixedStart
<1>3. ASSUME NEW v, NEW e, Told(v, e) PROVE Told(v, e)'
  <2>. PICK w : w = PointAlongBeam(v, e, 1)
    OBVIOUS
  <2>1. SUFFICES ASSUME w \in DOMAIN after PROVE after[w] # "Unmapped" /\ (IsFree(w) => after[w] = "Empty")
    BY <1>1, <1>2 DEF Told
  <2>2. QED
    BY <1>1, <1>3, <2>1 DEF Told, Scanned
<1>4. Told(u, d)'
  <2>. PICK w : w = PointAlongBeam(u, d, 1)
    OBVIOUS
  <2>1. SUFFICES ASSUME w \in DOMAIN after PROVE after[w] # "Unmapped" /\ (IsFree(w) => after[w] = "Empty")
    BY <1>1, <1>2 DEF Told
  <2>2. QED
    BY <1>1, <2>1 DEF Scanned
<1>5. \A v \in DOMAIN map : map[v] = "Empty" => after[v] = "Empty"
  BY <1>1 DEF Scanned
<1>6. ASSUME NEW C \in SUBSET DOMAIN map, destination \in C, Closed(C)' PROVE StartVoxel \in C
  <2>1. Closed(C)
    BY <1>1, <1>5, <1>6 DEF Closed
  <2>2. QED
    BY <1>6, <2>1 DEF Charted, Linked
<1>7. Linked(destination)'
  <2>. PICK x : x = destination
    OBVIOUS
  <2>1. destination' = x
    OBVIOUS
  <2>2. QED
    BY <1>1, <1>2, <1>6, <2>1 DEF Linked
<1>8. DoubtIsRight'
  <2>1. ASSUME NEW v \in DOMAIN map, after[v] = "PotentiallyOccupied" PROVE v = StartVoxel \/ ~IsFree(v)
    <3>1. map[v] = "PotentiallyOccupied" \/ (v = u /\ map[v] # "Empty") \/ ~IsFree(v)
      BY <1>1, <2>1 DEF Scanned
    <3>2. CASE map[v] = "PotentiallyOccupied"
      BY <3>2 DEF Charted, DoubtIsRight
    <3>3. CASE v = u /\ map[v] # "Empty"
      BY <3>3 DEF Charted
    <3>4. QED
      BY <3>1, <3>2, <3>3
  <2>2. QED
    BY <1>1, <1>2, <2>1 DEF DoubtIsRight
<1>9. ASSUME NEW v \in DOMAIN map, after[v] = "Empty" PROVE after[StartVoxel] = "Empty"
  <2>1. map[v] = "Empty" \/ after[u] = "Empty"
    BY <1>1, <1>9 DEF Scanned
  <2>2. (\E x \in DOMAIN map : map[x] = "Empty") => map[StartVoxel] = "Empty"
    BY DEF Charted
  <2>3. destination \in DOMAIN map /\ (u = StartVoxel \/ map[u] = "Empty")
    BY DEF Charted
  <2>4. CASE map[StartVoxel] = "Empty"
    <3>1. StartVoxel \in DOMAIN map
      BY <2>3 DEF Charted, Linked, Closed
    <3>2. QED
      BY <1>5, <2>4, <3>1
  <2>5. CASE map[StartVoxel] # "Empty"
    BY <2>1, <2>2, <2>3, <2>5
  <2>6. QED
    BY <2>4, <2>5
<1>10. Charted'
  <2>1. destination' \in DOMAIN after
    BY <1>1 DEF Charted
  <2>2. destination' = StartVoxel \/ after[destination'] = "Empty"
    BY <1>5 DEF Charted
  <2>3. StartVoxel \in surveyed' \/ (surveyed' = {} /\ destination' = StartVoxel)
    BY DEF Charted
  <2>4. QED
    BY <1>1, <1>2, <1>7, <1>8, <1>9, <2>1, <2>2, <2>3 DEF Charted
<1>11. Current' = u
  BY CurrentKept
<1>12. QED
  BY <1>3, <1>4, <1>10, <1>11

(* A look around tells of the next voxel that way, and leaves the others to  *)
(* the looks still to come.                                                  *)
LEMMA ObeyLookingExplores ==
  ASSUME MissionState, Obey, Looking(Ahead), destination = Current
  PROVE  ExploredInv'
<1>1. /\ config \in Configs /\ world \in WorldsOf(config) /\ position \in Positions
      /\ IsTrue(map) /\ map \in [Voxels(Output) -> Observations]
      /\ pc = "obey" /\ plan' = plan /\ UNCHANGED <<config, world, surveyed, destination>>
  BY DEF MissionState, MissionInv, TypeOK, Observations, Obey, algorithm
<1>2. PICK relative \in [horizontal : Int, altitude : Int] :
        command = Scan(relative) /\ Looks(heading, relative)
  BY <1>1, InLooking DEF MissionState
<1>3. /\ command.movement = << >> /\ command.scan = <<relative>> /\ command.status = "Working"
      /\ Head(command.scan) = relative
  BY <1>2 DEF Scan, NoCommand
<1>4. /\ position' = position /\ heading' = heading /\ pc' = "decide" /\ status' = status
      /\ map' = Recorded(position, heading, relative) /\ command' = command
  BY <1>3 DEF Obey, pose
<1>. PICK beam : beam = AbsoluteBeam(heading, relative)
  OBVIOUS
<1>. PICK d \in UnitVectors : d = Direction(beam.horizontal, beam.altitude)
  <2>1. beam.horizontal \in {0, 90, 180, 270} /\ beam.altitude \in {0, 90, -90}
    BY <1>2 DEF Looks, AbsoluteBeam
  <2>2. QED
    BY <2>1, DirectionIsAxis
<1>5. map' = ApplyToMap(map, position, d, TraceBeam(position, d))
  BY <1>4 DEF Recorded
<1>6. ~Concluded'
  BY <1>1, <1>3, <1>4 DEF Concluded, MissionState, StepsInv
<1>7. CanExplore' = CanExplore /\ \A v : IsFree(v)' = IsFree(v)
  <2>. PICK after : after = map'
    OBVIOUS
  <2>1. DOMAIN after = DOMAIN map
    BY <1>5, ApplyToMapKeeps
  <2>2. QED
    BY <1>1, <2>1, FixedStart
<1>8. SUFFICES ASSUME CanExplore PROVE Charted' /\ SurveyGoesOn'
  BY <1>6, <1>7 DEF ExploredInv
<1>9. Charted /\ IsFree(Current)
  BY <1>8, BetweenPlans
<1>10. Scanned(map', Current, d)
  <2>. PICK after : after = map'
    OBVIOUS
  <2>1. Scanned(after, Current, d)
    BY <1>1, <1>5, <1>8, <1>9, ScansAreScanned
  <2>2. QED
    BY <2>1
<1>11. (\A v, e : Told(v, e) => Told(v, e)') /\ Told(Current, d)' /\ Charted'
  BY <1>1, <1>4, <1>9, <1>10, ScannedKeeps
<1>. PICK s, u : s = plan /\ u = Current
  OBVIOUS
<1>12. SurveyGoesOn
  BY <1>1, <1>8 DEF MissionState, ExploredInv
<1>13. Ahead' = s /\ Current' = u /\ \A c, e : LooksAlong(c, e)' = LooksAlong(c, e)
  BY <1>1, <1>4, CurrentKept DEF Ahead, LooksAlong
<1>14. ASSUME NEW e \in UnitVectors, NEW i \in 1 .. Len(Ahead), LooksAlong(Ahead[i], e)
       PROVE  e = d \/ \E j \in 1 .. Len(s) : LooksAlong(s[j], e)
  <2>1. s \in Seq(Orders \cup Scans) /\ Ahead = <<command>> \o s
    BY <1>1 DEF MissionState, MissionInv, Ahead
  <2>. PICK t : t = Ahead
    OBVIOUS
  <2>2. \/ t[i] = command
        \/ \E j \in 1 .. Len(s) : t[i] = s[j]
    <3>. PICK c, S : c = command /\ S = Orders \cup Scans \cup {command}
      OBVIOUS
    <3>1. s \in Seq(S) /\ c \in S /\ t = <<c>> \o s /\ i \in 1 .. Len(t)
      BY <2>1
    <3>2. t[i] = c \/ \E j \in 1 .. Len(s) : t[i] = s[j]
      BY ONLY <3>1
    <3>3. QED
      BY <3>2
  <2>3. LooksAlong(command, e) => e = d
    BY <1>3 DEF LooksAlong
  <2>4. QED
    BY <1>14, <2>2, <2>3
<1>15. ASSUME NEW v \in surveyed, NEW e \in UnitVectors
       PROVE  Told(v, e)' \/ (v = u /\ \E j \in 1 .. Len(s) : LooksAlong(s[j], e))
  <2>1. CASE Told(v, e)
    BY <1>11, <2>1
  <2>2. CASE ~Told(v, e)
    <3>1. v = u /\ \E i \in 1 .. Len(Ahead) : LooksAlong(Ahead[i], e)
      BY <1>12, <2>2 DEF SurveyGoesOn
    <3>2. e = d \/ \E j \in 1 .. Len(s) : LooksAlong(s[j], e)
      BY <1>14, <3>1
    <3>3. Told(u, d)'
      BY <1>11, <1>13
    <3>4. QED
      BY <3>1, <3>2, <3>3
  <2>3. QED
    BY <2>1, <2>2
<1>16. \A v \in surveyed : IsFree(v)
  BY <1>12 DEF SurveyGoesOn
<1>17. SurveyGoesOn'
  BY <1>1, <1>7, <1>13, <1>15, <1>16 DEF SurveyGoesOn
<1>18. QED
  BY <1>11, <1>17

(* At the start there is nothing to tell, and nowhere to come back from.     *)
LEMMA ExploredBegins == Init => ExploredInv
<1>. SUFFICES ASSUME Init, CanExplore PROVE ExploredInv
  BY DEF ExploredInv
<1>1. /\ config \in Configs /\ world \in WorldsOf(config) /\ surveyed = {}
      /\ pc = "decide" /\ status = "MaxSteps" /\ destination = StartVoxel
      /\ \A v \in DOMAIN map : map[v] = "Unmapped"
  BY DEF Init, StartVoxel, EmptyMap
<1>2. destination \in DOMAIN map
  BY <1>1 DEF CanExplore, IsFree
<1>3. Charted
  BY <1>1, <1>2 DEF Charted, Linked, DoubtIsRight
<1>4. SurveyGoesOn /\ ~Concluded
  BY <1>1 DEF SurveyGoesOn, Concluded
<1>5. QED
  BY <1>3, <1>4 DEF ExploredInv

(* Every step explores.                                                      *)
LEMMA ExploredGoesOn == ASSUME MissionState, [Next]_vars PROVE ExploredInv'
<1>1. CASE Drain
  BY <1>1, DrainExplores
<1>2. CASE LeaveOutside
  BY <1>2, LeaveExplores
<1>3. CASE Survey
  BY <1>3, SurveyExplores
<1>4. CASE Travel
  BY <1>4, TravelExplores
<1>5. CASE GiveUp
  BY <1>5, GiveUpExplores
<1>6. CASE Refuse
  BY <1>6, RefuseExplores
<1>7. CASE Obey
  <2>1. Flying(Ahead) \/ ((Looking(Ahead) \/ Stopping) /\ destination = Current)
    BY <1>7 DEF Obey, MissionState, MissionInv
  <2>2. QED
    BY <1>7, <2>1, ObeyFlyingExplores, ObeyLookingExplores, ObeyStoppingExplores
<1>8. CASE Settle
  BY <1>8, SettleExplores
<1>9. CASE UNCHANGED vars
  BY <1>9, StutterExplores
<1>10. QED
  BY <1>1, <1>2, <1>3, <1>4, <1>5, <1>6, <1>7, <1>8, <1>9 DEF Next, Done

(* Throughout a mission whose sensor can tell, from a free start: every      *)
(* voxel the plans lead to can be left again for the start, everything       *)
(* around a surveyed voxel is known or about to be looked at, and when the   *)
(* mission ends for lack of targets all that is connected is mapped.         *)
THEOREM ExploredInvariant == Spec => []ExploredInv
<1>1. MissionInv /\ StepsInv /\ TypeOK /\ ExploredInv /\ [Next]_vars => ExploredInv'
  BY ExploredGoesOn DEF MissionState
<1>2. QED
  BY <1>1, ExploredBegins, MissionInvariant, StepsInvariant, TypesHold, PTL DEF Spec

(* A mission that completes has mapped every free voxel it could have flown  *)
(* to, and seen every wall next to one, whatever the world and the           *)
(* configuration, when voxels nest and the sensor resolves its neighbours    *)
(* (MappingAlgorithmImpl::nextStep ends only when planRouteToFrontier finds  *)
(* no frontier).                                                             *)
THEOREM EverythingReachableIsMappedHolds == Spec => []EverythingReachableIsMapped
<1>1. ExploredInv => EverythingReachableIsMapped
  BY DEF ExploredInv, EverythingReachableIsMapped, CanExplore, Concluded, Mapped
<1>2. QED
  BY <1>1, ExploredInvariant, PTL

=============================================================================
