--------------------------- MODULE FrontierSearch ---------------------------
(***************************************************************************)
(* The frontier search of MappingAlgorithmImpl (Algorithm/src/             *)
(* MappingAlgorithmImpl.cpp, planRouteToFrontier) over its reused          *)
(* FrontierSearchScratch, search after search.  The drone surveys the cell *)
(* it is in; a breadth-first search through cells mapped Empty looks for   *)
(* the nearest cell not surveyed yet that borders something unmapped; the  *)
(* drone flies there and the cycle starts again, until a search finds      *)
(* nothing.                                                                *)
(*                                                                         *)
(* The scratch is never zeroed between searches: a cell counts as visited  *)
(* when its stamp is the generation of the search, and the generation is a *)
(* byte that wraps.                                                        *)
(***************************************************************************)
EXTENDS Integers, Sequences, FiniteSets

CONSTANTS
  Cells,          \* the voxels of the grid
  Around,         \* a cell's neighbours inside the grid, in the order of kNeighbours
  Scans,          \* what the survey of a cell may report, as maps
  Homes,          \* where a drone may start
  MaxGeneration,  \* kMaxGeneration
  NoParent        \* kNoParent

Occupancies == {"Unmapped", "PotentiallyOccupied", "Empty", "Occupied"}

ASSUME SearchAssumption ==
  /\ IsFiniteSet(Cells) /\ Cells # {}
  /\ Around \in [Cells -> Seq(Cells)]
  /\ Scans \in [Cells -> SUBSET [Cells -> Occupancies]]
  /\ Homes \subseteq Cells
  /\ MaxGeneration \in Nat \ {0}
  /\ NoParent \notin Cells

VARIABLES
  \* what the search reads
  occupancy,   \* the output map
  surveyed,    \* surveyed_: the cells whose scan sweep has been issued
  start,       \* the drone's cell
  \* FrontierSearchScratch
  stamp,       \* visit_stamp
  parent,      \* parent
  queue,       \* queue
  head,        \* queue_head
  generation,  \* generation
  \* the search itself
  side,        \* which of the current cell's neighbours is next
  route,       \* the route, as far as it has been walked back
  pc

scratch == <<stamp, parent, queue, head, generation>>
vars == <<occupancy, surveyed, start, scratch, side, route, pc>>

(* A vector that has not been sized yet. *)
Unsized == [c \in {} |-> 0]

Init ==
  /\ occupancy = [c \in Cells |-> "Unmapped"]
  /\ surveyed = {}
  /\ start \in Homes
  /\ stamp = Unsized /\ parent = Unsized
  /\ queue = <<>> /\ head = 0
  /\ generation = 0
  /\ side = 1
  /\ route = <<>>
  /\ pc = "survey"

-----------------------------------------------------------------------------
(* Evidence, and the cells worth flying to. *)

OccupancyPriority(o) ==
  CASE o = "Occupied" -> 3
    [] o = "Empty" -> 2
    [] o = "PotentiallyOccupied" -> 1
    [] OTHER -> 0

(* setIfStronger, for every voxel a scan touches. *)
Observe(map, scan) ==
  [c \in Cells |-> IF OccupancyPriority(scan[c]) > OccupancyPriority(map[c])
                     THEN scan[c] ELSE map[c]]

AreNeighbours(c, d) == \E i \in DOMAIN Around[c] : Around[c][i] = d

BordersUnmapped(c) == \E d \in Cells : AreNeighbours(c, d) /\ occupancy[d] = "Unmapped"

(* A bug the termination argument rules out: any frontier is a target.      *)
IsAnyFrontier(c) ==
  /\ c # start
  /\ occupancy[c] = "Empty"
  /\ BordersUnmapped(c)

IsTarget(c) ==
  /\ c # start
  /\ c \notin surveyed
  /\ occupancy[c] = "Empty"
  /\ BordersUnmapped(c)

Visited(c) == stamp[c] = generation

-----------------------------------------------------------------------------
(* The drone's cell is surveyed: once when the mission begins, and after    *)
(* every route, from the cell the route led to.                             *)
Survey ==
  /\ pc \in {"survey", "found"}
  /\ start' = IF pc = "found" THEN route[Len(route)] ELSE start
  /\ surveyed' = surveyed \cup {start'}
  /\ \E scan \in Scans[start'] : occupancy' = Observe(occupancy, scan)
  /\ route' = <<>>
  /\ pc' = "begin"
  /\ UNCHANGED <<scratch, side>>

(* A bug the wrap guards against: the stamps of old searches are kept.      *)
BeginSearchKeepingStamps ==
  /\ pc = "begin"
  /\ generation' = IF DOMAIN stamp # Cells \/ generation = MaxGeneration THEN 1
                   ELSE generation + 1
  /\ stamp' = [(IF DOMAIN stamp # Cells THEN [c \in Cells |-> 0] ELSE stamp)
                 EXCEPT ![start] = generation']
  /\ parent' = [(IF DOMAIN stamp # Cells THEN [c \in Cells |-> NoParent] ELSE parent)
                  EXCEPT ![start] = NoParent]
  /\ queue' = <<start>>
  /\ head' = 0
  /\ pc' = "search"
  /\ UNCHANGED <<occupancy, surveyed, start, side, route>>

(* A bug the seeding guards against: the start keeps an old predecessor.    *)
BeginSearchLeavingParent ==
  /\ pc = "begin"
  /\ LET unsized == DOMAIN stamp # Cells
         clear   == unsized \/ generation = MaxGeneration
     IN /\ generation' = IF clear THEN 1 ELSE generation + 1
        /\ stamp' = [(IF clear THEN [c \in Cells |-> 0] ELSE stamp)
                       EXCEPT ![start] = generation']
        /\ parent' = IF unsized THEN [c \in Cells |-> NoParent] ELSE parent
  /\ queue' = <<start>>
  /\ head' = 0
  /\ pc' = "search"
  /\ UNCHANGED <<occupancy, surveyed, start, side, route>>

(* beginSearch, and the start cell enqueued and visited: the first search   *)
(* sizes the arrays, and a generation about to wrap clears the stamps.      *)
BeginSearch ==
  /\ pc = "begin"
  /\ LET unsized == DOMAIN stamp # Cells
         clear   == unsized \/ generation = MaxGeneration
     IN /\ generation' = IF clear THEN 1 ELSE generation + 1
        /\ stamp' = [(IF clear THEN [c \in Cells |-> 0] ELSE stamp)
                       EXCEPT ![start] = generation']
        /\ parent' = [(IF unsized THEN [c \in Cells |-> NoParent] ELSE parent)
                        EXCEPT ![start] = NoParent]
  /\ queue' = <<start>>
  /\ head' = 0
  /\ pc' = "search"
  /\ UNCHANGED <<occupancy, surveyed, start, side, route>>

(* The oldest cell is taken; it ends the search when it is a target. *)
Dequeue ==
  /\ pc = "search"
  /\ head < Len(queue)
  /\ head' = head + 1
  /\ IF IsTarget(queue[head + 1])
       THEN /\ route' = <<queue[head + 1]>>
            /\ pc' = "walk"
            /\ UNCHANGED side
       ELSE /\ side' = 1
            /\ pc' = "look"
            /\ UNCHANGED route
  /\ UNCHANGED <<occupancy, surveyed, start, stamp, parent, queue, generation>>

Current == queue[head]

(* Bugs in the expansion: cells no scan has proven empty are flown through, *)
LookThroughTheUnknown ==
  /\ pc = "look"
  /\ side <= Len(Around[Current])
  /\ side' = side + 1
  /\ LET neighbour == Around[Current][side]
     IN IF ~Visited(neighbour) /\ occupancy[neighbour] # "Occupied"
          THEN /\ stamp' = [stamp EXCEPT ![neighbour] = generation]
               /\ parent' = [parent EXCEPT ![neighbour] = Current]
               /\ queue' = Append(queue, neighbour)
          ELSE UNCHANGED <<stamp, parent, queue>>
  /\ UNCHANGED <<occupancy, surveyed, start, head, generation, route, pc>>

(* or the newest cell is expanded first.                                    *)
LookDepthFirst ==
  /\ pc = "look"
  /\ side <= Len(Around[Current])
  /\ side' = side + 1
  /\ LET neighbour == Around[Current][side]
     IN IF ~Visited(neighbour) /\ occupancy[neighbour] = "Empty"
          THEN /\ stamp' = [stamp EXCEPT ![neighbour] = generation]
               /\ parent' = [parent EXCEPT ![neighbour] = Current]
               /\ queue' = SubSeq(queue, 1, head) \o <<neighbour>> \o SubSeq(queue, head + 1, Len(queue))
          ELSE UNCHANGED <<stamp, parent, queue>>
  /\ UNCHANGED <<occupancy, surveyed, start, head, generation, route, pc>>

(* One neighbour of the current cell: the first look enqueues it. *)
LookAround ==
  /\ pc = "look"
  /\ side <= Len(Around[Current])
  /\ side' = side + 1
  /\ LET neighbour == Around[Current][side]
     IN IF ~Visited(neighbour) /\ occupancy[neighbour] = "Empty"
          THEN /\ stamp' = [stamp EXCEPT ![neighbour] = generation]
               /\ parent' = [parent EXCEPT ![neighbour] = Current]
               /\ queue' = Append(queue, neighbour)
          ELSE UNCHANGED <<stamp, parent, queue>>
  /\ UNCHANGED <<occupancy, surveyed, start, head, generation, route, pc>>

Expanded ==
  /\ pc = "look"
  /\ side > Len(Around[Current])
  /\ pc' = "search"
  /\ UNCHANGED <<occupancy, surveyed, start, scratch, side, route>>

(* Nothing left to expand: nullopt, and the mission is over. *)
Exhausted ==
  /\ pc = "search"
  /\ head = Len(queue)
  /\ pc' = "none"
  /\ UNCHANGED <<occupancy, surveyed, start, scratch, side, route>>

(* The route is followed back along the parents; the reversal at the end of *)
(* the loop is the prepending here.                                         *)
WalkBack ==
  /\ pc = "walk"
  /\ IF parent[route[1]] # NoParent
       THEN /\ route' = <<parent[route[1]]>> \o route
            /\ UNCHANGED pc
       ELSE /\ pc' = "found"
            /\ UNCHANGED route
  /\ UNCHANGED <<occupancy, surveyed, start, scratch, side>>

(* finished_: the algorithm searches no more. *)
Finished == pc = "none" /\ UNCHANGED vars

Next ==
  \/ Survey \/ BeginSearch \/ Dequeue \/ LookAround \/ Expanded \/ Exhausted \/ WalkBack
  \/ Finished

Spec == Init /\ [][Next]_vars

(* The search is a loop on one thread, and each route is flown. *)
FairSpec == Spec /\ WF_vars(Next)

-----------------------------------------------------------------------------
(* What may be reached by flying through mapped-empty cells, said without   *)
(* paths: c is in every set that holds the start and is closed under        *)
(* flying.                                                                  *)
ClosedUnderFlight(set) ==
  /\ start \in set
  /\ \A c \in set, d \in Cells : AreNeighbours(c, d) /\ occupancy[d] = "Empty" => d \in set

Reachable(c) == \A set \in SUBSET Cells : ClosedUnderFlight(set) => c \in set

(* A reference: the cells within n flights of the start. *)
OneFlightMore(set) ==
  set \cup {d \in Cells : occupancy[d] = "Empty" /\ \E c \in set : AreNeighbours(c, d)}

Within(n) ==
  LET within[k \in 0 .. n] == IF k = 0 THEN {start} ELSE OneFlightMore(within[k - 1])
  IN within[n]

-----------------------------------------------------------------------------
(* The safety guarantee of planRouteToFrontier: every route it returns      *)
(* starts where the drone is, goes from neighbour to neighbour through      *)
(* cells proven empty, and ends at a frontier not surveyed yet.  The parent *)
(* array is full of old searches' predecessors, and none is ever followed.  *)
RouteLeadsThroughEmptySpace ==
  pc = "found" =>
    /\ Len(route) >= 2
    /\ route[1] = start
    /\ IsTarget(route[Len(route)])
    /\ \A i \in 2 .. Len(route) :
         occupancy[route[i]] = "Empty" /\ AreNeighbours(route[i - 1], route[i])

(* The mission is not given up while a frontier could still be flown to,    *)
(* however many searches have used the stamps before: nullopt means that no *)
(* target is reachable.                                                     *)
NothingReachableIsLeft ==
  pc = "none" => \A c \in Cells : IsTarget(c) => ~Reachable(c)

(* The target found is the nearest by step count, and the route to it is a  *)
(* shortest one.                                                            *)
NearestFrontierFirst ==
  pc = "found" =>
    /\ route[Len(route)] \in Within(Len(route) - 1)
    /\ \A c \in Within(Len(route) - 2) : ~IsTarget(c)

(* A cell is enqueued at most once per search, so that the queue never      *)
(* outgrows the capacity reserved for it and the search never allocates.    *)
QueueFitsItsReserve ==
  /\ \A i, j \in DOMAIN queue : queue[i] = queue[j] => i = j
  /\ Len(queue) <= Cardinality(Cells)

(* Exploration runs out: each target is surveyed when it is reached and is  *)
(* never a target again.                                                    *)
ExplorationEnds == <>(pc = "none")

-----------------------------------------------------------------------------
(* The inductive invariant. *)

ScratchType ==
  \/ /\ stamp = Unsized /\ parent = Unsized /\ generation = 0
     /\ pc \in {"survey", "begin"}
  \/ /\ stamp \in [Cells -> 0 .. MaxGeneration]
     /\ parent \in [Cells -> Cells \cup {NoParent}]
     /\ generation \in 1 .. MaxGeneration

TypeOK ==
  /\ occupancy \in [Cells -> Occupancies]
  /\ surveyed \subseteq Cells
  /\ start \in Cells
  /\ ScratchType
  /\ queue \in Seq(Cells)
  /\ head \in 0 .. Len(queue)
  /\ side \in Nat \ {0}
  /\ route \in Seq(Cells)
  /\ pc \in {"survey", "begin", "search", "look", "walk", "found", "none"}

(* No stamp is ahead of the generation, so that the next one is fresh. *)
StampInv == \A c \in DOMAIN stamp : stamp[c] <= generation

(* The queue of the search that is running, or ran last. *)
QueuedOnce == \A i, j \in DOMAIN queue : queue[i] = queue[j] => i = j

(* The visited cells are those that have been in the queue; the start is    *)
(* the first of them, and each of the others was reached from one before.   *)
Reached(i) ==
  /\ occupancy[queue[i]] = "Empty"
  /\ \E j \in 1 .. i - 1 :
       parent[queue[i]] = queue[j] /\ AreNeighbours(queue[j], queue[i])

QueueInv ==
  pc \notin {"survey", "begin"} =>
    /\ Len(queue) >= 1 /\ queue[1] = start /\ parent[start] = NoParent
    /\ \A c \in Cells : Visited(c) <=> \E i \in DOMAIN queue : queue[i] = c
    /\ \A i \in 2 .. Len(queue) : Reached(i)

(* The cells taken from the queue were no targets, and whatever can be      *)
(* flown to from them has been visited; the current cell's neighbours as    *)
(* far as they have been looked at.                                         *)
LookedAt(i) == IF pc = "look" /\ i = head THEN 1 .. side - 1 ELSE Nat

ExpansionInv ==
  /\ pc = "look" => head >= 1
  /\ pc = "none" => head = Len(queue)
  /\ pc \in {"search", "look", "none"} =>
       \A i \in 1 .. head :
         /\ ~IsTarget(queue[i])
         /\ \A k \in DOMAIN Around[queue[i]] :
              k \in LookedAt(i) /\ occupancy[Around[queue[i]][k]] = "Empty" =>
                Visited(Around[queue[i]][k])

(* The route so far leads from a visited cell to the target. *)
RouteInv ==
  pc \in {"walk", "found"} =>
    /\ Len(route) >= 1
    /\ \E i \in DOMAIN queue : queue[i] = route[1]
    /\ IsTarget(route[Len(route)])
    /\ \A i \in 2 .. Len(route) :
         occupancy[route[i]] = "Empty" /\ AreNeighbours(route[i - 1], route[i])
    /\ pc = "found" => parent[route[1]] = NoParent

IInv == TypeOK /\ StampInv /\ QueuedOnce /\ QueueInv /\ ExpansionInv /\ RouteInv

=============================================================================
