------------------------ MODULE FrontierSearchProofs ------------------------
(***************************************************************************)
(* Theorems about FrontierSearch, for every finite grid, every neighbour   *)
(* order, every width of the stamp and whatever the surveys report.        *)
(***************************************************************************)
EXTENDS FrontierSearch, FiniteSetTheorems, FunctionTheorems, TLAPS

(* Appending keeps what was there. *)
LEMMA AppendFacts ==
  ASSUME NEW S, NEW s \in Seq(S), NEW e \in S
  PROVE  /\ Append(s, e) \in Seq(S) /\ Len(Append(s, e)) = Len(s) + 1
         /\ \A i \in 1 .. Len(s) : Append(s, e)[i] = s[i]
         /\ Append(s, e)[Len(s) + 1] = e
OBVIOUS

LEMMA PrependFacts ==
  ASSUME NEW S, NEW s \in Seq(S), NEW e \in S
  PROVE  /\ <<e>> \o s \in Seq(S) /\ Len(<<e>> \o s) = Len(s) + 1
         /\ (<<e>> \o s)[1] = e
         /\ \A i \in 2 .. Len(s) + 1 : (<<e>> \o s)[i] = s[i - 1]
OBVIOUS

LEMMA AroundType ==
  ASSUME NEW c \in Cells, NEW k \in DOMAIN Around[c]
  PROVE  /\ Around[c] \in Seq(Cells) /\ DOMAIN Around[c] = 1 .. Len(Around[c])
         /\ Around[c][k] \in Cells /\ AreNeighbours(c, Around[c][k])
<1>1. Around[c] \in Seq(Cells)
  BY SearchAssumption
<1>2. QED
  BY <1>1 DEF AreNeighbours

LEMMA QueueType ==
  ASSUME NEW q \in Seq(Cells), NEW i \in DOMAIN q
  PROVE  DOMAIN q = 1 .. Len(q) /\ Len(q) \in Nat /\ q[i] \in Cells
OBVIOUS

LEMMA ObserveType ==
  ASSUME NEW map \in [Cells -> Occupancies], NEW scan \in [Cells -> Occupancies]
  PROVE  Observe(map, scan) \in [Cells -> Occupancies]
BY DEF Observe

(* Nothing the search does itself changes what a target is. *)
LEMMA TargetStays ==
  ASSUME NEW c \in Cells, UNCHANGED <<occupancy, surveyed, start>>
  PROVE  IsTarget(c)' <=> IsTarget(c)
BY DEF IsTarget, BordersUnmapped

-----------------------------------------------------------------------------

LEMMA InitHolds == Init => IInv
<1> SUFFICES ASSUME Init PROVE IInv
  OBVIOUS
<1>1. TypeOK
  BY SearchAssumption DEF Init, TypeOK, ScratchType, Occupancies
<1>2. StampInv
  BY DEF Init, StampInv, Unsized
<1>3. QueuedOnce /\ QueueInv /\ ExpansionInv /\ RouteInv
  BY DEF Init, QueuedOnce, QueueInv, ExpansionInv, RouteInv
<1>4. QED
  BY <1>1, <1>2, <1>3 DEF IInv

LEMMA SurveyKeeps ==
  ASSUME IInv, Survey
  PROVE  IInv'
<1>1. start' \in Cells
  <2>1. CASE pc = "found"
    <3>1. route \in Seq(Cells) /\ Len(route) >= 1
      BY <2>1 DEF IInv, TypeOK, RouteInv
    <3>2. QED
      BY <2>1, <3>1 DEF Survey
  <2>2. CASE pc # "found"
    BY <2>2 DEF Survey, IInv, TypeOK
  <2>3. QED
    BY <2>1, <2>2
<1>2. occupancy' \in [Cells -> Occupancies]
  <2>1. PICK scan \in Scans[start'] : occupancy' = Observe(occupancy, scan)
    BY DEF Survey
  <2>2. scan \in [Cells -> Occupancies]
    BY <1>1, <2>1, SearchAssumption
  <2>3. QED
    BY <2>1, <2>2, ObserveType DEF IInv, TypeOK
<1>3. ScratchType'
  BY DEF IInv, TypeOK, ScratchType, Survey, scratch
<1>4. TypeOK'
  BY <1>1, <1>2, <1>3 DEF IInv, TypeOK, Survey, scratch
<1>5. StampInv' /\ QueuedOnce'
  BY DEF IInv, StampInv, QueuedOnce, Survey, scratch
<1>6. QueueInv' /\ ExpansionInv' /\ RouteInv'
  BY DEF Survey, QueueInv, ExpansionInv, RouteInv
<1>7. QED
  BY <1>4, <1>5, <1>6 DEF IInv

(* A new generation is carried by no stamp but the start's. *)
LEMMA BeginSearchKeeps ==
  ASSUME IInv, BeginSearch
  PROVE  IInv'
<1>0. /\ pc = "begin" /\ pc' = "search" /\ queue' = <<start>> /\ head' = 0
      /\ UNCHANGED <<occupancy, surveyed, start, side, route>>
      /\ start \in Cells
  BY DEF BeginSearch, IInv, TypeOK
<1>. DEFINE unsized == DOMAIN stamp # Cells
            clear   == unsized \/ generation = MaxGeneration
            stamps  == IF clear THEN [c \in Cells |-> 0] ELSE stamp
            parents == IF unsized THEN [c \in Cells |-> NoParent] ELSE parent
<1>1. /\ generation' = IF clear THEN 1 ELSE generation + 1
      /\ stamp' = [stamps EXCEPT ![start] = generation']
      /\ parent' = [parents EXCEPT ![start] = NoParent]
  BY DEF BeginSearch
<1>2. ~unsized => /\ stamp \in [Cells -> 0 .. MaxGeneration]
                  /\ parent \in [Cells -> Cells \cup {NoParent}]
                  /\ generation \in 1 .. MaxGeneration
  <2>1. DOMAIN Unsized = {}
    BY DEF Unsized
  <2>2. QED
    BY <2>1, SearchAssumption DEF IInv, TypeOK, ScratchType
<1>3. /\ stamps \in [Cells -> 0 .. MaxGeneration]
      /\ parents \in [Cells -> Cells \cup {NoParent}]
      /\ generation' \in 1 .. MaxGeneration
      /\ \A c \in Cells : stamps[c] < generation'
  <2>1. CASE clear
    BY <1>1, <1>2, <2>1, SearchAssumption
  <2>2. CASE ~clear
    <3>1. \A c \in Cells : stamp[c] <= generation
      BY <2>2 DEF IInv, StampInv
    <3>2. QED
      BY <1>1, <1>2, <2>2, <3>1, SearchAssumption
  <2>3. QED
    BY <2>1, <2>2
<1>. HIDE DEF unsized, clear, stamps, parents
<1>4. /\ stamp' \in [Cells -> 0 .. MaxGeneration]
      /\ parent' \in [Cells -> Cells \cup {NoParent}]
      /\ parent'[start] = NoParent
      /\ \A c \in Cells : stamp'[c] = IF c = start THEN generation' ELSE stamps[c]
  BY <1>0, <1>1, <1>3
<1>5. TypeOK'
  <2>1. ScratchType'
    BY <1>3, <1>4 DEF ScratchType
  <2>2. QED
    BY <1>0, <2>1 DEF IInv, TypeOK
<1>6. StampInv'
  <2>1. \A c \in Cells : stamp'[c] <= generation'
    BY <1>3, <1>4
  <2>2. QED
    BY <1>4, <2>1 DEF StampInv
<1>7. Len(queue') = 1 /\ DOMAIN queue' = {1} /\ queue'[1] = start
  BY <1>0
<1>8. QueuedOnce'
  BY <1>7 DEF QueuedOnce
<1>9. QueueInv'
  <2>1. \A c \in Cells : stamp'[c] = generation' <=> c = start
    BY <1>3, <1>4
  <2>2. QED
    BY <1>0, <1>4, <1>7, <2>1 DEF QueueInv, Visited, Reached
<1>10. ExpansionInv' /\ RouteInv'
  BY <1>0 DEF ExpansionInv, RouteInv
<1>11. QED
  BY <1>5, <1>6, <1>8, <1>9, <1>10 DEF IInv

LEMMA DequeueKeeps ==
  ASSUME IInv, Dequeue
  PROVE  IInv'
<1>0. /\ pc = "search" /\ head < Len(queue) /\ head' = head + 1
      /\ UNCHANGED <<occupancy, surveyed, start, stamp, parent, queue, generation>>
      /\ queue \in Seq(Cells) /\ head \in 0 .. Len(queue) /\ Len(queue) \in Nat
  BY DEF Dequeue, IInv, TypeOK
<1>1. queue[head + 1] \in Cells /\ head + 1 \in DOMAIN queue
  BY <1>0
<1>2. StampInv' /\ QueuedOnce'
  BY <1>0 DEF IInv, StampInv, QueuedOnce
<1>3. QueueInv'
  <2>1. pc' \notin {"survey", "begin"}
    BY DEF Dequeue
  <2>2. QED
    BY <1>0 DEF IInv, QueueInv, Visited, Reached
<1>4. CASE IsTarget(queue[head + 1])
  <2>1. route' = <<queue[head + 1]>> /\ pc' = "walk" /\ UNCHANGED side
    BY <1>4 DEF Dequeue
  <2>2. ScratchType'
    BY <1>0, <2>1 DEF IInv, TypeOK, ScratchType
  <2>3. TypeOK'
    BY <1>0, <1>1, <2>1, <2>2 DEF IInv, TypeOK
  <2>4. ExpansionInv'
    BY <2>1 DEF ExpansionInv
  <2>5. PICK t \in Cells : t = queue[head + 1] /\ IsTarget(t)
    BY <1>1, <1>4
  <2>6. Len(route') = 1 /\ route'[1] = t /\ route'[Len(route')] = t
    BY <2>1, <2>5
  <2>7. IsTarget(t)'
    BY <1>0, <2>5, TargetStays
  <2>8. RouteInv'
    BY <1>0, <1>1, <2>1, <2>5, <2>6, <2>7 DEF RouteInv, IsTarget, BordersUnmapped
  <2>9. QED
    BY <1>2, <1>3, <2>3, <2>4, <2>8 DEF IInv
<1>5. CASE ~IsTarget(queue[head + 1])
  <2>1. side' = 1 /\ pc' = "look" /\ UNCHANGED route
    BY <1>5 DEF Dequeue
  <2>2. ScratchType'
    BY <1>0, <2>1 DEF IInv, TypeOK, ScratchType
  <2>3. TypeOK'
    BY <1>0, <2>1, <2>2 DEF IInv, TypeOK
  <2>4. ExpansionInv'
    <3>1. SUFFICES ASSUME NEW i \in 1 .. head'
                   PROVE  /\ ~IsTarget(queue[i])'
                          /\ \A k \in DOMAIN Around[queue[i]] :
                               k \in LookedAt(i)' /\ occupancy[Around[queue[i]][k]] = "Empty" =>
                                 Visited(Around[queue[i]][k])
      BY <1>0, <2>1 DEF ExpansionInv, Visited
    <3>2. ~IsTarget(queue[i])' <=> ~IsTarget(queue[i])
      BY <1>0 DEF IsTarget, BordersUnmapped
    <3>3. CASE i = head + 1
      <4>1. LookedAt(i)' = {}
        BY <1>0, <2>1, <3>3 DEF LookedAt
      <4>2. QED
        BY <1>5, <3>2, <3>3, <4>1
    <3>4. CASE i # head + 1
      <4>1. i \in 1 .. head /\ LookedAt(i) = Nat
        BY <1>0, <3>4 DEF LookedAt
      <4>2. LookedAt(i)' \subseteq Nat
        BY <1>0, <2>1, <3>4 DEF LookedAt
      <4>3. QED
        BY <1>0, <3>2, <4>1, <4>2 DEF IInv, ExpansionInv
    <3>5. QED
      BY <3>3, <3>4
  <2>5. RouteInv'
    BY <2>1 DEF RouteInv
  <2>6. QED
    BY <1>2, <1>3, <2>3, <2>4, <2>5 DEF IInv
<1>6. QED
  BY <1>4, <1>5

(* A neighbour seen for the first time joins the queue. *)
LEMMA LookAroundKeeps ==
  ASSUME IInv, LookAround
  PROVE  IInv'
<1>0. /\ pc = "look" /\ pc' = "look" /\ side <= Len(Around[Current]) /\ side' = side + 1
      /\ UNCHANGED <<occupancy, surveyed, start, head, generation, route>>
  BY DEF LookAround
<1>1. /\ queue \in Seq(Cells) /\ Len(queue) \in Nat /\ DOMAIN queue = 1 .. Len(queue)
      /\ head \in 1 .. Len(queue) /\ side \in Nat \ {0} /\ start \in Cells
  BY <1>0 DEF IInv, TypeOK, ExpansionInv
<1>2. /\ stamp \in [Cells -> 0 .. MaxGeneration]
      /\ parent \in [Cells -> Cells \cup {NoParent}]
      /\ generation \in 1 .. MaxGeneration
  BY <1>0 DEF IInv, TypeOK, ScratchType
<1>3. PICK c \in Cells, n \in Cells :
        /\ c = queue[head] /\ c = Current
        /\ side \in DOMAIN Around[c] /\ n = Around[c][side] /\ AreNeighbours(c, n)
  <2>1. queue[head] \in Cells /\ queue[head] = Current
    BY <1>1 DEF Current
  <2>2. side \in DOMAIN Around[Current]
    <3>1. Around[Current] \in Seq(Cells)
      BY <2>1, SearchAssumption
    <3>2. QED
      BY <1>0, <1>1, <3>1
  <2>3. QED
    BY <2>1, <2>2, AroundType
<1>4. /\ Len(queue) >= 1 /\ queue[1] = start /\ parent[start] = NoParent
      /\ \A d \in Cells : Visited(d) <=> \E i \in DOMAIN queue : queue[i] = d
      /\ \A i \in 2 .. Len(queue) : Reached(i)
  BY <1>0 DEF IInv, QueueInv
<1>5. \A i \in 1 .. head :
        /\ ~IsTarget(queue[i])
        /\ \A k \in DOMAIN Around[queue[i]] :
             k \in LookedAt(i) /\ occupancy[Around[queue[i]][k]] = "Empty" =>
               Visited(Around[queue[i]][k])
  BY <1>0 DEF IInv, ExpansionInv
(* What holds of the neighbours looked at, once the new stamps are known.   *)
<1>6. ASSUME \A d \in Cells : Visited(d) => Visited(d)',
             occupancy[n] = "Empty" => Visited(n)',
             \A i \in 1 .. head : queue'[i] = queue[i]
      PROVE  ExpansionInv' /\ RouteInv'
  <2>1. SUFFICES ASSUME NEW i \in 1 .. head
                 PROVE  /\ ~IsTarget(queue[i])'
                        /\ \A k \in DOMAIN Around[queue[i]] :
                             k \in LookedAt(i)' /\ occupancy[Around[queue[i]][k]] = "Empty" =>
                               Visited(Around[queue[i]][k])'
    BY <1>0, <1>1, <1>6 DEF ExpansionInv, RouteInv, Visited
  <2>2. PICK q \in Cells : q = queue[i] /\ q = queue'[i]
    BY <1>1, <1>6
  <2>3. ~IsTarget(q)'
    BY <1>0, <1>5, <2>2, TargetStays
  <2>4. ~IsTarget(queue[i])'
    BY <2>2, <2>3 DEF IsTarget, BordersUnmapped
  <2>5. ASSUME NEW k \in DOMAIN Around[q], k \in LookedAt(i)', occupancy[Around[q][k]] = "Empty"
        PROVE  Visited(Around[q][k])'
    <3>1. Around[q][k] \in Cells /\ k \in Nat
      BY AroundType
    <3>2. CASE k \in LookedAt(i)
      BY <1>5, <1>6, <2>2, <2>5, <3>1, <3>2
    <3>3. CASE k \notin LookedAt(i)
      <4>1. i = head /\ k = side
        BY <1>0, <1>1, <2>5, <3>1, <3>3 DEF LookedAt
      <4>2. Around[q][k] = n
        BY <1>3, <2>2, <4>1
      <4>3. QED
        BY <1>6, <2>5, <4>2
    <3>4. QED
      BY <3>2, <3>3
  <2>6. QED
    BY <2>2, <2>4, <2>5
<1>7. CASE ~Visited(n) /\ occupancy[n] = "Empty"
  <2>1. /\ stamp' = [stamp EXCEPT ![n] = generation]
        /\ parent' = [parent EXCEPT ![n] = c]
        /\ queue' = Append(queue, n)
    BY <1>3, <1>7 DEF LookAround
  <2>2. /\ queue' \in Seq(Cells) /\ Len(queue') = Len(queue) + 1
        /\ DOMAIN queue' = 1 .. Len(queue) + 1
        /\ \A i \in 1 .. Len(queue) : queue'[i] = queue[i]
        /\ queue'[Len(queue) + 1] = n
    BY <1>1, <1>3, <2>1, AppendFacts
  <2>3. /\ stamp' \in [Cells -> 0 .. MaxGeneration]
        /\ parent' \in [Cells -> Cells \cup {NoParent}]
        /\ \A d \in Cells : /\ stamp'[d] = IF d = n THEN generation ELSE stamp[d]
                            /\ parent'[d] = IF d = n THEN c ELSE parent[d]
    BY <1>2, <1>3, <2>1, SearchAssumption
  <2>4. \A i \in 1 .. Len(queue) : queue[i] # n
    BY <1>1, <1>3, <1>4, <1>7
  <2>5. TypeOK'
    <3>1. ScratchType'
      BY <1>0, <1>2, <2>3 DEF ScratchType
    <3>2. QED
      BY <1>0, <1>1, <2>2, <3>1 DEF IInv, TypeOK
  <2>6. StampInv'
    <3>1. \A d \in Cells : stamp[d] <= generation
      BY <1>2 DEF IInv, StampInv
    <3>2. \A d \in Cells : stamp'[d] <= generation'
      BY <1>0, <1>2, <2>3, <3>1
    <3>3. QED
      BY <2>3, <3>2 DEF StampInv
  <2>7. QueuedOnce'
    <3>1. \A i, j \in 1 .. Len(queue) : queue[i] = queue[j] => i = j
      BY <1>1 DEF IInv, QueuedOnce
    <3>2. \A i, j \in 1 .. Len(queue) + 1 : queue'[i] = queue'[j] => i = j
      BY <1>1, <2>2, <2>4, <3>1
    <3>3. QED
      BY <2>2, <3>2 DEF QueuedOnce
  <2>8. \A d \in Cells : stamp'[d] = generation' <=> \E i \in DOMAIN queue' : queue'[i] = d
    <3>1. TAKE d \in Cells
    <3>2. CASE d = n
      <4>1. Len(queue) + 1 \in DOMAIN queue'
        BY <1>1, <2>2
      <4>2. stamp'[d] = generation'
        BY <1>0, <2>3, <3>2
      <4>3. QED
        BY <2>2, <3>2, <4>1, <4>2
    <3>3. CASE d # n
      <4>1. stamp'[d] = generation' <=> \E i \in 1 .. Len(queue) : queue[i] = d
        BY <1>0, <1>1, <1>4, <2>3, <3>3 DEF Visited
      <4>2. (\E i \in 1 .. Len(queue) : queue[i] = d) <=> \E i \in DOMAIN queue' : queue'[i] = d
        BY <1>1, <2>2, <3>3
      <4>3. QED
        BY <4>1, <4>2
    <3>4. QED
      BY <3>2, <3>3
  <2>9. ASSUME NEW i \in 2 .. Len(queue')
        PROVE  Reached(i)'
    <3>1. CASE i = Len(queue) + 1
      <4>1. queue'[i] = n
        BY <2>2, <3>1
      <4>0. head \in 1 .. i - 1 /\ queue[head] = c
        BY <1>0, <1>1, <1>3, <3>1 DEF Current
      <4>2. PICK k \in 1 .. i - 1 : k = head /\ queue[k] = c
        BY <4>0
      <4>3. queue'[k] = c
        BY <1>1, <2>2, <3>1, <4>2
      <4>4. parent'[n] = c /\ occupancy'[n] = "Empty" /\ AreNeighbours(c, n)
        BY <1>0, <1>3, <1>7, <2>3
      <4>5. QED
        BY <4>1, <4>2, <4>3, <4>4 DEF Reached, AreNeighbours
    <3>2. CASE i # Len(queue) + 1
      <4>1. i \in 2 .. Len(queue) /\ queue'[i] = queue[i] /\ queue[i] \in Cells
        BY <1>1, <2>2, <2>9, <3>2
      <4>2. PICK j \in 1 .. i - 1 :
              parent[queue[i]] = queue[j] /\ AreNeighbours(queue[j], queue[i])
        BY <1>4, <4>1 DEF Reached
      <4>3. queue'[j] = queue[j] /\ occupancy'[queue[i]] = "Empty"
        BY <1>0, <1>1, <1>4, <2>2, <4>1, <4>2 DEF Reached
      <4>4. parent'[queue[i]] = queue[j]
        BY <2>3, <2>4, <4>1, <4>2
      <4>5. QED
        BY <4>1, <4>2, <4>3, <4>4 DEF Reached, AreNeighbours
    <3>3. QED
      BY <3>1, <3>2
  <2>10. QueueInv'
    <3>1. parent'[start] = NoParent /\ queue'[1] = start
      BY <1>1, <1>4, <2>2, <2>3, <2>4
    <3>2. Len(queue') >= 1 /\ \A i \in 2 .. Len(queue') : Reached(i)'
      BY ONLY Len(queue) \in Nat, <2>2, <2>9
    <3>3. \A d \in Cells : Visited(d)' <=> \E i \in DOMAIN queue' : queue'[i] = d
      BY ONLY <2>8 DEF Visited
    <3>4. start' = start
      BY <1>0
    <3>5. QED
      BY ONLY <3>1, <3>2, <3>3, <3>4 DEF QueueInv
  <2>11. ExpansionInv' /\ RouteInv'
    <3>1. /\ \A d \in Cells : Visited(d) => Visited(d)'
          /\ Visited(n)'
      BY <1>0, <1>3, <2>3 DEF Visited
    <3>2. \A i \in 1 .. head : queue'[i] = queue[i]
      BY <1>1, <2>2
    <3>3. QED
      BY <1>6, <3>1, <3>2
  <2>12. QED
    BY <2>5, <2>6, <2>7, <2>10, <2>11 DEF IInv
<1>8. CASE ~(~Visited(n) /\ occupancy[n] = "Empty")
  <2>1. UNCHANGED <<stamp, parent, queue>>
    BY <1>3, <1>8 DEF LookAround
  <2>2. TypeOK'
    BY <1>0, <1>1, <1>2, <2>1 DEF IInv, TypeOK, ScratchType
  <2>3. StampInv' /\ QueuedOnce'
    BY <1>0, <2>1 DEF IInv, StampInv, QueuedOnce
  <2>4. QueueInv'
    BY <1>0, <2>1 DEF IInv, QueueInv, Visited, Reached
  <2>5. ExpansionInv' /\ RouteInv'
    <3>1. /\ \A d \in Cells : Visited(d) => Visited(d)'
          /\ occupancy[n] = "Empty" => Visited(n)'
      BY <1>0, <1>8, <2>1 DEF Visited
    <3>2. QED
      BY <1>6, <2>1, <3>1
  <2>6. QED
    BY <2>2, <2>3, <2>4, <2>5 DEF IInv
<1>9. QED
  BY <1>7, <1>8

LEMMA ExpandedKeeps ==
  ASSUME IInv, Expanded
  PROVE  IInv'
<1>0. /\ pc = "look" /\ pc' = "search" /\ side > Len(Around[Current])
      /\ UNCHANGED <<occupancy, surveyed, start, stamp, parent, queue, head, generation, side, route>>
  BY DEF Expanded, scratch
<1>1. /\ queue \in Seq(Cells) /\ head \in 1 .. Len(queue) /\ side \in Nat \ {0}
  BY <1>0 DEF IInv, TypeOK, ExpansionInv
<1>2. TypeOK'
  BY <1>0 DEF IInv, TypeOK, ScratchType
<1>3. StampInv' /\ QueuedOnce' /\ RouteInv'
  BY <1>0 DEF IInv, StampInv, QueuedOnce, RouteInv
<1>4. QueueInv'
  BY <1>0 DEF IInv, QueueInv, Visited, Reached
<1>5. ExpansionInv'
  <2>1. SUFFICES ASSUME NEW i \in 1 .. head
                 PROVE  /\ ~IsTarget(queue[i])'
                        /\ \A k \in DOMAIN Around[queue[i]] :
                             occupancy[Around[queue[i]][k]] = "Empty" =>
                               Visited(Around[queue[i]][k])
    BY <1>0 DEF ExpansionInv, Visited
  <2>2. PICK q \in Cells : q = queue[i]
    BY <1>1
  <2>3. ~IsTarget(q)'
    BY <1>0, <2>2, TargetStays DEF IInv, ExpansionInv
  <2>4. ~IsTarget(queue[i])'
    BY <1>0, <2>2, <2>3 DEF IsTarget, BordersUnmapped
  <2>5. ASSUME NEW k \in DOMAIN Around[q]
        PROVE  k \in LookedAt(i)
    <3>1. DOMAIN Around[q] = 1 .. Len(Around[q]) /\ Around[q] \in Seq(Cells)
      BY AroundType
    <3>2. i = head => k < side
      BY <1>0, <1>1, <2>2, <3>1 DEF Current
    <3>3. QED
      BY <1>1, <3>1, <3>2 DEF LookedAt
  <2>6. QED
    BY <1>0, <2>2, <2>4, <2>5 DEF IInv, ExpansionInv
<1>6. QED
  BY <1>2, <1>3, <1>4, <1>5 DEF IInv

LEMMA ExhaustedKeeps ==
  ASSUME IInv, Exhausted
  PROVE  IInv'
<1>0. /\ pc = "search" /\ pc' = "none" /\ head = Len(queue)
      /\ UNCHANGED <<occupancy, surveyed, start, stamp, parent, queue, head, generation, side, route>>
  BY DEF Exhausted, scratch
<1>1. TypeOK'
  BY <1>0 DEF IInv, TypeOK, ScratchType
<1>2. StampInv' /\ QueuedOnce' /\ RouteInv'
  BY <1>0 DEF IInv, StampInv, QueuedOnce, RouteInv
<1>3. QueueInv'
  BY <1>0 DEF IInv, QueueInv, Visited, Reached
<1>4. ExpansionInv'
  BY <1>0 DEF IInv, ExpansionInv, Visited, LookedAt, IsTarget, BordersUnmapped
<1>5. QED
  BY <1>1, <1>2, <1>3, <1>4 DEF IInv

(* A visited cell other than the start was reached from a visited one. *)
LEMMA PredecessorOf ==
  ASSUME IInv, pc \notin {"survey", "begin"}, NEW i \in DOMAIN queue
  PROVE  \/ queue[i] = start /\ parent[queue[i]] = NoParent
         \/ /\ parent[queue[i]] \in Cells /\ occupancy[queue[i]] = "Empty"
            /\ AreNeighbours(parent[queue[i]], queue[i])
            /\ \E j \in DOMAIN queue : queue[j] = parent[queue[i]]
<1>1. queue \in Seq(Cells) /\ DOMAIN queue = 1 .. Len(queue) /\ Len(queue) \in Nat
  BY DEF IInv, TypeOK
<1>2. /\ queue[1] = start /\ parent[start] = NoParent
      /\ \A j \in 2 .. Len(queue) : Reached(j)
  BY DEF IInv, QueueInv
<1>3. CASE i = 1
  BY <1>2, <1>3
<1>4. CASE i # 1
  <2>1. i \in 2 .. Len(queue)
    BY <1>1, <1>4
  <2>2. PICK j \in 1 .. i - 1 :
          parent[queue[i]] = queue[j] /\ AreNeighbours(queue[j], queue[i])
    BY <1>2, <2>1 DEF Reached
  <2>3. j \in DOMAIN queue /\ queue[j] \in Cells /\ occupancy[queue[i]] = "Empty"
    BY <1>1, <1>2, <2>1, <2>2 DEF Reached
  <2>4. QED
    BY <2>2, <2>3
<1>5. QED
  BY <1>3, <1>4

LEMMA WalkBackKeeps ==
  ASSUME IInv, WalkBack
  PROVE  IInv'
<1>0. /\ pc = "walk"
      /\ UNCHANGED <<occupancy, surveyed, start, stamp, parent, queue, head, generation, side>>
      /\ pc' \in {"walk", "found"}
  BY DEF WalkBack, scratch
<1>1. /\ route \in Seq(Cells) /\ Len(route) \in Nat /\ Len(route) >= 1
      /\ \E i \in DOMAIN queue : queue[i] = route[1]
      /\ IsTarget(route[Len(route)])
      /\ \A i \in 2 .. Len(route) :
           occupancy[route[i]] = "Empty" /\ AreNeighbours(route[i - 1], route[i])
  BY <1>0 DEF IInv, TypeOK, RouteInv
<1>2. StampInv' /\ QueuedOnce'
  BY <1>0 DEF IInv, StampInv, QueuedOnce
<1>3. QueueInv' /\ ExpansionInv'
  BY <1>0 DEF IInv, QueueInv, Visited, Reached, ExpansionInv
<1>4. ScratchType'
  BY <1>0 DEF IInv, TypeOK, ScratchType
<1>5. CASE parent[route[1]] # NoParent
  <2>1. route' = <<parent[route[1]]>> \o route /\ pc' = "walk"
    BY <1>0, <1>5 DEF WalkBack
  <2>2. PICK p \in Cells : /\ p = parent[route[1]] /\ occupancy[route[1]] = "Empty"
                           /\ AreNeighbours(p, route[1])
                           /\ \E j \in DOMAIN queue : queue[j] = p
    BY <1>0, <1>1, <1>5, PredecessorOf
  <2>3. /\ route' \in Seq(Cells) /\ Len(route') = Len(route) + 1 /\ route'[1] = p
        /\ \A i \in 2 .. Len(route) + 1 : route'[i] = route[i - 1]
    BY <1>1, <2>1, <2>2, PrependFacts
  <2>4. TypeOK'
    BY <1>0, <1>4, <2>1, <2>3 DEF IInv, TypeOK
  <2>5. PICK t \in Cells : t = route[Len(route)] /\ IsTarget(t)
    BY <1>1
  <2>6. IsTarget(t)' /\ route'[Len(route')] = t
    BY <1>0, <1>1, <2>3, <2>5, TargetStays
  <2>7. \A i \in 2 .. Len(route') :
          occupancy'[route'[i]] = "Empty" /\ AreNeighbours(route'[i - 1], route'[i])
    <3>1. TAKE i \in 2 .. Len(route')
    <3>2. CASE i = 2
      BY <1>0, <1>1, <2>2, <2>3, <3>2
    <3>3. CASE i # 2
      <4>1. i - 1 \in 2 .. Len(route) /\ route'[i] = route[i - 1]
        BY <1>1, <2>3, <3>3
      <4>2. route'[i - 1] = route[i - 1 - 1]
        BY <1>1, <2>3, <4>1
      <4>3. QED
        BY <1>0, <1>1, <4>1, <4>2
    <3>4. QED
      BY <3>2, <3>3
  <2>8. RouteInv'
    <3>1. Len(route') >= 1 /\ \E j \in DOMAIN queue' : queue'[j] = route'[1]
      BY <1>0, <1>1, <2>2, <2>3
    <3>2. IsTarget(route[Len(route)])'
      BY <2>6 DEF IsTarget, BordersUnmapped
    <3>3. \A i \in 2 .. Len(route') :
            occupancy'[route'[i]] = "Empty" /\ AreNeighbours(route[i - 1], route[i])'
      BY <2>7 DEF AreNeighbours
    <3>4. QED
      BY <2>1, <3>1, <3>2, <3>3 DEF RouteInv
  <2>9. QED
    BY <1>2, <1>3, <2>4, <2>8 DEF IInv
<1>6. CASE parent[route[1]] = NoParent
  <2>1. pc' = "found" /\ UNCHANGED route
    BY <1>6 DEF WalkBack
  <2>2. TypeOK'
    BY <1>0, <1>4, <2>1 DEF IInv, TypeOK
  <2>3. RouteInv'
    BY <1>0, <1>1, <1>6, <2>1 DEF RouteInv, IsTarget, BordersUnmapped
  <2>4. QED
    BY <1>2, <1>3, <2>2, <2>3 DEF IInv
<1>7. QED
  BY <1>5, <1>6

LEMMA StutterKeeps ==
  ASSUME IInv, UNCHANGED vars
  PROVE  IInv'
<1>1. TypeOK' /\ StampInv' /\ QueuedOnce'
  BY DEF IInv, vars, scratch, TypeOK, ScratchType, StampInv, QueuedOnce
<1>2. QueueInv' /\ RouteInv'
  BY DEF IInv, vars, scratch, QueueInv, Visited, Reached, RouteInv, IsTarget, BordersUnmapped
<1>3. ExpansionInv'
  BY DEF IInv, vars, scratch, ExpansionInv, Visited, LookedAt, IsTarget, BordersUnmapped
<1>4. QED
  BY <1>1, <1>2, <1>3 DEF IInv

-----------------------------------------------------------------------------
(* The inductive invariant holds in every reachable state: the stamps tell  *)
(* the running search's cells from all earlier ones, the visited cells are  *)
(* those queued, what has been expanded is closed, and the route is being   *)
(* walked back through this search's predecessors only.                     *)
THEOREM FrontierSearchInvariant == Spec => []IInv
<1>1. Init => IInv
  BY InitHolds
<1>2. IInv /\ [Next]_vars => IInv'
  <2>1. SUFFICES ASSUME IInv, [Next]_vars PROVE IInv'
    OBVIOUS
  <2>2. CASE UNCHANGED vars
    BY <2>1, <2>2, StutterKeeps
  <2>3. CASE Next
    BY <2>1, <2>3, SurveyKeeps, BeginSearchKeeps, DequeueKeeps, LookAroundKeeps, ExpandedKeeps,
       ExhaustedKeeps, WalkBackKeeps, StutterKeeps DEF Next, Finished
  <2>4. QED
    BY <2>1, <2>2, <2>3
<1>3. QED
  BY <1>1, <1>2, PTL DEF Spec

(* The type invariant of the search. *)
THEOREM FrontierSearchTypeCorrect == Spec => []TypeOK
<1>1. IInv => TypeOK
  BY DEF IInv
<1>2. QED
  BY <1>1, FrontierSearchInvariant, PTL

LEMMA RouteIsSafe == IInv => RouteLeadsThroughEmptySpace
<1> SUFFICES ASSUME IInv, pc = "found" PROVE RouteLeadsThroughEmptySpace
  BY DEF RouteLeadsThroughEmptySpace
<1>1. /\ route \in Seq(Cells) /\ Len(route) \in Nat /\ Len(route) >= 1
      /\ IsTarget(route[Len(route)])
      /\ \A i \in 2 .. Len(route) :
           occupancy[route[i]] = "Empty" /\ AreNeighbours(route[i - 1], route[i])
      /\ parent[route[1]] = NoParent
  BY DEF IInv, TypeOK, RouteInv
<1>2. PICK i \in DOMAIN queue : queue[i] = route[1]
  BY DEF IInv, RouteInv
<1>3. route[1] = start
  BY <1>1, <1>2, PredecessorOf, SearchAssumption
<1>4. Len(route) # 1
  BY <1>1, <1>3 DEF IsTarget
<1>5. Len(route) >= 2
  <2>1. \A n \in Nat : n >= 1 /\ n # 1 => n >= 2
    OBVIOUS
  <2>2. QED
    BY <1>1, <1>4, <2>1
<1>6. QED
  BY <1>1, <1>3, <1>5 DEF RouteLeadsThroughEmptySpace

(* Every route planRouteToFrontier returns leads from the drone's cell      *)
(* through cells mapped Empty to a frontier not surveyed yet.               *)
THEOREM RouteLeadsThroughEmptySpaceHolds == Spec => []RouteLeadsThroughEmptySpace
BY RouteIsSafe, FrontierSearchInvariant, PTL

(* An exhausted search has visited a set that is closed under flying. *)
LEMMA ExhaustedIsClosed ==
  ASSUME IInv, pc = "none"
  PROVE  /\ ClosedUnderFlight({c \in Cells : Visited(c)})
         /\ \A c \in Cells : Visited(c) => ~IsTarget(c)
<1>1. queue \in Seq(Cells) /\ DOMAIN queue = 1 .. Len(queue) /\ Len(queue) \in Nat /\ start \in Cells
  BY DEF IInv, TypeOK
<1>2. /\ Len(queue) >= 1 /\ queue[1] = start
      /\ \A c \in Cells : Visited(c) <=> \E i \in DOMAIN queue : queue[i] = c
  BY DEF IInv, QueueInv
<1>3. \A i \in DOMAIN queue :
        /\ ~IsTarget(queue[i])
        /\ \A k \in DOMAIN Around[queue[i]] :
             occupancy[Around[queue[i]][k]] = "Empty" => Visited(Around[queue[i]][k])
  <2>1. TAKE i \in DOMAIN queue
  <2>2. i \in 1 .. head
    BY <1>1 DEF IInv, ExpansionInv
  <2>3. \A k \in DOMAIN Around[queue[i]] : k \in LookedAt(i)
    <3>1. queue[i] \in Cells
      BY <1>1
    <3>2. Around[queue[i]] \in Seq(Cells)
      BY <3>1, SearchAssumption
    <3>3. QED
      BY <3>2 DEF LookedAt
  <2>4. QED
    BY <2>2, <2>3 DEF IInv, ExpansionInv
<1>4. Visited(start)
  BY <1>1, <1>2
<1>5. ASSUME NEW c \in Cells, Visited(c), NEW d \in Cells, AreNeighbours(c, d), occupancy[d] = "Empty"
      PROVE  Visited(d)
  BY <1>2, <1>3, <1>5 DEF AreNeighbours
<1>6. QED
  BY <1>1, <1>2, <1>3, <1>4, <1>5 DEF ClosedUnderFlight

(* When the search gives up, no frontier can be reached: nothing the drone  *)
(* could have flown to is left, whichever stamps earlier searches left.     *)
THEOREM NothingReachableIsLeftHolds == Spec => []NothingReachableIsLeft
<1>1. IInv => NothingReachableIsLeft
  <2>1. SUFFICES ASSUME IInv, pc = "none", NEW c \in Cells, IsTarget(c), Reachable(c) PROVE FALSE
    BY DEF NothingReachableIsLeft
  <2>. DEFINE seen == {d \in Cells : Visited(d)}
  <2>2. seen \in SUBSET Cells
    OBVIOUS
  <2>3. c \in seen
    BY <2>1, <2>2, ExhaustedIsClosed DEF Reachable
  <2>4. QED
    BY <2>1, <2>3, ExhaustedIsClosed
<1>2. QED
  BY <1>1, FrontierSearchInvariant, PTL

(* The queue holds no cell twice and never more cells than the grid has, so *)
(* the capacity reserved once is enough for every search.                   *)
THEOREM QueueFitsItsReserveHolds == Spec => []QueueFitsItsReserve
<1>1. IInv => QueueFitsItsReserve
  <2>1. SUFFICES ASSUME IInv PROVE QueueFitsItsReserve
    OBVIOUS
  <2>2. queue \in Seq(Cells) /\ DOMAIN queue = 1 .. Len(queue) /\ Len(queue) \in Nat
    BY <2>1 DEF IInv, TypeOK
  <2>3. \A i, j \in 1 .. Len(queue) : queue[i] = queue[j] => i = j
    BY <2>1, <2>2 DEF IInv, QueuedOnce
  <2>4. queue \in [1 .. Len(queue) -> Cells]
    BY <2>2
  <2>5. queue \in Injection(1 .. Len(queue), Cells)
    BY <2>3, <2>4, Fun_IsInj
  <2>6. Cardinality(1 .. Len(queue)) <= Cardinality(Cells)
    BY <2>5, FS_Injection, SearchAssumption
  <2>7. Cardinality(1 .. Len(queue)) = Len(queue)
    <3>1. ASSUME NEW m \in Nat PROVE Cardinality(1 .. m) = m
      BY ONLY m \in Nat, FS_Interval
    <3>2. QED
      BY ONLY <2>2, <3>1
  <2>8. QED
    BY <2>2, <2>3, <2>6, <2>7 DEF QueueFitsItsReserve
<1>2. QED
  BY <1>1, FrontierSearchInvariant, PTL

-----------------------------------------------------------------------------
(* Every set of naturals that is not empty has a least element: a property  *)
(* of the naturals that fails somewhere fails somewhere first.              *)
LEMMA LeastNat ==
  ASSUME NEW T, T \subseteq Nat, T # {}
  PROVE  \E n \in T : \A m \in T : n <= m
<1>1. IsWellFoundedOn({p \in Nat \X Nat : p[1] < p[2]}, Nat)
  BY NatLessThanWellFounded DEF OpToRel
<1>2. PICK n \in T : \A m \in T : ~(<<m, n>> \in {p \in Nat \X Nat : p[1] < p[2]})
  BY <1>1, WFMin
<1>3. \A m \in T : ~(m < n)
  BY <1>2
<1>4. QED
  BY <1>3

(* The recursion of Within, as an equation between functions. *)
Spreads(w, n) ==
  w = [k \in 0 .. n |-> IF k = 0 THEN {start} ELSE OneFlightMore(w[k - 1])]

LEMMA SpreadsAt ==
  ASSUME NEW n \in Nat, NEW w, Spreads(w, n), NEW k \in 0 .. n
  PROVE  w[k] = IF k = 0 THEN {start} ELSE OneFlightMore(w[k - 1])
BY DEF Spreads

LEMMA SpreadsAgree ==
  ASSUME NEW n \in Nat, NEW p \in Nat, n <= p,
         NEW v, Spreads(v, n), NEW w, Spreads(w, p)
  PROVE  \A k \in 0 .. n : v[k] = w[k]
<1>. DEFINE apart == {k \in 0 .. n : v[k] # w[k]}
<1>1. SUFFICES ASSUME apart # {} PROVE FALSE
  OBVIOUS
<1>2. PICK k \in apart : \A m \in apart : k <= m
  <2>1. apart \subseteq Nat
    OBVIOUS
  <2>. HIDE DEF apart
  <2>2. QED
    BY <1>1, <2>1, LeastNat
<1>3. /\ v[k] = IF k = 0 THEN {start} ELSE OneFlightMore(v[k - 1])
      /\ w[k] = IF k = 0 THEN {start} ELSE OneFlightMore(w[k - 1])
  <2>1. k \in 0 .. n /\ k \in 0 .. p
    OBVIOUS
  <2>2. QED
    BY <2>1, SpreadsAt
<1>4. k # 0 => v[k - 1] = w[k - 1]
  BY <1>2
<1>5. QED
  BY <1>3, <1>4

LEMMA SpreadsFrom ==
  ASSUME NEW n \in Nat, NEW v, Spreads(v, n)
  PROVE  \E w : Spreads(w, n + 1)
<1>. DEFINE w == [k \in 0 .. n + 1 |-> IF k = n + 1 THEN OneFlightMore(v[n]) ELSE v[k]]
<1>1. ASSUME NEW k \in 0 .. n + 1
      PROVE  w[k] = IF k = 0 THEN {start} ELSE OneFlightMore(w[k - 1])
  <2>1. CASE k = n + 1
    BY <2>1
  <2>2. CASE k # n + 1
    <3>1. k \in 0 .. n
      BY <2>2
    <3>2. v[k] = IF k = 0 THEN {start} ELSE OneFlightMore(v[k - 1])
      BY <3>1, SpreadsAt
    <3>3. w[k] = v[k] /\ (k # 0 => w[k - 1] = v[k - 1])
      BY <2>2, <3>1
    <3>4. QED
      BY <3>2, <3>3
  <2>3. QED
    BY <2>1, <2>2
<1>2. w = [k \in 0 .. n + 1 |-> w[k]]
  OBVIOUS
<1>. HIDE DEF w
<1>3. Spreads(w, n + 1)
  BY <1>1, <1>2 DEF Spreads
<1>4. QED
  BY <1>3

LEMMA SpreadsExist ==
  ASSUME NEW n \in Nat
  PROVE  \E w : Spreads(w, n)
<1>. DEFINE without == {k \in Nat : ~\E w : Spreads(w, k)}
<1>1. SUFFICES ASSUME without # {} PROVE FALSE
  OBVIOUS
<1>2. PICK k \in without : \A m \in without : k <= m
  <2>1. without \subseteq Nat
    OBVIOUS
  <2>. HIDE DEF without
  <2>2. QED
    BY <1>1, <2>1, LeastNat
<1>3. CASE k = 0
  <2>. DEFINE w == [j \in 0 .. 0 |-> {start}]
  <2>1. w = [j \in 0 .. 0 |-> IF j = 0 THEN {start} ELSE OneFlightMore(w[j - 1])]
    OBVIOUS
  <2>2. Spreads(w, 0)
    BY <2>1 DEF Spreads
  <2>3. QED
    BY <1>3, <2>2
<1>4. CASE k # 0
  <2>1. k - 1 \in Nat /\ k - 1 \notin without /\ k - 1 + 1 = k
    BY <1>2, <1>4
  <2>2. PICK v : Spreads(v, k - 1)
    BY <2>1
  <2>3. \E w : Spreads(w, k)
    BY <2>1, <2>2, SpreadsFrom
  <2>4. QED
    BY <2>3
<1>5. QED
  BY <1>3, <1>4

LEMMA WithinIs ==
  ASSUME NEW n \in Nat
  PROVE  \E w : Spreads(w, n) /\ Within(n) = w[n]
<1>. DEFINE w == CHOOSE w : w = [k \in 0 .. n |-> IF k = 0 THEN {start} ELSE OneFlightMore(w[k - 1])]
<1>1. w = [k \in 0 .. n |-> IF k = 0 THEN {start} ELSE OneFlightMore(w[k - 1])]
  BY SpreadsExist DEF Spreads
<1>2. Within(n) = w[n]
  BY DEF Within
<1>. HIDE DEF w
<1>3. QED
  BY <1>1, <1>2 DEF Spreads

(* The reference, flight by flight. *)
LEMMA WithinNone == Within(0) = {start}
<1>1. PICK w : Spreads(w, 0) /\ Within(0) = w[0]
  BY WithinIs
<1>2. QED
  BY <1>1 DEF Spreads

LEMMA WithinOneMore ==
  ASSUME NEW n \in Nat
  PROVE  Within(n + 1) = OneFlightMore(Within(n))
<1>1. PICK v : Spreads(v, n) /\ Within(n) = v[n]
  BY WithinIs
<1>2. PICK w : Spreads(w, n + 1) /\ Within(n + 1) = w[n + 1]
  BY WithinIs
<1>3. v[n] = w[n]
  BY <1>1, <1>2, SpreadsAgree
<1>4. w[n + 1] = OneFlightMore(w[n])
  <2>1. n + 1 \in 0 .. n + 1 /\ n + 1 # 0 /\ n + 1 - 1 = n
    OBVIOUS
  <2>2. w[n + 1] = IF n + 1 = 0 THEN {start} ELSE OneFlightMore(w[n + 1 - 1])
    BY ONLY <1>2, <2>1, SpreadsAt
  <2>3. QED
    BY <2>1, <2>2
<1>5. QED
  BY <1>1, <1>2, <1>3, <1>4

-----------------------------------------------------------------------------
(* The levels of a breadth-first search: how many flights from the start    *)
(* each queued cell was reached in.  A cell is one flight further than its  *)
(* predecessor, the levels never fall along the queue, and no queued cell   *)
(* is more than one flight beyond the one being expanded.                   *)
QueueLevels(lv) ==
  /\ lv \in [1 .. Len(queue) -> Nat] /\ lv[1] = 0
  /\ \A i \in 2 .. Len(queue) :
       \E j \in 1 .. i - 1 : parent[queue[i]] = queue[j] /\ lv[i] = lv[j] + 1
  /\ \A i, j \in 1 .. Len(queue) : i <= j => lv[i] <= lv[j]
  /\ \A i \in 1 .. Len(queue) : lv[i] <= lv[IF head = 0 THEN 1 ELSE head] + 1

(* Only the cell that ended the search was a target, and whatever can be    *)
(* flown to from an expanded cell is queued at most one level beyond it.    *)
SeenFrom(i) ==
  IF pc = "search" \/ i < head THEN Nat
  ELSE IF pc = "look" THEN 1 .. side - 1
  ELSE {}

ExpandedLevels(lv) ==
  \A i \in 1 .. head :
    /\ IsTarget(queue[i]) => pc \in {"walk", "found"} /\ i = head
    /\ \A k \in DOMAIN Around[queue[i]] :
         k \in SeenFrom(i) /\ occupancy[Around[queue[i]][k]] = "Empty" =>
           \E j \in 1 .. Len(queue) : queue[j] = Around[queue[i]][k] /\ lv[j] <= lv[i] + 1

(* The route goes down one level a cell.                                    *)
RouteLevels(lv) ==
  pc \in {"walk", "found"} =>
    /\ head >= 1 /\ route[Len(route)] = queue[head]
    /\ \E i \in 1 .. Len(queue) : queue[i] = route[1] /\ lv[i] + Len(route) = lv[head] + 1

NearInv ==
  pc \in {"search", "look", "walk", "found"} =>
    \E lv \in [1 .. Len(queue) -> Nat] :
      QueueLevels(lv) /\ ExpandedLevels(lv) /\ RouteLevels(lv)

LEMMA BeginSearchStartsNear ==
  ASSUME IInv, BeginSearch
  PROVE  NearInv'
<1>1. queue' = <<start>> /\ head' = 0 /\ pc' = "search" /\ Len(queue') = 1
  BY DEF BeginSearch
<1>2. PICK lv : lv = [i \in 1 .. 1 |-> 0]
  OBVIOUS
<1>3. lv \in [1 .. 1 -> Nat] /\ lv[1] = 0
  BY <1>2
<1>4. QueueLevels(lv)'
  BY <1>1, <1>3 DEF QueueLevels
<1>5. ExpandedLevels(lv)' /\ RouteLevels(lv)'
  BY <1>1 DEF ExpandedLevels, RouteLevels
<1>6. QED
  BY <1>1, <1>3, <1>4, <1>5 DEF NearInv

LEMMA DequeueStaysNear ==
  ASSUME IInv, NearInv, Dequeue
  PROVE  NearInv'
<1>0. /\ pc = "search" /\ head < Len(queue) /\ head' = head + 1
      /\ UNCHANGED <<occupancy, surveyed, start, stamp, parent, queue, generation>>
      /\ queue \in Seq(Cells) /\ head \in 0 .. Len(queue) /\ Len(queue) \in Nat
  BY DEF Dequeue, IInv, TypeOK
<1>1. PICK lv \in [1 .. Len(queue) -> Nat] :
        QueueLevels(lv) /\ ExpandedLevels(lv) /\ RouteLevels(lv)
  BY <1>0 DEF NearInv
<1>2. head + 1 \in 1 .. Len(queue) /\ queue[head + 1] \in Cells
  BY <1>0
<1>3. QueueLevels(lv)'
  <2>1. \A i \in 1 .. Len(queue) : lv[i] <= lv[head + 1] + 1
    <3>1. TAKE i \in 1 .. Len(queue)
    <3>2. PICK h \in 1 .. Len(queue) : h = IF head = 0 THEN 1 ELSE head
      BY <1>0
    <3>3. lv[i] <= lv[h] + 1 /\ lv[h] <= lv[head + 1]
      BY <1>0, <1>1, <1>2, <3>2 DEF QueueLevels
    <3>4. lv[i] \in Nat /\ lv[h] \in Nat /\ lv[head + 1] \in Nat
      BY <1>1, <1>2
    <3>5. QED
      BY <3>3, <3>4
  <2>2. /\ \A i \in 2 .. Len(queue) :
             \E j \in 1 .. i - 1 : parent[queue[i]] = queue[j] /\ lv[i] = lv[j] + 1
        /\ \A i, j \in 1 .. Len(queue) : i <= j => lv[i] <= lv[j]
        /\ lv[1] = 0
    BY <1>1 DEF QueueLevels
  <2>3. head + 1 # 0
    BY <1>0
  <2>4. QED
    BY <1>0, <2>1, <2>2, <2>3 DEF QueueLevels
<1>4. pc' = IF IsTarget(queue[head + 1]) THEN "walk" ELSE "look"
  BY DEF Dequeue
<1>5. pc' = "look" => side' = 1
  BY <1>4 DEF Dequeue
<1>6. ExpandedLevels(lv)'
  <2>1. SUFFICES ASSUME NEW i \in 1 .. head + 1
                 PROVE  /\ IsTarget(queue[i])' => pc' \in {"walk", "found"} /\ i = head + 1
                        /\ \A k \in DOMAIN Around[queue[i]] :
                             k \in SeenFrom(i)' /\ occupancy[Around[queue[i]][k]] = "Empty" =>
                               \E j \in 1 .. Len(queue) :
                                 queue[j] = Around[queue[i]][k] /\ lv[j] <= lv[i] + 1
    BY <1>0 DEF ExpandedLevels
  <2>2. IsTarget(queue[i])' <=> IsTarget(queue[i])
    BY <1>0 DEF IsTarget, BordersUnmapped
  <2>3. CASE i = head + 1
    <3>1. SeenFrom(i)' = {}
      BY <1>0, <1>4, <1>5, <2>3 DEF SeenFrom
    <3>2. QED
      BY <1>4, <2>2, <2>3, <3>1
  <2>4. CASE i # head + 1
    <3>1. i \in 1 .. head /\ SeenFrom(i) = Nat /\ SeenFrom(i)' = Nat
      BY <1>0, <2>4 DEF SeenFrom
    <3>2. QED
      BY <1>0, <1>1, <2>2, <3>1 DEF ExpandedLevels
  <2>5. QED
    BY <2>3, <2>4
<1>7. RouteLevels(lv)'
  <2>1. SUFFICES ASSUME pc' = "walk" PROVE RouteLevels(lv)'
    BY <1>4 DEF RouteLevels
  <2>2. route' = <<queue[head + 1]>>
    BY <1>4, <2>1 DEF Dequeue
  <2>3. Len(route') = 1 /\ route'[1] = queue[head + 1]
    BY <2>2
  <2>4. lv[head + 1] + 1 = lv[head + 1] + 1 /\ head + 1 >= 1
    BY <1>0
  <2>5. QED
    BY <1>0, <1>2, <2>3, <2>4 DEF RouteLevels
<1>8. QED
  BY <1>0, <1>1, <1>3, <1>6, <1>7 DEF NearInv

(* A level more. *)
LEMMA OneMoreLevel ==
  ASSUME NEW m \in Nat, NEW lv \in [1 .. m -> Nat], NEW level \in Nat
  PROVE  \E mv \in [1 .. m + 1 -> Nat] :
           (\A i \in 1 .. m : mv[i] = lv[i]) /\ mv[m + 1] = level
<1>1. PICK mv : mv = [i \in 1 .. m + 1 |-> IF i = m + 1 THEN level ELSE lv[i]]
  OBVIOUS
<1>2. mv \in [1 .. m + 1 -> Nat]
  <2>1. \A i \in 1 .. m + 1 : i # m + 1 => i \in 1 .. m
    OBVIOUS
  <2>2. QED
    BY <1>1, <2>1
<1>3. (\A i \in 1 .. m : mv[i] = lv[i]) /\ mv[m + 1] = level
  BY <1>1
<1>4. QED
  BY <1>2, <1>3

LEMMA LookAroundStaysNear ==
  ASSUME IInv, NearInv, LookAround
  PROVE  NearInv'
<1>0. /\ pc = "look" /\ pc' = "look" /\ side <= Len(Around[Current]) /\ side' = side + 1
      /\ UNCHANGED <<occupancy, surveyed, start, head, generation, route>>
  BY DEF LookAround
<1>1. /\ queue \in Seq(Cells) /\ Len(queue) \in Nat /\ DOMAIN queue = 1 .. Len(queue)
      /\ head \in 1 .. Len(queue) /\ side \in Nat \ {0}
      /\ parent \in [Cells -> Cells \cup {NoParent}]
  BY <1>0 DEF IInv, TypeOK, ExpansionInv, ScratchType
<1>2. PICK lv \in [1 .. Len(queue) -> Nat] :
        QueueLevels(lv) /\ ExpandedLevels(lv) /\ RouteLevels(lv)
  BY <1>0 DEF NearInv
<1>3. PICK c \in Cells, n \in Cells :
        /\ c = queue[head] /\ c = Current
        /\ side \in DOMAIN Around[c] /\ n = Around[c][side]
  <2>1. queue[head] \in Cells /\ queue[head] = Current
    BY <1>1 DEF Current
  <2>2. side \in DOMAIN Around[Current]
    <3>1. Around[Current] \in Seq(Cells)
      BY <2>1, SearchAssumption
    <3>2. QED
      BY <1>0, <1>1, <3>1
  <2>3. QED
    BY <2>1, <2>2, AroundType
<1>4. \A d \in Cells : Visited(d) <=> \E i \in 1 .. Len(queue) : queue[i] = d
  BY <1>0, <1>1 DEF IInv, QueueInv
<1>5. /\ \A i \in 1 .. Len(queue) : lv[i] <= lv[head] + 1
      /\ \A i \in 1 .. Len(queue) : lv[i] \in Nat
  <2>1. \A i \in 1 .. Len(queue) : lv[i] <= lv[IF head = 0 THEN 1 ELSE head] + 1
    BY <1>2 DEF QueueLevels
  <2>2. head # 0
    BY <1>1
  <2>3. QED
    BY ONLY <2>1, <2>2, lv \in [1 .. Len(queue) -> Nat]
(* What holds of the cells expanded, once the neighbour's place is known.   *)
<1>6. ASSUME NEW mv, \A i \in 1 .. Len(queue) : mv[i] = lv[i] /\ queue'[i] = queue[i],
             Len(queue') \in Nat, Len(queue') >= Len(queue),
             occupancy[n] = "Empty" =>
               \E j \in 1 .. Len(queue') : queue'[j] = n /\ mv[j] <= lv[head] + 1
      PROVE  ExpandedLevels(mv)' /\ RouteLevels(mv)'
  <2>1. SUFFICES ASSUME NEW i \in 1 .. head
                 PROVE  /\ ~IsTarget(queue[i])'
                        /\ \A k \in DOMAIN Around[queue'[i]] :
                             k \in SeenFrom(i)' /\ occupancy[Around[queue'[i]][k]] = "Empty" =>
                               \E j \in 1 .. Len(queue') :
                                 queue'[j] = Around[queue'[i]][k] /\ mv[j] <= mv[i] + 1
    BY <1>0 DEF ExpandedLevels, RouteLevels
  <2>2. PICK q \in Cells : q = queue[i] /\ q = queue'[i] /\ mv[i] = lv[i] /\ i \in 1 .. Len(queue)
    BY <1>1, <1>6
  <2>3. ~IsTarget(q)'
    BY <1>0, <1>2, <2>2, TargetStays DEF ExpandedLevels
  <2>4. ~IsTarget(queue[i])'
    BY <2>2, <2>3 DEF IsTarget, BordersUnmapped
  <2>5. ASSUME NEW k \in DOMAIN Around[q], k \in SeenFrom(i)', occupancy[Around[q][k]] = "Empty"
        PROVE  \E j \in 1 .. Len(queue') : queue'[j] = Around[q][k] /\ mv[j] <= mv[i] + 1
    <3>1. k \in Nat
      BY AroundType
    <3>2. CASE k \in SeenFrom(i)
      <4>1. PICK j \in 1 .. Len(queue) : queue[j] = Around[q][k] /\ lv[j] <= lv[i] + 1
        <5>1. ExpandedLevels(lv)
          BY <1>2
        <5>2. \A x \in DOMAIN Around[queue[i]] :
                x \in SeenFrom(i) /\ occupancy[Around[queue[i]][x]] = "Empty" =>
                  \E j \in 1 .. Len(queue) : queue[j] = Around[queue[i]][x] /\ lv[j] <= lv[i] + 1
          BY ONLY <5>1, i \in 1 .. head DEF ExpandedLevels
        <5>3. k \in DOMAIN Around[queue[i]] /\ q = queue[i]
          BY <2>2
        <5>4. QED
          BY ONLY <2>5, <3>2, <5>2, <5>3
      <4>2. j \in 1 .. Len(queue') /\ queue'[j] = queue[j] /\ mv[j] = lv[j]
        BY <1>1, <1>6
      <4>3. QED
        BY <2>2, <4>1, <4>2
    <3>3. CASE k \notin SeenFrom(i)
      <4>1. i = head /\ k = side
        BY <1>0, <1>1, <2>5, <3>1, <3>3 DEF SeenFrom
      <4>2. Around[q][k] = n
        BY <1>3, <2>2, <4>1
      <4>3. QED
        BY <1>6, <2>2, <2>5, <4>1, <4>2
    <3>4. QED
      BY <3>2, <3>3
  <2>6. QED
    BY <2>2, <2>4, <2>5
<1>7. CASE ~Visited(n) /\ occupancy[n] = "Empty"
  <2>1. parent' = [parent EXCEPT ![n] = c] /\ queue' = Append(queue, n)
    BY <1>3, <1>7 DEF LookAround
  <2>2. /\ Len(queue') = Len(queue) + 1
        /\ \A i \in 1 .. Len(queue) : queue'[i] = queue[i]
        /\ queue'[Len(queue) + 1] = n
    BY <1>1, <1>3, <2>1, AppendFacts
  <2>3. \A d \in Cells : parent'[d] = IF d = n THEN c ELSE parent[d]
    BY <1>1, <1>3, <2>1
  <2>4. \A i \in 1 .. Len(queue) : queue[i] # n
    BY <1>3, <1>4, <1>7
  <2>5. PICK mv \in [1 .. Len(queue) + 1 -> Nat] :
          /\ \A i \in 1 .. Len(queue) : mv[i] = lv[i]
          /\ mv[Len(queue) + 1] = lv[head] + 1
    <3>1. PICK m \in Nat, level \in Nat : m = Len(queue) /\ level = lv[head] + 1
      <4>1. lv[head] \in Nat
        BY ONLY <1>1, <1>5
      <4>2. Len(queue) \in Nat /\ lv[head] + 1 \in Nat
        BY ONLY <1>1, <4>1
      <4>3. QED
        BY ONLY <4>2
    <3>2. lv \in [1 .. m -> Nat]
      BY <3>1
    <3>3. \E mv \in [1 .. m + 1 -> Nat] : (\A i \in 1 .. m : mv[i] = lv[i]) /\ mv[m + 1] = level
      BY ONLY m \in Nat, level \in Nat, <3>2, OneMoreLevel
    <3>4. QED
      BY ONLY <3>1, <3>3
  <2>6. /\ mv \in [1 .. Len(queue) + 1 -> Nat]
        /\ \A i \in 1 .. Len(queue) : mv[i] = lv[i]
        /\ mv[Len(queue) + 1] = lv[head] + 1
    BY <2>5
  <2>7. ExpandedLevels(mv)' /\ RouteLevels(mv)'
    <3>1. Len(queue) + 1 \in 1 .. Len(queue') /\ mv[Len(queue) + 1] <= lv[head] + 1
      BY <1>1, <1>5, <2>2, <2>6
    <3>2. QED
      BY <1>1, <1>6, <2>2, <2>6, <3>1
  <2>8. mv[1] = 0
    BY <1>1, <1>2, <2>6 DEF QueueLevels
  <2>9. ASSUME NEW i \in 2 .. Len(queue) + 1
        PROVE  \E j \in 1 .. i - 1 : parent'[queue'[i]] = queue'[j] /\ mv[i] = mv[j] + 1
    <3>1. CASE i = Len(queue) + 1
      <4>0. head \in 1 .. i - 1 /\ queue'[head] = queue[head]
        BY <1>1, <2>2, <3>1
      <4>1. head \in 1 .. i - 1 /\ queue'[head] = c /\ mv[head] = lv[head]
        BY <1>1, <1>3, <2>6, <4>0
      <4>2. parent'[queue'[i]] = c /\ mv[i] = lv[head] + 1
        BY <1>3, <2>2, <2>3, <2>6, <3>1
      <4>3. QED
        BY <4>1, <4>2
    <3>2. CASE i # Len(queue) + 1
      <4>1. i \in 2 .. Len(queue) /\ queue'[i] = queue[i] /\ mv[i] = lv[i] /\ queue[i] \in Cells
        BY <1>1, <2>2, <2>6, <2>9, <3>2
      <4>2. PICK j \in 1 .. i - 1 : parent[queue[i]] = queue[j] /\ lv[i] = lv[j] + 1
        BY <1>2, <4>1 DEF QueueLevels
      <4>3. queue'[j] = queue[j] /\ mv[j] = lv[j]
        BY <1>1, <2>2, <2>6, <4>1
      <4>4. parent'[queue[i]] = parent[queue[i]]
        BY <1>1, <2>3, <2>4, <4>1
      <4>5. QED
        BY <4>1, <4>2, <4>3, <4>4
    <3>3. QED
      BY <3>1, <3>2
  <2>10. ASSUME NEW i \in 1 .. Len(queue) + 1, NEW j \in 1 .. Len(queue) + 1, i <= j
         PROVE  mv[i] <= mv[j] /\ mv[i] <= mv[head] + 1
    <3>0. i # Len(queue) + 1 => i \in 1 .. Len(queue)
      BY ONLY Len(queue) \in Nat, i \in 1 .. Len(queue) + 1
    <3>1. i # Len(queue) + 1 => i \in 1 .. Len(queue) /\ mv[i] = lv[i] /\ lv[i] <= lv[head] + 1
      BY <1>5, <2>6, <3>0
    <3>2. mv[head] = lv[head] /\ lv[head] \in Nat
      BY <1>1, <1>5, <2>6
    <3>3. CASE j = Len(queue) + 1
      BY <1>5, <2>6, <3>1, <3>2, <3>3
    <3>4. CASE j # Len(queue) + 1
      <4>1. i \in 1 .. Len(queue) /\ j \in 1 .. Len(queue)
        BY ONLY Len(queue) \in Nat, i \in 1 .. Len(queue) + 1, j \in 1 .. Len(queue) + 1, i <= j,
                <3>4
      <4>2. lv[i] <= lv[j]
        BY <1>2, <2>10, <4>1 DEF QueueLevels
      <4>3. QED
        BY <2>6, <3>1, <3>2, <4>1, <4>2
    <3>5. QED
      BY <3>3, <3>4
  <2>11. QueueLevels(mv)'
    BY <1>0, <1>1, <2>2, <2>6, <2>8, <2>9, <2>10 DEF QueueLevels
  <2>12. QED
    BY <2>2, <2>6, <2>7, <2>11 DEF NearInv
<1>8. CASE ~(~Visited(n) /\ occupancy[n] = "Empty")
  <2>1. UNCHANGED <<parent, queue>>
    BY <1>3, <1>8 DEF LookAround
  <2>2. QueueLevels(lv)'
    BY <1>0, <1>2, <2>1 DEF QueueLevels
  <2>3. ExpandedLevels(lv)' /\ RouteLevels(lv)'
    <3>1. occupancy[n] = "Empty" => \E j \in 1 .. Len(queue) : queue[j] = n
      BY <1>3, <1>4, <1>8
    <3>2. occupancy[n] = "Empty" =>
            \E j \in 1 .. Len(queue') : queue'[j] = n /\ lv[j] <= lv[head] + 1
      BY <1>5, <2>1, <3>1
    <3>3. /\ \A i \in 1 .. Len(queue) : lv[i] = lv[i] /\ queue'[i] = queue[i]
          /\ Len(queue') \in Nat /\ Len(queue') >= Len(queue)
      BY <1>1, <2>1
    <3>4. QED
      BY <1>6, <3>2, <3>3
  <2>4. QED
    BY <1>2, <2>1, <2>2, <2>3 DEF NearInv
<1>9. QED
  BY <1>7, <1>8

LEMMA ExpandedStaysNear ==
  ASSUME IInv, NearInv, Expanded
  PROVE  NearInv'
<1>0. /\ pc = "look" /\ pc' = "search" /\ side > Len(Around[Current])
      /\ UNCHANGED <<occupancy, surveyed, start, stamp, parent, queue, head, generation, side, route>>
  BY DEF Expanded, scratch
<1>1. queue \in Seq(Cells) /\ head \in 1 .. Len(queue) /\ side \in Nat \ {0}
  BY <1>0 DEF IInv, TypeOK, ExpansionInv
<1>2. PICK lv \in [1 .. Len(queue) -> Nat] :
        QueueLevels(lv) /\ ExpandedLevels(lv) /\ RouteLevels(lv)
  BY <1>0 DEF NearInv
<1>3. QueueLevels(lv)' /\ RouteLevels(lv)'
  BY <1>0, <1>2 DEF QueueLevels, RouteLevels
<1>4. ExpandedLevels(lv)'
  <2>1. SUFFICES ASSUME NEW i \in 1 .. head
                 PROVE  /\ ~IsTarget(queue[i])'
                        /\ \A k \in DOMAIN Around[queue[i]] : k \in SeenFrom(i)
    BY <1>0, <1>2 DEF ExpandedLevels
  <2>2. PICK q \in Cells : q = queue[i]
    BY <1>1
  <2>3. ~IsTarget(q)'
    BY <1>0, <1>2, <2>2, TargetStays DEF ExpandedLevels
  <2>4. ~IsTarget(queue[i])'
    BY <1>0, <2>2, <2>3 DEF IsTarget, BordersUnmapped
  <2>5. ASSUME NEW k \in DOMAIN Around[q]
        PROVE  k \in SeenFrom(i)
    <3>1. DOMAIN Around[q] = 1 .. Len(Around[q]) /\ Around[q] \in Seq(Cells)
      BY AroundType
    <3>2. i = head => k < side
      BY <1>0, <1>1, <2>2, <3>1 DEF Current
    <3>3. QED
      BY <1>0, <1>1, <3>1, <3>2 DEF SeenFrom
  <2>6. QED
    BY <2>2, <2>4, <2>5
<1>5. QED
  BY <1>0, <1>2, <1>3, <1>4 DEF NearInv

LEMMA WalkBackStaysNear ==
  ASSUME IInv, NearInv, WalkBack
  PROVE  NearInv'
<1>0. /\ pc = "walk"
      /\ UNCHANGED <<occupancy, surveyed, start, stamp, parent, queue, head, generation, side>>
      /\ pc' \in {"walk", "found"}
  BY DEF WalkBack, scratch
<1>1. /\ queue \in Seq(Cells) /\ DOMAIN queue = 1 .. Len(queue) /\ Len(queue) \in Nat
      /\ route \in Seq(Cells) /\ Len(route) \in Nat /\ Len(route) >= 1
      /\ head \in 0 .. Len(queue) /\ parent[start] = NoParent /\ queue[1] = start
      /\ \A i \in 2 .. Len(queue) : Reached(i)
  BY <1>0 DEF IInv, TypeOK, QueueInv, RouteInv
<1>2. PICK lv \in [1 .. Len(queue) -> Nat] :
        QueueLevels(lv) /\ ExpandedLevels(lv) /\ RouteLevels(lv)
  BY <1>0 DEF NearInv
<1>3. QueueLevels(lv)'
  BY <1>0, <1>2 DEF QueueLevels
<1>4. ExpandedLevels(lv)'
  <2>1. \A i \in 1 .. head : SeenFrom(i)' = SeenFrom(i)
    BY <1>0 DEF SeenFrom
  <2>2. \A i \in 1 .. head : IsTarget(queue[i])' <=> IsTarget(queue[i])
    BY <1>0 DEF IsTarget, BordersUnmapped
  <2>3. QED
    BY <1>0, <1>2, <2>1, <2>2 DEF ExpandedLevels
<1>5. RouteLevels(lv)'
  <2>1. CASE parent[route[1]] # NoParent
    <3>1. route' = <<parent[route[1]]>> \o route
      BY <1>0, <2>1 DEF WalkBack
    <3>2. PICK i \in 1 .. Len(queue) : queue[i] = route[1] /\ lv[i] + Len(route) = lv[head] + 1
      BY <1>0, <1>2 DEF RouteLevels
    <3>3. i \in 2 .. Len(queue)
      BY <1>1, <2>1, <3>2
    <3>4. PICK j \in 1 .. i - 1 : parent[queue[i]] = queue[j] /\ lv[i] = lv[j] + 1
      BY <1>2, <3>3 DEF QueueLevels
    <3>5. j \in 1 .. Len(queue) /\ queue[j] \in Cells /\ parent[route[1]] = queue[j]
      BY <1>1, <3>2, <3>3, <3>4
    <3>6. /\ Len(route') = Len(route) + 1 /\ route'[1] = queue[j]
          /\ \A k \in 2 .. Len(route) + 1 : route'[k] = route[k - 1]
      BY <1>1, <3>1, <3>5, PrependFacts
    <3>7. lv[j] + Len(route') = lv[head] + 1
      <4>1. lv[i] \in Nat /\ lv[j] \in Nat
        BY <3>5
      <4>2. lv[i] = lv[j] + 1 /\ Len(route) \in Nat
        BY <1>1, <3>4
      <4>3. lv[j] + (Len(route) + 1) = lv[i] + Len(route)
        BY <4>1, <4>2
      <4>4. QED
        BY <3>2, <3>6, <4>3
    <3>8. route'[Len(route')] = route[Len(route)]
      <4>1. Len(route) + 1 \in 2 .. Len(route) + 1 /\ Len(route) + 1 - 1 = Len(route)
        BY <1>1
      <4>2. QED
        BY <3>6, <4>1
    <3>9. head >= 1 /\ route[Len(route)] = queue[head]
      BY <1>0, <1>2 DEF RouteLevels
    <3>10. QED
      BY <1>0, <3>5, <3>6, <3>7, <3>8, <3>9 DEF RouteLevels
  <2>2. CASE parent[route[1]] = NoParent
    <3>1. UNCHANGED route
      BY <2>2 DEF WalkBack
    <3>2. QED
      BY <1>0, <1>2, <3>1 DEF RouteLevels
  <2>3. QED
    BY <2>1, <2>2
<1>6. QED
  BY <1>0, <1>2, <1>3, <1>4, <1>5 DEF NearInv

LEMMA NextStaysNear ==
  ASSUME IInv, NearInv, [Next]_vars
  PROVE  NearInv'
<1>1. CASE Survey \/ Exhausted
  BY <1>1 DEF Survey, Exhausted, NearInv
<1>2. CASE UNCHANGED vars
  BY <1>2 DEF vars, scratch, NearInv, QueueLevels, ExpandedLevels, RouteLevels, SeenFrom,
     IsTarget, BordersUnmapped
<1>3. QED
  BY <1>1, <1>2, BeginSearchStartsNear, DequeueStaysNear, LookAroundStaysNear, ExpandedStaysNear,
     WalkBackStaysNear DEF Next, Finished

(* Each queued cell is as near as its level says. *)
LEMMA QueuedWithinItsLevel ==
  ASSUME IInv, pc \notin {"survey", "begin"},
         NEW lv \in [1 .. Len(queue) -> Nat], QueueLevels(lv)
  PROVE  \A i \in 1 .. Len(queue) : queue[i] \in Within(lv[i])
<1>. DEFINE beyond == {i \in 1 .. Len(queue) : queue[i] \notin Within(lv[i])}
<1>0. /\ queue \in Seq(Cells) /\ Len(queue) \in Nat /\ queue[1] = start /\ Len(queue) >= 1
      /\ \A i \in 2 .. Len(queue) : Reached(i)
  BY DEF IInv, TypeOK, QueueInv
<1>1. SUFFICES ASSUME beyond # {} PROVE FALSE
  OBVIOUS
<1>2. PICK i \in beyond : \A m \in beyond : i <= m
  <2>1. beyond \subseteq Nat
    BY <1>0
  <2>. HIDE DEF beyond
  <2>2. QED
    BY <1>1, <2>1, LeastNat
<1>3. i # 1
  <2>1. lv[1] = 0
    BY DEF QueueLevels
  <2>2. queue[1] \in Within(0)
    BY <1>0, WithinNone
  <2>3. QED
    BY <2>1, <2>2
<1>4. i \in 2 .. Len(queue) /\ queue[i] \in Cells
  BY <1>0, <1>3
<1>5. PICK j \in 1 .. i - 1 : parent[queue[i]] = queue[j] /\ lv[i] = lv[j] + 1
  BY <1>4 DEF QueueLevels
<1>6. queue[j] \in Within(lv[j]) /\ lv[j] \in Nat
  BY <1>0, <1>2, <1>4, <1>5
<1>7. occupancy[queue[i]] = "Empty" /\ AreNeighbours(queue[j], queue[i])
  <2>1. PICK m \in 1 .. i - 1 : parent[queue[i]] = queue[m] /\ AreNeighbours(queue[m], queue[i])
    BY <1>0, <1>4 DEF Reached
  <2>2. QED
    BY <1>0, <1>4, <1>5, <2>1 DEF Reached
<1>8. queue[i] \in OneFlightMore(Within(lv[j]))
  BY <1>4, <1>6, <1>7 DEF OneFlightMore
<1>9. QED
  BY <1>5, <1>6, <1>8, WithinOneMore

(* What is nearer than the cell being expanded is queued, no further away.  *)
LEMMA NearCellsAreQueued ==
  ASSUME IInv, pc = "found", NEW lv \in [1 .. Len(queue) -> Nat],
         QueueLevels(lv), ExpandedLevels(lv), RouteLevels(lv)
  PROVE  \A n \in Nat : n <= lv[head] =>
           \A c \in Within(n) : \E j \in 1 .. Len(queue) : queue[j] = c /\ lv[j] <= n
<1>. DEFINE Missed(n) == \E c \in Within(n) :
                           ~\E j \in 1 .. Len(queue) : queue[j] = c /\ lv[j] <= n
            missed == {n \in Nat : n <= lv[head] /\ Missed(n)}
<1>0. /\ queue \in Seq(Cells) /\ Len(queue) \in Nat /\ queue[1] = start /\ Len(queue) >= 1
      /\ head \in 1 .. Len(queue) /\ lv[1] = 0 /\ lv[head] \in Nat
  <2>1. queue \in Seq(Cells) /\ Len(queue) \in Nat /\ head \in 0 .. Len(queue)
    BY DEF IInv, TypeOK
  <2>2. queue[1] = start /\ Len(queue) >= 1
    BY DEF IInv, QueueInv
  <2>3. lv[1] = 0 /\ head >= 1
    BY DEF QueueLevels, RouteLevels
  <2>4. QED
    BY <2>1, <2>2, <2>3
<1>1. SUFFICES ASSUME missed # {} PROVE FALSE
  OBVIOUS
<1>2. PICK n \in missed : \A m \in missed : n <= m
  <2>1. missed \subseteq Nat
    OBVIOUS
  <2>. HIDE DEF missed
  <2>2. QED
    BY <1>1, <2>1, LeastNat
<1>3. PICK c \in Within(n) : ~\E j \in 1 .. Len(queue) : queue[j] = c /\ lv[j] <= n
  BY <1>2
<1>4. n # 0
  <2>1. ASSUME n = 0 PROVE c = start
    BY <1>3, <2>1, WithinNone
  <2>2. QED
    BY <1>0, <1>3, <2>1
<1>5. n - 1 \in Nat /\ n - 1 + 1 = n /\ n - 1 < lv[head] /\ ~Missed(n - 1)
  BY <1>0, <1>2, <1>4
<1>6. c \in OneFlightMore(Within(n - 1))
  <2>1. Within(n - 1 + 1) = OneFlightMore(Within(n - 1))
    BY <1>5, WithinOneMore
  <2>2. QED
    BY <1>3, <1>5, <2>1
<1>7. c \notin Within(n - 1)
  BY <1>3, <1>5
<1>8. PICK d \in Within(n - 1) : AreNeighbours(d, c) /\ occupancy[c] = "Empty"
  BY <1>6, <1>7 DEF OneFlightMore
<1>9. PICK i \in 1 .. Len(queue) : queue[i] = d /\ lv[i] <= n - 1
  BY <1>5
<1>10. i < head
  <2>1. i >= head => lv[head] <= lv[i]
    BY <1>0 DEF QueueLevels
  <2>2. lv[i] \in Nat
    OBVIOUS
  <2>3. QED
    BY <1>0, <1>5, <1>9, <2>1, <2>2
<1>11. PICK k \in DOMAIN Around[d] : Around[d][k] = c
  BY <1>8 DEF AreNeighbours
<1>12. k \in Nat /\ SeenFrom(i) = Nat
  <2>1. d \in Cells
    BY <1>0, <1>9
  <2>2. QED
    BY <1>10, <2>1, AroundType DEF SeenFrom
<1>13. i \in 1 .. head
  BY <1>0, <1>10
<1>14. PICK j \in 1 .. Len(queue) : queue[j] = c /\ lv[j] <= lv[i] + 1
  BY <1>8, <1>9, <1>11, <1>12, <1>13 DEF ExpandedLevels
<1>15. lv[j] <= n
  <2>1. lv[i] \in Nat /\ lv[j] \in Nat
    OBVIOUS
  <2>2. QED
    BY <1>2, <1>9, <1>14, <2>1
<1>16. QED
  BY <1>3, <1>14, <1>15

LEMMA FoundIsNearest == IInv /\ NearInv => NearestFrontierFirst
<1>1. SUFFICES ASSUME IInv, NearInv, pc = "found" PROVE NearestFrontierFirst
  BY DEF NearestFrontierFirst
<1>2. PICK lv \in [1 .. Len(queue) -> Nat] :
        QueueLevels(lv) /\ ExpandedLevels(lv) /\ RouteLevels(lv)
  BY <1>1 DEF NearInv
<1>3. /\ queue \in Seq(Cells) /\ Len(queue) \in Nat /\ queue[1] = start /\ Len(queue) >= 1
      /\ head \in 1 .. Len(queue) /\ lv[1] = 0 /\ lv[head] \in Nat
      /\ route \in Seq(Cells) /\ Len(route) \in Nat
      /\ \A i, j \in 1 .. Len(queue) : queue[i] = queue[j] => i = j
  BY <1>1, <1>2 DEF IInv, TypeOK, QueueInv, QueueLevels, RouteLevels, QueuedOnce
<1>4. Len(route) >= 2 /\ route[1] = start
  BY <1>1, RouteIsSafe DEF RouteLeadsThroughEmptySpace
<1>5. Len(route) - 1 = lv[head]
  <2>1. PICK i \in 1 .. Len(queue) : queue[i] = route[1] /\ lv[i] + Len(route) = lv[head] + 1
    BY <1>1, <1>2 DEF RouteLevels
  <2>2. i = 1
    BY <1>3, <1>4, <2>1
  <2>3. QED
    BY <1>3, <2>1, <2>2
<1>6. route[Len(route)] \in Within(Len(route) - 1)
  <2>1. route[Len(route)] = queue[head]
    BY <1>1, <1>2 DEF RouteLevels
  <2>2. queue[head] \in Within(lv[head])
    BY <1>1, <1>2, <1>3, QueuedWithinItsLevel
  <2>3. QED
    BY <1>5, <2>1, <2>2
<1>7. ASSUME NEW c \in Within(Len(route) - 2)
      PROVE  ~IsTarget(c)
  <2>1. PICK n \in Nat : n = Len(route) - 2 /\ n < lv[head]
    BY <1>3, <1>4, <1>5
  <2>0. \A m \in Nat : m <= lv[head] =>
          \A d \in Within(m) : \E j \in 1 .. Len(queue) : queue[j] = d /\ lv[j] <= m
    BY <1>1, <1>2, NearCellsAreQueued
  <2>2. PICK j \in 1 .. Len(queue) : queue[j] = c /\ lv[j] <= n
    BY <1>3, <1>7, <2>0, <2>1
  <2>3. j < head
    <3>1. j >= head => lv[head] <= lv[j]
      BY <1>2, <1>3 DEF QueueLevels
    <3>2. lv[j] \in Nat
      OBVIOUS
    <3>3. QED
      BY <1>3, <2>1, <2>2, <3>1, <3>2
  <2>4. j \in 1 .. head /\ j # head
    BY <1>3, <2>3
  <2>5. QED
    BY <1>2, <2>2, <2>4 DEF ExpandedLevels
<1>8. QED
  BY <1>6, <1>7 DEF NearestFrontierFirst

(* The search is breadth-first however it is used: the frontier it returns  *)
(* is a nearest one by flights through mapped-empty cells, and no shorter   *)
(* route leads to it.                                                       *)
THEOREM NearestFrontierFirstHolds == Spec => []NearestFrontierFirst
<1>1. Init => NearInv
  BY DEF Init, NearInv
<1>2. NearInv /\ IInv /\ [Next]_vars => NearInv'
  BY NextStaysNear
<1>3. Spec => []NearInv
  BY <1>1, <1>2, FrontierSearchInvariant, PTL DEF Spec
<1>4. QED
  BY <1>3, FoundIsNearest, FrontierSearchInvariant, PTL

=============================================================================
