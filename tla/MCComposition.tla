--------------------------- MODULE MCComposition ---------------------------
(***************************************************************************)
(* Compositions of up to two simulations, two missions each, two drones    *)
(* and two lidars, of at most MaxRuns runs, over files that are good, have *)
(* a field of the wrong type or none, hold another section, or do not load.*)
(***************************************************************************)
EXTENDS Composition

CONSTANT MaxRuns

AllFields == UNION {Fields[kind] : kind \in Kinds}
Whole(kind) == [loads |-> TRUE, section |-> kind, good |-> AllFields, bad |-> {}]
Unloadable == [loads |-> FALSE, section |-> "none", good |-> {}, bad |-> {}]

MCFile == [path \in {"house.yaml", "gone.yaml", "short.yaml", "long.yaml", "small.yaml",
                     "old/small.yaml", "front.yaml", "wide.yaml", NoPath} |->
  CASE path = "house.yaml" -> Whole("simulation")
    [] path = "short.yaml" ->
         [Whole("mission") EXCEPT !.good = @ \ {"output_mapping_resolution_factor"}]
    [] path = "long.yaml" -> [Whole("mission") EXCEPT !.good = @ \ {"max_steps"}]
    [] path \in {"small.yaml", "old/small.yaml"} -> Whole("drone")
    [] path = "front.yaml" -> Whole("lidar")
    [] path = "wide.yaml" -> [Whole("lidar") EXCEPT !.good = @ \ {"d_cm"}, !.bad = {"d_cm"}]
    [] OTHER -> Unloadable]

MCStem == [path \in DOMAIN MCFile |->
  IF path = "old/small.yaml" THEN "small.yaml" ELSE path]

Entry(path, missions) == [path |-> path, missions |-> missions]
MCEntries ==
  {Entry("house.yaml", << >>), Entry("house.yaml", <<"short.yaml">>),
   Entry("gone.yaml", <<"long.yaml", "short.yaml">>), Entry(NoPath, <<"small.yaml">>)}

MCSimulations == {Absent, << >>} \cup {<<e>> : e \in MCEntries} \cup {<<e, f>> : e, f \in MCEntries}
MCDrones == {Absent, <<"small.yaml">>, <<"small.yaml", NoPath>>, <<"small.yaml", "old/small.yaml">>}
MCLidars == {<< >>, <<"front.yaml">>, <<"wide.yaml", "front.yaml">>}

CountOf(section) == IF section = Absent THEN 0 ELSE Len(section)
MissionsOf(section) ==
  IF section = Absent THEN 0 ELSE FoldLeft(LAMBDA n, e : n + Len(e.missions), 0, section)

MCDocuments ==
  {[simulation |-> s, drone |-> d, lidar |-> l] :
     s \in MCSimulations, d \in MCDrones, l \in MCLidars}
MCSmallDocuments ==
  {x \in MCDocuments :
     MissionsOf(x.simulation) * CountOf(x.drone) * CountOf(x.lidar) <= MaxRuns}

(* Documents of which every file is whole. *)
MCWholeDocuments ==
  {[simulation |-> <<Entry("house.yaml", <<"short.yaml">>)>>, drone |-> d, lidar |-> <<"front.yaml">>] :
     d \in {<<"small.yaml">>, <<"small.yaml", "old/small.yaml">>}}

MCScores == {0, 70}

=============================================================================
