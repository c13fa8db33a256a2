-------------------------- MODULE MCSimulatorStart --------------------------
(***************************************************************************)
(* Two simulators on one folder.  Self's folder may hold an algorithm, a   *)
(* link to it, a mission control and a text; either plugin file may also   *)
(* be the one the command line names.                                      *)
(***************************************************************************)
EXTENDS SimulatorStart

CONSTANTS self, other

Flag(f) == [is |-> "flag", flag |-> f]
Pair(k, v) == [is |-> "pair", key |-> k, value |-> v]

MCGiven ==
  {Flag("comparative"), Flag("competition"), Flag("verbose"),
   [is |-> "junk", text |-> "-fast"], Pair("colour", "red"),
   Pair("simulation", "tests.yaml"), Pair("simulation", ""),
   Pair("algorithm", "planner.so"), Pair("mission_control", "pilot.so"),
   Pair("mission_control", "planner.so"),
   Pair("mission_control_folder", "folder"), Pair("algorithms_folder", "folder"),
   Pair("num_threads", "0"), Pair("num_threads", "3"), Pair("num_threads", "2x")}

MCReadsAs == [text \in {"0", "3", "2x"} |-> CASE text = "0" -> 0 [] text = "3" -> 3 [] OTHER -> -1]

MCSharedObjects == {"planner.so", "link.so", "pilot.so"}
MCCanonical == [name \in MCSharedObjects |-> IF name = "pilot.so" THEN 1 ELSE 2]

MCSimulators == {self, other}
MCStamps == {"noon"}
MCModes == {"comparative", "competition"}
MCNames == [prefix : MCModes, stamp : MCStamps, suffix : {0, 1}]
MCLeftovers ==
  {[name \in MCNames |-> IF name.suffix = 0 THEN first ELSE second] :
     first \in {"none", "directory"}, second \in {"none", "file"}}

MCFolders ==
  {Nothing, Directory(FALSE, FALSE, {}), Directory(TRUE, TRUE, {})}
    \cup {Directory(TRUE, FALSE, entries) : entries \in
            {{}, {"notes.txt"}, {"planner.so", "link.so"}, {"planner.so", "pilot.so", "notes.txt"},
             {"link.so", "pilot.so"}}}

MCSights ==
  {[path \in {"tests.yaml", "planner.so", "pilot.so", "folder"} |->
      CASE path = "tests.yaml" -> composition
        [] path = "folder" -> folder
        [] OTHER -> plugin] :
     composition \in {Nothing, AFile(FALSE), AFile(TRUE)},
     plugin \in {Nothing, AFile(TRUE)},
     folder \in MCFolders}

=============================================================================
