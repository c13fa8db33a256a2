-------------------------- MODULE MCPluginRegistry --------------------------
(***************************************************************************)
(* A competitive batch: one mission control for all runs, two runs of one  *)
(* algorithm from a file, one run of an adopted algorithm, and an adopted  *)
(* mission control that no run borrows.                                    *)
(***************************************************************************)
EXTENDS PluginRegistry

CONSTANTS
  pilot, planner, linked, spare,  \* the slots
  r1, r2, r3                      \* the runs

MCSlots == {pilot, planner, linked, spare}
MCCells == {r1, r2, r3}
MCKindOf == [s \in Slots |-> IF s \in {pilot, spare} THEN "mission control" ELSE "algorithm"]
MCPlugin == [c \in Cells |->
  [k \in Kinds |-> IF k = "mission control" THEN pilot ELSE IF c = r3 THEN linked ELSE planner]]
MCAdopted == {linked, spare}
MCFaults == {"open fails", "odd registrations", "run throws", "run reports errors"}

=============================================================================
