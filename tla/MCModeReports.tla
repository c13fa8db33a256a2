--------------------------- MODULE MCModeReports ---------------------------
(***************************************************************************)
(* Four plugins that ran and none or two that failed to load, found in any *)
(* order; two runs each, with ties in score, in steps, in both totals, and *)
(* in the whole behaviour.                                                 *)
(***************************************************************************)
EXTENDS ModeReports

Scored(score, steps) == [score |-> score, steps |-> steps]
Failed == [score |-> -1, steps |-> 0]

MCBehaviours == {<<Scored(70, 3), Scored(20, 5)>>, <<Scored(20, 5), Scored(70, 3)>>,
                 <<Scored(90, 3), Scored(0, 9)>>, <<Scored(90, 8), Failed>>, <<Failed, Failed>>}

Orders == {p \in [1 .. 4 -> 1 .. 4] : {p[i] : i \in 1 .. 4} = 1 .. 4}

MCInputs ==
  {[mode |-> mode, outcomes |-> [i \in 1 .. 4 |-> [name |-> order[i], runs |-> runs[i]]],
    failed_to_load |-> failed] :
     mode \in {"comparative", "competition"}, order \in Orders, runs \in [1 .. 4 -> MCBehaviours],
     failed \in {<< >>, <<5, 0>>}}

=============================================================================
