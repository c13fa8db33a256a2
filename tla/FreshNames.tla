----------------------------- MODULE FreshNames -----------------------------
(***************************************************************************)
(* What createResultsDirectory promises to every simulator that asks: a    *)
(* directory that was nobody's, and that stays its own, or an error.       *)
(***************************************************************************)
CONSTANTS Askers, Names, Waiting, Refused   \* the last two are no names

VARIABLES
  taken,      \* the names that exist
  answer      \* what each asker was told

vars == <<taken, answer>>

Init ==
  /\ taken \in SUBSET Names
  /\ answer = [a \in Askers |-> Waiting]

Grant(a, name) ==
  /\ answer[a] = Waiting
  /\ name \notin taken
  /\ taken' = taken \cup {name}
  /\ answer' = [answer EXCEPT ![a] = name]

Refuse(a) ==
  /\ answer[a] = Waiting
  /\ answer' = [answer EXCEPT ![a] = Refused]
  /\ UNCHANGED taken

Next == \E a \in Askers : Refuse(a) \/ \E name \in Names : Grant(a, name)

Spec == Init /\ [][Next]_vars

=============================================================================
