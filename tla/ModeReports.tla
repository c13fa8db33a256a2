---------------------------- MODULE ModeReports ----------------------------
(***************************************************************************)
(* ModeReportWriters.cpp: the report over all plugins of a batch, which    *)
(* groups those that behaved alike (comparative) or ranks them             *)
(* (competition).  Plugins are numbered in the order of their file names,  *)
(* as std::string compares them.  std::sort is not stable: it gives any    *)
(* arrangement that its comparison allows.                                 *)
(***************************************************************************)
EXTENDS Integers, Sequences, FiniteSets

CONSTANTS
  Inputs       \* ModeReportInput: mode, the outcomes and the names that failed to load

Results == Seq([score : Int, steps : Nat])

(* The names are the file names of one folder, no two of them equal.  Left  *)
(* out: the name of the fixed plugin's file, when it is also one of these.  *)
NamesDiffer(outcomes, failed) ==
  /\ \A i, j \in DOMAIN outcomes : outcomes[i].name = outcomes[j].name => i = j
  /\ \A i, j \in DOMAIN failed : failed[i] = failed[j] => i = j
  /\ \A i \in DOMAIN outcomes, j \in DOMAIN failed : outcomes[i].name # failed[j]

ASSUME InputsAssumption ==
  \A in \in Inputs :
    /\ in.mode \in {"comparative", "competition"}
    /\ in.outcomes \in Seq([name : Nat, runs : Results])
    /\ in.failed_to_load \in Seq(Nat)
    /\ NamesDiffer(in.outcomes, in.failed_to_load)

VARIABLES
  input,       \* it is not changed
  phase,       \* which loop the writer is in
  at,          \* how many outcomes that loop has seen
  usable,      \* the outcomes worth a place
  errors,      \* the names that are not
  groups,      \* comparative: the groups; competition: the ranked plugins
  report       \* what is written

vars == <<input, phase, at, usable, errors, groups, report>>

isErrored(run) == run.score < 0

(* Every run counts, the sentinel of a failed one included. *)
Total(values) ==
  LET sum[i \in 0 .. Len(values)] == IF i = 0 THEN 0 ELSE sum[i - 1] + values[i]
  IN  sum[Len(values)]

totalsOf(runs) == [score |-> Total([i \in DOMAIN runs |-> runs[i].score]),
                   steps |-> Total([i \in DOMAIN runs |-> runs[i].steps])]

producedNothingUsable(runs) == \A i \in DOMAIN runs : isErrored(runs[i])

(* A bug: plugins are compared by their totals. *)
behaviourByTotals(runs) == totalsOf(runs)

behaviourKeyOf(runs) == [i \in DOMAIN runs |-> [score |-> runs[i].score, steps |-> runs[i].steps]]

(* What std::sort may leave of s, when before is its comparison.            *)
Arrangements(s) ==
  {[i \in DOMAIN s |-> s[p[i]]] :
     p \in {q \in [DOMAIN s -> DOMAIN s] : \A i, j \in DOMAIN s : q[i] = q[j] => i = j}}
Sorted(s, before(_, _)) ==
  {t \in Arrangements(s) : \A i, j \in DOMAIN t : i < j => ~before(t[j], t[i])}

Unwritten == [written |-> FALSE]

Init ==
  /\ input \in Inputs
  /\ phase = "partition" /\ at = 0
  /\ usable = << >> /\ errors = input.failed_to_load
  /\ groups = << >>
  /\ report = Unwritten

More == at < Len(input.outcomes)
Outcome == input.outcomes[at + 1]

(* A turn of partitionOutcomes. *)
Partition ==
  /\ phase = "partition" /\ More
  /\ IF producedNothingUsable(Outcome.runs)
     THEN errors' = Append(errors, Outcome.name) /\ UNCHANGED usable
     ELSE usable' = Append(usable, Outcome) /\ UNCHANGED errors
  /\ at' = at + 1
  /\ UNCHANGED <<input, phase, groups, report>>

SortErrors ==
  /\ phase = "partition" /\ ~More
  /\ errors' \in Sorted(errors, LAMBDA a, b : a < b)
  /\ at' = 0
  /\ phase' = input.mode
  /\ UNCHANGED <<input, usable, groups, report>>

GroupOf(key) == {g \in DOMAIN groups : groups[g].key = key}

(* A turn of the grouping loop: the first group of the same behaviour, else *)
(* a new one.                                                               *)
Group ==
  /\ phase = "comparative" /\ at < Len(usable)
  /\ LET outcome == usable[at + 1]
         key == behaviourKeyOf(outcome.runs)
     IN  IF GroupOf(key) = {}
         THEN groups' = Append(groups, [key |-> key, names |-> <<outcome.name>>,
                                        totals |-> totalsOf(outcome.runs)])
         ELSE \E g \in GroupOf(key) :
                /\ \A h \in GroupOf(key) : g <= h
                /\ groups' = [groups EXCEPT ![g].names = Append(@, outcome.name)]
  /\ at' = at + 1
  /\ UNCHANGED <<input, phase, usable, errors, report>>

Grouped ==
  /\ phase = "comparative" /\ at = Len(usable)
  /\ at' = 0 /\ phase' = "members"
  /\ UNCHANGED <<input, usable, errors, groups, report>>

(* The members of the next group are put in order. *)
SortMembers ==
  /\ phase = "members" /\ at < Len(groups)
  /\ \E names \in Sorted(groups[at + 1].names, LAMBDA a, b : a < b) :
       groups' = [groups EXCEPT ![at + 1].names = names]
  /\ at' = at + 1
  /\ UNCHANGED <<input, phase, usable, errors, report>>

(* A bug: nothing decides between groups of one size. *)
groupBeforeBySize(a, b) == Len(a.names) > Len(b.names)

groupBefore(a, b) ==
  \/ Len(a.names) > Len(b.names)
  \/ Len(a.names) = Len(b.names) /\ a.names[1] < b.names[1]

WriteComparativeReport ==
  /\ phase = "members" /\ at = Len(groups)
  /\ \E sorted \in Sorted(groups, groupBefore) :
       report' = [written |-> TRUE, errors |-> errors,
                  summary |-> [g \in DOMAIN sorted |->
                    [same_results |-> sorted[g].names, totals |-> sorted[g].totals]]]
  /\ phase' = "written"
  /\ UNCHANGED <<input, at, usable, errors, groups>>

-----------------------------------------------------------------------------

(* The ranking: score, then steps, then name. *)
rankedBefore(a, b) ==
  \/ a.totals.score > b.totals.score
  \/ a.totals.score = b.totals.score /\ a.totals.steps < b.totals.steps
  \/ a.totals = b.totals /\ a.name < b.name

WriteCompetitiveReport ==
  /\ phase = "competition"
  /\ \E sorted \in Sorted([i \in DOMAIN usable |->
                             [name |-> usable[i].name, totals |-> totalsOf(usable[i].runs)]],
                          rankedBefore) :
       report' = [written |-> TRUE, errors |-> errors, summary |-> sorted]
  /\ phase' = "written"
  /\ UNCHANGED <<input, at, usable, errors, groups>>

Written == phase = "written" /\ UNCHANGED vars

Next == Partition \/ SortErrors \/ Group \/ Grouped \/ SortMembers
          \/ WriteComparativeReport \/ WriteCompetitiveReport \/ Written

Spec == Init /\ [][Next]_vars

-----------------------------------------------------------------------------

Outcomes == {input.outcomes[i] : i \in DOMAIN input.outcomes}
Usable == {outcome \in Outcomes : ~producedNothingUsable(outcome.runs)}
Members(g) == {groups[g].names[k] : k \in DOMAIN groups[g].names}
Finished == report.written /\ input.mode = "comparative"

(* Two plugins stand in one group just when every run of one had the score  *)
(* and the steps of the same run of the other; each usable plugin stands in *)
(* one group, and a group's totals are those of all its members.            *)
GroupsAreBehaviourClasses ==
  Finished =>
    /\ UNION {Members(g) : g \in DOMAIN groups} = {o.name : o \in Usable}
    /\ \A o, p \in Usable, g \in DOMAIN groups : o.name \in Members(g) =>
         /\ p.name \in Members(g) <=> o.runs = p.runs
         /\ groups[g].totals = totalsOf(o.runs)

(* The elements of S in the order of before: the i-th has i - 1 before it.  *)
Listed(S, before(_, _)) ==
  [i \in 1 .. Cardinality(S) |->
     CHOOSE x \in S : Cardinality({y \in S : before(y, x)}) = i - 1]

Ascending(names) == Listed(names, LAMBDA a, b : a < b)

Better(a, b) ==
  \/ a.totals.score > b.totals.score
  \/ a.totals.score = b.totals.score /\ a.totals.steps < b.totals.steps
  \/ a.totals = b.totals /\ a.name < b.name

Bigger(a, b) ==
  \/ Len(a.same_results) > Len(b.same_results)
  \/ Len(a.same_results) = Len(b.same_results) /\ a.same_results[1] < b.same_results[1]

NamesLike(o) == Ascending({p.name : p \in {q \in Usable : q.runs = o.runs}})

TheSummary ==
  IF input.mode = "competition"
  THEN Listed({[name |-> o.name, totals |-> totalsOf(o.runs)] : o \in Usable}, Better)
  ELSE Listed({[same_results |-> NamesLike(o), totals |-> totalsOf(o.runs)] : o \in Usable}, Bigger)

FailedToLoad == {input.failed_to_load[i] : i \in DOMAIN input.failed_to_load}

TheErrors == Ascending({o.name : o \in Outcomes \ Usable} \cup FailedToLoad)

(* Nothing in the report depends on the order in which the plugins were     *)
(* found or on what std::sort does with equals: every plugin is in it, and  *)
(* in its place by the results alone (ModeReportWriters.cpp, the notes on   *)
(* both writers).  This is the report as a function of the results.         *)
ReportIsReproducible ==
  report.written => report.summary = TheSummary /\ report.errors = TheErrors

=============================================================================
