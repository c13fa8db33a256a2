-------------------------- MODULE PluginLifecycle --------------------------
(***************************************************************************)
(* What PluginRegistry promises the runs, without threads, locks, counters *)
(* or a Registrar: a plugin is offered or rejected once; a run borrows it  *)
(* only while it is offered; and it is retired only after every run that   *)
(* was going to need it has returned its use.                              *)
(***************************************************************************)
EXTENDS FiniteSets

CONSTANTS
  Slots,   \* the plugins
  Cells,   \* the runs
  Needs,   \* Needs[s]: the runs that will borrow s
  Ready    \* the plugins that are offered from the start

VARIABLES
  offer,   \* what has become of each plugin
  using,   \* using[s]: the runs that may call into s
  owed     \* owed[s]: the runs whose use of s is still outstanding

vars == <<offer, using, owed>>

TypeOK ==
  /\ offer \in [Slots -> {"waiting", "offered", "rejected", "retired"}]
  /\ using \in [Slots -> SUBSET Cells]
  /\ owed \in [Slots -> SUBSET Cells]

Init ==
  /\ offer = [s \in Slots |-> IF s \in Ready THEN "offered" ELSE "waiting"]
  /\ using = [s \in Slots |-> {}]
  /\ owed = Needs

Decide(s) ==
  /\ offer[s] = "waiting"
  /\ \E verdict \in {"offered", "rejected"} : offer' = [offer EXCEPT ![s] = verdict]
  /\ UNCHANGED <<using, owed>>

Borrow(c, s) ==
  /\ c \in owed[s] \ using[s]
  /\ offer[s] = "offered"
  /\ using' = [using EXCEPT ![s] = @ \cup {c}]
  /\ UNCHANGED <<offer, owed>>

(* The run is torn down: from here it calls into no plugin. *)
TearDown(c) ==
  /\ using' = [s \in Slots |-> using[s] \ {c}]
  /\ UNCHANGED <<offer, owed>>

Return(c, s) ==
  /\ c \in owed[s] \ using[s]
  /\ owed' = [owed EXCEPT ![s] = @ \ {c}]
  /\ UNCHANGED <<offer, using>>

Retire(gone) ==
  /\ \A s \in gone : offer[s] = "offered" /\ owed[s] = {}
  /\ offer' = [s \in Slots |-> IF s \in gone THEN "retired" ELSE offer[s]]
  /\ UNCHANGED <<using, owed>>

Next ==
  \/ \E s \in Slots : Decide(s)
  \/ \E c \in Cells, s \in Slots : Borrow(c, s) \/ Return(c, s)
  \/ \E c \in Cells : TearDown(c)
  \/ \E gone \in SUBSET Slots : Retire(gone)

Safe == Init /\ [][Next]_vars

(* In the end every use is returned and nothing is still offered. *)
Settles == <>[](\A s \in Slots : owed[s] = {} /\ offer[s] # "offered")

Spec == Safe /\ Settles

=============================================================================
