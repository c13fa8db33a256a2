---------------------------- MODULE ResultsNames ----------------------------
(***************************************************************************)
(* The names createResultsDirectory may try, and what a folder may hold    *)
(* under them.                                                             *)
(***************************************************************************)
EXTENDS Integers

CONSTANTS
  Simulators,     \* the processes started on one folder
  RunModes,       \* the run modes, which the prefixes stand for
  Stamps,         \* the texts utcCompactStamp may give, one for each second
  kMaxAttempts,
  Leftovers,      \* what the folder may hold already
  None, Refused   \* neither a name nor a stamp

ASSUME ResultsDirectoryAssumption ==
  /\ kMaxAttempts \in Nat \ {0}
  /\ None \notin [prefix : RunModes, stamp : Stamps]

Attempts == 0 .. kMaxAttempts - 1

(* candidateName: the prefix of the mode, the stamp, and the attempt.  Two  *)
(* names are equal only if all three are: the prefixes are no prefix of     *)
(* each other and a stamp has one length.                                   *)
candidateName(prefix, stamp, n) == [prefix |-> prefix, stamp |-> stamp, suffix |-> n]
Names == [prefix : RunModes, stamp : Stamps, suffix : Attempts]

ASSUME NoneIsNoName ==
  None \notin Names /\ Refused \notin Names /\ None # Refused

EntryKinds == {"none", "directory", "file"}

ASSUME LeftoversAssumption == Leftovers \subseteq [Names -> EntryKinds]

=============================================================================
