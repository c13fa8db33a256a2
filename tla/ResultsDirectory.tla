-------------------------- MODULE ResultsDirectory --------------------------
(***************************************************************************)
(* createResultsDirectory: simulators that are started in the same folder, *)
(* perhaps in the same second, each look for a directory name of their     *)
(* own.  std::filesystem::create_directory is one atomic mkdir(2); all     *)
(* else of a simulator happens between its calls of it.                    *)
(***************************************************************************)
EXTENDS ResultsNames

VARIABLES
  entry,       \* what the folder has under each name
  base,        \* each simulator's prefix and stamp, once it has them
  attempt,     \* its loop counter
  given        \* its result: a name, Refused for an error, or None

vars == <<entry, base, attempt, given>>

TypeOK ==
  /\ entry \in [Names -> EntryKinds]
  /\ base \in [Simulators -> [prefix : RunModes, stamp : Stamps] \cup {None}]
  /\ attempt \in [Simulators -> Attempts]
  /\ given \in [Simulators -> Names \cup {None, Refused}]

Init ==
  /\ entry \in Leftovers
  /\ base = [p \in Simulators |-> None]
  /\ attempt = [p \in Simulators |-> 0]
  /\ given = [p \in Simulators |-> None]

Candidate(p) == candidateName(base[p].prefix, base[p].stamp, attempt[p])
Trying(p) == base[p] # None /\ given[p] = None

(* utcCompactStamp gives the text of this second, or none. *)
Stamp(p, mode) ==
  /\ base[p] = None /\ given[p] = None
  /\ \/ /\ \E now \in Stamps : base' = [base EXCEPT ![p] = [prefix |-> mode, stamp |-> now]]
        /\ UNCHANGED given
     \/ given' = [given EXCEPT ![p] = Refused] /\ UNCHANGED base
  /\ UNCHANGED <<entry, attempt>>

(* A bug: create_directories, which also succeeds on what is there already. *)
CreateAnyway(p) ==
  /\ Trying(p)
  /\ entry[Candidate(p)] # "file"
  /\ entry' = [entry EXCEPT ![Candidate(p)] = "directory"]
  /\ given' = [given EXCEPT ![p] = Candidate(p)]
  /\ UNCHANGED <<base, attempt>>

(* create_directory makes the directory: only if nothing had the name.      *)
Create(p) ==
  /\ Trying(p)
  /\ entry[Candidate(p)] = "none"
  /\ entry' = [entry EXCEPT ![Candidate(p)] = "directory"]
  /\ given' = [given EXCEPT ![p] = Candidate(p)]
  /\ UNCHANGED <<base, attempt>>

(* A bug: a loop over the attempts that starts again. *)
NameTakenAgain(p) ==
  /\ Trying(p)
  /\ entry[Candidate(p)] = "directory"
  /\ attempt' = [attempt EXCEPT ![p] = (@ + 1) % kMaxAttempts]
  /\ UNCHANGED <<entry, base, given>>

(* It returns false without an error on a directory: the next name is tried *)
(* until the attempts are used up.                                          *)
NameTaken(p) ==
  /\ Trying(p)
  /\ entry[Candidate(p)] = "directory"
  /\ IF attempt[p] + 1 < kMaxAttempts
     THEN attempt' = [attempt EXCEPT ![p] = @ + 1] /\ UNCHANGED given
     ELSE given' = [given EXCEPT ![p] = Refused] /\ UNCHANGED attempt
  /\ UNCHANGED <<entry, base>>

(* It fails: permissions, a full disk, or a plain file of that name, which  *)
(* it reports as an error.  No other name is tried.                         *)
CreateFails(p) ==
  /\ Trying(p)
  /\ entry[Candidate(p)] # "directory"
  /\ given' = [given EXCEPT ![p] = Refused]
  /\ UNCHANGED <<entry, base, attempt>>

Try(p) == Create(p) \/ NameTaken(p) \/ CreateFails(p)

Step(p) == (\E mode \in RunModes : Stamp(p, mode)) \/ Try(p)

Done == (\A p \in Simulators : given[p] # None) /\ UNCHANGED vars

Next == (\E p \in Simulators : Step(p)) \/ Done

Spec == Init /\ [][Next]_vars

-----------------------------------------------------------------------------

Promise == INSTANCE FreshNames WITH
  Askers <- Simulators, Waiting <- None, Refused <- Refused,
  taken <- {name \in Names : entry[name] # "none"}, answer <- given

(* No simulator is given a directory that existed before it asked, or that  *)
(* another one was given: project_context.md, "a fresh run never collides   *)
(* with existing files".                                                    *)
GivesFreshNames == Promise!Spec

=============================================================================
