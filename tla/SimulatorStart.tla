--------------------------- MODULE SimulatorStart ---------------------------
(***************************************************************************)
(* main from its first statement to the batch.  One simulator, Self, is    *)
(* followed from its command line on; the others matter as soon as they    *)
(* create directories in the same folder.  Every look at the file system   *)
(* is a look of its own: what was true when the arguments were validated   *)
(* need not be true when the plugins are discovered.                       *)
(***************************************************************************)
EXTENDS Sequences, FiniteSets, Bags, TLC, ResultsNames, PluginDiscovery

CONSTANTS
  Given,              \* the arguments somebody may write
  ReadsAs,                                             \* CommandLine's
  Self,
  MaxArguments,       \* bound: the longest argument vector
  Sights              \* what one look at all paths may show

VARIABLES
  entry, base, attempt, given,    \* ResultsDirectory's
  phase,      \* how far Self has come in main
  argv,       \* the arguments it has read, whatever their order
  raw,        \* RawArguments
  args,       \* CommandLineArgs
  errors,     \* the messages of the parse and of the validation
  log,        \* the codes in errors.log
  found       \* what discovery found: the registry's slots, and per role the files and failures

Args == INSTANCE CommandLine
Results == INSTANCE ResultsDirectory

(* The prefixes of the results directories are those of the run modes. *)
ASSUME StartAssumption == RunModes = Args!Modes /\ Self \in Simulators

(* A flag is known by its name. *)
ASSUME GivenAssumption ==
  \A token \in Given : Args!IsFlag(token) => token = [is |-> "flag", flag |-> token.flag]

resultsVars == <<entry, base, attempt, given>>
vars == <<resultsVars, phase, argv, raw, args, errors, log, found>>

Kinds == {"algorithm", "mission control"}
NothingFound == [slots |-> << >>, files |-> [k \in Kinds |-> << >>], failures |-> {}, seen |-> {}]

Init ==
  /\ Results!Init
  /\ phase = "arguments"
  /\ argv = EmptyBag
  /\ raw = Args!NoArguments
  /\ args = Args!ArgsOf(Args!NoArguments)
  /\ errors = {} /\ log = {}
  /\ found = NothingFound

TypeOK ==
  /\ Results!TypeOK
  /\ phase \in {"arguments", "parsed", "accepted", "directory", "loaded", "algorithms",
                "mission controls", "batch", "ended", "terminated"}
  /\ args.mode \in Args!Modes /\ args.num_threads \in Nat \ {0}
  /\ log \subseteq {"COMPOSITION_LOAD_FAILED", "PLUGIN_DISCOVERY_FAILED", "PLUGIN_SET_INCOMPLETE"}
  /\ \A i \in DOMAIN found.slots : found.slots[i].kind \in Kinds

-----------------------------------------------------------------------------

(* tokenize reads the next argument. *)
ReadArgument ==
  /\ phase = "arguments"
  /\ BagCardinality(argv) < MaxArguments
  /\ \E token \in Given :
       /\ argv' = argv (+) SetToBag({token})
       /\ raw' = Args!Tokenize(raw, token)
  /\ UNCHANGED <<resultsVars, phase, args, errors, log, found>>

(* There is none left: parseCommandLine says all that is wrong at once. *)
Parse ==
  /\ phase = "arguments"
  /\ args' = Args!ArgsOf(raw)
  /\ errors' = Args!ParseErrors(raw)
  /\ raw' = Args!NoArguments
  /\ phase' = "parsed"
  /\ UNCHANGED <<resultsVars, argv, log, found>>

Bad(role, why) == {[category |-> why, names |-> {role}]}

(* validateCommandLinePaths: a path that was not given is not complained    *)
(* about again.                                                             *)
CompositionErrors(sight) ==
  CASE sight.is # "file" -> Bad("simulation", "not a file")
    [] sight.is = "file" /\ ~sight.opens -> Bad("simulation", "unreadable")
    [] OTHER -> {}

FixedPluginErrors(sight) == IF sight.is # "file" THEN Bad("fixed plugin", "not a file") ELSE {}

FolderErrors(sight) ==
  CASE sight.is # "directory" -> Bad("folder", "not a directory")
    [] sight.is = "directory" /\ ~sight.opens -> Bad("folder", "unreadable")
    [] OTHER -> IF enumerateSharedObjects(sight) = {} THEN Bad("folder", "no .so files")
                ELSE {}

PathErrors(sights) ==
  (IF args.composition_file = Args!Nowhere THEN {}
   ELSE CompositionErrors(sights[args.composition_file]))
  \cup (IF args.fixed_plugin_file = Args!Nowhere THEN {}
        ELSE FixedPluginErrors(sights[args.fixed_plugin_file]))
  \cup (IF args.varied_plugin_folder = Args!Nowhere THEN {}
        ELSE FolderErrors(sights[args.varied_plugin_folder]))

Validate ==
  /\ phase = "parsed"
  /\ \E sights \in Sights :
       IF args.varied_plugin_folder # Args!Nowhere
            /\ Breaks(sights[args.varied_plugin_folder])
       THEN phase' = "terminated" /\ UNCHANGED errors
       ELSE /\ errors' = errors \cup PathErrors(sights)
            /\ phase' = IF errors' = {} THEN "accepted" ELSE "ended"
  /\ argv' = EmptyBag
  /\ UNCHANGED <<resultsVars, raw, args, log, found>>

(* createResultsDirectory, one system call at a time. *)
MakeDirectory ==
  /\ phase = "accepted"
  /\ Results!Stamp(Self, args.mode) \/ Results!Try(Self)
  /\ phase' = CASE given'[Self] = None -> "accepted"
                [] given'[Self] = Refused -> "ended"
                [] OTHER -> "directory"
  /\ errors' = IF given'[Self] = Refused THEN Bad("folder", "no results directory") ELSE errors
  /\ UNCHANGED <<argv, raw, args, log, found>>

(* Another simulator goes on.  What it does before Self looks for a         *)
(* directory shows only as what the folder holds already.                   *)
OtherSimulator ==
  /\ phase \notin {"arguments", "parsed"}
  /\ \E p \in Simulators \ {Self} : Results!Step(p)
  /\ UNCHANGED <<phase, argv, raw, args, errors, log, found>>

(* A bug: main returns without a word. *)
LoadFailingSilently ==
  /\ phase = "directory"
  /\ phase' = "loaded" \/ phase' = "ended"
  /\ UNCHANGED <<resultsVars, argv, raw, args, errors, log, found>>

(* loadComposition: the file cannot be read, or is no YAML. *)
Load ==
  /\ phase = "directory"
  /\ \/ phase' = "loaded" /\ UNCHANGED log
     \/ phase' = "ended" /\ log' = log \cup {"COMPOSITION_LOAD_FAILED"}
  /\ UNCHANGED <<resultsVars, argv, raw, args, errors, found>>

SourceOf(kind) ==
  IF (args.mode = "comparative") = (kind = "algorithm")
  THEN args.fixed_plugin_file ELSE args.varied_plugin_folder

(* PluginRegistry::discover for one role.  What failed for either role is  *)
(* logged after both.                                                      *)
Discover(kind) ==
  \E sights \in Sights :
    LET path  == SourceOf(kind)
        sight == sights[path]
        now   == discover(found.slots, path, sight, kind)
    IN  IF Breaks(sight)
        THEN phase' = "terminated" /\ UNCHANGED <<log, found>>
        ELSE /\ found' = [slots |-> now.slots,
                          files |-> [found.files EXCEPT ![kind] = now.files],
                          failures |-> found.failures \cup now.failures,
                          seen |-> found.seen \cup
                            (IF sight.is = "file" THEN {path}
                             ELSE IF sight.is = "directory" /\ sight.opens
                             THEN enumerateSharedObjects(sight) ELSE {})]
             /\ phase' = IF kind = "algorithm" THEN "algorithms" ELSE "mission controls"
             /\ log' = IF kind = "mission control" /\ found'.failures # {}
                       THEN log \cup {"PLUGIN_DISCOVERY_FAILED"} ELSE log

DiscoverAlgorithms ==
  /\ phase = "loaded"
  /\ Discover("algorithm")
  /\ UNCHANGED <<resultsVars, argv, raw, args, errors>>

DiscoverMissionControls ==
  /\ phase = "algorithms"
  /\ Discover("mission control")
  /\ UNCHANGED <<resultsVars, argv, raw, args, errors>>

(* execute runs the batch (SimulationBatch), or refuses a set of plugins    *)
(* in which a role is not filled.                                           *)
Execute ==
  /\ phase = "mission controls"
  /\ IF \E k \in Kinds : found.files[k] = << >>
     THEN phase' = "ended" /\ log' = log \cup {"PLUGIN_SET_INCOMPLETE"}
     ELSE phase' = "batch" /\ UNCHANGED log
  /\ UNCHANGED <<resultsVars, argv, raw, args, errors, found>>

Over == phase \in {"batch", "ended", "terminated"}

Stopped == Over /\ UNCHANGED vars

Start == Parse \/ Validate \/ MakeDirectory \/ Load \/ DiscoverAlgorithms
           \/ DiscoverMissionControls \/ Execute

Next == ReadArgument \/ Start \/ OtherSimulator \/ Stopped

Spec == Init /\ [][Next]_vars

(* Self is scheduled, and its argument vector ends. *)
FairSpec == Spec /\ WF_vars(Start)

-----------------------------------------------------------------------------

Tokens == BagToSet(argv)
PairsOf(key) == {t \in Tokens : Args!IsPair(t) /\ t.key = key /\ t.value # Args!Nowhere}
Repeated(key) == PairsOf(key) # {} /\ \/ Cardinality(PairsOf(key)) > 1
                                      \/ \E t \in PairsOf(key) : argv[t] > 1
Understood(t) == Args!IsFlag(t) \/ (Args!IsPair(t) /\ t.key \in Args!KnownKeys)
Named(category) == UNION {e.names : e \in {x \in errors : x.category = category}}
Categories == {"unsupported", "more than once", "empty value", "run mode", "wrong mode",
               "missing", "num_threads"}

(* The parse names every fault of the command line at once and accuses      *)
(* nothing that is in order (the usage text and project_context.md).  What  *)
(* is missing or of the other mode stays unsaid while the mode itself is    *)
(* not known, and of a num_threads given more than once one is looked at.   *)
NamesTheFaults ==
  LET written == {key \in Args!KnownKeys : PairsOf(key) # {}}
      modes   == {mode \in Args!Modes : [is |-> "flag", flag |-> mode] \in Tokens}
      threads == {t.value : t \in PairsOf("num_threads")}
      refused == {text \in threads : ReadsAs[text] < 0}
  IN
  /\ \A e \in errors : e.category \in Categories
  /\ Named("unsupported") = {t \in Tokens : ~Understood(t)}
  /\ Named("more than once") = {key \in Args!KnownKeys : Repeated(key)}
  /\ Named("empty value") = {key \in Args!KnownKeys :
       \E t \in Tokens : Args!IsPair(t) /\ t.key = key /\ t.value = Args!Nowhere}
  /\ Named("num_threads") \subseteq refused
  /\ threads # {} /\ refused = threads => Named("num_threads") # {}
  /\ Cardinality(modes) = 1 <=> \A e \in errors : e.category # "run mode"
  /\ Cardinality(modes) # 1 =>
       Named("run mode") = modes /\ Named("missing") = {} /\ Named("wrong mode") = {}
  /\ \A mode \in modes : Cardinality(modes) = 1 =>
       /\ Named("missing") = Args!RequiredKeys(mode) \ written
       /\ Named("wrong mode") = {key \in written : ~Args!isKeyValidInMode(key, mode)}

(* What it does not complain about it takes as it was written.              *)
TakesWhatIsWritten ==
  /\ [is |-> "flag", flag |-> args.mode] \in Tokens
  /\ args.verbose <=> [is |-> "flag", flag |-> "verbose"] \in Tokens
  /\ PairsOf("num_threads") = {} => args.num_threads = 1
  /\ \A t \in Tokens : Args!IsPair(t) =>
       /\ t.key = "simulation" => args.composition_file = t.value
       /\ t.key = Args!fixedPluginKey(args.mode) => args.fixed_plugin_file = t.value
       /\ t.key = Args!variedPluginKey(args.mode) => args.varied_plugin_folder = t.value
       /\ t.key = "num_threads" =>
            args.num_threads = IF ReadsAs[t.value] = 0 THEN 1 ELSE ReadsAs[t.value]

(* Whatever the arguments and their order, the parse names every fault and  *)
(* accuses nothing else, and a command line without fault is taken as it    *)
(* was written (CommandLineArgs.cpp, parseCommandLine).                     *)
RejectionNamesEveryFault ==
  phase = "parsed" => NamesTheFaults /\ (errors = {} => TakesWhatIsWritten)

(* However a file is named, found and asked for, it has one slot, so it is  *)
(* opened once; every .so file that was seen has one; and no role has a     *)
(* file twice, or one of the other kind (PluginRegistry::discover).         *)
EveryPluginFileHasOneSlot ==
  /\ \A i, j \in DOMAIN found.slots :
       found.slots[i].file = found.slots[j].file => i = j
  /\ \A name \in found.seen :
       \E i \in DOMAIN found.slots : found.slots[i].file = Canonical[name]
  /\ \A kind \in Kinds : \A m, n \in DOMAIN found.files[kind] :
       /\ \E i \in DOMAIN found.slots :
            found.slots[i] = [file |-> found.files[kind][n], kind |-> kind]
       /\ found.files[kind][m] = found.files[kind][n] => m = n

(* main returns 0 in every case, so words are all there is: a start that    *)
(* ends without a batch has said why, on the screen or in errors.log, even  *)
(* when what was validated is gone by the time it is used.                  *)
NoSilentEnd == phase = "ended" => errors # {} \/ log # {}

(* Every start comes to a batch or to an end, with any number of other      *)
(* simulators at work in the folder: the attempts are bounded.              *)
EveryStartEnds == <>Over

(* The directories main gets are fresh in the sense of FreshNames.          *)
GivesFreshNames == Results!GivesFreshNames

=============================================================================
