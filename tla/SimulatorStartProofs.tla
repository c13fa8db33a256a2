------------------------ MODULE SimulatorStartProofs ------------------------
(***************************************************************************)
(* For every command line, every folder, and any number of simulators,     *)
(* modes, seconds and attempts: createResultsDirectory implements          *)
(* FreshNames and gives no directory twice, the start of a simulator takes *)
(* no step in the folder that is not one of it, no start ends without a    *)
(* word, the parse names every fault of the command line, and discovery    *)
(* gives every plugin file one slot.                                       *)
(***************************************************************************)
EXTENDS SimulatorStart, FiniteSetTheorems, TLAPS

-----------------------------------------------------------------------------
(* createResultsDirectory by itself, whatever the folder holds before. *)

(* The names have a second name: the one the start knows them by. *)
LEMMA SameNames ==
  Results!Names = Names /\ Results!Attempts = Attempts /\ Results!EntryKinds = EntryKinds
BY DEF Results!Names, Names, Results!Attempts, Attempts, Results!EntryKinds, EntryKinds

Bases == [prefix : RunModes, stamp : Stamps]

(* A simulator that tries a name tries one of the names. *)
LEMMA CandidateIsAName ==
  ASSUME Results!TypeOK, NEW p \in Simulators, Results!Trying(p)
  PROVE  Results!Candidate(p) \in Results!Names
<1>1. base[p] \in Bases /\ attempt[p] \in Results!Attempts
  BY DEF Results!TypeOK, Results!Trying, Bases
<1>2. QED
  BY <1>1 DEF Results!Candidate, Results!candidateName, Results!Names, Bases

LEMMA SearchInitTypeOK == Results!Init => Results!TypeOK
BY SameNames, ResultsDirectoryAssumption, LeftoversAssumption
   DEF Results!Init, Results!TypeOK, Attempts

LEMMA SearchNextTypeOK == Results!TypeOK /\ [Results!Next]_(Results!vars) => Results!TypeOK'
<1> SUFFICES ASSUME Results!TypeOK, [Results!Next]_(Results!vars)
             PROVE  Results!TypeOK'
  OBVIOUS
<1>1. ASSUME NEW p \in Simulators, NEW mode \in RunModes, Results!Stamp(p, mode)
      PROVE  Results!TypeOK'
  BY <1>1 DEF Results!Stamp, Results!TypeOK
<1>2. ASSUME NEW p \in Simulators, Results!Create(p)
      PROVE  Results!TypeOK'
  <2>1. Results!Trying(p) /\ Results!Candidate(p) \in Results!Names
    BY <1>2, CandidateIsAName DEF Results!Create
  <2>. QED
    BY <1>2, <2>1 DEF Results!Create, Results!TypeOK, Results!EntryKinds
<1>3. ASSUME NEW p \in Simulators, Results!NameTaken(p)
      PROVE  Results!TypeOK'
  <2>1. attempt[p] \in Results!Attempts
    BY DEF Results!TypeOK
  <2>2. attempt[p] + 1 < kMaxAttempts => attempt[p] + 1 \in Results!Attempts
    BY <2>1, SameNames, ResultsDirectoryAssumption DEF Attempts
  <2>. QED
    BY <1>3, <2>2 DEF Results!NameTaken, Results!TypeOK
<1>4. ASSUME NEW p \in Simulators, Results!CreateFails(p)
      PROVE  Results!TypeOK'
  BY <1>4 DEF Results!CreateFails, Results!TypeOK
<1>5. CASE UNCHANGED Results!vars
  BY <1>5 DEF Results!TypeOK, Results!vars
<1>6. QED
  BY <1>1, <1>2, <1>3, <1>4, <1>5 DEF Results!Next, Results!Step, Results!Try, Results!Done

(* The type invariant of the directory search: a loop counter never leaves  *)
(* the attempts, and a result is one of the names, an error, or awaited.    *)
THEOREM ResultsDirectoryTypeCorrect == Results!Spec => []Results!TypeOK
BY SearchInitTypeOK, SearchNextTypeOK, PTL DEF Results!Spec

-----------------------------------------------------------------------------

TakenNames == {name \in Results!Names : entry[name] # "none"}

LEMMA InitRefines == Results!Init => Results!Promise!Init
BY DEF Results!Init, Results!Promise!Init, Results!Names

LEMMA NextRefines ==
  Results!TypeOK /\ [Results!Next]_(Results!vars) => [Results!Promise!Next]_(Results!Promise!vars)
<1> SUFFICES ASSUME Results!TypeOK, [Results!Next]_(Results!vars)
             PROVE  [Results!Promise!Next]_(Results!Promise!vars)
  OBVIOUS
<1>1. ASSUME NEW p \in Simulators, Results!Create(p)
      PROVE  Results!Promise!Next
  <2>1. PICK fresh \in Results!Names : fresh = Results!Candidate(p)
    BY <1>1, CandidateIsAName DEF Results!Create
  <2>2. given[p] = None /\ entry[fresh] = "none"
    BY <1>1, <2>1 DEF Results!Create, Results!Trying
  <2>3. /\ entry' = [entry EXCEPT ![fresh] = "directory"]
        /\ given' = [given EXCEPT ![p] = fresh]
    BY <1>1, <2>1 DEF Results!Create
  <2>4. entry \in [Results!Names -> Results!EntryKinds]
    BY DEF Results!TypeOK
  <2>5. TakenNames' = TakenNames \cup {fresh}
    BY <2>1, <2>2, <2>3, <2>4 DEF TakenNames
  <2>6. Results!Promise!Grant(p, fresh)
    BY <2>2, <2>3, <2>5 DEF Results!Promise!Grant, TakenNames
  <2>7. QED
    BY <2>6 DEF Results!Promise!Next
<1>2. ASSUME NEW p \in Simulators, Results!Trying(p) \/ given[p] = None,
             given' = [given EXCEPT ![p] = Refused], UNCHANGED entry
      PROVE  Results!Promise!Next
  <2>1. Results!Promise!Refuse(p)
    BY <1>2 DEF Results!Promise!Refuse, Results!Trying
  <2>2. QED
    BY <2>1 DEF Results!Promise!Next
<1>3. ASSUME NEW p \in Simulators, NEW mode \in RunModes, Results!Stamp(p, mode)
      PROVE  Results!Promise!Next \/ UNCHANGED Results!Promise!vars
  BY <1>2, <1>3 DEF Results!Stamp, Results!Promise!vars
<1>4. ASSUME NEW p \in Simulators, Results!NameTaken(p)
      PROVE  Results!Promise!Next \/ UNCHANGED Results!Promise!vars
  BY <1>2, <1>4 DEF Results!NameTaken, Results!Promise!vars
<1>5. ASSUME NEW p \in Simulators, Results!CreateFails(p)
      PROVE  Results!Promise!Next
  BY <1>2, <1>5 DEF Results!CreateFails
<1>6. CASE UNCHANGED Results!vars
  BY <1>6 DEF Results!vars, Results!Promise!vars
<1>7. QED
  BY <1>1, <1>3, <1>4, <1>5, <1>6 DEF Results!Next, Results!Step, Results!Try, Results!Done

(* createResultsDirectory implements FreshNames: whoever gets a directory   *)
(* gets one that nobody had, and keeps it (project_context.md, "a fresh run *)
(* never collides with existing files").                                    *)
THEOREM ResultsDirectoryRefinesFreshNames == Results!Spec => Results!GivesFreshNames
<1>1. Results!Spec => []Results!TypeOK
  BY ResultsDirectoryTypeCorrect
<1>2. QED
  BY <1>1, InitRefines, NextRefines, PTL
     DEF Results!Spec, Results!GivesFreshNames, Results!Promise!Spec

-----------------------------------------------------------------------------

(* What a simulator was given exists, and is no other's. *)
Holders == {p \in Simulators : given[p] \in Results!Names}

OwnDirectories ==
  /\ \A p \in Holders : entry[given[p]] # "none"
  /\ \A p, q \in Holders : given[p] = given[q] => p = q

LEMMA NextOwnDirectories ==
  Results!TypeOK /\ OwnDirectories /\ [Results!Next]_(Results!vars) => OwnDirectories'
<1> SUFFICES ASSUME Results!TypeOK, OwnDirectories, [Results!Next]_(Results!vars)
             PROVE  OwnDirectories'
  OBVIOUS
<1> USE NoneIsNoName, SameNames
<1>1. ASSUME NEW p \in Simulators, Results!Create(p)
      PROVE  OwnDirectories'
  <2>. DEFINE fresh == Results!Candidate(p)
  <2>1. fresh \in Results!Names /\ entry[fresh] = "none" /\ given[p] = None
    BY <1>1, CandidateIsAName DEF Results!Create, Results!Trying
  <2>2. /\ entry' = [entry EXCEPT ![fresh] = "directory"]
        /\ given' = [given EXCEPT ![p] = fresh]
    BY <1>1 DEF Results!Create
  <2>3. /\ entry \in [Results!Names -> Results!EntryKinds]
        /\ given \in [Simulators -> Results!Names \cup {None, Refused}]
    BY DEF Results!TypeOK
  <2>. HIDE DEF fresh
  <2>4. Holders' = Holders \cup {p}
    BY <2>1, <2>2, <2>3 DEF Holders
  <2>5. \A q \in Holders : q # p /\ given'[q] = given[q] /\ given[q] # fresh
    BY <2>1, <2>2, <2>3 DEF Holders, OwnDirectories
  <2>6. \A q \in Holders : entry'[given[q]] # "none"
    BY <2>2, <2>3, <2>5 DEF Holders, OwnDirectories
  <2>7. given'[p] = fresh /\ entry'[fresh] = "directory"
    BY <2>1, <2>2, <2>3
  <2>8. \A q, r \in Holders : given'[q] = given'[r] => q = r
    BY <2>5 DEF OwnDirectories
  <2>9. QED
    BY <2>4, <2>5, <2>6, <2>7, <2>8 DEF OwnDirectories
<1>2. ASSUME NEW p \in Simulators, given[p] = None,
             given' = [given EXCEPT ![p] = Refused], UNCHANGED entry
      PROVE  OwnDirectories'
  <2>1. Holders' = Holders /\ \A q \in Holders : given'[q] = given[q]
    BY <1>2 DEF Holders, Results!TypeOK
  <2>2. QED
    BY <1>2, <2>1 DEF OwnDirectories
<1>3. ASSUME UNCHANGED <<given, entry>>
      PROVE  OwnDirectories'
  BY <1>3 DEF OwnDirectories, Holders
<1>4. QED
  BY <1>1, <1>2, <1>3
     DEF Results!Next, Results!Step, Results!Try, Results!Stamp, Results!NameTaken,
         Results!CreateFails, Results!Trying, Results!Done, Results!vars

LEMMA OwnDirectoriesInTheSearch == Results!Spec => []OwnDirectories
<1>1. Results!Init => OwnDirectories
  BY NoneIsNoName, SameNames DEF Results!Init, OwnDirectories, Holders
<1>2. QED
  BY <1>1, ResultsDirectoryTypeCorrect, NextOwnDirectories, PTL DEF Results!Spec

-----------------------------------------------------------------------------

(* The arguments always have a mode, if only a default one. *)

ModeInv == args.mode \in RunModes

LEMMA EveryReadingHasAMode == \A reading : Args!ArgsOf(reading).mode \in RunModes
<1>1. ASSUME NEW reading
      PROVE  Args!ModeOf(reading) \in Args!Modes
  BY DEF Args!ModeOf, Args!ModeKnown, Args!ModesOf, Args!Modes
<1>2. QED
  BY <1>1, StartAssumption DEF Args!ArgsOf

LEMMA NextModeInv == ModeInv /\ [Next]_vars => ModeInv'
<1>1. Parse => ModeInv'
  BY EveryReadingHasAMode DEF Parse, ModeInv
<1>2. UNCHANGED args \/ Parse \/ ~[Next]_vars
  BY DEF Next, Start, ReadArgument, Validate, MakeDirectory, OtherSimulator, Load,
         DiscoverAlgorithms, DiscoverMissionControls, Execute, Stopped, vars
<1>3. QED
  BY <1>1, <1>2 DEF ModeInv

-----------------------------------------------------------------------------
(* What Self and the others do in the folder. *)

LEMMA StepOfTheSearch == ModeInv /\ [Next]_vars => [Results!Next]_resultsVars
<1>1. MakeDirectory /\ ModeInv => Results!Step(Self)
  BY DEF MakeDirectory, ModeInv, Results!Step
<1>2. Results!Step(Self) => Results!Next
  BY StartAssumption DEF Results!Next
<1>3. OtherSimulator => Results!Next
  BY DEF OtherSimulator, Results!Next
<1>4. MakeDirectory \/ OtherSimulator \/ UNCHANGED resultsVars \/ ~[Next]_vars
  BY DEF Next, Start, ReadArgument, Parse, Validate, Load, DiscoverAlgorithms,
         DiscoverMissionControls, Execute, Stopped, vars
<1>5. QED
  BY <1>1, <1>2, <1>3, <1>4

(* A start does nothing in the folder that createResultsDirectory would not *)
(* do by itself, in whatever state main comes to it.                        *)
THEOREM StartRunsTheDirectorySearch == Spec => Results!Spec
<1>1. Init => ModeInv
  BY EveryReadingHasAMode DEF Init, ModeInv
<1>2. Init => Results!Init
  BY DEF Init
<1>3. ModeInv /\ [Next]_vars => [Results!Next]_(Results!vars)
  BY StepOfTheSearch DEF resultsVars, Results!vars
<1>4. QED
  BY <1>1, <1>2, <1>3, NextModeInv, PTL DEF Spec, Results!Spec

(* The directories main gets are fresh in the sense of FreshNames.          *)
THEOREM GivesFreshNamesHolds == Spec => GivesFreshNames
BY StartRunsTheDirectorySearch, ResultsDirectoryRefinesFreshNames DEF GivesFreshNames

(* No two simulators write their results into one directory, although they  *)
(* were started in the same mode and the same second.                       *)
THEOREM OwnDirectoriesHolds == Spec => []OwnDirectories
BY StartRunsTheDirectorySearch, OwnDirectoriesInTheSearch

-----------------------------------------------------------------------------

(* main returns 0 in every case, so words are all there is: a start that    *)
(* ends without a batch has said why, on the screen or in errors.log, even  *)
(* when what was validated is gone by the time it is used.                  *)
THEOREM NoSilentEndHolds == Spec => []NoSilentEnd
<1>1. Init => NoSilentEnd
  BY DEF Init, NoSilentEnd
<1>2. ASSUME NoSilentEnd, [Next]_vars
      PROVE  NoSilentEnd'
  <2>1. CASE Validate
    BY <2>1 DEF Validate, NoSilentEnd
  <2>2. CASE MakeDirectory
    BY <2>2 DEF MakeDirectory, NoSilentEnd, Bad
  <2>3. CASE Load
    BY <2>3 DEF Load, NoSilentEnd
  <2>4. CASE Execute
    BY <2>4 DEF Execute, NoSilentEnd
  <2>5. CASE DiscoverAlgorithms \/ DiscoverMissionControls
    BY <2>5 DEF DiscoverAlgorithms, DiscoverMissionControls, Discover, NoSilentEnd
  <2>6. CASE ReadArgument \/ Parse
    BY <2>6 DEF ReadArgument, Parse, NoSilentEnd
  <2>7. CASE OtherSimulator \/ Stopped \/ UNCHANGED vars
    BY <1>2, <2>7 DEF OtherSimulator, Stopped, vars, NoSilentEnd
  <2>8. QED
    BY <1>2, <2>1, <2>2, <2>3, <2>4, <2>5, <2>6, <2>7 DEF Next, Start
<1>3. QED
  BY <1>1, <1>2, PTL DEF Spec

-----------------------------------------------------------------------------
(* The command line. *)

(* What is read of arguments, whatever their order: of the tokens, the      *)
(* values written for each key, and the keys written more than once.        *)
ReadOf(r, tokens, pairs, again) ==
  /\ r = [flags |-> r.flags, values |-> r.values, unsupported |-> r.unsupported,
          duplicated |-> r.duplicated, empty_valued |-> r.empty_valued]
  /\ r.flags = {t.flag : t \in {x \in tokens : Args!IsFlag(x)}}
  /\ r.unsupported = {t \in tokens : ~Understood(t)}
  /\ r.duplicated = again
  /\ r.empty_valued = {key \in Args!KnownKeys :
                         \E t \in tokens : Args!IsPair(t) /\ t.key = key /\ t.value = Args!Nowhere}
  /\ DOMAIN r.values = {key \in Args!KnownKeys : pairs[key] # {}}
  /\ \A key \in DOMAIN r.values : \E t \in pairs[key] : r.values[key] = t.value

Pairs == [key \in Args!KnownKeys |-> PairsOf(key)]
Again == {key \in Args!KnownKeys : Repeated(key)}

Reading(r) == ReadOf(r, Tokens, Pairs, Again)

(* There are finitely many of them, each read once or more. *)
ArgvInv ==
  /\ Tokens \subseteq Given /\ IsFiniteSet(Tokens)
  /\ \A t \in Tokens : argv[t] \in Nat /\ argv[t] > 0

(* The parse knows them all, and what it says is what it has read. *)
CommandInv ==
  /\ phase = "arguments" => ArgvInv /\ Reading(raw)
  /\ phase = "parsed" => ArgvInv /\ \E r : /\ Reading(r) /\ errors = Args!ParseErrors(r)
                                           /\ args = Args!ArgsOf(r)

(* A set with two elements, and one with one. *)
LEMMA TwoOrOne ==
  ASSUME NEW S, IsFiniteSet(S)
  PROVE  /\ \A x, y \in S : x # y => Cardinality(S) > 1
         /\ \A x : S = {x} => Cardinality(S) = 1
<1>1. ASSUME NEW x \in S, NEW y \in S, x # y PROVE Cardinality(S) > 1
  <2>1. {x, y} \subseteq S /\ Cardinality({x, y}) = 2
    <3>1. Cardinality({x}) = 1 /\ IsFiniteSet({x})
      BY FS_Singleton
    <3>2. Cardinality({x} \cup {y}) = Cardinality({x}) + 1
      BY <1>1, <3>1, FS_AddElement
    <3>3. {x, y} = {x} \cup {y}
      OBVIOUS
    <3>4. QED
      BY <3>1, <3>2, <3>3
  <2>2. Cardinality({x, y}) <= Cardinality(S) /\ Cardinality(S) \in Nat
    BY <2>1, FS_Subset, FS_CardinalityType
  <2>3. QED
    BY <2>1, <2>2
<1>2. ASSUME NEW x, S = {x} PROVE Cardinality(S) = 1
  BY <1>2, FS_Singleton
<1>3. QED
  BY <1>1, <1>2

(* One more argument is in the bag. *)
LEMMA OneMoreArgument ==
  ASSUME ArgvInv, NEW token \in Given, argv' = argv (+) SetToBag({token})
  PROVE  /\ ArgvInv' /\ Tokens' = Tokens \cup {token}
         /\ \A t \in Tokens : t # token => argv'[t] = argv[t]
         /\ token \in Tokens => argv'[token] = argv[token] + 1
         /\ token \notin Tokens => argv'[token] = 1
<1>1. argv' = [t \in DOMAIN argv \cup {token} |->
                 (IF t \in DOMAIN argv THEN argv[t] ELSE 0) + (IF t = token THEN 1 ELSE 0)]
  BY DEF (+), SetToBag
<1>2. Tokens' = Tokens \cup {token}
  BY <1>1 DEF Tokens, BagToSet
<1>3. IsFiniteSet(Tokens')
  BY <1>2, FS_AddElement DEF ArgvInv
<1>4. /\ \A t \in Tokens : t # token => argv'[t] = argv[t] + 0
      /\ token \in Tokens => argv'[token] = argv[token] + 1
      /\ token \notin Tokens => argv'[token] = 0 + 1
  BY <1>1 DEF Tokens, BagToSet
<1>5. \A t \in Tokens : argv[t] \in Nat /\ argv[t] > 0
  BY DEF ArgvInv
<1>6. \A t \in Tokens : t # token => argv'[t] = argv[t]
  BY <1>4, <1>5
<1>7. \A t \in Tokens' : argv'[t] \in Nat /\ argv'[t] > 0
  BY <1>2, <1>4, <1>5
<1>8. ArgvInv'
  <2>1. Tokens' \subseteq Given
    BY <1>2 DEF ArgvInv
  <2>2. QED
    BY ONLY <1>3, <1>7, <2>1 DEF ArgvInv
<1>9. token \notin Tokens => argv'[token] = 1
  BY ONLY <1>4
<1>10. QED
  BY ONLY <1>2, <1>4, <1>6, <1>8, <1>9

(* What it changes of the values that were written, *)
LEMMA OneMorePair ==
  ASSUME ArgvInv, NEW token \in Given, argv' = argv (+) SetToBag({token}), NEW key
  PROVE  /\ Args!IsPair(token) /\ token.key = key /\ token.value # Args!Nowhere
              => /\ PairsOf(key)' = PairsOf(key) \cup {token}
                 /\ Repeated(key)' <=> PairsOf(key) # {}
         /\ ~(Args!IsPair(token) /\ token.key = key /\ token.value # Args!Nowhere)
              => PairsOf(key)' = PairsOf(key) /\ (Repeated(key)' <=> Repeated(key))
<1>1. /\ ArgvInv' /\ Tokens' = Tokens \cup {token}
      /\ \A t \in Tokens : t # token => argv'[t] = argv[t]
      /\ token \in Tokens => argv'[token] = argv[token] + 1
      /\ token \notin Tokens => argv'[token] = 1
  BY OneMoreArgument
<1>2. IsFiniteSet(PairsOf(key)')
  <2>1. PairsOf(key)' \subseteq Tokens'
    BY DEF PairsOf
  <2>2. QED
    BY <1>1, <2>1, FS_Subset DEF ArgvInv
<1>. PICK old : old = PairsOf(key)
  OBVIOUS
<1>. PICK new : new = PairsOf(key)'
  OBVIOUS
<1>3. Repeated(key)' <=> new # {} /\ (Cardinality(new) > 1 \/ \E t \in new : argv'[t] > 1)
  BY DEF Repeated
<1>4. Repeated(key) <=> old # {} /\ (Cardinality(old) > 1 \/ \E t \in old : argv[t] > 1)
  BY DEF Repeated
<1>5. old \subseteq Tokens /\ (token \in Tokens /\ Args!IsPair(token) /\ token.key = key
                                 /\ token.value # Args!Nowhere => token \in old)
  BY DEF PairsOf
<1>6. CASE Args!IsPair(token) /\ token.key = key /\ token.value # Args!Nowhere
  <2>1. new = old \cup {token}
    BY <1>1, <1>6 DEF PairsOf
  <2>2. ASSUME old = {} PROVE ~Repeated(key)'
    <3>1. new = {token} /\ token \notin Tokens
      BY <1>5, <1>6, <2>1, <2>2
    <3>2. Cardinality(new) = 1 /\ argv'[token] = 1
      BY <1>1, <1>2, <3>1, TwoOrOne
    <3>3. QED
      BY <1>3, <3>1, <3>2
  <2>3. ASSUME old # {} PROVE Repeated(key)'
    <3>1. CASE token \in old
      <4>1. argv'[token] > 1
        BY <1>1, <1>5, <3>1 DEF ArgvInv
      <4>2. QED
        BY <1>3, <2>1, <4>1
    <3>2. CASE token \notin old
      <4>1. PICK t \in old : t # token
        BY <2>3, <3>2
      <4>2. Cardinality(new) > 1
        BY <1>2, <2>1, <4>1, TwoOrOne
      <4>3. QED
        BY <1>3, <2>1, <4>2
    <3>3. QED
      BY <3>1, <3>2
  <2>4. QED
    BY <1>6, <2>1, <2>2, <2>3
<1>7. CASE ~(Args!IsPair(token) /\ token.key = key /\ token.value # Args!Nowhere)
  <2>1. new = old /\ token \notin old
    BY <1>1, <1>7 DEF PairsOf
  <2>2. \A t \in old : argv'[t] = argv[t]
    BY <1>1, <1>5, <2>1
  <2>3. QED
    BY <1>3, <1>4, <1>7, <2>1, <2>2
<1>8. QED
  BY <1>6, <1>7

(* and so what tokenize has read goes with the bag. *)
LEMMA TokenizeReads ==
  ASSUME ArgvInv, Reading(raw), NEW token \in Given, argv' = argv (+) SetToBag({token}),
         raw' = Args!Tokenize(raw, token)
  PROVE  Reading(raw)'
<1>1. Tokens' = Tokens \cup {token}
  BY OneMoreArgument
<1>2. \A key : /\ Args!IsPair(token) /\ token.key = key /\ token.value # Args!Nowhere
                    => /\ PairsOf(key)' = PairsOf(key) \cup {token}
                       /\ Repeated(key)' <=> PairsOf(key) # {}
               /\ ~(Args!IsPair(token) /\ token.key = key /\ token.value # Args!Nowhere)
                    => PairsOf(key)' = PairsOf(key) /\ (Repeated(key)' <=> Repeated(key))
  BY OneMorePair
<1>. PICK r : r = raw
  OBVIOUS
<1>. PICK s : s = raw'
  OBVIOUS
<1>3. /\ r = [flags |-> r.flags, values |-> r.values, unsupported |-> r.unsupported,
              duplicated |-> r.duplicated, empty_valued |-> r.empty_valued]
      /\ r.flags = {t.flag : t \in {x \in Tokens : Args!IsFlag(x)}}
      /\ r.unsupported = {t \in Tokens : ~Understood(t)}
      /\ r.duplicated = {key \in Args!KnownKeys : Repeated(key)}
      /\ r.empty_valued = {key \in Args!KnownKeys :
                         \E t \in Tokens : Args!IsPair(t) /\ t.key = key /\ t.value = Args!Nowhere}
      /\ DOMAIN r.values = {key \in Args!KnownKeys : PairsOf(key) # {}}
      /\ \A key \in DOMAIN r.values : \E t \in PairsOf(key) : r.values[key] = t.value
  <2>1. Pairs = [key \in Args!KnownKeys |-> PairsOf(key)]
        /\ Again = {key \in Args!KnownKeys : Repeated(key)}
    BY DEF Pairs, Again
  <2>2. ReadOf(r, Tokens, Pairs, Again)
    BY DEF Reading
  <2>3. QED
    BY ONLY <2>1, <2>2 DEF ReadOf
<1>4. SUFFICES
      /\ s = [flags |-> s.flags, values |-> s.values, unsupported |-> s.unsupported,
              duplicated |-> s.duplicated, empty_valued |-> s.empty_valued]
      /\ s.flags = {t.flag : t \in {x \in Tokens' : Args!IsFlag(x)}}
      /\ s.unsupported = {t \in Tokens' : ~Understood(t)}
      /\ s.duplicated = {key \in Args!KnownKeys : Repeated(key)'}
      /\ s.empty_valued = {key \in Args!KnownKeys :
                         \E t \in Tokens' : Args!IsPair(t) /\ t.key = key /\ t.value = Args!Nowhere}
      /\ DOMAIN s.values = {key \in Args!KnownKeys : PairsOf(key)' # {}}
      /\ \A key \in DOMAIN s.values : \E t \in PairsOf(key)' : s.values[key] = t.value
  <2>1. SUFFICES ReadOf(s, Tokens', Pairs', Again')
    BY DEF Reading
  <2>2. Pairs' = [key \in Args!KnownKeys |-> PairsOf(key)']
        /\ Again' = {key \in Args!KnownKeys : Repeated(key)'}
    BY DEF Pairs, Again
  <2>3. QED
    BY ONLY <1>4, <2>2 DEF ReadOf
<1>5. CASE Args!IsFlag(token)
  <2>1. s = [r EXCEPT !.flags = @ \cup {token.flag}] /\ ~Args!IsPair(token) /\ Understood(token)
    BY <1>5 DEF Args!Tokenize, Args!IsFlag, Args!IsPair, Understood
  <2>2. /\ s.flags = r.flags \cup {token.flag} /\ s.values = r.values
        /\ s.unsupported = r.unsupported /\ s.duplicated = r.duplicated
        /\ s.empty_valued = r.empty_valued
        /\ s = [flags |-> s.flags, values |-> s.values, unsupported |-> s.unsupported,
              duplicated |-> s.duplicated, empty_valued |-> s.empty_valued]
    BY <1>3, <2>1
  <2>3. \A key : PairsOf(key)' = PairsOf(key) /\ (Repeated(key)' <=> Repeated(key))
    BY <1>2, <2>1
  <2>4. s.flags = {t.flag : t \in {x \in Tokens' : Args!IsFlag(x)}}
    BY ONLY <1>1, <1>3, <1>5, <2>2
  <2>5. s.unsupported = {t \in Tokens' : ~Understood(t)}
    BY ONLY <1>1, <1>3, <2>1, <2>2
  <2>6. s.empty_valued = {key \in Args!KnownKeys :
                         \E t \in Tokens' : Args!IsPair(t) /\ t.key = key /\ t.value = Args!Nowhere}
    BY ONLY <1>1, <1>3, <2>1, <2>2
  <2>7. QED
    BY ONLY <1>3, <2>2, <2>3, <2>4, <2>5, <2>6
<1>6. CASE ~Understood(token)
  <2>1. /\ s = [r EXCEPT !.unsupported = @ \cup {token}]
        /\ ~Args!IsFlag(token) /\ ~(Args!IsPair(token) /\ token.key \in Args!KnownKeys)
    BY <1>6 DEF Args!Tokenize, Understood
  <2>2. /\ s.flags = r.flags /\ s.values = r.values
        /\ s.unsupported = r.unsupported \cup {token} /\ s.duplicated = r.duplicated
        /\ s.empty_valued = r.empty_valued
        /\ s = [flags |-> s.flags, values |-> s.values, unsupported |-> s.unsupported,
              duplicated |-> s.duplicated, empty_valued |-> s.empty_valued]
    BY <1>3, <2>1
  <2>3. \A key \in Args!KnownKeys : PairsOf(key)' = PairsOf(key) /\ (Repeated(key)' <=> Repeated(key))
    BY <1>2, <2>1
  <2>4. s.flags = {t.flag : t \in {x \in Tokens' : Args!IsFlag(x)}}
    <3>1. {x \in Tokens' : Args!IsFlag(x)} = {x \in Tokens : Args!IsFlag(x)}
      BY ONLY <1>1, <2>1
    <3>2. QED
      BY ONLY <1>3, <2>2, <3>1
  <2>5. s.unsupported = {t \in Tokens' : ~Understood(t)}
    BY ONLY <1>1, <1>3, <1>6, <2>2
  <2>6. s.empty_valued = {key \in Args!KnownKeys :
                         \E t \in Tokens' : Args!IsPair(t) /\ t.key = key /\ t.value = Args!Nowhere}
    BY ONLY <1>1, <1>3, <2>1, <2>2
  <2>7. QED
    BY ONLY <1>3, <2>2, <2>3, <2>4, <2>5, <2>6
<1>7. CASE Args!IsPair(token) /\ token.key \in Args!KnownKeys
  <2>1. ~Args!IsFlag(token) /\ Understood(token)
    BY <1>7 DEF Understood, Args!IsPair, Args!IsFlag
  <2>2. {x \in Tokens' : Args!IsFlag(x)} = {x \in Tokens : Args!IsFlag(x)}
    BY ONLY <1>1, <2>1
  <2>3. {t \in Tokens' : ~Understood(t)} = {t \in Tokens : ~Understood(t)}
    BY ONLY <1>1, <2>1
  <2>4. CASE token.value = Args!Nowhere
    <3>1. s = [r EXCEPT !.empty_valued = @ \cup {token.key}]
      BY <1>7, <2>1, <2>4 DEF Args!Tokenize
    <3>2. /\ s.flags = r.flags /\ s.values = r.values
          /\ s.unsupported = r.unsupported /\ s.duplicated = r.duplicated
          /\ s.empty_valued = r.empty_valued \cup {token.key}
          /\ s = [flags |-> s.flags, values |-> s.values, unsupported |-> s.unsupported,
              duplicated |-> s.duplicated, empty_valued |-> s.empty_valued]
      BY <1>3, <3>1
    <3>3. \A key : PairsOf(key)' = PairsOf(key) /\ (Repeated(key)' <=> Repeated(key))
      BY <1>2, <2>4
    <3>4. s.empty_valued = {key \in Args!KnownKeys :
                         \E t \in Tokens' : Args!IsPair(t) /\ t.key = key /\ t.value = Args!Nowhere}
      BY ONLY <1>1, <1>3, <1>7, <2>4, <3>2
    <3>5. QED
      BY ONLY <1>3, <2>2, <2>3, <3>2, <3>3, <3>4
  <2>5. CASE token.value # Args!Nowhere
    <3>1. s.empty_valued = r.empty_valued => s.empty_valued = {key \in Args!KnownKeys :
                         \E t \in Tokens' : Args!IsPair(t) /\ t.key = key /\ t.value = Args!Nowhere}
      BY ONLY <1>1, <1>3, <2>5
    <3>2. \A key : token.key # key => PairsOf(key)' = PairsOf(key) /\ (Repeated(key)' <=> Repeated(key))
      BY <1>2
    <3>3. PairsOf(token.key)' = PairsOf(token.key) \cup {token}
          /\ (Repeated(token.key)' <=> PairsOf(token.key) # {})
      BY <1>2, <1>7, <2>5
    <3>4. CASE token.key \in DOMAIN r.values
      <4>1. s = [r EXCEPT !.duplicated = @ \cup {token.key}]
        BY <1>7, <2>1, <2>5, <3>4 DEF Args!Tokenize
      <4>2. /\ s.flags = r.flags /\ s.values = r.values
            /\ s.unsupported = r.unsupported /\ s.duplicated = r.duplicated \cup {token.key}
            /\ s.empty_valued = r.empty_valued
            /\ s = [flags |-> s.flags, values |-> s.values, unsupported |-> s.unsupported,
                duplicated |-> s.duplicated, empty_valued |-> s.empty_valued]
        BY <1>3, <4>1
      <4>3. PairsOf(token.key) # {}
        BY <1>3, <3>4
      <4>4. s.duplicated = {key \in Args!KnownKeys : Repeated(key)'}
        BY ONLY <1>3, <1>7, <3>2, <3>3, <4>2, <4>3
      <4>5. DOMAIN s.values = {key \in Args!KnownKeys : PairsOf(key)' # {}}
        BY ONLY <1>3, <1>7, <3>2, <3>3, <4>2, <4>3
      <4>6. \A key \in DOMAIN s.values : \E t \in PairsOf(key)' : s.values[key] = t.value
        BY ONLY <1>3, <3>2, <3>3, <4>2
      <4>7. QED
        BY ONLY <1>3, <2>2, <2>3, <3>1, <4>2, <4>4, <4>5, <4>6
    <3>5. CASE token.key \notin DOMAIN r.values
      <4>. PICK v : v = [k \in DOMAIN r.values \cup {token.key} |->
                           IF k = token.key THEN token.value ELSE r.values[k]]
        OBVIOUS
      <4>1. s = [r EXCEPT !.values = v]
        BY <1>7, <2>1, <2>5, <3>5 DEF Args!Tokenize
      <4>2. /\ s.flags = r.flags /\ s.values = v
            /\ s.unsupported = r.unsupported /\ s.duplicated = r.duplicated
            /\ s.empty_valued = r.empty_valued
            /\ s = [flags |-> s.flags, values |-> s.values, unsupported |-> s.unsupported,
                duplicated |-> s.duplicated, empty_valued |-> s.empty_valued]
        BY ONLY <1>3, <4>1
      <4>3. PairsOf(token.key) = {} /\ ~Repeated(token.key)
        BY <1>3, <1>7, <3>5 DEF Repeated
      <4>4. s.duplicated = {key \in Args!KnownKeys : Repeated(key)'}
        BY ONLY <1>3, <1>7, <3>2, <3>3, <4>2, <4>3
      <4>5. DOMAIN s.values = {key \in Args!KnownKeys : PairsOf(key)' # {}}
        <5>1. DOMAIN s.values = DOMAIN r.values \cup {token.key}
          BY <4>2
        <5>2. QED
          BY ONLY <1>3, <1>7, <3>2, <3>3, <5>1
      <4>6. \A key \in DOMAIN s.values : \E t \in PairsOf(key)' : s.values[key] = t.value
        <5>1. ASSUME NEW key \in DOMAIN r.values, key # token.key
              PROVE  \E t \in PairsOf(key)' : s.values[key] = t.value
          <6>1. v[key] = r.values[key]
            BY ONLY <5>1, v = [k \in DOMAIN r.values \cup {token.key} |->
                                 IF k = token.key THEN token.value ELSE r.values[k]]
          <6>2. s.values[key] = r.values[key]
            BY ONLY <4>2, <6>1
          <6>3. PairsOf(key)' = PairsOf(key)
            BY ONLY <3>2, <5>1
          <6>4. \E t \in PairsOf(key) : r.values[key] = t.value
            BY ONLY <1>3, <5>1
          <6>5. QED
            BY ONLY <6>2, <6>3, <6>4
        <5>2. \E t \in PairsOf(token.key)' : s.values[token.key] = t.value
          BY <3>3, <4>2
        <5>3. DOMAIN s.values = DOMAIN r.values \cup {token.key}
          BY <4>2
        <5>4. QED
          BY ONLY <5>1, <5>2, <5>3
      <4>7. QED
        BY ONLY <1>3, <2>2, <2>3, <3>1, <4>2, <4>4, <4>5, <4>6
    <3>6. QED
      BY <3>4, <3>5
  <2>6. QED
    BY <2>4, <2>5
<1>8. QED
  BY <1>5, <1>6, <1>7 DEF Understood

(* Before the first argument nothing is in the bag. *)
LEMMA InitCommand == Init => CommandInv
<1>. SUFFICES ASSUME Init PROVE CommandInv
  OBVIOUS
<1>1. phase = "arguments" /\ argv = EmptyBag /\ raw = Args!NoArguments
  BY DEF Init
<1>2. DOMAIN argv = {}
  BY <1>1 DEF EmptyBag, SetToBag
<1>3. Tokens = {}
  BY <1>2 DEF Tokens, BagToSet
<1>4. ArgvInv
  BY <1>3, FS_EmptySet DEF ArgvInv
<1>5. Pairs = [key \in Args!KnownKeys |-> {}] /\ Again = {}
  <2>1. \A key : PairsOf(key) = {}
    BY <1>3 DEF PairsOf
  <2>2. QED
    BY <2>1 DEF Pairs, Again, Repeated
<1>6. Reading(raw)
  <2>. PICK r : r = raw
    OBVIOUS
  <2>1. r = [flags |-> {}, values |-> << >>, unsupported |-> {}, duplicated |-> {},
             empty_valued |-> {}]
    BY <1>1 DEF Args!NoArguments
  <2>2. DOMAIN r.values = {}
    BY <2>1
  <2>3. ReadOf(r, {}, [key \in Args!KnownKeys |-> {}], {})
    BY ONLY <2>1, <2>2 DEF ReadOf
  <2>4. QED
    BY <1>3, <1>5, <2>3 DEF Reading
<1>7. QED
  BY <1>1, <1>4, <1>6 DEF CommandInv

(* Nobody but tokenize touches the bag, and the parse empties its reading. *)
LEMMA NextCommand == CommandInv /\ [Next]_vars => CommandInv'
<1>. SUFFICES ASSUME CommandInv, [Next]_vars PROVE CommandInv'
  OBVIOUS
<1>1. CASE ReadArgument
  <2>1. PICK token \in Given : /\ phase = "arguments" /\ phase' = phase
                               /\ argv' = argv (+) SetToBag({token})
                               /\ raw' = Args!Tokenize(raw, token)
    BY <1>1 DEF ReadArgument
  <2>2. ArgvInv /\ Reading(raw)
    BY <2>1 DEF CommandInv
  <2>3. ArgvInv' /\ Reading(raw)'
    BY <2>1, <2>2, OneMoreArgument, TokenizeReads
  <2>4. QED
    BY <2>1, <2>3 DEF CommandInv
<1>2. CASE Parse
  <2>1. /\ ArgvInv /\ Reading(raw) /\ argv' = argv /\ phase' = "parsed"
        /\ errors' = Args!ParseErrors(raw) /\ args' = Args!ArgsOf(raw)
    BY <1>2 DEF Parse, CommandInv
  <2>. PICK r : r = raw
    OBVIOUS
  <2>2. Tokens' = Tokens /\ Pairs' = Pairs /\ Again' = Again
    BY <2>1 DEF Tokens, Pairs, Again, PairsOf, Repeated
  <2>3. ArgvInv' /\ Reading(r)'
    BY <2>1, <2>2 DEF ArgvInv, Reading
  <2>4. QED
    BY <2>1, <2>3 DEF CommandInv
<1>3. CASE ~ReadArgument /\ ~Parse
  <2>1. \/ phase' \notin {"arguments", "parsed"}
        \/ UNCHANGED <<phase, argv, raw, args, errors>>
    BY <1>3 DEF Next, Start, Validate, MakeDirectory, OtherSimulator, Load, DiscoverAlgorithms,
                DiscoverMissionControls, Discover, Execute, Stopped, vars
  <2>2. CASE UNCHANGED <<phase, argv, raw, args, errors>>
    <3>1. Tokens' = Tokens /\ Pairs' = Pairs /\ Again' = Again
      BY <2>2 DEF Tokens, Pairs, Again, PairsOf, Repeated
    <3>2. ArgvInv => ArgvInv'
      BY <2>2, <3>1 DEF ArgvInv
    <3>3. \A r : Reading(r) => Reading(r)'
      BY <3>1 DEF Reading
    <3>4. phase = "arguments" => Reading(raw)'
      BY <2>2, <3>1 DEF Reading, CommandInv
    <3>5. QED
      BY <2>2, <3>2, <3>3, <3>4 DEF CommandInv
  <2>3. QED
    BY <2>1, <2>2 DEF CommandInv
<1>4. QED
  BY <1>1, <1>2, <1>3

-----------------------------------------------------------------------------
(* The messages of the parse, one category after the other. *)

(* A message names what it is about, and there is none about nothing. *)
LEMMA MessageNames ==
  ASSUME NEW category, NEW names
  PROVE  /\ UNION {e.names : e \in Args!Message(category, names)} = names
         /\ \A e \in Args!Message(category, names) : e.category = category
         /\ Args!Message(category, names) = {} <=> names = {}
<1>1. CASE names = {}
  BY <1>1 DEF Args!Message
<1>2. CASE names # {}
  <2>1. Args!Message(category, names) = {[category |-> category, names |-> names]}
    BY <1>2 DEF Args!Message
  <2>2. QED
    BY <1>2, <2>1
<1>3. QED
  BY <1>1, <1>2

LEMMA WhatIsSaid ==
  ASSUME NEW r, errors = Args!ParseErrors(r)
  PROVE  /\ Named("unsupported") = r.unsupported
         /\ Named("more than once") = r.duplicated
         /\ Named("empty value") = r.empty_valued
         /\ Named("num_threads") = IF Args!BadThreads(r) THEN {r.values["num_threads"]} ELSE {}
         /\ \A e \in errors : e.category \in Categories
         /\ errors = {} => /\ r.duplicated = {} /\ r.empty_valued = {}
                           /\ Args!ModeKnown(r) /\ ~Args!BadThreads(r)
         /\ ~Args!ModeKnown(r) => /\ Named("run mode") = Args!ModesOf(r)
                                  /\ Named("missing") = {} /\ Named("wrong mode") = {}
         /\ (\A e \in errors : e.category # "run mode") <=> Args!ModeKnown(r)
         /\ Args!ModeKnown(r) =>
              /\ Named("missing") = Args!RequiredKeys(Args!ModeOf(r)) \ DOMAIN r.values
              /\ Named("wrong mode") =
                   {key \in DOMAIN r.values : ~Args!isKeyValidInMode(key, Args!ModeOf(r))}
<1>. PICK e1 : e1 = Args!Message("unsupported", r.unsupported)
  OBVIOUS
<1>. PICK e2 : e2 = Args!Message("more than once", r.duplicated)
  OBVIOUS
<1>. PICK e3 : e3 = Args!Message("empty value", r.empty_valued)
  OBVIOUS
<1>. PICK wrong : wrong = {key \in DOMAIN r.values : ~Args!isKeyValidInMode(key, Args!ModeOf(r))}
  OBVIOUS
<1>. PICK missing : missing = Args!RequiredKeys(Args!ModeOf(r)) \ DOMAIN r.values
  OBVIOUS
<1>. PICK e4 : e4 = Args!Message("wrong mode", wrong)
  OBVIOUS
<1>. PICK e5 : e5 = Args!Message("missing", missing)
  OBVIOUS
<1>. PICK bad : bad = IF Args!BadThreads(r) THEN {r.values["num_threads"]} ELSE {}
  OBVIOUS
<1>. PICK e6 : e6 = Args!Message("num_threads", bad)
  OBVIOUS
<1>. PICK m : m = Args!ModeErrors(r)
  OBVIOUS
<1>1. errors = e1 \cup e2 \cup e3 \cup m \cup e6
  <2>1. e6 = IF Args!BadThreads(r) THEN Args!Message("num_threads", {r.values["num_threads"]}) ELSE {}
    BY DEF Args!Message
  <2>2. QED
    BY <2>1 DEF Args!ParseErrors
<1>2. Args!ModeKnown(r) => m = e4 \cup e5
  BY DEF Args!ModeErrors
<1>3. ~Args!ModeKnown(r) => m = {[category |-> "run mode", names |-> Args!ModesOf(r)]}
  BY DEF Args!ModeErrors
<1>4. /\ UNION {e.names : e \in e1} = r.unsupported /\ \A e \in e1 : e.category = "unsupported"
      /\ UNION {e.names : e \in e2} = r.duplicated /\ \A e \in e2 : e.category = "more than once"
      /\ e2 = {} <=> r.duplicated = {}
      /\ UNION {e.names : e \in e3} = r.empty_valued /\ \A e \in e3 : e.category = "empty value"
      /\ e3 = {} <=> r.empty_valued = {}
      /\ UNION {e.names : e \in e4} = wrong /\ \A e \in e4 : e.category = "wrong mode"
      /\ UNION {e.names : e \in e5} = missing /\ \A e \in e5 : e.category = "missing"
      /\ UNION {e.names : e \in e6} = bad /\ \A e \in e6 : e.category = "num_threads"
      /\ e6 = {} <=> bad = {}
  BY MessageNames
<1>5. ~Args!ModeKnown(r) => /\ m # {} /\ \A e \in m : e.category = "run mode"
                            /\ UNION {e.names : e \in m} = Args!ModesOf(r)
  <2>. PICK e : e = [category |-> "run mode", names |-> Args!ModesOf(r)]
    OBVIOUS
  <2>1. e.category = "run mode" /\ e.names = Args!ModesOf(r) /\ (~Args!ModeKnown(r) => m = {e})
    BY <1>3
  <2>2. QED
    BY ONLY <2>1
<1>6. /\ \A e \in e1 : e.category = "unsupported"
      /\ \A e \in e2 : e.category = "more than once"
      /\ \A e \in e3 : e.category = "empty value"
      /\ \A e \in e4 : e.category = "wrong mode"
      /\ \A e \in e5 : e.category = "missing"
      /\ \A e \in e6 : e.category = "num_threads"
      /\ Args!ModeKnown(r) => m = e4 \cup e5
      /\ ~Args!ModeKnown(r) => m # {} /\ \A e \in m : e.category = "run mode"
  BY ONLY <1>2, <1>4, <1>5
<1>7. /\ {x \in errors : x.category = "unsupported"} = e1
      /\ {x \in errors : x.category = "more than once"} = e2
      /\ {x \in errors : x.category = "empty value"} = e3
      /\ {x \in errors : x.category = "num_threads"} = e6
  <2>1. \A e \in m : e.category \in {"run mode", "wrong mode", "missing"}
    BY ONLY <1>6
  <2>2. QED
    BY ONLY <1>1, <1>6, <2>1
<1>8. /\ Args!ModeKnown(r) => /\ {x \in errors : x.category = "wrong mode"} = e4
                              /\ {x \in errors : x.category = "missing"} = e5
      /\ ~Args!ModeKnown(r) => /\ {x \in errors : x.category = "run mode"} = m
                               /\ {x \in errors : x.category = "wrong mode"} = {}
                               /\ {x \in errors : x.category = "missing"} = {}
  BY ONLY <1>1, <1>6
<1>9. (\A e \in errors : e.category # "run mode") <=> Args!ModeKnown(r)
  BY ONLY <1>1, <1>6
<1>10. \A e \in errors : e.category \in Categories
  BY ONLY <1>1, <1>6 DEF Categories
<1>11. errors = {} => /\ r.duplicated = {} /\ r.empty_valued = {}
                      /\ Args!ModeKnown(r) /\ ~Args!BadThreads(r)
  <2>1. errors = {} => e2 = {} /\ e3 = {} /\ m = {} /\ e6 = {}
    BY ONLY <1>1
  <2>2. QED
    BY <1>4, <1>6, <2>1
<1>12. /\ Named("unsupported") = r.unsupported /\ Named("more than once") = r.duplicated
       /\ Named("empty value") = r.empty_valued /\ Named("num_threads") = bad
  BY <1>4, <1>7 DEF Named
<1>13. Args!ModeKnown(r) => Named("missing") = missing /\ Named("wrong mode") = wrong
  BY <1>4, <1>8 DEF Named
<1>14. ~Args!ModeKnown(r) => /\ Named("run mode") = Args!ModesOf(r)
                             /\ Named("missing") = {} /\ Named("wrong mode") = {}
  BY <1>5, <1>8 DEF Named
<1>15. QED
  BY <1>9, <1>10, <1>11, <1>12, <1>13, <1>14

(* A flag has been read where it stands among the arguments.                *)
LEMMA FlagsRead ==
  ASSUME GivenAssumption, ArgvInv, NEW r, Reading(r), NEW flag
  PROVE  flag \in r.flags <=> [is |-> "flag", flag |-> flag] \in Tokens
<1>1. r.flags = {t.flag : t \in {x \in Tokens : Args!IsFlag(x)}}
  BY DEF Reading, ReadOf
<1>2. ASSUME flag \in r.flags PROVE [is |-> "flag", flag |-> flag] \in Tokens
  <2>1. PICK t \in Tokens : Args!IsFlag(t) /\ t.flag = flag
    BY <1>1, <1>2
  <2>2. t = [is |-> "flag", flag |-> t.flag]
    BY <2>1 DEF GivenAssumption, ArgvInv
  <2>3. QED
    BY <2>1, <2>2
<1>3. ASSUME [is |-> "flag", flag |-> flag] \in Tokens PROVE flag \in r.flags
  <2>1. PICK t \in Tokens : t = [is |-> "flag", flag |-> flag]
    BY <1>3
  <2>2. Args!IsFlag(t) /\ t.flag = flag
    BY <2>1 DEF Args!IsFlag
  <2>3. QED
    BY <1>1, <2>2
<1>4. QED
  BY <1>2, <1>3

(* The mode is known where one mode was asked for. *)
LEMMA OneModeAsked ==
  ASSUME GivenAssumption, ArgvInv, NEW r, Reading(r), NEW modes,
         modes = {mode \in Args!Modes : [is |-> "flag", flag |-> mode] \in Tokens}
  PROVE  /\ modes = Args!ModesOf(r)
         /\ Cardinality(modes) = 1 <=> Args!ModeKnown(r)
         /\ Args!ModeKnown(r) => modes = {Args!ModeOf(r)}
<1>1. modes = Args!ModesOf(r)
  BY FlagsRead DEF Args!ModesOf
<1>2. IsFiniteSet(modes)
  <2>1. IsFiniteSet({"comparative"} \cup {"competition"})
    BY FS_AddElement, FS_Singleton
  <2>. Args!Modes = {"comparative"} \cup {"competition"}
    BY DEF Args!Modes
  <2>2. modes \subseteq Args!Modes
    OBVIOUS
  <2>3. QED
    BY <2>1, <2>2, FS_Subset
<1>3. Cardinality(modes) = 1 <=> \E mode : modes = {mode}
  BY <1>2, FS_Singleton
<1>4. (\E mode : modes = {mode}) <=> \E mode \in Args!Modes : modes = {mode}
  OBVIOUS
<1>5. Args!ModeKnown(r) <=> \E mode \in Args!Modes : modes = {mode}
  BY <1>1 DEF Args!ModeKnown
<1>6. ASSUME Args!ModeKnown(r) PROVE modes = {Args!ModeOf(r)}
  <2>1. PICK mode \in Args!Modes : modes = {mode}
    BY <1>5, <1>6
  <2>2. Args!ModeOf(r) \in Args!Modes /\ Args!ModeOf(r) \in r.flags
    BY <1>1, <1>6, <2>1 DEF Args!ModeOf, Args!ModesOf
  <2>3. Args!ModeOf(r) \in modes
    BY <1>1, <2>2 DEF Args!ModesOf
  <2>4. QED
    BY <2>1, <2>3
<1>7. QED
  BY <1>1, <1>3, <1>4, <1>5, <1>6

(* Where nothing is repeated and nothing empty, the value of a key is the   *)
(* one that was written.                                                    *)
LEMMA ValueWritten ==
  ASSUME ArgvInv, NEW r, Reading(r), r.duplicated = {}, r.empty_valued = {}, NEW t \in Tokens,
         Args!IsPair(t), t.key \in Args!KnownKeys
  PROVE  t.key \in DOMAIN r.values /\ r.values[t.key] = t.value
<1>1. /\ r.duplicated = {key \in Args!KnownKeys : Repeated(key)}
      /\ r.empty_valued = {key \in Args!KnownKeys :
                         \E x \in Tokens : Args!IsPair(x) /\ x.key = key /\ x.value = Args!Nowhere}
      /\ DOMAIN r.values = {key \in Args!KnownKeys : PairsOf(key) # {}}
      /\ \A key \in DOMAIN r.values : \E x \in PairsOf(key) : r.values[key] = x.value
  <2>1. Pairs = [key \in Args!KnownKeys |-> PairsOf(key)]
        /\ Again = {key \in Args!KnownKeys : Repeated(key)}
    BY DEF Pairs, Again
  <2>2. ReadOf(r, Tokens, Pairs, Again)
    BY DEF Reading
  <2>3. QED
    BY ONLY <2>1, <2>2 DEF ReadOf
<1>2. t \in PairsOf(t.key)
  BY <1>1 DEF PairsOf
<1>3. t.key \in DOMAIN r.values
  BY <1>1, <1>2
<1>4. PICK x \in PairsOf(t.key) : r.values[t.key] = x.value
  BY <1>1, <1>3
<1>5. ~(Cardinality(PairsOf(t.key)) > 1)
  BY <1>1, <1>2 DEF Repeated
<1>6. IsFiniteSet(PairsOf(t.key))
  <2>1. PairsOf(t.key) \subseteq Tokens
    BY DEF PairsOf
  <2>2. QED
    BY <2>1, FS_Subset DEF ArgvInv
<1>7. x = t
  BY <1>2, <1>5, <1>6, TwoOrOne
<1>8. QED
  BY <1>3, <1>4, <1>7

LEMMA TheParseNamesTheFaults ==
  ASSUME GivenAssumption, ArgvInv, NEW r, Reading(r), errors = Args!ParseErrors(r)
  PROVE  NamesTheFaults
<1>. PICK written : written = {key \in Args!KnownKeys : PairsOf(key) # {}}
  OBVIOUS
<1>. PICK modes : modes = {mode \in Args!Modes : [is |-> "flag", flag |-> mode] \in Tokens}
  OBVIOUS
<1>. PICK threads : threads = {t.value : t \in PairsOf("num_threads")}
  OBVIOUS
<1>. PICK refused : refused = {text \in threads : ReadsAs[text] < 0}
  OBVIOUS
<1>1. /\ r.unsupported = {t \in Tokens : ~Understood(t)}
      /\ r.duplicated = {key \in Args!KnownKeys : Repeated(key)}
      /\ r.empty_valued = {key \in Args!KnownKeys :
            \E t \in Tokens : Args!IsPair(t) /\ t.key = key /\ t.value = Args!Nowhere}
      /\ DOMAIN r.values = {key \in Args!KnownKeys : PairsOf(key) # {}}
      /\ \A key \in DOMAIN r.values : \E t \in PairsOf(key) : r.values[key] = t.value
  <2>1. Pairs = [key \in Args!KnownKeys |-> PairsOf(key)]
        /\ Again = {key \in Args!KnownKeys : Repeated(key)}
    BY DEF Pairs, Again
  <2>2. ReadOf(r, Tokens, Pairs, Again)
    BY DEF Reading
  <2>3. QED
    BY ONLY <2>1, <2>2 DEF ReadOf
<1>2. /\ Named("unsupported") = {t \in Tokens : ~Understood(t)}
      /\ Named("more than once") = {key \in Args!KnownKeys : Repeated(key)}
      /\ Named("empty value") = {key \in Args!KnownKeys :
            \E t \in Tokens : Args!IsPair(t) /\ t.key = key /\ t.value = Args!Nowhere}
      /\ \A e \in errors : e.category \in Categories
  BY <1>1, WhatIsSaid
<1>3. /\ modes = Args!ModesOf(r)
      /\ Cardinality(modes) = 1 <=> Args!ModeKnown(r)
      /\ Args!ModeKnown(r) => modes = {Args!ModeOf(r)}
  BY OneModeAsked
<1>4. /\ Cardinality(modes) = 1 <=> \A e \in errors : e.category # "run mode"
      /\ Cardinality(modes) # 1 =>
           Named("run mode") = modes /\ Named("missing") = {} /\ Named("wrong mode") = {}
  BY <1>3, WhatIsSaid
<1>5. ASSUME NEW mode \in modes, Cardinality(modes) = 1
      PROVE  /\ Named("missing") = Args!RequiredKeys(mode) \ written
             /\ Named("wrong mode") = {key \in written : ~Args!isKeyValidInMode(key, mode)}
  <2>1. Args!ModeKnown(r) /\ mode = Args!ModeOf(r)
    BY <1>3, <1>5
  <2>2. /\ Named("missing") = Args!RequiredKeys(Args!ModeOf(r)) \ DOMAIN r.values
        /\ Named("wrong mode") =
                   {key \in DOMAIN r.values : ~Args!isKeyValidInMode(key, Args!ModeOf(r))}
    BY <2>1, WhatIsSaid
  <2>3. QED
    BY <1>1, <2>1, <2>2
<1>6. /\ Named("num_threads") \subseteq refused
      /\ threads # {} /\ refused = threads => Named("num_threads") # {}
  <2>1. Named("num_threads") = IF Args!BadThreads(r) THEN {r.values["num_threads"]} ELSE {}
    BY WhatIsSaid
  <2>2. Args!BadThreads(r) <=>
          "num_threads" \in DOMAIN r.values /\ ReadsAs[r.values["num_threads"]] < 0
    BY DEF Args!BadThreads
  <2>3. "num_threads" \in DOMAIN r.values => r.values["num_threads"] \in threads
    BY <1>1
  <2>4. threads # {} => "num_threads" \in DOMAIN r.values
    BY <1>1 DEF Args!KnownKeys
  <2>5. QED
    BY <2>1, <2>2, <2>3, <2>4
<1>7. QED
  BY <1>2, <1>4, <1>5, <1>6 DEF NamesTheFaults

LEMMA TheParseTakesWhatIsWritten ==
  ASSUME GivenAssumption, ArgvInv, NEW r, Reading(r), errors = Args!ParseErrors(r),
         args = Args!ArgsOf(r), errors = {}
  PROVE  TakesWhatIsWritten
<1>1. r.duplicated = {} /\ r.empty_valued = {} /\ Args!ModeKnown(r) /\ ~Args!BadThreads(r)
  BY WhatIsSaid
<1>2. /\ args.mode = Args!ModeOf(r)
      /\ args.composition_file = Args!Taken(r, "simulation")
      /\ args.fixed_plugin_file = Args!Taken(r, Args!fixedPluginKey(args.mode))
      /\ args.varied_plugin_folder = Args!Taken(r, Args!variedPluginKey(args.mode))
      /\ args.num_threads = IF "num_threads" \in DOMAIN r.values /\ ~Args!BadThreads(r)
                            THEN Args!parseNumThreads(r.values["num_threads"]) ELSE 1
      /\ args.verbose = ("verbose" \in r.flags)
  BY DEF Args!ArgsOf
<1>3. \A key : key \in DOMAIN r.values => Args!Taken(r, key) = r.values[key]
  BY <1>1 DEF Args!Taken
<1>4. {"simulation", "num_threads", Args!fixedPluginKey(args.mode), Args!variedPluginKey(args.mode)}
        \subseteq Args!KnownKeys
  BY DEF Args!KnownKeys, Args!fixedPluginKey, Args!variedPluginKey
<1>5. ASSUME NEW t \in Tokens, NEW key \in Args!KnownKeys, Args!IsPair(t), t.key = key
      PROVE  key \in DOMAIN r.values /\ r.values[key] = t.value
  BY <1>1, <1>5, ValueWritten
<1>6. [is |-> "flag", flag |-> args.mode] \in Tokens
  <2>1. PICK mode \in Args!Modes : Args!ModesOf(r) = {mode}
    BY <1>1 DEF Args!ModeKnown
  <2>2. Args!ModeOf(r) \in r.flags
    BY <1>1, <2>1 DEF Args!ModeOf, Args!ModesOf
  <2>3. QED
    BY <1>2, <2>2, FlagsRead
<1>7. args.verbose <=> [is |-> "flag", flag |-> "verbose"] \in Tokens
  <2>1. "verbose" \in r.flags <=> [is |-> "flag", flag |-> "verbose"] \in Tokens
    BY FlagsRead
  <2>2. QED
    BY <1>2, <2>1
<1>8. PairsOf("num_threads") = {} => args.num_threads = 1
  <2>1. DOMAIN r.values = {key \in Args!KnownKeys : PairsOf(key) # {}}
    BY DEF Reading, ReadOf, Pairs
  <2>2. QED
    BY <1>2, <2>1
<1>9. ASSUME NEW t \in Tokens, Args!IsPair(t)
      PROVE  /\ t.key = "simulation" => args.composition_file = t.value
             /\ t.key = Args!fixedPluginKey(args.mode) => args.fixed_plugin_file = t.value
             /\ t.key = Args!variedPluginKey(args.mode) => args.varied_plugin_folder = t.value
             /\ t.key = "num_threads" =>
                  args.num_threads = IF ReadsAs[t.value] = 0 THEN 1 ELSE ReadsAs[t.value]
  <2>1. t.key = "num_threads" =>
          args.num_threads = IF ReadsAs[t.value] = 0 THEN 1 ELSE ReadsAs[t.value]
    BY <1>1, <1>2, <1>4, <1>5, <1>9 DEF Args!parseNumThreads
  <2>2. QED
    BY <1>2, <1>3, <1>4, <1>5, <1>9, <2>1
<1>10. QED
  BY <1>6, <1>7, <1>8, <1>9 DEF TakesWhatIsWritten

(* The parse names every fault of the command line at once, accuses nothing *)
(* that is in order and takes the paths that were written, for any          *)
(* arguments, any number of them and any order (CommandLineArgs.cpp).       *)
THEOREM RejectionNamesEveryFaultHolds == Spec => []RejectionNamesEveryFault
<1>1. CommandInv => RejectionNamesEveryFault
  <2>1. ASSUME CommandInv, phase = "parsed" PROVE RejectionNamesEveryFault
    <3>1. PICK r : Reading(r) /\ errors = Args!ParseErrors(r) /\ args = Args!ArgsOf(r)
      BY <2>1 DEF CommandInv
    <3>2. ArgvInv
      BY <2>1 DEF CommandInv
    <3>3. NamesTheFaults /\ (errors = {} => TakesWhatIsWritten)
      BY <3>1, <3>2, GivenAssumption, TheParseNamesTheFaults, TheParseTakesWhatIsWritten
    <3>4. QED
      BY <3>3 DEF RejectionNamesEveryFault
  <2>2. phase # "parsed" => RejectionNamesEveryFault
    BY DEF RejectionNamesEveryFault
  <2>3. QED
    BY <2>1, <2>2
<1>2. QED
  BY <1>1, InitCommand, NextCommand, PTL DEF Spec

-----------------------------------------------------------------------------
(***************************************************************************)
(* PluginRegistry::discover gives every file one slot.                     *)
(***************************************************************************)

(* Every set of naturals that is not empty has a least element.             *)
LEMMA LeastNat ==
  ASSUME NEW T, T \subseteq Nat, T # {}
  PROVE  \E n \in T : \A m \in T : n <= m
<1>1. IsWellFoundedOn({p \in Nat \X Nat : p[1] < p[2]}, Nat)
  BY NatLessThanWellFounded DEF OpToRel
<1>2. PICK n \in T : \A m \in T : ~(<<m, n>> \in {p \in Nat \X Nat : p[1] < p[2]})
  BY <1>1, WFMin
<1>3. \A m \in T : ~(m < n)
  BY <1>2
<1>4. QED
  BY <1>3

(* Induction, for a set: what holds of zero and of each successor.          *)
LEMMA Onward ==
  ASSUME NEW n \in Nat, NEW T, 0 \in T, \A k \in 0 .. n : k \in T /\ k < n => k + 1 \in T
  PROVE  \A k \in 0 .. n : k \in T
<1>. PICK outside : outside = {k \in 0 .. n : k \notin T}
  OBVIOUS
<1>1. SUFFICES ASSUME outside # {} PROVE FALSE
  OBVIOUS
<1>2. PICK k \in outside : \A m \in outside : k <= m
  <2>1. outside \subseteq Nat
    OBVIOUS
  <2>2. QED
    BY <1>1, <2>1, LeastNat
<1>3. k \in 0 .. n /\ k \notin T /\ k # 0
  OBVIOUS
<1>4. PICK m \in 0 .. n : m < n /\ m + 1 = k
  <2>1. k - 1 \in 0 .. n /\ k - 1 < n /\ k - 1 + 1 = k
    BY <1>3
  <2>2. QED
    BY <2>1
<1>5. m \notin outside
  BY <1>2, <1>3, <1>4
<1>6. m \in T
  BY <1>5
<1>7. QED
  BY <1>3, <1>4, <1>6

(* A finite set of numbers can be put in order. *)
Ascends(s, n) == \A i, j \in 1 .. n : i < j => s[i] < s[j]

LEMMA OneLess ==
  ASSUME NEW k \in Nat, NEW S, S \subseteq Nat, IsFiniteSet(S), Cardinality(S) = k + 1,
         \A T \in SUBSET Nat : IsFiniteSet(T) /\ Cardinality(T) = k
                                 => \E s \in [1 .. k -> T] : Ascends(s, k)
  PROVE  \E s \in [1 .. k + 1 -> S] : Ascends(s, k + 1)
<1>1. S # {}
  BY FS_EmptySet
<1>2. PICK least \in S : \A x \in S : least <= x
  BY <1>1, LeastNat
<1>. PICK T : T = S \ {least}
  OBVIOUS
<1>3. IsFiniteSet(T) /\ Cardinality(T) = k
  <2>1. IsFiniteSet(S \ {least}) /\ Cardinality(S \ {least}) = Cardinality(S) - 1
    BY FS_RemoveElement
  <2>2. k + 1 - 1 = k
    OBVIOUS
  <2>3. QED
    BY <2>1, <2>2
<1>4. PICK t \in [1 .. k -> T] : Ascends(t, k)
  BY <1>3
<1>. PICK s : s = [i \in 1 .. k + 1 |-> IF i = 1 THEN least ELSE t[i - 1]]
  OBVIOUS
<1>5. s[1] = least /\ \A i \in 1 .. k + 1 : i # 1 => i - 1 \in 1 .. k /\ s[i] = t[i - 1]
  OBVIOUS
<1>6. s \in [1 .. k + 1 -> S]
  <2>1. \A i \in 1 .. k + 1 : s[i] \in S
    BY <1>5
  <2>2. s = [i \in 1 .. k + 1 |-> s[i]]
    OBVIOUS
  <2>3. QED
    BY <2>1, <2>2
<1>7. ASSUME NEW i \in 1 .. k + 1, NEW j \in 1 .. k + 1, i < j PROVE s[i] < s[j]
  <2>1. j # 1 /\ j - 1 \in 1 .. k /\ s[j] = t[j - 1] /\ t[j - 1] \in T
    BY <1>5, <1>7
  <2>2. CASE i = 1
    <3>1. s[i] = least /\ s[j] \in S /\ s[j] # least
      BY <1>5, <2>1, <2>2
    <3>2. s[i] \in Nat /\ s[j] \in Nat /\ s[i] <= s[j] /\ s[i] # s[j]
      BY <1>2, <3>1
    <3>3. QED
      BY ONLY <3>2
  <2>3. CASE i # 1
    <3>1. i - 1 \in 1 .. k /\ s[i] = t[i - 1] /\ i - 1 < j - 1
      BY <1>5, <1>7, <2>3
    <3>2. t[i - 1] < t[j - 1]
      BY <1>4, <2>1, <3>1 DEF Ascends
    <3>3. QED
      BY <2>1, <3>1, <3>2
  <2>4. QED
    BY <2>2, <2>3
<1>8. QED
  BY <1>6, <1>7 DEF Ascends

LEMMA InOrderExists ==
  ASSUME NEW S, S \subseteq Nat, IsFiniteSet(S)
  PROVE  \E s \in [1 .. Cardinality(S) -> S] : Ascends(s, Cardinality(S))
<1>. DEFINE with == {k \in Nat : \A T \in SUBSET Nat :
                       IsFiniteSet(T) /\ Cardinality(T) = k => \E s \in [1 .. k -> T] : Ascends(s, k)}
<1>. PICK n \in Nat : n = Cardinality(S)
  BY FS_CardinalityType
<1>1. 0 \in with
  <2>1. ASSUME NEW T PROVE \E s \in [1 .. 0 -> T] : Ascends(s, 0)
    <3>. PICK s : s = [i \in 1 .. 0 |-> i]
      OBVIOUS
    <3>1. s \in [1 .. 0 -> T] /\ Ascends(s, 0)
      BY DEF Ascends
    <3>2. QED
      BY <3>1
  <2>2. QED
    BY <2>1
<1>2. ASSUME NEW k \in Nat, k \in with PROVE k + 1 \in with
  <2>1. ASSUME NEW T \in SUBSET Nat, IsFiniteSet(T), Cardinality(T) = k + 1
        PROVE  \E s \in [1 .. k + 1 -> T] : Ascends(s, k + 1)
    BY <1>2, <2>1, OneLess
  <2>2. QED
    BY <2>1
<1>3. \A k \in 0 .. n : k \in with /\ k < n => k + 1 \in with
  BY <1>2
<1>. HIDE DEF with
<1>4. n \in with
  BY <1>1, <1>3, Onward
<1>5. QED
  BY <1>4 DEF with

(* Each element once. *)
Distinct(s) == \A i, j \in DOMAIN s : s[i] = s[j] => i = j

(* So a folder's files are each in the list once. *)
LEMMA InOrderLists ==
  ASSUME NEW S, S \subseteq Nat, IsFiniteSet(S), NEW s, s = InOrder(S)
  PROVE  /\ s \in Seq(S)
         /\ Distinct(s)
         /\ \A x \in S : \E i \in DOMAIN s : s[i] = x
<1>. PICK n \in Nat : n = Cardinality(S)
  BY FS_CardinalityType
<1>1. s \in [1 .. n -> S] /\ \A i, j \in DOMAIN s : i < j => s[i] < s[j]
  <2>. DEFINE Ordered(x) == \A i, j \in DOMAIN x : i < j => x[i] < x[j]
  <2>. PICK Lists : Lists = [1 .. Cardinality(S) -> S]
    OBVIOUS
  <2>1. \E x \in Lists : Ordered(x)
    BY InOrderExists DEF Ascends
  <2>2. s = CHOOSE y \in Lists : Ordered(y)
    BY ONLY s = InOrder(S), Lists = [1 .. Cardinality(S) -> S] DEF InOrder
  <2>. HIDE DEF Ordered
  <2>3. s \in Lists /\ Ordered(s)
    BY ONLY <2>1, <2>2
  <2>4. QED
    BY <2>3 DEF Ordered
<1>2. ASSUME NEW i \in 1 .. n, NEW j \in 1 .. n, s[i] = s[j] PROVE i = j
  <2>1. s[i] \in Nat /\ s[j] \in Nat
    BY <1>1
  <2>. ~(s[i] < s[j]) /\ ~(s[j] < s[i])
    BY ONLY <1>2, <2>1
  <2>2. ~(i < j) /\ ~(j < i)
    BY <1>1, <2>1
  <2>3. QED
    BY <2>2
<1>3. s \in Injection(1 .. n, S)
  BY <1>1, <1>2 DEF Injection, IsInjective
<1>4. s \in Surjection(1 .. n, S)
  <2>1. IsFiniteSet(1 .. n) /\ Cardinality(1 .. n) = n
    BY FS_Interval
  <2>2. QED
    BY <1>3, <2>1, FS_Injection
<1>5. QED
  BY <1>1, <1>2, <1>4 DEF Surjection, Distinct

-----------------------------------------------------------------------------
(* One turn of discover's loop. *)

(* A registry's slots: one for each file of its own. *)
SlotsOK(slots, F) ==
  /\ slots \in Seq([file : F, kind : Kinds])
  /\ \A i, j \in DOMAIN slots : slots[i].file = slots[j].file => i = j

(* Slots are only ever added, *)
Extends(later, slots) ==
  DOMAIN slots \subseteq DOMAIN later /\ \A i \in DOMAIN slots : later[i] = slots[i]

HasSlot(slots, file) == \E i \in DOMAIN slots : slots[i].file = file

HasEntry(slots, file, kind) == \E i \in DOMAIN slots : slots[i] = [file |-> file, kind |-> kind]

(* and a role's files are each listed once and have a slot of that role.    *)
Serves(slots, files, kind) ==
  \A n \in DOMAIN files :
    /\ \E i \in DOMAIN slots : slots[i] = [file |-> files[n], kind |-> kind]
    /\ \A m \in DOMAIN files : files[m] = files[n] => m = n

(* What a list of files has that an earlier one has not. *)
Adds(more, files, file) ==
  \A n \in DOMAIN more : more[n] = file \/ \E m \in DOMAIN files : files[m] = more[n]

Answer(r) == r = [slots |-> r.slots, files |-> r.files, failures |-> r.failures]

LEMMA ExtendedServes ==
  ASSUME NEW slots, NEW later, NEW files, NEW kind, Serves(slots, files, kind), Extends(later, slots)
  PROVE  Serves(later, files, kind)
<1>1. ASSUME NEW n \in DOMAIN files
      PROVE  \E i \in DOMAIN later : later[i] = [file |-> files[n], kind |-> kind]
  <2>1. PICK i \in DOMAIN slots : slots[i] = [file |-> files[n], kind |-> kind]
    BY DEF Serves
  <2>2. i \in DOMAIN later /\ later[i] = slots[i]
    BY DEF Extends
  <2>3. QED
    BY <2>1, <2>2
<1>2. QED
  BY <1>1 DEF Serves

LEMMA ExtendedHasSlot ==
  ASSUME NEW slots, NEW later, NEW file, HasSlot(slots, file), Extends(later, slots)
  PROVE  HasSlot(later, file)
<1>1. PICK i \in DOMAIN slots : slots[i].file = file
  BY DEF HasSlot
<1>2. i \in DOMAIN later /\ later[i] = slots[i]
  BY DEF Extends
<1>3. QED
  BY <1>1, <1>2 DEF HasSlot

LEMMA SlotAppended ==
  ASSUME NEW F, NEW slots, SlotsOK(slots, F), NEW file \in F, NEW kind \in Kinds,
         ~HasSlot(slots, file),
         NEW more, more = Append(slots, [file |-> file, kind |-> kind])
  PROVE  /\ SlotsOK(more, F) /\ Extends(more, slots)
         /\ HasEntry(more, file, kind)
<1>. PICK new \in [file : F, kind : Kinds] : new = [file |-> file, kind |-> kind]
  OBVIOUS
<1>. PICK n \in Nat : n = Len(slots)
  BY DEF SlotsOK
<1>. PICK R : R = [file : F, kind : Kinds]
  OBVIOUS
<1>0. slots \in Seq(R) /\ new \in R /\ more = Append(slots, new)
  BY DEF SlotsOK
<1>1. /\ slots \in Seq([file : F, kind : Kinds]) /\ DOMAIN slots = 1 .. n
      /\ \A i \in 1 .. n : slots[i] \in [file : F, kind : Kinds]
  <2>1. DOMAIN slots = 1 .. n /\ \A i \in 1 .. n : slots[i] \in R
    BY ONLY <1>0, n = Len(slots)
  <2>2. QED
    BY <1>0, <2>1
<1>2. /\ more \in Seq([file : F, kind : Kinds]) /\ DOMAIN more = 1 .. n + 1
      /\ more[n + 1] = new /\ \A i \in 1 .. n : more[i] = slots[i]
  <2>1. /\ more \in Seq(R) /\ DOMAIN more = 1 .. n + 1
        /\ more[n + 1] = new /\ \A i \in 1 .. n : more[i] = slots[i]
    BY ONLY <1>0, n \in Nat, n = Len(slots)
  <2>2. QED
    BY <2>1
<1>3. \A i \in 1 .. n + 1 : i \in 1 .. n \/ i = n + 1
  OBVIOUS
<1>4. \A i \in 1 .. n : more[i].file # more[n + 1].file
  BY <1>1, <1>2 DEF HasSlot
<1>5. \A i, j \in DOMAIN more : more[i].file = more[j].file => i = j
  BY <1>1, <1>2, <1>3, <1>4 DEF SlotsOK
<1>6. Extends(more, slots)
  BY <1>1, <1>2, <1>3 DEF Extends
<1>7. n + 1 \in DOMAIN more /\ more[n + 1] = [file |-> file, kind |-> kind]
  BY <1>2
<1>8. QED
  BY <1>2, <1>5, <1>6, <1>7 DEF SlotsOK, HasEntry

LEMMA FileAppended ==
  ASSUME NEW F, NEW slots, NEW kind, NEW files \in Seq(F), Serves(slots, files, kind),
         NEW file \in F, \A n \in DOMAIN files : files[n] # file,
         HasEntry(slots, file, kind),
         NEW more, more = Append(files, file)
  PROVE  /\ more \in Seq(F) /\ Serves(slots, more, kind)
         /\ Adds(more, files, file)
<1>. PICK n \in Nat : n = Len(files)
  OBVIOUS
<1>1. /\ DOMAIN files = 1 .. n /\ more \in Seq(F) /\ DOMAIN more = 1 .. n + 1
      /\ more[n + 1] = file /\ \A i \in 1 .. n : more[i] = files[i]
      /\ \A i \in 1 .. n + 1 : i \in 1 .. n \/ i = n + 1
  OBVIOUS
<1>2. ASSUME NEW i \in 1 .. n + 1
      PROVE  \E s \in DOMAIN slots : slots[s] = [file |-> more[i], kind |-> kind]
  BY <1>1 DEF Serves, HasEntry
<1>3. ASSUME NEW i \in 1 .. n + 1, NEW j \in 1 .. n + 1, more[i] = more[j] PROVE i = j
  BY <1>1, <1>3 DEF Serves
<1>4. QED
  BY <1>1, <1>2, <1>3 DEF Serves, Adds

LEMMA FilePlaced ==
  ASSUME NEW F, NEW kind \in Kinds, NEW file \in F,
         NEW r, Answer(r), SlotsOK(r.slots, F), r.files \in Seq(F), Serves(r.slots, r.files, kind),
         \A n \in DOMAIN r.files : r.files[n] # file,
         NEW q, q = PlaceFile(r, file, kind)
  PROVE  /\ Answer(q) /\ SlotsOK(q.slots, F) /\ Extends(q.slots, r.slots)
         /\ q.files \in Seq(F) /\ Serves(q.slots, q.files, kind) /\ HasSlot(q.slots, file)
         /\ Adds(q.files, r.files, file)
<1>. PICK slots, files, failures : /\ r = [slots |-> slots, files |-> files, failures |-> failures]
                                   /\ slots = r.slots /\ files = r.files
  BY DEF Answer
<1>. PICK longer : longer = Append(slots, [file |-> file, kind |-> kind])
  OBVIOUS
<1>. PICK listed : listed = Append(files, file)
  OBVIOUS
<1>1. SlotOf(slots, file) = {} <=> ~HasSlot(slots, file)
  BY ONLY DEF SlotOf, HasSlot
<1>2. /\ SlotsOK(slots, F) /\ files \in Seq(F) /\ Serves(slots, files, kind)
      /\ \A n \in DOMAIN files : files[n] # file
  OBVIOUS
<1>3. Extends(slots, slots)
  BY DEF Extends
<1>4. SUFFICES \E a, b, c :
                 /\ q = [slots |-> a, files |-> b, failures |-> c]
                 /\ SlotsOK(a, F) /\ Extends(a, slots)
                 /\ b \in Seq(F) /\ Serves(a, b, kind) /\ HasSlot(a, file)
                 /\ Adds(b, files, file)
  <2>1. ASSUME NEW a, NEW b, NEW c, q = [slots |-> a, files |-> b, failures |-> c]
        PROVE  Answer(q) /\ q.slots = a /\ q.files = b
    BY <2>1 DEF Answer
  <2>2. QED
    BY <1>4, <2>1
<1>5. CASE ~HasSlot(slots, file)
  <2>1. q = [slots |-> longer, files |-> listed, failures |-> failures]
    BY <1>1, <1>5 DEF PlaceFile
  <2>2. /\ SlotsOK(longer, F) /\ Extends(longer, slots)
        /\ HasEntry(longer, file, kind)
    BY ONLY <1>2, <1>5, SlotAppended, file \in F, kind \in Kinds,
            longer = Append(slots, [file |-> file, kind |-> kind])
  <2>3. Serves(longer, files, kind)
    BY ONLY <1>2, <2>2, ExtendedServes
  <2>4. /\ listed \in Seq(F) /\ Serves(longer, listed, kind)
        /\ Adds(listed, files, file)
    BY ONLY <1>2, <2>2, <2>3, FileAppended, file \in F, listed = Append(files, file)
  <2>5. HasSlot(longer, file)
    <3>1. PICK i \in DOMAIN longer : longer[i] = [file |-> file, kind |-> kind]
      BY ONLY <2>2 DEF HasEntry
    <3>2. longer[i].file = file
      BY ONLY <3>1
    <3>3. QED
      BY ONLY <3>1, <3>2 DEF HasSlot
  <2>6. QED
    BY ONLY <2>1, <2>2, <2>4, <2>5
<1>6. CASE HasSlot(slots, file) /\ \E i \in SlotOf(slots, file) : slots[i].kind # kind
  <2>1. PICK more : q = [slots |-> slots, files |-> files, failures |-> more]
    BY <1>1, <1>6 DEF PlaceFile
  <2>2. Adds(files, files, file)
    BY DEF Adds
  <2>3. QED
    BY ONLY <1>2, <1>3, <1>6, <2>1, <2>2
<1>7. CASE HasSlot(slots, file) /\ ~\E i \in SlotOf(slots, file) : slots[i].kind # kind
  <2>1. q = [slots |-> slots, files |-> listed, failures |-> failures]
    BY <1>1, <1>7 DEF PlaceFile
  <2>2. HasEntry(slots, file, kind)
    <3>1. PICK i \in DOMAIN slots : slots[i].file = file /\ slots[i].kind = kind
      BY <1>7 DEF HasSlot, SlotOf
    <3>. PICK R : R = [file : F, kind : Kinds]
      OBVIOUS
    <3>2. slots[i] \in R
      <4>1. slots \in Seq(R)
        BY <1>2 DEF SlotsOK
      <4>2. QED
        BY ONLY <4>1, i \in DOMAIN slots
    <3>3. slots[i] = [file |-> slots[i].file, kind |-> slots[i].kind]
      BY ONLY <3>2, R = [file : F, kind : Kinds]
    <3>4. QED
      BY <3>1, <3>3 DEF HasEntry
  <2>3. /\ listed \in Seq(F) /\ Serves(slots, listed, kind)
        /\ Adds(listed, files, file)
    BY ONLY <1>2, <2>2, FileAppended, file \in F, listed = Append(files, file)
  <2>4. QED
    BY ONLY <1>2, <1>3, <1>7, <2>1, <2>3
<1>8. QED
  BY <1>5, <1>6, <1>7

-----------------------------------------------------------------------------
(* The whole loop. *)

Turns(after, list, kind, first, n) ==
  after = [k \in 0 .. n |-> IF k = 0 THEN first ELSE PlaceFile(after[k - 1], list[k], kind)]

LEMMA TurnsAt ==
  ASSUME NEW n \in Nat, NEW list, NEW kind, NEW first, NEW after, Turns(after, list, kind, first, n),
         NEW k \in 0 .. n
  PROVE  after[k] = IF k = 0 THEN first ELSE PlaceFile(after[k - 1], list[k], kind)
<1>1. after = [i \in 0 .. n |-> IF i = 0 THEN first ELSE PlaceFile(after[i - 1], list[i], kind)]
  BY DEF Turns
<1>. PICK f : f = [i \in 0 .. n |-> IF i = 0 THEN first ELSE PlaceFile(after[i - 1], list[i], kind)]
  OBVIOUS
<1>2. f[k] = IF k = 0 THEN first ELSE PlaceFile(after[k - 1], list[k], kind)
  OBVIOUS
<1>3. QED
  BY <1>1, <1>2

LEMMA OneMoreTurn ==
  ASSUME NEW k \in Nat, NEW list, NEW kind, NEW first, NEW before, Turns(before, list, kind, first, k)
  PROVE  \E after : Turns(after, list, kind, first, k + 1)
<1>. PICK more \in Nat : more = k + 1
  OBVIOUS
<1>. PICK after : after = [i \in 0 .. more |-> IF i = more THEN PlaceFile(before[k], list[i], kind)
                                               ELSE before[i]]
  OBVIOUS
<1>1. after = [i \in 0 .. more |-> after[i]]
  OBVIOUS
<1>2. after[more] = PlaceFile(before[k], list[more], kind) /\ \A i \in 0 .. k : after[i] = before[i]
  <2>1. more \in 0 .. more /\ \A i \in 0 .. k : i \in 0 .. more /\ i # more
    OBVIOUS
  <2>2. QED
    BY <2>1
<1>3. ASSUME NEW i \in 0 .. more
      PROVE  after[i] = IF i = 0 THEN first ELSE PlaceFile(after[i - 1], list[i], kind)
  <2>1. CASE i = more
    <3>1. i # 0 /\ i - 1 = k /\ k \in 0 .. k
      BY <2>1
    <3>2. QED
      BY <1>2, <2>1, <3>1
  <2>2. CASE i # more
    <3>1. i \in 0 .. k /\ (i # 0 => i - 1 \in 0 .. k)
      BY <2>2
    <3>2. before[i] = IF i = 0 THEN first ELSE PlaceFile(before[i - 1], list[i], kind)
      BY <3>1, TurnsAt
    <3>3. after[i] = before[i] /\ (i # 0 => after[i - 1] = before[i - 1])
      BY <1>2, <3>1
    <3>4. QED
      BY <3>2, <3>3
  <2>3. QED
    BY <2>1, <2>2
<1>4. Turns(after, list, kind, first, more)
  BY <1>1, <1>3 DEF Turns
<1>5. QED
  BY <1>4

LEMMA TurnsExist ==
  ASSUME NEW n \in Nat, NEW list, NEW kind, NEW first
  PROVE  \E after : Turns(after, list, kind, first, n)
<1>. DEFINE with == {k \in Nat : \E after : Turns(after, list, kind, first, k)}
<1>1. 0 \in with
  <2>. PICK after : after = [i \in 0 .. 0 |-> first]
    OBVIOUS
  <2>1. after = [k \in 0 .. 0 |-> IF k = 0 THEN first ELSE PlaceFile(after[k - 1], list[k], kind)]
    OBVIOUS
  <2>2. Turns(after, list, kind, first, 0)
    BY <2>1 DEF Turns
  <2>3. QED
    BY <2>2
<1>2. \A k \in 0 .. n : k \in with /\ k < n => k + 1 \in with
  BY OneMoreTurn
<1>. HIDE DEF with
<1>3. n \in with
  BY <1>1, <1>2, Onward
<1>4. QED
  BY <1>3 DEF with

(* After n turns: what the first n files have got. *)
Progress(r, n, slots, list, F, kind) ==
  /\ Answer(r) /\ SlotsOK(r.slots, F) /\ Extends(r.slots, slots)
  /\ r.files \in Seq(F) /\ Serves(r.slots, r.files, kind)
  /\ \A m \in 1 .. n : HasSlot(r.slots, list[m])
  /\ \A i \in DOMAIN r.files : \E m \in 1 .. n : r.files[i] = list[m]

LEMMA OneTurn ==
  ASSUME NEW F, NEW kind \in Kinds, NEW slots, NEW list, NEW n \in Nat, NEW r,
         Progress(r, n, slots, list, F, kind), list[n + 1] \in F,
         \A m \in 1 .. n : list[m] # list[n + 1]
  PROVE  Progress(PlaceFile(r, list[n + 1], kind), n + 1, slots, list, F, kind)
<1>. PICK file \in F : file = list[n + 1]
  OBVIOUS
<1>. PICK q : q = PlaceFile(r, file, kind)
  OBVIOUS
<1>1. /\ Answer(r) /\ SlotsOK(r.slots, F) /\ Extends(r.slots, slots)
      /\ r.files \in Seq(F) /\ Serves(r.slots, r.files, kind)
      /\ \A m \in 1 .. n : HasSlot(r.slots, list[m])
      /\ \A i \in DOMAIN r.files : \E m \in 1 .. n : r.files[i] = list[m]
  BY DEF Progress
<1>2. \A i \in DOMAIN r.files : r.files[i] # file
  BY <1>1
<1>3. /\ Answer(q) /\ SlotsOK(q.slots, F) /\ Extends(q.slots, r.slots)
      /\ q.files \in Seq(F) /\ Serves(q.slots, q.files, kind) /\ HasSlot(q.slots, file)
      /\ Adds(q.files, r.files, file)
  BY ONLY <1>1, <1>2, FilePlaced, kind \in Kinds, file \in F, q = PlaceFile(r, file, kind)
<1>4. Extends(q.slots, slots)
  BY <1>1, <1>3 DEF Extends
<1>5. ASSUME NEW m \in 1 .. n + 1 PROVE HasSlot(q.slots, list[m])
  <2>1. m \in 1 .. n \/ m = n + 1
    OBVIOUS
  <2>2. m \in 1 .. n => HasSlot(r.slots, list[m])
    BY <1>1
  <2>3. m \in 1 .. n => HasSlot(q.slots, list[m])
    BY <1>3, <2>2, ExtendedHasSlot
  <2>4. QED
    BY <1>3, <2>1, <2>3
<1>6. ASSUME NEW i \in DOMAIN q.files PROVE \E m \in 1 .. n + 1 : q.files[i] = list[m]
  <2>1. q.files[i] = file \/ \E k \in DOMAIN r.files : r.files[k] = q.files[i]
    BY <1>3 DEF Adds
  <2>2. n + 1 \in 1 .. n + 1 /\ \A m \in 1 .. n : m \in 1 .. n + 1
    OBVIOUS
  <2>3. QED
    BY <1>1, <2>1, <2>2
<1>7. Progress(q, n + 1, slots, list, F, kind)
  BY ONLY <1>3, <1>4, <1>5, <1>6 DEF Progress
<1>8. QED
  BY <1>7

LEMMA AllTurns ==
  ASSUME NEW F, NEW kind \in Kinds, NEW slots, SlotsOK(slots, F), NEW failures,
         NEW list \in Seq(F), Distinct(list),
         NEW after,
         Turns(after, list, kind, [slots |-> slots, files |-> << >>, failures |-> failures], Len(list))
  PROVE  Progress(after[Len(list)], Len(list), slots, list, F, kind)
<1>. PICK n \in Nat : n = Len(list)
  OBVIOUS
<1>. PICK first : first = [slots |-> slots, files |-> << >>, failures |-> failures]
  OBVIOUS
<1>. DEFINE with == {k \in 0 .. n : Progress(after[k], k, slots, list, F, kind)}
<1>1. DOMAIN list = 1 .. n /\ \A i \in 1 .. n : list[i] \in F
  OBVIOUS
<1>2. Progress(first, 0, slots, list, F, kind)
  <2>1. first.slots = slots /\ first.files = << >> /\ Answer(first)
    BY DEF Answer
  <2>2. Extends(slots, slots) /\ Serves(slots, << >>, kind) /\ << >> \in Seq(F)
    BY DEF Extends, Serves
  <2>3. QED
    BY <2>1, <2>2 DEF Progress
<1>0. Turns(after, list, kind, first, n)
  OBVIOUS
<1>3. after[0] = first
  BY <1>0, TurnsAt
<1>4. ASSUME NEW k \in 0 .. n, k \in with, k < n PROVE k + 1 \in with
  <2>1. k + 1 \in 0 .. n /\ k + 1 # 0 /\ k + 1 - 1 = k /\ k + 1 \in 1 .. n /\ \A m \in 1 .. k : m \in 1 .. n /\ m # k + 1
    BY <1>4
  <2>2. after[k + 1] = PlaceFile(after[k], list[k + 1], kind)
    <3>. PICK next \in 0 .. n : next = k + 1 /\ next # 0 /\ next - 1 = k
      BY <2>1
    <3>1. after[next] = PlaceFile(after[next - 1], list[next], kind)
      BY ONLY <1>0, TurnsAt, n \in Nat, next \in 0 .. n, next # 0
    <3>2. QED
      BY ONLY <3>1, next = k + 1, next - 1 = k
  <2>3. list[k + 1] \in F /\ \A m \in 1 .. k : list[m] # list[k + 1]
    BY <1>1, <2>1 DEF Distinct
  <2>4. Progress(after[k], k, slots, list, F, kind)
    BY <1>4
  <2>5. Progress(PlaceFile(after[k], list[k + 1], kind), k + 1, slots, list, F, kind)
    BY ONLY <2>3, <2>4, OneTurn, k \in 0 .. n, n \in Nat, kind \in Kinds
  <2>6. QED
    BY <2>1, <2>2, <2>5
<1>5. 0 \in with /\ \A k \in 0 .. n : k \in with /\ k < n => k + 1 \in with
  BY <1>2, <1>3, <1>4
<1>. HIDE DEF with
<1>6. n \in with
  <2>1. \A k \in 0 .. n : k \in with
    BY ONLY <1>5, Onward, n \in Nat
  <2>2. QED
    BY <2>1
<1>7. QED
  BY <1>6 DEF with

LEMMA DiscoverPlaces ==
  ASSUME NEW F, NEW kind \in Kinds, NEW slots, SlotsOK(slots, F), NEW path, NEW sight,
         NEW list \in Seq(F), list = collectPluginFiles(path, sight).files,
         Distinct(list)
  PROVE  Progress(discover(slots, path, sight, kind), Len(list), slots, list, F, kind)
<1>. PICK n \in Nat : n = Len(list)
  OBVIOUS
<1>. PICK failures : failures = collectPluginFiles(path, sight).failures
  OBVIOUS
<1>. PICK first : first = [slots |-> slots, files |-> << >>, failures |-> failures]
  OBVIOUS
<1>. DEFINE after == CHOOSE after : after = [k \in 0 .. n |->
                       IF k = 0 THEN first ELSE PlaceFile(after[k - 1], list[k], kind)]
<1>1. \E x : x = [k \in 0 .. n |-> IF k = 0 THEN first ELSE PlaceFile(x[k - 1], list[k], kind)]
  <2>1. PICK x : Turns(x, list, kind, first, n)
    BY TurnsExist
  <2>2. x = [k \in 0 .. n |-> IF k = 0 THEN first ELSE PlaceFile(x[k - 1], list[k], kind)]
    BY <2>1 DEF Turns
  <2>3. QED
    BY <2>2
<1>2. after = [k \in 0 .. n |-> IF k = 0 THEN first ELSE PlaceFile(after[k - 1], list[k], kind)]
  BY <1>1
<1>3. discover(slots, path, sight, kind) = after[n]
  BY DEF discover
<1>. HIDE DEF after
<1>4. Turns(after, list, kind, first, n)
  BY <1>2 DEF Turns
<1>5. Progress(after[n], n, slots, list, F, kind)
  BY <1>4, AllTurns
<1>6. QED
  BY <1>3, <1>5

-----------------------------------------------------------------------------
(* discover on a path: the names it saw, and the files behind them.         *)

SeenIn(path, sight) ==
  IF sight.is = "file" THEN {path}
  ELSE IF sight.is = "directory" /\ sight.opens THEN enumerateSharedObjects(sight) ELSE {}

FilesOf(names) == {Canonical[name] : name \in names}

LEMMA FilesOfSharedObjects ==
  ASSUME NEW names, names \subseteq SharedObjects
  PROVE  FilesOf(names) \subseteq Nat /\ IsFiniteSet(FilesOf(names))
<1>1. IsFiniteSet(names)
  BY NamesAssumption, FS_Subset
<1>. PICK f : f = [name \in names |-> Canonical[name]]
  OBVIOUS
<1>2. f \in Surjection(names, FilesOf(names))
  BY DEF FilesOf, Surjection
<1>3. QED
  BY <1>1, <1>2, NamesAssumption, FS_Surjection DEF FilesOf

LEMMA CollectedOnce ==
  ASSUME NEW path, NEW sight, NEW list, list = collectPluginFiles(path, sight).files
  PROVE  /\ list \in Seq(FilesOf(SeenIn(path, sight)))
         /\ Distinct(list)
         /\ \A name \in SeenIn(path, sight) : \E i \in DOMAIN list : list[i] = Canonical[name]
<1>1. CASE sight.is = "file"
  <2>1. list = <<Canonical[path]>>
    BY <1>1 DEF collectPluginFiles
  <2>2. SeenIn(path, sight) = {path} /\ FilesOf(SeenIn(path, sight)) = {Canonical[path]}
    BY <1>1 DEF SeenIn, FilesOf
  <2>3. QED
    BY <2>1, <2>2 DEF Distinct
<1>2. CASE sight.is = "directory" /\ sight.opens
  <2>. PICK names : names = enumerateSharedObjects(sight)
    OBVIOUS
  <2>1. SeenIn(path, sight) = names /\ names \subseteq SharedObjects
    BY <1>2 DEF SeenIn, enumerateSharedObjects
  <2>2. list = InOrder(FilesOf(names))
    BY <1>2 DEF collectPluginFiles, FilesOf
  <2>3. FilesOf(names) \subseteq Nat /\ IsFiniteSet(FilesOf(names))
    BY <2>1, FilesOfSharedObjects
  <2>4. /\ list \in Seq(FilesOf(names))
        /\ Distinct(list)
        /\ \A x \in FilesOf(names) : \E i \in DOMAIN list : list[i] = x
    BY <2>2, <2>3, InOrderLists
  <2>5. \A name \in names : Canonical[name] \in FilesOf(names)
    BY DEF FilesOf
  <2>6. QED
    BY <2>1, <2>4, <2>5
<1>3. CASE sight.is # "file" /\ ~(sight.is = "directory" /\ sight.opens)
  <2>1. list = << >> /\ SeenIn(path, sight) = {}
    BY <1>3 DEF collectPluginFiles, SeenIn
  <2>2. << >> \in Seq(FilesOf(SeenIn(path, sight))) /\ DOMAIN << >> = {}
    OBVIOUS
  <2>3. QED
    BY <2>1, <2>2 DEF Distinct
<1>4. QED
  BY <1>1, <1>2, <1>3

(* What discovery keeps: the slots are those of the files that were seen,   *)
(* and each role's list is served by them.                                  *)
SlotsInv ==
  /\ found.files \in [Kinds -> Seq(FilesOf(found.seen))]
  /\ SlotsOK(found.slots, FilesOf(found.seen))
  /\ \A name \in found.seen : HasSlot(found.slots, Canonical[name])
  /\ \A kind \in Kinds : Serves(found.slots, found.files[kind], kind)

LEMMA MoreFiles ==
  ASSUME NEW F, NEW G, F \subseteq G
  PROVE  /\ \A files \in Seq(F) : files \in Seq(G)
         /\ \A slots : SlotsOK(slots, F) => SlotsOK(slots, G)
<1>1. \A files \in Seq(F) : files \in Seq(G)
  OBVIOUS
<1>2. ASSUME NEW slots, SlotsOK(slots, F) PROVE SlotsOK(slots, G)
  <2>. PICK R, S : R = [file : F, kind : Kinds] /\ S = [file : G, kind : Kinds]
    OBVIOUS
  <2>1. R \subseteq S
    OBVIOUS
  <2>2. slots \in Seq(R)
    BY <1>2 DEF SlotsOK
  <2>3. slots \in Seq(S)
    BY ONLY <2>1, <2>2
  <2>4. QED
    BY <1>2, <2>3 DEF SlotsOK
<1>3. QED
  BY <1>1, <1>2

LEMMA DiscoverSlots ==
  ASSUME SlotsInv, NEW kind \in Kinds, Discover(kind)
  PROVE  SlotsInv'
<1>1. CASE UNCHANGED found
  BY <1>1 DEF SlotsInv
<1>2. CASE ~UNCHANGED found
  <2>1. PICK path, sight, now, list :
          /\ list = collectPluginFiles(path, sight).files
          /\ now = discover(found.slots, path, sight, kind)
          /\ found'.slots = now.slots
          /\ found'.files = [found.files EXCEPT ![kind] = now.files]
          /\ found'.seen = found.seen \cup SeenIn(path, sight)
    <3>1. PICK sights \in Sights :
            /\ ~Breaks(sights[SourceOf(kind)])
            /\ found' = [slots |-> discover(found.slots, SourceOf(kind), sights[SourceOf(kind)], kind).slots,
                         files |-> [found.files EXCEPT ![kind] =
                                      discover(found.slots, SourceOf(kind), sights[SourceOf(kind)], kind).files],
                         failures |-> found.failures \cup
                                      discover(found.slots, SourceOf(kind), sights[SourceOf(kind)], kind).failures,
                         seen |-> found.seen \cup SeenIn(SourceOf(kind), sights[SourceOf(kind)])]
      BY <1>2 DEF Discover, SeenIn
    <3>. PICK path, sight : path = SourceOf(kind) /\ sight = sights[SourceOf(kind)]
      OBVIOUS
    <3>. PICK now, list : /\ now = discover(found.slots, path, sight, kind)
                          /\ list = collectPluginFiles(path, sight).files
      OBVIOUS
    <3>2. found' = [slots |-> now.slots, files |-> [found.files EXCEPT ![kind] = now.files],
                    failures |-> found.failures \cup now.failures,
                    seen |-> found.seen \cup SeenIn(path, sight)]
      BY <3>1
    <3>3. QED
      BY <3>2
  <2>. PICK seen, slots, files : seen = found.seen /\ slots = found.slots /\ files = found.files
    OBVIOUS
  <2>. PICK F, G : F = FilesOf(seen) /\ G = FilesOf(seen \cup SeenIn(path, sight))
    OBVIOUS
  <2>2. F \subseteq G /\ FilesOf(SeenIn(path, sight)) \subseteq G
    BY DEF FilesOf
  <2>3. /\ list \in Seq(G)
        /\ Distinct(list)
        /\ \A name \in SeenIn(path, sight) : \E i \in DOMAIN list : list[i] = Canonical[name]
    <3>. PICK H : H = FilesOf(SeenIn(path, sight))
      OBVIOUS
    <3>1. list = collectPluginFiles(path, sight).files
      BY <2>1
    <3>2. list \in Seq(H)
      BY <3>1, CollectedOnce
    <3>3. Distinct(list)
      BY <3>1, CollectedOnce
    <3>4. \A name \in SeenIn(path, sight) : \E i \in DOMAIN list : list[i] = Canonical[name]
      BY <3>1, CollectedOnce
    <3>5. list \in Seq(G)
      BY <2>2, <3>2, MoreFiles
    <3>6. QED
      BY <3>3, <3>4, <3>5
  <2>4. /\ files \in [Kinds -> Seq(F)] /\ SlotsOK(slots, F)
        /\ \A name \in seen : HasSlot(slots, Canonical[name])
        /\ \A k \in Kinds : Serves(slots, files[k], k)
    BY DEF SlotsInv
  <2>5. SlotsOK(slots, G)
    BY <2>2, <2>4, MoreFiles
  <2>6. Progress(now, Len(list), slots, list, G, kind)
    BY <2>1, <2>3, <2>5, DiscoverPlaces
  <2>7. /\ SlotsOK(now.slots, G) /\ Extends(now.slots, slots)
        /\ now.files \in Seq(G) /\ Serves(now.slots, now.files, kind)
        /\ \A m \in 1 .. Len(list) : HasSlot(now.slots, list[m])
    BY <2>6 DEF Progress
  <2>8. ASSUME NEW name \in seen \cup SeenIn(path, sight)
        PROVE  HasSlot(now.slots, Canonical[name])
    <3>1. CASE name \in seen
      BY <2>4, <2>7, <3>1, ExtendedHasSlot
    <3>2. CASE name \in SeenIn(path, sight)
      <4>1. PICK i \in DOMAIN list : list[i] = Canonical[name]
        BY <2>3, <3>2
      <4>2. i \in 1 .. Len(list)
        BY ONLY <2>3, i \in DOMAIN list
      <4>3. QED
        BY <2>7, <4>1, <4>2
    <3>3. QED
      BY <3>1, <3>2
  <2>9. PICK listed : listed = [files EXCEPT ![kind] = now.files]
    OBVIOUS
  <2>10. listed \in [Kinds -> Seq(G)] /\ listed[kind] = now.files
         /\ \A k \in Kinds : k # kind => listed[k] = files[k]
    <3>1. \A k \in Kinds : files[k] \in Seq(G)
      BY <2>2, <2>4, MoreFiles
    <3>2. QED
      BY ONLY <2>4, <2>7, <2>9, <3>1, kind \in Kinds
  <2>11. ASSUME NEW k \in Kinds PROVE Serves(now.slots, listed[k], k)
    BY <2>4, <2>7, <2>10, ExtendedServes
  <2>12. found'.slots = now.slots /\ found'.files = listed
         /\ found'.seen = seen \cup SeenIn(path, sight)
    BY <2>1, <2>9
  <2>13. FilesOf(found.seen)' = G
    BY <2>12 DEF FilesOf
  <2>14. QED
    BY <2>7, <2>8, <2>10, <2>11, <2>12, <2>13 DEF SlotsInv
<1>3. QED
  BY <1>1, <1>2

(* However a file is named, found and asked for, it has one slot, so it is  *)
(* opened once; every .so file that was seen has one; and no role has a     *)
(* file twice, or one of the other kind, for every command line and every   *)
(* sight of the file system (PluginRegistry::discover).                     *)
THEOREM EveryPluginFileHasOneSlotHolds == Spec => []EveryPluginFileHasOneSlot
<1>1. Init => SlotsInv
  <2>1. SUFFICES ASSUME Init PROVE SlotsInv
    OBVIOUS
  <2>2. /\ found.slots = << >> /\ found.seen = {}
        /\ found.files = [k \in Kinds |-> << >>]
    BY <2>1 DEF Init, NothingFound
  <2>3. /\ << >> \in Seq(FilesOf({})) /\ << >> \in Seq([file : FilesOf({}), kind : Kinds])
        /\ DOMAIN << >> = {}
    OBVIOUS
  <2>4. SlotsOK(<< >>, FilesOf({}))
    BY <2>3 DEF SlotsOK
  <2>5. \A kind \in Kinds : Serves(<< >>, << >>, kind)
    BY <2>3 DEF Serves
  <2>6. QED
    BY <2>2, <2>3, <2>4, <2>5 DEF SlotsInv
<1>2. SlotsInv /\ [Next]_vars => SlotsInv'
  <2>1. SUFFICES ASSUME SlotsInv, [Next]_vars PROVE SlotsInv'
    OBVIOUS
  <2>2. CASE DiscoverAlgorithms
    BY <2>1, <2>2, DiscoverSlots DEF DiscoverAlgorithms, Kinds
  <2>3. CASE DiscoverMissionControls
    BY <2>1, <2>3, DiscoverSlots DEF DiscoverMissionControls, Kinds
  <2>4. CASE ~DiscoverAlgorithms /\ ~DiscoverMissionControls
    <3>1. UNCHANGED found
      BY <2>1, <2>4 DEF Next, Start, ReadArgument, Parse, Validate, MakeDirectory, Load, Execute,
                        OtherSimulator, Stopped, vars
    <3>2. QED
      BY <2>1, <3>1 DEF SlotsInv
  <2>5. QED
    BY <2>2, <2>3, <2>4
<1>3. SlotsInv => EveryPluginFileHasOneSlot
  <2>1. SUFFICES ASSUME SlotsInv PROVE EveryPluginFileHasOneSlot
    OBVIOUS
  <2>2. \A i, j \in DOMAIN found.slots : found.slots[i].file = found.slots[j].file => i = j
    BY <2>1 DEF SlotsInv, SlotsOK
  <2>3. \A name \in found.seen : \E i \in DOMAIN found.slots : found.slots[i].file = Canonical[name]
    BY <2>1 DEF SlotsInv, HasSlot
  <2>4. ASSUME NEW kind \in Kinds, NEW m \in DOMAIN found.files[kind], NEW n \in DOMAIN found.files[kind]
        PROVE  /\ \E i \in DOMAIN found.slots :
                    found.slots[i] = [file |-> found.files[kind][n], kind |-> kind]
               /\ found.files[kind][m] = found.files[kind][n] => m = n
    BY <2>1 DEF SlotsInv, Serves
  <2>5. QED
    BY <2>2, <2>3, <2>4 DEF EveryPluginFileHasOneSlot
<1>4. QED
  BY <1>1, <1>2, <1>3, PTL DEF Spec

=============================================================================
