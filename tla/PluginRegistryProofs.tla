------------------------ MODULE PluginRegistryProofs ------------------------
(***************************************************************************)
(* For every set of plugins and of runs, whatever fails: the registry's    *)
(* type correctness, its inductive invariant, the safety properties that   *)
(* follow from it, and that each of its steps is one of PluginLifecycle's. *)
(***************************************************************************)
EXTENDS PluginRegistry, TLAPS, FiniteSetTheorems, SequenceTheorems

CellStep(c) == Start(c) \/ Ensure(c) \/ Run(c) \/ Release(c)

Locked == LoadLabels \cup UnloadLabels

-----------------------------------------------------------------------------
(* The labels and kinds, and what Plugin says of a cell's slots. *)

LEMMA LabelType ==
  /\ \A l \in {"idle", "check", "checkAgain", "lock", "prepare", "algorithmMade", "running",
              "unwind", "done", "locked", "open", "judge", "reject", "publish", "recordLoad",
              "reportFailure", "answer", "release", "lockUnload", "unload", "close", "retire"} :
       l \in Labels
  /\ "algorithm" \in Kinds /\ "mission control" \in Kinds
  /\ \A k \in Kinds : k = "algorithm" \/ k = "mission control"
BY DEF Labels, LoadLabels, ReleaseLabels, UnloadLabels, Kinds

LEMMA PluginType ==
  ASSUME NEW c \in Cells, NEW k \in Kinds
  PROVE  /\ Plugin[c][k] \in Slots /\ KindOf[Plugin[c][k]] = k
         /\ c \in UsersOf(Plugin[c][k])
         /\ c # None /\ Plugin[c][k] # None
<1>1. Plugin[c][k] \in Slots /\ KindOf[Plugin[c][k]] = k
  BY RegistryAssumption
<1>2. c # None /\ Plugin[c][k] # None
  BY <1>1, RegistryAssumption
<1>3. QED
  BY <1>1, <1>2 DEF UsersOf

LEMMA KindType == \A s \in Slots : KindOf[s] \in Kinds
BY RegistryAssumption

LEMMA UsersFinite ==
  ASSUME NEW s
  PROVE  IsFiniteSet(UsersOf(s)) /\ Cardinality(UsersOf(s)) \in Nat
         /\ UsersOf(s) \subseteq Cells
<1>1. UsersOf(s) \subseteq Cells
  BY DEF UsersOf
<1>2. QED
  BY <1>1, RegistryAssumption, FS_Subset, FS_CardinalityType

LEMMA RegistrationsType ==
  ASSUME NEW kind \in Kinds, NEW count \in Registrations(kind), NEW k \in Kinds
  PROVE  count[k] \in Nat
<1>1. MaxRegistered \in Nat
  BY RegistryAssumption
<1>2. CASE "odd registrations" \in Faults
  <2>1. count \in [Kinds -> 0 .. MaxRegistered]
    BY <1>2 DEF Registrations
  <2>2. QED
    BY <1>1, <2>1
<1>3. CASE "odd registrations" \notin Faults
  <2>1. count = [l \in Kinds |-> IF l = kind THEN 1 ELSE 0]
    BY <1>3 DEF Registrations
  <2>2. QED
    BY <2>1
<1>4. QED
  BY <1>2, <1>3

LEMMA EmptyIffNoIndex ==
  ASSUME NEW S, NEW seq \in Seq(S), \A i \in DOMAIN seq : FALSE
  PROVE  seq = <<>>
<1>1. Len(seq) \in Nat /\ DOMAIN seq = 1 .. Len(seq)
  OBVIOUS
<1>2. 1 \notin 1 .. Len(seq)
  BY <1>1
<1>3. Len(seq) = 0
  BY <1>1, <1>2
<1>4. QED
  BY <1>3

LEMMA EmptySeqType == <<>> \in Seq(Slots) /\ DOMAIN <<>> = {}
                     /\ <<>> \in Seq({"LOAD", "LOAD_FAILED", "UNLOAD"})
OBVIOUS

(* The type invariant in parts, so that a step need only show what it      *)
(* disturbs.                                                               *)
PlaceType ==
  /\ pc \in [Cells -> Labels]
  /\ role \in [Cells -> Kinds]
  /\ failing \in [Cells -> {"none", "unavailable", "exception"}]
  /\ mutex \in Cells \cup {None}
  /\ phase \in {"discovered", "dispatched", "cleared", "swept"}

SlotType ==
  /\ state \in [Slots -> {"NotLoaded", "Loaded", "Failed", "Unloaded"}]
  /\ pending \in [Slots -> Nat]
  /\ attempts \in [Slots -> Nat]
  /\ factory \in [Slots -> Slots \cup {None}]
  /\ mapped \in [Slots -> BOOLEAN]

CountType == opens \in Nat /\ closes \in Nat /\ peak \in Nat

RegistrarType ==
  /\ registrar \in [Kinds -> Seq(Slots)]
  /\ before \in [Cells -> [Kinds -> Nat]]

LogType ==
  /\ loadErrors \in [Slots -> Nat]
  /\ runErrors \in [Cells -> Nat]
  /\ lifecycle \in [Slots -> Seq({"LOAD", "LOAD_FAILED", "UNLOAD"})]

RunType ==
  /\ instance \in [Cells -> [Kinds -> Slots \cup {None}]]
  /\ result \in [Cells -> {"default", "scored", "error"}]

LEMMA TypeParts ==
  TypeOK <=> PlaceType /\ SlotType /\ CountType /\ RegistrarType /\ LogType /\ RunType
BY DEF TypeOK, PlaceType, SlotType, CountType, RegistrarType, LogType, RunType

LEMMA TargetType ==
  ASSUME PlaceType, NEW c \in Cells
  PROVE  /\ Target(c) \in Slots /\ KindOf[Target(c)] = role[c] /\ role[c] \in Kinds
         /\ c \in UsersOf(Target(c)) /\ c # None
<1>1. role[c] \in Kinds
  BY DEF PlaceType
<1>2. QED
  BY <1>1, PluginType DEF Target

-----------------------------------------------------------------------------
(* A step of a cell moves no other cell's thread. *)

LEMMA NextReleaseMoves ==
  ASSUME NEW c \in Cells, PlaceType, NextRelease(c)
  PROVE  /\ role' = [role EXCEPT ![c] = "algorithm"]
         /\ \/ role[c] = "mission control" /\ pc' = [pc EXCEPT ![c] = "release"]
            \/ role[c] = "algorithm" /\ pc' = [pc EXCEPT ![c] = "done"]
BY LabelType DEF NextRelease, PlaceType

LEMMA NextReleaseLeavesOthers ==
  ASSUME PlaceType, NEW c \in Cells, NextRelease(c), NEW d \in Cells, d # c
  PROVE  pc'[d] = pc[d] /\ role'[d] = role[d]
<1>1. PICK l \in {"release", "done"} : /\ role' = [role EXCEPT ![c] = "algorithm"]
                                      /\ pc' = [pc EXCEPT ![c] = l]
  BY NextReleaseMoves
<1>2. QED
  BY <1>1 DEF PlaceType

LEMMA AnswerMoves ==
  ASSUME NEW c \in Cells, PlaceType, Answer(c)
  PROVE  \/ /\ state[Target(c)] = "Loaded"
            /\ role' = [role EXCEPT ![c] = "mission control"]
            /\ UNCHANGED failing
            /\ \/ role[c] = "algorithm" /\ pc' = [pc EXCEPT ![c] = "check"]
               \/ role[c] = "mission control" /\ pc' = [pc EXCEPT ![c] = "prepare"]
         \/ /\ state[Target(c)] # "Loaded"
            /\ UNCHANGED role
            /\ failing' = [failing EXCEPT ![c] = "unavailable"]
            /\ pc' = [pc EXCEPT ![c] = "unwind"]
BY LabelType DEF Answer, Acquired, Unavailable, PlaceType

LEMMA CheckMoves ==
  ASSUME NEW c \in Cells, PlaceType, Check(c)
  PROVE  /\ UNCHANGED <<role, failing, mutex, phase>>
         /\ pc[c] = "check"
         /\ \/ state[Target(c)] = "NotLoaded" /\ pc' = [pc EXCEPT ![c] = "lock"]
            \/ state[Target(c)] # "NotLoaded" /\ pc' = [pc EXCEPT ![c] = "checkAgain"]
<1>1. KindOf[Target(c)] = role[c]
  BY TargetType
<1>2. QED
  BY <1>1 DEF Check, Goto

(* A cell that moves to a known label, whatever becomes of its role, leaves *)
(* every place of the threads well typed.                                   *)
LEMMA PlaceTypeKept ==
  ASSUME PlaceType, NEW c \in Cells, NEW l \in Labels,
         pc' = [pc EXCEPT ![c] = l],
         \/ UNCHANGED role
         \/ \E k \in Kinds : role' = [role EXCEPT ![c] = k],
         UNCHANGED <<failing, mutex, phase>>
  PROVE  PlaceType'
<1>1. pc' \in [Cells -> Labels]
  BY DEF PlaceType
<1>2. role' \in [Cells -> Kinds]
  BY DEF PlaceType
<1>3. QED
  BY <1>1, <1>2 DEF PlaceType

LEMMA PlaceTypeStep ==
  ASSUME PlaceType, NEW c \in Cells, CellStep(c)
  PROVE  PlaceType'
<1>1. CASE Check(c)
  <2>1. PICK l \in {"lock", "checkAgain"} : /\ pc' = [pc EXCEPT ![c] = l]
                                           /\ UNCHANGED <<role, failing, mutex, phase>>
    BY <1>1, CheckMoves
  <2>2. QED
    BY <2>1, LabelType, PlaceTypeKept
<1>2. CASE CheckAgain(c) \/ Unlock(c)
  <2>1. Answer(c) /\ UNCHANGED phase /\ (UNCHANGED mutex \/ mutex' = None)
    BY <1>2 DEF CheckAgain, Unlock
  <2>2. PICK l \in Labels : pc' = [pc EXCEPT ![c] = l]
    BY <2>1, AnswerMoves, LabelType
  <2>3. pc' \in [Cells -> Labels] /\ mutex' \in Cells \cup {None}
    BY <2>1, <2>2 DEF PlaceType
  <2>4. role' \in [Cells -> Kinds]
    BY <2>1, AnswerMoves, LabelType DEF PlaceType
  <2>5. failing' \in [Cells -> {"none", "unavailable", "exception"}]
    BY <2>1, AnswerMoves DEF PlaceType
  <2>6. QED
    BY <2>1, <2>3, <2>4, <2>5 DEF PlaceType
<1>3. CASE LookAgain(c)
  <2>1. PICK l \in {"open", "answer"} : /\ pc' = [pc EXCEPT ![c] = l]
                                       /\ UNCHANGED <<role, failing, mutex, phase>>
    BY <1>3 DEF LookAgain, Goto, runVars
  <2>2. QED
    BY <2>1, LabelType, PlaceTypeKept
<1>4. CASE Claim(c)
  <2>1. pc' = [pc EXCEPT ![c] = "publish"] /\ UNCHANGED <<role, failing, mutex, phase>>
    BY <1>4 DEF Claim, Goto, runVars
  <2>2. QED
    BY <2>1, LabelType, PlaceTypeKept
<1>5. CASE GiveBack(c)
  <2>1. \/ pc' = [pc EXCEPT ![c] = "lockUnload"] /\ UNCHANGED role
        \/ NextRelease(c)
    BY <1>5 DEF GiveBack, Goto
  <2>2. UNCHANGED <<failing, mutex, phase>>
    BY <1>5 DEF GiveBack, runVars
  <2>3. CASE NextRelease(c)
    <3>1. PICK l \in {"release", "done"} : /\ role' = [role EXCEPT ![c] = "algorithm"]
                                          /\ pc' = [pc EXCEPT ![c] = l]
      BY <2>3, NextReleaseMoves
    <3>2. QED
      BY <2>2, <3>1, LabelType, PlaceTypeKept
  <2>4. QED
    BY <2>1, <2>2, <2>3, LabelType, PlaceTypeKept
<1>6. CASE NothingToUnload(c) \/ Retire(c)
  <2>1. NextRelease(c) /\ mutex' = None /\ UNCHANGED <<failing, phase>>
    BY <1>6 DEF NothingToUnload, Retire, runVars
  <2>2. PICK l \in {"release", "done"} : /\ role' = [role EXCEPT ![c] = "algorithm"]
                                        /\ pc' = [pc EXCEPT ![c] = l]
    BY <2>1, NextReleaseMoves
  <2>3. pc' \in [Cells -> Labels] /\ role' \in [Cells -> Kinds]
    BY <2>2, LabelType DEF PlaceType
  <2>4. QED
    BY <2>1, <2>3 DEF PlaceType
<1>7. CASE Start(c)
  <2>1. pc' = [pc EXCEPT ![c] = "check"] /\ UNCHANGED <<role, failing, mutex, phase>>
    BY <1>7 DEF Start, Goto, runVars
  <2>2. QED
    BY <2>1, LabelType, PlaceTypeKept
<1>8. CASE LockToLoad(c) \/ LockToUnload(c)
  BY <1>8, LabelType DEF PlaceType, LockToLoad, LockToUnload, Lock, Goto, runVars
<1>9. CASE OpenLibrary(c)
  <2>1. pc' = [pc EXCEPT ![c] = "judge"] /\ UNCHANGED <<role, failing, mutex, phase>>
    BY <1>9 DEF OpenLibrary, Goto, runVars
  <2>2. QED
    BY <2>1, LabelType, PlaceTypeKept
<1>10. CASE OpenFails(c) \/ DropStrays(c) \/ CloseRejected(c)
  BY <1>10, LabelType DEF PlaceType, OpenFails, DropStrays, CloseRejected, Goto, runVars
<1>11. CASE ReportFailure(c) \/ Publish(c) \/ RecordLoad(c)
  BY <1>11, LabelType DEF PlaceType, ReportFailure, Publish, RecordLoad, Goto, runVars
<1>12. CASE MakeAlgorithm(c) \/ MakeMissionControl(c)
  BY <1>12, LabelType DEF PlaceType, MakeAlgorithm, MakeMissionControl, Goto
<1>13. CASE RunReturns(c) \/ RunThrows(c) \/ DestroyInstance(c)
  BY <1>13, LabelType DEF PlaceType, RunReturns, RunThrows, DestroyInstance, Goto
<1>14. CASE LeaveTry(c) \/ Catch(c)
  <2>1. /\ pc' = [pc EXCEPT ![c] = "release"] /\ role' = [role EXCEPT ![c] = "mission control"]
        /\ UNCHANGED <<failing, mutex, phase>>
    BY <1>14 DEF LeaveTry, Catch, Goto, runVars
  <2>2. QED
    BY <2>1, LabelType, PlaceTypeKept
<1>15. CASE ClearFactory(c) \/ CloseLibrary(c)
  BY <1>15, LabelType DEF PlaceType, ClearFactory, CloseLibrary, Goto, runVars
<1>16. QED
  BY <1>1, <1>2, <1>3, <1>4, <1>5, <1>6, <1>7, <1>8, <1>9, <1>10, <1>11, <1>12, <1>13, <1>14,
     <1>15 DEF CellStep, Ensure, Run, Release

LEMMA OthersStay ==
  ASSUME PlaceType, RegistrarType, RunType, NEW c \in Cells, CellStep(c),
         NEW d \in Cells, d # c
  PROVE  /\ pc'[d] = pc[d] /\ role'[d] = role[d] /\ failing'[d] = failing[d]
         /\ before'[d] = before[d] /\ instance'[d] = instance[d] /\ result'[d] = result[d]
<1> USE DEF PlaceType, RegistrarType, RunType, runVars
<1>1. CASE Check(c)
  BY <1>1, CheckMoves DEF Check
<1>2. CASE CheckAgain(c) \/ Unlock(c)
  <2>1. Answer(c) /\ UNCHANGED <<before, instance, result>>
    BY <1>2 DEF CheckAgain, Unlock
  <2>2. /\ \E l \in Labels : pc' = [pc EXCEPT ![c] = l]
        /\ UNCHANGED role \/ role' = [role EXCEPT ![c] = "mission control"]
        /\ UNCHANGED failing \/ failing' = [failing EXCEPT ![c] = "unavailable"]
    BY <2>1, AnswerMoves, LabelType
  <2>3. QED
    BY <2>1, <2>2
<1>3. CASE LookAgain(c)
  BY <1>3 DEF LookAgain, Goto
<1>4. CASE Claim(c)
  BY <1>4 DEF Claim, Goto
<1>5. CASE GiveBack(c)
  <2>1. UNCHANGED <<failing, before, instance, result>>
    BY <1>5 DEF GiveBack
  <2>2. \/ pc' = [pc EXCEPT ![c] = "lockUnload"] /\ UNCHANGED role
        \/ NextRelease(c)
    BY <1>5 DEF GiveBack, Goto
  <2>3. pc'[d] = pc[d] /\ role'[d] = role[d]
    BY <2>2, NextReleaseLeavesOthers
  <2>4. QED
    BY <2>1, <2>3
<1>6. CASE NothingToUnload(c) \/ Retire(c)
  <2>1. NextRelease(c) /\ UNCHANGED <<failing, before, instance, result>>
    BY <1>6 DEF NothingToUnload, Retire
  <2>2. pc'[d] = pc[d] /\ role'[d] = role[d]
    BY <2>1, NextReleaseLeavesOthers
  <2>3. QED
    BY <2>1, <2>2
<1>7. CASE Start(c)
  BY <1>7 DEF Start, Goto
<1>8. CASE LockToLoad(c) \/ LockToUnload(c)
  BY <1>8 DEF LockToLoad, LockToUnload, Goto
<1>9. CASE OpenLibrary(c)
  BY <1>9 DEF OpenLibrary, Goto
<1>10. CASE OpenFails(c) \/ DropStrays(c) \/ CloseRejected(c)
  BY <1>10 DEF OpenFails, DropStrays, CloseRejected, Goto
<1>11. CASE ReportFailure(c) \/ Publish(c) \/ RecordLoad(c)
  BY <1>11 DEF ReportFailure, Publish, RecordLoad, Goto
<1>12. CASE MakeAlgorithm(c) \/ MakeMissionControl(c)
  BY <1>12 DEF MakeAlgorithm, MakeMissionControl, Goto
<1>13. CASE RunReturns(c) \/ RunThrows(c) \/ DestroyInstance(c)
  BY <1>13 DEF RunReturns, RunThrows, DestroyInstance, Goto
<1>14. CASE LeaveTry(c) \/ Catch(c)
  BY <1>14 DEF LeaveTry, Catch, Goto
<1>15. CASE ClearFactory(c) \/ CloseLibrary(c)
  BY <1>15 DEF ClearFactory, CloseLibrary, Goto
<1>16. QED
  BY <1>1, <1>2, <1>3, <1>4, <1>5, <1>6, <1>7, <1>8, <1>9, <1>10, <1>11, <1>12, <1>13, <1>14,
     <1>15 DEF CellStep, Ensure, Run, Release


LEMMA SlotTypeStep ==
  ASSUME SlotType, RegistrarType, NEW c \in Cells, Target(c) \in Slots, CellStep(c),
         pc[c] = "judge" => \A k \in Kinds : before[c][k] = 0,
         pc[c] = "release" => pending[Target(c)] # 0
  PROVE  SlotType'
<1> USE DEF SlotType, slotVars, loaderVars
<1>1. CASE Check(c) \/ CheckAgain(c) \/ Unlock(c) \/ Start(c) \/ LockToLoad(c) \/ LockToUnload(c)
  BY <1>1 DEF Check, CheckAgain, Unlock, Start, LockToLoad, LockToUnload
<1>2. CASE LookAgain(c)
  <2>1. /\ UNCHANGED <<state, pending, factory, mapped>>
        /\ attempts' = [attempts EXCEPT ![Target(c)] = @ + 1] \/ UNCHANGED attempts
    BY <1>2 DEF LookAgain
  <2>2. QED
    BY <2>1
<1>3. CASE Claim(c)
  <2>1. Target(c) \in Slots /\ state' = state /\ pending' = pending /\ attempts' = attempts
        /\ mapped' = mapped
    BY <1>3 DEF Claim
  <2>. DEFINE queue == registrar[KindOf[Target(c)]]
  <2>2. factory' = [factory EXCEPT ![Target(c)] = queue[Len(queue)]]
    BY <1>3 DEF Claim
  <2>3. queue[Len(queue)] \in Slots
    <3>1. queue \in Seq(Slots)
      BY RegistryAssumption DEF RegistrarType
    <3>2. Len(queue) = 1
      <4>1. KindOf[Target(c)] \in Kinds
        BY RegistryAssumption
      <4>2. Registered(c, KindOf[Target(c)]) = 1
        BY <1>3, <4>1 DEF Claim, Usable
      <4>3. before[c][KindOf[Target(c)]] = 0
        BY <1>3, <4>1 DEF Claim, Goto
      <4>4. QED
        BY <3>1, <4>2, <4>3 DEF Registered
    <3>3. QED
      BY <3>1, <3>2
  <2>. HIDE DEF queue
  <2>4. QED
    BY <2>1, <2>2, <2>3
<1>4. CASE GiveBack(c)
  BY <1>4 DEF GiveBack
<1>5. CASE NothingToUnload(c) \/ Retire(c) \/ ClearFactory(c)
  BY <1>5 DEF NothingToUnload, Retire, ClearFactory
<1>6. CASE OpenLibrary(c)
  BY <1>6 DEF OpenLibrary, CountOpen
<1>7. CASE OpenFails(c) \/ DropStrays(c) \/ Publish(c)
  BY <1>7 DEF OpenFails, DropStrays, Publish
<1>8. CASE CloseRejected(c) \/ CloseLibrary(c)
  BY <1>8 DEF CloseRejected, CloseLibrary, CountClose
<1>9. CASE ReportFailure(c) \/ RecordLoad(c)
  BY <1>9 DEF ReportFailure, RecordLoad
<1>10. CASE Run(c)
  BY <1>10 DEF Run, MakeAlgorithm, MakeMissionControl, RunReturns, RunThrows, DestroyInstance,
               LeaveTry, Catch
<1>11. QED
  BY <1>1, <1>2, <1>3, <1>4, <1>5, <1>6, <1>7, <1>8, <1>9, <1>10 DEF CellStep, Ensure, Release

LEMMA CountTypeStep ==
  ASSUME CountType, NEW c \in Cells, CellStep(c)
  PROVE  CountType'
<1>1. CASE OpenLibrary(c)
  <2>1. CountOpen(Target(c))
    BY <1>1 DEF OpenLibrary
  <2>2. QED
    BY <2>1 DEF CountOpen, CountType
<1>2. CASE CloseRejected(c) \/ CloseLibrary(c)
  <2>1. CountClose(Target(c))
    BY <1>2 DEF CloseRejected, CloseLibrary
  <2>2. (closes' = closes \/ closes' = closes + 1) /\ UNCHANGED <<opens, peak>>
    BY <2>1 DEF CountClose, CountType
  <2>3. QED
    BY <2>2 DEF CountType
<1>3. CASE UNCHANGED loaderVars
  BY <1>3 DEF CountType, loaderVars
<1>4. QED
  BY <1>1, <1>2, <1>3
     DEF CellStep, Ensure, Run, Release, Start, Check, CheckAgain, LockToLoad, LookAgain, OpenFails,
         Claim, DropStrays, ReportFailure, Publish, RecordLoad, Unlock, MakeAlgorithm,
         MakeMissionControl, RunReturns, RunThrows, DestroyInstance, LeaveTry, Catch, GiveBack,
         LockToUnload, NothingToUnload, ClearFactory, Retire

LEMMA RegistrarTypeStep ==
  ASSUME RegistrarType, NEW c \in Cells, Target(c) \in Slots, CellStep(c),
         pc[c] = "judge" => \A k \in Kinds : before[c][k] = 0
  PROVE  RegistrarType'
<1>1. CASE LookAgain(c)
  <2>1. [k \in Kinds |-> Len(registrar[k])] \in [Kinds -> Nat]
    BY DEF RegistrarType
  <2>2. registrar' = registrar
        /\ \/ before' = before
           \/ before' = [before EXCEPT ![c] = [k \in Kinds |-> Len(registrar[k])]]
    BY <1>1 DEF LookAgain
  <2>3. QED
    BY <2>1, <2>2 DEF RegistrarType
<1>2. CASE OpenLibrary(c)
  <2>1. PICK count \in Registrations(KindOf[Target(c)]) :
          registrar' = [k \in Kinds |-> registrar[k] \o [i \in 1 .. count[k] |-> Target(c)]]
    BY <1>2 DEF OpenLibrary
  <2>2. before' = before
    BY <1>2 DEF OpenLibrary
  <2>3. \A k \in Kinds : count[k] \in Nat
    BY <2>1, RegistrationsType, KindType
  <2>4. \A k \in Kinds : [i \in 1 .. count[k] |-> Target(c)] \in Seq(Slots)
    BY <2>3
  <2>5. \A k \in Kinds :
          registrar[k] \o [i \in 1 .. count[k] |-> Target(c)] \in Seq(Slots)
    <3>1. ASSUME NEW k \in Kinds
          PROVE  registrar[k] \o [i \in 1 .. count[k] |-> Target(c)] \in Seq(Slots)
      <4>1. registrar[k] \in Seq(Slots) /\ [i \in 1 .. count[k] |-> Target(c)] \in Seq(Slots)
        BY <2>4 DEF RegistrarType
      <4>2. QED
        BY <4>1
    <3>2. QED
      BY <3>1
  <2>6. QED
    BY <2>1, <2>2, <2>5 DEF RegistrarType
<1>3. CASE Claim(c)
  <2>. DEFINE kind == KindOf[Target(c)]
  <2>1. /\ registrar' = [registrar EXCEPT ![kind] = SubSeq(@, 1, Len(@) - 1)]
        /\ before' = before
    BY <1>3 DEF Claim
  <2>2. kind \in Kinds
    BY RegistryAssumption
  <2>. HIDE DEF kind
  <2>3. registrar[kind] \in Seq(Slots)
    BY <2>2 DEF RegistrarType
  <2>4. SubSeq(registrar[kind], 1, Len(registrar[kind]) - 1) \in Seq(Slots)
    BY <2>3
  <2>5. QED
    BY <2>1, <2>2, <2>4 DEF RegistrarType
<1>4. CASE DropStrays(c)
  <2>1. registrar' = [k \in Kinds |-> SubSeq(registrar[k], 1, before[c][k])] /\ before' = before
    BY <1>4 DEF DropStrays
  <2>2. \A k \in Kinds : before[c][k] = 0
    BY <1>4 DEF DropStrays, Goto
  <2>3. \A k \in Kinds : SubSeq(registrar[k], 1, before[c][k]) \in Seq(Slots)
    BY <2>2 DEF RegistrarType
  <2>4. QED
    BY <2>1, <2>3 DEF RegistrarType
<1>5. CASE UNCHANGED <<registrar, before>>
  BY <1>5 DEF RegistrarType
<1>6. QED
  BY <1>1, <1>2, <1>3, <1>4, <1>5
     DEF CellStep, Ensure, Run, Release, Start, Check, CheckAgain, LockToLoad, OpenFails,
         CloseRejected, ReportFailure, Publish, RecordLoad, Unlock, MakeAlgorithm,
         MakeMissionControl, RunReturns, RunThrows, DestroyInstance, LeaveTry, Catch, GiveBack,
         LockToUnload, NothingToUnload, ClearFactory, CloseLibrary, Retire

LEMMA LogTypeStep ==
  ASSUME LogType, NEW c \in Cells, Target(c) \in Slots, CellStep(c)
  PROVE  LogType'
<1>1. ASSUME NEW event \in {"LOAD", "LOAD_FAILED", "UNLOAD"}, Record(event, Target(c))
      PROVE  lifecycle' \in [Slots -> Seq({"LOAD", "LOAD_FAILED", "UNLOAD"})]
  <2>1. Append(lifecycle[Target(c)], event) \in Seq({"LOAD", "LOAD_FAILED", "UNLOAD"})
    BY DEF LogType
  <2>2. lifecycle' = [lifecycle EXCEPT ![Target(c)] = Append(lifecycle[Target(c)], event)]
    BY <1>1 DEF Record
  <2>3. QED
    BY <2>1, <2>2 DEF LogType
<1>2. CASE ReportFailure(c)
  <2>1. /\ Record("LOAD_FAILED", Target(c)) /\ UNCHANGED runErrors
        /\ loadErrors' = [loadErrors EXCEPT ![Target(c)] = @ + 1]
    BY <1>2 DEF ReportFailure
  <2>2. QED
    BY <1>1, <2>1 DEF LogType
<1>3. CASE RecordLoad(c)
  BY <1>1, <1>3 DEF RecordLoad, LogType
<1>4. CASE Retire(c)
  <2>1. (UNCHANGED lifecycle \/ Record("UNLOAD", Target(c))) /\ UNCHANGED <<loadErrors, runErrors>>
    BY <1>4 DEF Retire
  <2>2. QED
    BY <1>1, <2>1 DEF LogType
<1>5. CASE RunReturns(c) \/ Catch(c)
  <2>1. /\ UNCHANGED <<loadErrors, lifecycle>>
        /\ \E n \in {0, 1} : runErrors' = [runErrors EXCEPT ![c] = @ + n]
    BY <1>5 DEF RunReturns, Catch
  <2>2. QED
    BY <2>1 DEF LogType
<1>6. CASE UNCHANGED logVars
  BY <1>6 DEF LogType, logVars
<1>7. QED
  BY <1>2, <1>3, <1>4, <1>5, <1>6
     DEF CellStep, Ensure, Run, Release, Start, Check, CheckAgain, LockToLoad, LookAgain,
         OpenLibrary, OpenFails, Claim, DropStrays, CloseRejected, Publish, Unlock, MakeAlgorithm,
         MakeMissionControl, RunThrows, DestroyInstance, LeaveTry, GiveBack, LockToUnload,
         NothingToUnload, ClearFactory, CloseLibrary

LEMMA RunTypeStep ==
  ASSUME RunType, SlotType, NEW c \in Cells, CellStep(c)
  PROVE  RunType'
<1>1. ASSUME NEW k \in Kinds, NEW f \in Slots \cup {None},
             instance' = [instance EXCEPT ![c][k] = f], result' = result
      PROVE  RunType'
  <2>1. [instance[c] EXCEPT ![k] = f] \in [Kinds -> Slots \cup {None}]
    BY DEF RunType
  <2>2. instance' = [instance EXCEPT ![c] = [instance[c] EXCEPT ![k] = f]]
    BY <1>1
  <2>3. QED
    BY <1>1, <2>1, <2>2 DEF RunType
<1>2. CASE MakeAlgorithm(c)
  <2>1. factory[Plugin[c]["algorithm"]] \in Slots \cup {None}
    BY LabelType, PluginType DEF SlotType
  <2>2. /\ instance' = [instance EXCEPT ![c]["algorithm"] = factory[Plugin[c]["algorithm"]]]
        /\ result' = result
    BY <1>2 DEF MakeAlgorithm
  <2>3. QED
    BY <1>1, <2>1, <2>2, LabelType
<1>3. CASE MakeMissionControl(c)
  <2>1. factory[Plugin[c]["mission control"]] \in Slots \cup {None}
    BY LabelType, PluginType DEF SlotType
  <2>2. /\ instance' = [instance EXCEPT ![c]["mission control"] = factory[Plugin[c]["mission control"]]]
        /\ result' = result
    BY <1>3 DEF MakeMissionControl
  <2>3. QED
    BY <1>1, <2>1, <2>2, LabelType
<1>4. CASE DestroyInstance(c)
  BY <1>1, <1>4 DEF DestroyInstance
<1>5. CASE RunReturns(c) \/ Catch(c)
  BY <1>5 DEF RunReturns, Catch, RunType
<1>6. CASE UNCHANGED <<instance, result>>
  BY <1>6 DEF RunType
<1>7. QED
  BY <1>2, <1>3, <1>4, <1>5, <1>6
     DEF CellStep, Ensure, Run, Release, Start, Check, CheckAgain, LockToLoad, LookAgain,
         OpenLibrary, OpenFails, Claim, DropStrays, CloseRejected, ReportFailure, Publish,
         RecordLoad, Unlock, RunThrows, LeaveTry, GiveBack, LockToUnload, NothingToUnload,
         ClearFactory, CloseLibrary, Retire, runVars


-----------------------------------------------------------------------------
(* Who holds the mutex, and what the others can be doing. *)

LEMMA MutexMove ==
  ASSUME PlaceType, MutexInv, NEW c \in Cells, CellStep(c)
  PROVE  \/ UNCHANGED mutex /\ (pc[c] \in Locked <=> pc'[c] \in Locked)
         \/ mutex = None /\ mutex' = c /\ pc[c] \notin Locked /\ pc'[c] \in Locked
         \/ mutex = c /\ mutex' = None /\ pc[c] \in Locked /\ pc'[c] \notin Locked
<1> USE DEF PlaceType
<1>1. CASE Check(c)
  BY <1>1, CheckMoves DEF Locked, LoadLabels, UnloadLabels
<1>2. CASE CheckAgain(c)
  <2>1. pc[c] = "checkAgain" /\ Answer(c) /\ UNCHANGED mutex
    BY <1>2 DEF CheckAgain
  <2>2. pc'[c] \in {"check", "prepare", "unwind"}
    BY <2>1, AnswerMoves
  <2>3. QED
    BY <2>1, <2>2 DEF Locked, LoadLabels, UnloadLabels
<1>3. CASE Unlock(c)
  <2>1. pc[c] = "answer" /\ Answer(c) /\ mutex' = None
    BY <1>3 DEF Unlock
  <2>2. pc'[c] \in {"check", "prepare", "unwind"}
    BY <2>1, AnswerMoves
  <2>3. QED
    BY <2>1, <2>2 DEF MutexInv, Locked, LoadLabels, UnloadLabels
<1>4. CASE NothingToUnload(c) \/ Retire(c)
  <2>1. pc[c] \in {"unload", "retire"} /\ NextRelease(c) /\ mutex' = None
    BY <1>4 DEF NothingToUnload, Retire
  <2>2. pc'[c] \in {"release", "done"}
    BY <2>1, NextReleaseMoves
  <2>3. QED
    BY <2>1, <2>2 DEF MutexInv, Locked, LoadLabels, UnloadLabels
<1>5. CASE GiveBack(c)
  <2>1. pc[c] = "release" /\ UNCHANGED mutex
    BY <1>5 DEF GiveBack
  <2>2. pc'[c] \in {"release", "done", "lockUnload"}
    BY <1>5, NextReleaseMoves DEF GiveBack, Goto
  <2>3. QED
    BY <2>1, <2>2 DEF Locked, LoadLabels, UnloadLabels
<1>6. CASE LockToLoad(c) \/ LockToUnload(c)
  BY <1>6 DEF LockToLoad, LockToUnload, Lock, Goto, Locked, LoadLabels, UnloadLabels
<1>7. CASE Start(c) \/ LookAgain(c) \/ OpenLibrary(c)
  BY <1>7 DEF Start, LookAgain, OpenLibrary, Goto, Locked, LoadLabels, UnloadLabels
<1>8. CASE OpenFails(c) \/ Claim(c) \/ DropStrays(c) \/ CloseRejected(c)
  BY <1>8 DEF OpenFails, Claim, DropStrays, CloseRejected, Goto, Locked, LoadLabels, UnloadLabels
<1>9. CASE ReportFailure(c) \/ Publish(c) \/ RecordLoad(c)
  BY <1>9 DEF ReportFailure, Publish, RecordLoad, Goto, Locked, LoadLabels, UnloadLabels
<1>10. CASE MakeAlgorithm(c) \/ MakeMissionControl(c) \/ RunReturns(c) \/ RunThrows(c)
  BY <1>10 DEF MakeAlgorithm, MakeMissionControl, RunReturns, RunThrows, Goto,
               Locked, LoadLabels, UnloadLabels
<1>11. CASE DestroyInstance(c) \/ LeaveTry(c) \/ Catch(c)
  BY <1>11 DEF DestroyInstance, LeaveTry, Catch, Goto, Locked, LoadLabels, UnloadLabels
<1>12. CASE ClearFactory(c) \/ CloseLibrary(c)
  BY <1>12 DEF ClearFactory, CloseLibrary, Goto, Locked, LoadLabels, UnloadLabels
<1>13. QED
  BY <1>1, <1>2, <1>3, <1>4, <1>5, <1>6, <1>7, <1>8, <1>9, <1>10, <1>11, <1>12
     DEF CellStep, Ensure, Run, Release

LEMMA OneHolder ==
  ASSUME MutexInv, NEW c \in Cells, pc[c] \in Locked, NEW d \in Cells, pc[d] \in Locked
  PROVE  c = d
BY DEF MutexInv, Locked

(* Where a cell that borrows stands: it has both its plugins, the mission *)
(* control last.                                                          *)
LEMMA BorrowRole ==
  ASSUME PlaceType, MutexInv, NEW c \in Cells, CellStep(c), pc'[c] \in BorrowLabels
  PROVE  role'[c] = "mission control"
<1> USE DEF PlaceType, BorrowLabels
<1>1. CASE Check(c)
  BY <1>1, CheckMoves
<1>2. CASE CheckAgain(c) \/ Unlock(c)
  <2>1. Answer(c)
    BY <1>2 DEF CheckAgain, Unlock
  <2>2. QED
    BY <2>1, AnswerMoves
<1>3. CASE NothingToUnload(c) \/ Retire(c) \/ GiveBack(c)
  <2>1. pc'[c] \in {"release", "done", "lockUnload"}
    BY <1>3, NextReleaseMoves DEF GiveBack, Goto, NothingToUnload, Retire
  <2>2. QED
    BY <2>1
<1>4. CASE MakeAlgorithm(c) \/ MakeMissionControl(c) \/ RunReturns(c) \/ RunThrows(c)
  BY <1>4 DEF MakeAlgorithm, MakeMissionControl, RunReturns, RunThrows, Goto, MutexInv
<1>5. CASE Start(c) \/ LockToLoad(c) \/ LookAgain(c) \/ OpenLibrary(c) \/ OpenFails(c) \/ Claim(c)
  BY <1>5 DEF Start, LockToLoad, LookAgain, OpenLibrary, OpenFails, Claim, Goto
<1>6. CASE DropStrays(c) \/ CloseRejected(c) \/ ReportFailure(c) \/ Publish(c) \/ RecordLoad(c)
  BY <1>6 DEF DropStrays, CloseRejected, ReportFailure, Publish, RecordLoad, Goto
<1>7. CASE DestroyInstance(c) \/ LeaveTry(c) \/ Catch(c)
  BY <1>7 DEF DestroyInstance, LeaveTry, Catch, Goto
<1>8. CASE LockToUnload(c) \/ ClearFactory(c) \/ CloseLibrary(c)
  BY <1>8 DEF LockToUnload, ClearFactory, CloseLibrary, Goto
<1>9. QED
  BY <1>1, <1>2, <1>3, <1>4, <1>5, <1>6, <1>7, <1>8 DEF CellStep, Ensure, Run, Release

LEMMA NotIdleAgain ==
  ASSUME PlaceType, NEW c \in Cells, CellStep(c)
  PROVE  pc'[c] # "idle"
<1> USE DEF PlaceType
<1>1. CASE Check(c)
  BY <1>1, CheckMoves
<1>2. CASE CheckAgain(c) \/ Unlock(c)
  <2>1. Answer(c)
    BY <1>2 DEF CheckAgain, Unlock
  <2>2. QED
    BY <2>1, AnswerMoves
<1>3. CASE NothingToUnload(c) \/ Retire(c) \/ GiveBack(c)
  BY <1>3, NextReleaseMoves DEF GiveBack, Goto, NothingToUnload, Retire
<1>4. CASE Run(c)
  BY <1>4 DEF Run, MakeAlgorithm, MakeMissionControl, RunReturns, RunThrows, DestroyInstance,
              LeaveTry, Catch, Goto
<1>5. CASE Start(c) \/ LockToLoad(c) \/ LookAgain(c) \/ OpenLibrary(c) \/ OpenFails(c) \/ Claim(c)
  BY <1>5 DEF Start, LockToLoad, LookAgain, OpenLibrary, OpenFails, Claim, Goto
<1>6. CASE DropStrays(c) \/ CloseRejected(c) \/ ReportFailure(c) \/ Publish(c) \/ RecordLoad(c)
  BY <1>6 DEF DropStrays, CloseRejected, ReportFailure, Publish, RecordLoad, Goto
<1>7. CASE LockToUnload(c) \/ ClearFactory(c) \/ CloseLibrary(c)
  BY <1>7 DEF LockToUnload, ClearFactory, CloseLibrary, Goto
<1>8. QED
  BY <1>1, <1>2, <1>3, <1>4, <1>5, <1>6, <1>7 DEF CellStep, Ensure, Release

LEMMA MutexStep ==
  ASSUME PlaceType, RegistrarType, RunType, MutexInv, NEW c \in Cells, CellStep(c)
  PROVE  MutexInv'
<1>1. \A d \in Cells : d # c => pc'[d] = pc[d] /\ role'[d] = role[d]
  BY OthersStay
<1>2. \A d \in Cells : d # None
  BY RegistryAssumption
<1>3. \A d \in Cells : mutex' = d <=> pc'[d] \in Locked
  BY <1>1, <1>2, MutexMove DEF MutexInv, Locked
<1>4. \A d \in Cells : pc'[d] \in BorrowLabels => role'[d] = "mission control"
  BY <1>1, BorrowRole DEF MutexInv
<1>5. pc'[c] # "idle"
  BY NotIdleAgain
<1>6. QED
  BY <1>1, <1>3, <1>4, <1>5 DEF MutexInv, Locked


-----------------------------------------------------------------------------
(* Which uses are outstanding: only GiveBack changes it. *)

LEMMA OwesKept ==
  ASSUME PlaceType, MutexInv, NEW c \in Cells, CellStep(c), ~GiveBack(c), NEW k \in Kinds
  PROVE  Owes(c, k)' <=> Owes(c, k)
<1> USE LabelType DEF PlaceType, Owes, ReleaseLabels, UnloadLabels
<1>1. CASE Check(c)
  BY <1>1, CheckMoves
<1>2. CASE CheckAgain(c) \/ Unlock(c)
  <2>1. pc[c] \in {"checkAgain", "answer"} /\ Answer(c)
    BY <1>2 DEF CheckAgain, Unlock
  <2>2. pc'[c] \in {"check", "prepare", "unwind"}
    BY <2>1, AnswerMoves
  <2>3. QED
    BY <2>1, <2>2
<1>3. CASE NothingToUnload(c) \/ Retire(c)
  <2>1. pc[c] \in {"unload", "retire"} /\ NextRelease(c)
    BY <1>3 DEF NothingToUnload, Retire
  <2>2. role'[c] = "algorithm" /\ pc'[c] = IF role[c] = "mission control" THEN "release" ELSE "done"
    BY <2>1, NextReleaseMoves
  <2>3. QED
    BY <2>1, <2>2
<1>4. CASE LockToUnload(c) \/ ClearFactory(c) \/ CloseLibrary(c)
  <2>1. /\ role' = role
        /\ pc[c] \in {"lockUnload", "unload", "close"} /\ pc'[c] \in {"unload", "close", "retire"}
    BY <1>4 DEF LockToUnload, ClearFactory, CloseLibrary, Goto
  <2>2. QED
    BY <2>1
<1>5. CASE LeaveTry(c) \/ Catch(c)
  <2>1. pc[c] = "unwind" /\ pc'[c] = "release" /\ role'[c] = "mission control"
    BY <1>5 DEF LeaveTry, Catch, Goto
  <2>2. QED
    BY <2>1
<1>6. CASE MakeAlgorithm(c) \/ MakeMissionControl(c) \/ RunReturns(c) \/ RunThrows(c)
           \/ DestroyInstance(c)
  <2>1. /\ pc[c] \in {"prepare", "algorithmMade", "running", "unwind"}
        /\ pc'[c] \in {"algorithmMade", "running", "unwind"}
    BY <1>6 DEF MakeAlgorithm, MakeMissionControl, RunReturns, RunThrows, DestroyInstance, Goto
  <2>2. QED
    BY <2>1
<1>7. CASE Start(c) \/ LockToLoad(c) \/ LookAgain(c) \/ OpenLibrary(c) \/ OpenFails(c) \/ Claim(c)
  <2>1. /\ pc[c] \in {"idle", "lock", "locked", "open", "judge"}
        /\ pc'[c] \in {"check", "locked", "open", "answer", "judge", "reportFailure", "publish"}
    BY <1>7 DEF Start, LockToLoad, LookAgain, OpenLibrary, OpenFails, Claim, Goto
  <2>2. QED
    BY <2>1
<1>8. CASE DropStrays(c) \/ CloseRejected(c) \/ ReportFailure(c) \/ Publish(c) \/ RecordLoad(c)
  <2>1. /\ pc[c] \in {"judge", "reject", "reportFailure", "publish", "recordLoad"}
        /\ pc'[c] \in {"reject", "reportFailure", "recordLoad", "answer"}
    BY <1>8 DEF DropStrays, CloseRejected, ReportFailure, Publish, RecordLoad, Goto
  <2>2. QED
    BY <2>1
<1>9. QED
  BY <1>1, <1>2, <1>3, <1>4, <1>5, <1>6, <1>7, <1>8 DEF CellStep, Ensure, Run, Release

LEMMA OwesReturned ==
  ASSUME PlaceType, NEW c \in Cells, GiveBack(c)
  PROVE  \A k \in Kinds : IF k = role[c] THEN Owes(c, k) /\ ~Owes(c, k)'
                                          ELSE Owes(c, k)' <=> Owes(c, k)
<1> USE LabelType DEF PlaceType, Owes, ReleaseLabels, UnloadLabels
<1>1. pc[c] = "release" /\ role[c] \in Kinds
  BY DEF GiveBack
<1>2. CASE pc' = [pc EXCEPT ![c] = "lockUnload"] /\ UNCHANGED role
  BY <1>1, <1>2
<1>3. CASE NextRelease(c)
  <2>1. role'[c] = "algorithm" /\ pc'[c] = IF role[c] = "mission control" THEN "release" ELSE "done"
    BY <1>3, NextReleaseMoves
  <2>2. CASE role[c] = "mission control"
    BY <1>1, <2>1, <2>2
  <2>3. CASE role[c] = "algorithm"
    BY <1>1, <2>1, <2>3
  <2>4. QED
    BY <1>1, <2>2, <2>3
<1>4. QED
  BY <1>2, <1>3 DEF GiveBack, Goto

LEMMA OwingKept ==
  ASSUME PlaceType, RegistrarType, RunType, MutexInv, NEW c \in Cells, CellStep(c), ~GiveBack(c),
         NEW s \in Slots
  PROVE  Owing(s)' = Owing(s)
<1>1. KindOf[s] \in Kinds
  BY KindType
<1>2. \A d \in Cells : Owes(d, KindOf[s])' <=> Owes(d, KindOf[s])
  <2>1. \A d \in Cells : d # c => pc'[d] = pc[d] /\ role'[d] = role[d]
    BY OthersStay
  <2>2. Owes(c, KindOf[s])' <=> Owes(c, KindOf[s])
    BY <1>1, OwesKept
  <2>3. QED
    BY <2>1, <2>2 DEF Owes
<1>3. QED
  BY <1>2 DEF Owing, UsersOf

LEMMA OwingReturned ==
  ASSUME PlaceType, RegistrarType, RunType, MutexInv, NEW c \in Cells, GiveBack(c), NEW s \in Slots
  PROVE  /\ c \in Owing(Target(c))
         /\ Owing(s)' = IF s = Target(c) THEN Owing(s) \ {c} ELSE Owing(s)
<1>1. KindOf[s] \in Kinds
  BY KindType
<1>2. CellStep(c)
  BY DEF CellStep, Release
<1>3. \A d \in Cells : d # c => (Owes(d, KindOf[s])' <=> Owes(d, KindOf[s]))
  <2>1. \A d \in Cells : d # c => pc'[d] = pc[d] /\ role'[d] = role[d]
    BY <1>2, OthersStay
  <2>2. QED
    BY <2>1 DEF Owes
<1>4. s = Target(c) => KindOf[s] = role[c]
  BY TargetType
<1>5. c \in UsersOf(s) /\ KindOf[s] = role[c] => s = Target(c)
  BY DEF UsersOf, Target
<1>6. c \in Owing(Target(c))
  BY OwesReturned, TargetType DEF Owing
<1>7. CASE s = Target(c)
  <2>1. ~Owes(c, KindOf[s])'
    BY <1>1, <1>4, <1>7, OwesReturned
  <2>2. QED
    BY <1>3, <1>6, <1>7, <2>1 DEF Owing, UsersOf
<1>8. CASE s # Target(c)
  <2>1. c \in UsersOf(s) => (Owes(c, KindOf[s])' <=> Owes(c, KindOf[s]))
    BY <1>1, <1>5, <1>8, OwesReturned
  <2>2. QED
    BY <1>3, <1>6, <1>8, <2>1 DEF Owing, UsersOf
<1>9. QED
  BY <1>6, <1>7, <1>8

(* A cell at work on a slot has not returned its use of it. *)
LEMMA Borrows ==
  ASSUME PlaceType, NEW c \in Cells, pc[c] # "done", pc[c] \notin ReleaseLabels
  PROVE  \A k \in Kinds : c \in Owing(Plugin[c][k])
BY PluginType DEF Owing, Owes

LEMMA OwingFinite ==
  ASSUME NEW s
  PROVE  IsFiniteSet(Owing(s)) /\ Cardinality(Owing(s)) \in Nat
<1>1. Owing(s) \subseteq UsersOf(s)
  BY DEF Owing
<1>2. QED
  BY <1>1, UsersFinite, FS_Subset, FS_CardinalityType

(* The step of a cell comes after the reservation. *)
LEMMA StepsAfterReserve ==
  ASSUME PlaceType, PhaseInv, NEW c \in Cells, CellStep(c)
  PROVE  UNCHANGED phase /\ phase = "dispatched" /\ pc[c] # "done"
<1>1. UNCHANGED phase
  BY DEF CellStep, Ensure, Run, Release, Start, Check, CheckAgain, LockToLoad, LookAgain,
         OpenLibrary, OpenFails, Claim, DropStrays, CloseRejected, ReportFailure, Publish,
         RecordLoad, Unlock, MakeAlgorithm, MakeMissionControl, RunReturns, RunThrows,
         DestroyInstance, LeaveTry, Catch, GiveBack, LockToUnload, NothingToUnload, ClearFactory,
         CloseLibrary, Retire
<1>2. pc[c] # "done" /\ (pc[c] = "idle" => phase = "dispatched")
  BY DEF CellStep, Ensure, Run, Release, Start, Check, CheckAgain, LockToLoad, LookAgain,
         OpenLibrary, OpenFails, Claim, DropStrays, CloseRejected, ReportFailure, Publish,
         RecordLoad, Unlock, MakeAlgorithm, MakeMissionControl, RunReturns, RunThrows,
         DestroyInstance, LeaveTry, Catch, GiveBack, LockToUnload, NothingToUnload, ClearFactory,
         CloseLibrary, Retire, Goto
<1>3. QED
  BY <1>1, <1>2 DEF PlaceType, PhaseInv

LEMMA PendingStep ==
  ASSUME PlaceType, SlotType, RegistrarType, RunType, MutexInv, PhaseInv, PendingInv,
         NEW c \in Cells, CellStep(c)
  PROVE  PendingInv'
<1>1. phase # "discovered" /\ phase' # "discovered"
  BY StepsAfterReserve
<1>2. CASE GiveBack(c)
  <2>1. pending' = [pending EXCEPT ![Target(c)] = @ - 1]
    BY <1>2 DEF GiveBack
  <2>2. ASSUME NEW s \in Slots
        PROVE  pending'[s] = Cardinality(Owing(s)')
    <3>1. pending[s] = Cardinality(Owing(s))
      BY <1>1 DEF PendingInv
    <3>2. CASE s = Target(c)
      <4>1. c \in Owing(s) /\ Owing(s)' = Owing(s) \ {c}
        BY <1>2, <3>2, OwingReturned
      <4>2. Cardinality(Owing(s)') = Cardinality(Owing(s)) - 1
        BY <4>1, OwingFinite, FS_RemoveElement
      <4>3. QED
        BY <2>1, <3>1, <3>2, <4>2 DEF SlotType
    <3>3. CASE s # Target(c)
      BY <1>2, <2>1, <3>1, <3>3, OwingReturned DEF SlotType
    <3>4. QED
      BY <3>2, <3>3
  <2>3. QED
    BY <1>1, <2>2 DEF PendingInv
<1>3. CASE ~GiveBack(c)
  <2>1. UNCHANGED pending
    BY <1>3 DEF CellStep, Ensure, Run, Release, Start, Check, CheckAgain, LockToLoad, LookAgain,
         OpenLibrary, OpenFails, Claim, DropStrays, CloseRejected, ReportFailure, Publish,
         RecordLoad, Unlock, MakeAlgorithm, MakeMissionControl, RunReturns, RunThrows,
         DestroyInstance, LeaveTry, Catch, LockToUnload, NothingToUnload, ClearFactory,
         CloseLibrary, Retire, slotVars
  <2>2. QED
    BY <1>1, <1>3, <2>1, OwingKept DEF PendingInv
<1>4. QED
  BY <1>2, <1>3


-----------------------------------------------------------------------------
(* What a step of a cell does to the slots. *)

(* The steps that touch no slot but for the counter of its uses. *)
Quiet(c) ==
  \/ Start(c) \/ Check(c) \/ CheckAgain(c) \/ LockToLoad(c) \/ Unlock(c) \/ Run(c)
  \/ GiveBack(c) \/ LockToUnload(c) \/ NothingToUnload(c)

Inside ==
  {"open", "judge", "reject", "reportFailure", "publish", "recordLoad", "close", "retire"}

LEMMA QuietMoves ==
  ASSUME PlaceType, NEW c \in Cells, Quiet(c)
  PROVE  /\ UNCHANGED <<state, attempts, factory, mapped, registrar, before>>
         /\ pc[c] \notin Inside /\ pc'[c] \notin Inside
<1> USE DEF PlaceType, Inside, slotVars, loaderVars
<1>1. CASE Check(c)
  BY <1>1, CheckMoves DEF Check
<1>2. CASE CheckAgain(c) \/ Unlock(c)
  <2>1. /\ pc[c] \in {"checkAgain", "answer"} /\ Answer(c)
        /\ UNCHANGED <<slotVars, loaderVars, registrar, before>>
    BY <1>2 DEF CheckAgain, Unlock
  <2>2. pc'[c] \in {"check", "prepare", "unwind"}
    BY <2>1, AnswerMoves
  <2>3. QED
    BY <2>1, <2>2
<1>3. CASE NothingToUnload(c) \/ GiveBack(c)
  <2>1. /\ pc[c] \in {"unload", "release"} /\ pc'[c] \in {"release", "done", "lockUnload"}
        /\ UNCHANGED <<state, attempts, factory, loaderVars, registrar, before>>
    BY <1>3, NextReleaseMoves DEF NothingToUnload, GiveBack, Goto
  <2>2. QED
    BY <2>1
<1>4. CASE Start(c) \/ LockToLoad(c) \/ LockToUnload(c)
  BY <1>4 DEF Start, LockToLoad, LockToUnload, Goto
<1>5. CASE MakeAlgorithm(c) \/ MakeMissionControl(c) \/ RunReturns(c) \/ RunThrows(c)
  BY <1>5 DEF MakeAlgorithm, MakeMissionControl, RunReturns, RunThrows, Goto
<1>6. CASE DestroyInstance(c) \/ LeaveTry(c) \/ Catch(c)
  BY <1>6 DEF DestroyInstance, LeaveTry, Catch, Goto
<1>7. QED
  BY <1>1, <1>2, <1>3, <1>4, <1>5, <1>6 DEF Quiet, Run

(* At most the holder of the mutex is inside the code that changes slots,  *)
(* so a step of a cell outside it leaves what At says as it is, and when   *)
(* the holder moves At speaks of the holder alone.                         *)
LEMMA AtKept ==
  ASSUME PlaceType, RegistrarType, RunType, NEW c \in Cells, CellStep(c),
         NEW labels, pc[c] \notin labels, pc'[c] \notin labels, NEW s
  PROVE  At(s, labels)' <=> At(s, labels)
<1>1. \A d \in Cells : d # c => pc'[d] = pc[d] /\ role'[d] = role[d]
  BY OthersStay
<1>2. QED
  BY <1>1 DEF At, Target

(* The steps of the holder of the mutex that change its slot. *)
SlotStep(c) ==
  \/ LookAgain(c) \/ OpenLibrary(c) \/ OpenFails(c) \/ Claim(c) \/ DropStrays(c)
  \/ CloseRejected(c) \/ ReportFailure(c) \/ Publish(c) \/ RecordLoad(c)
  \/ ClearFactory(c) \/ CloseLibrary(c) \/ Retire(c)

LEMMA QuietOrNot ==
  ASSUME NEW c \in Cells, CellStep(c)
  PROVE  Quiet(c) \/ SlotStep(c)
BY DEF CellStep, Quiet, SlotStep, Ensure, Release

LEMMA SlotInvQuiet ==
  ASSUME PlaceType, SlotType, RegistrarType, RunType, MutexInv, PhaseInv, SlotInv,
         NEW c \in Cells, Quiet(c)
  PROVE  SlotInv'
<1>1. CellStep(c)
  BY DEF Quiet, CellStep, Ensure, Release
<1>2. /\ UNCHANGED <<state, attempts, factory, mapped, phase>>
      /\ pc[c] \notin Inside /\ pc'[c] \notin Inside
  BY <1>1, QuietMoves, StepsAfterReserve
<1>3. ASSUME NEW labels \in SUBSET Inside, NEW s \in Slots
      PROVE  At(s, labels)' <=> At(s, labels)
  BY <1>1, <1>2, AtKept
<1>4. ASSUME NEW s \in Slots, Owing(s) = {}
      PROVE  Owing(s)' = {}
  BY <1>1, <1>4, OwingKept, OwingReturned
<1>5. ASSUME NEW s \in Slots
      PROVE  SlotOK(s)'
  <2>1. /\ At(s, {"publish"})' <=> At(s, {"publish"})
        /\ At(s, {"judge", "reject", "publish"})' <=> At(s, {"judge", "reject", "publish"})
        /\ At(s, {"open", "judge", "reject", "publish"})'
             <=> At(s, {"open", "judge", "reject", "publish"})
        /\ At(s, {"close", "retire"})' <=> At(s, {"close", "retire"})
        /\ At(s, {"retire"})' <=> At(s, {"retire"})
    BY <1>3 DEF Inside
  <2>2. SlotOK(s)
    BY DEF SlotInv
  <2>3. QED
    BY <1>2, <1>4, <2>1, <2>2 DEF SlotOK
<1>6. QED
  BY <1>5 DEF SlotInv


LEMMA SlotStepPlace ==
  ASSUME PlaceType, NEW c \in Cells, SlotStep(c)
  PROVE  /\ pc[c] \in Locked
         /\ Retire(c) \/ UNCHANGED role
<1> USE DEF Locked, LoadLabels, UnloadLabels
<1>1. CASE LookAgain(c) \/ OpenLibrary(c) \/ OpenFails(c) \/ Claim(c)
  BY <1>1 DEF LookAgain, OpenLibrary, OpenFails, Claim, Goto
<1>2. CASE DropStrays(c) \/ CloseRejected(c) \/ ReportFailure(c) \/ Publish(c)
  BY <1>2 DEF DropStrays, CloseRejected, ReportFailure, Publish, Goto
<1>3. CASE RecordLoad(c) \/ ClearFactory(c) \/ CloseLibrary(c) \/ Retire(c)
  BY <1>3 DEF RecordLoad, ClearFactory, CloseLibrary, Retire, Goto
<1>4. QED
  BY <1>1, <1>2, <1>3 DEF SlotStep

LEMMA OtherSlotsStay ==
  ASSUME SlotType, NEW c \in Cells, Target(c) \in Slots, SlotStep(c),
         NEW s \in Slots, s # Target(c)
  PROVE  /\ state'[s] = state[s] /\ attempts'[s] = attempts[s]
         /\ factory'[s] = factory[s] /\ mapped'[s] = mapped[s]
<1> USE DEF SlotType, slotVars, loaderVars
<1>1. CASE LookAgain(c) \/ OpenLibrary(c) \/ OpenFails(c)
  BY <1>1 DEF LookAgain, OpenLibrary, OpenFails, CountOpen
<1>2. CASE Claim(c) \/ DropStrays(c) \/ CloseRejected(c) \/ ReportFailure(c)
  BY <1>2 DEF Claim, DropStrays, CloseRejected, ReportFailure, CountClose
<1>3. CASE Publish(c) \/ RecordLoad(c) \/ ClearFactory(c) \/ CloseLibrary(c) \/ Retire(c)
  BY <1>3 DEF Publish, RecordLoad, ClearFactory, CloseLibrary, Retire, CountClose
<1>4. QED
  BY <1>1, <1>2, <1>3 DEF SlotStep

(* A use does not come back: a slot nobody owes stays so. *)
LEMMA NobodyOwesKept ==
  ASSUME PlaceType, RegistrarType, RunType, MutexInv, NEW c \in Cells, CellStep(c),
         NEW s \in Slots, Owing(s) = {}
  PROVE  Owing(s)' = {}
BY OwingKept, OwingReturned

(* The holder of the mutex works on its own slot. *)
LEMMA NobodyElseInside ==
  ASSUME PlaceType, RegistrarType, RunType, MutexInv, NEW c \in Cells, CellStep(c), SlotStep(c),
         NEW s, s # Target(c), NEW labels \in SUBSET Inside
  PROVE  ~At(s, labels) /\ ~At(s, labels)'
<1>1. Inside \subseteq Locked
  BY DEF Inside, Locked, LoadLabels, UnloadLabels
<1>2. \A d \in Cells : d # c => pc'[d] = pc[d] /\ role'[d] = role[d] /\ pc[d] \notin Locked
  BY SlotStepPlace, OthersStay, OneHolder
<1>3. ~(pc'[c] \in labels /\ Target(c)' = s)
  <2>1. CASE Retire(c)
    <3>1. pc'[c] \in {"release", "done"}
      BY <2>1, NextReleaseMoves DEF Retire, PlaceType
    <3>2. QED
      BY <3>1 DEF Inside
  <2>2. CASE UNCHANGED role
    BY <2>2 DEF Target
  <2>3. QED
    BY <2>1, <2>2, SlotStepPlace
<1>4. QED
  BY <1>1, <1>2, <1>3 DEF At

LEMMA SlotInvOthers ==
  ASSUME PlaceType, SlotType, RegistrarType, RunType, MutexInv, PhaseInv, SlotInv,
         NEW c \in Cells, CellStep(c), SlotStep(c), NEW s \in Slots, s # Target(c)
  PROVE  SlotOK(s)'
<1>1. /\ state'[s] = state[s] /\ attempts'[s] = attempts[s]
      /\ factory'[s] = factory[s] /\ mapped'[s] = mapped[s]
  BY OtherSlotsStay, TargetType
<1>2. UNCHANGED phase /\ (Owing(s) = {} => Owing(s)' = {})
  BY StepsAfterReserve, NobodyOwesKept
<1>3. \A labels \in SUBSET Inside : ~At(s, labels) /\ ~At(s, labels)'
  BY NobodyElseInside
<1>4. /\ At(s, {"publish"})' <=> At(s, {"publish"})
      /\ At(s, {"judge", "reject", "publish"})' <=> At(s, {"judge", "reject", "publish"})
      /\ At(s, {"open", "judge", "reject", "publish"})'
           <=> At(s, {"open", "judge", "reject", "publish"})
      /\ At(s, {"close", "retire"})' <=> At(s, {"close", "retire"})
      /\ At(s, {"retire"})' <=> At(s, {"retire"})
  BY <1>3 DEF Inside
<1>5. SlotOK(s)
  BY DEF SlotInv
<1>6. QED
  BY <1>1, <1>2, <1>4, <1>5 DEF SlotOK

(* What At says of the slot the holder works on, before and after. *)
LEMMA AtTarget ==
  ASSUME PlaceType, RegistrarType, RunType, MutexInv, NEW c \in Cells, CellStep(c),
         pc[c] \in Locked, UNCHANGED role, NEW s, s = Target(c), NEW labels \in SUBSET Locked
  PROVE  /\ At(s, labels) <=> pc[c] \in labels
         /\ At(s, labels)' <=> pc'[c] \in labels
<1>1. \A d \in Cells : d # c => pc'[d] = pc[d] /\ pc[d] \notin Locked
  BY OthersStay, OneHolder
<1>2. QED
  BY <1>1 DEF At, Target

LEMMA SlotInvTarget ==
  ASSUME PlaceType, SlotType, RegistrarType, RunType, MutexInv, PhaseInv, SlotInv, PlaceInv,
         RegistrarInv, NEW c \in Cells, CellStep(c), SlotStep(c), NEW s \in Slots, s = Target(c)
  PROVE  SlotOK(s)'
<1>1. UNCHANGED phase /\ (Owing(s) = {} => Owing(s)' = {})
  BY StepsAfterReserve, NobodyOwesKept
<1>2. SlotOK(s)
  BY DEF SlotInv
<1>3. /\ {"publish"} \in SUBSET Locked /\ {"judge", "reject", "publish"} \in SUBSET Locked
      /\ {"open", "judge", "reject", "publish"} \in SUBSET Locked
      /\ {"close", "retire"} \in SUBSET Locked /\ {"retire"} \in SUBSET Locked
      /\ {"judge"} \in SUBSET Locked
  BY DEF Locked, LoadLabels, UnloadLabels
<1>4. ASSUME UNCHANGED role
      PROVE  \A labels \in SUBSET Locked :
               (At(s, labels) <=> pc[c] \in labels) /\ (At(s, labels)' <=> pc'[c] \in labels)
  BY <1>4, AtTarget, SlotStepPlace
<1>5. ASSUME UNCHANGED role
      PROVE  /\ At(s, {"publish"}) <=> pc[c] = "publish"
             /\ At(s, {"judge", "reject", "publish"}) <=> pc[c] \in {"judge", "reject", "publish"}
             /\ At(s, {"open", "judge", "reject", "publish"})
                  <=> pc[c] \in {"open", "judge", "reject", "publish"}
             /\ At(s, {"close", "retire"}) <=> pc[c] \in {"close", "retire"}
             /\ At(s, {"retire"}) <=> pc[c] = "retire"
             /\ At(s, {"publish"})' <=> pc'[c] = "publish"
             /\ At(s, {"judge", "reject", "publish"})'
                  <=> pc'[c] \in {"judge", "reject", "publish"}
             /\ At(s, {"open", "judge", "reject", "publish"})'
                  <=> pc'[c] \in {"open", "judge", "reject", "publish"}
             /\ At(s, {"close", "retire"})' <=> pc'[c] \in {"close", "retire"}
             /\ At(s, {"retire"})' <=> pc'[c] = "retire"
  BY <1>3, <1>4, <1>5
<1> USE DEF SlotOK, PlaceType, SlotType, slotVars, loaderVars
<1>6. CASE LookAgain(c)
  <2>1. /\ pc[c] = "locked" /\ UNCHANGED <<state, factory, mapped, role>>
        /\ IF state[s] = "NotLoaded"
             THEN pc'[c] = "open" /\ attempts'[s] = attempts[s] + 1
             ELSE pc'[c] = "answer" /\ attempts'[s] = attempts[s]
    BY <1>6 DEF LookAgain, Goto
  <2>2. QED
    BY <1>1, <1>2, <1>5, <2>1
<1>7. CASE OpenLibrary(c)
  <2>1. /\ pc[c] = "open" /\ pc'[c] = "judge" /\ UNCHANGED <<state, factory, attempts, role>>
        /\ mapped'[s] = TRUE
    BY <1>7 DEF OpenLibrary, CountOpen, Goto
  <2>2. state[s] = "NotLoaded"
    BY <2>1 DEF PlaceInv, PlaceOK
  <2>3. QED
    BY <1>1, <1>2, <1>5, <2>1, <2>2
<1>8. CASE OpenFails(c)
  <2>1. /\ pc[c] = "open" /\ state'[s] = "Failed" /\ UNCHANGED <<factory, attempts, mapped, role>>
    BY <1>8 DEF OpenFails, Goto
  <2>2. state[s] = "NotLoaded"
    BY <2>1 DEF PlaceInv, PlaceOK
  <2>3. QED
    BY <1>1, <1>2, <1>5, <2>1, <2>2
<1>9. CASE Claim(c)
  <2>. DEFINE queue == registrar[KindOf[s]]
  <2>1. /\ pc[c] = "judge" /\ pc'[c] = "publish" /\ UNCHANGED <<state, attempts, mapped, role>>
        /\ factory'[s] = queue[Len(queue)]
    BY <1>9 DEF Claim, Goto
  <2>2. state[s] = "NotLoaded"
    BY <2>1 DEF PlaceInv, PlaceOK
  <2>3. queue[Len(queue)] = s
    <3>1. KindOf[s] \in Kinds /\ queue \in Seq(Slots)
      <4>1. KindOf[s] \in Kinds
        BY KindType
      <4>2. QED
        BY <4>1 DEF RegistrarType
    <3>2. Len(queue) = 1
      <4>1. Registered(c, KindOf[s]) = 1
        BY <1>9, <3>1 DEF Claim, Usable
      <4>2. before[c][KindOf[s]] = 0
        BY <2>1, <3>1 DEF RegistrarInv
      <4>3. QED
        BY <3>1, <4>1, <4>2 DEF Registered
    <3>3. At(queue[1], {"judge"})
      BY <3>1, <3>2 DEF RegistrarInv
    <3>4. PICK d \in Cells : pc[d] = "judge" /\ Target(d) = queue[1]
      BY <3>3 DEF At
    <3>5. d = c
      BY <2>1, <3>4, OneHolder DEF Locked, LoadLabels
    <3>6. QED
      BY <3>2, <3>4, <3>5
  <2>. HIDE DEF queue
  <2>4. QED
    BY <1>1, <1>2, <1>5, <2>1, <2>2, <2>3
<1>10. CASE DropStrays(c)
  <2>1. /\ pc[c] = "judge" /\ pc'[c] = "reject"
        /\ UNCHANGED <<state, factory, attempts, mapped, role>>
    BY <1>10 DEF DropStrays, Goto
  <2>2. QED
    BY <1>1, <1>2, <1>5, <2>1
<1>11. CASE CloseRejected(c)
  <2>1. /\ pc[c] = "reject" /\ state'[s] = "Failed" /\ mapped'[s] = FALSE
        /\ UNCHANGED <<factory, attempts, role>>
    BY <1>11 DEF CloseRejected, CountClose, Goto
  <2>2. state[s] = "NotLoaded"
    BY <2>1 DEF PlaceInv, PlaceOK
  <2>3. QED
    BY <1>1, <1>2, <1>5, <2>1, <2>2
<1>12. CASE ReportFailure(c)
  <2>1. /\ pc[c] = "reportFailure" /\ pc'[c] = "answer"
        /\ UNCHANGED <<state, factory, attempts, mapped, role>>
    BY <1>12 DEF ReportFailure, Goto
  <2>2. QED
    BY <1>1, <1>2, <1>5, <2>1
<1>13. CASE Publish(c)
  <2>1. /\ pc[c] = "publish" /\ pc'[c] = "recordLoad" /\ state'[s] = "Loaded"
        /\ UNCHANGED <<factory, attempts, mapped, role>>
    BY <1>13 DEF Publish, Goto
  <2>2. state[s] = "NotLoaded"
    BY <2>1 DEF PlaceInv, PlaceOK
  <2>3. QED
    BY <1>1, <1>2, <1>5, <2>1, <2>2
<1>14. CASE RecordLoad(c)
  <2>1. /\ pc[c] = "recordLoad" /\ pc'[c] = "answer"
        /\ UNCHANGED <<state, factory, attempts, mapped, role>>
    BY <1>14 DEF RecordLoad, Goto
  <2>2. QED
    BY <1>1, <1>2, <1>5, <2>1
<1>15. CASE ClearFactory(c)
  <2>1. /\ pc[c] = "unload" /\ pc'[c] = "close" /\ factory'[s] = None /\ state[s] = "Loaded"
        /\ UNCHANGED <<state, attempts, mapped, role>>
    BY <1>15 DEF ClearFactory, Goto
  <2>2. QED
    BY <1>1, <1>2, <1>5, <2>1
<1>16. CASE CloseLibrary(c)
  <2>1. /\ pc[c] = "close" /\ pc'[c] = "retire" /\ mapped'[s] = FALSE
        /\ UNCHANGED <<state, factory, attempts, role>>
    BY <1>16 DEF CloseLibrary, CountClose, Goto
  <2>2. state[s] = "Loaded"
    BY <2>1 DEF PlaceInv, PlaceOK
  <2>3. QED
    BY <1>1, <1>2, <1>5, <2>1, <2>2
<1>17. CASE Retire(c)
  <2>1. /\ pc[c] = "retire" /\ state'[s] = "Unloaded"
        /\ UNCHANGED <<factory, attempts, mapped>>
    BY <1>17 DEF Retire
  <2>2. state[s] = "Loaded" /\ Owing(s) = {}
    BY <2>1 DEF PlaceInv, PlaceOK, UnloadLabels
  <2>3. At(s, {"close", "retire"}) /\ At(s, {"retire"})
    BY <2>1 DEF At
  <2>4. QED
    BY <1>1, <1>2, <2>1, <2>2, <2>3
<1>18. QED
  BY <1>6, <1>7, <1>8, <1>9, <1>10, <1>11, <1>12, <1>13, <1>14, <1>15, <1>16, <1>17 DEF SlotStep

LEMMA SlotInvStep ==
  ASSUME PlaceType, SlotType, RegistrarType, RunType, MutexInv, PhaseInv, SlotInv, PlaceInv,
         RegistrarInv, NEW c \in Cells, CellStep(c)
  PROVE  SlotInv'
<1>1. CASE SlotStep(c)
  BY <1>1, SlotInvOthers, SlotInvTarget DEF SlotInv
<1>2. QED
  BY <1>1, QuietOrNot, SlotInvQuiet


-----------------------------------------------------------------------------
(* A slot's state moves forward, and under the mutex. *)

LEMMA StateMoves ==
  ASSUME PlaceType, SlotType, PlaceInv, NEW c \in Cells, CellStep(c), NEW s \in Slots
  PROVE  \/ state'[s] = state[s]
         \/ /\ s = Target(c) /\ pc[c] \in Locked /\ state[s] = "NotLoaded"
            /\ state'[s] \in {"Loaded", "Failed"}
         \/ /\ s = Target(c) /\ pc[c] \in Locked /\ state[s] = "Loaded" /\ state'[s] = "Unloaded"
            /\ Owing(s) = {}
<1> USE DEF Locked, LoadLabels, UnloadLabels
<1>1. CASE OpenFails(c) \/ CloseRejected(c) \/ Publish(c)
  <2>1. /\ pc[c] \in {"open", "reject", "publish"}
        /\ \E to \in {"Loaded", "Failed"} : state' = [state EXCEPT ![Target(c)] = to]
    BY <1>1 DEF OpenFails, CloseRejected, Publish, Goto
  <2>2. state[Target(c)] = "NotLoaded"
    BY <2>1 DEF PlaceInv, PlaceOK
  <2>3. QED
    BY <2>1, <2>2 DEF SlotType
<1>2. CASE Retire(c)
  <2>1. pc[c] = "retire" /\ state' = [state EXCEPT ![Target(c)] = "Unloaded"]
    BY <1>2 DEF Retire
  <2>2. state[Target(c)] = "Loaded" /\ Owing(Target(c)) = {}
    BY <2>1 DEF PlaceInv, PlaceOK
  <2>3. QED
    BY <2>1, <2>2 DEF SlotType
<1>3. CASE UNCHANGED state
  BY <1>3
<1>4. CASE Quiet(c)
  BY <1>4, QuietMoves
<1>5. QED
  BY <1>1, <1>2, <1>3, <1>4, QuietOrNot
     DEF SlotStep, LookAgain, OpenLibrary, Claim, DropStrays, ReportFailure, RecordLoad,
         ClearFactory, CloseLibrary, slotVars

LEMMA PlaceOthers ==
  ASSUME PlaceType, SlotType, RegistrarType, RunType, MutexInv, PlaceInv,
         NEW c \in Cells, CellStep(c), NEW d \in Cells, d # c
  PROVE  PlaceOK(d)'
<1>1. pc'[d] = pc[d] /\ Target(d)' = Target(d)
  BY OthersStay DEF Target
<1>2. Target(d) \in Slots
  BY TargetType
<1>3. PlaceOK(d)
  BY DEF PlaceInv
<1>4. pc[d] \in Locked => state'[Target(d)] = state[Target(d)]
  BY <1>2, StateMoves, OneHolder
<1>5. state[Target(d)] # "NotLoaded" => state'[Target(d)] # "NotLoaded"
  BY <1>2, StateMoves
<1>6. ASSUME Owing(Target(d)) = {}
      PROVE  Owing(Target(d))' = {}
  <2>1. \A s \in Slots : Owing(s) = {} => Owing(s)' = {}
    BY NobodyOwesKept
  <2>2. \A s : Owing(s)' = {} /\ s = Target(d) => Owing(Target(d))' = {}
    BY <1>1
  <2>3. QED
    BY <1>2, <1>6, <2>1, <2>2
<1>7. QED
  BY <1>1, <1>3, <1>4, <1>5, <1>6 DEF PlaceOK, Locked, LoadLabels, UnloadLabels


LEMMA PlaceOwn ==
  ASSUME PlaceType, SlotType, RegistrarType, RunType, MutexInv, PhaseInv, PendingInv, PlaceInv,
         SlotInv, RegistrarInv, NEW c \in Cells, CellStep(c)
  PROVE  PlaceOK(c)'
<1>1. PlaceOK(c) /\ Target(c) \in Slots
  BY TargetType DEF PlaceInv
<1>2. ASSUME UNCHANGED role, Owing(Target(c)) = {}
      PROVE  Owing(Target(c))' = {}
  <2>1. \A s \in Slots : Owing(s) = {} => Owing(s)' = {}
    BY NobodyOwesKept
  <2>2. Target(c)' = Target(c)
    BY <1>2 DEF Target
  <2>3. \A s : Owing(s)' = {} /\ s = Target(c) => Owing(Target(c))' = {}
    BY <2>2
  <2>4. QED
    BY <1>1, <1>2, <2>1, <2>3
<1>3. ASSUME UNCHANGED role
      PROVE  Target(c)' = Target(c)
  BY <1>3 DEF Target
<1>4. ASSUME pc'[c] \notin {"open", "judge", "reject", "publish", "reportFailure", "recordLoad",
                          "checkAgain", "answer", "lockUnload"} \cup UnloadLabels
      PROVE  PlaceOK(c)'
  BY <1>4 DEF PlaceOK, UnloadLabels
<1> USE DEF PlaceType, SlotType, slotVars
<1>5. CASE Check(c)
  <2>1. UNCHANGED <<state, role>>
    BY <1>5, CheckMoves DEF Check
  <2>2. \/ pc'[c] = "lock"
        \/ pc'[c] = "checkAgain" /\ state[Target(c)] # "NotLoaded"
    BY <1>5, CheckMoves
  <2>3. QED
    BY <1>3, <2>1, <2>2 DEF PlaceOK, UnloadLabels
<1>6. CASE CheckAgain(c) \/ Unlock(c)
  <2>1. pc'[c] \in {"check", "prepare", "unwind"}
    BY <1>6, AnswerMoves DEF CheckAgain, Unlock
  <2>2. QED
    BY <1>4, <2>1 DEF UnloadLabels
<1>7. CASE LookAgain(c)
  <2>1. /\ UNCHANGED <<state, role>>
        /\ pc'[c] = IF state[Target(c)] = "NotLoaded" THEN "open" ELSE "answer"
    BY <1>7 DEF LookAgain, Goto
  <2>2. QED
    BY <1>3, <2>1 DEF PlaceOK, UnloadLabels
<1>8. CASE OpenLibrary(c) \/ Claim(c) \/ DropStrays(c)
  <2>1. /\ UNCHANGED <<state, role>>
        /\ pc[c] \in {"open", "judge"} /\ pc'[c] \in {"judge", "publish", "reject"}
    BY <1>8 DEF OpenLibrary, Claim, DropStrays, Goto
  <2>2. QED
    BY <1>1, <1>3, <2>1 DEF PlaceOK, UnloadLabels
<1>9. CASE OpenFails(c) \/ CloseRejected(c)
  <2>1. /\ state' = [state EXCEPT ![Target(c)] = "Failed"] /\ UNCHANGED role
        /\ pc'[c] = "reportFailure"
    BY <1>9 DEF OpenFails, CloseRejected, Goto
  <2>2. state'[Target(c)'] = "Failed"
    BY <1>1, <1>3, <2>1
  <2>3. QED
    BY <2>1, <2>2 DEF PlaceOK, UnloadLabels
<1>10. CASE ReportFailure(c) \/ RecordLoad(c)
  <2>1. /\ UNCHANGED <<state, role>>
        /\ pc[c] \in {"reportFailure", "recordLoad"} /\ pc'[c] = "answer"
    BY <1>10 DEF ReportFailure, RecordLoad, Goto
  <2>2. QED
    BY <1>1, <1>3, <2>1 DEF PlaceOK, UnloadLabels
<1>11. CASE Publish(c)
  <2>1. /\ state' = [state EXCEPT ![Target(c)] = "Loaded"] /\ UNCHANGED role
        /\ pc'[c] = "recordLoad"
    BY <1>11 DEF Publish, Goto
  <2>2. state'[Target(c)'] = "Loaded"
    BY <1>1, <1>3, <2>1
  <2>3. QED
    BY <2>1, <2>2 DEF PlaceOK, UnloadLabels
<1>12. CASE GiveBack(c)
  <2>1. CASE pc'[c] # "lockUnload"
    <3>1. pc'[c] \in {"release", "done"}
      BY <1>12, <2>1, NextReleaseMoves DEF GiveBack, Goto
    <3>2. QED
      BY <1>4, <3>1 DEF UnloadLabels
  <2>2. CASE pc'[c] = "lockUnload"
    <3>1. UNCHANGED role /\ pending[Target(c)] = 1 /\ phase # "discovered"
      <4>1. phase # "discovered"
        BY StepsAfterReserve
      <4>2. QED
        BY <1>12, <2>2, <4>1, NextReleaseMoves DEF GiveBack
    <3>2. PICK s \in Slots : s = Target(c)
      BY <1>1
    <3>3. Cardinality(Owing(s)) = 1
      BY <3>1, <3>2 DEF PendingInv
    <3>4. c \in Owing(s) /\ Owing(s)' = Owing(s) \ {c}
      BY <1>12, <3>2, OwingReturned
    <3>5. Owing(s)' = {}
      BY <3>3, <3>4, OwingFinite, FS_RemoveElement, FS_EmptySet
    <3>6. Owing(Target(c))' = {}
      BY <1>3, <3>1, <3>2, <3>5
    <3>7. QED
      BY <2>2, <3>6 DEF PlaceOK, UnloadLabels
  <2>3. QED
    BY <2>1, <2>2
<1>13. CASE LockToUnload(c)
  <2>1. UNCHANGED role /\ pc[c] = "lockUnload" /\ pc'[c] = "unload"
    BY <1>13 DEF LockToUnload, Goto
  <2>2. QED
    BY <1>1, <1>2, <2>1 DEF PlaceOK, UnloadLabels
<1>14. CASE ClearFactory(c) \/ CloseLibrary(c)
  <2>1. /\ UNCHANGED <<state, role>> /\ pc[c] \in {"unload", "close"}
        /\ pc'[c] \in {"close", "retire"}
        /\ pc[c] = "unload" => state[Target(c)] = "Loaded"
    BY <1>14 DEF ClearFactory, CloseLibrary, Goto
  <2>2. QED
    BY <1>1, <1>2, <1>3, <2>1 DEF PlaceOK, UnloadLabels
<1>15. CASE NothingToUnload(c) \/ Retire(c)
  <2>1. NextRelease(c) /\ PlaceType
    BY <1>15 DEF NothingToUnload, Retire
  <2>2. PICK l \in {"release", "done"} : pc' = [pc EXCEPT ![c] = l]
    BY <2>1, NextReleaseMoves
  <2>3. pc'[c] \in {"release", "done"}
    BY <2>1, <2>2 DEF PlaceType
  <2>4. QED
    BY <1>4, <2>3 DEF UnloadLabels
<1>16. CASE Run(c) \/ Start(c) \/ LockToLoad(c)
  <2>1. pc'[c] \in {"check", "locked", "algorithmMade", "running", "unwind", "release"}
    BY <1>16 DEF Run, Start, LockToLoad, MakeAlgorithm, MakeMissionControl, RunReturns, RunThrows,
                 DestroyInstance, LeaveTry, Catch, Goto
  <2>2. QED
    BY <1>4, <2>1 DEF UnloadLabels
<1>17. QED
  BY <1>5, <1>6, <1>7, <1>8, <1>9, <1>10, <1>11, <1>12, <1>13, <1>14, <1>15, <1>16
     DEF CellStep, Ensure, Release

LEMMA PlaceStep ==
  ASSUME PlaceType, SlotType, RegistrarType, RunType, MutexInv, PhaseInv, PendingInv, PlaceInv,
         SlotInv, RegistrarInv, NEW c \in Cells, CellStep(c)
  PROVE  PlaceInv'
BY PlaceOwn, PlaceOthers DEF PlaceInv

-----------------------------------------------------------------------------
(* The registrar is empty but while the library being loaded is judged. *)

LEMMA RegistrarEmpty ==
  ASSUME RegistrarType, RegistrarInv, MutexInv,
         NEW c \in Cells, pc[c] \in Locked, pc[c] # "judge"
  PROVE  \A k \in Kinds : registrar[k] = <<>>
<1>1. ASSUME NEW k \in Kinds
      PROVE  registrar[k] = <<>>
  <2>1. \A i \in DOMAIN registrar[k] : FALSE
    <3>1. ASSUME NEW i \in DOMAIN registrar[k]
          PROVE  FALSE
      <4>1. PICK d \in Cells : pc[d] = "judge"
        BY DEF RegistrarInv, At
      <4>2. QED
        BY <4>1, OneHolder DEF Locked, LoadLabels
    <3>2. QED
      BY <3>1
  <2>2. registrar[k] \in Seq(Slots)
    BY DEF RegistrarType
  <2>3. QED
    BY <2>1, <2>2, EmptyIffNoIndex
<1>2. QED
  BY <1>1

LEMMA RegistrarStep ==
  ASSUME PlaceType, RegistrarType, RunType, MutexInv, RegistrarInv, NEW c \in Cells, CellStep(c)
  PROVE  RegistrarInv'
<1>1. \A d \in Cells : d # c => pc'[d] = pc[d] /\ before'[d] = before[d]
  BY OthersStay
<1>2. ASSUME pc[c] \in Locked, NEW d \in Cells, d # c
      PROVE  pc[d] \notin Locked
  BY <1>2, OneHolder
<1>3. ASSUME \A k \in Kinds : registrar'[k] = <<>>,
             pc'[c] \in {"open", "judge"} => \A k \in Kinds : before'[c][k] = 0
      PROVE  RegistrarInv'
  BY <1>1, <1>3 DEF RegistrarInv
<1>4. CASE LookAgain(c)
  <2>1. pc[c] = "locked" /\ pc'[c] \in {"open", "answer"} /\ UNCHANGED registrar
    BY <1>4 DEF LookAgain, Goto, PlaceType
  <2>2. \A k \in Kinds : registrar[k] = <<>>
    BY <2>1, RegistrarEmpty DEF Locked, LoadLabels
  <2>3. pc'[c] = "open" => before'[c] = [k \in Kinds |-> Len(registrar[k])]
    BY <1>4 DEF LookAgain, Goto, PlaceType, RegistrarType
  <2>4. pc'[c] = "open" => \A k \in Kinds : before'[c][k] = 0
    BY <2>2, <2>3
  <2>5. QED
    BY <1>3, <2>1, <2>2, <2>4
<1>5. CASE OpenLibrary(c)
  <2>1. pc[c] = "open" /\ pc'[c] = "judge" /\ UNCHANGED <<before, role>>
    BY <1>5 DEF OpenLibrary, Goto, PlaceType
  <2>2. \A k \in Kinds : registrar[k] = <<>>
    BY <2>1, RegistrarEmpty DEF Locked, LoadLabels
  <2>3. PICK count \in Registrations(KindOf[Target(c)]) :
          registrar' = [k \in Kinds |-> registrar[k] \o [i \in 1 .. count[k] |-> Target(c)]]
    BY <1>5 DEF OpenLibrary
  <2>4. ASSUME NEW k \in Kinds, NEW i \in DOMAIN registrar'[k]
        PROVE  registrar'[k][i] = Target(c)
    <3>1. count[k] \in Nat
      BY <2>3, RegistrationsType, TargetType
    <3>2. [j \in 1 .. count[k] |-> Target(c)] \in Seq(Slots)
      BY <3>1, TargetType
    <3>3. registrar'[k] = [j \in 1 .. count[k] |-> Target(c)]
      BY <2>2, <2>3, <3>2, ConcatEmptySeq
    <3>4. QED
      BY <2>4, <3>3
  <2>5. \A k \in Kinds : \A i \in DOMAIN registrar'[k] : At(registrar[k][i], {"judge"})'
    BY <2>1, <2>4 DEF At, Target
  <2>6. QED
    BY <1>1, <2>1, <2>5 DEF RegistrarInv
<1>6. CASE Claim(c)
  <2>. DEFINE kind == KindOf[Target(c)]
  <2>1. /\ pc[c] = "judge" /\ pc'[c] = "publish" /\ UNCHANGED before
        /\ registrar' = [registrar EXCEPT ![kind] = SubSeq(@, 1, Len(@) - 1)]
    BY <1>6 DEF Claim, Goto, PlaceType
  <2>2. ASSUME NEW k \in Kinds
        PROVE  Len(registrar[k]) = IF k = kind THEN 1 ELSE 0
    <3>1. registrar[k] \in Seq(Slots) /\ before[c][k] = 0
      BY <2>1 DEF RegistrarType, RegistrarInv
    <3>2. Registered(c, k) = IF k = kind THEN 1 ELSE 0
      BY <1>6 DEF Claim, Usable
    <3>3. QED
      BY <3>1, <3>2 DEF Registered
  <2>. HIDE DEF kind
  <2>3. ASSUME NEW k \in Kinds
        PROVE  registrar'[k] = <<>>
    <3>1. registrar[k] \in Seq(Slots)
      BY DEF RegistrarType
    <3>2. CASE k = kind
      BY <2>1, <2>2, <3>1, <3>2 DEF RegistrarType
    <3>3. CASE k # kind
      BY <2>1, <2>2, <3>1, <3>3 DEF RegistrarType
    <3>4. QED
      BY <3>2, <3>3
  <2>4. QED
    BY <1>3, <2>1, <2>3
<1>7. CASE DropStrays(c)
  <2>1. /\ pc[c] = "judge" /\ pc'[c] = "reject" /\ UNCHANGED before
        /\ registrar' = [k \in Kinds |-> SubSeq(registrar[k], 1, before[c][k])]
    BY <1>7 DEF DropStrays, Goto, PlaceType
  <2>2. ASSUME NEW k \in Kinds
        PROVE  registrar'[k] = <<>>
    <3>1. registrar[k] \in Seq(Slots) /\ before[c][k] = 0
      BY <2>1 DEF RegistrarType, RegistrarInv
    <3>2. QED
      BY <2>1, <3>1
  <2>3. QED
    BY <1>3, <2>1, <2>2
<1>8. CASE OpenFails(c) \/ CloseRejected(c) \/ ReportFailure(c) \/ Publish(c) \/ RecordLoad(c)
           \/ ClearFactory(c) \/ CloseLibrary(c)
  <2>1. /\ pc[c] \in Locked /\ pc[c] # "judge" /\ pc'[c] \notin {"open", "judge"}
        /\ UNCHANGED <<registrar, before>>
    BY <1>8 DEF OpenFails, CloseRejected, ReportFailure, Publish, RecordLoad, ClearFactory,
                CloseLibrary, Goto, PlaceType, Locked, LoadLabels, UnloadLabels
  <2>2. QED
    BY <1>3, <2>1, RegistrarEmpty
<1>9. CASE Retire(c)
  <2>1. /\ pc[c] \in Locked /\ pc[c] # "judge" /\ pc'[c] \in {"release", "done"}
        /\ UNCHANGED <<registrar, before>>
    BY <1>9, NextReleaseMoves DEF Retire, PlaceType, Locked, LoadLabels, UnloadLabels
  <2>2. QED
    BY <1>3, <2>1, RegistrarEmpty
<1>10. CASE Quiet(c)
  <2>1. UNCHANGED <<registrar, before>> /\ pc[c] \notin Inside /\ pc'[c] \notin Inside
    BY <1>10, QuietMoves
  <2>2. \A s : At(s, {"judge"})' <=> At(s, {"judge"})
    BY <2>1, AtKept DEF Inside
  <2>3. QED
    BY <1>1, <2>1, <2>2 DEF RegistrarInv, Inside
<1>11. QED
  BY <1>4, <1>5, <1>6, <1>7, <1>8, <1>9, <1>10, QuietOrNot DEF SlotStep


-----------------------------------------------------------------------------
(* What a run holds stays loaded, and its verdict stands. *)

LEMMA UsingOwes ==
  ASSUME PlaceType, NEW c \in Cells, NEW k \in Kinds, Using(c, k)
  PROVE  c \in Owing(Plugin[c][k])
<1>1. pc[c] # "done" /\ pc[c] \notin ReleaseLabels
  BY DEF Using, BorrowLabels, AcquireLabels, LoadLabels, ReleaseLabels, UnloadLabels
<1>2. QED
  BY <1>1, Borrows

(* No step of any cell takes back what another cell has been told. *)
LEMMA VerdictsKept ==
  ASSUME PlaceType, SlotType, PlaceInv, NEW c \in Cells, CellStep(c), NEW s \in Slots
  PROVE  /\ state[s] = "Failed" => state'[s] = "Failed"
         /\ state[s] \in {"Loaded", "Unloaded"} => state'[s] \in {"Loaded", "Unloaded"}
         /\ state[s] = "Loaded" /\ Owing(s) # {} => state'[s] = "Loaded"
BY StateMoves

LEMMA RunOthers ==
  ASSUME PlaceType, SlotType, RegistrarType, RunType, PlaceInv, RunInv,
         NEW c \in Cells, CellStep(c), NEW d \in Cells, d # c, NEW k \in Kinds
  PROVE  RunOK(d, k)'
<1>1. /\ pc'[d] = pc[d] /\ role'[d] = role[d] /\ failing'[d] = failing[d]
      /\ instance'[d] = instance[d] /\ result'[d] = result[d]
  BY OthersStay
<1>2. RunOK(d, k) /\ Target(d)' = Target(d) /\ Target(d) \in Slots
  BY <1>1, TargetType DEF RunInv, Target
<1>3. Using(d, k)' <=> Using(d, k)
  BY <1>1 DEF Using
<1>4. Using(d, k) => state'[Plugin[d][k]] = "Loaded"
  BY <1>2, PluginType, UsingOwes, VerdictsKept DEF RunOK
<1>5. \A l \in Kinds : Plugin[d][l] \in Slots
  BY PluginType
<1>6. /\ \A l \in Kinds : state[Plugin[d][l]] = "Failed" => state'[Plugin[d][l]] = "Failed"
      /\ state[Target(d)] = "Failed" => state'[Target(d)] = "Failed"
      /\ state[Plugin[d][k]] \in {"Loaded", "Unloaded"} =>
           state'[Plugin[d][k]] \in {"Loaded", "Unloaded"}
  BY <1>2, <1>5, VerdictsKept
<1>7. QED
  BY <1>1, <1>2, <1>3, <1>4, <1>6 DEF RunOK

(* What the answer to an acquire means. *)
LEMMA AnswerSays ==
  ASSUME PlaceType, SlotType, SlotInv, PlaceInv, PhaseInv, NEW c \in Cells, CellStep(c),
         pc[c] \in {"checkAgain", "answer"}, state[Target(c)] # "Loaded"
  PROVE  state[Target(c)] = "Failed"
<1>1. state[Target(c)] # "NotLoaded" /\ Target(c) \in Slots
  BY TargetType DEF PlaceInv, PlaceOK
<1>2. c \in Owing(Target(c))
  BY Borrows, TargetType DEF Target, ReleaseLabels, UnloadLabels
<1>3. phase # "swept"
  BY StepsAfterReserve
<1>4. state[Target(c)] # "Unloaded"
  BY <1>1, <1>2, <1>3 DEF SlotInv, SlotOK
<1>5. QED
  BY <1>1, <1>4 DEF SlotType

(* A cell that is on its way to a factory uses what it used before. *)
Acquiring(c) ==
  Check(c) \/ Start(c) \/ LockToLoad(c) \/ (SlotStep(c) /\ pc[c] \in LoadLabels)

LEMMA AcquireMoves ==
  ASSUME PlaceType, MutexInv, NEW c \in Cells, Acquiring(c)
  PROVE  /\ UNCHANGED <<role, failing, instance, result>>
         /\ pc[c] \in {"idle"} \cup AcquireLabels /\ pc'[c] \in AcquireLabels
         /\ \A k \in Kinds : Using(c, k)' <=> Using(c, k)
<1> USE LabelType DEF PlaceType
<1>1. /\ UNCHANGED <<role, failing, instance, result>>
      /\ pc[c] \in {"idle"} \cup AcquireLabels /\ pc'[c] \in AcquireLabels
  <2>1. CASE Check(c)
    BY <2>1, CheckMoves DEF Check, AcquireLabels
  <2>2. CASE Start(c) \/ LockToLoad(c)
    BY <2>2 DEF Start, LockToLoad, Goto, AcquireLabels, LoadLabels, runVars
  <2>3. CASE LookAgain(c) \/ OpenLibrary(c) \/ OpenFails(c) \/ Claim(c)
    BY <2>3 DEF LookAgain, OpenLibrary, OpenFails, Claim, Goto, AcquireLabels, LoadLabels, runVars
  <2>4. CASE DropStrays(c) \/ CloseRejected(c)
    BY <2>4 DEF DropStrays, CloseRejected, Goto, AcquireLabels, LoadLabels, runVars
  <2>5. CASE ReportFailure(c) \/ Publish(c) \/ RecordLoad(c)
    BY <2>5 DEF ReportFailure, Publish, RecordLoad, Goto, AcquireLabels, LoadLabels, runVars
  <2>6. ~(pc[c] \in LoadLabels /\ (ClearFactory(c) \/ CloseLibrary(c) \/ Retire(c)))
    BY DEF ClearFactory, CloseLibrary, Retire, Goto, LoadLabels
  <2>7. QED
    BY <2>1, <2>2, <2>3, <2>4, <2>5, <2>6 DEF Acquiring, SlotStep
<1>2. pc[c] = "idle" => role[c] = "algorithm"
  BY DEF MutexInv
<1>3. \A k \in Kinds : Using(c, k)' <=> Using(c, k)
  BY <1>1, <1>2 DEF Using, AcquireLabels, BorrowLabels, LoadLabels
<1>4. QED
  BY <1>1, <1>3

(* A cell that gives back its uses has nothing left to call. *)
LEMMA ReleaseMoves ==
  ASSUME PlaceType, NEW c \in Cells, Release(c)
  PROVE  /\ pc[c] \in ReleaseLabels /\ pc'[c] \in ReleaseLabels \cup {"done"}
         /\ UNCHANGED <<failing, instance, result>>
         /\ \A k \in Kinds : ~Using(c, k) /\ ~Using(c, k)'
<1> USE LabelType DEF PlaceType
<1>1. CASE GiveBack(c)
  <2>1. /\ pc[c] = "release" /\ pc'[c] \in {"release", "done", "lockUnload"}
        /\ UNCHANGED <<failing, instance, result>>
    BY <1>1, NextReleaseMoves DEF GiveBack, Goto, runVars
  <2>2. QED
    BY <2>1 DEF Using, AcquireLabels, BorrowLabels, LoadLabels, ReleaseLabels, UnloadLabels
<1>2. CASE NothingToUnload(c) \/ Retire(c)
  <2>1. /\ pc[c] \in {"unload", "retire"} /\ pc'[c] \in {"release", "done"}
        /\ UNCHANGED <<failing, instance, result>>
    BY <1>2, NextReleaseMoves DEF NothingToUnload, Retire, runVars
  <2>2. QED
    BY <2>1 DEF Using, AcquireLabels, BorrowLabels, LoadLabels, ReleaseLabels, UnloadLabels
<1>3. CASE LockToUnload(c) \/ ClearFactory(c) \/ CloseLibrary(c)
  <2>1. /\ pc[c] \in ReleaseLabels /\ pc'[c] \in UnloadLabels
        /\ UNCHANGED <<failing, instance, result>>
    BY <1>3 DEF LockToUnload, ClearFactory, CloseLibrary, Goto, runVars, ReleaseLabels, UnloadLabels
  <2>2. QED
    BY <2>1 DEF Using, AcquireLabels, BorrowLabels, LoadLabels, ReleaseLabels, UnloadLabels
<1>4. QED
  BY <1>1, <1>2, <1>3 DEF Release

LEMMA RunOwn ==
  ASSUME PlaceType, SlotType, RegistrarType, RunType, MutexInv, PhaseInv, PlaceInv, SlotInv,
         RunInv, NEW c \in Cells, CellStep(c), NEW k \in Kinds
  PROVE  RunOK(c, k)'
<1>1. RunOK(c, k) /\ Target(c) \in Slots /\ Plugin[c][k] \in Slots
  BY TargetType, PluginType DEF RunInv
<1>2. \A l \in Kinds : Plugin[c][l] \in Slots
  BY PluginType
<1>3. Using(c, k) => state'[Plugin[c][k]] = "Loaded"
  BY <1>1, UsingOwes, VerdictsKept DEF RunOK
<1>4. /\ \A l \in Kinds : state[Plugin[c][l]] = "Failed" => state'[Plugin[c][l]] = "Failed"
      /\ state[Target(c)] = "Failed" => state'[Target(c)] = "Failed"
      /\ state[Plugin[c][k]] \in {"Loaded", "Unloaded"} =>
           state'[Plugin[c][k]] \in {"Loaded", "Unloaded"}
  BY <1>1, <1>2, VerdictsKept
<1> USE LabelType DEF PlaceType, RunType
<1>5. CASE Acquiring(c)
  <2>1. /\ UNCHANGED <<role, failing, instance, result>>
        /\ pc[c] \in {"idle"} \cup AcquireLabels /\ pc'[c] \in AcquireLabels
        /\ Using(c, k)' <=> Using(c, k)
    BY <1>5, AcquireMoves DEF Acquiring
  <2>2. failing[c] = "none"
    BY <1>1, <2>1 DEF RunOK
  <2>3. QED
    BY <1>1, <1>3, <2>1, <2>2
       DEF RunOK, AcquireLabels, BorrowLabels, LoadLabels, ReleaseLabels, UnloadLabels
<1>6. CASE CheckAgain(c) \/ Unlock(c)
  <2>1. pc[c] \in {"checkAgain", "answer"} /\ Answer(c) /\ UNCHANGED <<state, instance, result>>
    BY <1>6 DEF CheckAgain, Unlock, slotVars
  <2>2. failing[c] = "none" /\ pc[c] \in AcquireLabels
    BY <1>1, <2>1 DEF RunOK, AcquireLabels, LoadLabels
  <2>3. CASE state[Target(c)] = "Loaded"
    <3>1. /\ role'[c] = "mission control" /\ failing'[c] = failing[c]
          /\ pc'[c] = IF role[c] = "algorithm" THEN "check" ELSE "prepare"
      BY <2>1, <2>3, AnswerMoves
    <3>2. Using(c, k)' => k = role[c] \/ Using(c, k)
      BY <2>2, <3>1 DEF Using, AcquireLabels, BorrowLabels, LoadLabels
    <3>3. Using(c, k)' => state'[Plugin[c][k]] = "Loaded"
      BY <1>1, <2>1, <2>3, <3>2 DEF RunOK, Target
    <3>4. Using(c, k) => Using(c, k)'
      BY <2>2, <3>1 DEF Using, AcquireLabels, BorrowLabels, LoadLabels
    <3>5. QED
      BY <1>1, <2>1, <2>2, <3>1, <3>3, <3>4
         DEF RunOK, AcquireLabels, BorrowLabels, LoadLabels, ReleaseLabels, UnloadLabels
  <2>4. CASE state[Target(c)] # "Loaded"
    <3>1. role'[c] = role[c] /\ failing'[c] = "unavailable" /\ pc'[c] = "unwind"
      BY <2>1, <2>4, AnswerMoves
    <3>2. Using(c, k)' <=> Using(c, k)
      BY <2>1, <2>2, <3>1 DEF Using, AcquireLabels, BorrowLabels, LoadLabels
    <3>3. state[Target(c)] = "Failed" /\ Target(c)' = Target(c)
      BY <2>1, <2>4, <3>1, AnswerSays DEF Target
    <3>4. role[c] \in Kinds /\ state'[Plugin[c][role[c]]] = "Failed"
      BY <2>1, <3>3 DEF Target
    <3>5. QED
      BY <1>1, <2>1, <3>1, <3>2, <3>3, <3>4
         DEF RunOK, AcquireLabels, BorrowLabels, LoadLabels, ReleaseLabels, UnloadLabels
  <2>5. QED
    BY <2>3, <2>4
<1>7. CASE MakeAlgorithm(c) \/ MakeMissionControl(c)
  <2>1. /\ pc[c] \in BorrowLabels /\ pc'[c] \in BorrowLabels
        /\ UNCHANGED <<state, role, failing, result>>
    BY <1>7 DEF MakeAlgorithm, MakeMissionControl, Goto, BorrowLabels, slotVars
  <2>2. Using(c, k) /\ Using(c, k)'
    BY <2>1 DEF Using
  <2>3. instance'[c][k] = instance[c][k] \/ instance'[c][k] = factory[Plugin[c][k]]
    <3>1. PICK l \in Kinds : instance' = [instance EXCEPT ![c][l] = factory[Plugin[c][l]]]
      BY <1>7 DEF MakeAlgorithm, MakeMissionControl
    <3>2. instance'[c] = [instance[c] EXCEPT ![l] = factory[Plugin[c][l]]]
      BY <3>1
    <3>3. instance[c] \in [Kinds -> Slots \cup {None}]
      OBVIOUS
    <3>4. QED
      BY <3>2, <3>3
  <2>4. factory[Plugin[c][k]] \in {None, Plugin[c][k]}
    BY <1>1, <2>2 DEF RunOK, SlotInv, SlotOK
  <2>5. failing[c] = "none"
    BY <1>1, <2>1 DEF RunOK
  <2>6. QED
    BY <1>1, <2>1, <2>2, <2>3, <2>4, <2>5 DEF RunOK, BorrowLabels, ReleaseLabels, UnloadLabels
<1>8. CASE RunReturns(c) \/ RunThrows(c)
  <2>1. /\ pc[c] \in BorrowLabels /\ pc'[c] = "unwind" /\ UNCHANGED <<state, role, instance>>
        /\ \/ failing'[c] = "exception"
           \/ failing'[c] = failing[c] /\ result'[c] = "scored"
    BY <1>8 DEF RunReturns, RunThrows, Goto, BorrowLabels, slotVars
  <2>2. failing[c] = "none"
    BY <1>1, <2>1 DEF RunOK
  <2>3. Using(c, k) /\ Using(c, k)'
    BY <2>1, <2>2 DEF Using
  <2>4. QED
    BY <1>1, <2>1, <2>2, <2>3 DEF RunOK, AcquireLabels, BorrowLabels, LoadLabels, ReleaseLabels,
                                  UnloadLabels
<1>9. CASE DestroyInstance(c)
  <2>1. /\ UNCHANGED <<state, pc, role, failing, result>>
        /\ instance'[c][k] = instance[c][k] \/ instance'[c][k] = None
    <3>1. PICK l \in Kinds : instance' = [instance EXCEPT ![c][l] = None]
      BY <1>9 DEF DestroyInstance
    <3>2. instance'[c] = [instance[c] EXCEPT ![l] = None]
      BY <3>1
    <3>3. instance[c] \in [Kinds -> Slots \cup {None}]
      OBVIOUS
    <3>4. UNCHANGED <<state, pc, role, failing, result>>
      BY <1>9 DEF DestroyInstance, slotVars
    <3>5. QED
      BY <3>2, <3>3, <3>4
  <2>2. QED
    BY <1>1, <2>1 DEF RunOK, Using, Target
<1>10. CASE LeaveTry(c) \/ Catch(c)
  <2>1. /\ pc[c] = "unwind" /\ pc'[c] = "release" /\ UNCHANGED <<state, failing, instance>>
        /\ instance[c][k] = None
        /\ IF failing[c] = "none" THEN result' = result ELSE result'[c] = "error"
    BY <1>10 DEF LeaveTry, Catch, Torn, Goto, runVars, slotVars
  <2>2. ~Using(c, k)'
    BY <2>1 DEF Using, AcquireLabels, BorrowLabels, LoadLabels
  <2>3. QED
    BY <1>1, <2>1, <2>2 DEF RunOK, AcquireLabels, BorrowLabels, LoadLabels, ReleaseLabels,
                            UnloadLabels
<1>11. CASE Release(c)
  <2>1. /\ pc[c] \in ReleaseLabels /\ pc'[c] \in ReleaseLabels \cup {"done"}
        /\ UNCHANGED <<failing, instance, result>>
    BY <1>11, ReleaseMoves
  <2>2. ~Using(c, k) /\ ~Using(c, k)'
    BY <1>11, ReleaseMoves
  <2>3. QED
    BY <1>1, <1>4, <2>1, <2>2
       DEF RunOK, AcquireLabels, BorrowLabels, LoadLabels, ReleaseLabels, UnloadLabels
<1>12. SlotStep(c) => pc[c] \in LoadLabels \/ Release(c)
  BY DEF SlotStep, Release, LookAgain, OpenLibrary, OpenFails, Claim, DropStrays, CloseRejected,
         ReportFailure, Publish, RecordLoad, Goto, LoadLabels
<1>13. CASE SlotStep(c)
  BY <1>5, <1>11, <1>12, <1>13 DEF Acquiring
<1>14. CASE Quiet(c)
  <2>1. CASE Run(c)
    BY <1>7, <1>8, <1>9, <1>10, <2>1 DEF Run
  <2>2. CASE GiveBack(c) \/ LockToUnload(c) \/ NothingToUnload(c)
    BY <1>11, <2>2 DEF Release
  <2>3. CASE Start(c) \/ Check(c) \/ LockToLoad(c)
    BY <1>5, <2>3 DEF Acquiring
  <2>4. CASE CheckAgain(c) \/ Unlock(c)
    BY <1>6, <2>4
  <2>5. QED
    BY <1>14, <2>1, <2>2, <2>3, <2>4 DEF Quiet
<1>15. QED
  BY <1>13, <1>14, QuietOrNot

LEMMA RunStep ==
  ASSUME PlaceType, SlotType, RegistrarType, RunType, MutexInv, PhaseInv, PlaceInv, SlotInv,
         RunInv, NEW c \in Cells, CellStep(c)
  PROVE  RunInv'
BY RunOwn, RunOthers DEF RunInv


-----------------------------------------------------------------------------
(* The steps of main, and the whole. *)

LEMMA InitCodeInv == Init => CodeInv
<1> SUFFICES ASSUME Init
             PROVE  CodeInv
  OBVIOUS
<1> USE RegistryAssumption DEF Init
<1>1. TypeOK
  <2>1. PlaceType /\ CountType /\ RunType
    BY LabelType DEF PlaceType, CountType, RunType
  <2>2. SlotType
    BY DEF SlotType
  <2>3. RegistrarType
    <3>1. [k \in Kinds |-> 0] \in [Kinds -> Nat]
      OBVIOUS
    <3>2. QED
      BY <3>1, EmptySeqType DEF RegistrarType
  <2>4. LogType
    BY EmptySeqType DEF LogType
  <2>5. QED
    BY <2>1, <2>2, <2>3, <2>4, TypeParts
<1>2. MutexInv
  BY DEF MutexInv, LoadLabels, UnloadLabels, BorrowLabels
<1>3. PendingInv /\ PhaseInv /\ RegistrarInv
  <2>1. PendingInv
    BY DEF PendingInv
  <2>2. PhaseInv
    BY DEF PhaseInv
  <2>3. RegistrarInv
    <3>1. \A k \in Kinds : registrar[k] = <<>>
      OBVIOUS
    <3>2. \A k \in Kinds : DOMAIN registrar[k] = {}
      BY <3>1, EmptySeqType
    <3>3. QED
      BY <3>2 DEF RegistrarInv
  <2>4. QED
    BY <2>1, <2>2, <2>3
<1>4. SlotInv
  <2>1. \A s, labels : "idle" \notin labels => ~At(s, labels)
    BY DEF At
  <2>2. QED
    BY <2>1 DEF SlotInv, SlotOK
<1>5. PlaceInv
  BY DEF PlaceInv, PlaceOK, UnloadLabels
<1>6. RunInv
  BY DEF RunInv, RunOK, Using, AcquireLabels, BorrowLabels, LoadLabels, ReleaseLabels, UnloadLabels
<1>7. QED
  BY <1>1, <1>2, <1>3, <1>4, <1>5, <1>6 DEF CodeInv

LEMMA CellStepCodeInv ==
  ASSUME CodeInv, NEW c \in Cells, CellStep(c)
  PROVE  CodeInv'
<1>1. /\ PlaceType /\ SlotType /\ CountType /\ RegistrarType /\ LogType /\ RunType
      /\ MutexInv /\ PendingInv /\ SlotInv /\ PlaceInv /\ RegistrarInv /\ RunInv /\ PhaseInv
  BY TypeParts DEF CodeInv
<1>2. TypeOK'
  <2>1. Target(c) \in Slots
    BY <1>1, TargetType
  <2>2. pc[c] = "judge" => \A k \in Kinds : before[c][k] = 0
    BY <1>1 DEF RegistrarInv
  <2>3. pc[c] = "release" => pending[Target(c)] # 0
    <3>1. SUFFICES ASSUME pc[c] = "release"
                   PROVE  pending[Target(c)] # 0
      OBVIOUS
    <3>2. c \in Owing(Target(c))
      <4>1. role[c] \in Kinds
        BY <1>1, TargetType
      <4>2. Owes(c, role[c])
        BY <3>1, <4>1, LabelType DEF Owes
      <4>3. QED
        BY <1>1, <4>2, TargetType DEF Owing
    <3>3. pending[Target(c)] = Cardinality(Owing(Target(c)))
      BY <1>1, <2>1, StepsAfterReserve DEF PendingInv
    <3>4. QED
      BY <3>2, <3>3, OwingFinite, FS_EmptySet
  <2>4. PlaceType' /\ SlotType' /\ CountType' /\ RegistrarType' /\ LogType' /\ RunType'
    BY <1>1, <2>1, <2>2, <2>3, PlaceTypeStep, SlotTypeStep, CountTypeStep, RegistrarTypeStep,
       LogTypeStep, RunTypeStep
  <2>5. QED
    BY <2>4
       DEF TypeOK, PlaceType, SlotType, CountType, RegistrarType, LogType, RunType
<1>3. MutexInv' /\ RegistrarInv'
  BY <1>1, MutexStep, RegistrarStep
<1>4. PendingInv'
  BY <1>1, PendingStep
<1>5. SlotInv'
  BY <1>1, SlotInvStep
<1>6. PlaceInv'
  BY <1>1, PlaceStep
<1>7. RunInv'
  BY <1>1, RunStep
<1>8. PhaseInv'
  BY <1>1, StepsAfterReserve DEF PhaseInv
<1>9. QED
  BY <1>2, <1>3, <1>4, <1>5, <1>6, <1>7, <1>8 DEF CodeInv

LEMMA ReserveCodeInv == CodeInv /\ Reserve => CodeInv'
<1> SUFFICES ASSUME CodeInv, Reserve
             PROVE  CodeInv'
  OBVIOUS
<1>1. /\ phase = "discovered" /\ phase' = "dispatched"
      /\ pending' = [s \in Slots |-> pending[s] + Cardinality(UsersOf(s))]
      /\ UNCHANGED <<state, attempts, factory, mapped, opens, closes, peak, registrar, mutex,
                     before, loadErrors, runErrors, lifecycle, pc, role, instance, failing, result>>
  BY DEF Reserve, loaderVars, logVars, runVars
<1>2. \A c \in Cells : pc[c] = "idle"
  BY <1>1 DEF CodeInv, PhaseInv
<1>3. ASSUME NEW s \in Slots
      PROVE  pending'[s] = Cardinality(UsersOf(s)) /\ Owing(s)' = UsersOf(s)
                                                  /\ Owing(s) = UsersOf(s)
  <2>1. pending'[s] = Cardinality(UsersOf(s))
    BY <1>1, UsersFinite DEF CodeInv, PendingInv
  <2>2. Owing(s) = UsersOf(s) /\ Owing(s)' = UsersOf(s)
    BY <1>1, <1>2 DEF Owing, Owes, UsersOf, ReleaseLabels, UnloadLabels
  <2>3. QED
    BY <2>1, <2>2
<1>4. TypeOK'
  <2>1. pending' \in [Slots -> Nat]
    BY <1>1, <1>3, UsersFinite
  <2>2. QED
    BY <1>1, <2>1 DEF CodeInv, TypeOK
<1>5. PendingInv'
  BY <1>1, <1>3 DEF PendingInv
<1>6. MutexInv' /\ RegistrarInv'
  <2>1. MutexInv'
    BY <1>1 DEF CodeInv, MutexInv
  <2>2. RegistrarInv'
    BY <1>1 DEF CodeInv, RegistrarInv, At, Target
  <2>3. QED
    BY <2>1, <2>2
<1>7. SlotInv'
  BY <1>1, <1>3 DEF CodeInv, SlotInv, SlotOK, At, Target
<1>8. PlaceInv'
  BY <1>1, <1>2 DEF PlaceInv, PlaceOK, UnloadLabels
<1>9. RunInv'
  <2>1. ASSUME NEW c \in Cells, NEW k \in Kinds
        PROVE  RunOK(c, k)'
    <3>1. RunOK(c, k)
      BY DEF CodeInv, RunInv
    <3>2. Using(c, k)' <=> Using(c, k)
      BY <1>1 DEF Using
    <3>3. QED
      BY <1>1, <3>1, <3>2 DEF RunOK, Target
  <2>2. QED
    BY <2>1 DEF RunInv
<1>10. PhaseInv'
  BY <1>1 DEF PhaseInv
<1>11. QED
  BY <1>4, <1>5, <1>6, <1>7, <1>8, <1>9, <1>10 DEF CodeInv

LEMMA ClearRegistrarCodeInv == CodeInv /\ ClearRegistrar => CodeInv'
<1> SUFFICES ASSUME CodeInv, ClearRegistrar
             PROVE  CodeInv'
  OBVIOUS
<1>1. /\ phase = "dispatched" /\ phase' = "cleared" /\ registrar' = [k \in Kinds |-> <<>>]
      /\ \A c \in Cells : pc[c] = "done"
      /\ UNCHANGED <<state, pending, attempts, factory, mapped, opens, closes, peak, mutex,
                     before, loadErrors, runErrors, lifecycle, pc, role, instance, failing, result>>
  BY DEF ClearRegistrar, BatchOver, slotVars, loaderVars, logVars, runVars
<1>2. TypeOK'
  BY <1>1 DEF CodeInv, TypeOK
<1>3. MutexInv' /\ RegistrarInv'
  <2>1. MutexInv'
    BY <1>1 DEF CodeInv, MutexInv
  <2>2. RegistrarInv'
    BY <1>1 DEF CodeInv, RegistrarInv
  <2>3. QED
    BY <2>1, <2>2
<1>4. PendingInv'
  BY <1>1 DEF CodeInv, PendingInv, Owing, Owes
<1>5. SlotInv'
  <2>1. ASSUME NEW s \in Slots
        PROVE  SlotOK(s)'
    <3>1. SlotOK(s)
      BY DEF CodeInv, SlotInv
    <3>2. Owing(s)' = Owing(s) /\ \A labels : At(s, labels)' <=> At(s, labels)
      BY <1>1 DEF Owing, Owes, At, Target
    <3>3. QED
      BY <1>1, <3>1, <3>2 DEF SlotOK
  <2>2. QED
    BY <2>1 DEF SlotInv
<1>6. PlaceInv'
  BY <1>1 DEF PlaceInv, PlaceOK, UnloadLabels
<1>7. RunInv'
  <2>1. ASSUME NEW c \in Cells, NEW k \in Kinds
        PROVE  RunOK(c, k)'
    <3>1. RunOK(c, k)
      BY DEF CodeInv, RunInv
    <3>2. Using(c, k)' <=> Using(c, k)
      BY <1>1 DEF Using
    <3>3. QED
      BY <1>1, <3>1, <3>2 DEF RunOK, Target
  <2>2. QED
    BY <2>1 DEF RunInv
<1>8. PhaseInv'
  BY <1>1 DEF PhaseInv
<1>9. QED
  BY <1>2, <1>3, <1>4, <1>5, <1>6, <1>7, <1>8 DEF CodeInv

LEMMA ReleaseAllCodeInv == CodeInv /\ ReleaseAll => CodeInv'
<1> SUFFICES ASSUME CodeInv, ReleaseAll
             PROVE  CodeInv'
  OBVIOUS
<1>1. /\ phase = "cleared" /\ phase' = "swept"
      /\ state' = [s \in Slots |-> IF state[s] = "Loaded" THEN "Unloaded" ELSE state[s]]
      /\ factory' = [s \in Slots |-> IF state[s] = "Loaded" THEN None ELSE factory[s]]
      /\ mapped' = [s \in Slots |-> mapped[s] /\ state[s] # "Loaded"]
      /\ UNCHANGED <<pending, attempts, opens, peak, registrar, mutex, before, loadErrors,
                     runErrors, pc, role, instance, failing, result>>
  BY DEF ReleaseAll, runVars
<1>2. \A c \in Cells : pc[c] = "done"
  BY <1>1 DEF CodeInv, PhaseInv
<1>3. \A s, labels : "done" \notin labels => ~At(s, labels) /\ ~At(s, labels)'
  BY <1>1, <1>2 DEF At
<1>4. TypeOK'
  <2>1. Cardinality({s \in Slots : mapped[s] /\ state[s] = "Loaded"}) \in Nat
    BY RegistryAssumption, FS_Subset, FS_CardinalityType
  <2>2. CountType'
    BY <1>1, <2>1 DEF CodeInv, TypeOK, CountType, ReleaseAll
  <2>3. SlotType'
    BY <1>1 DEF CodeInv, TypeOK, SlotType
  <2>4. LogType'
    <3>1. ASSUME NEW s \in Slots
          PROVE  Append(lifecycle[s], "UNLOAD") \in Seq({"LOAD", "LOAD_FAILED", "UNLOAD"})
                 /\ lifecycle[s] \in Seq({"LOAD", "LOAD_FAILED", "UNLOAD"})
      BY DEF CodeInv, TypeOK
    <3>2. lifecycle' \in [Slots -> Seq({"LOAD", "LOAD_FAILED", "UNLOAD"})]
      BY <3>1 DEF ReleaseAll
    <3>3. QED
      BY <1>1, <3>2 DEF CodeInv, TypeOK, LogType
  <2>5. PlaceType' /\ RegistrarType' /\ RunType'
    BY <1>1 DEF CodeInv, TypeOK, PlaceType, RegistrarType, RunType
  <2>6. QED
    BY <2>2, <2>3, <2>4, <2>5
       DEF TypeOK, PlaceType, SlotType, CountType, RegistrarType, LogType, RunType
<1>5. MutexInv' /\ RegistrarInv'
  <2>1. MutexInv'
    BY <1>1 DEF CodeInv, MutexInv
  <2>2. RegistrarInv'
    BY <1>1 DEF CodeInv, RegistrarInv, At, Target
  <2>3. QED
    BY <2>1, <2>2
<1>6. PendingInv'
  BY <1>1 DEF CodeInv, PendingInv, Owing, Owes
<1>7. SlotInv'
  <2>1. ASSUME NEW s \in Slots
        PROVE  SlotOK(s)'
    <3>1. SlotOK(s) /\ state[s] \in {"NotLoaded", "Loaded", "Failed", "Unloaded"}
      BY DEF CodeInv, SlotInv, TypeOK
    <3>2. QED
      BY <1>1, <1>3, <3>1 DEF SlotOK
  <2>2. QED
    BY <2>1 DEF SlotInv
<1>8. PlaceInv'
  BY <1>1, <1>2 DEF PlaceInv, PlaceOK, UnloadLabels
<1>9. RunInv'
  <2>1. ASSUME NEW c \in Cells, NEW k \in Kinds
        PROVE  RunOK(c, k)'
    <3>1. RunOK(c, k) /\ \A l \in Kinds : Plugin[c][l] \in Slots
      BY PluginType DEF CodeInv, RunInv
    <3>2. ~Using(c, k) /\ ~Using(c, k)'
      BY <1>1, <1>2 DEF Using, AcquireLabels, BorrowLabels, LoadLabels
    <3>3. QED
      BY <1>1, <1>2, <3>1, <3>2
         DEF RunOK, AcquireLabels, BorrowLabels, LoadLabels, ReleaseLabels, UnloadLabels
  <2>2. QED
    BY <2>1 DEF RunInv
<1>10. PhaseInv'
  BY <1>1, <1>2 DEF PhaseInv
<1>11. QED
  BY <1>4, <1>5, <1>6, <1>7, <1>8, <1>9, <1>10 DEF CodeInv

LEMMA StutterCodeInv == CodeInv /\ UNCHANGED vars => CodeInv'
<1> SUFFICES ASSUME CodeInv, UNCHANGED vars
             PROVE  CodeInv'
  OBVIOUS
<1>1. UNCHANGED <<state, pending, attempts, factory, mapped, opens, closes, peak, registrar, mutex,
                  before, loadErrors, runErrors, lifecycle, pc, role, instance, failing, result,
                  phase>>
  BY DEF vars, slotVars, loaderVars, logVars, runVars
<1>2. TypeOK'
  BY <1>1 DEF CodeInv, TypeOK
<1>3. MutexInv' /\ PhaseInv'
  BY <1>1 DEF CodeInv, MutexInv, PhaseInv
<1>4. PendingInv'
  BY <1>1 DEF CodeInv, PendingInv, Owing, Owes
<1>5. SlotInv'
  <2>1. ASSUME NEW s \in Slots
        PROVE  SlotOK(s)'
    <3>1. SlotOK(s)
      BY DEF CodeInv, SlotInv
    <3>2. Owing(s)' = Owing(s) /\ \A labels : At(s, labels)' <=> At(s, labels)
      BY <1>1 DEF Owing, Owes, At, Target
    <3>3. QED
      BY <1>1, <3>1, <3>2 DEF SlotOK
  <2>2. QED
    BY <2>1 DEF SlotInv
<1>6. PlaceInv'
  BY <1>1 DEF CodeInv, PlaceInv, PlaceOK, Owing, Owes, Target
<1>7. RegistrarInv'
  BY <1>1 DEF CodeInv, RegistrarInv, At, Target
<1>8. RunInv'
  <2>1. ASSUME NEW c \in Cells, NEW k \in Kinds
        PROVE  RunOK(c, k)'
    <3>1. RunOK(c, k)
      BY DEF CodeInv, RunInv
    <3>2. Using(c, k)' <=> Using(c, k)
      BY <1>1 DEF Using
    <3>3. QED
      BY <1>1, <3>1, <3>2 DEF RunOK, Target
  <2>2. QED
    BY <2>1 DEF RunInv
<1>9. QED
  BY <1>2, <1>3, <1>4, <1>5, <1>6, <1>7, <1>8 DEF CodeInv

LEMMA NextCodeInv == CodeInv /\ [Next]_vars => CodeInv'
<1>1. [Next]_vars => \/ Reserve \/ ClearRegistrar \/ ReleaseAll \/ UNCHANGED vars
                     \/ \E c \in Cells : CellStep(c)
  BY DEF Next, Terminated, CellStep
<1>2. QED
  BY <1>1, ReserveCodeInv, ClearRegistrarCodeInv, ReleaseAllCodeInv, StutterCodeInv, CellStepCodeInv

LEMMA CodeInvariant == Spec => []CodeInv
BY InitCodeInv, NextCodeInv, PTL DEF Spec

-----------------------------------------------------------------------------
(* The logs and the counters. *)

Unloading == {"lockUnload"} \cup UnloadLabels

LEMMA LogMoves ==
  ASSUME NEW c \in Cells, CellStep(c)
  PROVE  /\ ReportFailure(c) \/ UNCHANGED loadErrors
         /\ ReportFailure(c) \/ RecordLoad(c) \/ Retire(c) \/ UNCHANGED lifecycle
         /\ RunReturns(c) \/ Catch(c) \/ UNCHANGED runErrors
         /\ OpenLibrary(c) \/ CloseRejected(c) \/ CloseLibrary(c) \/ UNCHANGED loaderVars
BY DEF CellStep, Ensure, Run, Release, Start, Check, CheckAgain, LockToLoad, LookAgain,
       OpenLibrary, OpenFails, Claim, DropStrays, CloseRejected, ReportFailure, Publish,
       RecordLoad, Unlock, MakeAlgorithm, MakeMissionControl, RunReturns, RunThrows,
       DestroyInstance, LeaveTry, Catch, GiveBack, LockToUnload, NothingToUnload, ClearFactory,
       CloseLibrary, Retire, logVars

(* A thread on its way to unload a loaded slot goes on until it has. *)
LEMMA StillUnloading ==
  ASSUME PlaceType, RegistrarType, RunType, NEW c \in Cells, CellStep(c), ~Retire(c),
         NEW s \in Slots, state[s] = "Loaded", At(s, Unloading)
  PROVE  At(s, Unloading)'
<1>1. PICK d \in Cells : pc[d] \in Unloading /\ Target(d) = s
  BY DEF At
<1>2. CASE d # c
  <2>1. pc'[d] = pc[d] /\ role'[d] = role[d]
    BY <1>2, OthersStay
  <2>2. QED
    BY <1>1, <2>1 DEF At, Target
<1>3. CASE d = c
  <2>1. ~NothingToUnload(c)
    BY <1>1, <1>3 DEF NothingToUnload
  <2>2. LockToUnload(c) \/ ClearFactory(c) \/ CloseLibrary(c)
    <3>1. ~Start(c) /\ ~Run(c) /\ ~GiveBack(c)
      BY <1>1, <1>3 DEF Unloading, UnloadLabels, Start, Run, GiveBack, MakeAlgorithm,
         MakeMissionControl, RunReturns, RunThrows, DestroyInstance, LeaveTry, Catch, Goto
    <3>2. ~Ensure(c)
      BY <1>1, <1>3 DEF Unloading, UnloadLabels, Ensure, Check, CheckAgain, LockToLoad, LookAgain,
         OpenLibrary, OpenFails, Claim, DropStrays, CloseRejected, ReportFailure, Publish,
         RecordLoad, Unlock, Goto
    <3>3. QED
      BY <2>1, <3>1, <3>2 DEF CellStep, Release
  <2>3. UNCHANGED role /\ pc'[c] \in Unloading
    BY <2>2 DEF LockToUnload, ClearFactory, CloseLibrary, Goto, Unloading, UnloadLabels, PlaceType
  <2>4. QED
    BY <1>1, <1>3, <2>3 DEF At, Target
<1>4. QED
  BY <1>2, <1>3

(* Whoever gives back the last use of a loaded slot goes to unload it. *)
LEMMA LastUseUnloads ==
  ASSUME CodeInv, NEW s \in Slots, NEW c \in Cells, CellStep(c), ~Retire(c),
         state[s] = "Loaded",
         UsersOf(s) # {} /\ Owing(s) = {} => At(s, Unloading),
         UsersOf(s) # {}, Owing(s)' = {}
  PROVE  At(s, Unloading)'
<1>1. /\ PlaceType /\ SlotType /\ RegistrarType /\ RunType /\ MutexInv /\ PendingInv /\ PhaseInv
  BY TypeParts DEF CodeInv
<1>2. CASE Owing(s) = {}
  BY <1>1, <1>2, StillUnloading
<1>3. CASE Owing(s) # {}
  <2>1. GiveBack(c)
    BY <1>1, <1>3, OwingKept
  <2>2. s = Target(c) /\ Owing(s) = {c}
    BY <1>1, <1>3, <2>1, OwingReturned
  <2>3. pending[s] = 1
    <3>1. phase # "discovered"
      BY <1>1, StepsAfterReserve
    <3>2. QED
      BY <1>1, <2>2, <3>1, FS_Singleton DEF PendingInv
  <2>4. UNCHANGED role /\ pc'[c] = "lockUnload"
    BY <1>1, <2>1, <2>2, <2>3 DEF GiveBack, Goto, PlaceType
  <2>5. QED
    BY <2>2, <2>4 DEF At, Target, Unloading
<1>4. QED
  BY <1>2, <1>3

LEMMA StartedStays ==
  ASSUME CodeInv, NEW s \in Slots, Started(s), NEW c \in Cells, CellStep(c)
  PROVE  Started(s)'
<1>1. PlaceType /\ RegistrarType /\ RunType
  BY TypeParts DEF CodeInv
<1>2. PICK d \in UsersOf(s) : pc[d] # "idle"
  BY DEF Started
<1>3. pc'[d] # "idle"
  BY <1>1, <1>2, OthersStay, NotIdleAgain DEF UsersOf
<1>4. QED
  BY <1>3 DEF Started, UsersOf

LEMMA SlotBooksQuiet ==
  ASSUME CodeInv, NEW s \in Slots, SlotBooks(s), NEW c \in Cells, Quiet(c)
  PROVE  SlotBooks(s)'
<1>1. CellStep(c) /\ ~Retire(c) /\ ~ReportFailure(c) /\ ~RecordLoad(c)
  <2>1. CellStep(c)
    BY DEF Quiet, CellStep, Ensure, Release
  <2>2. pc[c] \notin Inside
    BY QuietMoves, TypeParts DEF CodeInv
  <2>3. QED
    BY <2>1, <2>2 DEF Inside, Retire, ReportFailure, RecordLoad, Goto
<1>2. /\ PlaceType /\ RegistrarType /\ RunType /\ PhaseInv
  BY TypeParts DEF CodeInv
<1>3. /\ UNCHANGED <<state, attempts, lifecycle, loadErrors>> /\ phase # "discovered"
      /\ pc[c] \notin Inside /\ pc'[c] \notin Inside
  BY <1>1, <1>2, QuietMoves, LogMoves, StepsAfterReserve
<1>4. /\ At(s, {"recordLoad"})' <=> At(s, {"recordLoad"})
      /\ At(s, {"reportFailure"})' <=> At(s, {"reportFailure"})
  BY <1>1, <1>2, <1>3, AtKept DEF Inside
<1>5. state[s] = "Loaded" /\ UsersOf(s) # {} /\ Owing(s)' = {} => At(s, Unloading)'
  BY <1>1, <1>3, LastUseUnloads DEF SlotBooks, Unloading
<1>6. UsersOf(s)' = UsersOf(s)
  BY DEF UsersOf
<1>7. Started(s) => Started(s)'
  BY <1>1, StartedStays
<1>8. QED
  BY <1>3, <1>4, <1>5, <1>6, <1>7 DEF SlotBooks, Unloading

LEMMA SlotBooksOthers ==
  ASSUME CodeInv, NEW s \in Slots, SlotBooks(s), NEW c \in Cells, CellStep(c), SlotStep(c),
         s # Target(c)
  PROVE  SlotBooks(s)'
<1>1. /\ PlaceType /\ SlotType /\ LogType /\ RegistrarType /\ RunType /\ MutexInv /\ PhaseInv
      /\ Target(c) \in Slots
  BY TypeParts, TargetType DEF CodeInv
<1>2. state'[s] = state[s] /\ attempts'[s] = attempts[s] /\ phase # "discovered"
  BY <1>1, OtherSlotsStay, StepsAfterReserve
<1>3. lifecycle'[s] = lifecycle[s] /\ loadErrors'[s] = loadErrors[s]
  BY <1>1, LogMoves DEF ReportFailure, RecordLoad, Retire, Record, LogType
<1>4. \A labels \in SUBSET Inside : ~At(s, labels) /\ ~At(s, labels)'
  BY <1>1, NobodyElseInside
<1>5. /\ ~At(s, {"recordLoad"}) /\ ~At(s, {"recordLoad"})'
      /\ ~At(s, {"reportFailure"}) /\ ~At(s, {"reportFailure"})'
  BY <1>4 DEF Inside
<1>6. state[s] = "Loaded" /\ UsersOf(s) # {} /\ Owing(s)' = {} => At(s, Unloading)'
  <2>1. SUFFICES ASSUME state[s] = "Loaded", UsersOf(s) # {}, Owing(s)' = {}
                 PROVE  At(s, Unloading)'
    OBVIOUS
  <2>2. Owing(s) = {}
    <3>1. ~GiveBack(c)
      BY <1>1, SlotStepPlace DEF GiveBack, Locked, LoadLabels, UnloadLabels
    <3>2. QED
      BY <1>1, <2>1, <3>1, OwingKept
  <2>3. PICK d \in Cells : pc[d] \in Unloading /\ Target(d) = s
    BY <1>2, <2>1, <2>2 DEF SlotBooks, At, Unloading
  <2>4. pc'[d] = pc[d] /\ role'[d] = role[d]
    BY <1>1, <2>3, OthersStay
  <2>5. QED
    BY <2>3, <2>4 DEF At, Target
<1>7. UsersOf(s)' = UsersOf(s)
  BY DEF UsersOf
<1>8. Started(s) => Started(s)'
  BY StartedStays
<1>9. QED
  BY <1>2, <1>3, <1>5, <1>6, <1>7, <1>8 DEF SlotBooks, Unloading

(* At the slot the holder of the mutex works on, action by action. *)
LEMMA SlotBooksTarget ==
  ASSUME CodeInv, NEW s \in Slots, SlotBooks(s), NEW c \in Cells, CellStep(c), SlotStep(c),
         s = Target(c), ~Retire(c)
  PROVE  SlotBooks(s)'
<1>1. /\ PlaceType /\ SlotType /\ LogType /\ RegistrarType /\ RunType /\ MutexInv /\ PhaseInv
      /\ SlotOK(s) /\ PlaceOK(c) /\ c \in UsersOf(s)
  BY TypeParts, TargetType DEF CodeInv, SlotInv, PlaceInv
<1>2. pc[c] \in Locked /\ UNCHANGED role
  BY <1>1, SlotStepPlace
<1>3. /\ {"recordLoad"} \in SUBSET Locked /\ {"reportFailure"} \in SUBSET Locked
      /\ {"publish"} \in SUBSET Locked
  BY DEF Locked, LoadLabels, UnloadLabels
<1>4. /\ At(s, {"recordLoad"}) <=> pc[c] = "recordLoad"
      /\ At(s, {"recordLoad"})' <=> pc'[c] = "recordLoad"
      /\ At(s, {"reportFailure"}) <=> pc[c] = "reportFailure"
      /\ At(s, {"reportFailure"})' <=> pc'[c] = "reportFailure"
  BY <1>1, <1>2, <1>3, AtTarget
<1>5. UsersOf(s)' = UsersOf(s)
  BY DEF UsersOf
(* The lines, the attempts and the error log. *)
<1>. DEFINE Lines ==
       /\ state[s] = "NotLoaded" => lifecycle[s] = <<>>
       /\ state[s] = "Loaded" =>
            lifecycle[s] = IF s \in Adopted \/ At(s, {"recordLoad"}) THEN <<>> ELSE <<"LOAD">>
       /\ At(s, {"recordLoad"}) => s \notin Adopted
       /\ state[s] = "Failed" =>
            lifecycle[s] = IF At(s, {"reportFailure"}) THEN <<>> ELSE <<"LOAD_FAILED">>
       /\ state[s] = "Unloaded" =>
            lifecycle[s] = IF s \in Adopted THEN <<>> ELSE <<"LOAD", "UNLOAD">>
       /\ loadErrors[s] = IF state[s] = "Failed" /\ ~At(s, {"reportFailure"}) THEN 1 ELSE 0
<1>6. Lines'
  <2>1. CASE LookAgain(c) \/ OpenLibrary(c) \/ Claim(c) \/ DropStrays(c)
    <3>1. UNCHANGED <<state, lifecycle, loadErrors>>
          /\ pc[c] \notin {"recordLoad", "reportFailure"}
          /\ pc'[c] \notin {"recordLoad", "reportFailure"}
      BY <1>1, <2>1 DEF LookAgain, OpenLibrary, Claim, DropStrays, Goto, PlaceType, slotVars, logVars
    <3>2. QED
      BY <1>4, <3>1 DEF SlotBooks
  <2>2. CASE OpenFails(c) \/ CloseRejected(c)
    <3>1. /\ UNCHANGED <<lifecycle, loadErrors>> /\ state' = [state EXCEPT ![s] = "Failed"]
          /\ pc[c] \in {"open", "reject"} /\ pc'[c] = "reportFailure"
      BY <1>1, <2>2 DEF OpenFails, CloseRejected, Goto, PlaceType, logVars
    <3>2. state[s] = "NotLoaded" /\ state'[s] = "Failed"
      BY <1>1, <3>1 DEF PlaceOK, SlotType
    <3>3. QED
      BY <1>4, <3>1, <3>2 DEF SlotBooks
  <2>3. CASE ReportFailure(c)
    <3>1. /\ UNCHANGED state /\ pc[c] = "reportFailure" /\ pc'[c] = "answer"
          /\ loadErrors' = [loadErrors EXCEPT ![s] = @ + 1]
          /\ lifecycle' = [lifecycle EXCEPT ![s] = Append(@, "LOAD_FAILED")]
      BY <1>1, <2>3 DEF ReportFailure, Record, Goto, PlaceType, slotVars
    <3>2. state[s] = "Failed" /\ lifecycle[s] = <<>> /\ loadErrors[s] = 0
      BY <1>1, <1>4, <3>1 DEF PlaceOK, SlotBooks
    <3>3. lifecycle'[s] = <<"LOAD_FAILED">> /\ loadErrors'[s] = 1
      BY <1>1, <3>1, <3>2 DEF LogType
    <3>4. QED
      BY <1>4, <3>1, <3>2, <3>3
  <2>4. CASE Publish(c)
    <3>1. /\ UNCHANGED <<lifecycle, loadErrors>> /\ state' = [state EXCEPT ![s] = "Loaded"]
          /\ pc[c] = "publish" /\ pc'[c] = "recordLoad"
      BY <1>1, <2>4 DEF Publish, Goto, PlaceType, logVars
    <3>2. state[s] = "NotLoaded" /\ state'[s] = "Loaded" /\ s \notin Adopted
      BY <1>1, <3>1 DEF PlaceOK, SlotType, SlotOK
    <3>3. QED
      BY <1>4, <3>1, <3>2 DEF SlotBooks
  <2>5. CASE RecordLoad(c)
    <3>1. /\ UNCHANGED <<state, loadErrors>> /\ pc[c] = "recordLoad" /\ pc'[c] = "answer"
          /\ lifecycle' = [lifecycle EXCEPT ![s] = Append(@, "LOAD")]
      BY <1>1, <2>5 DEF RecordLoad, Record, Goto, PlaceType, slotVars
    <3>2. state[s] = "Loaded" /\ s \notin Adopted /\ lifecycle[s] = <<>> /\ loadErrors[s] = 0
      BY <1>1, <1>4, <3>1 DEF PlaceOK, SlotBooks
    <3>3. lifecycle'[s] = <<"LOAD">>
      BY <1>1, <3>1, <3>2 DEF LogType
    <3>4. QED
      BY <1>4, <3>1, <3>2, <3>3
  <2>6. CASE ClearFactory(c) \/ CloseLibrary(c)
    <3>1. /\ UNCHANGED <<state, lifecycle, loadErrors>>
          /\ pc[c] \in {"unload", "close"} /\ pc'[c] \in {"close", "retire"}
      BY <1>1, <2>6 DEF ClearFactory, CloseLibrary, Goto, PlaceType, slotVars, logVars
    <3>2. QED
      BY <1>4, <3>1 DEF SlotBooks
  <2>7. QED
    BY <2>1, <2>2, <2>3, <2>4, <2>5, <2>6 DEF SlotStep
<1>7. (state[s] = "Loaded" /\ phase # "discovered" /\ UsersOf(s) # {} /\ Owing(s) = {} =>
        At(s, Unloading))'
  <2>1. CASE pc[c] \in LoadLabels
    <3>1. c \in Owing(s) /\ ~GiveBack(c)
      BY <1>1, <2>1, Borrows DEF Target, LoadLabels, ReleaseLabels, UnloadLabels, PlaceType, GiveBack
    <3>2. Owing(s)' # {}
      BY <1>1, <3>1, OwingKept
    <3>3. QED
      BY <3>2
  <2>2. CASE pc[c] \in UnloadLabels
    <3>1. ClearFactory(c) \/ CloseLibrary(c)
      BY <2>2 DEF SlotStep, UnloadLabels, LookAgain, OpenLibrary, OpenFails, Claim, DropStrays,
                  CloseRejected, ReportFailure, Publish, RecordLoad, Goto
    <3>2. pc'[c] \in Unloading
      BY <1>1, <3>1 DEF ClearFactory, CloseLibrary, Goto, PlaceType, Unloading, UnloadLabels
    <3>3. QED
      BY <1>2, <3>2 DEF At, Target
  <2>3. QED
    BY <1>2, <2>1, <2>2 DEF Locked
<1>8. Started(s)'
  <2>1. c \in UsersOf(s)' /\ pc'[c] # "idle"
    BY <1>1, <1>5, NotIdleAgain
  <2>2. QED
    BY <2>1 DEF Started
<1>. HIDE DEF Lines
<1>9. QED
  BY <1>6, <1>7, <1>8 DEF SlotBooks, Lines, Unloading

LEMMA SlotBooksRetire ==
  ASSUME CodeInv, NEW s \in Slots, SlotBooks(s), NEW c \in Cells, Retire(c), s = Target(c)
  PROVE  SlotBooks(s)'
<1>1. PlaceType /\ SlotType /\ LogType /\ MutexInv /\ PlaceOK(c) /\ c \in UsersOf(s)
  BY TypeParts, TargetType DEF CodeInv, PlaceInv
<1>2. /\ pc[c] = "retire" /\ state'[s] = "Unloaded" /\ UNCHANGED loadErrors
      /\ IF s \in Adopted THEN UNCHANGED lifecycle
                          ELSE lifecycle' = [lifecycle EXCEPT ![s] = Append(@, "UNLOAD")]
  BY <1>1 DEF Retire, Record, SlotType
<1>3. state[s] = "Loaded" /\ ~At(s, {"recordLoad"})
  <2>1. \A d \in Cells : pc[d] = "recordLoad" => d = c
    BY <1>1, <1>2, OneHolder DEF Locked, LoadLabels, UnloadLabels
  <2>2. QED
    BY <1>1, <1>2, <2>1 DEF PlaceOK, At
<1>4. loadErrors'[s] = 0
  BY <1>2, <1>3 DEF SlotBooks
<1>5. lifecycle'[s] = IF s \in Adopted THEN <<>> ELSE <<"LOAD", "UNLOAD">>
  <2>1. CASE s \in Adopted
    BY <1>2, <1>3, <2>1 DEF SlotBooks
  <2>2. CASE s \notin Adopted
    <3>1. lifecycle[s] = <<"LOAD">>
      BY <1>3, <2>2 DEF SlotBooks
    <3>2. QED
      BY <1>1, <1>2, <2>2, <3>1 DEF LogType
  <2>3. QED
    BY <2>1, <2>2
<1>6. ~At(s, {"recordLoad"})'
  <2>1. CellStep(c)
    BY DEF CellStep, Release
  <2>2. pc'[c] \in {"release", "done"}
    BY <1>1, NextReleaseMoves DEF Retire, PlaceType
  <2>3. pc[c] \notin {"recordLoad"} /\ pc'[c] \notin {"recordLoad"}
    BY <1>2, <2>2
  <2>4. QED
    BY <1>3, <2>1, <2>3, AtKept, TypeParts DEF CodeInv
<1>7. Started(s)'
  <2>1. c \in UsersOf(s)' /\ pc'[c] # "idle"
    BY <1>1, NotIdleAgain DEF CellStep, Release, UsersOf
  <2>2. QED
    BY <2>1 DEF Started
<1>8. QED
  BY <1>2, <1>4, <1>5, <1>6, <1>7 DEF SlotBooks

(* The lines of the run itself. *)
LEMMA RunBooksStep ==
  ASSUME CodeInv, NEW d \in Cells, RunBooks(d), NEW c \in Cells, CellStep(c)
  PROVE  RunBooks(d)'
<1>1. /\ PlaceType /\ LogType /\ RegistrarType /\ RunType /\ \A k \in Kinds : RunOK(c, k)
  BY TypeParts DEF CodeInv, RunInv
<1>2. CASE d # c
  <2>1. pc'[d] = pc[d] /\ failing'[d] = failing[d]
    BY <1>1, <1>2, OthersStay
  <2>2. runErrors'[d] = runErrors[d]
    BY <1>1, <1>2, LogMoves DEF RunReturns, Catch, LogType
  <2>3. QED
    BY <2>1, <2>2 DEF RunBooks
<1>3. CASE d = c
  <2>. USE DEF AcquireLabels, BorrowLabels, LoadLabels
  <2>1. CASE RunReturns(c)
    <3>1. pc[c] = "running" /\ pc'[c] = "unwind" /\ failing'[c] = failing[c]
      BY <1>1, <2>1 DEF RunReturns, Goto, PlaceType
    <3>2. failing[c] = "none"
      BY <1>1, <3>1, LabelType DEF RunOK
    <3>3. QED
      BY <1>3, <3>1, <3>2 DEF RunBooks
  <2>2. CASE Catch(c)
    <3>1. /\ pc[c] = "unwind" /\ pc'[c] = "release" /\ failing'[c] = failing[c]
          /\ runErrors'[c] = runErrors[c] + IF failing[c] = "exception" THEN 1 ELSE 0
      BY <1>1, <2>2 DEF Catch, Goto, PlaceType, LogType
    <3>2. failing[c] = "exception" => runErrors[c] = 0
      BY <1>3, <3>1 DEF RunBooks
    <3>3. failing[c] = "unavailable" => runErrors[c] = 0
      BY <1>3 DEF RunBooks
    <3>4. QED
      BY <1>3, <3>1, <3>2, <3>3 DEF RunBooks
  <2>3. CASE RunThrows(c)
    <3>1. /\ pc[c] \in BorrowLabels /\ pc'[c] = "unwind" /\ failing'[c] = "exception"
          /\ UNCHANGED runErrors
      BY <1>1, <2>3 DEF RunThrows, PlaceType, logVars
    <3>2. QED
      BY <1>3, <3>1 DEF RunBooks
  <2>4. CASE CheckAgain(c) \/ Unlock(c)
    <3>1. /\ pc[c] \in AcquireLabels /\ UNCHANGED runErrors /\ Answer(c)
      BY <2>4 DEF CheckAgain, Unlock, logVars
    <3>2. runErrors[c] = 0
      BY <1>3, <3>1 DEF RunBooks
    <3>3. failing[c] = "none"
      BY <1>1, <3>1, LabelType DEF RunOK
    <3>4. \/ failing'[c] = "none"
          \/ failing'[c] = "unavailable"
      BY <1>1, <3>1, <3>3, AnswerMoves DEF PlaceType
    <3>5. QED
      BY <1>3, <3>1, <3>2, <3>4 DEF RunBooks
  <2>5. CASE LeaveTry(c)
    <3>1. /\ failing[c] = "none" /\ UNCHANGED <<failing, runErrors>> /\ pc'[c] = "release"
      BY <1>1, <2>5 DEF LeaveTry, Goto, PlaceType, runVars, logVars
    <3>2. QED
      BY <1>3, <3>1 DEF RunBooks
  <2>6. CASE DestroyInstance(c)
    BY <1>3, <2>6 DEF DestroyInstance, RunBooks, logVars
  <2>7. CASE MakeAlgorithm(c) \/ MakeMissionControl(c)
    <3>1. pc[c] \in BorrowLabels /\ pc'[c] \in BorrowLabels /\ UNCHANGED <<failing, runErrors>>
      BY <1>1, <2>7 DEF MakeAlgorithm, MakeMissionControl, Goto, PlaceType, logVars
    <3>2. QED
      BY <1>1, <1>3, <3>1, LabelType DEF RunBooks, RunOK
  <2>8. CASE Acquiring(c)
    <3>1. /\ pc[c] \in {"idle"} \cup AcquireLabels /\ pc'[c] \in AcquireLabels
          /\ UNCHANGED failing
      BY <1>1, <2>8, AcquireMoves DEF CodeInv
    <3>2. UNCHANGED runErrors
      BY <2>8 DEF Acquiring, SlotStep, Start, Check, LockToLoad, LookAgain, OpenLibrary, OpenFails,
                  Claim, DropStrays, CloseRejected, ReportFailure, Publish, RecordLoad,
                  ClearFactory, CloseLibrary, Retire, logVars
    <3>3. QED
      BY <1>1, <1>3, <3>1, <3>2, LabelType DEF RunBooks, RunOK
  <2>9. CASE Release(c)
    <3>1. UNCHANGED <<failing, runErrors>>
      BY <2>9 DEF Release, GiveBack, LockToUnload, NothingToUnload, ClearFactory, CloseLibrary,
                   Retire, runVars, logVars
    <3>2. pc[c] \in ReleaseLabels /\ pc'[c] \in ReleaseLabels \cup {"done"}
      BY <1>1, <2>9, ReleaseMoves
    <3>3. QED
      BY <1>3, <3>1, <3>2 DEF RunBooks, ReleaseLabels, UnloadLabels
  <2>10. SlotStep(c) => pc[c] \in LoadLabels \/ Release(c)
    BY DEF SlotStep, Release, LookAgain, OpenLibrary, OpenFails, Claim, DropStrays, CloseRejected,
           ReportFailure, Publish, RecordLoad, Goto
  <2>11. QED
    BY <2>1, <2>2, <2>3, <2>4, <2>5, <2>6, <2>7, <2>8, <2>9, <2>10
       DEF CellStep, Run, Ensure, Acquiring, SlotStep
<1>4. QED
  BY <1>2, <1>3

(* The counters: opens and closes differ by the libraries that are mapped. *)
Mapped == {s \in Slots : mapped[s]}

LEMMA CountBooksStep ==
  ASSUME CodeInv, opens - closes = Cardinality(Mapped), NEW c \in Cells, CellStep(c)
  PROVE  opens' - closes' = Cardinality(Mapped')
<1>1. /\ PlaceType /\ SlotType /\ CountType /\ RegistrarType /\ RunType /\ MutexInv
      /\ Target(c) \in Slots /\ SlotOK(Target(c)) /\ PlaceOK(c)
  BY TypeParts, TargetType DEF CodeInv, SlotInv, PlaceInv
<1>2. IsFiniteSet(Mapped) /\ Cardinality(Mapped) \in Nat
  BY RegistryAssumption, FS_Subset, FS_CardinalityType DEF Mapped
<1>3. CASE OpenLibrary(c)
  <2>1. /\ pc[c] = "open" /\ UNCHANGED role /\ opens' = opens + 1 /\ closes' = closes
        /\ mapped' = [mapped EXCEPT ![Target(c)] = TRUE]
    BY <1>3 DEF OpenLibrary, CountOpen, Goto
  <2>2. Target(c) \notin Mapped
    <3>1. ~At(Target(c), {"judge", "reject", "publish"})
      <4>1. {"judge", "reject", "publish"} \in SUBSET Locked /\ pc[c] \in Locked
        BY <2>1 DEF Locked, LoadLabels, UnloadLabels
      <4>2. CellStep(c)
        OBVIOUS
      <4>3. At(Target(c), {"judge", "reject", "publish"}) <=> pc[c] \in {"judge", "reject", "publish"}
        BY <1>1, <2>1, <4>1, <4>2, AtTarget
      <4>4. QED
        BY <2>1, <4>3
    <3>2. state[Target(c)] = "NotLoaded"
      BY <1>1, <2>1 DEF PlaceOK
    <3>3. QED
      BY <1>1, <3>1, <3>2 DEF SlotOK, Mapped
  <2>3. Mapped' = Mapped \cup {Target(c)}
    BY <1>1, <2>1 DEF Mapped, SlotType
  <2>4. Cardinality(Mapped') = Cardinality(Mapped) + 1
    BY <1>2, <2>2, <2>3, FS_AddElement
  <2>5. QED
    BY <1>1, <1>2, <2>1, <2>4 DEF CountType
<1>4. CASE CloseRejected(c) \/ CloseLibrary(c)
  <2>1. /\ mapped' = [mapped EXCEPT ![Target(c)] = FALSE] /\ opens' = opens
        /\ closes' = closes + IF mapped[Target(c)] THEN 1 ELSE 0
    BY <1>4 DEF CloseRejected, CloseLibrary, CountClose
  <2>2. Mapped' = Mapped \ {Target(c)}
    BY <1>1, <2>1 DEF Mapped, SlotType
  <2>3. Cardinality(Mapped') = Cardinality(Mapped) - IF mapped[Target(c)] THEN 1 ELSE 0
    <3>1. Cardinality(Mapped')
            = IF Target(c) \in Mapped THEN Cardinality(Mapped) - 1 ELSE Cardinality(Mapped)
      BY <1>2, <2>2, FS_RemoveElement
    <3>2. Target(c) \in Mapped <=> mapped[Target(c)]
      BY <1>1 DEF Mapped
    <3>3. QED
      BY <1>2, <3>1, <3>2
  <2>4. QED
    BY <1>1, <1>2, <2>1, <2>3 DEF CountType
<1>5. CASE UNCHANGED loaderVars
  BY <1>5 DEF loaderVars, Mapped
<1>6. QED
  BY <1>3, <1>4, <1>5, LogMoves

LEMMA BooksCell ==
  ASSUME CodeInv, BooksInv, NEW c \in Cells, CellStep(c)
  PROVE  BooksInv'
<1>1. ASSUME NEW s \in Slots
      PROVE  SlotBooks(s)'
  <2>1. SlotBooks(s)
    BY DEF BooksInv
  <2>2. Retire(c) => SlotStep(c)
    BY DEF SlotStep
  <2>3. QED
    BY <2>1, <2>2, QuietOrNot, SlotBooksQuiet, SlotBooksOthers, SlotBooksTarget, SlotBooksRetire
<1>2. \A d \in Cells : RunBooks(d)'
  BY RunBooksStep DEF BooksInv
<1>3. (opens - closes = Cardinality({s \in Slots : mapped[s]}))'
  BY CountBooksStep DEF BooksInv, Mapped
<1>4. QED
  BY <1>1, <1>2, <1>3 DEF BooksInv

LEMMA BooksInit == Init => BooksInv
<1> SUFFICES ASSUME Init
             PROVE  BooksInv
  OBVIOUS
<1>1. \A s, labels : "idle" \notin labels => ~At(s, labels)
  BY DEF Init, At
<1>2. ASSUME NEW s \in Slots
      PROVE  SlotBooks(s)
  <2>1. ~At(s, {"recordLoad"}) /\ ~At(s, {"reportFailure"})
    BY <1>1
  <2>2. /\ state[s] = IF s \in Adopted THEN "Loaded" ELSE "NotLoaded"
        /\ lifecycle[s] = <<>> /\ loadErrors[s] = 0 /\ attempts[s] = 0 /\ phase = "discovered"
    BY DEF Init
  <2>3. QED
    BY <2>1, <2>2 DEF SlotBooks
<1>3. \A c \in Cells : RunBooks(c)
  BY DEF Init, RunBooks
<1>4. {s \in Slots : mapped[s]} = {}
  BY DEF Init
<1>5. opens - closes = Cardinality({s \in Slots : mapped[s]})
  <2>1. opens = 0 /\ closes = 0
    BY DEF Init
  <2>2. QED
    BY <1>4, <2>1, FS_EmptySet
<1>6. QED
  BY <1>2, <1>3, <1>5 DEF BooksInv

(* Main's steps: nobody is inside the code then. *)
LEMMA BooksMain ==
  ASSUME CodeInv, BooksInv, Reserve \/ ClearRegistrar \/ UNCHANGED vars
  PROVE  BooksInv'
<1>1. /\ UNCHANGED <<state, attempts, loadErrors, runErrors, lifecycle, pc, role, failing,
                     mapped, opens, closes>>
      /\ ~Reserve => (phase' = "discovered" <=> phase = "discovered")
  BY DEF Reserve, ClearRegistrar, vars, slotVars, loaderVars, logVars, runVars
<1>2. ASSUME NEW s \in Slots
      PROVE  SlotBooks(s)'
  <2>1. /\ SlotBooks(s) /\ UsersOf(s)' = UsersOf(s) /\ Owing(s)' = Owing(s)
        /\ Started(s)' = Started(s)
    BY <1>1 DEF BooksInv, UsersOf, Owing, Owes, Started
  <2>2. \A labels : At(s, labels)' <=> At(s, labels)
    BY <1>1 DEF At, Target
  <2>3. CASE Reserve
    <3>1. \A c \in Cells : pc[c] = "idle"
      BY <2>3 DEF Reserve, CodeInv, PhaseInv
    <3>2. Owing(s) = UsersOf(s)
      BY <3>1 DEF Owing, Owes, UsersOf, ReleaseLabels, UnloadLabels
    <3>3. QED
      BY <1>1, <2>1, <2>2, <3>2 DEF SlotBooks
  <2>4. CASE ~Reserve
    BY <1>1, <2>1, <2>2, <2>4 DEF SlotBooks
  <2>5. QED
    BY <2>3, <2>4
<1>3. \A c \in Cells : RunBooks(c)'
  BY <1>1 DEF BooksInv, RunBooks
<1>4. QED
  BY <1>1, <1>2, <1>3 DEF BooksInv

LEMMA BooksSweep ==
  ASSUME CodeInv, BooksInv, ReleaseAll
  PROVE  BooksInv'
<1>1. /\ \A c \in Cells : pc[c] = "done"
      /\ UNCHANGED <<attempts, opens, loadErrors, runErrors, pc, role, failing>>
      /\ SlotType /\ LogType /\ CountType /\ phase # "discovered"
  BY TypeParts DEF ReleaseAll, CodeInv, PhaseInv, runVars
<1>2. ASSUME NEW s \in Slots
      PROVE  SlotBooks(s)'
  <2>1. /\ SlotBooks(s) /\ UsersOf(s)' = UsersOf(s) /\ Owing(s) = {}
        /\ Started(s)' = Started(s)
    BY <1>1 DEF BooksInv, UsersOf, Owing, Owes, Started
  <2>2. \A labels : "done" \notin labels => ~At(s, labels) /\ ~At(s, labels)'
    BY <1>1 DEF At
  <2>3. /\ ~At(s, {"recordLoad"}) /\ ~At(s, {"recordLoad"})'
        /\ ~At(s, {"reportFailure"}) /\ ~At(s, {"reportFailure"})'
        /\ ~At(s, {"lockUnload"} \cup UnloadLabels)
    BY <2>2 DEF UnloadLabels
  <2>4. CASE state[s] = "Loaded"
    <3>1. UsersOf(s) = {}
      BY <1>1, <2>1, <2>3, <2>4 DEF SlotBooks
    <3>2. s \in Adopted
      <4>1. SlotOK(s) /\ attempts[s] # 1
        BY <2>1, <3>1 DEF SlotBooks, Started, CodeInv, SlotInv
      <4>2. QED
        BY <2>4, <4>1 DEF SlotOK
    <3>3. state'[s] = "Unloaded" /\ lifecycle'[s] = lifecycle[s]
      BY <2>4, <3>2 DEF ReleaseAll
    <3>4. QED
      BY <1>1, <2>1, <2>3, <2>4, <3>2, <3>3 DEF SlotBooks
  <2>5. CASE state[s] # "Loaded"
    <3>1. state'[s] = state[s] /\ lifecycle'[s] = lifecycle[s]
      BY <2>5 DEF ReleaseAll
    <3>2. QED
      BY <1>1, <2>1, <2>3, <2>5, <3>1 DEF SlotBooks
  <2>6. QED
    BY <2>4, <2>5
<1>3. \A c \in Cells : RunBooks(c)'
  BY <1>1 DEF BooksInv, RunBooks
<1>4. (opens - closes = Cardinality({s \in Slots : mapped[s]}))'
  <2>. DEFINE Gone == {s \in Slots : mapped[s] /\ state[s] = "Loaded"}
  <2>1. closes' = closes + Cardinality(Gone) /\ Mapped' = Mapped \ Gone
    BY DEF ReleaseAll, Mapped
  <2>2. IsFiniteSet(Mapped) /\ Cardinality(Mapped) \in Nat /\ Mapped \cap Gone = Gone
        /\ IsFiniteSet(Gone) /\ Cardinality(Gone) \in Nat
    BY RegistryAssumption, FS_Subset, FS_CardinalityType DEF Mapped
  <2>. HIDE DEF Gone
  <2>3. Cardinality(Mapped') = Cardinality(Mapped) - Cardinality(Gone)
    <3>1. Cardinality(Mapped \ Gone) = Cardinality(Mapped) - Cardinality(Mapped \cap Gone)
      BY <2>2, FS_Difference
    <3>2. QED
      BY <2>1, <2>2, <3>1
  <2>4. opens - closes = Cardinality(Mapped)
    BY DEF BooksInv, Mapped
  <2>5. opens' - closes' = Cardinality(Mapped')
    BY <1>1, <2>1, <2>2, <2>3, <2>4 DEF CountType
  <2>6. QED
    BY <2>5 DEF Mapped
<1>5. QED
  BY <1>2, <1>3, <1>4 DEF BooksInv

LEMMA NextBooks == CodeInv /\ BooksInv /\ [Next]_vars => BooksInv'
<1>1. [Next]_vars => \/ Reserve \/ ClearRegistrar \/ ReleaseAll \/ UNCHANGED vars
                     \/ \E c \in Cells : CellStep(c)
  BY DEF Next, Terminated, CellStep
<1>2. QED
  BY <1>1, BooksMain, BooksSweep, BooksCell


(* The inductive invariant: type correctness, who holds load_mutex_, that   *)
(* pending_uses_ counts the uses outstanding, and what each slot, thread    *)
(* and run holds at every point of the loading and unloading code; and how  *)
(* the failures and the lines of the lifecycle log have been accounted for. *)
THEOREM RegistryInvariant == Spec => []IInv
<1>1. Init => IInv
  BY InitCodeInv, BooksInit DEF IInv
<1>2. IInv /\ [Next]_vars => IInv'
  BY NextCodeInv, NextBooks DEF IInv
<1>3. QED
  BY <1>1, <1>2, PTL DEF Spec

THEOREM RegistryTypeCorrect == Spec => []TypeOK
<1>1. CodeInv => TypeOK
  BY DEF CodeInv
<1>2. QED
  BY <1>1, CodeInvariant, PTL

-----------------------------------------------------------------------------
(* What follows from it. *)

LEMMA BatchOverSays ==
  ASSUME IInv, BatchOver, NEW s \in Slots
  PROVE  /\ Owing(s) = {} /\ \A labels : "done" \notin labels => ~At(s, labels)
         /\ SlotOK(s) /\ SlotBooks(s) /\ phase # "discovered"
         /\ state[s] \in {"NotLoaded", "Loaded", "Failed", "Unloaded"}
<1>1. Owing(s) = {} /\ \A labels : "done" \notin labels => ~At(s, labels)
  BY DEF BatchOver, Owing, Owes, UsersOf, At
<1>2. QED
  BY <1>1 DEF IInv, CodeInv, BooksInv, SlotInv, TypeOK, BatchOver

(* A failed load has one line in the error log however many runs it takes    *)
(* down, and a run that an exception takes down has its own.                 *)
THEOREM EachFailureLoggedOnceHolds == Spec => []EachFailureLoggedOnce
<1>1. IInv => EachFailureLoggedOnce
  <2> SUFFICES ASSUME IInv, BatchOver
               PROVE  /\ \A s \in Slots : loadErrors[s] = IF state[s] = "Failed" THEN 1 ELSE 0
                      /\ \A c \in Cells :
                           /\ failing[c] = "unavailable" => runErrors[c] = 0
                           /\ failing[c] = "exception" => runErrors[c] = 1
    BY DEF EachFailureLoggedOnce
  <2>1. \A s \in Slots : loadErrors[s] = IF state[s] = "Failed" THEN 1 ELSE 0
    BY BatchOverSays DEF SlotBooks
  <2>2. \A c \in Cells : RunBooks(c) /\ pc[c] = "done"
    BY DEF IInv, BooksInv, BatchOver
  <2>3. QED
    BY <2>1, <2>2 DEF RunBooks
<1>2. QED
  BY <1>1, RegistryInvariant, PTL

(* The books of a finished batch balance, whatever was adopted, failed to    *)
(* load or threw: the lines of every slot, the uses, the mappings, the       *)
(* factories that runs borrowed, and the two process-wide counters.          *)
THEOREM AuditTrailBalancesHolds == Spec => []AuditTrailBalances
<1>1. IInv => AuditTrailBalances
  <2> SUFFICES ASSUME IInv, BatchOver
               PROVE  AuditTrailBalances
    BY DEF AuditTrailBalances
  <2>1. ASSUME NEW s \in Slots
        PROVE  /\ lifecycle[s] = IF state[s] = "Failed" THEN <<"LOAD_FAILED">>
                                 ELSE IF attempts[s] = 1 THEN <<"LOAD", "UNLOAD">>
                                 ELSE <<>>
               /\ pending[s] = 0 /\ ~mapped[s]
               /\ UsersOf(s) # {} => factory[s] = None
    <3>1. /\ Owing(s) = {} /\ SlotOK(s) /\ SlotBooks(s) /\ phase # "discovered"
          /\ state[s] \in {"NotLoaded", "Loaded", "Failed", "Unloaded"}
      BY BatchOverSays
    <3>2. /\ ~At(s, {"lockUnload"} \cup UnloadLabels) /\ ~At(s, {"publish"})
          /\ ~At(s, {"judge", "reject", "publish"}) /\ ~At(s, {"open", "judge", "reject", "publish"})
          /\ ~At(s, {"close", "retire"}) /\ ~At(s, {"retire"})
          /\ ~At(s, {"reportFailure"}) /\ ~At(s, {"recordLoad"})
      BY BatchOverSays DEF UnloadLabels
    <3>3. pending[s] = 0
      BY <3>1, FS_EmptySet DEF IInv, CodeInv, PendingInv
    <3>4. state[s] = "Loaded" => s \in Adopted /\ UsersOf(s) = {}
      BY <3>1, <3>2 DEF SlotOK, SlotBooks, Started
    <3>5. QED
      BY <3>1, <3>2, <3>3, <3>4 DEF SlotOK, SlotBooks
  <2>2. opens = closes
    <3>1. {s \in Slots : mapped[s]} = {}
      BY <2>1
    <3>2. opens - closes = 0
      BY <3>1, FS_EmptySet DEF IInv, BooksInv
    <3>3. QED
      BY <3>2 DEF IInv, CodeInv, TypeOK
  <2>3. QED
    BY <2>1, <2>2 DEF AuditTrailBalances
<1>2. QED
  BY <1>1, RegistryInvariant, PTL

LEMMA BorrowedInv == CodeInv => BorrowedStaysLoaded
<1> SUFFICES ASSUME CodeInv, NEW c \in Cells, NEW k \in Kinds, Using(c, k)
             PROVE  state[Plugin[c][k]] = "Loaded" /\ factory[Plugin[c][k]] = Plugin[c][k]
  BY DEF BorrowedStaysLoaded
<1>1. state[Plugin[c][k]] = "Loaded"
  BY DEF CodeInv, RunInv, RunOK
<1>2. Owing(Plugin[c][k]) # {}
  BY UsingOwes, TypeParts DEF CodeInv
<1>3. ~At(Plugin[c][k], {"close", "retire"})
  BY <1>2 DEF CodeInv, PlaceInv, PlaceOK, At, UnloadLabels
<1>4. QED
  BY <1>1, <1>3, PluginType DEF CodeInv, SlotInv, SlotOK

LEMMA SlotSays ==
  ASSUME CodeInv, NEW s \in Slots
  PROVE  factory[s] \in {s, None} /\ attempts[s] \in {0, 1}
<1>1. SlotOK(s) /\ state[s] \in {"NotLoaded", "Loaded", "Failed", "Unloaded"}
  BY DEF CodeInv, SlotInv, TypeOK
<1>2. QED
  BY <1>1 DEF SlotOK

LEMMA DanglingInv == CodeInv => NoDanglingCode
<1> SUFFICES ASSUME CodeInv
             PROVE  NoDanglingCode
  OBVIOUS
<1>1. ASSUME NEW s \in Slots, factory[s] # None
      PROVE  Callable(s)
  <2>1. SlotOK(s) /\ state[s] \in {"NotLoaded", "Loaded", "Failed", "Unloaded"}
    BY DEF CodeInv, SlotInv, TypeOK
  <2>2. At(s, {"publish"}) => At(s, {"judge", "reject", "publish"})
    BY DEF At
  <2>3. At(s, {"retire"}) => At(s, {"close", "retire"})
    BY DEF At
  <2>4. QED
    BY <1>1, <2>1, <2>2, <2>3 DEF SlotOK, Callable
<1>2. \A s \in Slots : factory[s] # None => Callable(factory[s])
  <2>1. \A s \in Slots : factory[s] \in {s, None}
    BY SlotSays
  <2>2. QED
    BY <1>1, <2>1
<1>3. ASSUME NEW c \in Cells, NEW k \in Kinds, instance[c][k] # None
      PROVE  Callable(instance[c][k])
  <2>1. instance[c][k] = Plugin[c][k] /\ Using(c, k)
    BY <1>3 DEF CodeInv, RunInv, RunOK
  <2>2. factory[Plugin[c][k]] = Plugin[c][k]
    BY <2>1, BorrowedInv DEF BorrowedStaysLoaded
  <2>3. QED
    BY <1>1, <2>1, <2>2, PluginType
<1>4. ASSUME NEW k \in Kinds, NEW i \in DOMAIN registrar[k]
      PROVE  Callable(registrar[k][i])
  <2>1. PICK c \in Cells : pc[c] = "judge" /\ Target(c) = registrar[k][i]
    BY DEF CodeInv, RegistrarInv, At
  <2>2. state[Target(c)] = "NotLoaded" /\ Target(c) \in Slots
    BY <2>1, TargetType, TypeParts DEF CodeInv, PlaceInv, PlaceOK
  <2>3. At(Target(c), {"judge", "reject", "publish"})
    BY <2>1 DEF At
  <2>4. QED
    BY <2>1, <2>2, <2>3 DEF CodeInv, SlotInv, SlotOK, Callable
<1>5. QED
  BY <1>2, <1>3, <1>4 DEF NoDanglingCode

(* No live plugin object, no slot and no factory in the Registrar ever leads *)
(* into a library that dlclose has unmapped.                                 *)
THEOREM NoDanglingCodeHolds == Spec => []NoDanglingCode
BY DanglingInv, CodeInvariant, PTL

(* A slot serves its own library's factory, and so does every run: counting  *)
(* what the Registrar holds before and after dlopen tells whose factory it   *)
(* is, because loads do not overlap.                                         *)
THEOREM OwnFactoryHolds == Spec => []OwnFactory
<1>1. CodeInv => OwnFactory
  <2> SUFFICES ASSUME CodeInv
               PROVE  OwnFactory
    OBVIOUS
  <2>1. \A s \in Slots : factory[s] \in {s, None}
    BY SlotSays
  <2>2. \A c \in Cells, k \in Kinds : instance[c][k] \in {Plugin[c][k], None}
    BY DEF CodeInv, RunInv, RunOK
  <2>3. QED
    BY <2>1, <2>2 DEF OwnFactory
<1>2. QED
  BY <1>1, CodeInvariant, PTL

(* Whatever the other runs of a plugin give back, the pointer a run acquired *)
(* stays good until that run is torn down.                                   *)
THEOREM BorrowedStaysLoadedHolds == Spec => []BorrowedStaysLoaded
BY BorrowedInv, CodeInvariant, PTL

(* No library is opened twice, however many runs ask for it at once.         *)
THEOREM LoadedAtMostOnceHolds == Spec => []LoadedAtMostOnce
<1>1. CodeInv => LoadedAtMostOnce
  BY SlotSays DEF LoadedAtMostOnce
<1>2. QED
  BY <1>1, CodeInvariant, PTL

(* A run is turned away exactly for a plugin whose load failed.              *)
THEOREM OneVerdictPerPluginHolds == Spec => []OneVerdictPerPlugin
<1>1. CodeInv => OneVerdictPerPlugin
  <2> SUFFICES ASSUME CodeInv, NEW c \in Cells, pc[c] = "done"
               PROVE  failing[c] = "unavailable" <=> \E k \in Kinds : state[Plugin[c][k]] = "Failed"
    BY DEF OneVerdictPerPlugin
  <2>1. \A k \in Kinds : RunOK(c, k)
    BY DEF CodeInv, RunInv
  <2>2. QED
    BY <2>1, LabelType DEF RunOK
<1>2. QED
  BY <1>1, CodeInvariant, PTL

(* Nothing is left in the Registrar when the lock is given up, to be taken   *)
(* for the next library's factory.                                           *)
THEOREM RegistrarEmptyBetweenLoadsHolds == Spec => []RegistrarEmptyBetweenLoads
<1>1. CodeInv => RegistrarEmptyBetweenLoads
  <2> SUFFICES ASSUME CodeInv, mutex = None, NEW k \in Kinds
               PROVE  registrar[k] = <<>>
    BY DEF RegistrarEmptyBetweenLoads
  <2>1. \A c \in Cells : pc[c] # "judge"
    BY PluginType, LabelType DEF CodeInv, MutexInv, LoadLabels
  <2>2. \A i \in DOMAIN registrar[k] : FALSE
    BY <2>1 DEF CodeInv, RegistrarInv, At
  <2>3. registrar[k] \in Seq(Slots)
    BY DEF CodeInv, TypeOK
  <2>4. QED
    BY <2>2, <2>3, EmptyIffNoIndex
<1>2. QED
  BY <1>1, CodeInvariant, PTL


-----------------------------------------------------------------------------
(* The registry keeps PluginLifecycle's promise. *)

LEMMA InitRefines == Init => Lifecycle!Init
<1> SUFFICES ASSUME Init
             PROVE  Lifecycle!Init
  OBVIOUS
<1>1. \A c \in Cells : pc[c] = "idle" /\ role[c] = "algorithm"
  BY DEF Init
<1>2. \A s \in Slots : OfferOf(s) = IF s \in Adopted THEN "offered" ELSE "waiting"
  BY DEF Init, OfferOf
<1>3. \A s \in Slots : UsingOf(s) = {} /\ Owing(s) = UsersOf(s)
  BY <1>1 DEF UsingOf, Owing, UsersOf, Using, Owes, BorrowLabels, AcquireLabels, LoadLabels,
              ReleaseLabels, UnloadLabels
<1>4. QED
  BY <1>2, <1>3 DEF Lifecycle!Init

(* A step that leaves the states and every run's standing alone is invisible. *)
LEMMA Invisible ==
  ASSUME \A s \in Slots : OfferOf(s)' = OfferOf(s) /\ UsingOf(s)' = UsingOf(s) /\ Owing(s)' = Owing(s)
  PROVE  UNCHANGED Lifecycle!vars
BY DEF Lifecycle!vars

LEMMA UsingOfOthers ==
  ASSUME PlaceType, RegistrarType, RunType, NEW c \in Cells, CellStep(c), NEW s \in Slots
  PROVE  \A d : d # c => (d \in UsingOf(s)' <=> d \in UsingOf(s))
BY OthersStay DEF UsingOf, UsersOf, Using

LEMMA UsingOfKept ==
  ASSUME PlaceType, RegistrarType, RunType, NEW c \in Cells, CellStep(c),
         \A k \in Kinds : Using(c, k)' <=> Using(c, k), NEW s \in Slots
  PROVE  UsingOf(s)' = UsingOf(s)
<1>1. Using(c, KindOf[s])' <=> Using(c, KindOf[s])
  BY KindType
<1>2. \A d : d # c => (d \in UsingOf(s)' <=> d \in UsingOf(s))
  BY UsingOfOthers
<1>3. c \in UsingOf(s)' <=> c \in UsingOf(s)
  BY <1>1 DEF UsingOf, UsersOf
<1>4. QED
  BY <1>2, <1>3


(* A load that is decided. *)
LEMMA DecideRefines ==
  ASSUME CodeInv, NEW c \in Cells, Acquiring(c), CellStep(c)
  PROVE  Lifecycle!Next \/ UNCHANGED Lifecycle!vars
<1>1. /\ PlaceType /\ SlotType /\ RegistrarType /\ RunType /\ MutexInv /\ PlaceInv
      /\ Target(c) \in Slots
  BY TypeParts, TargetType DEF CodeInv
<1>2. \A s \in Slots : UsingOf(s)' = UsingOf(s)
  BY <1>1, AcquireMoves, UsingOfKept
<1>3. ~GiveBack(c)
  BY <1>1, AcquireMoves DEF GiveBack, AcquireLabels, LoadLabels
<1>4. \A s \in Slots : Owing(s)' = Owing(s)
  BY <1>1, <1>3, OwingKept
<1>5. CASE UNCHANGED state
  BY <1>2, <1>4, <1>5, Invisible DEF OfferOf
<1>6. CASE state' # state
  <2>1. PICK to \in {"Loaded", "Failed"} : state' = [state EXCEPT ![Target(c)] = to]
    <3>1. CASE SlotStep(c)
      BY <1>6, <3>1, AcquireMoves, <1>1 DEF SlotStep, LookAgain, OpenLibrary, OpenFails, Claim, DropStrays,
         CloseRejected, ReportFailure, Publish, RecordLoad, ClearFactory, CloseLibrary, Retire,
         slotVars, Goto, LoadLabels, AcquireLabels
    <3>2. CASE ~SlotStep(c)
      BY <1>1, <1>6, <3>2, QuietOrNot, QuietMoves
    <3>3. QED
      BY <3>1, <3>2
  <2>2. state[Target(c)] = "NotLoaded"
    BY <1>1, <1>6, <2>1, StateMoves DEF SlotType
  <2>3. /\ OfferOf(Target(c)) = "waiting"
        /\ \E verdict \in {"offered", "rejected"} : \A s \in Slots :
             OfferOf(s)' = IF s = Target(c) THEN verdict ELSE OfferOf(s)
    <3>1. OfferOf(Target(c)) = "waiting"
      BY <2>2 DEF OfferOf
    <3>2. \A s \in Slots : OfferOf(s)' = IF s = Target(c)
                                         THEN IF to = "Loaded" THEN "offered" ELSE "rejected"
                                         ELSE OfferOf(s)
      BY <1>1, <2>1 DEF OfferOf, SlotType
    <3>3. QED
      BY <3>1, <3>2
  <2>4. Lifecycle!Decide(Target(c))
    BY <1>1, <1>2, <1>4, <2>3 DEF Lifecycle!Decide
  <2>5. QED
    BY <1>1, <2>4 DEF Lifecycle!Next
<1>7. QED
  BY <1>5, <1>6

(* An answer: the plugin is borrowed, or the run turned away. *)
LEMMA AnswerRefines ==
  ASSUME CodeInv, NEW c \in Cells, CheckAgain(c) \/ Unlock(c)
  PROVE  Lifecycle!Next \/ UNCHANGED Lifecycle!vars
<1>1. /\ PlaceType /\ SlotType /\ RegistrarType /\ RunType /\ MutexInv /\ PlaceInv
      /\ Target(c) \in Slots /\ c \in UsersOf(Target(c)) /\ KindOf[Target(c)] = role[c]
      /\ role[c] \in Kinds
  BY TypeParts, TargetType DEF CodeInv
<1>2. /\ pc[c] \in {"checkAgain", "answer"} /\ Answer(c) /\ UNCHANGED state
      /\ CellStep(c) /\ ~GiveBack(c)
  BY DEF CheckAgain, Unlock, slotVars, CellStep, Ensure, GiveBack
<1>3. \A s \in Slots : OfferOf(s)' = OfferOf(s) /\ Owing(s)' = Owing(s)
  <2>1. \A s \in Slots : OfferOf(s)' = OfferOf(s)
    BY <1>2 DEF OfferOf
  <2>2. QED
    BY <1>1, <1>2, <2>1, OwingKept
<1>4. CASE state[Target(c)] = "Loaded"
  <2>1. /\ role'[c] = "mission control" /\ failing'[c] = failing[c]
        /\ pc'[c] = IF role[c] = "algorithm" THEN "check" ELSE "prepare"
    BY <1>1, <1>2, <1>4, AnswerMoves DEF PlaceType
  <2>2. failing[c] = "none"
    BY <1>2, LabelType DEF CodeInv, RunInv, RunOK, AcquireLabels, LoadLabels
  <2>3. ~Using(c, role[c]) /\ \A k \in Kinds : Using(c, k)' <=> k = role[c] \/ Using(c, k)
    BY <1>1, <1>2, <2>1, <2>2, LabelType DEF Using, AcquireLabels, BorrowLabels, LoadLabels
  <2>4. \A s \in Slots : UsingOf(s)' = IF s = Target(c) THEN UsingOf(s) \cup {c} ELSE UsingOf(s)
    <3>1. ASSUME NEW s \in Slots
          PROVE  c \in UsingOf(s)' <=> s = Target(c) \/ c \in UsingOf(s)
      <4>1. c \in UsersOf(s) => (KindOf[s] = role[c] <=> s = Target(c))
        BY <1>1 DEF UsersOf, Target
      <4>2. Using(c, KindOf[s])' <=> KindOf[s] = role[c] \/ Using(c, KindOf[s])
        BY <2>3, KindType
      <4>3. QED
        BY <1>1, <4>1, <4>2 DEF UsingOf, UsersOf
    <3>2. \A s \in Slots : \A d : d # c => (d \in UsingOf(s)' <=> d \in UsingOf(s))
      BY <1>1, <1>2, UsingOfOthers
    <3>3. QED
      BY <3>1, <3>2
  <2>5. c \in Owing(Target(c)) /\ c \notin UsingOf(Target(c)) /\ OfferOf(Target(c)) = "offered"
    <3>1. c \in Owing(Target(c))
      BY <1>1, <1>2, Borrows DEF Target, ReleaseLabels, UnloadLabels
    <3>2. QED
      BY <1>1, <1>4, <2>3, <3>1 DEF UsingOf, OfferOf
  <2>6. Lifecycle!Borrow(c, Target(c))
    BY <1>1, <1>3, <2>4, <2>5 DEF Lifecycle!Borrow
  <2>7. QED
    BY <1>1, <2>6 DEF Lifecycle!Next
<1>5. CASE state[Target(c)] # "Loaded"
  <2>1. role'[c] = role[c] /\ failing'[c] = "unavailable" /\ pc'[c] = "unwind"
    BY <1>1, <1>2, <1>5, AnswerMoves DEF PlaceType
  <2>2. failing[c] = "none"
    BY <1>2, LabelType DEF CodeInv, RunInv, RunOK, AcquireLabels, LoadLabels
  <2>3. \A k \in Kinds : Using(c, k)' <=> Using(c, k)
    BY <1>2, <2>1, <2>2 DEF Using, AcquireLabels, BorrowLabels, LoadLabels
  <2>4. QED
    BY <1>1, <1>2, <1>3, <2>3, UsingOfKept, Invisible
<1>6. QED
  BY <1>4, <1>5


(* The run at work, and its end. *)
LEMMA RunRefines ==
  ASSUME CodeInv, NEW c \in Cells, Run(c)
  PROVE  Lifecycle!Next \/ UNCHANGED Lifecycle!vars
<1>1. /\ PlaceType /\ SlotType /\ RegistrarType /\ RunType /\ MutexInv
      /\ CellStep(c) /\ UNCHANGED state /\ pc[c] # "release"
  <2>1. PlaceType /\ SlotType /\ RegistrarType /\ RunType /\ MutexInv
    BY TypeParts DEF CodeInv
  <2>2. UNCHANGED state
    BY <2>1, QuietMoves DEF Quiet
  <2>3. pc[c] # "release"
    BY DEF Run, MakeAlgorithm, MakeMissionControl, RunReturns, RunThrows, DestroyInstance, LeaveTry,
           Catch, Goto
  <2>4. QED
    BY <2>1, <2>2, <2>3 DEF CellStep
<1>2. \A s \in Slots : OfferOf(s)' = OfferOf(s) /\ Owing(s)' = Owing(s)
  <2>1. \A s \in Slots : OfferOf(s)' = OfferOf(s)
    BY <1>1 DEF OfferOf
  <2>2. QED
    BY <1>1, <2>1, OwingKept DEF GiveBack
<1>3. CASE LeaveTry(c) \/ Catch(c)
  <2>1. pc'[c] = "release"
    BY <1>1, <1>3 DEF LeaveTry, Catch, Goto, PlaceType
  <2>2. \A k \in Kinds : ~Using(c, k)'
    BY <2>1 DEF Using, AcquireLabels, BorrowLabels, LoadLabels
  <2>3. \A s \in Slots : UsingOf(s)' = UsingOf(s) \ {c}
    <3>1. \A s \in Slots : c \notin UsingOf(s)'
      BY <2>2, KindType DEF UsingOf
    <3>2. \A s \in Slots : \A d : d # c => (d \in UsingOf(s)' <=> d \in UsingOf(s))
      BY <1>1, UsingOfOthers
    <3>3. QED
      BY <3>1, <3>2
  <2>4. Lifecycle!TearDown(c)
    BY <1>2, <2>3 DEF Lifecycle!TearDown
  <2>5. QED
    BY <2>4 DEF Lifecycle!Next
<1>4. CASE ~LeaveTry(c) /\ ~Catch(c)
  <2>1. \A k \in Kinds : Using(c, k)' <=> Using(c, k)
    <3>1. CASE DestroyInstance(c)
      BY <3>1 DEF DestroyInstance, Using
    <3>2. CASE ~DestroyInstance(c)
      <4>1. /\ pc[c] \in BorrowLabels
            /\ \/ pc'[c] \in BorrowLabels
               \/ pc'[c] = "unwind" /\ (UNCHANGED failing \/ failing'[c] = "exception")
        BY <1>1, <1>4, <3>2 DEF Run, MakeAlgorithm, MakeMissionControl, RunReturns, RunThrows, Goto,
                                PlaceType, BorrowLabels
      <4>2. failing[c] = "none"
        BY <4>1, LabelType DEF CodeInv, RunInv, RunOK
      <4>3. QED
        BY <4>1, <4>2 DEF Using
    <3>3. QED
      BY <3>1, <3>2
  <2>2. QED
    BY <1>1, <1>2, <2>1, UsingOfKept, Invisible
<1>5. QED
  BY <1>3, <1>4

(* A use is returned, and the last one retires the plugin. *)
LEMMA ReleaseRefines ==
  ASSUME CodeInv, NEW c \in Cells, Release(c)
  PROVE  Lifecycle!Next \/ UNCHANGED Lifecycle!vars
<1>1. /\ PlaceType /\ SlotType /\ RegistrarType /\ RunType /\ MutexInv /\ PlaceInv
      /\ Target(c) \in Slots /\ CellStep(c)
  BY TypeParts, TargetType DEF CodeInv, CellStep
<1>2. \A s \in Slots : UsingOf(s)' = UsingOf(s)
  BY <1>1, ReleaseMoves, UsingOfKept
<1>3. CASE GiveBack(c)
  <2>1. \A s \in Slots : OfferOf(s)' = OfferOf(s)
    BY <1>3 DEF GiveBack, OfferOf
  <2>2. /\ c \in Owing(Target(c))
        /\ \A s \in Slots : Owing(s)' = IF s = Target(c) THEN Owing(s) \ {c} ELSE Owing(s)
    BY <1>1, <1>3, OwingReturned
  <2>3. c \notin UsingOf(Target(c))
    BY <1>1, ReleaseMoves, KindType DEF UsingOf
  <2>4. Lifecycle!Return(c, Target(c))
    BY <1>1, <1>2, <2>1, <2>2, <2>3 DEF Lifecycle!Return
  <2>5. QED
    BY <1>1, <2>4 DEF Lifecycle!Next
<1>4. CASE Retire(c)
  <2>1. pc[c] = "retire" /\ state' = [state EXCEPT ![Target(c)] = "Unloaded"]
    BY <1>4 DEF Retire
  <2>2. state[Target(c)] = "Loaded" /\ Owing(Target(c)) = {}
    BY <1>1, <2>1 DEF PlaceInv, PlaceOK, UnloadLabels
  <2>3. \A s \in Slots : Owing(s)' = Owing(s)
    BY <1>1, <2>1, OwingKept DEF GiveBack
  <2>4. \A s \in Slots : OfferOf(s)' = IF s = Target(c) THEN "retired" ELSE OfferOf(s)
    BY <1>1, <2>1 DEF OfferOf, SlotType
  <2>5. OfferOf(Target(c)) = "offered"
    BY <2>2 DEF OfferOf
  <2>6. Lifecycle!Retire({Target(c)})
    BY <1>1, <1>2, <2>2, <2>3, <2>4, <2>5 DEF Lifecycle!Retire
  <2>7. QED
    BY <1>1, <2>6 DEF Lifecycle!Next
<1>5. CASE ~GiveBack(c) /\ ~Retire(c)
  <2>1. UNCHANGED state
    BY <1>5 DEF Release, LockToUnload, NothingToUnload, ClearFactory, CloseLibrary, slotVars
  <2>2. \A s \in Slots : OfferOf(s)' = OfferOf(s) /\ Owing(s)' = Owing(s)
    <3>1. \A s \in Slots : OfferOf(s)' = OfferOf(s)
      BY <2>1 DEF OfferOf
    <3>2. QED
      BY <1>1, <1>5, <3>1, OwingKept
  <2>3. QED
    BY <1>2, <2>2, Invisible
<1>6. QED
  BY <1>3, <1>4, <1>5

LEMMA SweepRefines ==
  ASSUME CodeInv, ReleaseAll
  PROVE  Lifecycle!Next
<1>1. /\ state' = [s \in Slots |-> IF state[s] = "Loaded" THEN "Unloaded" ELSE state[s]]
      /\ UNCHANGED <<pc, role, failing>>
      /\ \A c \in Cells : pc[c] = "done"
  BY DEF ReleaseAll, CodeInv, PhaseInv, runVars
<1>. DEFINE gone == {s \in Slots : state[s] = "Loaded"}
<1>2. \A s \in Slots : /\ UsingOf(s)' = UsingOf(s) /\ Owing(s)' = Owing(s) /\ Owing(s) = {}
                       /\ s \in gone => OfferOf(s) = "offered"
                       /\ OfferOf(s)' = IF s \in gone THEN "retired" ELSE OfferOf(s)
  <2>1. \A s \in Slots : UsingOf(s)' = UsingOf(s) /\ Owing(s)' = Owing(s) /\ Owing(s) = {}
    BY <1>1 DEF UsingOf, Using, Owing, Owes, UsersOf
  <2>2. \A s \in Slots : s \in gone => OfferOf(s) = "offered"
    BY DEF OfferOf
  <2>3. \A s \in Slots : OfferOf(s)' = IF s \in gone THEN "retired" ELSE OfferOf(s)
    BY <1>1 DEF OfferOf, CodeInv, TypeOK
  <2>4. QED
    BY <2>1, <2>2, <2>3
<1>3. gone \subseteq Slots
  OBVIOUS
<1>. HIDE DEF gone
<1>4. Lifecycle!Retire(gone)
  BY <1>2, <1>3 DEF Lifecycle!Retire
<1>5. QED
  BY <1>3, <1>4 DEF Lifecycle!Next

LEMMA StepRefines == CodeInv /\ [Next]_vars => [Lifecycle!Next]_(Lifecycle!vars)
<1> SUFFICES ASSUME CodeInv, [Next]_vars
             PROVE  Lifecycle!Next \/ UNCHANGED Lifecycle!vars
  OBVIOUS
<1>1. CASE Reserve \/ ClearRegistrar \/ UNCHANGED vars
  <2>1. UNCHANGED <<state, pc, role, failing>>
    BY <1>1 DEF Reserve, ClearRegistrar, vars, slotVars, runVars
  <2>2. QED
    BY <2>1, Invisible DEF OfferOf, UsingOf, Using, Owing, Owes
<1>2. ASSUME NEW c \in Cells, CellStep(c)
      PROVE  Lifecycle!Next \/ UNCHANGED Lifecycle!vars
  <2>1. CASE CheckAgain(c) \/ Unlock(c)
    BY <2>1, AnswerRefines
  <2>2. CASE Run(c)
    BY <2>2, RunRefines
  <2>3. CASE Release(c)
    BY <2>3, ReleaseRefines
  <2>4. CASE Acquiring(c)
    BY <1>2, <2>4, DecideRefines
  <2>5. SlotStep(c) => pc[c] \in LoadLabels \/ Release(c)
    BY DEF SlotStep, Release, LookAgain, OpenLibrary, OpenFails, Claim, DropStrays, CloseRejected,
           ReportFailure, Publish, RecordLoad, Goto, LoadLabels
  <2>6. QED
    BY <1>2, <2>1, <2>2, <2>3, <2>4, <2>5 DEF CellStep, Ensure, Acquiring, SlotStep
<1>3. QED
  BY <1>1, <1>2, SweepRefines DEF Next, Terminated, CellStep

(* Every step of every thread is one move of PluginLifecycle or invisible:   *)
(* a plugin is decided once, borrowed only while it is offered, and retired  *)
(* only when every run that was going to need it has returned its use.       *)
THEOREM RegistryKeepsTheLifecycle == Spec => Lifecycle!Safe
BY InitRefines, StepRefines, CodeInvariant, PTL DEF Spec, Lifecycle!Safe

=============================================================================
